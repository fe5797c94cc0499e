---------------------------- MODULE Export_proofs ----------------------------
(***************************************************************************)
(* What the destination of an export shows, for every monorepo, however    *)
(* often it is exported, however people merge and whatever fails: the      *)
(* trailers found there are true, "up to date" is, and no commit ships     *)
(* twice.                                                                  *)
(***************************************************************************)
EXTENDS Export, FiniteSetTheorems, TLAPS

-----------------------------------------------------------------------------
(* Finite sets of numbers, and induction up to a number. *)

\* A nonempty set of indices has a largest one.
LEMMA MaxExists ==
  ASSUME NEW n \in Nat, NEW I, I \subseteq 1..n, I # {}
  PROVE  \E m \in I : \A i \in I : i <= m
<1> DEFINE Above(i) == (i + 1)..n
           T == {Above(i) : i \in I}
<1>1. IsWellFoundedOn(StrictSubsetOrdering(1..n), SUBSET (1..n))
  <2>1. IsFiniteSet(1..n)
    BY FS_Interval
  <2> QED  BY <2>1, FS_FiniteSubsetsOfFinite, FS_StrictSubsetOrderingWellFounded
<1>2. \A i \in I : Above(i) \in SUBSET (1..n)
  BY SMT
<1>3. PICK X \in T : \A Y \in T : <<Y, X>> \notin StrictSubsetOrdering(1..n)
  <2>1. T \subseteq SUBSET (1..n) /\ T # {}
    BY <1>2
  <2> HIDE DEF T
  <2> QED  BY <1>1, <2>1, WFMin
<1>4. PICK m \in I : X = Above(m)
  BY <1>3
<1>5. ASSUME NEW j \in I, m < j PROVE FALSE
  <2>1. Above(j) \subseteq Above(m) /\ j \in Above(m) /\ j \notin Above(j)
    BY <1>5, SMT
  <2>2. <<Above(j), X>> \in StrictSubsetOrdering(1..n)
    BY <2>1, <1>2, <1>4 DEF StrictSubsetOrdering
  <2> QED  BY <2>2, <1>3
<1>6. I \subseteq Int
  BY SMT
<1> QED  BY <1>5, <1>6, SMT

\* Induction up to n, for what can be put as membership of a set.
LEMMA StepByStep ==
  ASSUME NEW n \in Nat, NEW G, 0 \in G, \A k \in 0..(n - 1) : k \in G => k + 1 \in G
  PROVE  \A k \in 0..n : k \in G
<1> DEFINE H == {j \in 1..(n + 1) : \A i \in 0..(j - 1) : i \in G}
<1>1. 1 \in H
  OBVIOUS
<1>2. PICK m \in H : \A j \in H : j <= m
  <2>1. H \subseteq 1..(n + 1) /\ n + 1 \in Nat
    OBVIOUS
  <2>2. H # {}
    BY <1>1
  <2> HIDE DEF H
  <2> QED  BY <2>1, <2>2, MaxExists
<1>3. m = n + 1
  <2>1. ASSUME m # n + 1 PROVE FALSE
    <3>1. m \in 1..n /\ m - 1 \in 0..(n - 1) /\ m - 1 \in G
      BY <1>2, <2>1
    <3>2. m \in G
      BY <3>1
    <3>3. m + 1 \in H
      BY <1>2, <3>1, <3>2
    <3> QED  BY <1>2, <3>1, <3>3
  <2> QED  BY <2>1
<1> QED  BY <1>2, <1>3

LEMMA MaxProps ==
  ASSUME NEW n \in Nat, NEW I, I \subseteq 1..n, I # {}
  PROVE  Max(I) \in I /\ \A i \in I : i <= Max(I)
<1>1. PICK m \in I : \A i \in I : i <= m
  BY MaxExists
<1>2. I \subseteq Int
  OBVIOUS
<1>3. \A i \in I : m >= i
  BY <1>1, <1>2
<1>4. Max(I) \in I /\ \A i \in I : Max(I) >= i
  BY <1>3 DEF Max
<1> QED  BY <1>2, <1>4

-----------------------------------------------------------------------------
(* The replay of a delta, one monorepo commit after the other. *)

\* F[k] is the head after the first k commits of a delta of n.
Heads(F, base, delta, n) ==
  F[0] = base /\ \A k \in 1..n : F[k] = Replay(F[k - 1], delta[k])

\* A fold by Replay goes through the delta from its first commit to its last.
LEMMA ReplayAll ==
  ASSUME NEW base, NEW delta, NEW n \in Nat, DOMAIN delta = 1..n
  PROVE  \E F : Heads(F, base, delta, n) /\ FoldLeft(Replay, base, delta) = F[n]
<1> DEFINE Step(g, s) == IF s = {} THEN base ELSE Replay(g[s \ {Max(s)}], delta[Max(s)])
           Fold(g, k) == g = [s \in SUBSET (1..k) |-> Step(g, s)]
           G == {k \in 0..n : \E g : Fold(g, k)}
<1>1. 0 \in G
  <2> DEFINE g == [s \in SUBSET (1..0) |-> base]
  <2>1. SUBSET (1..0) = {{}}
    OBVIOUS
  <2>2. Fold(g, 0)
    <3>1. \A s \in SUBSET (1..0) : Step(g, s) = base
      BY <2>1
    <3> QED  BY <3>1
  <2> HIDE DEF g, Fold
  <2> QED  BY <2>2
<1>2. ASSUME NEW k \in 0..(n - 1), k \in G PROVE k + 1 \in G
  <2>1. PICK g : Fold(g, k)
    BY <1>2
  <2> DEFINE h == [s \in SUBSET (1..(k + 1)) |->
                    IF s \in SUBSET (1..k) THEN g[s]
                    ELSE Replay(g[s \ {k + 1}], delta[k + 1])]
  <2>2. ASSUME NEW s \in SUBSET (1..(k + 1)) PROVE h[s] = Step(h, s)
    <3>1. CASE s \in SUBSET (1..k)
      <4>1. h[s] = g[s] /\ g[s] = Step(g, s)
        BY <2>1, <3>1
      <4>2. CASE s = {}
        BY <4>1, <4>2
      <4>3. CASE s # {}
        <5> DEFINE x == s \ {Max(s)}
        <5>1. x \in SUBSET (1..k) /\ x \in SUBSET (1..(k + 1))
          BY <3>1
        <5> HIDE DEF x
        <5>2. h[x] = g[x]
          BY <5>1
        <5> HIDE DEF h
        <5> QED  BY <4>1, <4>3, <5>2 DEF x
      <4> QED  BY <4>2, <4>3
    <3>2. CASE s \notin SUBSET (1..k)
      <4>1. k + 1 \in s /\ s # {} /\ k + 1 \in Nat
        BY <3>2
      <4>2. Max(s) = k + 1
        <5>1. Max(s) \in s /\ \A i \in s : i <= Max(s)
          BY <4>1, MaxProps
        <5>2. Max(s) \in 1..(k + 1) /\ k + 1 <= Max(s)
          BY <4>1, <5>1
        <5> QED  BY <5>2
      <4> DEFINE x == s \ {k + 1}
      <4>3. x \in SUBSET (1..k) /\ x \in SUBSET (1..(k + 1))
        OBVIOUS
      <4>4. h[s] = Replay(g[x], delta[k + 1])
        BY <3>2
      <4> HIDE DEF x
      <4>5. h[x] = g[x]
        BY <4>3
      <4> HIDE DEF h
      <4> QED  BY <4>1, <4>2, <4>4, <4>5 DEF x
    <3> QED  BY <3>1, <3>2
  <2>3. Fold(h, k + 1)
    <3>1. h = [s \in SUBSET (1..(k + 1)) |-> h[s]]
      OBVIOUS
    <3> HIDE DEF h
    <3> QED  BY <2>2, <3>1
  <2> HIDE DEF h, Fold
  <2>4. k + 1 \in 0..n
    OBVIOUS
  <2> QED  BY <2>3, <2>4
<1>3. \E g : Fold(g, n)
  <2> HIDE DEF Fold
  <2>1. \A k \in 0..n : k \in G
    <3> HIDE DEF G
    <3> QED  BY <1>1, <1>2, StepByStep
  <2> QED  BY <2>1
<1> DEFINE iter == CHOOSE g : Fold(g, n)
<1>4. Fold(iter, n)
  <2> HIDE DEF Fold
  <2> QED  BY <1>3
<1>5. FoldLeft(Replay, base, delta) = iter[1..n]
  BY DEF FoldLeft, MapThenFoldSet
<1> DEFINE F == [k \in 0..n |-> iter[1..k]]
<1> HIDE DEF iter
<1>6. F[0] = base
  <2>1. 1..0 = {} /\ 1..0 \in SUBSET (1..n)
    OBVIOUS
  <2>2. iter[1..0] = Step(iter, 1..0)
    BY <1>4, <2>1
  <2> QED  BY <2>1, <2>2
<1>7. ASSUME NEW k \in 1..n PROVE F[k] = Replay(F[k - 1], delta[k])
  <2>0. k \in Nat /\ k \in 1..k /\ k - 1 \in 0..n /\ k \in 0..n /\ \A i \in 1..k : i \in 1..n
    OBVIOUS
  <2>1. 1..k \in SUBSET (1..n) /\ 1..k # {} /\ k \in 1..k /\ k \in Nat /\ k - 1 \in 0..n
        /\ k \in 0..n
    BY <2>0
  <2>2. Max(1..k) = k
    <3>1. Max(1..k) \in 1..k /\ \A i \in 1..k : i <= Max(1..k)
      BY <2>1, MaxProps
    <3> QED  BY <2>1, <3>1
  <2>3. (1..k) \ {k} = 1..(k - 1)
    OBVIOUS
  <2>4. iter[1..k] = Step(iter, 1..k)
    BY <1>4, <2>1
  <2>5. Step(iter, 1..k) = Replay(iter[1..(k - 1)], delta[k])
    BY <2>1, <2>2, <2>3
  <2>6. F[k] = iter[1..k] /\ F[k - 1] = iter[1..(k - 1)]
    BY <2>1
  <2> QED  BY <2>4, <2>5, <2>6
<1>8. F[n] = iter[1..n]
  OBVIOUS
<1> HIDE DEF F
<1> QED  BY <1>5, <1>6, <1>7, <1>8 DEF Heads

-----------------------------------------------------------------------------
(* Histories of the monorepo, and chains of the destination. *)

History == Seq(MonoCommit)

LEMMA PrefixPoints ==
  ASSUME NEW s \in History, NEW t \in History
  PROVE  IsPrefix(s, t) <=> Len(s) <= Len(t) /\ \A k \in 1..Len(s) : s[k] = t[k]
  BY DEF IsPrefix, History

LEMMA PrefixTransitive ==
  ASSUME NEW a \in History, NEW b \in History, NEW c \in History, IsPrefix(a, b), IsPrefix(b, c)
  PROVE  IsPrefix(a, c)
  BY PrefixPoints DEF History

\* The first k commits of a history, which is what a trailer names.
LEMMA FirstCommits ==
  ASSUME NEW tip \in History, NEW k \in 1..Len(tip)
  PROVE  LET m == SubSeq(tip, 1, k)
         IN  /\ m \in History /\ m # <<>> /\ Len(m) = k /\ Last(m) = tip[k]
             /\ Last(m) \in MonoCommit
             /\ IsPrefix(m, tip)
             /\ \A s \in History : IsPrefix(s, tip) /\ Len(s) <= k => IsPrefix(s, m)
<1> DEFINE m == SubSeq(tip, 1, k)
<1>1. m \in History /\ Len(m) = k /\ \A i \in 1..k : m[i] = tip[i]
  BY DEF History
<1>2. k \in Nat /\ k # 0 /\ Len(tip) \in Nat /\ k <= Len(tip) /\ k \in 1..k
  BY DEF History
<1> HIDE DEF m
<1>3. m # <<>> /\ Last(m) = tip[k]
  BY <1>1, <1>2 DEF Last
<1>4. Last(m) \in MonoCommit
  BY <1>3 DEF History
<1>5. IsPrefix(m, tip)
  BY <1>1, <1>2, PrefixPoints
<1>6. ASSUME NEW s \in History, IsPrefix(s, tip), Len(s) <= k PROVE IsPrefix(s, m)
  <2>1. Len(s) \in Nat /\ \A i \in 1..Len(s) : s[i] = tip[i]
    BY <1>6, PrefixPoints DEF History
  <2>2. \A i \in 1..Len(s) : s[i] = m[i]
    BY <2>1, <1>1, <1>2, <1>6
  <2> QED  BY <2>2, <1>1, <1>6, PrefixPoints
<1> QED  BY <1>1, <1>3, <1>4, <1>5, <1>6 DEF m

LEMMA PrefixIsFirst ==
  ASSUME NEW s \in History, NEW tip \in History, IsPrefix(s, tip)
  PROVE  s = SubSeq(tip, 1, Len(s)) /\ Len(s) \in 0..Len(tip)
<1>1. Len(s) \in Nat /\ Len(s) <= Len(tip) /\ Len(tip) \in Nat
  BY PrefixPoints DEF History
<1>2. SubSeq(s, 1, Len(s)) = s
  BY DEF History
<1> QED  BY <1>1, <1>2 DEF IsPrefix

\* One more commit on a chain.
LEMMA OneMore ==
  ASSUME NEW chain \in Seq(DestCommit), NEW c \in DestCommit
  PROVE  LET new == Append(chain, c)
         IN  /\ new \in Seq(DestCommit) /\ new # <<>> /\ Len(new) = Len(chain) + 1 /\ Last(new) = c
             /\ new[Len(chain) + 1] = c /\ \A i \in 1..Len(chain) : new[i] = chain[i]
             /\ Trailered(chain) \subseteq 1..Len(chain)
             /\ Trailered(new) = IF c.at = <<>> THEN Trailered(chain)
                                 ELSE Trailered(chain) \cup {Len(chain) + 1}
<1> DEFINE new == Append(chain, c)
<1>1. /\ new \in Seq(DestCommit) /\ new # <<>> /\ Len(new) = Len(chain) + 1
      /\ new[Len(chain) + 1] = c /\ \A i \in 1..Len(chain) : new[i] = chain[i]
  OBVIOUS
<1>2. Last(new) = c
  BY <1>1 DEF Last
<1>3. DOMAIN chain = 1..Len(chain) /\ DOMAIN new = 1..(Len(chain) + 1) /\ Len(chain) \in Nat
  BY <1>1
<1> HIDE DEF new
<1>4. Trailered(chain) \subseteq 1..Len(chain)
  BY <1>3 DEF Trailered
<1>5. \A i \in 1..(Len(chain) + 1) : i \in 1..Len(chain) \/ i = Len(chain) + 1
  BY <1>3
<1>6. 1..Len(chain) \subseteq 1..(Len(chain) + 1) /\ Len(chain) + 1 \in 1..(Len(chain) + 1)
  BY <1>3
<1>7. Trailered(new) = IF c.at = <<>> THEN Trailered(chain)
                       ELSE Trailered(chain) \cup {Len(chain) + 1}
  BY <1>1, <1>3, <1>5, <1>6 DEF Trailered
<1> QED  BY <1>1, <1>2, <1>4, <1>7 DEF new

LEMMA TrailerTypes ==
  ASSUME NEW chain \in Seq(DestCommit), NEW i \in Trailered(chain)
  PROVE  /\ i \in 1..Len(chain) /\ chain[i] \in DestCommit /\ chain[i].tree \in Tree
         /\ chain[i].at \in History /\ chain[i].at # <<>> /\ Last(chain[i].at) \in MonoCommit
<1>1. i \in 1..Len(chain) /\ chain[i] \in DestCommit /\ chain[i].at # <<>>
  BY DEF Trailered
<1>2. chain[i].tree \in Tree /\ chain[i].at \in History
  BY <1>1 DEF DestCommit, History
<1> DEFINE s == chain[i].at
<1>3. Last(s) \in MonoCommit
  <2>1. s \in Seq(MonoCommit) /\ s # <<>>
    BY <1>1, <1>2 DEF History
  <2> HIDE DEF s
  <2> QED  BY <2>1 DEF Last
<1> QED  BY <1>1, <1>2, <1>3

-----------------------------------------------------------------------------
(* What is true of every chain an export makes or reads. *)

\* Its trailers name monorepo commits that ship as what is there, oldest first.
Truthful(chain) ==
  /\ \A i \in Trailered(chain) : /\ Last(chain[i].at).content # Absent
                                 /\ chain[i].tree = Ship[Last(chain[i].at).content]
  /\ \A i, j \in Trailered(chain) :
       i < j => chain[i].at # chain[j].at /\ IsPrefix(chain[i].at, chain[j].at)

\* What a trailer names is on the monorepo branch, or was of a tip layer.
Rooted(chain, tip) ==
  \A i \in Trailered(chain) : IsPrefix(chain[i].at, tip) \/ Last(chain[i].at).tip

\* An export leaves one of its own commits on top.
Tipped(chain) == chain # <<>> => Last(chain).at # <<>>

\* The newest trailer stands for all of them.
LEMMA LastTrailer ==
  ASSUME NEW chain \in Seq(DestCommit), Truthful(chain)
  PROVE  LET last == LastExported(chain)
         IN  /\ last \in History
             /\ Trailered(chain) = {} => last = <<>>
             /\ Trailered(chain) # {} =>
                  \E t \in Trailered(chain) : /\ last = chain[t].at
                                              /\ \A i \in Trailered(chain) : i <= t
             /\ \A i \in Trailered(chain) : IsPrefix(chain[i].at, last)
<1>1. CASE Trailered(chain) = {}
  <2>1. LastExported(chain) = <<>>
    BY <1>1 DEF LastExported
  <2>2. <<>> \in History
    BY DEF History
  <2> QED  BY <1>1, <2>1, <2>2
<1>2. CASE Trailered(chain) # {}
  <2> DEFINE t == Max(Trailered(chain))
  <2>1. Trailered(chain) \subseteq 1..Len(chain) /\ Len(chain) \in Nat
    BY DEF Trailered
  <2>2. t \in Trailered(chain) /\ \A i \in Trailered(chain) : i <= t
    BY <1>2, <2>1, MaxProps
  <2>3. LastExported(chain) = chain[t].at
    BY <1>2 DEF LastExported
  <2> HIDE DEF t
  <2>4. ASSUME NEW i \in Trailered(chain) PROVE IsPrefix(chain[i].at, chain[t].at)
    <3>1. CASE i = t
      <4>1. chain[t].at \in History
        BY <2>2, TrailerTypes
      <4> QED  BY <3>1, <4>1, PrefixPoints DEF History
    <3>2. CASE i # t
      <4>1. i < t
        BY <2>1, <2>2, <3>2
      <4> QED  BY <4>1, <2>2 DEF Truthful
    <3> QED  BY <3>1, <3>2
  <2>5. chain[t].at \in History
    BY <2>2, TrailerTypes
  <2> QED  BY <1>2, <2>2, <2>3, <2>4, <2>5
<1> QED  BY <1>1, <1>2

\* A commit put on a chain keeps it true if it is a true one of a later monorepo
\* commit, or nobody's export.
LEMMA TruthfulMore ==
  ASSUME NEW chain \in Seq(DestCommit), Truthful(chain), NEW c \in DestCommit,
         c.at # <<>> => /\ Last(c.at).content # Absent /\ c.tree = Ship[Last(c.at).content]
                        /\ \A i \in Trailered(chain) : /\ chain[i].at # c.at
                                                       /\ IsPrefix(chain[i].at, c.at)
  PROVE  Truthful(Append(chain, c))
<1> DEFINE new == Append(chain, c)
           l == Len(chain) + 1
<1>1. /\ new[l] = c /\ \A i \in 1..Len(chain) : new[i] = chain[i]
      /\ Trailered(chain) \subseteq 1..Len(chain)
      /\ Trailered(new) = IF c.at = <<>> THEN Trailered(chain) ELSE Trailered(chain) \cup {l}
  BY OneMore
<1>2. Len(chain) \in Nat
  OBVIOUS
<1>3. \A i \in 1..Len(chain) : i < l /\ ~(l < i)
  BY <1>2
<1>4. ~(l < l)
  BY <1>2
<1> HIDE DEF new, l
<1>5. \A i \in Trailered(chain) : new[i] = chain[i]
  BY <1>1
<1>6. CASE c.at = <<>>
  BY <1>1, <1>5, <1>6 DEF Truthful, new
<1>7. CASE c.at # <<>>
  <2>1. \A i \in Trailered(new) : i \in Trailered(chain) \/ i = l
    BY <1>1, <1>7
  <2>2. \A i \in Trailered(new) : /\ Last(new[i].at).content # Absent
                                  /\ new[i].tree = Ship[Last(new[i].at).content]
    BY <2>1, <1>1, <1>5, <1>7 DEF Truthful
  <2>3. ASSUME NEW i \in Trailered(new), NEW j \in Trailered(new), i < j
        PROVE  new[i].at # new[j].at /\ IsPrefix(new[i].at, new[j].at)
    <3>1. i \in Trailered(chain)
      BY <2>1, <2>3, <1>1, <1>3, <1>4
    <3>2. CASE j \in Trailered(chain)
      BY <3>1, <3>2, <2>3, <1>5 DEF Truthful
    <3>3. CASE j = l
      BY <3>1, <3>3, <1>1, <1>5, <1>7
    <3> QED  BY <3>2, <3>3, <2>1
  <2> QED  BY <2>2, <2>3 DEF Truthful, new
<1> QED  BY <1>6, <1>7

-----------------------------------------------------------------------------
(* An export. *)

\* One replay puts the commit on the chain, or leaves the chain, and that only if
\* the path does not exist or the chain shows it.
LEMMA ReplayOne ==
  ASSUME NEW head \in Seq(DestCommit), NEW m \in History, Last(m) \in MonoCommit
  PROVE  LET shipped == Ship[Last(m).content]
             c == [tree |-> shipped, at |-> m]
         IN  \/ /\ Replay(head, m) = head
                /\ Last(m).content # Absent => head # <<>> /\ Last(head).tree = shipped
             \/ /\ Last(m).content # Absent /\ c \in DestCommit
                /\ Replay(head, m) = Append(head, c)
<1>1. CASE Last(m).content = Absent
  BY <1>1 DEF Replay
<1>2. CASE Last(m).content # Absent
  <2> DEFINE shipped == Ship[Last(m).content]
             c == [tree |-> shipped, at |-> m]
  <2>1. Last(m).content \in Content
    BY <1>2 DEF MonoCommit
  <2>2. shipped \in Tree
    BY <2>1, ExportAssumption DEF Tree, Range
  <2>3. c \in DestCommit
    BY <2>2 DEF DestCommit, History
  <2>4. CASE head # <<>> /\ Last(head).tree = shipped
    BY <1>2, <2>4 DEF Replay
  <2>5. CASE ~(head # <<>> /\ Last(head).tree = shipped)
    BY <1>2, <2>3, <2>5 DEF Replay
  <2> QED  BY <2>4, <2>5
<1> QED  BY <1>1, <1>2

\* A chain that is true of the first l commits of the monorepo.
Grown(chain, tip, l) ==
  /\ chain \in Seq(DestCommit) /\ Truthful(chain)
  /\ \A i \in Trailered(chain) : IsPrefix(chain[i].at, tip) /\ Len(chain[i].at) <= l

LEMMA GrownByOne ==
  ASSUME NEW chain, NEW tip \in History, NEW l \in 0..(Len(tip) - 1), Grown(chain, tip, l)
  PROVE  LET m   == SubSeq(tip, 1, l + 1)
             new == Replay(chain, m)
         IN  /\ Grown(new, tip, l + 1)
             /\ new = chain \/ (new # <<>> /\ Last(new).at # <<>> /\ Len(new) = Len(chain) + 1)
<1> DEFINE m   == SubSeq(tip, 1, l + 1)
           new == Replay(chain, m)
           c   == [tree |-> Ship[Last(m).content], at |-> m]
<1>0. Len(tip) \in Nat /\ l \in Nat /\ l + 1 \in 1..Len(tip)
  BY DEF History
<1>1. /\ m \in History /\ m # <<>> /\ Len(m) = l + 1 /\ Last(m) \in MonoCommit /\ IsPrefix(m, tip)
      /\ \A s \in History : IsPrefix(s, tip) /\ Len(s) <= l + 1 => IsPrefix(s, m)
  BY <1>0, FirstCommits
<1>2. /\ chain \in Seq(DestCommit) /\ Truthful(chain)
      /\ \A i \in Trailered(chain) :
           /\ chain[i].at \in History /\ Len(chain[i].at) \in Nat
           /\ IsPrefix(chain[i].at, tip) /\ Len(chain[i].at) <= l
  BY TrailerTypes DEF Grown, History
<1> HIDE DEF m
<1>3. CASE new = chain
  <2>1. \A i \in Trailered(chain) : Len(chain[i].at) <= l + 1
    BY <1>0, <1>2
  <2> HIDE DEF new
  <2> QED  BY <1>2, <1>3, <2>1 DEF Grown, new, m
<1>4. CASE Last(m).content # Absent /\ c \in DestCommit /\ new = Append(chain, c)
  <2>1. \A i \in Trailered(chain) : chain[i].at # m /\ IsPrefix(chain[i].at, m)
    BY <1>0, <1>1, <1>2
  <2>2. c.at = m /\ c.tree = Ship[Last(m).content]
    OBVIOUS
  <2> HIDE DEF c
  <2>3. Truthful(Append(chain, c))
    BY <1>1, <1>2, <1>4, <2>1, <2>2, TruthfulMore
  <2> DEFINE x == Append(chain, c)
  <2>4. /\ x \in Seq(DestCommit) /\ x # <<>> /\ Len(x) = Len(chain) + 1 /\ Last(x) = c
        /\ x[Len(chain) + 1] = c /\ \A i \in 1..Len(chain) : x[i] = chain[i]
        /\ Trailered(chain) \subseteq 1..Len(chain)
        /\ Trailered(x) = Trailered(chain) \cup {Len(chain) + 1}
    BY <1>1, <1>2, <1>4, <2>2, OneMore
  <2> HIDE DEF x
  <2>5. ASSUME NEW i \in Trailered(x)
        PROVE  IsPrefix(x[i].at, tip) /\ Len(x[i].at) <= l + 1
    <3>1. CASE i \in Trailered(chain)
      <4>1. x[i] = chain[i]
        BY <3>1, <2>4
      <4> QED  BY <3>1, <4>1, <1>0, <1>2
    <3>2. CASE i = Len(chain) + 1
      BY <3>2, <2>2, <2>4, <1>0, <1>1
    <3> QED  BY <3>1, <3>2, <2>4, <2>5
  <2>6. Grown(x, tip, l + 1)
    BY <2>3, <2>4, <2>5 DEF Grown, x
  <2>7. new = x
    BY <1>4 DEF x
  <2> HIDE DEF new
  <2> QED  BY <2>2, <2>4, <2>6, <2>7, <1>1 DEF new, m
<1> QED  BY <1>1, <1>2, <1>3, <1>4, ReplayOne

\* The head of an export of the rest of the monorepo branch to a chain.
LEMMA ExportGrows ==
  ASSUME NEW base, NEW tip \in History, NEW stop \in History, IsPrefix(stop, tip),
         Grown(base, tip, Len(stop))
  PROVE  LET head == FoldLeft(Replay, base, FirstParentDelta(tip, stop))
         IN  /\ Grown(head, tip, Len(tip))
             /\ head = base \/ (head # <<>> /\ Last(head).at # <<>>)
             /\ head = base => \A k \in (Len(stop) + 1)..Len(tip) :
                                 Replay(base, SubSeq(tip, 1, k)) = base
<1> DEFINE l == Len(stop)
           n == Len(tip) - l
           delta == FirstParentDelta(tip, stop)
           head == FoldLeft(Replay, base, delta)
<1>1. l \in Nat /\ n \in Nat /\ Len(tip) \in Nat /\ l + n = Len(tip)
  BY PrefixPoints DEF History
<1>2. DOMAIN delta = 1..n /\ \A k \in 1..n : delta[k] = SubSeq(tip, 1, l + k)
  BY DEF FirstParentDelta
<1>0. Grown(base, tip, l)
  OBVIOUS
<1> HIDE DEF l, n, delta
<1>3. PICK F : Heads(F, base, delta, n) /\ head = F[n]
  BY <1>1, <1>2, ReplayAll
<1> HIDE DEF head
<1>4. F[0] = base /\ \A k \in 0..(n - 1) : F[k + 1] = Replay(F[k], SubSeq(tip, 1, l + (k + 1)))
  <2>1. F[0] = base /\ \A k \in 1..n : F[k] = Replay(F[k - 1], SubSeq(tip, 1, l + k))
    BY <1>2, <1>3 DEF Heads
  <2> SUFFICES ASSUME NEW k \in 0..(n - 1)
               PROVE  F[k + 1] = Replay(F[k], SubSeq(tip, 1, l + (k + 1)))
    BY <2>1
  <2>2. k + 1 \in 1..n /\ (k + 1) - 1 = k
    BY <1>1
  <2> QED  BY <2>1, <2>2
<1> DEFINE G == {k \in 0..n : Grown(F[k], tip, l + k)}
<1>5. ASSUME NEW k \in 0..(n - 1), k \in G
      PROVE  /\ k + 1 \in G
             /\ \/ F[k + 1] = F[k]
                \/ /\ F[k + 1] # <<>> /\ Last(F[k + 1]).at # <<>>
                   /\ Len(F[k + 1]) = Len(F[k]) + 1
  <2> DEFINE x == Replay(F[k], SubSeq(tip, 1, (l + k) + 1))
  <2>1. l + k \in 0..(Len(tip) - 1) /\ (l + k) + 1 = l + (k + 1) /\ k + 1 \in 0..n
    BY <1>1
  <2>2. Grown(F[k], tip, l + k)
    BY <1>5
  <2>3. /\ Grown(x, tip, (l + k) + 1)
        /\ x = F[k] \/ (x # <<>> /\ Last(x).at # <<>> /\ Len(x) = Len(F[k]) + 1)
    BY <2>1, <2>2, GrownByOne
  <2>4. F[k + 1] = x
    BY <1>4, <2>1
  <2> HIDE DEF x
  <2> QED  BY <2>1, <2>3, <2>4
<1>6. \A k \in 0..n : k \in G
  <2>1. Grown(F[0], tip, l + 0) /\ 0 \in 0..n
    BY <1>0, <1>1, <1>4
  <2>2. 0 \in G
    BY <2>1
  <2> HIDE DEF G
  <2> QED  BY <2>2, <1>1, <1>5, StepByStep
<1>7. \A k \in 0..n : Grown(F[k], tip, l + k) /\ Len(F[k]) \in Nat
  BY <1>6 DEF Grown
<1>8. \A k \in 0..(n - 1) : \/ F[k + 1] = F[k]
                            \/ /\ F[k + 1] # <<>> /\ Last(F[k + 1]).at # <<>>
                               /\ Len(F[k + 1]) = Len(F[k]) + 1
  <2>1. \A k \in 0..(n - 1) : k \in 0..n
    BY <1>1
  <2> HIDE DEF G
  <2> QED  BY <2>1, <1>5, <1>6
<1> HIDE DEF G
<1> DEFINE Own(k) == \/ F[k] = base
                     \/ F[k] # <<>> /\ Last(F[k]).at # <<>> /\ Len(F[k]) > Len(base)
           O == {k \in 0..n : Own(k)}
           M == {k \in 0..n : \A i \in 0..k : Len(F[i]) <= Len(F[k])}
<1>9. Len(base) \in Nat
  BY <1>0 DEF Grown
<1>10. \A k \in 0..n : k \in O
  <2>1. 0 \in O
    BY <1>1, <1>4
  <2>2. ASSUME NEW k \in 0..(n - 1), k \in O PROVE k + 1 \in O
    <3>1. k \in 0..n /\ k + 1 \in 0..n
      BY <1>1
    <3>2. Own(k)
      BY <2>2
    <3>3. CASE F[k + 1] = F[k]
      BY <3>1, <3>2, <3>3
    <3>4. CASE F[k + 1] # <<>> /\ Last(F[k + 1]).at # <<>> /\ Len(F[k + 1]) = Len(F[k]) + 1
      <4>1. Len(F[k + 1]) > Len(base)
        BY <3>1, <3>2, <3>4, <1>7, <1>9
      <4> QED  BY <3>1, <3>4, <4>1
    <3> HIDE DEF O
    <3> QED  BY <3>3, <3>4, <1>8
  <2> HIDE DEF O
  <2> QED  BY <2>1, <2>2, <1>1, StepByStep
<1>11. \A k \in 0..n : k \in M
  <2>1. 0 \in M
    BY <1>1, <1>7
  <2>2. ASSUME NEW k \in 0..(n - 1), k \in M PROVE k + 1 \in M
    <3>1. k \in 0..n /\ k + 1 \in 0..n /\ \A i \in 0..(k + 1) : i \in 0..k \/ i = k + 1
      BY <1>1
    <3>2. Len(F[k]) <= Len(F[k + 1])
      BY <3>1, <1>7, <1>8
    <3>3. ASSUME NEW i \in 0..(k + 1) PROVE Len(F[i]) <= Len(F[k + 1])
      <4>1. CASE i \in 0..k
        <5>1. Len(F[i]) <= Len(F[k]) /\ i \in 0..n
          BY <2>2, <3>1, <4>1, <1>1
        <5> QED  BY <5>1, <3>1, <3>2, <1>7
      <4>2. CASE i = k + 1
        BY <4>2, <3>1, <1>7
      <4> QED  BY <4>1, <4>2, <3>1
    <3> QED  BY <3>1, <3>3
  <2> HIDE DEF M
  <2> QED  BY <2>1, <2>2, <1>1, StepByStep
<1>12. n \in 0..n
  BY <1>1
<1>13. Grown(head, tip, Len(tip))
  BY <1>1, <1>3, <1>7, <1>12
<1>14. head = base \/ (head # <<>> /\ Last(head).at # <<>>)
  BY <1>3, <1>10, <1>12
<1>15. ASSUME head = base, NEW k \in (l + 1)..Len(tip)
       PROVE  Replay(base, SubSeq(tip, 1, k)) = base
  <2>1. \A i \in 0..n : F[i] = base
    <3> SUFFICES ASSUME NEW i \in 0..n PROVE F[i] = base
      OBVIOUS
    <3>1. Own(i) /\ Len(F[i]) <= Len(base)
      BY <1>3, <1>10, <1>11, <1>12, <1>15
    <3> QED  BY <3>1, <1>7, <1>9
  <2> DEFINE j == k - (l + 1)
  <2>2. j \in 0..(n - 1) /\ j \in 0..n /\ j + 1 \in 0..n /\ l + (j + 1) = k
    BY <1>1
  <2>3. F[j + 1] = Replay(F[j], SubSeq(tip, 1, k))
    <3> HIDE DEF j
    <3> QED  BY <2>2, <1>4
  <2> HIDE DEF j
  <2> QED  BY <2>1, <2>2, <2>3
<1> QED  BY <1>13, <1>14, <1>15 DEF head, delta, l

-----------------------------------------------------------------------------
(* The monorepo branch moves on, or has a tip layer rewritten. *)

LEMMA HistorySubSeq ==
  ASSUME NEW s \in History, NEW k \in 0..Len(s)
  PROVE  /\ SubSeq(s, 1, k) \in History
         /\ Len(SubSeq(s, 1, k)) = k
         /\ \A j \in 1..k : SubSeq(s, 1, k)[j] = s[j]
  BY DEF History

\* What stripping takes off is tip commits.
LEMMA StripShape ==
  ASSUME NEW old \in History
  PROVE  \E l \in 0..Len(old) : /\ StripTipLayer(old) = SubSeq(old, 1, l)
                                /\ \A i \in (l + 1)..Len(old) : old[i].tip
<1> DEFINE n == Len(old)
           T == {i \in DOMAIN old : \A k \in i..n : old[k].tip}
           C == {i \in 1..n : ~old[i].tip}
<1>1. n \in Nat /\ DOMAIN old = 1..n
  BY DEF History
<1>2. StripTipLayer(old) = SubSeq(old, 1, n - Cardinality(T))
  BY DEF StripTipLayer
<1> HIDE DEF n
<1>3. CASE C = {}
  <2>0. \A k \in 1..n : old[k].tip
    BY <1>3
  <2>1. T = 1..n
    <3>1. \A i \in 1..n : \A k \in i..n : k \in 1..n
      BY <1>1
    <3> HIDE DEF C
    <3> QED  BY <2>0, <3>1, <1>1
  <2>2. Cardinality(T) = n
    <3>1. Cardinality(1..n) = IF 1 > n THEN 0 ELSE n - 1 + 1
      BY <1>1, FS_Interval
    <3> HIDE DEF T
    <3> QED  BY <2>1, <3>1, <1>1
  <2>3. n - Cardinality(T) = 0 /\ 0 \in 0..n /\ \A i \in (0 + 1)..n : old[i].tip
    BY <2>2, <1>1, <1>3
  <2> QED  BY <2>3, <1>2 DEF n
<1>4. CASE C # {}
  <2> DEFINE m == Max(C)
  <2>1. m \in C /\ \A i \in C : i <= m
    <3>1. C \subseteq 1..n
      OBVIOUS
    <3> HIDE DEF C
    <3> QED  BY <3>1, <1>1, <1>4, MaxProps
  <2> HIDE DEF m
  <2>2. m \in 1..n /\ ~old[m].tip /\ \A i \in (m + 1)..n : old[i].tip
    BY <2>1, <1>1
  <2>3. T = (m + 1)..n
    <3>1. \A i \in 1..n : i \in T => i > m
      BY <2>2, <1>1
    <3>2. \A i \in (m + 1)..n : i \in T
      BY <2>2, <1>1
    <3>3. T \subseteq 1..n
      BY <1>1
    <3>4. \A i \in 1..n : i > m => i \in (m + 1)..n
      BY <2>2, <1>1
    <3> HIDE DEF T
    <3> QED  BY <3>1, <3>2, <3>3, <3>4
  <2>4. Cardinality(T) = n - m
    <3>1. Cardinality((m + 1)..n) = IF m + 1 > n THEN 0 ELSE n - (m + 1) + 1
      BY <2>2, <1>1, FS_Interval
    <3> HIDE DEF T
    <3> QED  BY <2>2, <2>3, <3>1, <1>1
  <2>5. n - Cardinality(T) = m /\ m \in 0..n
    BY <2>2, <2>4, <1>1
  <2> QED  BY <2>2, <2>5, <1>2 DEF n
<1> QED  BY <1>3, <1>4

\* new keeps the first commits of old, all but some of its tip layer.
Reshaped(old, new) ==
  /\ new \in History
  /\ \E l \in 0..Len(old) : /\ \A i \in (l + 1)..Len(old) : old[i].tip
                            /\ l <= Len(new) /\ \A i \in 1..l : new[i] = old[i]

LEMMA CommitReshapes ==
  ASSUME mono \in History, NEW c \in Content \cup {Absent}, Commit(c)
  PROVE  Reshaped(mono, mono')
<1> DEFINE m == [content |-> c, tip |-> FALSE]
<1>1. mono' = Append(mono, m) /\ m \in MonoCommit
  BY DEF Commit, Edit, MonoCommit
<1> HIDE DEF m
<1>2. /\ mono' \in History /\ Len(mono') = Len(mono) + 1 /\ Len(mono) \in Nat
      /\ \A i \in 1..Len(mono) : mono'[i] = mono[i]
  BY <1>1 DEF History
<1>3. /\ Len(mono) \in 0..Len(mono) /\ (Len(mono) + 1)..Len(mono) = {}
      /\ Len(mono) <= Len(mono')
  BY <1>2
<1> QED  BY <1>2, <1>3 DEF Reshaped

LEMMA ImportReshapes ==
  ASSUME mono \in History, NEW mirror \in {<<>>} \cup {<<c>> : c \in Content},
         NEW layer \in {<<>>} \cup {<<c>> : c \in Content}, Import(mirror, layer)
  PROVE  Reshaped(mono, mono')
<1> DEFINE a == [i \in DOMAIN mirror |-> [content |-> mirror[i], tip |-> FALSE]]
           b == [i \in DOMAIN layer |-> [content |-> layer[i], tip |-> TRUE]]
<1>1. mono' = (StripTipLayer(mono) \o a) \o b
  BY DEF Import, Edit
<1>2. PICK l \in 0..Len(mono) : /\ StripTipLayer(mono) = SubSeq(mono, 1, l)
                                /\ \A i \in (l + 1)..Len(mono) : mono[i].tip
  BY StripShape
<1>3. mirror \in Seq(Content) /\ layer \in Seq(Content)
  <2>1. \A c \in Content : <<c>> \in Seq(Content)
    OBVIOUS
  <2>2. <<>> \in Seq(Content)
    OBVIOUS
  <2> QED  BY <2>1, <2>2
<1>4. a \in Seq(MonoCommit) /\ b \in Seq(MonoCommit)
  <2>1. ASSUME NEW s \in Seq(Content), NEW t \in BOOLEAN
        PROVE  [i \in DOMAIN s |-> [content |-> s[i], tip |-> t]] \in Seq(MonoCommit)
    <3>1. DOMAIN s = 1..Len(s) /\ Len(s) \in Nat
      OBVIOUS
    <3>2. \A i \in 1..Len(s) : [content |-> s[i], tip |-> t] \in MonoCommit
      BY DEF MonoCommit
    <3> QED  BY <3>1, <3>2
  <2> QED  BY <2>1, <1>3
<1> DEFINE x == SubSeq(mono, 1, l)
           y == x \o a
<1>5. x \in Seq(MonoCommit) /\ Len(x) = l /\ \A i \in 1..l : x[i] = mono[i]
  BY <1>2, HistorySubSeq DEF History
<1>6. l \in Nat
  BY <1>2 DEF History
<1> HIDE DEF a, b, x
<1>7. /\ y \in Seq(MonoCommit) /\ Len(y) \in Nat /\ l <= Len(y)
      /\ \A i \in 1..l : y[i] = x[i]
  BY <1>4, <1>5, <1>6
<1> HIDE DEF y
<1>8. /\ y \o b \in Seq(MonoCommit) /\ l <= Len(y \o b)
      /\ \A i \in 1..l : (y \o b)[i] = y[i]
  BY <1>4, <1>6, <1>7
<1>9. mono' = y \o b
  BY <1>1, <1>2 DEF x, y
<1> QED  BY <1>2, <1>5, <1>7, <1>8, <1>9 DEF Reshaped, History

\* A trailer stays what it was: on the branch, or of a tip layer.
LEMMA ReshapedRoots ==
  ASSUME NEW chain \in Seq(DestCommit), NEW old \in History, NEW new, Reshaped(old, new),
         Rooted(chain, old)
  PROVE  Rooted(chain, new)
<1>1. PICK l \in 0..Len(old) : /\ \A i \in (l + 1)..Len(old) : old[i].tip
                               /\ l <= Len(new) /\ \A i \in 1..l : new[i] = old[i]
  BY DEF Reshaped
<1>2. new \in History /\ Len(new) \in Nat /\ Len(old) \in Nat /\ l \in Nat
  BY <1>1 DEF Reshaped, History
<1> SUFFICES ASSUME NEW j \in Trailered(chain), ~Last(chain[j].at).tip
             PROVE  IsPrefix(chain[j].at, new)
  BY DEF Rooted
<1> DEFINE s == chain[j].at
<1>3. s \in History /\ s # <<>> /\ IsPrefix(s, old)
  BY TrailerTypes DEF Rooted
<1> HIDE DEF s
<1>4. Len(s) \in Nat /\ Len(s) # 0 /\ Len(s) <= Len(old) /\ \A i \in 1..Len(s) : s[i] = old[i]
  BY <1>3, PrefixPoints DEF History
<1>5. ~Last(s).tip
  BY DEF s
<1>6. Len(s) <= l
  <2>1. Last(s) = old[Len(s)]
    BY <1>4 DEF Last
  <2>2. ~(Len(s) \in (l + 1)..Len(old))
    BY <2>1, <1>1, <1>5
  <2> QED  BY <2>2, <1>2, <1>4
<1>7. \A i \in 1..Len(s) : s[i] = new[i]
  BY <1>1, <1>2, <1>4, <1>6
<1>8. IsPrefix(s, new)
  BY <1>1, <1>2, <1>3, <1>4, <1>6, <1>7, PrefixPoints
<1> QED  BY <1>8 DEF s

-----------------------------------------------------------------------------
(* The destination's side. *)

LEMMA ChainPrefix ==
  ASSUME NEW s \in Seq(DestCommit), NEW t \in Seq(DestCommit), IsPrefix(s, t), s # t
  PROVE  Len(s) < Len(t) /\ \A k \in 1..Len(s) : s[k] = t[k]
<1>1. /\ Len(s) <= Len(t) /\ Len(s) \in Nat /\ Len(t) \in Nat
      /\ SubSeq(s, 1, Len(s)) = SubSeq(t, 1, Len(s))
  BY DEF IsPrefix
<1>2. /\ \A k \in 1..Len(s) : SubSeq(s, 1, Len(s))[k] = s[k]
      /\ \A k \in 1..Len(s) : SubSeq(t, 1, Len(s))[k] = t[k]
  BY <1>1
<1>3. \A k \in 1..Len(s) : s[k] = t[k]
  BY <1>1, <1>2
<1>4. Len(s) # Len(t)
  BY <1>3
<1> QED  BY <1>1, <1>3, <1>4

\* What a commit put on a chain has to be of for the trailers to stay rooted.
LEMMA RootedMore ==
  ASSUME NEW chain \in Seq(DestCommit), NEW tip, Rooted(chain, tip), NEW c \in DestCommit,
         c.at # <<>> => (IsPrefix(c.at, tip) \/ Last(c.at).tip)
  PROVE  Rooted(Append(chain, c), tip)
<1> DEFINE new == Append(chain, c)
<1>1. /\ new[Len(chain) + 1] = c /\ \A i \in 1..Len(chain) : new[i] = chain[i]
      /\ Trailered(chain) \subseteq 1..Len(chain)
      /\ Trailered(new) = IF c.at = <<>> THEN Trailered(chain)
                          ELSE Trailered(chain) \cup {Len(chain) + 1}
  BY OneMore
<1> HIDE DEF new
<1>2. ASSUME NEW i \in Trailered(new) PROVE IsPrefix(new[i].at, tip) \/ Last(new[i].at).tip
  <2>1. CASE i \in Trailered(chain)
    BY <2>1, <1>1 DEF Rooted
  <2>2. CASE i \notin Trailered(chain)
    <3>1. c.at # <<>> /\ new[i] = c
      BY <2>2, <1>1, <1>2
    <3> QED  BY <3>1
  <2> QED  BY <2>1, <2>2
<1> QED  BY <1>2 DEF Rooted, new

\* The inductive invariant.
Maps ==
  /\ Truthful(dest) /\ Truthful(branch) /\ Truthful(plan)
  /\ Rooted(dest, mono) /\ Rooted(branch, mono) /\ Rooted(plan, mono)
  /\ Tipped(branch) /\ Tipped(plan)

LEMMA NoTrailers ==
  Trailered(<<>>) = {} /\ Truthful(<<>>) /\ Tipped(<<>>) /\ \A tip : Rooted(<<>>, tip)
<1>1. Trailered(<<>>) = {}
  BY DEF Trailered
<1> QED  BY <1>1 DEF Truthful, Tipped, Rooted

\* What a merged pull request adds to the destination, in each way of merging it.
LEMMA MergeAdds ==
  ASSUME TypeOK, Maps, NEW mode \in MergeModes, Merge(mode)
  PROVE  LET top == branch[Len(branch)]
         IN  /\ Len(dest) < Len(branch) /\ \A i \in 1..Len(dest) : dest[i] = branch[i]
             /\ \A k \in DOMAIN New : /\ Len(dest) + k \in 1..Len(branch)
                                      /\ New[k] = branch[Len(dest) + k]
             /\ top \in DestCommit /\ Len(branch) \in Trailered(branch)
             /\ \/ mode = "rebase" /\ dest' = branch
                \/ mode = "squash" /\ dest' = Append(dest, top)
                \/ mode = "merge" /\ dest' = Append(dest, [tree |-> top.tree, at |-> <<>>])
             /\ UNCHANGED <<mono, branch, plan>>
<1> DEFINE top == branch[Len(branch)]
<1>1. /\ dest \in Seq(DestCommit) /\ branch \in Seq(DestCommit)
      /\ IsPrefix(dest, branch) /\ branch # dest /\ dest' = Merged(mode)
      /\ UNCHANGED <<mono, branch, plan>>
  BY DEF TypeOK, Merge
<1>2. Len(dest) < Len(branch) /\ \A i \in 1..Len(dest) : dest[i] = branch[i]
  BY <1>1, ChainPrefix
<1>3. Len(dest) \in Nat /\ Len(branch) \in Nat /\ Len(branch) # 0 /\ DOMAIN branch = 1..Len(branch)
  BY <1>1, <1>2
<1>4. /\ Len(New) = Len(branch) - Len(dest) /\ DOMAIN New = 1..(Len(branch) - Len(dest))
      /\ \A k \in 1..(Len(branch) - Len(dest)) : New[k] = branch[Len(dest) + k]
  <2>1. Len(dest) + 1 \in 1..(Len(branch) + 1) /\ Len(branch) \in Len(dest)..Len(branch)
    BY <1>2, <1>3
  <2> QED  BY <2>1, <1>1, <1>2, <1>3 DEF New
<1>5. \A k \in DOMAIN New : Len(dest) + k \in 1..Len(branch) /\ New[k] = branch[Len(dest) + k]
  BY <1>3, <1>4
<1>6. Last(branch) = top /\ Last(New) = top
  <2>1. /\ Len(branch) - Len(dest) \in 1..(Len(branch) - Len(dest))
        /\ Len(dest) + (Len(branch) - Len(dest)) = Len(branch)
    BY <1>2, <1>3
  <2>2. New[Len(branch) - Len(dest)] = branch[Len(dest) + (Len(branch) - Len(dest))]
    BY <2>1, <1>4
  <2> QED  BY <2>1, <2>2, <1>4 DEF Last
<1>7. top \in DestCommit /\ Len(branch) \in DOMAIN branch
  BY <1>1, <1>3
<1>8. top.at # <<>>
  BY <1>3, <1>6 DEF Maps, Tipped
<1>9. Len(branch) \in Trailered(branch)
  BY <1>7, <1>8 DEF Trailered
<1>10. mode \in {"rebase", "squash", "merge"}
  BY ExportAssumption
<1>11. [tree |-> top.tree, at |-> top.at] = top
  <2> HIDE DEF top
  <2> QED  BY <1>7 DEF DestCommit
<1>12. CASE mode = "rebase"
  BY <1>1, <1>2, <1>5, <1>7, <1>9, <1>12 DEF Merged
<1>13. CASE mode = "squash"
  <2>1. dest' = Append(dest, [tree |-> top.tree, at |-> top.at])
    BY <1>1, <1>6, <1>13 DEF Merged, TrailerValue
  <2> QED  BY <2>1, <1>1, <1>2, <1>5, <1>7, <1>9, <1>11, <1>13
<1>14. CASE mode = "merge"
  <2>1. dest' = Append(dest, [tree |-> top.tree, at |-> <<>>])
    BY <1>1, <1>6, <1>14 DEF Merged
  <2> QED  BY <2>1, <1>1, <1>2, <1>5, <1>7, <1>9, <1>14
<1> QED  BY <1>10, <1>12, <1>13, <1>14

LEMMA MergeKeepsMaps ==
  ASSUME TypeOK, Maps, NEW mode \in MergeModes, Merge(mode)
  PROVE  dest' \in Seq(DestCommit) /\ Truthful(dest') /\ Rooted(dest', mono)
<1> DEFINE l == Len(branch)
           top == branch[l]
<1>1. /\ Len(dest) < l /\ \A i \in 1..Len(dest) : dest[i] = branch[i]
      /\ top \in DestCommit /\ l \in Trailered(branch)
      /\ \/ mode = "rebase" /\ dest' = branch
         \/ mode = "squash" /\ dest' = Append(dest, top)
         \/ mode = "merge" /\ dest' = Append(dest, [tree |-> top.tree, at |-> <<>>])
  BY MergeAdds
<1>2. /\ dest \in Seq(DestCommit) /\ branch \in Seq(DestCommit)
      /\ Len(dest) \in Nat /\ l \in Nat
      /\ Truthful(dest) /\ Truthful(branch) /\ Rooted(dest, mono) /\ Rooted(branch, mono)
  BY DEF TypeOK, Maps
<1>3. CASE dest' = branch
  BY <1>2, <1>3
<1>4. CASE dest' = Append(dest, top)
  <2>1. ASSUME NEW i \in Trailered(dest)
        PROVE  dest[i].at # top.at /\ IsPrefix(dest[i].at, top.at)
    <3>1. i \in 1..Len(dest) /\ dest[i] = branch[i] /\ dest[i].at # <<>>
      BY <2>1, <1>1, <1>2, TrailerTypes
    <3>2. i \in Trailered(branch) /\ i < l
      BY <3>1, <1>1, <1>2 DEF Trailered
    <3> QED  BY <3>1, <3>2, <1>1, <1>2 DEF Truthful
  <2>2. Last(top.at).content # Absent /\ top.tree = Ship[Last(top.at).content]
    BY <1>1, <1>2 DEF Truthful
  <2>3. IsPrefix(top.at, mono) \/ Last(top.at).tip
    BY <1>1, <1>2 DEF Rooted
  <2> HIDE DEF top
  <2>4. Truthful(Append(dest, top))
    BY <2>1, <2>2, <1>1, <1>2, TruthfulMore
  <2>5. Rooted(Append(dest, top), mono)
    BY <2>3, <1>1, <1>2, RootedMore
  <2> QED  BY <2>4, <2>5, <1>1, <1>2, <1>4
<1>5. CASE dest' = Append(dest, [tree |-> top.tree, at |-> <<>>])
  <2> DEFINE c == [tree |-> top.tree, at |-> <<>>]
  <2>1. c \in DestCommit /\ c.at = <<>>
    <3>1. top.tree \in Tree
      BY <1>1 DEF DestCommit
    <3> HIDE DEF top
    <3> QED  BY <3>1 DEF DestCommit
  <2> HIDE DEF c
  <2>2. Truthful(Append(dest, c)) /\ Rooted(Append(dest, c), mono)
    BY <2>1, <1>2, TruthfulMore, RootedMore
  <2> QED  BY <2>1, <2>2, <1>2, <1>5 DEF c
<1> QED  BY <1>1, <1>3, <1>4, <1>5

\* The destination's chain is one an export can go on from.
LEMMA DestGrown ==
  ASSUME TypeOK, Maps, CanExport
  PROVE  /\ LastExported(dest) \in History /\ IsPrefix(LastExported(dest), mono)
         /\ Grown(dest, mono, Len(LastExported(dest)))
<1>1. dest \in Seq(DestCommit) /\ mono \in History /\ Truthful(dest)
  BY DEF TypeOK, Maps, History
<1> DEFINE last == LastExported(dest)
<1>2. /\ last \in History
      /\ \A i \in Trailered(dest) : IsPrefix(dest[i].at, last)
  BY <1>1, LastTrailer
<1>3. IsPrefix(last, mono)
  BY DEF CanExport, OnChain
<1> HIDE DEF last
<1>4. ASSUME NEW i \in Trailered(dest)
      PROVE  IsPrefix(dest[i].at, mono) /\ Len(dest[i].at) <= Len(last)
  <2>1. dest[i].at \in History /\ IsPrefix(dest[i].at, last)
    BY <1>1, <1>2, TrailerTypes
  <2> QED  BY <2>1, <1>1, <1>2, <1>3, PrefixTransitive, PrefixPoints
<1> QED  BY <1>1, <1>2, <1>3, <1>4 DEF Grown, last

\* So what it ships is a chain of the same kind.
LEMMA ExportedMaps ==
  ASSUME TypeOK, Maps
  PROVE  /\ CanExport => /\ Exported \in Seq(DestCommit) /\ Truthful(Exported)
                         /\ Rooted(Exported, mono)
                         /\ Exported # dest => Tipped(Exported)
         /\ /\ FromScratch \in Seq(DestCommit) /\ Truthful(FromScratch)
            /\ Rooted(FromScratch, mono) /\ Tipped(FromScratch)
<1>1. mono \in History
  BY DEF TypeOK, History
<1>2. ASSUME NEW base, NEW stop \in History, IsPrefix(stop, mono), Grown(base, mono, Len(stop))
      PROVE  LET head == FoldLeft(Replay, base, FirstParentDelta(mono, stop))
             IN  /\ head \in Seq(DestCommit) /\ Truthful(head) /\ Rooted(head, mono)
                 /\ head # base => Tipped(head)
  <2> DEFINE head == FoldLeft(Replay, base, FirstParentDelta(mono, stop))
  <2>1. /\ Grown(head, mono, Len(mono))
        /\ head = base \/ (head # <<>> /\ Last(head).at # <<>>)
    BY <1>1, <1>2, ExportGrows
  <2> HIDE DEF head
  <2>2. head \in Seq(DestCommit) /\ Truthful(head) /\ Rooted(head, mono)
    BY <2>1 DEF Grown, Rooted
  <2>3. head # base => Tipped(head)
    BY <2>1 DEF Tipped
  <2> QED  BY <2>2, <2>3 DEF head
<1>3. ASSUME CanExport
      PROVE  /\ Exported \in Seq(DestCommit) /\ Truthful(Exported) /\ Rooted(Exported, mono)
             /\ Exported # dest => Tipped(Exported)
  BY <1>2, <1>3, DestGrown DEF Exported
<1>4. /\ FromScratch \in Seq(DestCommit) /\ Truthful(FromScratch)
      /\ Rooted(FromScratch, mono)
      /\ FromScratch # <<>> => Tipped(FromScratch)
  <2>1. <<>> \in History /\ IsPrefix(<<>>, mono)
    <3>1. <<>> \in History
      BY DEF History
    <3>2. Len(<<>>) <= Len(mono) /\ \A k \in 1..Len(<<>>) : <<>>[k] = mono[k]
      BY <1>1 DEF History
    <3> QED  BY <3>1, <3>2, <1>1, PrefixPoints
  <2>2. Grown(<<>>, mono, Len(<<>>))
    <3>1. <<>> \in Seq(DestCommit)
      OBVIOUS
    <3>2. Trailered(<<>>) = {} /\ Truthful(<<>>)
      BY NoTrailers
    <3> QED  BY <3>1, <3>2 DEF Grown
  <2> QED  BY <2>1, <2>2, <1>2 DEF FromScratch
<1> QED  BY <1>3, <1>4 DEF Tipped

-----------------------------------------------------------------------------
(* The theorems. *)

LEMMA InitMaps == Init => TypeOK /\ Maps
<1> SUFFICES ASSUME Init PROVE TypeOK /\ Maps
  OBVIOUS
<1>1. Maps
  BY NoTrailers DEF Init, Maps
<1>2. TypeOK
  <2>1. <<>> \in Seq(MonoCommit) /\ <<>> \in Seq(DestCommit)
    OBVIOUS
  <2>2. 0 \in 0..MaxEdits /\ 0 \in 0..MaxForeign /\ 0 \in 0..MaxFaults
    BY ExportAssumption
  <2> QED  BY <2>1, <2>2 DEF Init, TypeOK
<1> QED  BY <1>1, <1>2

LEMMA Bounds ==
  ASSUME TypeOK
  PROVE  /\ edits < MaxEdits => edits + 1 \in 0..MaxEdits
         /\ foreign < MaxForeign => foreign + 1 \in 0..MaxForeign
         /\ faults < MaxFaults => faults + 1 \in 0..MaxFaults
  BY ExportAssumption DEF TypeOK

LEMMA NextMaps == TypeOK /\ Maps /\ [Next]_vars => TypeOK' /\ Maps'
<1> SUFFICES ASSUME TypeOK, Maps, [Next]_vars PROVE TypeOK' /\ Maps'
  OBVIOUS
<1>0. /\ mono \in History /\ dest \in Seq(DestCommit) /\ branch \in Seq(DestCommit)
      /\ plan \in Seq(DestCommit) /\ <<>> \in Seq(DestCommit)
  BY DEF TypeOK, History
<1>1. CASE UNCHANGED vars
  BY <1>1 DEF vars, TypeOK, Maps, Truthful, Rooted, Tipped, Trailered
<1>2. ASSUME Reshaped(mono, mono'), edits < MaxEdits, edits' = edits + 1,
             UNCHANGED <<dest, branch, pr, plan, foreign, faults>>
      PROVE  TypeOK' /\ Maps'
  <2>1. Rooted(dest, mono') /\ Rooted(branch, mono') /\ Rooted(plan, mono')
    BY <1>0, <1>2, ReshapedRoots DEF Maps
  <2>2. Maps'
    BY <2>1, <1>2 DEF Maps, Truthful, Rooted, Tipped, Trailered
  <2>3. mono' \in Seq(MonoCommit)
    BY <1>2 DEF Reshaped, History
  <2> QED  BY <2>2, <2>3, <1>2, Bounds DEF TypeOK
<1>3. ASSUME NEW c \in Content \cup {Absent}, Commit(c) PROVE TypeOK' /\ Maps'
  <2>1. /\ edits < MaxEdits /\ edits' = edits + 1
        /\ UNCHANGED <<dest, branch, pr, plan, foreign, faults>>
    BY <1>3 DEF Commit, Edit
  <2> QED  BY <2>1, <1>0, <1>2, <1>3, CommitReshapes
<1>4. ASSUME NEW mirror \in {<<>>} \cup {<<c>> : c \in Content},
             NEW layer \in {<<>>} \cup {<<c>> : c \in Content}, Import(mirror, layer)
      PROVE  TypeOK' /\ Maps'
  <2>1. /\ edits < MaxEdits /\ edits' = edits + 1
        /\ UNCHANGED <<dest, branch, pr, plan, foreign, faults>>
    BY <1>4 DEF Import, Edit
  <2> QED  BY <2>1, <1>0, <1>2, <1>4, ImportReshapes
<1>5. CASE Project
  <2>1. /\ plan' \in Seq(DestCommit) /\ Truthful(plan') /\ Rooted(plan', mono) /\ Tipped(plan')
        /\ UNCHANGED <<mono, dest, branch, pr, edits, foreign, faults>>
    BY <1>5, ExportedMaps DEF Project
  <2> QED  BY <2>1 DEF TypeOK, Maps, Truthful, Rooted, Tipped, Trailered
<1>6. CASE ProjectBlind
  <2>1. /\ plan' \in Seq(DestCommit) /\ Truthful(plan') /\ Rooted(plan', mono) /\ Tipped(plan')
        /\ faults < MaxFaults /\ faults' = faults + 1
        /\ UNCHANGED <<mono, dest, branch, pr, edits, foreign>>
    BY <1>6, ExportedMaps DEF ProjectBlind
  <2> QED  BY <2>1, Bounds DEF TypeOK, Maps, Truthful, Rooted, Tipped, Trailered
<1>7. ASSUME Push, UNCHANGED <<mono, dest, edits, foreign>>, pr' \in BOOLEAN,
             faults' \in 0..MaxFaults
      PROVE  TypeOK' /\ Maps'
  <2>1. branch' = plan /\ plan' = <<>>
    BY <1>7 DEF Push
  <2>2. Truthful(<<>>) /\ Rooted(<<>>, mono) /\ Tipped(<<>>)
    BY NoTrailers
  <2>3. Maps'
    BY <2>1, <2>2, <1>7 DEF Maps, Truthful, Rooted, Tipped, Trailered
  <2> QED  BY <2>1, <2>3, <1>0, <1>7 DEF TypeOK
<1>8. CASE Publish
  BY <1>7, <1>8 DEF Publish, TypeOK
<1>9. CASE PushOnly
  BY <1>7, <1>9, Bounds DEF PushOnly, TypeOK
<1>10. CASE Abort
  <2>1. /\ plan' = <<>> /\ faults < MaxFaults /\ faults' = faults + 1
        /\ UNCHANGED <<mono, dest, branch, pr, edits, foreign>>
    BY <1>10 DEF Abort
  <2>2. Truthful(<<>>) /\ Rooted(<<>>, mono) /\ Tipped(<<>>)
    BY NoTrailers
  <2>3. Maps'
    BY <2>1, <2>2 DEF Maps, Truthful, Rooted, Tipped, Trailered
  <2> QED  BY <2>1, <2>3, <1>0, Bounds DEF TypeOK
<1>11. ASSUME NEW mode \in MergeModes, Merge(mode) PROVE TypeOK' /\ Maps'
  <2>1. dest' \in Seq(DestCommit) /\ Truthful(dest') /\ Rooted(dest', mono)
    BY <1>11, MergeKeepsMaps
  <2>2. pr' = FALSE /\ UNCHANGED <<mono, branch, plan, edits, foreign, faults>>
    BY <1>11 DEF Merge
  <2>3. Maps'
    BY <2>1, <2>2 DEF Maps, Truthful, Rooted, Tipped, Trailered
  <2> QED  BY <2>1, <2>2, <2>3 DEF TypeOK
<1>12. CASE Close
  <2>1. Maps'
    BY <1>12 DEF Close, Maps, Truthful, Rooted, Tipped, Trailered
  <2> QED  BY <2>1, <1>12, Bounds DEF Close, TypeOK
<1>13. ASSUME NEW t \in Tree, ForeignCommit(t) PROVE TypeOK' /\ Maps'
  <2> DEFINE c == [tree |-> t, at |-> <<>>]
  <2>1. /\ dest' = Append(dest, c) /\ foreign < MaxForeign /\ foreign' = foreign + 1
        /\ UNCHANGED <<mono, branch, pr, plan, edits, faults>>
    BY <1>13 DEF ForeignCommit
  <2>2. c \in DestCommit /\ c.at = <<>>
    BY DEF DestCommit
  <2> HIDE DEF c
  <2>3. Truthful(dest') /\ Rooted(dest', mono) /\ dest' \in Seq(DestCommit)
    BY <2>1, <2>2, <1>0, TruthfulMore, RootedMore DEF Maps
  <2>4. Maps'
    BY <2>1, <2>3 DEF Maps, Truthful, Rooted, Tipped, Trailered
  <2> QED  BY <2>1, <2>3, <2>4, Bounds DEF TypeOK
<1> QED  BY <1>1, <1>3, <1>4, <1>5, <1>6, <1>8, <1>9, <1>10, <1>11, <1>12, <1>13 DEF Next

\* The invariant all of the following rests on, inductive as it stands.
LEMMA AlwaysMaps == Spec => [](TypeOK /\ Maps)
<1>1. (TypeOK /\ Maps) /\ [Next]_vars => (TypeOK /\ Maps)'
  BY NextMaps
<1> QED  BY InitMaps, <1>1, PTL DEF Spec

\* Every variable of an export keeps its type.
THEOREM ExportTypes == Spec => []TypeOK
  BY AlwaysMaps, PTL

\* The trailers on the destination's branch are a true and ordered map of what was
\* shipped, for every way of merging and every failure.
THEOREM MapIsTrue == Spec => []ShippedOnce
<1>1. Maps => ShippedOnce
  BY DEF Maps, Truthful, ShippedOnce
<1> QED  BY <1>1, AlwaysMaps, PTL

\* An export is refused only over a commit of a rewritten tip layer.
THEOREM StuckOnlyOverTips == Spec => []StuckOnlyByTipRewrite
<1>1. ASSUME TypeOK, Maps, mono # <<>>, ~CanExport PROVE Last(LastExported(dest)).tip
  <2>1. dest \in Seq(DestCommit) /\ Truthful(dest) /\ Rooted(dest, mono) /\ mono \in History
    BY <1>1 DEF TypeOK, Maps, History
  <2>2. ~IsPrefix(LastExported(dest), mono)
    BY <1>1 DEF CanExport, OnChain
  <2>3. Trailered(dest) # {}
    <3>1. IsPrefix(<<>>, mono)
      <4>1. <<>> \in History /\ Len(<<>>) <= Len(mono) /\ \A k \in 1..Len(<<>>) : <<>>[k] = mono[k]
        BY <2>1 DEF History
      <4> QED  BY <4>1, <2>1, PrefixPoints
    <3> QED  BY <3>1, <2>1, <2>2, LastTrailer
  <2>4. PICK t \in Trailered(dest) : LastExported(dest) = dest[t].at
    BY <2>1, <2>3, LastTrailer
  <2> QED  BY <2>1, <2>2, <2>4 DEF Rooted
<1>2. TypeOK /\ Maps => StuckOnlyByTipRewrite
  BY <1>1 DEF StuckOnlyByTipRewrite
<1> QED  BY <1>2, AlwaysMaps, PTL

\* An export that finds nothing to do leaves the destination at the newest state of
\* the path, unless people committed there last.
THEOREM UpToDateIsNoLie == Spec => []UpToDateIsTrue
<1>1. ASSUME TypeOK, Maps, CanExport, Exported = dest, dest # <<>> => Last(dest).at # <<>>,
             Present # {}
      PROVE  dest # <<>> /\ Last(dest).tree = Ship[mono[Max(Present)].content]
  <2> DEFINE top == Max(Present)
             last == LastExported(dest)
  <2>1. dest \in Seq(DestCommit) /\ Truthful(dest) /\ mono \in History /\ Len(mono) \in Nat
    BY <1>1 DEF TypeOK, Maps, History
  <2>2. /\ top \in 1..Len(mono) /\ mono[top].content # Absent
        /\ \A i \in 1..Len(mono) : mono[i].content # Absent => i <= top
    <3>1. DOMAIN mono = 1..Len(mono)
      BY <2>1 DEF History
    <3>2. Present \subseteq 1..Len(mono)
      BY <3>1 DEF Present
    <3>3. top \in Present /\ \A i \in Present : i <= top
      BY <3>2, <2>1, <1>1, MaxProps
    <3> HIDE DEF top
    <3> QED  BY <3>1, <3>3 DEF Present
  <2>3. last \in History /\ IsPrefix(last, mono) /\ Grown(dest, mono, Len(last))
    BY <1>1, DestGrown
  <2>4. last = SubSeq(mono, 1, Len(last)) /\ Len(last) \in 0..Len(mono)
    BY <2>1, <2>3, PrefixIsFirst
  <2>5. \A k \in (Len(last) + 1)..Len(mono) : Replay(dest, SubSeq(mono, 1, k)) = dest
    BY <1>1, <2>1, <2>3, ExportGrows DEF Exported
  <2> HIDE DEF top, last
  <2> DEFINE m == SubSeq(mono, 1, top)
  <2>6. m \in History /\ Last(m) = mono[top] /\ Last(m) \in MonoCommit
    BY <2>1, <2>2, FirstCommits
  <2>7. CASE top > Len(last)
    <3>1. Replay(dest, m) = dest
      BY <2>1, <2>2, <2>4, <2>5, <2>7
    <3> HIDE DEF m
    <3>2. Last(m).content # Absent
      BY <2>2, <2>6
    <3> DEFINE c == [tree |-> Ship[Last(m).content], at |-> m]
    <3>3. \/ dest # <<>> /\ Last(dest).tree = Ship[Last(m).content]
          \/ c \in DestCommit /\ Replay(dest, m) = Append(dest, c)
      BY <3>1, <3>2, <2>1, <2>6, ReplayOne
    <3>4. c \in DestCommit => Append(dest, c) # dest
      <4> HIDE DEF c
      <4>1. c \in DestCommit => Len(Append(dest, c)) = Len(dest) + 1 /\ Len(dest) \in Nat
        BY <2>1
      <4> QED  BY <4>1
    <3> HIDE DEF c
    <3>5. dest # <<>> /\ Last(dest).tree = Ship[Last(m).content]
      BY <3>1, <3>3, <3>4
    <3> QED  BY <3>5, <2>6 DEF top
  <2>8. CASE ~(top > Len(last))
    <3>1. Len(last) # 0
      BY <2>2, <2>4, <2>8, <2>1
    <3>2. Trailered(dest) # {}
      BY <3>1, <2>1, LastTrailer DEF last
    <3>3. PICK t \in Trailered(dest) : last = dest[t].at /\ \A i \in Trailered(dest) : i <= t
      BY <3>2, <2>1, LastTrailer DEF last
    <3>4. t \in 1..Len(dest) /\ Len(dest) \in Nat
      BY <3>3, <2>1, TrailerTypes
    <3>5. dest # <<>> /\ Len(dest) \in 1..Len(dest) /\ DOMAIN dest = 1..Len(dest)
      BY <3>4, <2>1
    <3>6. Len(dest) \in Trailered(dest)
      BY <3>5, <1>1 DEF Trailered, Last
    <3>7. t = Len(dest)
      BY <3>3, <3>4, <3>6
    <3>8. /\ Last(dest) = dest[t] /\ Last(last).content # Absent
          /\ dest[t].tree = Ship[Last(last).content]
      BY <3>3, <3>7, <2>1 DEF Truthful, Last
    <3>9. Last(last) = mono[Len(last)] /\ Len(last) \in 1..Len(mono)
      <4>1. Len(last) \in 1..Len(mono)
        BY <3>1, <2>1, <2>4
      <4>2. Last(SubSeq(mono, 1, Len(last))) = mono[Len(last)]
        BY <4>1, <2>1, FirstCommits
      <4> QED  BY <4>1, <4>2, <2>4
    <3>10. Len(last) = top
      BY <3>8, <3>9, <2>1, <2>2, <2>8
    <3> QED  BY <3>5, <3>8, <3>9, <3>10 DEF top
  <2>9. top \in Int /\ Len(last) \in Int
    BY <2>2, <2>4
  <2> QED  BY <2>7, <2>8
<1>2. TypeOK /\ Maps => UpToDateIsTrue
  BY <1>1 DEF UpToDateIsTrue, Current
<1> QED  BY <1>2, AlwaysMaps, PTL

\* Where people do not use merge commits, nothing a merged pull request brought is in
\* the delta of the export after it.
THEOREM MergedIsBehind == "merge" \notin MergeModes /\ Spec => MergedLeavesDelta
<1> DEFINE Delta(mode) ==
             Merge(mode) /\ CanExport' =>
               \A i \in DOMAIN New :
                 New[i].at \notin Range(FirstParentDelta(mono, LastExported(dest')))
<1>1. ASSUME TypeOK, Maps, "merge" \notin MergeModes, NEW mode \in MergeModes
      PROVE  Delta(mode)
  <2> SUFFICES ASSUME Merge(mode), NEW i \in DOMAIN New
               PROVE  New[i].at \notin Range(FirstParentDelta(mono, LastExported(dest')))
    OBVIOUS
  <2> DEFINE l == Len(branch)
             top == branch[l]
             last == LastExported(dest')
  <2>1. /\ Len(dest) < l /\ \A k \in 1..Len(dest) : dest[k] = branch[k]
        /\ Len(dest) + i \in 1..l /\ New[i] = branch[Len(dest) + i]
        /\ top \in DestCommit /\ l \in Trailered(branch)
        /\ dest' = branch \/ dest' = Append(dest, top)
    BY <1>1, MergeAdds
  <2>2. /\ dest \in Seq(DestCommit) /\ branch \in Seq(DestCommit) /\ mono \in History
        /\ Truthful(branch) /\ l \in Nat /\ DOMAIN branch = 1..l
    BY <1>1 DEF TypeOK, Maps, History
  <2>3. dest' \in Seq(DestCommit) /\ Truthful(dest')
    BY <1>1, MergeKeepsMaps
  <2>4. last \in History /\ \A k \in Trailered(dest') : IsPrefix(dest'[k].at, last)
    BY <2>3, LastTrailer
  <2>5. top.at # <<>> /\ top.at \in History
    BY <2>1, <2>2, TrailerTypes
  <2> HIDE DEF last, top, l
  <2>6. IsPrefix(top.at, last)
    <3>1. CASE dest' = branch
      BY <3>1, <2>1, <2>4 DEF top, l
    <3>2. CASE dest' = Append(dest, top)
      <4>1. Len(dest) + 1 \in Trailered(Append(dest, top)) /\ Append(dest, top)[Len(dest) + 1] = top
        BY <2>1, <2>2, <2>5, OneMore
      <4> QED  BY <3>2, <4>1, <2>4
    <3> QED  BY <3>1, <3>2, <2>1
  <2> DEFINE p == Len(dest) + i
             s == New[i].at
  <2>7. s # <<>> => s \in History /\ Len(s) <= Len(last)
    <3> SUFFICES ASSUME s # <<>> PROVE s \in History /\ Len(s) <= Len(last)
      OBVIOUS
    <3> HIDE DEF p
    <3>1. p \in 1..l /\ branch[p].at = s
      BY <2>1 DEF p
    <3>2. p \in Trailered(branch)
      BY <3>1, <2>2 DEF Trailered
    <3>3. s \in History
      BY <3>1, <3>2, <2>2, TrailerTypes
    <3>4. IsPrefix(s, top.at)
      <4>1. CASE p = l
        <5>1. s = top.at
          BY <3>1, <4>1 DEF top
        <5> HIDE DEF s
        <5> QED  BY <5>1, <3>3, PrefixPoints DEF History
      <4>2. CASE p # l
        <5>1. p < l
          BY <3>1, <4>2, <2>2
        <5> QED  BY <5>1, <3>1, <3>2, <2>1, <2>2 DEF Truthful, top
      <4> QED  BY <4>1, <4>2
    <3> HIDE DEF s
    <3> QED  BY <3>3, <3>4, <2>4, <2>5, <2>6, PrefixTransitive, PrefixPoints
  <2> HIDE DEF s
  <2> DEFINE delta == FirstParentDelta(mono, last)
  <2>8. ASSUME NEW k \in DOMAIN delta PROVE delta[k] # s
    <3>1. /\ k \in 1..(Len(mono) - Len(last)) /\ delta[k] = SubSeq(mono, 1, Len(last) + k)
          /\ Len(mono) \in Nat /\ Len(last) \in Nat
      BY <2>8, <2>2, <2>4 DEF FirstParentDelta, History
    <3>2. Len(last) + k \in 1..Len(mono)
      BY <3>1
    <3>3. delta[k] # <<>> /\ Len(delta[k]) = Len(last) + k
      BY <3>1, <3>2, <2>2, FirstCommits
    <3>4. Len(last) + k > Len(last)
      BY <3>1
    <3> HIDE DEF delta
    <3>5. CASE s = <<>>
      BY <3>3, <3>5
    <3>6. CASE s # <<>>
      <4>1. Len(s) <= Len(last) /\ Len(s) \in Nat
        BY <3>6, <2>7 DEF History
      <4> QED  BY <3>1, <3>3, <3>4, <4>1
    <3> QED  BY <3>5, <3>6
  <2> HIDE DEF delta
  <2>9. s \notin Range(delta)
    BY <2>8 DEF Range
  <2> QED  BY <2>9 DEF s, delta, last
<1>2. TypeOK /\ Maps /\ "merge" \notin MergeModes /\ [Next]_vars
      => [\A mode \in MergeModes : Delta(mode)]_vars
  BY <1>1
<1>3. CASE "merge" \notin MergeModes
  <2>1. TypeOK /\ Maps /\ [Next]_vars => [\A mode \in MergeModes : Delta(mode)]_vars
    BY <1>2, <1>3
  <2> QED  BY <2>1, AlwaysMaps, PTL DEF Spec, MergedLeavesDelta
<1>4. CASE ~("merge" \notin MergeModes)
  BY <1>4
<1> QED  BY <1>3, <1>4

\* What an export puts on top of a chain is named by the commits of its delta.
LEMMA ShipsDelta ==
  ASSUME NEW base \in Seq(DestCommit), NEW delta, NEW n \in Nat, DOMAIN delta = 1..n,
         \A k \in 1..n : delta[k] \in History /\ Last(delta[k]) \in MonoCommit
  PROVE  LET head == FoldLeft(Replay, base, delta)
         IN  /\ head \in Seq(DestCommit)
             /\ \A i \in (Len(base) + 1)..Len(head) : head[i].at \in Range(delta)
<1>1. PICK F : Heads(F, base, delta, n) /\ FoldLeft(Replay, base, delta) = F[n]
  BY ReplayAll
<1> DEFINE Named(head) == /\ head \in Seq(DestCommit) /\ Len(base) <= Len(head)
                          /\ \A i \in (Len(base) + 1)..Len(head) : head[i].at \in Range(delta)
           G == {k \in 0..n : Named(F[k])}
<1>2. 0 \in G
  BY <1>1 DEF Heads
<1>3. ASSUME NEW k \in 0..(n - 1), k \in G PROVE k + 1 \in G
  <2> DEFINE m == delta[k + 1]
             c == [tree |-> Ship[Last(m).content], at |-> m]
             new == Append(F[k], c)
  <2>1. k + 1 \in 0..n /\ k + 1 \in 1..n /\ (k + 1) - 1 = k
    OBVIOUS
  <2>2. F[k + 1] = Replay(F[k], m)
    BY <1>1, <2>1 DEF Heads
  <2>3. Named(F[k]) /\ m \in History /\ Last(m) \in MonoCommit /\ m \in Range(delta)
    BY <1>3, <2>1 DEF Range
  <2>4. c.at = m
    OBVIOUS
  <2> HIDE DEF m, c
  <2>5. CASE F[k + 1] = F[k]
    BY <2>1, <2>3, <2>5
  <2>6. CASE c \in DestCommit /\ F[k + 1] = new
    <3>1. /\ new \in Seq(DestCommit) /\ Len(new) = Len(F[k]) + 1
          /\ new[Len(F[k]) + 1] = c /\ \A i \in 1..Len(F[k]) : new[i] = F[k][i]
      BY <2>3, <2>6, OneMore
    <3>2. Len(F[k]) \in Nat /\ Len(base) \in Nat
      BY <2>3
    <3> HIDE DEF new
    <3>3. ASSUME NEW i \in (Len(base) + 1)..Len(new) PROVE new[i].at \in Range(delta)
      <4>1. \/ i \in (Len(base) + 1)..Len(F[k]) /\ i \in 1..Len(F[k])
            \/ i = Len(F[k]) + 1
        BY <3>1, <3>2
      <4> QED  BY <4>1, <3>1, <2>3, <2>4
    <3>4. Named(new)
      BY <3>1, <3>2, <3>3, <2>3
    <3> HIDE DEF Named
    <3> QED  BY <2>1, <2>6, <3>4
  <2>7. F[k + 1] = F[k] \/ (c \in DestCommit /\ F[k + 1] = new)
    BY <2>2, <2>3, ReplayOne DEF c
  <2> QED  BY <2>5, <2>6, <2>7
<1>4. n \in 0..n
  OBVIOUS
<1>5. n \in G
  <2> HIDE DEF G
  <2> QED  BY <1>2, <1>3, <1>4, StepByStep
<1> QED  BY <1>1, <1>5

\* So without merge commits only the delta ships, and the first export after a merge
\* brings back nothing of it.
THEOREM DeltaOnly == "merge" \notin MergeModes /\ Spec => OnlyDeltaShips
<1> DEFINE Behind(mode) ==
             Merge(mode) /\ CanExport' =>
               \A i \in DOMAIN New :
                 New[i].at \notin Range(FirstParentDelta(mono, LastExported(dest')))
           Fresh(mode) ==
             Merge(mode) /\ CanExport' =>
               \A i \in DOMAIN New, k \in DOMAIN Ships' : Ships'[k].at # New[i].at
<1>1. ASSUME TypeOK, Maps, NEW mode \in MergeModes, Behind(mode)
      PROVE  Fresh(mode)
  <2> SUFFICES ASSUME Merge(mode), CanExport', NEW i \in DOMAIN New, NEW k \in DOMAIN Ships'
               PROVE  Ships'[k].at # New[i].at
    OBVIOUS
  <2> DEFINE last == LastExported(dest')
             delta == FirstParentDelta(mono, last)
             n == Len(mono) - Len(last)
             head == FoldLeft(Replay, dest', delta)
  <2>1. mono' = mono /\ mono \in History /\ OnChain(last, mono)
    BY <1>1 DEF Merge, TypeOK, CanExport, History
  <2>2. dest' \in Seq(DestCommit) /\ last \in History
    BY <1>1, MergeKeepsMaps, LastTrailer
  <2>3. Exported' = head
    BY <2>1 DEF Exported
  <2> HIDE DEF last, head
  <2>4. n \in Nat /\ Len(last) \in Nat /\ Len(mono) \in Nat
    BY <2>1, <2>2, PrefixPoints DEF OnChain, History
  <2>5. DOMAIN delta = 1..n /\ \A j \in 1..n : delta[j] = SubSeq(mono, 1, Len(last) + j)
    BY DEF FirstParentDelta
  <2>6. ASSUME NEW j \in 1..n PROVE delta[j] \in History /\ Last(delta[j]) \in MonoCommit
    <3>1. Len(last) + j \in 1..Len(mono)
      BY <2>4
    <3> QED  BY <3>1, <2>1, <2>5, FirstCommits
  <2> HIDE DEF n, delta
  <2>7. /\ head \in Seq(DestCommit)
        /\ \A j \in (Len(dest') + 1)..Len(head) : head[j].at \in Range(delta)
    BY <2>2, <2>4, <2>5, <2>6, ShipsDelta DEF head
  <2>8. /\ k \in 1..(Len(head) - Len(dest')) /\ Len(dest') \in Nat /\ Len(head) \in Nat
        /\ Ships'[k] = head[Len(dest') + k]
    BY <2>2, <2>3, <2>7 DEF Ships
  <2>9. Len(dest') + k \in (Len(dest') + 1)..Len(head)
    BY <2>8
  <2>10. Ships'[k].at \in Range(delta)
    BY <2>7, <2>8, <2>9
  <2>11. New[i].at \notin Range(delta)
    BY <1>1 DEF delta, last
  <2> QED  BY <2>10, <2>11
<1>2. TypeOK /\ Maps /\ [\A mode \in MergeModes : Behind(mode)]_vars
      => [\A mode \in MergeModes : Fresh(mode)]_vars
  <2> HIDE DEF Behind, Fresh
  <2> QED  BY <1>1
<1>3. CASE "merge" \notin MergeModes
  <2>1. Spec => [][\A mode \in MergeModes : Behind(mode)]_vars
    BY <1>3, MergedIsBehind DEF MergedLeavesDelta
  <2>2. TypeOK /\ Maps /\ [\A mode \in MergeModes : Behind(mode)]_vars
        => [\A mode \in MergeModes : Fresh(mode)]_vars
    BY <1>2
  <2> QED  BY <2>1, <2>2, AlwaysMaps, PTL DEF OnlyDeltaShips
<1>4. CASE ~("merge" \notin MergeModes)
  BY <1>4
<1> QED  BY <1>3, <1>4
=============================================================================
