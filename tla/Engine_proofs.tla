---------------------------- MODULE Engine_proofs ----------------------------
(***************************************************************************)
(* Lemmas about the engine's operators: the newest commit of a kind, what  *)
(* popping the tip layer leaves, and the shape of the branch that a full   *)
(* import builds.  Monorepo_proofs cites them by name.                     *)
(***************************************************************************)
EXTENDS Engine, FiniteSetTheorems, SequenceTheorems, TLAPS

\* A nonempty set of indices has a largest one.
LEMMA MaxExists ==
  ASSUME NEW n \in Nat, NEW I, I \subseteq 1..n, I # {}
  PROVE  \E m \in I : \A i \in I : i <= m
<1> DEFINE Above(i) == (i + 1)..n
           T == {Above(i) : i \in I}
<1>1. IsWellFoundedOn(StrictSubsetOrdering(1..n), SUBSET (1..n))
  <2>1. IsFiniteSet(1..n)
    BY FS_Interval
  <2> QED  BY <2>1, FS_FiniteSubsetsOfFinite, FS_StrictSubsetOrderingWellFounded
<1>2. \A i \in I : Above(i) \in SUBSET (1..n)
  BY SMT
<1>3. PICK X \in T : \A Y \in T : <<Y, X>> \notin StrictSubsetOrdering(1..n)
  <2>1. T \subseteq SUBSET (1..n) /\ T # {}
    BY <1>2
  <2> HIDE DEF T
  <2> QED  BY <1>1, <2>1, WFMin
<1>4. PICK m \in I : X = Above(m)
  BY <1>3
<1>5. ASSUME NEW j \in I, m < j PROVE FALSE
  <2>1. Above(j) \subseteq Above(m) /\ j \in Above(m) /\ j \notin Above(j)
    BY <1>5, SMT
  <2>2. <<Above(j), X>> \in StrictSubsetOrdering(1..n)
    BY <2>1, <1>2, <1>4 DEF StrictSubsetOrdering
  <2> QED  BY <2>2, <1>3
<1>6. I \subseteq Int
  BY SMT
<1> QED  BY <1>5, <1>6, SMT

\* Induction up to n, for what can be put as membership of a set.
LEMMA StepByStep ==
  ASSUME NEW n \in Nat, NEW G, 0 \in G, \A k \in 0..(n - 1) : k \in G => k + 1 \in G
  PROVE  \A k \in 0..n : k \in G
<1> DEFINE H == {j \in 1..(n + 1) : \A i \in 0..(j - 1) : i \in G}
<1>1. 1 \in H
  OBVIOUS
<1>2. PICK m \in H : \A j \in H : j <= m
  <2>1. H \subseteq 1..(n + 1) /\ n + 1 \in Nat
    OBVIOUS
  <2>2. H # {}
    BY <1>1
  <2> HIDE DEF H
  <2> QED  BY <2>1, <2>2, MaxExists
<1>3. m = n + 1
  <2>1. ASSUME m # n + 1 PROVE FALSE
    <3>1. m \in 1..n /\ m - 1 \in 0..(n - 1) /\ m - 1 \in G
      BY <1>2, <2>1
    <3>2. m \in G
      BY <3>1
    <3>3. m + 1 \in H
      BY <1>2, <3>1, <3>2
    <3> QED  BY <1>2, <3>1, <3>3
  <2> QED  BY <2>1
<1> QED  BY <1>2, <1>3

\* Newest is what its name says.
LEMMA NewestProps ==
  ASSUME NEW n \in Nat, NEW I, I \subseteq 1..n
  PROVE  /\ Newest(I) \in 0..n
         /\ I = {} => Newest(I) = 0
         /\ I # {} => Newest(I) \in I
         /\ \A i \in I : i <= Newest(I)
<1>1. CASE I = {}
  BY <1>1 DEF Newest
<1>2. CASE I # {}
  <2>1. PICK m \in I : \A i \in I : i <= m
    BY <1>2, MaxExists
  <2>2. I \subseteq Int
    OBVIOUS
  <2>3. \A i \in I : m >= i
    BY <2>1, <2>2
  <2>4. Max(I) \in I /\ \A j \in I : Max(I) >= j
    BY <2>3 DEF Max
  <2>5. Newest(I) = Max(I)
    BY <1>2 DEF Newest
  <2>6. Newest(I) \in I /\ \A j \in I : Newest(I) >= j
    BY <2>4, <2>5
  <2>7. Newest(I) \in 1..n
    BY <2>6
  <2>8. \A i \in I : i <= Newest(I)
    BY <2>2, <2>6, <2>7, SMT
  <2> QED  BY <2>6, <2>7, <2>8, <1>2, SMT
<1> QED  BY <1>1, <1>2

\* Two index sets with the same newest element need not be equal, but a set
\* has only one element that bounds it.
LEMMA NewestUnique ==
  ASSUME NEW n \in Nat, NEW I, I \subseteq 1..n,
         NEW m \in I, \A i \in I : i <= m
  PROVE  Newest(I) = m
<1>1. Newest(I) \in I /\ m <= Newest(I)
  BY NewestProps
<1>2. Newest(I) <= m
  BY <1>1
<1>3. m \in 1..n /\ Newest(I) \in 1..n
  BY <1>1
<1> QED  BY <1>1, <1>2, <1>3, SMT

-----------------------------------------------------------------------------

\* A prefix, point by point.
LEMMA PrefixPoints ==
  ASSUME NEW s \in History, NEW t \in History
  PROVE  IsPrefix(s, t) <=> Len(s) <= Len(t) /\ \A k \in 1..Len(s) : s[k] = t[k]
  BY DEF IsPrefix, History

\* Histories are equal when they agree point by point.
LEMMA HistoryEqual ==
  ASSUME NEW s \in History, NEW t \in History, Len(s) = Len(t),
         \A k \in 1..Len(s) : s[k] = t[k]
  PROVE  s = t
  BY DEF History

\* A prefix of a history is a history.
LEMMA HistorySubSeq ==
  ASSUME NEW s \in History, NEW k \in 0..Len(s)
  PROVE  /\ SubSeq(s, 1, k) \in History
         /\ Len(SubSeq(s, 1, k)) = k
         /\ \A j \in 1..k : SubSeq(s, 1, k)[j] = s[j]
  BY DEF History

\* A prefix of a prefix.
LEMMA PrefixOfPrefix ==
  ASSUME NEW s \in History, NEW k \in 0..Len(s), NEW l \in 0..k
  PROVE  SubSeq(SubSeq(s, 1, k), 1, l) = SubSeq(s, 1, l)
<1>1. Len(s) \in Nat
  BY DEF History
<1>2. l \in 0..Len(s) /\ l \in 0..Len(SubSeq(s, 1, k)) /\ SubSeq(s, 1, k) \in History
  BY <1>1, HistorySubSeq
<1>3. \A j \in 1..l : SubSeq(SubSeq(s, 1, k), 1, l)[j] = SubSeq(s, 1, l)[j]
  BY <1>1, <1>2, HistorySubSeq
<1> QED  BY <1>2, <1>3, HistorySubSeq, HistoryEqual

\* Below a prefix, two histories are the same.
LEMMA SharedPrefix ==
  ASSUME NEW s \in History, NEW t \in History, IsPrefix(s, t), NEW l \in 0..Len(s)
  PROVE  l \in 0..Len(t) /\ SubSeq(s, 1, l) = SubSeq(t, 1, l)
<1>1. Len(s) \in Nat /\ Len(t) \in Nat
  BY DEF History
<1>2. l \in 0..Len(t) /\ \A j \in 1..l : s[j] = t[j]
  BY <1>1, PrefixPoints
<1>3. \A j \in 1..l : SubSeq(s, 1, l)[j] = SubSeq(t, 1, l)[j]
  BY <1>2, HistorySubSeq
<1> QED  BY <1>2, <1>3, HistorySubSeq, HistoryEqual

-----------------------------------------------------------------------------
(* Reading the branch back. *)

\* The newest mirror commit of d decides what was last imported.
LEMMA LastImportedProps ==
  ASSUME NEW chain \in Seq(Commit), NEW d \in Dest
  PROVE  /\ LastImportedOrigin(chain, d) \in History
         /\ MirrorsIn(chain, d) = {} => LastImportedOrigin(chain, d) = <<>>
         /\ \A m \in MirrorsIn(chain, d) :
              (\A i \in MirrorsIn(chain, d) : i <= m) => LastImportedOrigin(chain, d) = chain[m].at
         /\ MirrorsIn(chain, d) # {} =>
              \E m \in MirrorsIn(chain, d) : /\ \A i \in MirrorsIn(chain, d) : i <= m
                                             /\ LastImportedOrigin(chain, d) = chain[m].at
<1> DEFINE M == MirrorsIn(chain, d)
<1>1. M \subseteq 1..Len(chain) /\ Len(chain) \in Nat
  BY DEF MirrorsIn
<1>2. \A i \in M : chain[i].at \in History
  <2>1. \A i \in M : chain[i] \in Commit
    BY <1>1, ElementOfSeq
  <2>2. \A c \in Commit : c.at \in History
    BY DEF Commit
  <2> QED  BY <2>1, <2>2
<1>3. <<>> \in History
  BY DEF History
<1>4. CASE M = {}
  <2>1. Newest(M) = 0
    BY <1>1, <1>4, NewestProps
  <2> QED  BY <2>1, <1>3, <1>4 DEF LastImportedOrigin
<1>5. CASE M # {}
  <2>1. /\ Newest(M) \in M
        /\ \A i \in M : i <= Newest(M)
        /\ \A m \in M : (\A i \in M : i <= m) => Newest(M) = m
    <3>1. \A m \in M : (\A i \in M : i <= m) => Newest(M) = m
      <4> HIDE DEF M
      <4> QED  BY <1>1, NewestUnique
    <3> QED  BY <1>1, <1>5, <3>1, NewestProps
  <2>2. Newest(M) # 0
    BY <2>1, <1>1
  <2>3. LastImportedOrigin(chain, d) = chain[Newest(M)].at
    BY <2>2 DEF LastImportedOrigin
  <2> QED  BY <2>1, <2>3, <1>2, <1>5
<1> QED  BY <1>4, <1>5

\* Popping d's tip layer leaves a prefix; everything popped is d's tip.
LEMMA StripProps ==
  ASSUME NEW chain \in Seq(Commit), NEW d \in Dest
  PROVE  \E k \in 0..Len(chain) :
           /\ StripTipLayer(chain, d) = SubSeq(chain, 1, k)
           /\ \A i \in (k + 1)..Len(chain) : IsOurTip(chain[i], d)
<1> DEFINE I == {i \in DOMAIN chain : ~IsOurTip(chain[i], d)}
<1>1. I \subseteq 1..Len(chain) /\ Len(chain) \in Nat
  OBVIOUS
<1>2. Newest(I) \in 0..Len(chain) /\ \A i \in I : i <= Newest(I)
  <2> HIDE DEF I
  <2> QED  BY <1>1, NewestProps
<1>3. \A i \in (Newest(I) + 1)..Len(chain) : IsOurTip(chain[i], d)
  <2>1. \A i \in (Newest(I) + 1)..Len(chain) : i \in 1..Len(chain) /\ ~(i <= Newest(I))
    BY <1>1, <1>2
  <2>2. \A i \in 1..Len(chain) : i \notin I => IsOurTip(chain[i], d)
    OBVIOUS
  <2> QED  BY <1>2, <2>1, <2>2
<1> QED  BY <1>2, <1>3 DEF StripTipLayer

-----------------------------------------------------------------------------
(* The commits that are written, and where they land. *)

\* The tree of a branch is a subtree for every destination, also before any commit.
LEMMA TreeType ==
  ASSUME NEW chain \in Seq(Commit)
  PROVE  TreeOf(chain) \in [Dest -> Subtree]
<1>1. EmptyTree \in [Dest -> Subtree]
  BY DEF EmptyTree, Pristine, Subtree, History
<1>2. CASE chain = <<>>
  BY <1>1, <1>2 DEF TreeOf
<1>3. CASE chain # <<>>
  <2>1. Last(chain) \in Commit
    BY <1>3 DEF Last
  <2>2. \A c \in Commit : c.tree \in [Dest -> Subtree]
    BY DEF Commit
  <2> QED  BY <2>1, <2>2, <1>3 DEF TreeOf
<1> QED  BY <1>2, <1>3

\* A replayed commit is a commit.
LEMMA ReplayType ==
  ASSUME NEW chain \in Seq(Commit), NEW d \in Dest, NEW h \in History
  PROVE  ReplayCommit(chain, d, h) \in Commit
<1>1. [TreeOf(chain) EXCEPT ![d] = Pristine(h)] \in [Dest -> Subtree]
  BY TreeType DEF Pristine, Subtree
<1>2. <<>> \in Seq(TipLabel \cup LocalEdit)
  OBVIOUS
<1> QED  BY <1>1, <1>2 DEF ReplayCommit, Commit

\* It is a mirror commit of its destination, at the origin it replays.
LEMMA ReplayFields ==
  ASSUME NEW chain, NEW d, NEW h
  PROVE  /\ ReplayCommit(chain, d, h).kind = "mirror"
         /\ ReplayCommit(chain, d, h).dest = d
         /\ ReplayCommit(chain, d, h).at = h
  BY DEF ReplayCommit

\* A commit of the tip layer is a patch or an agent commit of its destination.
LEMMA TipFields ==
  ASSUME NEW chain, NEW d, NEW tips, NEW k
  PROVE  /\ TipCommit(chain, d, tips, k).kind \in {"patch", "agent"}
         /\ TipCommit(chain, d, tips, k).dest = d
  BY DEF TipCommit

\* A vendor snapshot leaves a branch a branch.
LEMMA VendorType ==
  ASSUME NEW chain \in Seq(Commit), NEW d \in Dest, NEW h \in History
  PROVE  VendorSnapshot(chain, d, h) \in Seq(Commit)
<1> DEFINE c == [kind |-> "vendor", dest |-> d, at |-> h, label |-> <<>>,
                 tree |-> [TreeOf(chain) EXCEPT ![d] = Pristine(h)]]
<1>1. c.tree \in [Dest -> Subtree]
  BY TreeType DEF Pristine, Subtree
<1>2. <<>> \in Seq(TipLabel \cup LocalEdit)
  OBVIOUS
<1>3. c \in Commit
  BY <1>1, <1>2 DEF Commit
<1> QED  BY <1>3 DEF VendorSnapshot

\* A commit of the tip layer is a commit.
LEMMA TipType ==
  ASSUME NEW chain \in Seq(Commit), NEW d \in Dest,
         NEW tips \in Seq(TipLabel), NEW k \in DOMAIN tips
  PROVE  TipCommit(chain, d, tips, k) \in Commit
<1>1. SubSeq(tips, 1, k) \in Seq(TipLabel \cup LocalEdit) /\ <<tips[k]>> \in Seq(TipLabel \cup LocalEdit)
  <2>1. tips \in Seq(TipLabel \cup LocalEdit)
    BY SeqMonotonic
  <2> QED  BY <2>1
<1>2. TreeOf(chain)[d] \in Subtree
  BY TreeType
<1>3. [TreeOf(chain)[d] EXCEPT !.edits = @ \o SubSeq(tips, 1, k)] \in Subtree
  <2>1. TreeOf(chain)[d].edits \o SubSeq(tips, 1, k) \in Seq(TipLabel \cup LocalEdit)
    BY <1>1, <1>2, ConcatProperties DEF Subtree
  <2>2. \A st \in Subtree, e \in Seq(TipLabel \cup LocalEdit) : [st EXCEPT !.edits = e] \in Subtree
    BY DEF Subtree
  <2> QED  BY <1>2, <2>1, <2>2
<1>4. TipCommit(chain, d, tips, k).tree \in [Dest -> Subtree]
  BY <1>3, TreeType DEF TipCommit
<1> QED  BY <1>1, <1>4 DEF TipCommit, Commit, History

\* What import_mirror appends: one commit per upstream commit after the last
\* imported one, in order.
LEMMA MirrorShape ==
  ASSUME NEW chain \in Seq(Commit), NEW d \in Dest, NEW tip \in History,
         OnChain(LastImportedOrigin(chain, d), tip)
  PROVE  LET last == LastImportedOrigin(chain, d)
             new  == ImportMirror(chain, d, tip)
         IN  /\ new \in Seq(Commit)
             /\ Len(new) = Len(chain) + (Len(tip) - Len(last))
             /\ \A i \in 1..Len(chain) : new[i] = chain[i]
             /\ \A k \in 1..(Len(tip) - Len(last)) :
                  new[Len(chain) + k] = ReplayCommit(chain, d, SubSeq(tip, 1, Len(last) + k))
<1> DEFINE last == LastImportedOrigin(chain, d)
           m == Len(tip) - Len(last)
           h(k) == SubSeq(tip, 1, Len(last) + k)
           added == [k \in 1..m |-> ReplayCommit(chain, d, h(k))]
<1>1. last \in History /\ m \in Nat /\ Len(last) \in Nat
  BY LastImportedProps, PrefixPoints DEF OnChain, History
<1>2. \A k \in 1..m : h(k) \in History
  BY <1>1, HistorySubSeq DEF History
<1>3. \A k \in 1..m : ReplayCommit(chain, d, h(k)) \in Commit
  BY <1>2, ReplayType
<1>4. added \in Seq(Commit) /\ Len(added) = m
  <2> HIDE DEF m, h
  <2> QED  BY <1>1, <1>3
<1>5. ImportMirror(chain, d, tip) = chain \o added
  BY <1>1 DEF ImportMirror, FirstParentDelta
<1>6. /\ chain \o added \in Seq(Commit)
      /\ Len(chain \o added) = Len(chain) + m
      /\ \A i \in 1..(Len(chain) + m) :
           (chain \o added)[i] = IF i <= Len(chain) THEN chain[i] ELSE added[i - Len(chain)]
  <2> HIDE DEF added, m
  <2> QED  BY <1>4, ConcatProperties
<1>7. Len(chain) \in Nat
  OBVIOUS
<1>8. \A i \in 1..Len(chain) : (chain \o added)[i] = chain[i]
  <2> HIDE DEF added, m
  <2> QED  BY <1>1, <1>6, <1>7
<1>9. \A k \in 1..m : (chain \o added)[Len(chain) + k] = added[k]
  <2> HIDE DEF added, m
  <2> QED  BY <1>1, <1>6, <1>7
<1> QED  BY <1>5, <1>6, <1>8, <1>9

\* What the tip layer appends: one commit per transform.
LEMMA LayerShape ==
  ASSUME NEW chain \in Seq(Commit), NEW d \in Dest, NEW tips \in Seq(TipLabel)
  PROVE  LET new == ApplyTipLayer(chain, d, tips)
         IN  /\ new \in Seq(Commit)
             /\ Len(new) = Len(chain) + Len(tips)
             /\ \A i \in 1..Len(chain) : new[i] = chain[i]
             /\ \A k \in 1..Len(tips) : new[Len(chain) + k] = TipCommit(chain, d, tips, k)
<1> DEFINE n == Len(tips)
           added == [k \in 1..n |-> TipCommit(chain, d, tips, k)]
<1>1. n \in Nat /\ Len(chain) \in Nat /\ DOMAIN tips = 1..n
  OBVIOUS
<1>2. \A k \in 1..n : TipCommit(chain, d, tips, k) \in Commit
  BY <1>1, TipType
<1>3. added \in Seq(Commit) /\ Len(added) = n
  <2> HIDE DEF n
  <2> QED  BY <1>1, <1>2
<1>4. ApplyTipLayer(chain, d, tips) = chain \o added
  BY <1>1 DEF ApplyTipLayer
<1>5. /\ chain \o added \in Seq(Commit)
      /\ Len(chain \o added) = Len(chain) + n
      /\ \A i \in 1..(Len(chain) + n) :
           (chain \o added)[i] = IF i <= Len(chain) THEN chain[i] ELSE added[i - Len(chain)]
  <2> HIDE DEF added, n
  <2> QED  BY <1>3, ConcatProperties
<1>6. \A i \in 1..Len(chain) : (chain \o added)[i] = chain[i]
  <2> HIDE DEF added, n
  <2> QED  BY <1>1, <1>5
<1>7. \A k \in 1..n : (chain \o added)[Len(chain) + k] = added[k]
  <2> HIDE DEF added, n
  <2> QED  BY <1>1, <1>5
<1> QED  BY <1>4, <1>5, <1>6, <1>7

\* What a full import does to a branch, layer by layer: it pops the branch back to
\* length n, replays upstream's commits onto that, and puts the tip layer on top.
ImportedLayers(chain, d, tip, tips, n) ==
  LET base == SubSeq(chain, 1, n)
      last == LastImportedOrigin(base, d)
      m    == Len(tip) - Len(last)
      mid  == ImportMirror(base, d, tip)
      new  == Import(chain, d, tip, tips)
  IN  /\ StripTipLayer(chain, d) = base
      /\ \A i \in (n + 1)..Len(chain) : IsOurTip(chain[i], d)
      /\ base \in Seq(Commit) /\ Len(base) = n /\ \A i \in 1..n : base[i] = chain[i]
      /\ last \in History /\ IsPrefix(last, tip) /\ m \in Nat
      /\ mid \in Seq(Commit) /\ Len(mid) = n + m
      /\ \A i \in 1..n : mid[i] = chain[i]
      /\ \A k \in 1..m : mid[n + k] = ReplayCommit(base, d, SubSeq(tip, 1, Len(last) + k))
      /\ new \in Seq(Commit) /\ Len(new) = n + m + Len(tips)
      /\ \A i \in 1..(n + m) : new[i] = mid[i]
      /\ \A k \in 1..Len(tips) : new[n + m + k] = TipCommit(mid, d, tips, k)

\* Every import that succeeds does that, for some length.
LEMMA ImportLayers ==
  ASSUME NEW chain \in Seq(Commit), NEW d \in Dest, NEW tip \in History,
         NEW tips \in Seq(TipLabel), CanImport(chain, d, tip, tips)
  PROVE  \E n \in 0..Len(chain) : ImportedLayers(chain, d, tip, tips, n)
<1>1. PICK n \in 0..Len(chain) :
        /\ StripTipLayer(chain, d) = SubSeq(chain, 1, n)
        /\ \A i \in (n + 1)..Len(chain) : IsOurTip(chain[i], d)
  BY StripProps
<1> DEFINE base == SubSeq(chain, 1, n)
           last == LastImportedOrigin(base, d)
           m    == Len(tip) - Len(last)
           mid  == ImportMirror(base, d, tip)
           new  == Import(chain, d, tip, tips)
<1>2. base \in Seq(Commit) /\ Len(base) = n /\ \A i \in 1..n : base[i] = chain[i]
  OBVIOUS
<1>3. OnChain(last, tip) /\ last \in History
  BY <1>1, <1>2, LastImportedProps DEF CanImport
<1>4. IsPrefix(last, tip) /\ m \in Nat
  BY <1>3, PrefixPoints DEF OnChain, History
<1>5. /\ mid \in Seq(Commit)
      /\ Len(mid) = n + m
      /\ \A i \in 1..n : mid[i] = chain[i]
      /\ \A k \in 1..m : mid[n + k] = ReplayCommit(base, d, SubSeq(tip, 1, Len(last) + k))
  <2> HIDE DEF base
  <2> QED  BY <1>2, <1>3, MirrorShape
<1>6. new = ApplyTipLayer(mid, d, tips)
  BY <1>1 DEF Import
<1>7. /\ new \in Seq(Commit)
      /\ Len(new) = n + m + Len(tips)
      /\ \A i \in 1..(n + m) : new[i] = mid[i]
      /\ \A k \in 1..Len(tips) : new[n + m + k] = TipCommit(mid, d, tips, k)
  <2>1. LET x == ApplyTipLayer(mid, d, tips)
        IN  /\ x \in Seq(Commit)
            /\ Len(x) = Len(mid) + Len(tips)
            /\ \A i \in 1..Len(mid) : x[i] = mid[i]
            /\ \A k \in 1..Len(tips) : x[Len(mid) + k] = TipCommit(mid, d, tips, k)
    <3> HIDE DEF mid
    <3> QED  BY <1>5, LayerShape
  <2> HIDE DEF mid, new, m
  <2> QED  BY <1>5, <1>6, <2>1
<1>8. ImportedLayers(chain, d, tip, tips, n)
  <2> HIDE DEF mid, new, m, last, base
  <2>1. /\ StripTipLayer(chain, d) = base
        /\ \A i \in (n + 1)..Len(chain) : IsOurTip(chain[i], d)
        /\ base \in Seq(Commit) /\ Len(base) = n /\ \A i \in 1..n : base[i] = chain[i]
        /\ last \in History /\ IsPrefix(last, tip) /\ m \in Nat
        /\ mid \in Seq(Commit) /\ Len(mid) = n + m
        /\ \A i \in 1..n : mid[i] = chain[i]
        /\ \A k \in 1..m : mid[n + k] = ReplayCommit(base, d, SubSeq(tip, 1, Len(last) + k))
        /\ new \in Seq(Commit) /\ Len(new) = n + m + Len(tips)
        /\ \A i \in 1..(n + m) : new[i] = mid[i]
        /\ \A k \in 1..Len(tips) : new[n + m + k] = TipCommit(mid, d, tips, k)
    BY <1>1, <1>2, <1>3, <1>4, <1>5, <1>7 DEF base
  <2> QED  BY <2>1 DEF ImportedLayers, base, last, m, mid, new
<1> QED  BY <1>8

\* The branch after a full import that popped the branch back to length n: what
\* is left of the old one, the new mirror commits, the new tip layer.
ImportedFrom(chain, d, tip, tips, n) ==
  LET base == SubSeq(chain, 1, n)
      last == LastImportedOrigin(base, d)
      m    == Len(tip) - Len(last)
      new  == Import(chain, d, tip, tips)
  IN  /\ base \in Seq(Commit)
      /\ Len(base) = n
      /\ \A i \in 1..n : base[i] = chain[i]
      /\ \A i \in (n + 1)..Len(chain) : IsOurTip(chain[i], d)
      /\ last \in History
      /\ IsPrefix(last, tip)
      /\ m \in Nat
      /\ new \in Seq(Commit)
      /\ Len(new) = n + m + Len(tips)
      /\ \A i \in 1..n : new[i] = chain[i]
      /\ \A k \in 1..m : /\ new[n + k].kind = "mirror" /\ new[n + k].dest = d
                         /\ new[n + k].at = SubSeq(tip, 1, Len(last) + k)
      /\ \A k \in 1..Len(tips) : /\ new[n + m + k].kind \in {"patch", "agent"}
                                 /\ new[n + m + k].dest = d

\* Every import that succeeds has that shape, for some length it popped back to.
LEMMA ImportShape ==
  ASSUME NEW chain \in Seq(Commit), NEW d \in Dest, NEW tip \in History,
         NEW tips \in Seq(TipLabel), CanImport(chain, d, tip, tips)
  PROVE  \E n \in 0..Len(chain) : ImportedFrom(chain, d, tip, tips, n)
<1>1. PICK n \in 0..Len(chain) : ImportedLayers(chain, d, tip, tips, n)
  BY ImportLayers
<1> DEFINE base == SubSeq(chain, 1, n)
           last == LastImportedOrigin(base, d)
           m    == Len(tip) - Len(last)
           mid  == ImportMirror(base, d, tip)
           new  == Import(chain, d, tip, tips)
<1>2. /\ base \in Seq(Commit) /\ Len(base) = n /\ \A i \in 1..n : base[i] = chain[i]
      /\ \A i \in (n + 1)..Len(chain) : IsOurTip(chain[i], d)
      /\ last \in History
  BY <1>1 DEF ImportedLayers
<1>4. IsPrefix(last, tip) /\ m \in Nat
  BY <1>1 DEF ImportedLayers
<1>5. /\ mid \in Seq(Commit)
      /\ Len(mid) = n + m
      /\ \A i \in 1..n : mid[i] = chain[i]
      /\ \A k \in 1..m : mid[n + k] = ReplayCommit(base, d, SubSeq(tip, 1, Len(last) + k))
  BY <1>1 DEF ImportedLayers
<1>7. /\ new \in Seq(Commit)
      /\ Len(new) = n + m + Len(tips)
      /\ \A i \in 1..(n + m) : new[i] = mid[i]
      /\ \A k \in 1..Len(tips) : new[n + m + k] = TipCommit(mid, d, tips, k)
  BY <1>1 DEF ImportedLayers
<1>8. \A i \in 1..n : new[i] = chain[i]
  <2> HIDE DEF mid, new, m
  <2> QED  BY <1>4, <1>5, <1>7
<1>9. \A k \in 1..m : /\ new[n + k].kind = "mirror" /\ new[n + k].dest = d
                      /\ new[n + k].at = SubSeq(tip, 1, Len(last) + k)
  <2>1. \A k \in 1..m : new[n + k] = mid[n + k]
    <3> HIDE DEF mid, new, m, base, last
    <3>1. m \in Nat  BY <1>4
    <3>2. \A k \in 1..m : n + k \in 1..(n + m)  BY <3>1
    <3>3. \A i \in 1..(n + m) : new[i] = mid[i]  BY <1>7
    <3> QED  BY <3>2, <3>3
  <2>2. \A k \in 1..m : new[n + k] = ReplayCommit(base, d, SubSeq(tip, 1, Len(last) + k))
    <3> HIDE DEF mid, new, m, base, last
    <3> QED  BY <2>1, <1>5
  <2>3. ASSUME NEW k \in 1..m
        PROVE  /\ new[n + k].kind = "mirror" /\ new[n + k].dest = d
               /\ new[n + k].at = SubSeq(tip, 1, Len(last) + k)
    <3> HIDE DEF mid, new, m, base, last
    <3> DEFINE h == SubSeq(tip, 1, Len(last) + k)
    <3>1. new[n + k] = ReplayCommit(base, d, h)
      BY <2>2
    <3>2. /\ ReplayCommit(base, d, h).kind = "mirror"
          /\ ReplayCommit(base, d, h).dest = d
          /\ ReplayCommit(base, d, h).at = h
      <4> HIDE DEF h
      <4> QED  BY ReplayFields
    <3> QED  BY <3>1, <3>2
  <2> QED  BY <2>3
<1>10. \A k \in 1..Len(tips) : /\ new[n + m + k].kind \in {"patch", "agent"}
                               /\ new[n + m + k].dest = d
  <2> HIDE DEF mid, new, m
  <2> QED  BY <1>7, TipFields
<1>11. ImportedFrom(chain, d, tip, tips, n)
  <2> HIDE DEF mid, new, m, last, base
  <2>1. /\ base \in Seq(Commit)
        /\ Len(base) = n
        /\ \A i \in 1..n : base[i] = chain[i]
        /\ \A i \in (n + 1)..Len(chain) : IsOurTip(chain[i], d)
        /\ last \in History
        /\ IsPrefix(last, tip)
        /\ m \in Nat
        /\ new \in Seq(Commit)
        /\ Len(new) = n + m + Len(tips)
        /\ \A i \in 1..n : new[i] = chain[i]
        /\ \A k \in 1..m : /\ new[n + k].kind = "mirror" /\ new[n + k].dest = d
                           /\ new[n + k].at = SubSeq(tip, 1, Len(last) + k)
        /\ \A k \in 1..Len(tips) : /\ new[n + m + k].kind \in {"patch", "agent"}
                                   /\ new[n + m + k].dest = d
    BY <1>2, <1>4, <1>7, <1>8, <1>9, <1>10
  <2> QED  BY <2>1 DEF ImportedFrom, base, last, m, new
<1> QED  BY <1>11

\* Which commits of the new branch are mirrors of d, and which are another's.
MirrorsAfter(chain, d, tip, tips, n) ==
  LET base == SubSeq(chain, 1, n)
      last == LastImportedOrigin(base, d)
      m    == Len(tip) - Len(last)
      new  == Import(chain, d, tip, tips)
      old  == {i \in MirrorsIn(chain, d) : i <= n}
  IN  /\ new \in Seq(Commit)
      /\ last \in History /\ IsPrefix(last, tip) /\ m \in Nat
      /\ MirrorsIn(base, d) = old
      /\ MirrorsIn(new, d) = old \cup {n + k : k \in 1..m}
      /\ \A i \in 1..n : new[i] = chain[i] /\ base[i] = chain[i]
      /\ \A k \in 1..m : new[n + k].at = SubSeq(tip, 1, Len(last) + k)
      /\ \A i \in MirrorsIn(chain, d) : i > n => Last(chain[i].at) \in Tainted
      /\ \A o \in Dest \ {d} :
           /\ MirrorsIn(new, o) = MirrorsIn(chain, o)
           /\ \A i \in MirrorsIn(chain, o) : i \in 1..n

\* And does that to the mirror commits of its destination and of the others.
LEMMA ImportMirrors ==
  ASSUME NEW chain \in Seq(Commit), NEW d \in Dest, NEW tip \in History,
         NEW tips \in Seq(TipLabel), CanImport(chain, d, tip, tips)
  PROVE  \E n \in 0..Len(chain) : MirrorsAfter(chain, d, tip, tips, n)
<1>1. PICK n \in 0..Len(chain) : ImportedFrom(chain, d, tip, tips, n)
  BY ImportShape
<1> DEFINE base == SubSeq(chain, 1, n)
           last == LastImportedOrigin(base, d)
           m    == Len(tip) - Len(last)
           new  == Import(chain, d, tip, tips)
           old  == {i \in MirrorsIn(chain, d) : i <= n}
<1>0. /\ base \in Seq(Commit)
      /\ Len(base) = n
      /\ \A i \in 1..n : base[i] = chain[i]
      /\ \A i \in (n + 1)..Len(chain) : IsOurTip(chain[i], d)
      /\ last \in History
      /\ IsPrefix(last, tip)
      /\ m \in Nat
      /\ new \in Seq(Commit)
      /\ Len(new) = n + m + Len(tips)
      /\ \A i \in 1..n : new[i] = chain[i]
      /\ \A k \in 1..m : /\ new[n + k].kind = "mirror" /\ new[n + k].dest = d
                         /\ new[n + k].at = SubSeq(tip, 1, Len(last) + k)
      /\ \A k \in 1..Len(tips) : /\ new[n + m + k].kind \in {"patch", "agent"}
                                 /\ new[n + m + k].dest = d
  BY <1>1 DEF ImportedFrom
<1> HIDE DEF base, last, m, new, old
<1>2. n \in Nat /\ m \in Nat /\ Len(tips) \in Nat /\ Len(chain) \in Nat /\ n <= Len(chain)
  BY <1>0
<1>3. /\ DOMAIN base = 1..n
      /\ DOMAIN chain = 1..Len(chain)
      /\ DOMAIN new = 1..(n + m + Len(tips))
  BY <1>0, LenProperties
<1>4. \A i \in DOMAIN new : \/ i \in 1..n
                            \/ \E k \in 1..m : i = n + k
                            \/ \E k \in 1..Len(tips) : i = n + m + k
  <2>1. ASSUME NEW i \in DOMAIN new, i \notin 1..n, ~(i \in (n + 1)..(n + m))
        PROVE  i - n - m \in 1..Len(tips) /\ i = n + m + (i - n - m)
    <3> QED  BY <2>1, <1>2, <1>3, SMT
  <2>2. ASSUME NEW i \in DOMAIN new, i \in (n + 1)..(n + m)
        PROVE  i - n \in 1..m /\ i = n + (i - n)
    <3> QED  BY <2>2, <1>2, <1>3, SMT
  <2> QED  BY <2>1, <2>2
<1>5. MirrorsIn(base, d) = old
  <2>1. \A i \in MirrorsIn(base, d) : i \in old
    BY <1>0, <1>2, <1>3 DEF MirrorsIn, old
  <2>2. \A i \in old : i \in MirrorsIn(base, d)
    BY <1>0, <1>2, <1>3 DEF MirrorsIn, old
  <2> QED  BY <2>1, <2>2
<1>6. MirrorsIn(new, d) = old \cup {n + k : k \in 1..m}
  <2>1. ASSUME NEW i \in MirrorsIn(new, d) PROVE i \in old \cup {n + k : k \in 1..m}
    <3>1. CASE i \in 1..n
      BY <3>1, <2>1, <1>0, <1>2, <1>3 DEF MirrorsIn, old
    <3>2. CASE i \notin 1..n
      <4>1. i \in DOMAIN new /\ new[i].kind = "mirror"
        BY <2>1 DEF MirrorsIn, old
      <4>2. ~ \E k \in 1..Len(tips) : i = n + m + k
        BY <4>1, <1>0
      <4> QED  BY <4>1, <4>2, <3>2, <1>4
    <3> QED  BY <3>1, <3>2
  <2>2. ASSUME NEW i \in old PROVE i \in MirrorsIn(new, d)
    <3>1. i \in 1..n /\ new[i] = chain[i]
      BY <2>2, <1>0, <1>2, <1>3 DEF MirrorsIn, old
    <3>2. i \in DOMAIN new
      <4> QED  BY <3>1, <1>2, <1>3
    <3> QED  BY <3>1, <3>2, <2>2 DEF MirrorsIn, old
  <2>3. ASSUME NEW k \in 1..m PROVE n + k \in MirrorsIn(new, d)
    <3>1. new[n + k].kind = "mirror" /\ new[n + k].dest = d
      BY <1>0
    <3>2. n + k \in DOMAIN new
      <4> QED  BY <1>2, <1>3
    <3> QED  BY <3>1, <3>2 DEF MirrorsIn, Scoped
  <2> QED  BY <2>1, <2>2, <2>3
<1>7. \A i \in MirrorsIn(chain, d) : i > n => Last(chain[i].at) \in Tainted
  <2>1. ASSUME NEW i \in MirrorsIn(chain, d), i > n PROVE IsOurTip(chain[i], d)
    BY <2>1, <1>0, <1>2, <1>3 DEF MirrorsIn, old
  <2> QED  BY <2>1 DEF IsOurTip, HasTipTrailer, MirrorsIn
<1>8. ASSUME NEW o \in Dest \ {d}
      PROVE  /\ MirrorsIn(new, o) = MirrorsIn(chain, o)
             /\ \A i \in MirrorsIn(chain, o) : i \in 1..n
  <2>1. ASSUME NEW i \in MirrorsIn(chain, o) PROVE i \in 1..n
    <3>1. chain[i].dest = o /\ i \in 1..Len(chain)
      BY <1>3 DEF MirrorsIn, Scoped
    <3>2. ~IsOurTip(chain[i], d)
      BY <3>1 DEF IsOurTip, Scoped
    <3> QED  BY <3>1, <3>2, <1>0, <1>2
  <2>2. ASSUME NEW i \in MirrorsIn(chain, o) PROVE i \in MirrorsIn(new, o)
    <3>1. i \in 1..n /\ new[i] = chain[i]
      BY <2>1, <1>0
    <3>2. i \in DOMAIN new
      <4> QED  BY <3>1, <1>2, <1>3
    <3> QED  BY <3>1, <3>2 DEF MirrorsIn, old
  <2>3. ASSUME NEW i \in MirrorsIn(new, o) PROVE i \in MirrorsIn(chain, o)
    <3>1. i \in DOMAIN new /\ new[i].dest = o
      BY DEF MirrorsIn, Scoped
    <3>2. i \in 1..n
      <4>1. \A k \in 1..m : i # n + k
        <5> SUFFICES ASSUME NEW k \in 1..m PROVE new[i] # new[n + k]  OBVIOUS
        <5>1. new[n + k].dest = d  BY <1>0
        <5> QED  BY ONLY <3>1, <5>1, o # d
      <4>2. \A k \in 1..Len(tips) : i # n + m + k
        <5> SUFFICES ASSUME NEW k \in 1..Len(tips) PROVE new[i] # new[n + m + k]  OBVIOUS
        <5>1. new[n + m + k].dest = d  BY <1>0
        <5> QED  BY ONLY <3>1, <5>1, o # d
      <4> QED  BY <3>1, <4>1, <4>2, <1>4
    <3>3. new[i] = chain[i] /\ i \in DOMAIN chain
      BY <3>2, <1>0, <1>2, <1>3
    <3> QED  BY <3>3 DEF MirrorsIn, old
  <2> QED  BY <2>1, <2>2, <2>3
<1>9. MirrorsAfter(chain, d, tip, tips, n)
  BY <1>0, <1>5, <1>6, <1>7, <1>8 DEF MirrorsAfter, base, last, m, new, old
<1> QED  BY <1>9

\* What was last imported below index n bounds every mirror commit down there.
LEMMA LastBounds ==
  ASSUME NEW chain \in Seq(Commit), NEW d \in Dest, NEW n \in 0..Len(chain),
         Ordered(chain, d),
         \A i \in 1..n : SubSeq(chain, 1, n)[i] = chain[i],
         MirrorsIn(SubSeq(chain, 1, n), d) = {i \in MirrorsIn(chain, d) : i <= n}
  PROVE  LET last == LastImportedOrigin(SubSeq(chain, 1, n), d)
             old  == {i \in MirrorsIn(chain, d) : i <= n}
         IN  /\ \A i \in old : /\ i \in 1..n /\ i \in MirrorsIn(chain, d)
                               /\ Len(chain[i].at) \in Nat
                               /\ Len(chain[i].at) <= Len(last)
             /\ last \in History /\ Len(last) \in Nat
             /\ old # {} => \E i0 \in old : last = chain[i0].at
             /\ old = {} => last = <<>>
<1> DEFINE base == SubSeq(chain, 1, n)
           last == LastImportedOrigin(base, d)
           old  == {i \in MirrorsIn(chain, d) : i <= n}
<1>1. base \in Seq(Commit)
  OBVIOUS
<1>2. \A i \in old : i \in 1..n /\ i \in MirrorsIn(chain, d)
  BY DEF MirrorsIn
<1>3. old # {} => \E i0 \in old : last = chain[i0].at /\ \A i \in old : i <= i0
  <2>1. MirrorsIn(base, d) # {} =>
          \E i0 \in MirrorsIn(base, d) : /\ \A i \in MirrorsIn(base, d) : i <= i0
                                         /\ last = base[i0].at
    BY <1>1, LastImportedProps
  <2>2. MirrorsIn(base, d) = old /\ \A i \in 1..n : base[i] = chain[i]
    OBVIOUS
  <2> HIDE DEF base, last, old
  <2> QED  BY <2>1, <2>2, <1>2
<1>4. old = {} => last = <<>>
  BY <1>1, LastImportedProps
<1>5. last \in History /\ Len(last) \in Nat
  <2>1. last \in History
    BY <1>1, LastImportedProps
  <2> QED  BY <2>1 DEF History
<1>6. \A i \in old : Len(chain[i].at) \in Nat
  <2>1. \A i \in old : chain[i] \in Commit
    BY <1>2, ElementOfSeq
  <2>2. \A c \in Commit : Len(c.at) \in Nat
    BY DEF Commit, History
  <2> QED  BY <2>1, <2>2
<1> HIDE DEF base, last, old
<1>7. ASSUME NEW i \in old PROVE Len(chain[i].at) <= Len(last)
  <2>1. PICK i0 \in old : last = chain[i0].at /\ i <= i0
    BY <1>3
  <2>2. CASE i = i0
    BY <2>1, <2>2, <1>5
  <2>3. CASE i # i0
    <3>1. i < i0
      BY <2>1, <2>3, <1>2
    <3> QED  BY <3>1, <2>1, <1>2, <1>5, <1>6 DEF Ordered
  <2> QED  BY <2>2, <2>3
<1> QED  BY <1>2, <1>3, <1>4, <1>5, <1>6, <1>7 DEF base, last, old

\* An import continues the order of the mirror commits.
LEMMA ImportKeepsOrder ==
  ASSUME NEW chain \in Seq(Commit), NEW d \in Dest, NEW tip \in History,
         NEW tips \in Seq(TipLabel), CanImport(chain, d, tip, tips),
         Ordered(chain, d), Gapless(chain, d)
  PROVE  /\ Ordered(Import(chain, d, tip, tips), d)
         /\ Gapless(Import(chain, d, tip, tips), d)
<1> DEFINE new == Import(chain, d, tip, tips)
<1>1. PICK n \in 0..Len(chain) : MirrorsAfter(chain, d, tip, tips, n)
  BY ImportMirrors
<1> DEFINE base == SubSeq(chain, 1, n)
           last == LastImportedOrigin(base, d)
           m    == Len(tip) - Len(last)
           old  == {i \in MirrorsIn(chain, d) : i <= n}
<1>2. /\ last \in History /\ IsPrefix(last, tip) /\ m \in Nat
      /\ MirrorsIn(base, d) = old
      /\ MirrorsIn(new, d) = old \cup {n + k : k \in 1..m}
      /\ \A i \in 1..n : new[i] = chain[i] /\ base[i] = chain[i]
      /\ \A k \in 1..m : new[n + k].at = SubSeq(tip, 1, Len(last) + k)
  BY <1>1 DEF MirrorsAfter
<1>3. /\ \A i \in old : /\ i \in 1..n /\ i \in MirrorsIn(chain, d)
                        /\ Len(chain[i].at) \in Nat
                        /\ Len(chain[i].at) <= Len(last)
      /\ old # {} => \E i0 \in old : last = chain[i0].at
      /\ old = {} => last = <<>>
  <2>1. \A i \in 1..n : SubSeq(chain, 1, n)[i] = chain[i]
    BY <1>2
  <2>2. MirrorsIn(SubSeq(chain, 1, n), d) = {i \in MirrorsIn(chain, d) : i <= n}
    BY <1>2
  <2> QED  BY <2>1, <2>2, LastBounds
<1>4. /\ \A i \in old : new[i].at = chain[i].at
      /\ n \in Nat /\ Len(chain) \in Nat
  BY <1>2, <1>3
<1>5. Len(last) \in Nat /\ Len(tip) \in Nat
  BY <1>2 DEF History
<1> HIDE DEF base, last, m, old, new
<1>6. m = Len(tip) - Len(last) /\ \A k \in 1..m : Len(last) + k \in 0..Len(tip)
  BY <1>2, <1>5 DEF m
<1>7. \A k \in 1..m : Len(new[n + k].at) = Len(last) + k
  <2>1. ASSUME NEW k \in 1..m PROVE Len(new[n + k].at) = Len(last) + k
    <3>1. new[n + k].at = SubSeq(tip, 1, Len(last) + k)  BY <1>2
    <3>2. Len(SubSeq(tip, 1, Len(last) + k)) = Len(last) + k  BY <1>6, HistorySubSeq
    <3> QED  BY <3>1, <3>2
  <2> QED  BY <2>1
<1>8. Ordered(new, d)
  <2>1. SUFFICES ASSUME NEW i \in old \cup {n + k : k \in 1..m},
                        NEW j \in old \cup {n + k : k \in 1..m}, i < j
                 PROVE  Len(new[i].at) < Len(new[j].at)
    BY <1>2 DEF Ordered
  <2>2. CASE i \in old /\ j \in old
    BY <2>1, <2>2, <1>3, <1>4 DEF Ordered
  <2>3. ASSUME i \in old, NEW k \in 1..m, j = n + k PROVE Len(new[i].at) < Len(new[j].at)
    <3>1. Len(new[j].at) = Len(last) + k /\ k \in Nat /\ k >= 1
      BY <2>3, <1>2, <1>7
    <3>2. new[i].at = chain[i].at /\ Len(chain[i].at) <= Len(last)
      BY <2>3, <1>3, <1>4
    <3> QED  BY <3>1, <3>2, <2>3, <1>5
  <2>4. ASSUME j \in old, NEW k \in 1..m, i = n + k PROVE FALSE
    BY <2>1, <2>4, <1>2, <1>3, <1>4
  <2>5. ASSUME NEW k \in 1..m, i = n + k, NEW l \in 1..m, j = n + l
        PROVE  Len(new[i].at) < Len(new[j].at)
    <3>1. Len(new[i].at) = Len(last) + k /\ Len(new[j].at) = Len(last) + l
      BY <2>5, <1>7
    <3>2. k \in Nat /\ l \in Nat /\ k < l
      BY <2>1, <2>5, <1>2, <1>3, <1>4
    <3> QED  BY <3>1, <3>2, <1>5
  <2> QED  BY <2>1, <2>2, <2>3, <2>4, <2>5
<1>9. Gapless(new, d)
  <2>1. SUFFICES ASSUME NEW j \in old \cup {n + k : k \in 1..m}, NEW l \in 1..Len(new[j].at)
                 PROVE  \E i \in old \cup {n + k : k \in 1..m} :
                          i <= j /\ new[i].at = SubSeq(new[j].at, 1, l)
    <3>1. MirrorsIn(new, d) = old \cup {n + k : k \in 1..m}  BY <1>2
    <3> QED  BY <3>1 DEF Gapless
  <2>2. CASE j \in old
    <3>1. PICK i \in MirrorsIn(chain, d) : i <= j /\ chain[i].at = SubSeq(chain[j].at, 1, l)
      BY <2>2, <2>1, <1>3, <1>4 DEF Gapless
    <3>2. i \in 1..Len(chain)
      BY DEF MirrorsIn
    <3>3. j \in 1..n
      BY <2>2, <1>3, <1>4
    <3>4. i <= n
      BY <3>1, <3>2, <3>3, <1>3, <1>4
    <3>5. i \in old
      BY <3>1, <3>4 DEF old
    <3> QED  BY <3>1, <3>5, <2>2, <1>3, <1>4
  <2>3. ASSUME NEW k \in 1..m, j = n + k
        PROVE  \E i \in old \cup {n + p : p \in 1..m} :
                 i <= j /\ new[i].at = SubSeq(new[j].at, 1, l)
    <3>1. l \in 1..(Len(last) + k) /\ new[j].at = SubSeq(tip, 1, Len(last) + k)
      BY <2>1, <2>3, <1>2, <1>7
    <3>2. SubSeq(new[j].at, 1, l) = SubSeq(tip, 1, l)
      BY <3>1, <1>5, <1>6, PrefixOfPrefix
    <3>3. CASE l <= Len(last)
      <4>1. old # {}
        BY <3>1, <3>3, <1>3, <1>5
      <4>2. PICK i0 \in old : last = chain[i0].at
        BY <4>1, <1>3
      <4>3. l \in 1..Len(chain[i0].at)
        BY <4>2, <3>1, <3>3, <1>5
      <4>4. PICK i \in MirrorsIn(chain, d) : i <= i0 /\ chain[i].at = SubSeq(last, 1, l)
        BY <4>2, <4>3, <1>3, <1>4 DEF Gapless
      <4>5. i \in 1..Len(chain)
        BY DEF MirrorsIn
      <4>6. i \in old /\ i <= j
        BY <4>2, <4>4, <4>5, <2>3, <1>2, <1>3, <1>4 DEF old
      <4>7. SubSeq(last, 1, l) = SubSeq(tip, 1, l)
        BY <3>1, <3>3, <1>2, <1>5, SharedPrefix
      <4> QED  BY <4>4, <4>6, <4>7, <3>2, <1>3, <1>4
    <3>4. CASE l > Len(last)
      <4> DEFINE p == l - Len(last)
      <4>1. p \in 1..m /\ n + p <= j /\ Len(last) + p = l
        BY <3>1, <3>4, <2>3, <1>2, <1>3, <1>4, <1>5
      <4>2. new[n + p].at = SubSeq(tip, 1, l)
        BY <4>1, <1>2
      <4> HIDE DEF p
      <4> QED  BY <4>1, <4>2, <3>2
    <3>5. l \in Int /\ Len(last) \in Int
      BY <3>1, <1>5
    <3>6. l <= Len(last) \/ l > Len(last)
      BY <3>5
    <3> QED  BY <3>3, <3>4, <3>6
  <2> QED  BY <2>1, <2>2, <2>3
<1> QED  BY <1>8, <1>9 DEF new

\* An import goes to the upstream's tip, takes back at most tainted changes, and
\* leaves every other destination's last imported commit as it was.
LEMMA ImportCatchesUp ==
  ASSUME NEW chain \in Seq(Commit), NEW d \in Dest, NEW tip \in History,
         NEW tips \in Seq(TipLabel), CanImport(chain, d, tip, tips),
         Ordered(chain, d), Gapless(chain, d)
  PROVE  LET new == Import(chain, d, tip, tips)
             was == LastImportedOrigin(chain, d)
         IN  /\ LastImportedOrigin(new, d) = tip
             /\ \E k \in 0..Len(was) : /\ \A j \in (k + 1)..Len(was) : was[j] \in Tainted
                                       /\ IsPrefix(SubSeq(was, 1, k), tip)
             /\ \A o \in Dest \ {d} : LastImportedOrigin(new, o) = LastImportedOrigin(chain, o)
<1> DEFINE new == Import(chain, d, tip, tips)
           was == LastImportedOrigin(chain, d)
<1>1. PICK n \in 0..Len(chain) : MirrorsAfter(chain, d, tip, tips, n)
  BY ImportMirrors
<1> DEFINE base == SubSeq(chain, 1, n)
           last == LastImportedOrigin(base, d)
           m    == Len(tip) - Len(last)
           old  == {i \in MirrorsIn(chain, d) : i <= n}
<1>2. /\ new \in Seq(Commit)
      /\ last \in History /\ IsPrefix(last, tip) /\ m \in Nat
      /\ MirrorsIn(base, d) = old
      /\ MirrorsIn(new, d) = old \cup {n + k : k \in 1..m}
      /\ \A i \in 1..n : new[i] = chain[i] /\ base[i] = chain[i]
      /\ \A k \in 1..m : new[n + k].at = SubSeq(tip, 1, Len(last) + k)
      /\ \A i \in MirrorsIn(chain, d) : i > n => Last(chain[i].at) \in Tainted
      /\ \A o \in Dest \ {d} :
           /\ MirrorsIn(new, o) = MirrorsIn(chain, o)
           /\ \A i \in MirrorsIn(chain, o) : i \in 1..n
  BY <1>1 DEF MirrorsAfter
<1>3. /\ \A i \in old : /\ i \in 1..n /\ i \in MirrorsIn(chain, d)
                        /\ Len(chain[i].at) \in Nat
                        /\ Len(chain[i].at) <= Len(last)
      /\ old # {} => \E i0 \in old : last = chain[i0].at
      /\ old = {} => last = <<>>
  <2>1. \A i \in 1..n : SubSeq(chain, 1, n)[i] = chain[i]
    BY <1>2
  <2>2. MirrorsIn(SubSeq(chain, 1, n), d) = {i \in MirrorsIn(chain, d) : i <= n}
    BY <1>2
  <2> QED  BY <2>1, <2>2, LastBounds
<1>4. /\ n \in Nat /\ Len(chain) \in Nat
      /\ Len(last) \in Nat /\ Len(tip) \in Nat
      /\ was \in History /\ Len(was) \in Nat
  <2>1. was \in History
    BY LastImportedProps
  <2> QED  BY <2>1, <1>2 DEF History
<1>5. \A i \in MirrorsIn(chain, d) : /\ i \in 1..Len(chain) /\ chain[i].at \in History
                                     /\ Len(chain[i].at) \in Nat
  <2>1. \A i \in MirrorsIn(chain, d) : i \in 1..Len(chain)
    BY DEF MirrorsIn
  <2>2. \A c \in Commit : c.at \in History /\ Len(c.at) \in Nat
    BY DEF Commit, History
  <2> QED  BY <2>1, <2>2, ElementOfSeq
<1>6. MirrorsIn(base, d) = {} => last = <<>>
  BY <1>2, <1>3
<1> HIDE DEF base, last, m, old, new, was
<1>7. LastImportedOrigin(new, d) = tip
  <2>1. CASE m = 0
    <3>1. tip = last
      <4>1. Len(last) = Len(tip)
        BY <2>1, <1>4 DEF m
      <4>2. \A k \in 1..Len(last) : last[k] = tip[k]
        BY <1>2, PrefixPoints
      <4> QED  BY <4>1, <4>2, <1>2, HistoryEqual
    <3>2. MirrorsIn(new, d) = old
      BY <2>1, <1>2
    <3>3. CASE old = {}
      <4>1. LastImportedOrigin(new, d) = <<>>
        BY <3>2, <3>3, <1>2, LastImportedProps
      <4> QED  BY <4>1, <3>1, <3>3, <1>3
    <3>4. CASE old # {}
      <4>1. base \in Seq(Commit)
        BY DEF base
      <4>2. PICK i0 \in old : /\ \A i \in old : i <= i0
                              /\ LastImportedOrigin(base, d) = base[i0].at
        BY <4>1, <3>4, <1>2, LastImportedProps
      <4>3. LastImportedOrigin(new, d) = new[i0].at
        BY <4>2, <3>2, <1>2, LastImportedProps
      <4>4. new[i0].at = base[i0].at
        BY <1>2, <1>3
      <4> QED  BY <4>2, <4>3, <4>4, <3>1 DEF last
    <3> QED  BY <3>3, <3>4
  <2>2. CASE m # 0
    <3>1. m \in 1..m /\ n + m \in MirrorsIn(new, d)
      BY <2>2, <1>2
    <3>2. \A i \in MirrorsIn(new, d) : i <= n + m
      BY <1>2, <1>3, <1>4
    <3>3. LastImportedOrigin(new, d) = new[n + m].at
      BY <3>1, <3>2, <1>2, LastImportedProps
    <3>4. Len(last) + m = Len(tip)
      BY <1>4 DEF m
    <3>5. new[n + m].at = SubSeq(tip, 1, Len(tip))
      BY <3>1, <3>4, <1>2
    <3>6. SubSeq(tip, 1, Len(tip)) = tip
      BY SubSeqFull DEF History
    <3> QED  BY <3>3, <3>5, <3>6
  <2> QED  BY <2>1, <2>2
<1>8. \E k \in 0..Len(was) : /\ \A j \in (k + 1)..Len(was) : was[j] \in Tainted
                             /\ IsPrefix(SubSeq(was, 1, k), tip)
  <2>1. CASE MirrorsIn(chain, d) = {}
    <3>1. was = <<>>
      BY <2>1, LastImportedProps DEF was
    <3>2. SubSeq(was, 1, 0) \in History /\ Len(SubSeq(was, 1, 0)) = 0
      BY <1>4, HistorySubSeq
    <3>3. IsPrefix(SubSeq(was, 1, 0), tip)
      <4> DEFINE e == SubSeq(was, 1, 0)
      <4>1. e \in History /\ Len(e) = 0
        BY <3>2
      <4> HIDE DEF e
      <4>2. Len(e) <= Len(tip) /\ \A k \in 1..Len(e) : e[k] = tip[k]
        BY <4>1, <1>4
      <4>3. IsPrefix(e, tip)
        BY <4>1, <4>2, PrefixPoints
      <4> QED  BY <4>3 DEF e
    <3>4. 0 \in 0..Len(was) /\ \A j \in (0 + 1)..Len(was) : was[j] \in Tainted
      BY <3>1
    <3> QED  BY <3>3, <3>4
  <2>2. CASE MirrorsIn(chain, d) # {}
    <3>1. PICK jm \in MirrorsIn(chain, d) : /\ \A i \in MirrorsIn(chain, d) : i <= jm
                                            /\ was = chain[jm].at
      BY <2>2, LastImportedProps DEF was
    <3>2. Len(last) <= Len(was)
      <4>1. CASE old = {}
        BY <4>1, <1>3, <1>4
      <4>2. CASE old # {}
        <5>1. PICK i0 \in old : last = chain[i0].at
          BY <4>2, <1>3
        <5>2. i0 <= jm /\ i0 \in MirrorsIn(chain, d)
          BY <3>1, <1>3
        <5>3. CASE i0 = jm
          BY <5>1, <5>3, <3>1, <1>4
        <5>4. CASE i0 # jm
          <6>1. i0 < jm
            BY <5>2, <5>4, <1>5
          <6> QED  BY <6>1, <5>1, <5>2, <3>1, <1>4 DEF Ordered
        <5> QED  BY <5>3, <5>4
      <4> QED  BY <4>1, <4>2
    <3>3. \A j \in (Len(last) + 1)..Len(was) : was[j] \in Tainted
      <4>1. SUFFICES ASSUME NEW j \in (Len(last) + 1)..Len(was) PROVE was[j] \in Tainted
        OBVIOUS
      <4>2. j \in 1..Len(was) /\ j > Len(last)
        BY <4>1, <1>4
      <4>3. PICK i \in MirrorsIn(chain, d) : chain[i].at = SubSeq(was, 1, j)
        BY <4>2, <3>1 DEF Gapless
      <4>4. /\ Len(chain[i].at) = j
            /\ chain[i].at[j] = was[j]
        BY <4>2, <4>3, <1>4, HistorySubSeq
      <4>5. i \notin old
        BY <4>2, <4>4, <1>3, <1>4
      <4>6. i > n
        BY <4>5, <1>4, <1>5 DEF old
      <4>7. Last(chain[i].at) = was[j]
        BY <4>4 DEF Last
      <4> QED  BY <4>6, <4>7, <1>2
    <3>4. SubSeq(was, 1, Len(last)) = last
      <4>1. CASE Len(last) = 0
        <5>1. SubSeq(was, 1, 0) \in History /\ Len(SubSeq(was, 1, 0)) = 0
          BY <1>4, HistorySubSeq
        <5> QED  BY <4>1, <5>1, <1>2, HistoryEqual
      <4>2. CASE Len(last) # 0
        <5>1. PICK i0 \in old : last = chain[i0].at
          BY <4>2, <1>3
        <5>2. Len(last) \in 1..Len(was)
          BY <4>2, <3>2, <1>4
        <5>3. PICK i \in MirrorsIn(chain, d) : chain[i].at = SubSeq(was, 1, Len(last))
          BY <5>2, <3>1 DEF Gapless
        <5>4. Len(chain[i].at) = Len(chain[i0].at)
          BY <5>1, <5>2, <5>3, <1>4, HistorySubSeq
        <5>5. i0 \in MirrorsIn(chain, d) /\ ~(i < i0) /\ ~(i0 < i)
          BY <5>4, <1>3, <1>5 DEF Ordered
        <5>6. i = i0
          BY <5>5, <1>5
        <5> QED  BY <5>1, <5>3, <5>6
      <4> QED  BY <4>1, <4>2
    <3>5. Len(last) \in 0..Len(was)
      BY <3>2, <1>4
    <3> QED  BY <3>3, <3>4, <3>5, <1>2
  <2> QED  BY <2>1, <2>2
<1>9. ASSUME NEW o \in Dest \ {d}
      PROVE  LastImportedOrigin(new, o) = LastImportedOrigin(chain, o)
  <2>1. MirrorsIn(new, o) = MirrorsIn(chain, o)
    BY <1>2
  <2>2. CASE MirrorsIn(chain, o) = {}
    BY <2>1, <2>2, <1>2, LastImportedProps
  <2>3. CASE MirrorsIn(chain, o) # {}
    <3>1. PICK i0 \in MirrorsIn(chain, o) :
            /\ \A i \in MirrorsIn(chain, o) : i <= i0
            /\ LastImportedOrigin(chain, o) = chain[i0].at
      BY <2>3, LastImportedProps
    <3>2. LastImportedOrigin(new, o) = new[i0].at
      BY <3>1, <2>1, <1>2, LastImportedProps
    <3>3. new[i0] = chain[i0]
      BY <1>2
    <3> QED  BY <3>1, <3>2, <3>3
  <2> QED  BY <2>2, <2>3
<1> QED  BY <1>7, <1>8, <1>9 DEF new, was

-----------------------------------------------------------------------------

\* A reconcile of a branch writes a branch.
LEMMA ReconciledType ==
  ASSUME NEW chain \in Seq(Commit), NEW d \in Dest, NEW t \in Target, NEW tip \in History,
         CanReconcile(chain, d, t, tip)
  PROVE  Reconciled(chain, d, t, tip) \in Seq(Commit)
<1>1. CASE t.kind = "import"
  <2>1. t.tips \in Seq(TipLabel)
    BY <1>1 DEF Target
  <2>2. Import(chain, d, tip, t.tips) \in Seq(Commit)
    BY <1>1, <2>1, ImportMirrors DEF CanReconcile, MirrorsAfter
  <2> QED  BY <1>1, <2>2 DEF Reconciled
<1>2. CASE t.kind # "import"
  <2>1. t.pin \in History
    BY <1>2 DEF Target
  <2>2. VendorSnapshot(chain, d, t.pin) \in Seq(Commit)
    BY <2>1, VendorType
  <2> QED  BY <1>2, <2>2 DEF Reconciled
<1> QED  BY <1>1, <1>2

\* A local commit is no mirror commit.
LEMMA LocalKeepsMirrors ==
  ASSUME NEW chain \in Seq(Commit), NEW c \in Commit, c.kind = "local", NEW d \in Dest
  PROVE  LET new == Append(chain, c)
         IN  /\ MirrorsIn(new, d) = MirrorsIn(chain, d)
             /\ \A i \in MirrorsIn(chain, d) : new[i] = chain[i]
  BY DEF MirrorsIn

\* Nor is a vendor commit.
LEMMA VendorKeepsMirrors ==
  ASSUME NEW chain \in Seq(Commit), NEW v \in Dest, NEW pin \in History, NEW d \in Dest
  PROVE  LET new == VendorSnapshot(chain, v, pin)
         IN  /\ MirrorsIn(new, d) = MirrorsIn(chain, d)
             /\ \A i \in MirrorsIn(chain, d) : new[i] = chain[i]
<1> DEFINE c == [kind |-> "vendor", dest |-> v, at |-> pin, label |-> <<>>,
                 tree |-> [TreeOf(chain) EXCEPT ![v] = Pristine(pin)]]
<1>1. c.kind = "vendor"
  OBVIOUS
<1>2. VendorSnapshot(chain, v, pin) \in {chain, Append(chain, c)}
  BY DEF VendorSnapshot
<1>3. MirrorsIn(Append(chain, c), d) = MirrorsIn(chain, d)
      /\ \A i \in MirrorsIn(chain, d) : Append(chain, c)[i] = chain[i]
  <2> HIDE DEF c
  <2> QED  BY <1>1 DEF MirrorsIn
<1> QED  BY <1>2, <1>3

\* Two chains with the same mirror commits of d agree on all that is said of them.
LEMMA SameMirrors ==
  ASSUME NEW a \in Seq(Commit), NEW b \in Seq(Commit), NEW d \in Dest,
         MirrorsIn(b, d) = MirrorsIn(a, d),
         \A i \in MirrorsIn(a, d) : b[i] = a[i]
  PROVE  /\ Ordered(a, d) => Ordered(b, d)
         /\ Gapless(a, d) => Gapless(b, d)
         /\ LastImportedOrigin(b, d) = LastImportedOrigin(a, d)
<1>1. Ordered(a, d) => Ordered(b, d)
  BY DEF Ordered
<1>2. Gapless(a, d) => Gapless(b, d)
  BY DEF Gapless
<1>3. LastImportedOrigin(b, d) = LastImportedOrigin(a, d)
  <2>1. CASE MirrorsIn(a, d) = {}
    BY <2>1, LastImportedProps
  <2>2. CASE MirrorsIn(a, d) # {}
    <3>1. PICK m \in MirrorsIn(a, d) : /\ \A i \in MirrorsIn(a, d) : i <= m
                                       /\ LastImportedOrigin(a, d) = a[m].at
      BY <2>2, LastImportedProps
    <3>2. LastImportedOrigin(b, d) = b[m].at
      BY <3>1, LastImportedProps
    <3> QED  BY <3>1, <3>2
  <2> QED  BY <2>1, <2>2
<1> QED  BY <1>1, <1>2, <1>3

\* How a reconcile of d treats the mirror commits of any destination o.
LEMMA ReconcileMirrors ==
  ASSUME NEW chain \in Seq(Commit), NEW d \in Dest, NEW t \in Target, NEW tip \in History,
         CanReconcile(chain, d, t, tip), NEW o \in Dest,
         t.kind = "vendor" \/ o # d
  PROVE  LET new == Reconciled(chain, d, t, tip)
         IN  /\ MirrorsIn(new, o) = MirrorsIn(chain, o)
             /\ \A i \in MirrorsIn(chain, o) : new[i] = chain[i]
<1>1. CASE t.kind = "vendor"
  <2>1. t.pin \in History
    BY <1>1 DEF Target
  <2> QED  BY <1>1, <2>1, VendorKeepsMirrors DEF Reconciled
<1>2. CASE t.kind # "vendor"
  <2>1. t.kind = "import" /\ t.tips \in Seq(TipLabel)
    BY <1>2 DEF Target
  <2>2. PICK n \in 0..Len(chain) : MirrorsAfter(chain, d, tip, t.tips, n)
    BY <2>1, ImportMirrors DEF CanReconcile
  <2>3. o \in Dest \ {d}
    BY <1>2
  <2>4. LET new == Import(chain, d, tip, t.tips)
        IN  /\ MirrorsIn(new, o) = MirrorsIn(chain, o)
            /\ \A i \in MirrorsIn(chain, o) : new[i] = chain[i]
    BY <2>2, <2>3 DEF MirrorsAfter
  <2> QED  BY <2>1, <2>4 DEF Reconciled
<1> QED  BY <1>1, <1>2

\* A reconcile leaves every commit in place that is not of its own tip layer.
LEMMA ReconcileKeeps ==
  ASSUME NEW chain \in Seq(Commit), NEW d \in Dest, NEW t \in Target, NEW tip \in History,
         CanReconcile(chain, d, t, tip),
         NEW i \in DOMAIN chain, ~IsOurTip(chain[i], d)
  PROVE  LET new == Reconciled(chain, d, t, tip)
         IN  i \in DOMAIN new /\ new[i] = chain[i]
<1>1. CASE t.kind = "vendor"
  BY <1>1 DEF Reconciled, VendorSnapshot
<1>2. CASE t.kind # "vendor"
  <2> DEFINE new == Import(chain, d, tip, t.tips)
  <2>1. t.kind = "import" /\ t.tips \in Seq(TipLabel)
    BY <1>2 DEF Target
  <2>2. CanImport(chain, d, tip, t.tips) /\ Reconciled(chain, d, t, tip) = new
    BY <2>1 DEF CanReconcile, Reconciled
  <2>3. PICK n \in 0..Len(chain) : ImportedFrom(chain, d, tip, t.tips, n)
    BY <2>1, <2>2, ImportShape
  <2>4. /\ \A k \in (n + 1)..Len(chain) : IsOurTip(chain[k], d)
        /\ new \in Seq(Commit) /\ Len(new) >= n
        /\ \A k \in 1..n : new[k] = chain[k]
    <3> DEFINE m == Len(tip) - Len(LastImportedOrigin(SubSeq(chain, 1, n), d))
    <3>1. /\ \A k \in (n + 1)..Len(chain) : IsOurTip(chain[k], d)
          /\ new \in Seq(Commit) /\ m \in Nat
          /\ Len(new) = n + m + Len(t.tips)
          /\ \A k \in 1..n : new[k] = chain[k]
      BY <2>2, <2>3 DEF ImportedFrom
    <3>2. Len(t.tips) \in Nat /\ n \in Nat
      BY <2>1
    <3> HIDE DEF m, new
    <3>3. \A a, b, c \in Nat : a + b + c >= a
      OBVIOUS
    <3>4. n + m + Len(t.tips) >= n
      BY <3>1, <3>2, <3>3
    <3>5. Len(new) >= n
      BY <3>1, <3>4
    <3> QED  BY <3>1, <3>5
  <2>5. i \in 1..n
    BY <2>4
  <2> HIDE DEF new
  <2> QED  BY <2>2, <2>4, <2>5
<1> QED  BY <1>1, <1>2
=============================================================================
