--------------------------- MODULE Monorepo_proofs ---------------------------
(***************************************************************************)
(* What holds of Monorepo for any destinations, changes, declarations and  *)
(* bounds: its types, the order of the mirror commits, what a reconcile    *)
(* may take off the branch, and that the branch implements the mirror map. *)
(***************************************************************************)
EXTENDS Monorepo, Engine_proofs

\* A developer appends one commit of the branch, of kind "local".
LEMMA LocalType ==
  ASSUME TypeOK, NEW w \in Dest \cup {Elsewhere}, NEW e \in LocalEdit, LocalCommit(w, e)
  PROVE  \E c \in Commit : c.kind = "local" /\ branch' = Append(branch, c)
<1> DEFINE t == [d \in Dest |->
                   IF d = w THEN [TreeOf(branch)[d] EXCEPT !.edits = Append(@, e)]
                            ELSE TreeOf(branch)[d]]
           c == [kind |-> "local", dest |-> w, at |-> <<>>, label |-> <<e>>, tree |-> t]
<1>1. TreeOf(branch) \in [Dest -> Subtree]
  BY TreeType DEF TypeOK
<1>2. \A st \in Subtree : [st EXCEPT !.edits = Append(@, e)] \in Subtree
  <2>1. \A s \in Seq(TipLabel \cup LocalEdit) : Append(s, e) \in Seq(TipLabel \cup LocalEdit)
    OBVIOUS
  <2> QED  BY <2>1 DEF Subtree
<1>3. t \in [Dest -> Subtree]
  BY <1>1, <1>2
<1>4. <<e>> \in Seq(TipLabel \cup LocalEdit) /\ <<>> \in History
  BY DEF History
<1>5. c \in Commit
  <2> HIDE DEF t
  <2> QED  BY <1>3, <1>4 DEF Commit
<1> QED  BY <1>5 DEF LocalCommit

\* The types of the state, the commits the engine writes included, hold in
\* every reachable state.
THEOREM TypeCorrect == Spec => []TypeOK
<1>1. Init => TypeOK
  <2> SUFFICES ASSUME Init PROVE TypeOK
    OBVIOUS
  <2>1. \A d \in Dest : Declared[d] \subseteq Target
    BY MonorepoAssumption
  <2>2. target \in [Dest -> Target] /\ \A d \in Dest : target[d] \in Declared[d]
    BY <2>1 DEF Init
  <2>3. upstream \in [Dest -> History] /\ branch \in Seq(Commit) /\ synced \subseteq Dest
    BY DEF Init, History
  <2> QED  BY <2>2, <2>3 DEF TypeOK
<1>2. TypeOK /\ [Next]_vars => TypeOK'
  <2> SUFFICES ASSUME TypeOK, [Next]_vars PROVE TypeOK'
    OBVIOUS
  <2> USE DEF TypeOK
  <2>1. ASSUME NEW d \in Dest, NEW c \in Change, UpstreamPush(d, c) PROVE TypeOK'
    BY <2>1 DEF UpstreamPush, History
  <2>2. ASSUME NEW d \in Dest, NEW k \in DOMAIN upstream[d], NEW c \in Change,
               UpstreamRewrite(d, k, c)
        PROVE  TypeOK'
    <3>1. Append(SubSeq(upstream[d], 1, k - 1), c) \in History
      BY DEF History
    <3> QED  BY <3>1, <2>2 DEF UpstreamRewrite
  <2>3. ASSUME NEW d \in Dest, NEW t \in Declared[d], EditDeclaration(d, t) PROVE TypeOK'
    <3>1. t \in Target
      BY MonorepoAssumption
    <3> QED  BY <3>1, <2>3 DEF EditDeclaration
  <2>4. ASSUME NEW w \in Dest \cup {Elsewhere}, NEW e \in LocalEdit, LocalCommit(w, e)
        PROVE  TypeOK'
    <3>1. branch' \in Seq(Commit)
      <4>1. PICK c \in Commit : branch' = Append(branch, c)
        BY <2>4, LocalType
      <4> QED  BY <4>1
    <3> QED  BY <3>1, <2>4 DEF LocalCommit
  <2>5. ASSUME NEW d \in Dest, Reconcile(d) PROVE TypeOK'
    <3>1. branch' \in Seq(Commit)
      BY <2>5, ReconciledType DEF Reconcile
    <3> QED  BY <3>1, <2>5 DEF Reconcile
  <2>6. CASE UNCHANGED vars
    BY <2>6 DEF vars
  <2> QED  BY <2>1, <2>2, <2>3, <2>4, <2>5, <2>6 DEF Next, Environment
<1> QED  BY <1>1, <1>2, PTL DEF Spec

\* The mirror commits of every destination stay ordered and gapless, whatever
\* order targets are reconciled in and whatever is committed between.
THEOREM MirrorsStayOrdered == Spec => []OrderedMirror
<1>1. Init => OrderedMirror
  BY DEF Init, OrderedMirror, Ordered, Gapless, MirrorsIn
<1>2. TypeOK /\ TypeOK' /\ OrderedMirror /\ [Next]_vars => OrderedMirror'
  <2> SUFFICES ASSUME TypeOK, TypeOK', OrderedMirror, [Next]_vars PROVE OrderedMirror'
    OBVIOUS
  <2>1. CASE UNCHANGED branch
    BY <2>1 DEF OrderedMirror, Ordered, Gapless
  <2>2. ASSUME NEW w \in Dest \cup {Elsewhere}, NEW e \in LocalEdit, LocalCommit(w, e)
        PROVE  OrderedMirror'
    <3>1. PICK c \in Commit : c.kind = "local" /\ branch' = Append(branch, c)
      BY <2>2, LocalType
    <3>2. \A d \in Dest : /\ MirrorsIn(branch', d) = MirrorsIn(branch, d)
                          /\ \A i \in MirrorsIn(branch, d) : branch'[i] = branch[i]
      BY <3>1, LocalKeepsMirrors DEF TypeOK
    <3>3. \A d \in Dest : Ordered(branch', d) /\ Gapless(branch', d)
      BY <3>2, SameMirrors DEF TypeOK, OrderedMirror
    <3> QED  BY <3>3 DEF OrderedMirror, Ordered, Gapless
  <2>3. ASSUME NEW d \in Dest, Reconcile(d) PROVE OrderedMirror'
    <3>1. /\ target[d] \in Target /\ upstream[d] \in History /\ branch \in Seq(Commit)
          /\ CanReconcile(branch, d, target[d], upstream[d])
          /\ branch' = Reconciled(branch, d, target[d], upstream[d])
          /\ branch' \in Seq(Commit)
      BY <2>3 DEF Reconcile, TypeOK
    <3>2. ASSUME NEW o \in Dest PROVE Ordered(branch', o) /\ Gapless(branch', o)
      <4>1. CASE target[d].kind = "vendor" \/ o # d
        <5>1. /\ MirrorsIn(branch', o) = MirrorsIn(branch, o)
              /\ \A i \in MirrorsIn(branch, o) : branch'[i] = branch[i]
          BY <3>1, <4>1, ReconcileMirrors
        <5> QED  BY <3>1, <5>1, SameMirrors DEF OrderedMirror
      <4>2. CASE target[d].kind # "vendor" /\ o = d
        <5>1. target[d].kind = "import" /\ target[d].tips \in Seq(TipLabel)
          BY <3>1, <4>2 DEF Target
        <5>2. CanImport(branch, d, upstream[d], target[d].tips)
              /\ branch' = Import(branch, d, upstream[d], target[d].tips)
          BY <3>1, <5>1 DEF CanReconcile, Reconciled
        <5> QED  BY <3>1, <4>2, <5>1, <5>2, ImportKeepsOrder DEF OrderedMirror
      <4> QED  BY <4>1, <4>2
    <3> QED  BY <3>2 DEF OrderedMirror, Ordered, Gapless
  <2> QED  BY <2>1, <2>2, <2>3
           DEF Next, Environment, vars, UpstreamPush, UpstreamRewrite, EditDeclaration
<1> QED  BY <1>1, <1>2, TypeCorrect, PTL DEF Spec

\* The branch implements the mirror map: read back through its trailers it only
\* ever catches up with upstreams, never skips, reorders or retracts a change
\* (tainted ones excepted), for any interleaving of targets on one branch.
THEOREM ImplementsMirrorMap == Spec => MirrorMapSpec
<1>1. Init => MM!Init
  <2> SUFFICES ASSUME Init PROVE MM!Init
    OBVIOUS
  <2>1. branch = <<>> /\ branch \in Seq(Commit)
    BY DEF Init
  <2>2. \A d \in Dest : MirrorsIn(branch, d) = {}
    BY <2>1 DEF MirrorsIn
  <2>3. \A d \in Dest : LastImportedOrigin(branch, d) = <<>>
    BY <2>1, <2>2, LastImportedProps
  <2> QED  BY <2>3 DEF Init, MM!Init, Mirrored
<1>2. TypeOK /\ TypeOK' /\ OrderedMirror /\ [Next]_vars => [MM!Next]_(MM!vars)
  <2> SUFFICES ASSUME TypeOK, TypeOK', OrderedMirror, [Next]_vars
               PROVE  MM!Next \/ UNCHANGED MM!vars
    BY DEF MM!vars
  <2>1. ASSUME NEW d \in Dest, upstream' = [upstream EXCEPT ![d] = upstream'[d]],
               UNCHANGED branch
        PROVE  MM!Move(d)
    <3>1. upstream'[d] \in Seq(Change)
      BY DEF TypeOK, History
    <3> QED  BY <2>1, <3>1 DEF MM!Move, Mirrored
  <2>2. CASE UNCHANGED <<upstream, branch>>
    BY <2>2 DEF MM!vars, Mirrored
  <2>3. ASSUME NEW w \in Dest \cup {Elsewhere}, NEW e \in LocalEdit, LocalCommit(w, e)
        PROVE  UNCHANGED MM!vars
    <3>1. PICK c \in Commit : c.kind = "local" /\ branch' = Append(branch, c)
      BY <2>3, LocalType
    <3>2. \A d \in Dest : LastImportedOrigin(branch', d) = LastImportedOrigin(branch, d)
      <4>1. \A d \in Dest : /\ MirrorsIn(branch', d) = MirrorsIn(branch, d)
                            /\ \A i \in MirrorsIn(branch, d) : branch'[i] = branch[i]
        BY <3>1, LocalKeepsMirrors DEF TypeOK
      <4> QED  BY <4>1, SameMirrors DEF TypeOK
    <3>3. upstream' = upstream
      BY <2>3 DEF LocalCommit
    <3> QED  BY <3>2, <3>3 DEF MM!vars, Mirrored
  <2>4. ASSUME NEW d \in Dest, Reconcile(d) PROVE MM!CatchUp(d) \/ UNCHANGED MM!vars
    <3>1. /\ target[d] \in Target /\ upstream[d] \in History /\ branch \in Seq(Commit)
          /\ CanReconcile(branch, d, target[d], upstream[d])
          /\ branch' = Reconciled(branch, d, target[d], upstream[d])
          /\ branch' \in Seq(Commit) /\ upstream' = upstream
      BY <2>4 DEF Reconcile, TypeOK
    <3>2. CASE target[d].kind = "vendor"
      <4>1. \A o \in Dest : LastImportedOrigin(branch', o) = LastImportedOrigin(branch, o)
        BY <3>1, <3>2, ReconcileMirrors, SameMirrors
      <4> QED  BY <3>1, <4>1 DEF MM!vars, Mirrored
    <3>3. CASE target[d].kind # "vendor"
      <4>1. target[d].kind = "import" /\ target[d].tips \in Seq(TipLabel)
        BY <3>1, <3>3 DEF Target
      <4>2. CanImport(branch, d, upstream[d], target[d].tips)
            /\ branch' = Import(branch, d, upstream[d], target[d].tips)
        BY <3>1, <4>1 DEF CanReconcile, Reconciled
      <4>3. Ordered(branch, d) /\ Gapless(branch, d)
        BY DEF OrderedMirror
      <4> DEFINE was == LastImportedOrigin(branch, d)
      <4>4. /\ LastImportedOrigin(branch', d) = upstream[d]
            /\ \E k \in 0..Len(was) : /\ \A j \in (k + 1)..Len(was) : was[j] \in Tainted
                                      /\ IsPrefix(SubSeq(was, 1, k), upstream[d])
            /\ \A o \in Dest \ {d} :
                 LastImportedOrigin(branch', o) = LastImportedOrigin(branch, o)
        BY <3>1, <4>1, <4>2, <4>3, ImportCatchesUp
      <4>5. Mirrored' = [Mirrored EXCEPT ![d] = upstream[d]]
        BY <4>4 DEF Mirrored
      <4>6. Mirrored[d] = was
        BY DEF Mirrored
      <4>7. \E k \in 0..Len(Mirrored[d]) :
              MM!Held(d, k) /\ MM!IsPrefix(SubSeq(Mirrored[d], 1, k), upstream[d])
        BY <4>4, <4>6 DEF MM!Held, MM!IsPrefix, IsPrefix
      <4> QED  BY <3>1, <4>5, <4>7 DEF MM!CatchUp
    <3> QED  BY <3>2, <3>3
  <2>5. ASSUME NEW d \in Dest, NEW c \in Change, UpstreamPush(d, c) PROVE MM!Move(d)
    BY <2>1, <2>5 DEF UpstreamPush, TypeOK
  <2>6. ASSUME NEW d \in Dest, NEW k \in DOMAIN upstream[d], NEW c \in Change,
               UpstreamRewrite(d, k, c)
        PROVE  MM!Move(d)
    BY <2>1, <2>6 DEF UpstreamRewrite, TypeOK
  <2> QED  BY <2>2, <2>3, <2>4, <2>5, <2>6
           DEF Next, Environment, vars, EditDeclaration, MM!Next
<1> QED  BY <1>1, <1>2, TypeCorrect, MirrorsStayOrdered, PTL DEF Spec, MirrorMapSpec, MM!Spec

\* In every step a reconcile keeps each commit of another destination, each of a
\* developer and each untainted mirror commit at its place on the branch.
THEOREM OwnTipOnly == Spec => OnlyOwnTipDropped
<1> DEFINE Kept(d) == \A i \in DOMAIN branch :
                        \/ branch[i].kind \in {"local", "vendor"}
                        \/ branch[i].dest # d
                        \/ branch[i].kind = "mirror" /\ Last(branch[i].at) \notin Tainted
                        => i \in DOMAIN branch' /\ branch'[i] = branch[i]
<1>1. ASSUME TypeOK, NEW d \in Dest, Reconcile(d) PROVE Kept(d)
  <2>1. /\ target[d] \in Target /\ upstream[d] \in History /\ branch \in Seq(Commit)
        /\ CanReconcile(branch, d, target[d], upstream[d])
        /\ branch' = Reconciled(branch, d, target[d], upstream[d])
    BY <1>1 DEF Reconcile, TypeOK
  <2>2. SUFFICES ASSUME NEW i \in DOMAIN branch,
                        \/ branch[i].kind \in {"local", "vendor"}
                        \/ branch[i].dest # d
                        \/ branch[i].kind = "mirror" /\ Last(branch[i].at) \notin Tainted
                 PROVE  i \in DOMAIN branch' /\ branch'[i] = branch[i]
    OBVIOUS
  <2>3. ~IsOurTip(branch[i], d)
    BY <2>2 DEF IsOurTip, Scoped, HasTipTrailer
  <2> QED  BY <2>1, <2>3, ReconcileKeeps
<1>2. TypeOK /\ [Next]_vars => [\A d \in Dest : Reconcile(d) => Kept(d)]_vars
  BY <1>1
<1> QED  BY <1>2, TypeCorrect, PTL DEF Spec, OnlyOwnTipDropped
-----------------------------------------------------------------------------
(* Contents. Reconciles pop commits off the branch, several at a time, and *)
(* put others there; what they leave of another destination is what was    *)
(* there because of how contents run along the branch: a stretch of        *)
(* commits of one destination changes no other.                            *)

\* The tree after the first i commits.
At(chain, i) == IF i = 0 THEN EmptyTree ELSE chain[i].tree

Runs(chain) ==
  \A d, o \in Dest : o # d =>
    \A i, j \in 0..Len(chain) :
      i <= j /\ (\A k \in (i + 1)..j : Scoped(chain[k], d))
        => At(chain, j)[o] = At(chain, i)[o]

\* new is chain with commits of d from the n-th on replaced by others of d, none
\* of which changes anything else.
Regrown(chain, new, d, n) ==
  /\ new \in Seq(Commit) /\ n \in 0..Len(chain) /\ n <= Len(new)
  /\ \A i \in 1..n : new[i] = chain[i]
  /\ \A i \in (n + 1)..Len(chain) : Scoped(chain[i], d)
  /\ \A i \in (n + 1)..Len(new) :
       Scoped(new[i], d) /\ \A o \in Dest \ {d} : new[i].tree[o] = At(chain, n)[o]

\* The tree of a branch is the one after all of its commits.
LEMMA TreeAt ==
  ASSUME NEW chain \in Seq(Commit)
  PROVE  TreeOf(chain) = At(chain, Len(chain))
<1>1. CASE chain = <<>>
  BY <1>1 DEF TreeOf, At
<1>2. CASE chain # <<>>
  BY <1>2 DEF TreeOf, At, Last
<1> QED  BY <1>1, <1>2

\* And a shorter branch's is the one after as many commits.
LEMMA TreeOfPrefix ==
  ASSUME NEW chain \in Seq(Commit), NEW n \in 0..Len(chain)
  PROVE  TreeOf(SubSeq(chain, 1, n)) = At(chain, n)
<1> DEFINE s == SubSeq(chain, 1, n)
<1>1. s \in Seq(Commit) /\ Len(s) = n /\ \A i \in 1..n : s[i] = chain[i]
  OBVIOUS
<1> HIDE DEF s
<1>2. TreeOf(s) = At(s, n)
  BY <1>1, TreeAt
<1>3. At(s, n) = At(chain, n)
  BY <1>1 DEF At
<1> QED  BY <1>2, <1>3 DEF s

ContentKept(chain, new, d, n) ==
  /\ \A i \in 0..n : At(new, i) = At(chain, i)
  /\ \A i \in n..Len(new) : \A o \in Dest \ {d} : At(new, i)[o] = At(chain, n)[o]

\* Along the old part of a regrown branch nothing changed, and along the new one
\* nothing of any other destination.
LEMMA RegrownAt ==
  ASSUME NEW chain \in Seq(Commit), NEW new, NEW d \in Dest, NEW n, Regrown(chain, new, d, n)
  PROVE  ContentKept(chain, new, d, n)
<1>1. n \in Nat /\ Len(new) \in Nat
  BY DEF Regrown
<1>2. \A i \in 0..n : At(new, i) = At(chain, i)
  BY <1>1 DEF Regrown, At
<1>3. ASSUME NEW i \in n..Len(new), NEW o \in Dest \ {d}
      PROVE  At(new, i)[o] = At(chain, n)[o]
  <2>1. CASE i = n
    BY <2>1, <1>1, <1>2
  <2>2. CASE i # n
    <3>1. i \in (n + 1)..Len(new) /\ i # 0
      BY <2>2, <1>1
    <3> QED  BY <3>1 DEF Regrown, At
  <2> QED  BY <2>1, <2>2
<1> QED  BY <1>2, <1>3 DEF ContentKept

\* Regrowing a branch of one destination keeps the contents of the others.
LEMMA RegrownRuns ==
  ASSUME NEW chain \in Seq(Commit), Runs(chain), NEW new, NEW d \in Dest, NEW n,
         Regrown(chain, new, d, n)
  PROVE  /\ Runs(new)
         /\ \A o \in Dest \ {d} : TreeOf(new)[o] = TreeOf(chain)[o]
<1>1. /\ n \in Nat /\ n <= Len(new) /\ n <= Len(chain) /\ n \in 0..Len(chain)
      /\ Len(new) \in Nat /\ Len(chain) \in Nat /\ new \in Seq(Commit)
      /\ \A i \in 1..n : new[i] = chain[i]
      /\ \A i \in (n + 1)..Len(new) : Scoped(new[i], d)
      /\ \A i \in (n + 1)..Len(chain) : Scoped(chain[i], d)
  BY DEF Regrown
<1>2. /\ \A i \in 0..n : At(new, i) = At(chain, i)
      /\ \A i \in n..Len(new) : \A o \in Dest \ {d} : At(new, i)[o] = At(chain, n)[o]
  <2>1. ContentKept(chain, new, d, n)
    BY RegrownAt
  <2> QED  BY <2>1 DEF ContentKept
<1>3. ASSUME NEW e \in Dest, NEW o \in Dest, o # e,
             NEW i \in 0..Len(new), NEW j \in 0..Len(new), i <= j,
             \A k \in (i + 1)..j : Scoped(new[k], e)
      PROVE  At(new, j)[o] = At(new, i)[o]
  <2>1. CASE j <= n
    <3>1. i \in 0..Len(chain) /\ j \in 0..Len(chain) /\ i \in 0..n /\ j \in 0..n
      BY <2>1, <1>1, <1>3
    <3>2. \A k \in (i + 1)..j : k \in 1..n
      BY <3>1, <2>1, <1>1, SMT
    <3>3. \A k \in (i + 1)..j : Scoped(chain[k], e)
      BY <3>2, <1>1, <1>3
    <3>4. At(chain, j)[o] = At(chain, i)[o]
      BY <3>1, <3>3, <1>3 DEF Runs
    <3> QED  BY <3>1, <3>4, <1>2
  <2>2. CASE i = j
    BY <2>2
  <2>3. CASE ~(j <= n) /\ i # j
    <3>1. j \in (n + 1)..Len(new) /\ j \in (i + 1)..j /\ j \in n..Len(new)
      BY <2>3, <1>1, <1>3
    <3>2. Scoped(new[j], d) /\ Scoped(new[j], e)
      BY <3>1, <1>1, <1>3
    <3>3. e = d /\ o \in Dest \ {d}
      BY <3>2, <1>3 DEF Scoped
    <3>4. At(new, j)[o] = At(chain, n)[o]
      BY <3>1, <3>3, <1>2
    <3>5. CASE i >= n
      <4>1. i \in n..Len(new)
        BY <3>5, <1>1
      <4> QED  BY <4>1, <3>3, <3>4, <1>2
    <3>6. CASE ~(i >= n)
      <4>1. i \in 0..n /\ i \in 0..Len(chain) /\ i <= n
        BY <3>6, <1>1
      <4>2. \A k \in (i + 1)..n : k \in 1..n /\ k \in (i + 1)..j
        BY <4>1, <3>1, <1>1
      <4>3. \A k \in (i + 1)..n : Scoped(chain[k], d)
        BY <4>2, <3>3, <1>1, <1>3
      <4>4. At(chain, n)[o] = At(chain, i)[o]
        BY <4>1, <4>3, <3>3, <1>1 DEF Runs
      <4> QED  BY <4>1, <4>4, <3>4, <1>2
    <3> QED  BY <3>5, <3>6
  <2> QED  BY <2>1, <2>2, <2>3
<1>4. Runs(new)
  BY <1>3 DEF Runs
<1>5. ASSUME NEW o \in Dest \ {d} PROVE TreeOf(new)[o] = TreeOf(chain)[o]
  <2>1. At(new, Len(new))[o] = At(chain, n)[o]
    BY <1>1, <1>2
  <2>2. At(chain, Len(chain))[o] = At(chain, n)[o]
    BY <1>1 DEF Runs
  <2> QED  BY <2>1, <2>2, <1>1, TreeAt
<1> QED  BY <1>4, <1>5

\* A developer's commit belongs to no stretch.
LEMMA LocalRuns ==
  ASSUME NEW chain \in Seq(Commit), Runs(chain), NEW c \in Commit, c.kind = "local"
  PROVE  Runs(Append(chain, c))
<1> DEFINE new == Append(chain, c)
<1>1. /\ Len(chain) \in Nat /\ Len(new) = Len(chain) + 1 /\ new[Len(chain) + 1] = c
      /\ \A i \in 1..Len(chain) : new[i] = chain[i]
  OBVIOUS
<1>2. \A i \in 0..Len(chain) : At(new, i) = At(chain, i)
  BY <1>1 DEF At
<1>3. ASSUME NEW e \in Dest, NEW o \in Dest, o # e,
             NEW i \in 0..Len(new), NEW j \in 0..Len(new), i <= j,
             \A k \in (i + 1)..j : Scoped(new[k], e)
      PROVE  At(new, j)[o] = At(new, i)[o]
  <2> HIDE DEF new
  <2>1. CASE i = j
    BY <2>1
  <2>2. CASE i # j
    <3>1. j \in (i + 1)..j /\ i \in Nat /\ j \in Nat
      BY <2>2, <1>3, <1>1
    <3>2. Scoped(new[j], e)
      BY <3>1, <1>3
    <3>3. new[j].kind # "local"
      BY <3>2 DEF Scoped
    <3>4. j # Len(chain) + 1
      BY <3>3, <1>1
    <3>5. j \in 0..Len(chain) /\ i \in 0..Len(chain)
      BY <3>4, <3>1, <1>1, <1>3
    <3>6. \A k \in (i + 1)..j : k \in 1..Len(chain)
      BY <3>5
    <3>7. \A k \in (i + 1)..j : Scoped(chain[k], e)
      BY <3>6, <1>1, <1>3
    <3>8. At(chain, j)[o] = At(chain, i)[o]
      BY <3>5, <3>7, <1>3 DEF Runs
    <3> QED  BY <3>5, <3>8, <1>2
  <2> QED  BY <2>1, <2>2
<1> QED  BY <1>3 DEF Runs

\* A snapshot regrows nothing but its destination.
LEMMA VendorRegrows ==
  ASSUME NEW chain \in Seq(Commit), NEW d \in Dest, NEW pin \in History
  PROVE  Regrown(chain, VendorSnapshot(chain, d, pin), d, Len(chain))
<1> DEFINE c == [kind |-> "vendor", dest |-> d, at |-> pin, label |-> <<>>,
                 tree |-> [TreeOf(chain) EXCEPT ![d] = Pristine(pin)]]
           new == VendorSnapshot(chain, d, pin)
<1>1. new \in Seq(Commit) /\ new \in {chain, Append(chain, c)} /\ Len(chain) \in Nat
  BY VendorType DEF VendorSnapshot
<1>2. CASE new = chain
  BY <1>1, <1>2 DEF Regrown
<1>3. CASE new = Append(chain, c)
  <2>1. \A o \in Dest \ {d} : c.tree[o] = At(chain, Len(chain))[o]
    BY TreeType, TreeAt
  <2>2. Scoped(c, d)
    BY DEF Scoped
  <2> HIDE DEF c, new
  <2>3. /\ Len(new) = Len(chain) + 1 /\ new[Len(chain) + 1] = c
        /\ \A i \in 1..Len(chain) : new[i] = chain[i]
    BY <1>1, <1>3
  <2>4. \A i \in (Len(chain) + 1)..Len(new) : new[i] = c
    BY <1>1, <2>3
  <2> QED  BY <1>1, <2>1, <2>2, <2>3, <2>4 DEF Regrown, new
<1> QED  BY <1>1, <1>2, <1>3
\* What a replayed commit, and one of the tip layer, makes of the tree t below it.
ReplayWrites(c, t, d, h) ==
  /\ Scoped(c, d)
  /\ c.tree[d] = Pristine(h)
  /\ \A o \in Dest \ {d} : c.tree[o] = t[o]

TipWrites(c, t, d, tips, k) ==
  /\ Scoped(c, d)
  /\ c.tree[d] = [t[d] EXCEPT !.edits = @ \o SubSeq(tips, 1, k)]
  /\ \A o \in Dest \ {d} : c.tree[o] = t[o]

LEMMA ReplayTree ==
  ASSUME NEW chain \in Seq(Commit), NEW d \in Dest, NEW h \in History
  PROVE  ReplayWrites(ReplayCommit(chain, d, h), TreeOf(chain), d, h)
<1>1. TreeOf(chain) \in [Dest -> Subtree]
  BY TreeType
<1> QED  BY <1>1 DEF ReplayCommit, Scoped, ReplayWrites

LEMMA TipTree ==
  ASSUME NEW chain \in Seq(Commit), NEW d \in Dest,
         NEW tips \in Seq(TipLabel), NEW k \in DOMAIN tips
  PROVE  TipWrites(TipCommit(chain, d, tips, k), TreeOf(chain), d, tips, k)
<1> DEFINE t == [TreeOf(chain) EXCEPT ![d].edits = @ \o SubSeq(tips, 1, k)]
<1>1. TreeOf(chain) \in [Dest -> Subtree]
  BY TreeType
<1>2. TipCommit(chain, d, tips, k).tree = t /\ Scoped(TipCommit(chain, d, tips, k), d)
  BY DEF TipCommit, Scoped
<1>3. /\ t[d] = [TreeOf(chain)[d] EXCEPT !.edits = @ \o SubSeq(tips, 1, k)]
      /\ \A o \in Dest \ {d} : t[o] = TreeOf(chain)[o]
  BY <1>1
<1> QED  BY <1>2, <1>3 DEF TipWrites

\* An import regrows nothing but its destination, and with something new upstream
\* it regrows that to upstream's tree and the tip layer.
LEMMA ImportRegrows ==
  ASSUME NEW chain \in Seq(Commit), NEW d \in Dest, NEW tip \in History,
         NEW tips \in Seq(TipLabel), CanImport(chain, d, tip, tips)
  PROVE  LET new == Import(chain, d, tip, tips)
         IN  /\ \E n \in 0..Len(chain) : Regrown(chain, new, d, n)
             /\ LastImportedOrigin(StripTipLayer(chain, d), d) # tip
                  => TreeOf(new)[d] = [src |-> tip, edits |-> tips]
<1>1. PICK n \in 0..Len(chain) : ImportedLayers(chain, d, tip, tips, n)
  BY ImportLayers
<1> DEFINE base == SubSeq(chain, 1, n)
           last == LastImportedOrigin(base, d)
           m    == Len(tip) - Len(last)
           mid  == ImportMirror(base, d, tip)
           new  == Import(chain, d, tip, tips)
           h(k) == SubSeq(tip, 1, Len(last) + k)
<1>2. /\ StripTipLayer(chain, d) = base /\ base \in Seq(Commit)
      /\ \A i \in (n + 1)..Len(chain) : IsOurTip(chain[i], d)
      /\ last \in History /\ IsPrefix(last, tip) /\ m \in Nat
      /\ mid \in Seq(Commit) /\ Len(mid) = n + m
      /\ \A i \in 1..n : mid[i] = chain[i]
      /\ \A k \in 1..m : mid[n + k] = ReplayCommit(base, d, h(k))
      /\ new \in Seq(Commit) /\ Len(new) = n + m + Len(tips)
      /\ \A i \in 1..(n + m) : new[i] = mid[i]
      /\ \A k \in 1..Len(tips) : new[n + m + k] = TipCommit(mid, d, tips, k)
  BY <1>1 DEF ImportedLayers
<1>3. /\ n \in Nat /\ Len(tips) \in Nat /\ DOMAIN tips = 1..Len(tips)
      /\ Len(tip) \in Nat /\ Len(last) \in Nat
  BY <1>2 DEF History
<1>4. TreeOf(base) = At(chain, n)
  BY TreeOfPrefix
<1>5. \A k \in 1..m : h(k) \in History
  <2>1. \A k \in 1..m : Len(last) + k \in 0..Len(tip)
    BY <1>3
  <2> QED  BY <2>1, HistorySubSeq
<1>6. h(m) = tip
  <2>1. Len(last) + m = Len(tip)
    BY <1>3
  <2>2. SubSeq(tip, 1, Len(tip)) = tip
    BY DEF History
  <2> QED  BY <2>1, <2>2
<1> HIDE DEF base, last, m, mid, new, h
<1>7. \A k \in 1..m : ReplayWrites(mid[n + k], At(chain, n), d, h(k))
  <2>1. ASSUME NEW k \in 1..m PROVE ReplayWrites(mid[n + k], At(chain, n), d, h(k))
    <3>1. ReplayWrites(ReplayCommit(base, d, h(k)), TreeOf(base), d, h(k))
      BY <1>2, <1>5, ReplayTree
    <3>2. mid[n + k] = ReplayCommit(base, d, h(k))
      BY <1>2
    <3> QED  BY <3>1, <3>2, <1>4
  <2> QED  BY <2>1
<1>8. TreeOf(mid) = At(mid, n + m)
  BY <1>2, TreeAt
<1>9. \A o \in Dest \ {d} : TreeOf(mid)[o] = At(chain, n)[o]
  <2>1. CASE m = 0
    <3>1. At(mid, n + m) = At(chain, n)
      BY <2>1, <1>2, <1>3 DEF At
    <3> QED  BY <3>1, <1>8
  <2>2. CASE m # 0
    <3>1. m \in 1..m /\ n + m # 0
      BY <2>2, <1>2, <1>3
    <3> QED  BY <3>1, <1>7, <1>8 DEF At, ReplayWrites
  <2> QED  BY <2>1, <2>2
<1>10. \A k \in 1..Len(tips) : TipWrites(new[n + m + k], TreeOf(mid), d, tips, k)
  <2>1. ASSUME NEW k \in 1..Len(tips)
        PROVE  TipWrites(new[n + m + k], TreeOf(mid), d, tips, k)
    <3>1. mid \in Seq(Commit) /\ k \in DOMAIN tips
      BY <1>2, <1>3
    <3>2. TipWrites(TipCommit(mid, d, tips, k), TreeOf(mid), d, tips, k)
      BY <3>1, TipTree
    <3>3. new[n + m + k] = TipCommit(mid, d, tips, k)
      BY <1>2
    <3> QED  BY <3>2, <3>3
  <2> QED  BY <2>1
<1>11. Regrown(chain, new, d, n)
  <2>1. ASSUME NEW i \in (n + 1)..Len(new)
        PROVE  Scoped(new[i], d) /\ \A o \in Dest \ {d} : new[i].tree[o] = At(chain, n)[o]
    <3>1. CASE i <= n + m
      <4>1. i - n \in 1..m /\ n + (i - n) = i /\ i \in 1..(n + m)
        BY <3>1, <1>2, <1>3
      <4>2. new[i] = mid[n + (i - n)]
        BY <4>1, <1>2
      <4> QED  BY <4>1, <4>2, <1>7 DEF ReplayWrites
    <3>2. CASE ~(i <= n + m)
      <4>1. i - (n + m) \in 1..Len(tips) /\ n + m + (i - (n + m)) = i
        BY <3>2, <1>2, <1>3
      <4> QED  BY <4>1, <1>9, <1>10 DEF TipWrites
    <3> QED  BY <3>1, <3>2
  <2>2. n <= Len(new) /\ \A i \in 1..n : i \in 1..(n + m)
    BY <1>2, <1>3
  <2>3. \A i \in 1..n : new[i] = chain[i]
    BY <2>2, <1>2
  <2>4. \A i \in (n + 1)..Len(chain) : Scoped(chain[i], d)
    BY <1>2 DEF IsOurTip
  <2> QED  BY <1>2, <2>1, <2>2, <2>3, <2>4 DEF Regrown
<1>12. ASSUME last # tip PROVE TreeOf(new)[d] = [src |-> tip, edits |-> tips]
  <2>1. m \in 1..m /\ n + m # 0
    <3>1. m # 0
      <4>1. Len(last) <= Len(tip) /\ \A k \in 1..Len(last) : last[k] = tip[k]
        BY <1>2, PrefixPoints
      <4> QED  BY <4>1, <1>2, <1>3, <1>12, HistoryEqual DEF m
    <3> QED  BY <3>1, <1>2, <1>3
  <2>2. mid[n + m].tree[d] = Pristine(tip)
    BY <2>1, <1>6, <1>7 DEF ReplayWrites
  <2>3. TreeOf(mid)[d] = Pristine(tip)
    BY <2>1, <2>2, <1>8 DEF At
  <2>4. TreeOf(new) = At(new, n + m + Len(tips))
    BY <1>2, TreeAt
  <2>5. CASE Len(tips) = 0
    <3>1. n + m + Len(tips) = n + m /\ n + m \in 1..(n + m) /\ tips = <<>>
      BY <2>1, <2>5, <1>2, <1>3
    <3>2. TreeOf(new) = mid[n + m].tree
      BY <3>1, <2>1, <2>4, <1>2 DEF At
    <3> QED  BY <3>1, <3>2, <2>2 DEF Pristine
  <2>6. CASE Len(tips) # 0
    <3>1. Len(tips) \in 1..Len(tips) /\ n + m + Len(tips) # 0
      BY <2>1, <2>6, <1>2, <1>3
    <3>2. TreeOf(new)[d] = [Pristine(tip) EXCEPT !.edits = @ \o SubSeq(tips, 1, Len(tips))]
      BY <3>1, <2>3, <2>4, <1>10 DEF At, TipWrites
    <3>3. <<>> \o SubSeq(tips, 1, Len(tips)) = tips
      BY SMT
    <3> QED  BY <3>2, <3>3 DEF Pristine
  <2> QED  BY <2>5, <2>6
<1> QED  BY <1>2, <1>11, <1>12 DEF new, last, base

\* Any reconcile regrows its own destination.
LEMMA ReconcileRegrows ==
  ASSUME NEW chain \in Seq(Commit), NEW d \in Dest, NEW t \in Target, NEW tip \in History,
         CanReconcile(chain, d, t, tip)
  PROVE  \E n \in 0..Len(chain) : Regrown(chain, Reconciled(chain, d, t, tip), d, n)
<1>1. CASE t.kind = "import"
  <2>1. t.tips \in Seq(TipLabel)
    BY <1>1 DEF Target
  <2> QED  BY <1>1, <2>1, ImportRegrows DEF CanReconcile, Reconciled
<1>2. CASE t.kind # "import"
  <2>1. t.pin \in History /\ Len(chain) \in 0..Len(chain)
    BY <1>2 DEF Target
  <2> QED  BY <1>2, <2>1, VendorRegrows DEF Reconciled
<1> QED  BY <1>1, <1>2

\* On every branch that can come about, contents run as said above.
THEOREM ContentsRun == Spec => []Runs(branch)
<1>1. Init => Runs(branch)
  <2>1. ASSUME branch = <<>> PROVE Runs(branch)
    <3>1. \A i, j \in 0..Len(branch) : i = j
      BY <2>1
    <3> QED  BY <3>1 DEF Runs
  <2> QED  BY <2>1 DEF Init
<1>2. TypeOK /\ Runs(branch) /\ [Next]_vars => Runs(branch)'
  <2> SUFFICES ASSUME TypeOK, Runs(branch), [Next]_vars PROVE Runs(branch')
    BY DEF Runs, At
  <2>1. CASE UNCHANGED branch
    BY <2>1
  <2>2. ASSUME NEW w \in Dest \cup {Elsewhere}, NEW e \in LocalEdit, LocalCommit(w, e)
        PROVE  Runs(branch')
    BY <2>2, LocalType, LocalRuns DEF TypeOK
  <2>3. ASSUME NEW d \in Dest, Reconcile(d) PROVE Runs(branch')
    <3>1. PICK n : Regrown(branch, branch', d, n)
      BY <2>3, ReconcileRegrows DEF Reconcile, TypeOK
    <3> QED  BY <3>1, RegrownRuns DEF TypeOK
  <2> QED  BY <2>1, <2>2, <2>3
           DEF Next, Environment, vars, UpstreamPush, UpstreamRewrite, EditDeclaration
<1> QED  BY <1>1, <1>2, TypeCorrect, PTL DEF Spec

\* In every step a reconcile leaves all destinations but its own as they were,
\* however many commits it takes off the branch they share.
THEOREM OthersStay == Spec => OthersUntouched
<1> DEFINE Same(d) == \A o \in Dest \ {d} : TreeOf(branch')[o] = TreeOf(branch)[o]
<1>1. ASSUME TypeOK, Runs(branch), NEW d \in Dest, Reconcile(d) PROVE Same(d)
  <2>1. PICK n : Regrown(branch, branch', d, n)
    BY <1>1, ReconcileRegrows DEF Reconcile, TypeOK
  <2> QED  BY <1>1, <2>1, RegrownRuns DEF TypeOK
<1>2. TypeOK /\ Runs(branch) /\ [Next]_vars => [\A d \in Dest : Reconcile(d) => Same(d)]_vars
  BY <1>1
<1> QED  BY <1>2, TypeCorrect, ContentsRun, PTL DEF Spec, OthersUntouched

\* In every step an import that finds something new leaves upstream's tree with the
\* declared tip layer, whatever lay on the mirror before.
THEOREM NewUpstreamLands == Spec => NewUpstreamMaterializes
<1> DEFINE Lands(d) ==
             Reconcile(d) /\ target[d].kind = "import"
               /\ LastImportedOrigin(StripTipLayer(branch, d), d) # upstream[d]
             => TreeOf(branch')[d] = [src |-> upstream[d], edits |-> target[d].tips]
<1>1. ASSUME TypeOK, NEW d \in Dest PROVE Lands(d)
  <2> SUFFICES ASSUME Reconcile(d), target[d].kind = "import",
                      LastImportedOrigin(StripTipLayer(branch, d), d) # upstream[d]
               PROVE  TreeOf(branch')[d] = [src |-> upstream[d], edits |-> target[d].tips]
    OBVIOUS
  <2>1. /\ branch \in Seq(Commit) /\ upstream[d] \in History /\ target[d] \in Target
        /\ CanImport(branch, d, upstream[d], target[d].tips)
        /\ branch' = Import(branch, d, upstream[d], target[d].tips)
    BY <1>1 DEF TypeOK, Reconcile, CanReconcile, Reconciled
  <2>2. target[d].tips \in Seq(TipLabel)
    BY <2>1 DEF Target
  <2> QED  BY <2>1, <2>2, ImportRegrows
<1>2. TypeOK /\ [Next]_vars => [\A d \in Dest : Lands(d)]_vars
  BY <1>1
<1> QED  BY <1>2, TypeCorrect, PTL DEF Spec, NewUpstreamMaterializes
-----------------------------------------------------------------------------
(* Stability. A target that was reconciled keeps what another reconcile of *)
(* it would put back, however the branch around it is changed by others.   *)

\* A mirror commit can be made again from what its trailers say.
Readable(chain, d) ==
  \A i \in MirrorsIn(chain, d) : /\ chain[i].label = <<>> /\ chain[i].at # <<>>
                                 /\ chain[i].tree[d] = Pristine(chain[i].at)

\* Commits are equal when all that is in them is.
LEMMA CommitEqual ==
  ASSUME NEW a \in Commit, NEW b \in Commit, a.kind = b.kind, a.dest = b.dest, a.at = b.at,
         a.label = b.label, \A d \in Dest : a.tree[d] = b.tree[d]
  PROVE  a = b
<1>1. a.tree = b.tree
  <2>1. a.tree \in [Dest -> Subtree] /\ b.tree \in [Dest -> Subtree]
    BY DEF Commit
  <2> QED  BY <2>1
<1>2. /\ a = [kind |-> a.kind, dest |-> a.dest, at |-> a.at, label |-> a.label, tree |-> a.tree]
      /\ b = [kind |-> b.kind, dest |-> b.dest, at |-> b.at, label |-> b.label, tree |-> b.tree]
  BY DEF Commit
<1> QED  BY <1>1, <1>2

\* The first n commits of a branch, and the mirrors among them.
LEMMA PrefixProps ==
  ASSUME NEW chain \in Seq(Commit), NEW n \in 0..Len(chain)
  PROVE  /\ SubSeq(chain, 1, n) \in Seq(Commit) /\ Len(SubSeq(chain, 1, n)) = n
         /\ \A i \in 1..n : SubSeq(chain, 1, n)[i] = chain[i]
         /\ \A d \in Dest : MirrorsIn(SubSeq(chain, 1, n), d) = {i \in MirrorsIn(chain, d) : i <= n}
<1>1. /\ SubSeq(chain, 1, n) \in Seq(Commit) /\ Len(SubSeq(chain, 1, n)) = n
      /\ \A i \in 1..n : SubSeq(chain, 1, n)[i] = chain[i]
  OBVIOUS
<1>2. DOMAIN SubSeq(chain, 1, n) = 1..n /\ DOMAIN chain = 1..Len(chain) /\ Len(chain) \in Nat
  BY <1>1
<1>3. ASSUME NEW d \in Dest
      PROVE  MirrorsIn(SubSeq(chain, 1, n), d) = {i \in MirrorsIn(chain, d) : i <= n}
  BY <1>1, <1>2 DEF MirrorsIn
<1> QED  BY <1>1, <1>3

\* The mirror commits of d up to the n-th are the prefixes of the tip last imported
\* there, each one once.
LEMMA MirrorsArePrefixes ==
  ASSUME NEW chain \in Seq(Commit), NEW d \in Dest, NEW n \in 0..Len(chain),
         Ordered(chain, d), Gapless(chain, d), Readable(chain, d)
  PROVE  LET tip == LastImportedOrigin(SubSeq(chain, 1, n), d)
             old == {i \in MirrorsIn(chain, d) : i <= n}
         IN  /\ tip \in History /\ Len(tip) \in Nat
             /\ \A i \in old : /\ Len(chain[i].at) \in 1..Len(tip)
                               /\ chain[i].at = SubSeq(tip, 1, Len(chain[i].at))
             /\ \A l \in 1..Len(tip) : \E i \in old : Len(chain[i].at) = l
<1> DEFINE tip == LastImportedOrigin(SubSeq(chain, 1, n), d)
           old == {i \in MirrorsIn(chain, d) : i <= n}
<1>1. /\ \A i \in old : /\ i \in 1..n /\ i \in MirrorsIn(chain, d)
                        /\ Len(chain[i].at) \in Nat
                        /\ Len(chain[i].at) <= Len(tip)
      /\ tip \in History /\ Len(tip) \in Nat
      /\ old # {} => \E i0 \in old : tip = chain[i0].at
      /\ old = {} => tip = <<>>
  <2>1. /\ \A i \in 1..n : SubSeq(chain, 1, n)[i] = chain[i]
        /\ MirrorsIn(SubSeq(chain, 1, n), d) = {i \in MirrorsIn(chain, d) : i <= n}
    BY PrefixProps
  <2> QED  BY <2>1, LastBounds
<1>2. MirrorsIn(chain, d) \subseteq Int
  BY DEF MirrorsIn
<1>3. \A i \in MirrorsIn(chain, d) : chain[i].at \in History
  <2>1. \A i \in MirrorsIn(chain, d) : chain[i] \in Commit
    BY ElementOfSeq DEF MirrorsIn
  <2>2. \A c \in Commit : c.at \in History
    BY DEF Commit
  <2> QED  BY <2>1, <2>2
<1>4. \A i \in MirrorsIn(chain, d) : Len(chain[i].at) # 0
  BY <1>3 DEF Readable, History
<1>5. CASE old = {}
  <2>1. Len(tip) = 0
    BY <1>1, <1>5
  <2> QED  BY <1>1, <1>5, <2>1
<1>6. CASE old # {}
  <2>1. PICK j \in old : tip = chain[j].at
    BY <1>1, <1>6
  <2>2. ASSUME NEW l \in 1..Len(tip)
        PROVE  \E i \in old : chain[i].at = SubSeq(tip, 1, l) /\ Len(chain[i].at) = l
    <3>1. PICK i \in MirrorsIn(chain, d) : i <= j /\ chain[i].at = SubSeq(tip, 1, l)
      BY <2>1, <2>2 DEF Gapless
    <3>2. i <= n
      BY <1>1, <1>2, <2>1, <3>1
    <3>3. Len(SubSeq(tip, 1, l)) = l
      BY <1>1, HistorySubSeq
    <3> QED  BY <3>1, <3>2, <3>3
  <2>3. ASSUME NEW i \in old
        PROVE  /\ Len(chain[i].at) \in 1..Len(tip)
               /\ chain[i].at = SubSeq(tip, 1, Len(chain[i].at))
    <3>1. Len(chain[i].at) \in 1..Len(tip)
      BY <1>1, <1>4
    <3>2. PICK k \in old : /\ chain[k].at = SubSeq(tip, 1, Len(chain[i].at))
                           /\ Len(chain[k].at) = Len(chain[i].at)
      BY <3>1, <2>2
    <3>3. k = i
      <4>1. ~(k < i) /\ ~(i < k)
        BY <1>1, <3>2 DEF Ordered
      <4> QED  BY <4>1, <1>2
    <3> QED  BY <3>1, <3>2, <3>3
  <2> QED  BY <1>1, <2>2, <2>3
<1> QED  BY <1>5, <1>6

\* Mirror commits on top of a branch, popped, are replayed as they were.
LEMMA MirrorsRegrow ==
  ASSUME NEW chain \in Seq(Commit), NEW d \in Dest, NEW n \in 0..Len(chain), NEW s \in 0..n,
         Ordered(chain, d), Gapless(chain, d), Readable(chain, d), Runs(chain),
         \A i \in (s + 1)..n : i \in MirrorsIn(chain, d)
  PROVE  LET tip  == LastImportedOrigin(SubSeq(chain, 1, n), d)
             base == SubSeq(chain, 1, s)
         IN  /\ OnChain(LastImportedOrigin(base, d), tip)
             /\ ImportMirror(base, d, tip) = SubSeq(chain, 1, n)
<1> DEFINE mid  == SubSeq(chain, 1, n)
           base == SubSeq(chain, 1, s)
           tip  == LastImportedOrigin(mid, d)
           last == LastImportedOrigin(base, d)
           old  == {i \in MirrorsIn(chain, d) : i <= n}
           kept == {i \in MirrorsIn(chain, d) : i <= s}
<1>1. /\ tip \in History /\ Len(tip) \in Nat
      /\ \A i \in old : /\ Len(chain[i].at) \in 1..Len(tip)
                        /\ chain[i].at = SubSeq(tip, 1, Len(chain[i].at))
      /\ \A l \in 1..Len(tip) : \E i \in old : Len(chain[i].at) = l
  BY MirrorsArePrefixes
<1>2. s \in 0..Len(chain)
  OBVIOUS
<1>3. /\ last \in History /\ Len(last) \in Nat
      /\ \A i \in kept : /\ Len(chain[i].at) \in 1..Len(last)
                         /\ chain[i].at = SubSeq(last, 1, Len(chain[i].at))
      /\ \A l \in 1..Len(last) : \E i \in kept : Len(chain[i].at) = l
  BY <1>2, MirrorsArePrefixes
<1>4. /\ n \in Nat /\ s \in Nat /\ Len(chain) \in Nat /\ s <= n
      /\ MirrorsIn(chain, d) \subseteq 1..Len(chain)
  BY DEF MirrorsIn
<1>5. /\ mid \in Seq(Commit) /\ Len(mid) = n /\ \A i \in 1..n : mid[i] = chain[i]
      /\ base \in Seq(Commit) /\ Len(base) = s /\ \A i \in 1..s : base[i] = chain[i]
  BY <1>2, PrefixProps
<1>6. kept \subseteq old /\ \A i \in (s + 1)..n : i \in old
  BY <1>4
<1>7. \A i \in old, j \in old : i < j => Len(chain[i].at) < Len(chain[j].at)
  BY DEF Ordered
<1>8. \A i \in old : i \in Int /\ i <= n /\ (i <= s => i \in kept)
  BY <1>4
<1>9. s = n => last = tip
  OBVIOUS
<1> HIDE DEF mid, base, tip, last, old, kept
<1>10. Len(last) <= Len(tip) /\ last = SubSeq(tip, 1, Len(last))
  <2>1. CASE Len(last) = 0
    <3>1. SubSeq(tip, 1, 0) = <<>> /\ last = <<>>
      BY <1>1, <1>3, <2>1 DEF History
    <3> QED  BY <3>1, <2>1, <1>1
  <2>2. CASE Len(last) # 0
    <3>1. PICK i \in kept : Len(chain[i].at) = Len(last)
      BY <1>3, <2>2
    <3>2. chain[i].at = SubSeq(last, 1, Len(last)) /\ i \in old
      BY <3>1, <1>3, <1>6
    <3>3. chain[i].at = SubSeq(tip, 1, Len(last)) /\ Len(last) \in 1..Len(tip)
      BY <3>1, <3>2, <1>1
    <3>4. SubSeq(last, 1, Len(last)) = last
      BY <1>3 DEF History
    <3> QED  BY <3>2, <3>3, <3>4, <1>1
  <2> QED  BY <2>1, <2>2
<1>11. IsPrefix(last, tip)
  <2>1. \A k \in 1..Len(last) : last[k] = tip[k]
    <3>1. \A k \in 1..Len(last) : SubSeq(tip, 1, Len(last))[k] = tip[k]
      BY <1>1, <1>3, <1>10, HistorySubSeq
    <3> QED  BY <3>1, <1>10
  <2> QED  BY <2>1, <1>1, <1>3, <1>10, PrefixPoints
<1>12. \A k \in 1..(n - s) : Len(chain[s + k].at) = Len(last) + k
  <2> DEFINE G == {k \in 0..(n - s) : \A j \in 1..k : Len(chain[s + j].at) = Len(last) + j}
  <2>1. 0 \in G
    BY <1>4
  <2>2. ASSUME NEW k \in 0..((n - s) - 1), k \in G PROVE k + 1 \in G
    <3> DEFINE p == s + (k + 1)
    <3>1. p \in old /\ k \in Nat /\ p \in (s + 1)..n /\ p \in Int
      BY <1>4, <1>6
    <3>2. Len(chain[p].at) > Len(last) + k
      <4>1. CASE k = 0
        <5>1. CASE Len(last) = 0
          BY <3>1, <4>1, <5>1, <1>1
        <5>2. CASE Len(last) # 0
          <6>1. PICK i \in kept : Len(chain[i].at) = Len(last)
            BY <1>3, <5>2
          <6>2. i \in old /\ i <= s
            BY <1>6 DEF kept
          <6>3. i < p
            BY <6>2, <3>1, <1>4, <1>8
          <6>4. Len(chain[i].at) < Len(chain[p].at)
            BY <6>2, <6>3, <3>1, <1>7
          <6> QED  BY <6>1, <6>4, <4>1, <1>3
        <5> QED  BY <5>1, <5>2
      <4>2. CASE k # 0
        <5>1. s + k \in (s + 1)..n /\ s + k < p /\ k \in 1..k
          BY <3>1, <4>2, <1>4
        <5>2. Len(chain[s + k].at) = Len(last) + k
          BY <2>2, <5>1
        <5>3. Len(chain[s + k].at) < Len(chain[p].at)
          BY <5>1, <3>1, <1>6, <1>7
        <5> QED  BY <5>2, <5>3, <3>1, <1>1, <1>3
      <4> QED  BY <4>1, <4>2
    <3>3. ~(Len(chain[p].at) > Len(last) + (k + 1))
      <4>1. SUFFICES ASSUME Len(chain[p].at) > Len(last) + (k + 1) PROVE FALSE
        OBVIOUS
      <4>2. Len(last) + (k + 1) \in 1..Len(tip)
        BY <4>1, <3>1, <1>1, <1>3
      <4>3. PICK i \in old : Len(chain[i].at) = Len(last) + (k + 1)
        BY <4>2, <1>1
      <4>4. ~(i <= s)
        <5>1. i \in kept => Len(chain[i].at) <= Len(last)
          BY <1>3
        <5> QED  BY <5>1, <4>3, <3>1, <1>3, <1>8
      <4>5. ~(p < i)
        <5>1. p < i => Len(chain[p].at) < Len(chain[i].at)
          BY <3>1, <1>7
        <5> QED  BY <5>1, <4>1, <4>3, <3>1, <1>1, <1>3
      <4>6. i # p
        BY <4>1, <4>3, <3>1, <1>3
      <4>7. i - s \in 1..k /\ s + (i - s) = i
        BY <4>4, <4>5, <4>6, <3>1, <1>4, <1>8
      <4>8. Len(chain[i].at) = Len(last) + (i - s)
        BY <4>7, <2>2
      <4> QED  BY <4>3, <4>7, <4>8, <3>1, <1>3
    <3>4. Len(chain[p].at) = Len(last) + (k + 1)
      BY <3>1, <3>2, <3>3, <1>1, <1>3
    <3>5. \A j \in 1..(k + 1) : j \in 1..k \/ j = k + 1
      BY <3>1
    <3>6. \A j \in 1..(k + 1) : Len(chain[s + j].at) = Len(last) + j
      <4>1. \A j \in 1..k : Len(chain[s + j].at) = Len(last) + j
        BY <2>2
      <4> QED  BY <3>4, <3>5, <4>1
    <3>7. k + 1 \in 0..(n - s)
      BY <3>1, <1>4
    <3> QED  BY <3>6, <3>7
  <2>3. n - s \in Nat /\ n - s \in 0..(n - s)
    BY <1>4
  <2> HIDE DEF G
  <2>4. \A k \in 0..(n - s) : k \in G
    BY <2>1, <2>2, <2>3, StepByStep
  <2>5. n - s \in G
    BY <2>3, <2>4
  <2> QED  BY <2>5 DEF G
<1>13. Len(tip) - Len(last) = n - s
  <2>1. CASE n = s
    BY <2>1, <1>3, <1>4, <1>9
  <2>2. CASE n # s
    <3>1. n - s \in 1..(n - s) /\ s + (n - s) = n /\ n \in (s + 1)..n
      BY <2>2, <1>4
    <3>2. Len(chain[n].at) = Len(last) + (n - s) /\ n \in old
      BY <3>1, <1>6, <1>12
    <3>3. Len(chain[n].at) \in 1..Len(tip)
      BY <3>2, <1>1
    <3>4. PICK i \in old : Len(chain[i].at) = Len(tip)
      BY <3>3, <1>1
    <3>5. ~(i < n)
      BY <3>2, <3>3, <3>4, <1>1, <1>7
    <3>6. i = n
      BY <3>5, <1>4, <1>8
    <3>7. Len(tip) = Len(last) + (n - s)
      BY <3>2, <3>4, <3>6
    <3>8. Len(tip) \in Nat /\ Len(last) \in Nat
      BY <1>1, <1>3
    <3> QED  BY <3>7, <3>8, <1>4
  <2> QED  BY <2>1, <2>2
<1> DEFINE new == ImportMirror(base, d, tip)
<1>14. /\ new \in Seq(Commit) /\ Len(new) = n
       /\ \A i \in 1..s : new[i] = base[i]
       /\ \A k \in 1..(n - s) : new[s + k] = ReplayCommit(base, d, SubSeq(tip, 1, Len(last) + k))
  <2>1. OnChain(LastImportedOrigin(base, d), tip)
    BY <1>11 DEF OnChain, last
  <2>2. /\ new \in Seq(Commit)
        /\ Len(new) = Len(base) + (Len(tip) - Len(last))
        /\ \A i \in 1..Len(base) : new[i] = base[i]
        /\ \A k \in 1..(Len(tip) - Len(last)) :
             new[Len(base) + k] = ReplayCommit(base, d, SubSeq(tip, 1, Len(last) + k))
    BY <2>1, <1>1, <1>5, MirrorShape DEF last
  <2>3. s + (Len(tip) - Len(last)) = n
    BY <1>4, <1>13, <1>1, <1>3
  <2> QED  BY <2>2, <2>3, <1>5, <1>13
<1>15. ASSUME NEW k \in 1..(n - s)
       PROVE  ReplayCommit(base, d, SubSeq(tip, 1, Len(last) + k)) = chain[s + k]
  <2> DEFINE h == SubSeq(tip, 1, Len(last) + k)
             c == ReplayCommit(base, d, h)
             old1 == chain[s + k]
  <2>1. s + k \in (s + 1)..n /\ s + k \in old /\ s + k \in MirrorsIn(chain, d)
    BY <1>4, <1>6 DEF old
  <2>2. old1.at = h /\ Len(last) + k \in 0..Len(tip)
    <3>1. Len(old1.at) = Len(last) + k
      BY <1>12
    <3>2. Len(old1.at) \in 1..Len(tip) /\ old1.at = SubSeq(tip, 1, Len(old1.at))
      BY <2>1, <1>1
    <3> QED  BY <3>1, <3>2
  <2>3. h \in History
    BY <2>2, <1>1, HistorySubSeq
  <2>4. old1 \in Commit /\ c \in Commit
    BY <2>1, <2>3, <1>4, <1>5, ElementOfSeq, ReplayType
  <2>5. /\ old1.kind = "mirror" /\ old1.dest = d /\ old1.label = <<>>
        /\ old1.tree[d] = Pristine(h)
    BY <2>1, <2>2 DEF MirrorsIn, Scoped, Readable
  <2>6. ReplayWrites(c, TreeOf(base), d, h)
    BY <2>3, <1>5, ReplayTree
  <2>7. TreeOf(base) = At(chain, s)
    BY <1>2, TreeOfPrefix DEF base
  <2>8. \A o \in Dest \ {d} : old1.tree[o] = At(chain, s)[o]
    <3>1. \A j \in (s + 1)..(s + k) : j \in (s + 1)..n
      BY <1>4
    <3>2. \A j \in (s + 1)..(s + k) : Scoped(chain[j], d)
      BY <3>1 DEF MirrorsIn
    <3>3. s \in 0..Len(chain) /\ s + k \in 0..Len(chain) /\ s <= s + k /\ s + k # 0
      BY <1>4
    <3>4. \A o \in Dest \ {d} : At(chain, s + k)[o] = At(chain, s)[o]
      BY <3>2, <3>3 DEF Runs
    <3>5. At(chain, s + k) = old1.tree
      BY <3>3 DEF At
    <3> QED  BY <3>4, <3>5
  <2>9. \A o \in Dest : c.tree[o] = old1.tree[o]
    <3>1. c.tree[d] = old1.tree[d]
      BY <2>5, <2>6 DEF ReplayWrites
    <3>2. \A o \in Dest \ {d} : c.tree[o] = old1.tree[o]
      BY <2>6, <2>7, <2>8 DEF ReplayWrites
    <3> QED  BY <3>1, <3>2
  <2>10. c.kind = "mirror" /\ c.dest = d /\ c.at = h /\ c.label = <<>>
    BY DEF ReplayCommit
  <2> HIDE DEF h, c, old1
  <2>11. c = old1
    BY <2>2, <2>4, <2>5, <2>9, <2>10, CommitEqual
  <2> QED  BY <2>11 DEF c, h, old1
<1>16. \A i \in 1..n : new[i] = mid[i]
  <2>1. ASSUME NEW i \in 1..n, i <= s PROVE new[i] = mid[i]
    BY <2>1, <1>4, <1>5, <1>14
  <2>2. ASSUME NEW i \in 1..n, ~(i <= s) PROVE new[i] = mid[i]
    <3>1. i - s \in 1..(n - s) /\ s + (i - s) = i
      BY <2>2, <1>4
    <3>2. new[s + (i - s)] = ReplayCommit(base, d, SubSeq(tip, 1, Len(last) + (i - s)))
      BY <3>1, <1>14
    <3>3. chain[s + (i - s)] = new[s + (i - s)]
      BY <3>1, <3>2, <1>15
    <3> QED  BY <3>1, <3>3, <1>5
  <2> QED  BY <2>1, <2>2
<1>17. new = mid
  <2> HIDE DEF new
  <2> QED  BY <1>5, <1>14, <1>16
<1> QED  BY <1>11, <1>17 DEF OnChain, mid, base, tip, last

\* What an import replays can be made again, and what it keeps could before.
LEMMA ImportReadable ==
  ASSUME NEW chain \in Seq(Commit), NEW d \in Dest, NEW tip \in History,
         NEW tips \in Seq(TipLabel), CanImport(chain, d, tip, tips), Readable(chain, d)
  PROVE  Readable(Import(chain, d, tip, tips), d)
<1> DEFINE new == Import(chain, d, tip, tips)
<1>1. PICK n \in 0..Len(chain) : ImportedLayers(chain, d, tip, tips, n)
  BY ImportLayers
<1> DEFINE base == SubSeq(chain, 1, n)
           last == LastImportedOrigin(base, d)
           m    == Len(tip) - Len(last)
           mid  == ImportMirror(base, d, tip)
<1>2. /\ base \in Seq(Commit) /\ last \in History /\ IsPrefix(last, tip) /\ m \in Nat
      /\ new \in Seq(Commit) /\ Len(new) = n + m + Len(tips)
      /\ \A i \in 1..n : mid[i] = chain[i]
      /\ \A k \in 1..m : mid[n + k] = ReplayCommit(base, d, SubSeq(tip, 1, Len(last) + k))
      /\ \A i \in 1..(n + m) : new[i] = mid[i]
      /\ \A k \in 1..Len(tips) : new[n + m + k] = TipCommit(mid, d, tips, k)
  BY <1>1 DEF ImportedLayers
<1>3. n \in Nat /\ Len(chain) \in Nat /\ Len(tips) \in Nat /\ Len(last) \in Nat /\ Len(tip) \in Nat
  BY <1>2 DEF History
<1> HIDE DEF new, base, last, m, mid
<1>4. ASSUME NEW i \in MirrorsIn(new, d)
      PROVE  new[i].label = <<>> /\ new[i].at # <<>> /\ new[i].tree[d] = Pristine(new[i].at)
  <2>1. i \in 1..(n + m + Len(tips)) /\ new[i].kind = "mirror"
    BY <1>2, <1>4 DEF MirrorsIn
  <2>2. CASE i <= n
    <3>0. i \in 1..n /\ i \in 1..(n + m) /\ i \in 1..Len(chain)
      BY <2>1, <2>2, <1>2, <1>3
    <3>1. new[i] = chain[i] /\ i \in 1..Len(chain)
      BY <3>0, <1>2
    <3>2. i \in MirrorsIn(chain, d)
      BY <3>1, <1>4 DEF MirrorsIn, Scoped
    <3> QED  BY <3>1, <3>2 DEF Readable
  <2>3. CASE i > n /\ i <= n + m
    <3> DEFINE k == i - n
               h == SubSeq(tip, 1, Len(last) + k)
    <3>1. k \in 1..m /\ n + k = i /\ i \in 1..(n + m)
      BY <2>1, <2>3, <1>2, <1>3
    <3>2. Len(last) + k \in 1..Len(tip)
      BY <3>1, <1>3 DEF m
    <3>3. h \in History /\ Len(h) = Len(last) + k
      BY <3>2, HistorySubSeq
    <3>4. new[i] = ReplayCommit(base, d, h)
      <4>1. new[n + k] = mid[n + k]
        BY <3>1, <1>2
      <4>2. mid[n + k] = ReplayCommit(base, d, h)
        BY <3>1, <1>2
      <4> QED  BY <3>1, <4>1, <4>2
    <3>5. h # <<>>
      BY <3>2, <3>3
    <3>6. ReplayCommit(base, d, h).tree[d] = Pristine(h)
      BY <3>3, <1>2, ReplayTree DEF ReplayWrites
    <3>7. ReplayCommit(base, d, h).label = <<>> /\ ReplayCommit(base, d, h).at = h
      BY DEF ReplayCommit
    <3> HIDE DEF h
    <3> QED  BY <3>4, <3>5, <3>6, <3>7
  <2>4. CASE i > n + m
    <3> DEFINE k == i - (n + m)
    <3>1. k \in 1..Len(tips) /\ n + m + k = i
      BY <2>1, <2>4, <1>2, <1>3
    <3>2. new[i] = TipCommit(mid, d, tips, k)
      BY <3>1, <1>2
    <3> QED  BY <3>2, <2>1, TipFields
  <2>5. i \in Int /\ n + m \in Int /\ n \in Int
    BY <2>1, <1>2, <1>3
  <2> QED  BY <2>2, <2>3, <2>4, <2>5
<1> QED  BY <1>4 DEF Readable, new

\* Every mirror commit of a branch, whatever lies around it, holds the pristine
\* tree of the upstream commit it names.
THEOREM MirrorsReadable == Spec => [](\A d \in Dest : Readable(branch, d))
<1> DEFINE All == \A d \in Dest : Readable(branch, d)
<1>1. Init => All
  BY DEF Init, Readable, MirrorsIn
<1>2. TypeOK /\ All /\ [Next]_vars => All'
  <2> SUFFICES ASSUME TypeOK, All, [Next]_vars, NEW o \in Dest PROVE Readable(branch', o)
    BY DEF Readable
  <2>1. ASSUME MirrorsIn(branch', o) = MirrorsIn(branch, o),
               \A i \in MirrorsIn(branch, o) : branch'[i] = branch[i]
        PROVE  Readable(branch', o)
    BY <2>1 DEF Readable
  <2>2. CASE UNCHANGED branch
    BY <2>2
  <2>3. ASSUME NEW w \in Dest \cup {Elsewhere}, NEW e \in LocalEdit, LocalCommit(w, e)
        PROVE  Readable(branch', o)
    <3>1. PICK c \in Commit : c.kind = "local" /\ branch' = Append(branch, c)
      BY <2>3, LocalType
    <3> QED  BY <3>1, <2>1, LocalKeepsMirrors DEF TypeOK
  <2>4. ASSUME NEW d \in Dest, Reconcile(d) PROVE Readable(branch', o)
    <3>1. /\ target[d] \in Target /\ upstream[d] \in History /\ branch \in Seq(Commit)
          /\ CanReconcile(branch, d, target[d], upstream[d])
          /\ branch' = Reconciled(branch, d, target[d], upstream[d])
      BY <2>4 DEF Reconcile, TypeOK
    <3>2. CASE target[d].kind = "vendor" \/ o # d
      BY <3>1, <3>2, <2>1, ReconcileMirrors
    <3>3. CASE target[d].kind # "vendor" /\ o = d
      <4>1. target[d].kind = "import" /\ target[d].tips \in Seq(TipLabel)
        BY <3>1, <3>3 DEF Target
      <4>2. /\ CanImport(branch, d, upstream[d], target[d].tips)
            /\ branch' = Import(branch, d, upstream[d], target[d].tips)
        BY <3>1, <4>1 DEF CanReconcile, Reconciled
      <4> QED  BY <3>1, <3>3, <4>1, <4>2, ImportReadable
    <3> QED  BY <3>2, <3>3
  <2> QED  BY <2>2, <2>3, <2>4
           DEF Next, Environment, vars, UpstreamPush, UpstreamRewrite, EditDeclaration
<1> QED  BY <1>1, <1>2, TypeCorrect, PTL DEF Spec

\* Popping a tip layer stops at the newest commit that is not part of one.
LEMMA StripTop ==
  ASSUME NEW chain \in Seq(Commit), NEW d \in Dest
  PROVE  LET s == Len(StripTipLayer(chain, d))
         IN  /\ s \in 0..Len(chain)
             /\ StripTipLayer(chain, d) = SubSeq(chain, 1, s)
             /\ s # 0 => ~IsOurTip(chain[s], d)
             /\ \A i \in 1..Len(chain) : ~IsOurTip(chain[i], d) => i <= s
<1> DEFINE I == {i \in DOMAIN chain : ~IsOurTip(chain[i], d)}
           s == Newest(I)
<1>1. Len(chain) \in Nat /\ DOMAIN chain = 1..Len(chain) /\ I \subseteq 1..Len(chain)
  OBVIOUS
<1>2. /\ s \in 0..Len(chain) /\ (I = {} => s = 0) /\ (I # {} => s \in I)
      /\ \A i \in I : i <= s
  <2> HIDE DEF I
  <2> QED  BY <1>1, NewestProps
<1>3. StripTipLayer(chain, d) = SubSeq(chain, 1, s)
  BY DEF StripTipLayer
<1> HIDE DEF s
<1>4. Len(SubSeq(chain, 1, s)) = s
  BY <1>2
<1> QED  BY <1>1, <1>2, <1>3, <1>4

\* On top of the first n commits lies the declared tip layer of d, as the import that
\* left it there made it, and nothing else of d; below there is no tip commit of d.
SettledAt(chain, d, tip, tips, n) ==
  LET mid == SubSeq(chain, 1, n)
  IN  /\ n \in 0..Len(chain) /\ n + Len(tips) <= Len(chain)
      /\ LastImportedOrigin(mid, d) = tip
      /\ LayerApplies(mid, d, tips)
      /\ \A k \in 1..Len(tips) : chain[n + k] = TipCommit(mid, d, tips, k)
      /\ \A i \in (n + Len(tips) + 1)..Len(chain) : ~Scoped(chain[i], d)
      /\ \A i \in 1..n : Scoped(chain[i], d) => chain[i].kind \notin {"patch", "agent"}

Settled(chain, d, tip, tips) == \E n \in 0..Len(chain) : SettledAt(chain, d, tip, tips, n)

\* What was last imported is read off d's own commits only.
LEMMA LastImportedAt ==
  ASSUME NEW chain \in Seq(Commit), NEW d \in Dest,
         NEW a \in 0..Len(chain), NEW b \in 0..Len(chain), a <= b,
         \A i \in (a + 1)..b : ~Scoped(chain[i], d)
  PROVE  LastImportedOrigin(SubSeq(chain, 1, a), d) = LastImportedOrigin(SubSeq(chain, 1, b), d)
<1> DEFINE x == SubSeq(chain, 1, a)
           y == SubSeq(chain, 1, b)
<1>1. /\ x \in Seq(Commit) /\ \A i \in 1..a : x[i] = chain[i]
      /\ MirrorsIn(x, d) = {i \in MirrorsIn(chain, d) : i <= a}
      /\ y \in Seq(Commit) /\ \A i \in 1..b : y[i] = chain[i]
      /\ MirrorsIn(y, d) = {i \in MirrorsIn(chain, d) : i <= b}
  BY PrefixProps
<1> HIDE DEF x, y
<1>2. \A i \in MirrorsIn(chain, d) : i \in 1..Len(chain) /\ Scoped(chain[i], d)
  BY DEF MirrorsIn
<1>3. a \in Int /\ b \in Int /\ Len(chain) \in Nat
  OBVIOUS
<1>4. \A i \in MirrorsIn(chain, d) : i <= b => i <= a
  BY <1>2, <1>3
<1>5. \A i \in MirrorsIn(chain, d) : i <= a => i <= b
  BY <1>2, <1>3
<1>6. MirrorsIn(y, d) = MirrorsIn(x, d)
  BY <1>1, <1>4, <1>5
<1>7. \A i \in MirrorsIn(x, d) : y[i] = x[i]
  BY <1>1, <1>2, <1>3, <1>5
<1> QED  BY <1>1, <1>6, <1>7, SameMirrors DEF x, y

\* Without a tip layer it does not matter where exactly it would lie.
LEMMA SettledShift ==
  ASSUME NEW chain \in Seq(Commit), NEW d \in Dest, NEW tip, NEW n, NEW q \in 0..Len(chain),
         SettledAt(chain, d, tip, <<>>, n),
         \A i \in (q + 1)..Len(chain) : ~Scoped(chain[i], d)
  PROVE  SettledAt(chain, d, tip, <<>>, q)
<1>1. /\ n \in 0..Len(chain) /\ LastImportedOrigin(SubSeq(chain, 1, n), d) = tip
      /\ \A i \in (n + 1)..Len(chain) : ~Scoped(chain[i], d)
      /\ \A i \in 1..n : Scoped(chain[i], d) => chain[i].kind \notin {"patch", "agent"}
  <2>1. n \in 0..Len(chain) => (n + Len(<<>>)) + 1 = n + 1
    OBVIOUS
  <2> QED  BY <2>1 DEF SettledAt
<1>2. n \in Int /\ q \in Int /\ Len(chain) \in Nat
  BY <1>1
<1>3. LastImportedOrigin(SubSeq(chain, 1, q), d) = tip
  <2>1. CASE n <= q
    <3>1. \A i \in (n + 1)..q : ~Scoped(chain[i], d)
      BY <1>1, <1>2
    <3> QED  BY <2>1, <3>1, <1>1, LastImportedAt
  <2>2. CASE q <= n
    <3>1. \A i \in (q + 1)..n : ~Scoped(chain[i], d)
      BY <1>1, <1>2
    <3> QED  BY <2>2, <3>1, <1>1, LastImportedAt
  <2> QED  BY <2>1, <2>2, <1>2
<1>4. \A i \in 1..q : Scoped(chain[i], d) => chain[i].kind \notin {"patch", "agent"}
  <2> SUFFICES ASSUME NEW i \in 1..q, Scoped(chain[i], d)
               PROVE  chain[i].kind \notin {"patch", "agent"}
    OBVIOUS
  <2>1. i \in 1..n
    BY <1>1, <1>2
  <2> QED  BY <2>1, <1>1
<1>5. LayerApplies(SubSeq(chain, 1, q), d, <<>>)
  BY DEF LayerApplies
<1>6. q + Len(<<>>) <= Len(chain) /\ (q + Len(<<>>)) + 1 = q + 1 /\ 1..Len(<<>>) = {}
  BY <1>2
<1> QED  BY <1>3, <1>4, <1>5, <1>6 DEF SettledAt

\* Commits of others, put on top or exchanged there, unsettle nothing.
LEMMA SettledKept ==
  ASSUME NEW a \in Seq(Commit), NEW b \in Seq(Commit), NEW d \in Dest,
         NEW tip, NEW tips \in Seq(TipLabel), NEW q \in 0..Len(a), q <= Len(b),
         \A i \in 1..q : b[i] = a[i],
         \A i \in (q + 1)..Len(a) : ~Scoped(a[i], d),
         \A i \in (q + 1)..Len(b) : ~Scoped(b[i], d),
         Settled(a, d, tip, tips)
  PROVE  Settled(b, d, tip, tips)
<1>1. Len(a) \in Nat /\ Len(b) \in Nat /\ Len(tips) \in Nat /\ q \in Nat
  OBVIOUS
<1>2. \E n \in 0..Len(a) : SettledAt(a, d, tip, tips, n) /\ n + Len(tips) <= q
  <2>1. PICK n \in 0..Len(a) : SettledAt(a, d, tip, tips, n)
    BY DEF Settled
  <2>2. CASE Len(tips) = 0
    <3>1. tips = <<>>
      BY <2>2
    <3>2. SettledAt(a, d, tip, tips, q)
      BY <2>1, <3>1, SettledShift
    <3> QED  BY <3>2, <2>2, <1>1
  <2>3. CASE Len(tips) # 0
    <3>1. Len(tips) \in 1..Len(tips) /\ n + Len(tips) \in 1..Len(a)
      BY <2>1, <2>3, <1>1 DEF SettledAt
    <3>2. a[n + Len(tips)] = TipCommit(SubSeq(a, 1, n), d, tips, Len(tips))
      BY <2>1, <3>1 DEF SettledAt
    <3>3. Scoped(a[n + Len(tips)], d)
      BY <3>2, TipFields DEF Scoped
    <3>4. ~(n + Len(tips) \in (q + 1)..Len(a))
      BY <3>3
    <3> QED  BY <2>1, <3>1, <3>4, <1>1
  <2> QED  BY <2>2, <2>3
<1>3. PICK n \in 0..Len(a) : SettledAt(a, d, tip, tips, n) /\ n + Len(tips) <= q
  BY <1>2
<1>4. /\ n \in 0..Len(b) /\ n + Len(tips) <= Len(b) /\ n <= q
      /\ \A i \in 1..n : i \in 1..q
      /\ \A k \in 1..Len(tips) : n + k \in 1..q
  BY <1>1, <1>3
<1>5. SubSeq(b, 1, n) = SubSeq(a, 1, n)
  <2>1. \A i \in 1..n : b[i] = a[i]
    BY <1>4
  <2> QED  BY <2>1, <1>4
<1>6. \A i \in (n + Len(tips) + 1)..Len(b) : ~Scoped(b[i], d)
  <2> SUFFICES ASSUME NEW i \in (n + Len(tips) + 1)..Len(b) PROVE ~Scoped(b[i], d)
    OBVIOUS
  <2>1. CASE i <= q
    <3>1. i \in (n + Len(tips) + 1)..Len(a) /\ i \in 1..q
      BY <2>1, <1>1, <1>4
    <3>2. ~Scoped(a[i], d)
      BY <3>1, <1>3 DEF SettledAt
    <3> QED  BY <3>1, <3>2
  <2>2. CASE i > q
    <3>1. i \in (q + 1)..Len(b)
      BY <2>2, <1>1, <1>4
    <3> QED  BY <3>1
  <2> QED  BY <2>1, <2>2, <1>1, <1>4
<1>7. \A k \in 1..Len(tips) : b[n + k] = TipCommit(SubSeq(b, 1, n), d, tips, k)
  BY <1>3, <1>4, <1>5 DEF SettledAt
<1>8. \A i \in 1..n : Scoped(b[i], d) => b[i].kind \notin {"patch", "agent"}
  BY <1>3, <1>4 DEF SettledAt
<1>9. SettledAt(b, d, tip, tips, n)
  BY <1>3, <1>4, <1>5, <1>6, <1>7, <1>8 DEF SettledAt
<1> QED  BY <1>4, <1>9 DEF Settled

\* The same of a snapshot: it stays the last one.
LEMMA VendoredKept ==
  ASSUME NEW a \in Seq(Commit), NEW b \in Seq(Commit), NEW d \in Dest,
         NEW q \in 0..Len(a), q <= Len(b),
         \A i \in 1..q : b[i] = a[i],
         \A i \in (q + 1)..Len(a) : ~Scoped(a[i], d),
         \A i \in (q + 1)..Len(b) : ~Scoped(b[i], d)
  PROVE  LastVendored(b, d) = LastVendored(a, d)
<1> DEFINE V(c) == {j \in DOMAIN c : Scoped(c[j], d) /\ c[j].kind = "vendor"}
<1>1. Len(a) \in Nat /\ Len(b) \in Nat /\ q \in Nat /\ DOMAIN a = 1..Len(a) /\ DOMAIN b = 1..Len(b)
  OBVIOUS
<1>2. \A j \in V(a) : j \in 1..q
  BY <1>1
<1>3. \A j \in V(b) : j \in 1..q
  BY <1>1
<1>4. 1..q \subseteq DOMAIN a /\ 1..q \subseteq DOMAIN b
  BY <1>1
<1>5. V(a) = V(b)
  BY <1>2, <1>3, <1>4
<1>6. V(a) \subseteq 1..Len(a)
  BY <1>1
<1> DEFINE i == Newest(V(a))
<1>7. i \in 0..Len(a) /\ (V(a) = {} => i = 0) /\ (V(a) # {} => i \in V(a))
  <2> HIDE DEF V
  <2> QED  BY <1>1, <1>6, NewestProps
<1>8. i # 0 => a[i] = b[i]
  <2> HIDE DEF V, i
  <2> QED  BY <1>2, <1>7
<1>9. /\ LastVendored(a, d) = (IF i = 0 THEN <<>> ELSE a[i].at)
      /\ LastVendored(b, d) = (IF i = 0 THEN <<>> ELSE b[i].at)
  BY <1>5 DEF LastVendored
<1> HIDE DEF i
<1> QED  BY <1>8, <1>9

\* Once a pin is vendored, it is what was vendored last.
LEMMA VendoredIsPin ==
  ASSUME NEW chain \in Seq(Commit), NEW d \in Dest, NEW pin \in History
  PROVE  LastVendored(VendorSnapshot(chain, d, pin), d) = pin
<1> DEFINE new == VendorSnapshot(chain, d, pin)
           V == {j \in DOMAIN new : Scoped(new[j], d) /\ new[j].kind = "vendor"}
<1>1. CASE LastVendored(chain, d) = pin
  BY <1>1 DEF VendorSnapshot
<1>2. CASE LastVendored(chain, d) # pin
  <2> DEFINE c == [kind |-> "vendor", dest |-> d, at |-> pin, label |-> <<>>,
                   tree |-> [TreeOf(chain) EXCEPT ![d] = Pristine(pin)]]
  <2>1. /\ new = Append(chain, c)
        /\ c.kind = "vendor" /\ c.dest = d /\ c.at = pin
    BY <1>2 DEF VendorSnapshot
  <2> HIDE DEF c
  <2>2. new \in Seq(Commit)
    BY VendorType
  <2> DEFINE l == Len(chain) + 1
  <2>3. Len(new) = l /\ new[l] = c /\ l \in 1..Len(new) /\ l # 0
    <3>1. Append(chain, c)[l] = c /\ Len(Append(chain, c)) = l
      OBVIOUS
    <3>2. l \in Nat /\ l # 0 /\ l \in 1..l
      OBVIOUS
    <3> HIDE DEF new, l
    <3> QED  BY <2>1, <3>1, <3>2
  <2>4. l \in V /\ V \subseteq 1..l /\ \A j \in V : j <= l
    <3> HIDE DEF new, l
    <3>1. l \in V /\ V \subseteq 1..l
      BY <2>1, <2>2, <2>3 DEF Scoped
    <3> QED  BY <3>1, <2>2, <2>3
  <2>5. Newest(V) = l
    <3>1. l \in Nat
      OBVIOUS
    <3> HIDE DEF V, l
    <3> QED  BY <2>4, <3>1, NewestUnique
  <2>6. LastVendored(new, d) = new[l].at
    <3> HIDE DEF l, new
    <3> QED  BY <2>3, <2>5 DEF LastVendored
  <2> QED  BY <2>1, <2>3, <2>6
<1> QED  BY <1>1, <1>2

\* An import leaves its destination settled, unless commits of others lie on an
\* older tip layer of it.
LEMMA ImportSettles ==
  ASSUME NEW chain \in Seq(Commit), NEW d \in Dest, NEW tip \in History,
         NEW tips \in Seq(TipLabel), CanImport(chain, d, tip, tips),
         Ordered(chain, d), Gapless(chain, d),
         ~Buried(Import(chain, d, tip, tips), d)
  PROVE  Settled(Import(chain, d, tip, tips), d, tip, tips)
<1> DEFINE new == Import(chain, d, tip, tips)
<1>1. PICK n \in 0..Len(chain) : ImportedLayers(chain, d, tip, tips, n)
  BY ImportLayers
<1> DEFINE base == SubSeq(chain, 1, n)
           last == LastImportedOrigin(base, d)
           m    == Len(tip) - Len(last)
           mid  == ImportMirror(base, d, tip)
<1>2. /\ StripTipLayer(chain, d) = base /\ Len(base) = n
      /\ m \in Nat /\ mid \in Seq(Commit) /\ Len(mid) = n + m
      /\ new \in Seq(Commit) /\ Len(new) = n + m + Len(tips)
      /\ \A i \in 1..n : mid[i] = chain[i]
      /\ \A k \in 1..m : mid[n + k] = ReplayCommit(base, d, SubSeq(tip, 1, Len(last) + k))
      /\ \A i \in 1..(n + m) : new[i] = mid[i]
      /\ \A k \in 1..Len(tips) : new[n + m + k] = TipCommit(mid, d, tips, k)
  BY <1>1 DEF ImportedLayers
<1>3. n \in Nat /\ Len(tips) \in Nat
  OBVIOUS
<1>4. LayerApplies(mid, d, tips)
  BY <1>2 DEF CanImport
<1>5. LastImportedOrigin(new, d) = tip
  BY ImportCatchesUp
<1>6. n # 0 => ~IsOurTip(chain[n], d)
  BY <1>2, StripTop
<1> HIDE DEF new, base, last, m, mid
<1> DEFINE N == n + m
<1>7. N \in 0..Len(new) /\ N + Len(tips) = Len(new) /\ N \in Nat /\ n <= N
  BY <1>2, <1>3
<1>8. SubSeq(new, 1, N) = mid
  <2>1. \A i \in 1..N : SubSeq(new, 1, N)[i] = mid[i] /\ Len(SubSeq(new, 1, N)) = N
    BY <1>2, <1>7
  <2>2. SubSeq(new, 1, N) \in Seq(Commit) /\ Len(SubSeq(new, 1, N)) = N
    BY <1>2, <1>7
  <2> QED  BY <1>2, <2>1, <2>2
<1>9. LastImportedOrigin(mid, d) = tip
  <2>1. MirrorsIn(mid, d) = {i \in MirrorsIn(new, d) : i <= N}
    <3> HIDE DEF N
    <3>1. MirrorsIn(SubSeq(new, 1, N), d) = {i \in MirrorsIn(new, d) : i <= N}
      BY <1>2, <1>7, PrefixProps
    <3> QED  BY <3>1, <1>8
  <2>2. ASSUME NEW i \in MirrorsIn(new, d) PROVE i <= N
    <3>1. i \in 1..Len(new) /\ new[i].kind = "mirror"
      BY <1>2, <2>2 DEF MirrorsIn
    <3>2. ~(i > N)
      <4>1. SUFFICES ASSUME i > N PROVE FALSE
        OBVIOUS
      <4>2. i - N \in 1..Len(tips) /\ N + (i - N) = i
        BY <3>1, <4>1, <1>7
      <4>3. new[N + (i - N)] = TipCommit(mid, d, tips, i - N)
        BY <4>2, <1>2
      <4> QED  BY <3>1, <4>2, <4>3, TipFields
    <3> QED  BY <3>1, <3>2, <1>7
  <2>3. MirrorsIn(new, d) = MirrorsIn(mid, d)
    BY <2>1, <2>2
  <2>4. \A i \in MirrorsIn(mid, d) : new[i] = mid[i]
    <3>1. \A i \in MirrorsIn(mid, d) : i \in 1..(n + m)
      BY <1>2 DEF MirrorsIn
    <3> QED  BY <3>1, <1>2
  <2> QED  BY <1>2, <1>5, <2>3, <2>4, SameMirrors
<1>10. ASSUME NEW i \in 1..N, Scoped(new[i], d)
       PROVE  new[i].kind \notin {"patch", "agent"}
  <2> SUFFICES ASSUME new[i].kind \in {"patch", "agent"} PROVE FALSE
    OBVIOUS
  <2> DEFINE s == Len(StripTipLayer(new, d))
  <2>1. i \in DOMAIN new /\ n \in Int /\ i \in Int
    BY <1>2, <1>7
  <2>2. ~(i <= s)
    BY <2>1, <1>10 DEF Buried, new
  <2>3. CASE i <= n
    <3>1. n # 0 /\ n \in 1..Len(new) /\ n \in 1..n /\ n \in 1..N
      BY <2>3, <1>7, <1>3
    <3>2. new[n] = chain[n]
      BY <3>1, <1>2
    <3>3. n <= s
      BY <3>1, <3>2, <1>2, <1>6, StripTop
    <3>4. s \in Int
      BY <1>2, StripTop
    <3> QED  BY <2>1, <2>2, <2>3, <3>3, <3>4
  <2>4. CASE i > n
    <3>1. i - n \in 1..m /\ n + (i - n) = i
      BY <2>1, <2>4, <1>2, <1>3
    <3>2. /\ new[i] = mid[i]
          /\ mid[n + (i - n)] = ReplayCommit(base, d, SubSeq(tip, 1, Len(last) + (i - n)))
      BY <3>1, <1>2
    <3>3. new[i].kind = "mirror"
      BY <3>1, <3>2, ReplayFields
    <3> QED  BY <3>3
  <2> QED  BY <2>1, <2>3, <2>4
<1>11. \A k \in 1..Len(tips) : new[N + k] = TipCommit(mid, d, tips, k)
  BY <1>2
<1>12. (N + Len(tips) + 1)..Len(new) = {}
  BY <1>7
<1> HIDE DEF N
<1>13. SettledAt(new, d, tip, tips, N)
  <2>1. \A i \in (N + Len(tips) + 1)..Len(new) : ~Scoped(new[i], d)
    BY <1>12
  <2>2. N + Len(tips) <= Len(new)
    BY <1>2, <1>7
  <2> QED  BY <1>4, <1>7, <1>8, <1>9, <1>10, <1>11, <2>1, <2>2 DEF SettledAt
<1> QED  BY <1>7, <1>13 DEF Settled, new

\* An import of a settled destination puts back every commit it pops.
LEMMA SettledReproduces ==
  ASSUME NEW chain \in Seq(Commit), NEW d \in Dest, NEW tip \in History,
         NEW tips \in Seq(TipLabel), tip # <<>>,
         Ordered(chain, d), Gapless(chain, d), Readable(chain, d), Runs(chain),
         Settled(chain, d, tip, tips), ~Buried(chain, d)
  PROVE  /\ CanImport(chain, d, tip, tips)
         /\ Import(chain, d, tip, tips) = chain
<1> DEFINE s == Len(StripTipLayer(chain, d))
<1>1. /\ s \in 0..Len(chain) /\ StripTipLayer(chain, d) = SubSeq(chain, 1, s)
      /\ \A i \in (s + 1)..Len(chain) : IsOurTip(chain[i], d)
  <2>1. /\ s \in 0..Len(chain) /\ StripTipLayer(chain, d) = SubSeq(chain, 1, s)
        /\ \A i \in 1..Len(chain) : ~IsOurTip(chain[i], d) => i <= s
    BY StripTop
  <2> HIDE DEF s
  <2>2. \A i \in (s + 1)..Len(chain) : i \in 1..Len(chain) /\ ~(i <= s)
    BY <2>1
  <2> QED  BY <2>1, <2>2
<1> HIDE DEF s
<1>2. Len(chain) \in Nat /\ Len(tips) \in Nat /\ s \in Nat /\ s <= Len(chain)
  BY <1>1
<1>3. \A i \in (s + 1)..Len(chain) : Scoped(chain[i], d)
  BY <1>1 DEF IsOurTip
<1>4. \A i \in 1..s : Scoped(chain[i], d) => chain[i].kind \notin {"patch", "agent"}
  <2>1. \A i \in DOMAIN chain :
          Scoped(chain[i], d) /\ chain[i].kind \in {"patch", "agent"} => ~(i <= s)
    BY DEF Buried, s
  <2>2. \A i \in 1..s : i \in DOMAIN chain /\ i <= s
    BY <1>1, <1>2
  <2> QED  BY <2>1, <2>2
<1>5. \E n \in s..Len(chain) : SettledAt(chain, d, tip, tips, n)
  <2>1. PICK n \in 0..Len(chain) : SettledAt(chain, d, tip, tips, n)
    BY DEF Settled
  <2>2. CASE s <= n
    BY <2>1, <2>2, <1>2
  <2>3. CASE ~(s <= n)
    <3>1. tips = <<>>
      <4> SUFFICES ASSUME Len(tips) # 0 PROVE FALSE
        OBVIOUS
      <4>1. n + 1 \in 1..s /\ 1 \in 1..Len(tips)
        BY <2>3, <1>2
      <4>2. chain[n + 1] = TipCommit(SubSeq(chain, 1, n), d, tips, 1)
        BY <2>1, <4>1 DEF SettledAt
      <4>3. chain[n + 1].kind \in {"patch", "agent"} /\ chain[n + 1].dest = d
        BY <4>2, TipFields
      <4> QED  BY <4>1, <4>3, <1>4 DEF Scoped
    <3>2. \A i \in (s + 1)..Len(chain) : ~Scoped(chain[i], d)
      <4>1. SettledAt(chain, d, tip, <<>>, n) /\ n + Len(<<>>) + 1 = n + 1
        BY <2>1, <3>1
      <4>2. \A i \in (n + 1)..Len(chain) : ~Scoped(chain[i], d)
        BY <4>1 DEF SettledAt
      <4>3. \A i \in (s + 1)..Len(chain) : i \in (n + 1)..Len(chain)
        BY <2>3, <1>2
      <4> QED  BY <4>2, <4>3
    <3>3. SettledAt(chain, d, tip, <<>>, s)
      BY <1>1, <2>1, <3>1, <3>2, SettledShift
    <3> QED  BY <3>1, <3>3, <1>1, <1>2
  <2> QED  BY <2>2, <2>3
<1>6. PICK n \in s..Len(chain) : SettledAt(chain, d, tip, tips, n)
  BY <1>5
<1> DEFINE mid == SubSeq(chain, 1, n)
<1>7. /\ n \in 0..Len(chain) /\ s \in 0..n /\ n + Len(tips) <= Len(chain)
      /\ LastImportedOrigin(mid, d) = tip
      /\ LayerApplies(mid, d, tips)
      /\ \A k \in 1..Len(tips) : chain[n + k] = TipCommit(mid, d, tips, k)
      /\ \A i \in (n + Len(tips) + 1)..Len(chain) : ~Scoped(chain[i], d)
      /\ \A i \in 1..n : Scoped(chain[i], d) => chain[i].kind \notin {"patch", "agent"}
  BY <1>2, <1>6 DEF SettledAt
<1>8. /\ mid \in Seq(Commit) /\ Len(mid) = n /\ \A i \in 1..n : mid[i] = chain[i]
  BY <1>7, PrefixProps
<1>9. \A i \in (s + 1)..n : i \in MirrorsIn(chain, d)
  <2> SUFFICES ASSUME NEW i \in (s + 1)..n PROVE i \in MirrorsIn(chain, d)
    OBVIOUS
  <2>1. i \in (s + 1)..Len(chain) /\ i \in 1..n /\ i \in DOMAIN chain
    BY <1>2, <1>7
  <2>2. IsOurTip(chain[i], d) /\ chain[i].kind \notin {"patch", "agent"}
    BY <2>1, <1>1, <1>3, <1>7
  <2> QED  BY <2>1, <2>2 DEF IsOurTip, HasTipTrailer, MirrorsIn
<1>10. /\ OnChain(LastImportedOrigin(StripTipLayer(chain, d), d), tip)
       /\ ImportMirror(StripTipLayer(chain, d), d, tip) = mid
  BY <1>1, <1>7, <1>9, MirrorsRegrow
<1>11. n + Len(tips) = Len(chain)
  <2>1. SUFFICES ASSUME n + Len(tips) < Len(chain) PROVE FALSE
    BY <1>2, <1>7
  <2>2. Len(chain) \in (n + Len(tips) + 1)..Len(chain) /\ Len(chain) \in (s + 1)..Len(chain)
    BY <2>1, <1>2, <1>7
  <2> QED  BY <2>2, <1>3, <1>7
<1> DEFINE new == ApplyTipLayer(mid, d, tips)
<1>12. new = chain
  <2>1. /\ new \in Seq(Commit) /\ Len(new) = n + Len(tips)
        /\ \A i \in 1..n : new[i] = mid[i]
        /\ \A k \in 1..Len(tips) : new[n + k] = TipCommit(mid, d, tips, k)
    <3> HIDE DEF mid
    <3> QED  BY <1>8, LayerShape
  <2> HIDE DEF new
  <2>2. ASSUME NEW i \in 1..Len(chain) PROVE new[i] = chain[i]
    <3>1. CASE i <= n
      <4>1. i \in 1..n
        BY <3>1, <1>2
      <4> QED  BY <4>1, <1>8, <2>1
    <3>2. CASE i > n
      <4>1. i - n \in 1..Len(tips) /\ n + (i - n) = i
        BY <3>2, <1>2, <1>7, <1>11
      <4>2. new[n + (i - n)] = chain[n + (i - n)]
        BY <4>1, <1>7, <2>1
      <4> QED  BY <4>1, <4>2
    <3> QED  BY <3>1, <3>2, <1>7
  <2> QED  BY <1>11, <2>1, <2>2
<1> QED  BY <1>7, <1>10, <1>12 DEF CanImport, Import

\* The inductive invariant: what is in sync is settled, or has its pin vendored last.
InSync(d) ==
  IF target[d].kind = "vendor"
  THEN LastVendored(branch, d) = target[d].pin
  ELSE upstream[d] # <<>> /\ Settled(branch, d, upstream[d], target[d].tips)
SettledInv == \A d \in synced : InSync(d)

\* What a step of others leaves of a destination in sync.
LEMMA InSyncKept ==
  ASSUME TypeOK, TypeOK', NEW d \in Dest, InSync(d),
         target'[d] = target[d], upstream'[d] = upstream[d],
         NEW q \in 0..Len(branch), q <= Len(branch'),
         \A i \in 1..q : branch'[i] = branch[i],
         \A i \in (q + 1)..Len(branch) : ~Scoped(branch[i], d),
         \A i \in (q + 1)..Len(branch') : ~Scoped(branch'[i], d)
  PROVE  InSync(d)'
<1>1. branch \in Seq(Commit) /\ branch' \in Seq(Commit) /\ target[d] \in Target
  BY DEF TypeOK
<1>2. CASE target[d].kind = "vendor"
  <2>1. LastVendored(branch', d) = LastVendored(branch, d)
    BY <1>1, VendoredKept
  <2> QED  BY <1>2, <2>1 DEF InSync
<1>3. CASE target[d].kind # "vendor"
  <2>1. target[d].tips \in Seq(TipLabel)
    BY <1>1, <1>3 DEF Target
  <2>2. upstream[d] # <<>> /\ Settled(branch, d, upstream[d], target[d].tips)
    BY <1>3 DEF InSync
  <2>3. Settled(branch', d, upstream[d], target[d].tips)
    BY <1>1, <2>1, <2>2, SettledKept
  <2>4. /\ target'[d].kind # "vendor" /\ upstream'[d] # <<>>
        /\ Settled(branch', d, upstream'[d], target'[d].tips)
    BY <1>3, <2>2, <2>3
  <2> QED  BY <2>4 DEF InSync, Settled, SettledAt, LastImportedOrigin, LayerApplies
<1> QED  BY <1>2, <1>3

\* Reconciling a target again with nothing changed since its last reconcile
\* reproduces the branch, whatever other targets and developers did to it.
THEOREM ReimportIsStable == Spec => []StableUnlessBuried
<1>1. Init => SettledInv
  BY DEF Init, SettledInv
<1>2. /\ TypeOK /\ TypeOK' /\ OrderedMirror /\ SettledInv /\ [Next]_vars
      => SettledInv'
  <2> SUFFICES ASSUME TypeOK, TypeOK', OrderedMirror, SettledInv, [Next]_vars,
                      NEW o \in synced'
               PROVE  InSync(o)'
    BY DEF SettledInv
  <2>0. o \in Dest /\ branch \in Seq(Commit) /\ branch' \in Seq(Commit) /\ Len(branch) \in Nat
    BY DEF TypeOK
  <2>1. ASSUME o \in synced, branch' = branch, target'[o] = target[o], upstream'[o] = upstream[o]
        PROVE  InSync(o)'
    <3>1. InSync(o) /\ Len(branch) \in 0..Len(branch)
      BY <2>0, <2>1 DEF SettledInv
    <3>2. (Len(branch) + 1)..Len(branch) = {}
      BY <2>0
    <3> QED  BY <2>0, <2>1, <3>1, <3>2, InSyncKept
  <2>2. CASE UNCHANGED vars
    BY <2>1, <2>2 DEF vars
  <2>3. ASSUME NEW d \in Dest, NEW c \in Change, UpstreamPush(d, c) PROVE InSync(o)'
    <3>1. o # d /\ o \in synced
      BY <2>3 DEF UpstreamPush
    <3>2. branch' = branch /\ target' = target /\ upstream'[o] = upstream[o]
      BY <2>0, <2>3, <3>1 DEF UpstreamPush, TypeOK
    <3> QED  BY <2>1, <3>1, <3>2
  <2>4. ASSUME NEW d \in Dest, NEW k \in DOMAIN upstream[d], NEW c \in Change,
               UpstreamRewrite(d, k, c)
        PROVE  InSync(o)'
    <3>1. o # d /\ o \in synced
      BY <2>4 DEF UpstreamRewrite
    <3>2. branch' = branch /\ target' = target /\ upstream'[o] = upstream[o]
      BY <2>0, <2>4, <3>1 DEF UpstreamRewrite, TypeOK
    <3> QED  BY <2>1, <3>1, <3>2
  <2>5. ASSUME NEW d \in Dest, NEW t \in Declared[d], EditDeclaration(d, t) PROVE InSync(o)'
    <3>1. o # d /\ o \in synced
      BY <2>5 DEF EditDeclaration
    <3>2. branch' = branch /\ upstream' = upstream /\ target'[o] = target[o]
      BY <2>0, <2>5, <3>1 DEF EditDeclaration, TypeOK
    <3> QED  BY <2>1, <3>1, <3>2
  <2>6. ASSUME NEW w \in Dest \cup {Elsewhere}, NEW e \in LocalEdit, LocalCommit(w, e)
        PROVE  InSync(o)'
    <3>1. PICK c \in Commit : c.kind = "local" /\ branch' = Append(branch, c)
      BY <2>6, LocalType
    <3>2. /\ upstream' = upstream /\ target' = target /\ InSync(o)
      BY <2>6 DEF LocalCommit, SettledInv
    <3> DEFINE q == Len(branch)
    <3>3. /\ q \in 0..Len(branch) /\ Len(branch') = q + 1 /\ branch'[q + 1] = c
          /\ \A i \in 1..q : branch'[i] = branch[i]
      BY <2>0, <3>1
    <3>4. q <= Len(branch') /\ (q + 1)..Len(branch) = {} /\ (q + 1)..Len(branch') = {q + 1}
      BY <2>0, <3>3
    <3>5. ~Scoped(c, o)
      BY <3>1 DEF Scoped
    <3> HIDE DEF q
    <3> QED  BY <2>0, <3>2, <3>3, <3>4, <3>5, InSyncKept
  <2>7. ASSUME NEW d \in Dest, Reconcile(d) PROVE InSync(o)'
    <3>1. /\ target[d] \in Target /\ upstream[d] \in History
          /\ CanReconcile(branch, d, target[d], upstream[d])
          /\ branch' = Reconciled(branch, d, target[d], upstream[d])
          /\ upstream' = upstream /\ target' = target
      BY <2>7 DEF Reconcile, TypeOK
    <3>2. CASE o # d
      <4>1. PICK n \in 0..Len(branch) : Regrown(branch, branch', d, n)
        BY <2>0, <3>1, ReconcileRegrows
      <4>2. o \in synced /\ InSync(o)
        BY <2>7, <3>2 DEF Reconcile, SettledInv
      <4>3. \A c : Scoped(c, d) => ~Scoped(c, o)
        BY <3>2 DEF Scoped
      <4>4. /\ n <= Len(branch') /\ \A i \in 1..n : branch'[i] = branch[i]
            /\ \A i \in (n + 1)..Len(branch) : ~Scoped(branch[i], o)
            /\ \A i \in (n + 1)..Len(branch') : ~Scoped(branch'[i], o)
        BY <4>1, <4>3 DEF Regrown
      <4> QED  BY <2>0, <3>1, <4>2, <4>4, InSyncKept
    <3>3. CASE o = d /\ target[d].kind = "vendor"
      <4>1. branch' = VendorSnapshot(branch, d, target[d].pin) /\ target[d].pin \in History
        BY <3>1, <3>3 DEF Reconciled, Target
      <4>2. LastVendored(branch', d) = target[d].pin
        BY <2>0, <4>1, VendoredIsPin
      <4> QED  BY <3>1, <3>3, <4>2 DEF InSync
    <3>4. CASE o = d /\ target[d].kind # "vendor"
      <4>1. target[d].kind = "import" /\ target[d].tips \in Seq(TipLabel)
        BY <3>1, <3>4 DEF Target
      <4>2. /\ CanImport(branch, d, upstream[d], target[d].tips)
            /\ branch' = Import(branch, d, upstream[d], target[d].tips)
        BY <3>1, <4>1 DEF CanReconcile, Reconciled
      <4>3. ~Buried(branch', d)
        BY <2>7, <3>4, <4>1 DEF Reconcile
      <4>4. Settled(branch', d, upstream[d], target[d].tips)
        BY <2>0, <3>1, <4>1, <4>2, <4>3, ImportSettles DEF OrderedMirror
      <4>5. upstream[d] # <<>>
        BY <4>2 DEF CanImport
      <4> QED  BY <3>1, <3>4, <4>4, <4>5
               DEF InSync, Settled, SettledAt, LastImportedOrigin, LayerApplies
    <3> QED  BY <3>2, <3>3, <3>4
  <2> QED  BY <2>2, <2>3, <2>4, <2>5, <2>6, <2>7 DEF Next, Environment
<1>3. /\ TypeOK /\ OrderedMirror /\ Runs(branch) /\ SettledInv
      /\ (\A d \in Dest : Readable(branch, d))
      => StableUnlessBuried
  <2> SUFFICES ASSUME TypeOK, OrderedMirror, Runs(branch), SettledInv,
                      \A d \in Dest : Readable(branch, d), NEW d \in synced,
                      target[d].kind = "vendor" \/ ~Buried(branch, d)
               PROVE  Reproduces(d)
    BY DEF StableUnlessBuried
  <2>1. /\ d \in Dest /\ branch \in Seq(Commit) /\ upstream[d] \in History
        /\ target[d] \in Target /\ InSync(d)
    BY DEF TypeOK, SettledInv
  <2>2. CASE target[d].kind = "vendor"
    BY <2>1, <2>2 DEF Reproduces, CanReconcile, Reconciled, VendorSnapshot, InSync
  <2>3. CASE target[d].kind # "vendor"
    <3>1. target[d].kind = "import" /\ target[d].tips \in Seq(TipLabel)
      BY <2>1, <2>3 DEF Target
    <3>2. upstream[d] # <<>> /\ Settled(branch, d, upstream[d], target[d].tips) /\ ~Buried(branch, d)
      BY <2>1, <2>3 DEF InSync
    <3>3. /\ CanImport(branch, d, upstream[d], target[d].tips)
          /\ Import(branch, d, upstream[d], target[d].tips) = branch
      BY <2>1, <3>1, <3>2, SettledReproduces DEF OrderedMirror
    <3> QED  BY <3>1, <3>3 DEF Reproduces, CanReconcile, Reconciled
  <2> QED  BY <2>2, <2>3
<1> QED  BY <1>1, <1>2, <1>3, TypeCorrect, MirrorsStayOrdered, ContentsRun, MirrorsReadable,
            PTL DEF Spec
=============================================================================
