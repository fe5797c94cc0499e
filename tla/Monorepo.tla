------------------------------- MODULE Monorepo -------------------------------
(***************************************************************************)
(* One monorepo branch that several imports and vendors share, reconciled  *)
(* one target at a time (src/src/reconcile.rs over src/src/engine.rs),     *)
(* while upstreams move, users edit the declarations and developers commit *)
(* to the branch.  A reconcile is one step here: Reconciler.tla takes it   *)
(* apart.                                                                  *)
(***************************************************************************)
EXTENDS Engine

CONSTANTS
  Declared,    \* the targets users choose from for each destination
  MaxUpstream, \* bound: length of an upstream history
  MaxBranch,   \* bound: length of the branch
  MaxLocal     \* bound: number of developers' commits on the branch

ASSUME MonorepoAssumption ==
  /\ Declared \in [Dest -> SUBSET Target]
  /\ MaxUpstream \in Nat /\ MaxBranch \in Nat /\ MaxLocal \in Nat

VARIABLES
  upstream, \* each destination's upstream: its tip, as a history
  target,   \* what is declared for each destination
  branch,   \* refs/heads/<default_branch> of the monorepo
  synced    \* history: dests whose declaration and upstream did not change
            \* since their last successful reconcile, which left none of their
            \* tip commits below other commits

vars == <<upstream, target, branch, synced>>

TypeOK ==
  /\ upstream \in [Dest -> History]
  /\ target \in [Dest -> Target] /\ \A d \in Dest : target[d] \in Declared[d]
  /\ branch \in Seq(Commit)
  /\ synced \subseteq Dest

Init ==
  /\ upstream = [d \in Dest |-> <<>>]
  /\ target \in {t \in [Dest -> UNION {Declared[d] : d \in Dest}] : \A d \in Dest : t[d] \in Declared[d]}
  /\ branch = <<>>
  /\ synced = {}

-----------------------------------------------------------------------------
(* The world around capyfun. *)

UpstreamPush(d, c) ==
  /\ Len(upstream[d]) < MaxUpstream
  /\ upstream' = [upstream EXCEPT ![d] = Append(@, c)]
  /\ synced' = synced \ {d}
  /\ UNCHANGED <<target, branch>>

\* A force-push: the newest changes from the k-th on are replaced by c.
UpstreamRewrite(d, k, c) ==
  /\ upstream[d][k] # c
  /\ upstream' = [upstream EXCEPT ![d] = Append(SubSeq(@, 1, k - 1), c)]
  /\ synced' = synced \ {d}
  /\ UNCHANGED <<target, branch>>

EditDeclaration(d, t) ==
  /\ t # target[d]
  /\ target' = [target EXCEPT ![d] = t]
  /\ synced' = synced \ {d}
  /\ UNCHANGED <<upstream, branch>>

Local == {i \in DOMAIN branch : branch[i].kind = "local"}

\* Elsewhere is the rest of the monorepo: the edit changes no destination.
LocalCommit(w, e) ==
  /\ Len(branch) < MaxBranch /\ Cardinality(Local) < MaxLocal
  /\ branch' = Append(branch,
       [kind |-> "local", dest |-> w, at |-> <<>>, label |-> <<e>>,
        tree |-> [d \in Dest |->
                   IF d = w THEN [TreeOf(branch)[d] EXCEPT !.edits = Append(@, e)]
                            ELSE TreeOf(branch)[d]]])
  /\ UNCHANGED <<upstream, target, synced>>

-----------------------------------------------------------------------------
(* do_import and do_vendor, with the branch and the upstream read at once.  *)
(* A reconcile that fails leaves every ref as it was: no step.              *)

\* Popping d's tip layer does not get to one of its commits.
Buried(chain, d) ==
  \E i \in DOMAIN chain : /\ Scoped(chain[i], d) /\ chain[i].kind \in {"patch", "agent"}
                          /\ i <= Len(StripTipLayer(chain, d))

Reconcile(d) ==
  /\ CanReconcile(branch, d, target[d], upstream[d])
  /\ branch' = Reconciled(branch, d, target[d], upstream[d])
  /\ Len(branch') <= MaxBranch
  /\ synced' = IF target[d].kind = "import" /\ Buried(branch', d)
               THEN synced \ {d} ELSE synced \cup {d}
  /\ UNCHANGED <<upstream, target>>

Environment ==
  \/ \E d \in Dest, c \in Change : UpstreamPush(d, c)
  \/ \E d \in Dest : \E k \in DOMAIN upstream[d], c \in Change : UpstreamRewrite(d, k, c)
  \/ \E d \in Dest : \E t \in Declared[d] : EditDeclaration(d, t)
  \/ \E w \in Dest \cup {Elsewhere}, e \in LocalEdit : LocalCommit(w, e)

Next == Environment \/ \E d \in Dest : Reconcile(d)

Spec == Init /\ [][Next]_vars

-----------------------------------------------------------------------------
(* Properties. *)

\* The mirror commits of a destination, oldest first, are its upstream's commits
\* with no repeat, gap or swap: they get longer, and every prefix of one was
\* mirrored at or before it (engine.rs import_mirror: "replays every first-parent
\* commit newer than the last-imported one"), whatever other targets and
\* developers put between them.
OrderedMirror == \A d \in Dest : Ordered(branch, d) /\ Gapless(branch, d)

\* Rewriting its tip layer, a reconcile never takes another target's commit or a
\* developer's commit off the branch, nor a mirror commit that carries no tip
\* trailer from upstream.
OnlyOwnTipDropped ==
  [][\A d \in Dest : Reconcile(d) =>
       \A i \in DOMAIN branch :
         \/ branch[i].kind \in {"local", "vendor"}
         \/ branch[i].dest # d
         \/ branch[i].kind = "mirror" /\ Last(branch[i].at) \notin Tainted
         => i \in DOMAIN branch' /\ branch'[i] = branch[i]]_vars

\* A reconcile changes the content of its own destination only, even though it
\* pops commits off a branch all targets share and every commit holds a full tree.
OthersUntouched ==
  [][\A d \in Dest : Reconcile(d) =>
       \A o \in Dest \ {d} : TreeOf(branch')[o] = TreeOf(branch)[o]]_vars

\* Once there is something new upstream, an import leaves exactly upstream's tree
\* with the declared tip layer, be its old layer on top, buried or hand-edited.
NewUpstreamMaterializes ==
  [][\A d \in Dest :
       Reconcile(d) /\ target[d].kind = "import"
         /\ LastImportedOrigin(StripTipLayer(branch, d), d) # upstream[d]
       => TreeOf(branch')[d] = [src |-> upstream[d], edits |-> target[d].tips]]_vars

Reproduces(d) ==
  /\ CanReconcile(branch, d, target[d], upstream[d])
  /\ Reconciled(branch, d, target[d], upstream[d]) = branch
\* Reconciling a target again with nothing changed since its last reconcile
\* succeeds and reproduces the same tip (engine.rs import, "Idempotent"), whatever
\* was reconciled or committed in between, as long as no other commit lay on top of
\* the target's tip layer then or does now. A vendored target always does.
StableUnlessBuried ==
  \A d \in synced : target[d].kind = "vendor" \/ ~Buried(branch, d) => Reproduces(d)

\* The branch implements the mirror map: reading the trailers of the branch back
\* as the mirrored history, every step is a step of MirrorMap or changes nothing.
Mirrored == [d \in Dest |-> LastImportedOrigin(branch, d)]
MM == INSTANCE MirrorMap WITH mirrored <- Mirrored
MirrorMapSpec == MM!Spec
=============================================================================
