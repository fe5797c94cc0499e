------------------------------- MODULE Engine -------------------------------
(***************************************************************************)
(* What one reconcile computes (src/src/engine.rs): a new monorepo branch  *)
(* from the branch it read, the upstream tip it fetched and the declared   *)
(* tip layer.  Nothing here moves a ref.                                   *)
(*                                                                         *)
(* A Git object id covers the whole first-parent history below it, so a    *)
(* commit is identified with that history: an upstream commit is the       *)
(* sequence of changes from its root, the monorepo branch is the sequence  *)
(* of its commits, and two tips have the same OID iff the sequences are    *)
(* equal.  The empty sequence stands for "no commit".                      *)
(***************************************************************************)
EXTENDS Integers, Sequences, FiniteSets, SequencesExt

CONSTANTS
  Dest,      \* destination directories of the declared imports and vendors
  Elsewhere, \* any other place in the monorepo
  Change,    \* what an upstream commit adds to its parent
  Patch,     \* labels of static patches (apply_patch and `patches = [...]`)
  Agent,     \* labels of agents (agent_transform)
  LocalEdit, \* what a developer's own commit changes
  Conflict,  \* <<p, c>>: patch p does not apply on a tree whose newest change is c
  Tainted    \* changes whose upstream message itself has a CapyFun-Patch line

ASSUME EngineAssumption ==
  /\ Elsewhere \notin Dest
  /\ Patch \cap Agent = {}
  /\ Conflict \subseteq Patch \X Change
  /\ Tainted \subseteq Change

History == Seq(Change)
TipLabel == Patch \cup Agent

(***************************************************************************)
(* The content of one destination: the upstream tree it was copied from    *)
(* and the edits made to it since.  CapyFun's own entries (SRC, patches)   *)
(* are carried over by every import and are left out.                      *)
(***************************************************************************)
Subtree == [src : History, edits : Seq(TipLabel \cup LocalEdit)]
Pristine(h) == [src |-> h, edits |-> <<>>]

(***************************************************************************)
(* A commit: its kind and trailers (`dest` is CapyFun-Import, `at` is      *)
(* CapyFun-Origin or CapyFun-Vendor, `label` is CapyFun-Patch or           *)
(* CapyFun-Agent), and its tree.                                           *)
(***************************************************************************)
Commit == [kind  : {"mirror", "vendor", "patch", "agent", "local"},
           dest  : Dest \cup {Elsewhere},
           at    : History,
           label : Seq(TipLabel \cup LocalEdit),
           tree  : [Dest -> Subtree]]

EmptyTree == [d \in Dest |-> Pristine(<<>>)]
TreeOf(chain) == IF chain = <<>> THEN EmptyTree ELSE Last(chain).tree

Scoped(c, d) == c.kind # "local" /\ c.dest = d

\* The index of the newest commit of a set of indices, 0 when there is none.
Newest(I) == IF I = {} THEN 0 ELSE Max(I)

-----------------------------------------------------------------------------
(* The commit map, read back from the trailers. *)

MirrorsIn(chain, d) ==
  {i \in DOMAIN chain : Scoped(chain[i], d) /\ chain[i].kind = "mirror"}
LastImportedOrigin(chain, d) ==
  LET i == Newest(MirrorsIn(chain, d)) IN IF i = 0 THEN <<>> ELSE chain[i].at

LastVendored(chain, d) ==
  LET i == Newest({j \in DOMAIN chain : Scoped(chain[j], d) /\ chain[j].kind = "vendor"})
  IN IF i = 0 THEN <<>> ELSE chain[i].at

-----------------------------------------------------------------------------
(* The mirror layer. *)

\* Faulty variant: an upstream rewritten to the same height goes unnoticed.
NotAhead(stop, tip) == Len(stop) <= Len(tip)
\* `stop` is on `tip`'s first-parent chain; otherwise upstream was rewritten.
OnChain(stop, tip) == IsPrefix(stop, tip)
\* Faulty variant: the walk stops one commit too early and loses `stop`'s child.
FirstParentDeltaPastChild(tip, stop) ==
  [k \in 1..(Len(tip) - Len(stop) - 1) |-> SubSeq(tip, 1, Len(stop) + k + 1)]
FirstParentDelta(tip, stop) ==
  [k \in 1..(Len(tip) - Len(stop)) |-> SubSeq(tip, 1, Len(stop) + k)]

\* Faulty variant: the subtree is spliced into an empty tree, not the parent's.
ReplayCommitAlone(chain, d, origin) ==
  [kind |-> "mirror", dest |-> d, at |-> origin, label |-> <<>>,
   tree |-> [EmptyTree EXCEPT ![d] = Pristine(origin)]]
\* The whole destination subtree is replaced, whatever edits it had.
ReplayCommit(chain, d, origin) ==
  [kind |-> "mirror", dest |-> d, at |-> origin, label |-> <<>>,
   tree |-> [TreeOf(chain) EXCEPT ![d] = Pristine(origin)]]

ImportMirror(chain, d, tip) ==
  LET delta == FirstParentDelta(tip, LastImportedOrigin(chain, d))
  IN chain \o [k \in DOMAIN delta |-> ReplayCommit(chain, d, delta[k])]

\* Faulty variants: the snapshot is taken again although it is already there;
\* its commit has a trailer nothing reads back.
VendorSnapshotAgain(chain, d, pin) ==
  Append(chain, [kind |-> "vendor", dest |-> d, at |-> pin, label |-> <<>>,
                 tree |-> [TreeOf(chain) EXCEPT ![d] = Pristine(pin)]])
VendorSnapshotUnmarked(chain, d, pin) ==
  Append(chain, [kind |-> "snapshot", dest |-> d, at |-> pin, label |-> <<>>,
                 tree |-> [TreeOf(chain) EXCEPT ![d] = Pristine(pin)]])
VendorSnapshot(chain, d, pin) ==
  IF LastVendored(chain, d) = pin THEN chain
  ELSE Append(chain, [kind |-> "vendor", dest |-> d, at |-> pin, label |-> <<>>,
                      tree |-> [TreeOf(chain) EXCEPT ![d] = Pristine(pin)]])

-----------------------------------------------------------------------------
(* The tip layer: patches and agents, reapplied after every mirror.  An     *)
(* agent run that edits nothing leaves no commit: a layer is the list of    *)
(* the declared tip transforms that do change the subtree.                  *)

HasTipTrailer(c) ==
  \/ c.kind \in {"patch", "agent"}
  \/ c.kind = "mirror" /\ Last(c.at) \in Tainted
\* Faulty variant: not scoped to the destination.
IsAnyTip(c, d) == HasTipTrailer(c)
IsOurTip(c, d) == Scoped(c, d) /\ HasTipTrailer(c)

\* Pops commits from the top while they are d's own tip layer.
StripTipLayer(chain, d) ==
  SubSeq(chain, 1, Newest({i \in DOMAIN chain : ~IsOurTip(chain[i], d)}))

\* A patch applies cleanly iff it is not there already and fits the source.
PatchApplies(p, subtree) ==
  /\ \A i \in DOMAIN subtree.edits : subtree.edits[i] # p
  /\ subtree.src # <<>> => <<p, Last(subtree.src)>> \notin Conflict
LayerApplies(chain, d, tips) ==
  \A i \in DOMAIN tips : tips[i] \in Patch =>
    /\ PatchApplies(tips[i], TreeOf(chain)[d])
    /\ \A j \in 1..(i - 1) : tips[j] # tips[i]

\* Faulty variant: each transform is applied to the mirror tip, not to the head
\* the one before it left.
TipCommitOnMirror(chain, d, tips, k) ==
  [kind  |-> IF tips[k] \in Agent THEN "agent" ELSE "patch",
   dest  |-> d,
   at    |-> <<>>,
   label |-> <<tips[k]>>,
   tree  |-> [TreeOf(chain) EXCEPT ![d].edits = Append(@, tips[k])]]
TipCommit(chain, d, tips, k) ==
  [kind  |-> IF tips[k] \in Agent THEN "agent" ELSE "patch",
   dest  |-> d,
   at    |-> <<>>,
   label |-> <<tips[k]>>,
   tree  |-> [TreeOf(chain) EXCEPT ![d].edits = @ \o SubSeq(tips, 1, k)]]
ApplyTipLayer(chain, d, tips) ==
  chain \o [k \in DOMAIN tips |-> TipCommit(chain, d, tips, k)]

-----------------------------------------------------------------------------
(* One full import.  `CanImport` collects every error that aborts it. *)

CanImport(chain, d, tip, tips) ==
  LET base == StripTipLayer(chain, d)
  IN /\ tip # <<>>
     /\ OnChain(LastImportedOrigin(base, d), tip)
     /\ LayerApplies(ImportMirror(base, d, tip), d, tips)

Import(chain, d, tip, tips) ==
  ApplyTipLayer(ImportMirror(StripTipLayer(chain, d), d, tip), d, tips)

(***************************************************************************)
(* What the user declares for a destination: track an upstream branch and  *)
(* reapply a tip layer, or hold a pinned snapshot of it.                   *)
(***************************************************************************)
Target == [kind : {"import"}, tips : Seq(TipLabel), pin : {<<>>}]
            \cup [kind : {"vendor"}, tips : {<<>>}, pin : History \ {<<>>}]

CanReconcile(chain, d, t, tip) == t.kind = "import" => CanImport(chain, d, tip, t.tips)
Reconciled(chain, d, t, tip) ==
  IF t.kind = "import" THEN Import(chain, d, tip, t.tips)
                       ELSE VendorSnapshot(chain, d, t.pin)

-----------------------------------------------------------------------------
(* What a chain of commits has to be like, for the properties.               *)

\* d's mirror commits get longer along the chain, and every prefix of one was
\* mirrored at or before it.
Ordered(chain, d) ==
  \A i, j \in MirrorsIn(chain, d) : i < j => Len(chain[i].at) < Len(chain[j].at)
Gapless(chain, d) ==
  \A j \in MirrorsIn(chain, d) : \A l \in 1..Len(chain[j].at) :
    \E i \in MirrorsIn(chain, d) : i <= j /\ chain[i].at = SubSeq(chain[j].at, 1, l)

=============================================================================
