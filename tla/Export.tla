------------------------------- MODULE Export -------------------------------
(***************************************************************************)
(* Publishing one monorepo path to a destination repository                *)
(* (src/src/engine.rs export, src/src/reconcile.rs do_export): every new   *)
(* monorepo commit that changes what ships is replayed onto the tip of the *)
(* destination's branch, the result is forced onto the branch              *)
(* capyfun/export-<name>, and a pull request is opened; people merge it,   *)
(* in a way of their own, and commit to the destination themselves.        *)
(*                                                                         *)
(* As in Engine.tla a commit is identified with its first-parent history,  *)
(* the empty sequence standing for "no commit".                            *)
(***************************************************************************)
EXTENDS Integers, Sequences, FiniteSets, SequencesExt

CONSTANTS
  Content,    \* states of the exported path in the monorepo
  Absent,     \* the path does not exist
  Ship,       \* what a state ships as, once scrubbed and rid of metadata
  MergeModes, \* how people merge: some of "rebase", "squash", "merge"
  MaxMono,    \* bound: commits of the monorepo branch
  MaxEdits,   \* bound: changes made to the monorepo branch
  MaxForeign, \* bound: commits people make on the destination
  MaxFaults   \* bound: failed fetches, pushes and pull requests, and closed ones

ASSUME ExportAssumption ==
  /\ Absent \notin Content
  /\ DOMAIN Ship = Content
  /\ MergeModes \subseteq {"rebase", "squash", "merge"}
  /\ MaxMono \in Nat /\ MaxEdits \in Nat /\ MaxForeign \in Nat /\ MaxFaults \in Nat

VARIABLES
  mono,   \* the monorepo branch, as far as the exported path goes
  dest,   \* the destination's branch
  branch, \* capyfun/export-<name> in the destination repository
  pr,     \* a pull request of `branch` is open
  plan,   \* the head an export under way has computed, <<>> when none is
  edits, foreign, faults

vars == <<mono, dest, branch, pr, plan, edits, foreign, faults>>

\* `tip` marks the commits of an import's tip layer, which the next import drops.
MonoCommit == [content : Content \cup {Absent}, tip : BOOLEAN]
Tree == Range(Ship)
\* `at` is the CapyFun-Export trailer: a monorepo commit, or <<>> for none.
DestCommit == [tree : Tree, at : Seq(MonoCommit)]

TypeOK ==
  /\ mono \in Seq(MonoCommit)
  /\ dest \in Seq(DestCommit) /\ branch \in Seq(DestCommit) /\ plan \in Seq(DestCommit)
  /\ pr \in BOOLEAN
  /\ edits \in 0..MaxEdits /\ foreign \in 0..MaxForeign /\ faults \in 0..MaxFaults

Init ==
  /\ mono = <<>> /\ dest = <<>> /\ branch = <<>> /\ plan = <<>>
  /\ pr = FALSE
  /\ edits = 0 /\ foreign = 0 /\ faults = 0

-----------------------------------------------------------------------------
(* engine.rs *)

\* The newest trailer along the destination's chain.
Trailered(chain) == {i \in DOMAIN chain : chain[i].at # <<>>}
\* Faulty variant: the oldest trailer.
FirstExported(chain) ==
  IF Trailered(chain) = {} THEN <<>> ELSE chain[Min(Trailered(chain))].at
LastExported(chain) ==
  IF Trailered(chain) = {} THEN <<>> ELSE chain[Max(Trailered(chain))].at

OnChain(stop, tip) == IsPrefix(stop, tip)

\* Faulty variant: loses the first commit after the last exported one.
DeltaPastChild(tip, stop) ==
  [k \in 1..(Len(tip) - Len(stop) - 1) |-> SubSeq(tip, 1, Len(stop) + k + 1)]
FirstParentDelta(tip, stop) ==
  [k \in 1..(Len(tip) - Len(stop)) |-> SubSeq(tip, 1, Len(stop) + k)]

\* Faulty variant: a path that does not exist ships as an empty tree.
ReplayMissing(head, m) ==
  LET shipped == IF Last(m).content = Absent THEN Absent ELSE Ship[Last(m).content]
  IN IF head # <<>> /\ Last(head).tree = shipped THEN head
     ELSE Append(head, [tree |-> shipped, at |-> m])
\* One monorepo commit onto the head the ones before it left: nothing where the
\* path does not exist, or ships as what is there.
Replay(head, m) ==
  IF Last(m).content = Absent THEN head
  ELSE LET shipped == Ship[Last(m).content]
       IN IF head # <<>> /\ Last(head).tree = shipped THEN head
          ELSE Append(head, [tree |-> shipped, at |-> m])

CanExport == mono # <<>> /\ OnChain(LastExported(dest), mono)
Exported == FoldLeft(Replay, dest, FirstParentDelta(mono, LastExported(dest)))

-----------------------------------------------------------------------------
(* The monorepo branch, whose imports Engine.tla models. *)

Edit(to) ==
  /\ edits < MaxEdits /\ Len(to) <= MaxMono /\ to # mono
  /\ mono' = to
  /\ edits' = edits + 1
  /\ UNCHANGED <<dest, branch, pr, plan, foreign, faults>>

\* A commit of a developer, or a mirror commit of any import but one into the path.
Commit(c) == Edit(Append(mono, [content |-> c, tip |-> FALSE]))

\* Faulty variant: takes the newest commit for a tip commit, whatever it is.
StripLast(chain) == IF chain = <<>> THEN chain ELSE Front(chain)
StripTipLayer(chain) ==
  SubSeq(chain, 1, Len(chain) - Cardinality({i \in DOMAIN chain :
    \A k \in i..Len(chain) : chain[k].tip}))

\* An import into the path: its old tip layer goes, mirror commits and the new tip
\* layer, each of them possibly none, come.
Import(mirror, layer) ==
  Edit(StripTipLayer(mono) \o [i \in DOMAIN mirror |-> [content |-> mirror[i], tip |-> FALSE]]
                           \o [i \in DOMAIN layer |-> [content |-> layer[i], tip |-> TRUE]])

-----------------------------------------------------------------------------
(* do_export: read both tips and compute; then push and open a pull request.  *)
(* An export with nothing to ship, or refused because what it shipped last is *)
(* no longer on the monorepo branch, changes nothing: no step.                *)

Project ==
  /\ plan = <<>>
  /\ CanExport /\ Exported # dest
  /\ plan' = Exported
  /\ UNCHANGED <<mono, dest, branch, pr, edits, foreign, faults>>

\* A fetch that fails is taken for a destination without the branch: everything
\* ships, whatever is there, and even when it is there.
FromScratch == FoldLeft(Replay, <<>>, FirstParentDelta(mono, <<>>))
ProjectBlind ==
  /\ plan = <<>> /\ dest # <<>> /\ faults < MaxFaults
  /\ FromScratch # <<>>
  /\ plan' = FromScratch
  /\ faults' = faults + 1
  /\ UNCHANGED <<mono, dest, branch, pr, edits, foreign>>

\* Faulty variant: the push is not forced, and a rejected one ends the export.
PushUnforced == /\ branch' = IF IsPrefix(branch, plan) THEN plan ELSE branch
                /\ plan' = <<>>
\* push_branch: the destination's branch is overwritten.
Push == branch' = plan /\ plan' = <<>>

\* With a pull request open already `gh pr create` fails, but it shows the push;
\* one that brings nothing is not opened.
Publish ==
  /\ plan # <<>>
  /\ Push
  /\ pr' = (pr \/ ~IsPrefix(plan, dest))
  /\ UNCHANGED <<mono, dest, edits, foreign, faults>>

\* The push succeeds and `gh` does not, or does not get to run.
PushOnly ==
  /\ plan # <<>> /\ faults < MaxFaults
  /\ Push
  /\ faults' = faults + 1
  /\ UNCHANGED <<mono, dest, pr, edits, foreign>>

Abort ==
  /\ plan # <<>> /\ faults < MaxFaults
  /\ plan' = <<>>
  /\ faults' = faults + 1
  /\ UNCHANGED <<mono, dest, branch, pr, edits, foreign>>

-----------------------------------------------------------------------------
(* The destination's side, outside the program. *)

\* Faulty variant: the trailer read from a message is the topmost.
TopTrailer(commits) == commits[1].at
\* trailer_value reads a message, here the messages of all commits of a squashed
\* pull request one below the other, from the bottom.
TrailerValue(commits) == Last(commits).at

New == SubSeq(branch, Len(dest) + 1, Len(branch))
Merged(mode) ==
  CASE mode = "rebase" -> branch
    [] mode = "squash" -> Append(dest, [tree |-> Last(branch).tree, at |-> TrailerValue(New)])
    [] mode = "merge"  -> Append(dest, [tree |-> Last(branch).tree, at |-> <<>>])

\* Pull requests are merged while they are up to date with their base; where there
\* is no base yet, the branch itself becomes it.
Merge(mode) ==
  /\ pr /\ IsPrefix(dest, branch) /\ branch # dest
  /\ dest = <<>> => mode = "rebase"
  /\ dest' = Merged(mode)
  /\ pr' = FALSE
  /\ UNCHANGED <<mono, branch, plan, edits, foreign, faults>>

Close ==
  /\ pr /\ faults < MaxFaults
  /\ pr' = FALSE
  /\ faults' = faults + 1
  /\ UNCHANGED <<mono, dest, branch, plan, edits, foreign>>

ForeignCommit(t) ==
  /\ foreign < MaxForeign
  /\ dest # <<>> => t # Last(dest).tree
  /\ dest' = Append(dest, [tree |-> t, at |-> <<>>])
  /\ foreign' = foreign + 1
  /\ UNCHANGED <<mono, branch, pr, plan, edits, faults>>

Next ==
  \/ \E c \in Content \cup {Absent} : Commit(c)
  \/ \E mirror, layer \in {<<>>} \cup {<<c>> : c \in Content} : Import(mirror, layer)
  \/ Project \/ ProjectBlind \/ Publish \/ PushOnly \/ Abort
  \/ \E mode \in MergeModes : Merge(mode)
  \/ Close
  \/ \E t \in Tree : ForeignCommit(t)

(***************************************************************************)
(* `capyfun reconcile` is run again and again, and people do merge.        *)
(***************************************************************************)
Spec == Init /\ [][Next]_vars
FairSpec == /\ Spec
            /\ WF_vars(Project) /\ WF_vars(Publish)
            /\ WF_vars(\E mode \in MergeModes : Merge(mode))

-----------------------------------------------------------------------------
(* Properties. *)

\* The commit map of the destination is true, in order and without repeats: a
\* commit that names a monorepo commit has the tree that one ships as, and of two
\* such commits the later names a descendant, whichever way pull requests were
\* merged, closed or overwritten in between.
ShippedOnce ==
  /\ \A i \in Trailered(dest) : dest[i].tree = Ship[Last(dest[i].at).content]
  /\ \A i, j \in Trailered(dest) :
       i < j => dest[i].at # dest[j].at /\ IsPrefix(dest[i].at, dest[j].at)

\* "already up to date" is no lie: when an export finds nothing to do and people
\* did not commit to the destination last, it shows the path's newest state.
Present == {i \in DOMAIN mono : mono[i].content # Absent}
Current == Present # {} => dest # <<>> /\ Last(dest).tree = Ship[mono[Max(Present)].content]
UpToDateIsTrue ==
  CanExport /\ Exported = dest /\ (dest # <<>> => Last(dest).at # <<>>) => Current

\* An export is only ever refused because the commit it shipped last belonged to a
\* tip layer that an import has rewritten since: merging in any mode, developers'
\* commits and other imports never get it stuck.
StuckOnlyByTipRewrite ==
  mono # <<>> /\ ~CanExport => Last(LastExported(dest)).tip

\* No commit that a merged pull request brought to the destination is part of the
\* delta of an export after it (engine.rs export, "every monorepo commit newer than the
\* last-exported one"), be it the pull request of the newest export or of one before
\* the last merge, and whichever of its commits a squash has left of it.
MergedLeavesDelta ==
  [][\A mode \in MergeModes : Merge(mode) /\ CanExport' =>
       \A i \in DOMAIN New :
         New[i].at \notin Range(FirstParentDelta(mono, LastExported(dest')))]_vars

\* What an export right after a merge puts on top of the destination is nothing that
\* the merge has just brought (examples/export/README.md: "after a merge, only the
\* delta ships").  Violated by merge commits: of a pull request of two commits or more,
\* all that do not ship as what is there are replayed again.
Ships == SubSeq(Exported, Len(dest) + 1, Len(Exported))
OnlyDeltaShips ==
  [][\A mode \in MergeModes : Merge(mode) /\ CanExport' =>
       \A i \in DOMAIN New, k \in DOMAIN Ships' : Ships'[k].at # New[i].at]_vars

\* Once nobody edits, commits to the destination or fails any more, the destination
\* comes to show the path's newest state, with the same branch forced over and
\* over, unless the export is refused or people have the last word.
Quiet == edits = MaxEdits /\ faults = MaxFaults /\ foreign = MaxForeign
Converges ==
  Quiet ~> \/ Current
           \/ ~CanExport
           \/ dest # <<>> /\ Last(dest).at = <<>> /\ Exported = dest
=============================================================================
