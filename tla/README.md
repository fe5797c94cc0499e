# CapyFun: formal specifications

CapyFun moves code between repositories: it imports upstream histories into a
monorepo branch, keeps local patches and agents' edits on top of them, vendors
pinned snapshots, and exports monorepo paths as pull requests. A server reacts to
GitHub events by reconciling the targets concerned. This directory holds TLA+
models of that, TLC runs over small instances, and theorems checked by TLAPS.

    tlc -workers 2 -config MCMonorepo.cfg MCMonorepo
    tlapm Monorepo_proofs.tla

`PROJECT.json` lists the runs, which source lines each definition stands for, a
faulty variant for every property checked, the hazards and the theorems.

## The system

| Component | Source | State it keeps | Operations |
|---|---|---|---|
| Import engine | `src/engine.rs` | none: computes commits from commits; all memory is in commit trailers (`CapyFun-Import`, `-Origin`, `-Vendor`, `-Patch`, `-Agent`) | `import`, `vendor_snapshot`, `last_imported_origin`, `last_vendored`, `first_parent_delta`, `strip_tip_layer`, `apply_tip_layer`, `fetch_commit` |
| Reconciler | `src/reconcile.rs` | the monorepo's refs: the branch, `refs/capyfun/fetch_head`, `refs/capyfun/export_push_head` | `reconcile_label`, `do_import`, `do_vendor`, `do_export` |
| Export | `engine.rs` `export`, `push_branch`; `reconcile.rs` `do_export`, `open_pr` | trailers (`CapyFun-Export`) on the destination's branch, the branch `capyfun/export-<name>`, a pull request | project, push, open a pull request |
| Server | `src/server.rs` | reconcile mutex, dedup cache, index | `poll_once`, `handle_webhook`, `ReconcileActor::act`, `ReactionService::handle` |
| Reactions | `src/react.rs`, `src/forge.rs` | branch `capyfun/issue-<n>` and its pull request | `match_issue`, `run_reaction`, `ReactionService::handle`, `capyfun react` |
| Agents | `engine.rs` cache, `engine/agent_exec.rs`, `agent.rs` | content-addressed cache under `.git` | `materialize_agent_patch`, runners, verify and retry |
| Remote execution | `src/remote/` | action cache and CAS of a remote service | upload, execute, download |
| Status | `src/status.rs` | none of its own | `status_all` |
| Configuration | `config.rs`, `ir.rs`, `validate.rs`, `transform.rs` | none; the server keeps what it loaded when it started | `evaluate`, `compile`, the look-ups of `resolve_agent_invocation` |
| Trees | `engine.rs` `splice_tree`, markers, and from line 1215 | none | splice, keep metadata, move, copy, replace, rename and restore package markers |
| Pin generators | `vendorgen.rs`, `cargo.rs`, `gomod.rs`, `npm.rs` | none | lock file to declarations |
| Command line | `main.rs` | none | one subcommand per operation above |

How they interact: an event (GH Archive hour or webhook) is matched against the
index and becomes a set of labels; `act` takes the mutex and calls the reconciler
for each label; the reconciler reads the branch, fetches the upstream through one
shared temporary ref, lets the engine compute a new head and forces the branch to
it. `capyfun reconcile`, `import`, `vendor`, `export` and `status` are processes of
their own that do the same on the same repository, without the mutex. Export reads
the branch and works on a destination that people change as well. An issue event goes
to the reactions that match it, one after the other: clone, agent, push, pull request.
What all of this runs on is declared in SRC files that lie in the very tree that
imports write into.

What is hard about it:

* the branch is read early and forced late, and fetches share one ref: two
  reconciles, or a reconcile and a status, may interleave, and either may crash;
* all targets share one branch whose commits hold full trees, and a tip layer is
  popped off and put back at every import, whatever came to lie on top of it;
* what was done is known from commit messages only, which upstreams, developers
  and a forge's merge button also write;
* upstreams are force-pushed, people edit declarations, merge pull requests in
  three ways, close them, and commit to destinations;
* events are lost, late, repeated and swapped; fetches, pushes and `gh` fail;
* agents are not deterministic, their results are cached twice, and the local cache's
  files are written in place by whoever runs in the repository;
* several runs draft for one issue, from what the default branch was when they
  cloned, while people commit to the branch, merge it, close or delete it;
* upstreams may have SRC files and patches of their own, destinations lie next to,
  above and in packages, and the overlap check only sees paths.

What makes each component correct:

* engine: the mirror of a destination is its upstream's history, whole and in
  order; a reconcile takes off only its own tip layer, changes only its own
  destination, and is idempotent;
* reconciler: reconciles are as good as serial, no one undoes another's, each gets
  a tip of its own upstream, what was asked for gets done;
* export: what ships is true, ships once, in order, and everything does;
* ingress: every archive hour is scanned, a redelivery does not run twice within
  the cache's capacity, every push arrives;
* agents: what is taken for an agent's edits is what that agent can make of those
  files for that prompt, whichever cache or machine it comes from; a verified run is
  verified; every run ends;
* reactions: nothing people review is disturbed or overwritten, nothing is merged by
  CapyFun, a branch gets its pull request, an issue its prototype;
* trees and configuration: a destination holds just what was put into it and people's
  package files, only people's rules count, targets that compile together do not
  depend on each other's order, and what compiles is found when it is needed.

## Modules

| Module | Models |
|---|---|
| `Engine` | what one reconcile computes; operators, no state |
| `MirrorMap` | abstract: per destination, the mirrored history follows the upstream |
| `Monorepo` | one branch, many targets, a reconcile in one step; implements `MirrorMap` |
| `SerialBranch` | abstract: whole reconciles one after the other |
| `Reconciler` | the same reconciles taken apart, threads, processes, crashes; implements `SerialBranch` |
| `Export` | an export in two steps against a destination |
| `Ingress` | poll loop, webhook thread, dedup cache, index |
| `Agents` | the agent cache, the runners with verify and retry, the remote executor |
| `Reaction` | issue deliveries, runs of reactions, people and the forge |
| `Trees` | trees, transforms, package markers, reserved entries; operators, no state |
| `Config` | discovery of packages, `compile` with all its checks, look-ups; operators, no state |
| `Layout` | the branch's tree, in which people declare what is put where; composes `Trees` and `Config` |
| `Engine_proofs`, `Monorepo_proofs`, `Reconciler_proofs`, `Export_proofs`, `Ingress_proofs`, `Agents_proofs`, `Reaction_proofs`, `Layout_proofs` | theorems; those about `Trees` are in `Layout_proofs` |
| `MC*` | instances for TLC |

`Monorepo` and `Reconciler` extend `Engine`; `Reconciler` leaves out what `Monorepo`
varies (declarations, developers' commits), `Monorepo` what `Reconciler` varies.
`Ingress` and `Export` stand alone: in `Ingress` a reconcile is one step, as
`Reconciler` justifies for a server that has its repository to itself. `Agents` takes
apart what in `Engine` is the label of an agent's edit. `Reaction` begins where `Ingress`
hands a delivery over. `Config` extends `Trees` and `Layout` extends `Config`: where
`Monorepo` has histories and a label for a tree, `Layout` has trees and a history that
only grows; together they are an import.

### Representation

A Git object id covers the first-parent history below it, so a commit *is* that
history: an upstream commit is a sequence of changes, the branch a sequence of
commits, and equal OIDs are equal sequences. A commit record has its kind, the
destination its trailer names, the trailer's value and the full tree, which maps
each destination to the upstream tree it came from and the edits made to it since.
A patch is a label that applies unless it is there already or conflicts with the
newest upstream change; an agent's edit is a label, and an agent that edits nothing
is one left out of the declared layer. `Tainted` changes are upstream commits whose
own message has a `CapyFun-Patch:` line.

`Engine` mirrors the source function by function under the source's names. Its
assumptions are that destinations are distinct and that patches and agents do not
share labels.

`Monorepo`'s actions are the upstream's (`UpstreamPush`, `UpstreamRewrite`), the
user's (`EditDeclaration`), a developer's (`LocalCommit`) and `Reconcile`, which is
`do_import` or `do_vendor`. A reconcile that fails moves no ref and is no step.

`Reconciler` follows `do_import` statement by statement: `ReadTip` (the branch),
`FetchBranch`/`Resolve`/`Forget` (the three accesses `fetch_commit` makes to
`refs/capyfun/fetch_head`), `Write` (compute, compare and force) or `Refuse`.
`FetchPin` is the fetch of a commit id, which uses no ref. A process has a set of
targets to go through; `Acquire` and `Done` take and release the mutex. `Compare` is
`status`, which fetches only for an import that is behind. A thread goes through its
sorted labels, any order of targets; the command line does imports first. In `OpenFails`
the repository does not open under the mutex, and the batch is dropped. `Crash`
ends a process at any point; its locals are gone and the refs stay.

`Export` splits `do_export` where another actor can get in between: `Project` reads
both tips and computes; `Publish`, `PushOnly` and `Abort` are the push and `gh`
succeeding, failing after the push, and failing. `ProjectBlind` is a fetch of the
destination that fails and is taken for an empty destination. The monorepo branch is
reduced to the state of the exported path and whether a commit belongs to a tip
layer; `Import` rewrites the layer as `Engine` does. `Ship` stands for the transforms
and `strip_capyfun_metadata_for_export`: several states may ship as one tree. Pull
requests are merged by rebase (the commits themselves), squash (one commit with all
messages, of which `trailer_value` reads the last line) or a merge commit (no
trailer), and only while they are up to date with their base.

`Ingress` counts time in ticks. A cycle takes at most `MaxScan` ticks, at its end the
hour's matches are reconciled in one batch and the thread sleeps for `Interval`. An
event is in the archive hour it happened in. A delivery is accepted unless its id
is in the cache, is remembered first and routed after.

`Agents` follows one `materialize_agent_patch` per process. `Begin` computes the key
and decides between a hit (`Read`) and a run; a run here is `Run` and, under a
`VerifyingRunner`, `Verify`, which sends the agent back into the same directory; a run
there is one action per call of `run_in_place` (`Lookup`, `FindMissing`, `Upload`,
`Execute`, `FetchTree`, `FetchFiles`). `Create` and `Write` are the two halves of
`std::fs::write`, between which other processes read or write the file and `Stop` may
leave it. A tree is what is in its files. A patch is stored as the tree it leads to,
which the key, holding the tree it starts from, makes the same thing; an empty one and
a garbled one are told apart. `Outcome` gives for each action what an agent may make
of the files in any attempt, feedback included: agents are not deterministic. The
remote store runs an action if its blobs are there, may lose its answer, and forgets.
`torn` is a history variable: the keys whose entry a process was stopped at half
written, or which another process read or opened meanwhile.

`Reaction` has one repository. A ref is the set of the commits it holds since the
beginning, so that Git's fast-forward rule is set inclusion. `Receive` is a delivery
taken by the HTTP thread (dedup, match), `Invoke` a `capyfun react`; then a process goes
through the matching reactions in the Ir's order, each in three steps between which
everybody else may act: `Clone`, `Push` (agent, commit, push; a rejected push ends the
run) and `OpenPr`. `NoEdit` is an agent that leaves the checkout clean, `Error` any call
that fails, `Crash` a killed process, after which the server forgets `seen` and what
waited. The actions of people are commits to either branch, merging a pull request with
a merge commit or as a squash, closing it and deleting the branch. Three history
variables are there for the properties: `events`, the runs that `failed`, and the
branches left without a pull request (`orphan`).

`Trees` has a path as the sequence of its components and a tree as a function from the
paths of its files to contents, directories being the prefixes; an entry of a tree is a
tree again. Each transform gives the set of its results, empty when it fails. Whether a
glob matches is the constant `Glob`; a text is the set of its words. `Config` reads a SRC
file as the set of its rules and has one operator for the checks each kind of rule gets
in `compile`, and one for each check across rules; `Compile` is their conjunction. In
`Layout` people write and withdraw SRC files and patches, upstreams commit, `Load`
evaluates the tree (a configuration with a diagnostic is as none), and a target of the
loaded, perhaps stale declarations is imported (`ImportMirror`, all new commits one by
one) or vendored (`VendorSnapshot`). `at` is what `last_imported_origin` and
`last_vendored` find, by kind and destination. `written` and `landed` are history: what
people wrote, and what was put where last, less what people withdrew from it since.

`rename_src_markers` rebuilds a directory entry by entry, so that of a `SRC` and an
`ORIG_SRC` beside it the one inserted last is left. Git sorts `ORIG_SRC` first:
`RenameSrcMarkers` has the renamed `SRC` win, and all of the `ORIG_SRC` there was, with
whatever markers are below it, is lost.

## Runs

| Run | Shows |
|---|---|
| `monorepo` | `OrderedMirror`, `OnlyOwnTipDropped`, `OthersUntouched`, `NewUpstreamMaterializes`, `StableUnlessBuried` and the refinement of `MirrorMap` |
| `reconcile_server` | two threads, crashes, failed fetches and openings: `TipIsCurrent`, `OriginIsFresh`, `MirrorsSurvive`, the refinement of `SerialBranch`, `Converges` |
| `reconcile_open` | a thread, a `reconcile` and a `status` at once: mirrors stay whole |
| `reconcile_cli` | violated: a `capyfun reconcile` beside the server loses mirror commits |
| `status_race` | violated: a `capyfun status` beside the server swaps the tip a reconcile fetched |
| `export` | `ShippedOnce`, `UpToDateIsTrue`, `StuckOnlyByTipRewrite`, `MergedLeavesDelta`, `Converges` |
| `export_merge` | violated: after a merge commit, only the delta ships (`OnlyDeltaShips`) |
| `ingress` | `EveryHourScanned`, `RedeliveryWindow`, `PushesArrive` |
| `agents` | `ResultsAreRuns`, `VerifiedWhenRun`, `InputsUploaded`, `RunsEnd` |
| `agents_torn` | violated: a replayed patch without changes is of an agent that made none |
| `reaction` | `MergedByPeople`, `BranchHasPr`, `BranchesKept`, `ReviewUndisturbed`, `Prototyped` |
| `layout` | `LandsWhole`, `MetadataIsPeoples`, `Confluent`, `AcceptedResolves` |

Bounds, and what they still allow:

* `monorepo`: two destinations, upstreams of two changes, a branch of six commits,
  one developer's commit. Enough for a tip layer of two commits to be buried by the
  other target or the developer and imported again, for a force-push to a history of
  equal length, for an import to become a vendor and back, and for a tainted commit
  on top of the mirror.
* `reconcile_*`: three targets (`reconcile_server`) or two, each upstream has two
  tips, two jobs, one crash, failed fetch or failed opening (none where a race alone must
  show).
  Two jobs are two processes in each other's way, or one after the other's crash. A
  patch on `d1` makes strips and re-applications real; `d2`'s upstream is rewritten,
  so that reconciles are refused too.
* `export`: three monorepo commits, three edits, one foreign commit, one fault; two
  of the three states of the path ship as the same tree. `export_merge`: the same without
  a foreign commit, and three states that ship as three trees, so that what ships again
  can be seen.
* `ingress`: an hour of three ticks, four hours, three events, a cache of two with
  four deliveries, so that keys are evicted and delivered again; one fault.
* `agents`: one tree, an agent that always edits it, well or badly, and one that
  leaves it as it is; one process runs the first under a verifier with one retry or
  remotely, the other remotely or the second one here. Any number of imports, stops,
  refreshes and evictions. That is two writers of one entry, a retry, an execution
  two clients ask for and two agents on one tree and prompt; the cases are per key
  and per action, so that more trees add nothing.

* `reaction`: one issue, as branches of different issues do not meet; two reactions,
  one for new issues and one for a label, so that a labelled new issue runs both and a
  label added later the second one again; two events, which the server and one
  `capyfun react` take in any order; two commits before people stop, one failure, crash
  or redelivery. That is a reviewer's commit under a run that began before it, a merge
  between a push and the next clone, a deletion between push and pull request.
* `layout`: one repository whose history takes three trees (markers at the top, deeper,
  in a directory called SRC and below an `ORIG_SRC`; patches; files a transform moves or
  rewords) and one that is pinned, two kinds of targets declared side by side, in each
  other's way (refused) and moved by an edit; a patch file where files are kept and one
  where a destination may need a directory; three upstream commits and three edits. Two
  targets and a stale `Load` are what an overlap takes.

No run uses symmetry: the destinations and threads differ in what they are given.
`layout` checks deadlock, since `Load` is always possible. Every other run may stop, its
jobs, edits or hours being bounded, and deadlock is not checked; that the mutex is
released is part of `Converges`.

### Findings

* **`reconcile_cli`**: `per-target-refs.md` says of both writers that "a mutex
  serializes concurrent writers"; it only serializes the server's threads. The ref
  update is forced (`reconcile.rs:221`), so that the later writer wins.
* **`status_race`**: `status` calls `fetch_commit`, which forces and deletes a ref all
  fetches of the repository share (`engine.rs:353`). It is not read-only, and the
  reconcile it races imports another upstream's history into its destination.
* **`export_merge`**: a merge commit hides the trailers from a first-parent walk
  (`engine.rs:498`), so that the next delta starts before the merged pull request again.
  An export skips a commit that ships as the tree already there (`engine.rs:569`): a pull
  request whose one change is there does nothing, but of one that changed the path more
  than once, or that left out an older state, all is shipped again from the first state
  that differs from what is there. The destination shows those older states until the
  pull request's last commit.
* **`agents_torn`**: a cache entry is created empty and written afterwards. Whoever reads
  it in between, or after the writer was killed there, replays "no changes" and leaves
  the agent's commit out, until a `--refresh`. Writing a temporary file and renaming it
  would do. `ResultsAreRuns` excepts such entries, and holds for all others.

Two more limits of the code are in the assumptions of what holds:

* `StableUnlessBuried` has a proviso: a tip layer that another commit lies on is not
  stripped, so that importing again fails on a patch or repeats an agent's commit.
  `import`'s comment (`engine.rs:1068`) promises the same tip without it; the one of
  `strip_tip_layer` calls buried layers out of scope. It holds of a layer that is on top
  and was when it was made (`synced`): one that was made while an older layer of its
  destination was buried, and came to the top because what covered it was stripped, need
  not come out the same, since now the older one may be stripped as well.
* `EveryHourScanned` needs `Interval + MaxScan <= HourLength`. `serve` pauses after a
  cycle, so that with the default interval of an hour (`main.rs:150`) cycles drift past an
  archive hour now and then.

And these are what the exceptions in the properties of `Layout` are for:

* a destination that moves away leaves its content behind, and one that comes back, or
  changes kind, is "up to date" until upstream moves;
* an import replaces a directory as a whole: files people keep in it are gone with the
  next commit, except below its own `SRC` and `patches` (a package nested deeper is not
  kept), and so is a file that stands where a directory above the destination has to be;
* an upstream's own top-level directory `patches` or `SRC` is imported once and then
  carried over for ever; its `ORIG_SRC` is exported as `SRC`, or lost beside one, a
  directory of that name with all that is in it;
* markers are renamed before transforms run: a `move` or `copy` of a file to the name `SRC`
  makes a package of what upstream has in it (`DeclarationsArePeoples` assumes that nobody
  declares a move or copy to that name);
* a `move` of a directory into itself, or onto its parent, deletes what it moves, as
  `MoveOrCopy` has it; a transform whose source an old commit lacks fails the import.

## Fairness

* `Reconciler.FairSpec`: a process that can take a step does. It is weak fairness of
  `Step(p)`, written with the condition under which `Step(p)` is enabled (`CanStep`)
  in place of ENABLED. Fetches end because the network calls return or fail;
  the mutex is free again and again and jobs are finite. No fairness for upstreams,
  crashes or new jobs.
* `Export.FairSpec`: `reconcile` is run again and again and finishes, and people merge
  what they are offered. Nobody need edit, close or commit.
* `Ingress.FairSpec`: time passes and the main thread runs. No webhook need arrive.
* `Agents.FairSpec`: weak fairness of each process's steps: harnesses, verifiers and
  calls end. The code has no timeout of its own for any of them, so this is an
  assumption about the programs it runs. Nobody need import, stop or evict.
* `Reaction.FairSpec`: the server takes what waits, one delivery after the other in some
  order, and clones, agents and calls end in one way or the other (no timeout of its own
  here either). People and `capyfun react` need do nothing.
* `Layout` has no liveness and no fairness.

## Theorems

All are proved for every value of the constants, from the modules' named
assumptions.

* `Monorepo`: `TypeCorrect`; `MirrorsStayOrdered` (`OrderedMirror`);
  `ImplementsMirrorMap`; `OwnTipOnly` (`OnlyOwnTipDropped`). `OrderedMirror` together
  with the type invariant is inductive. The work is in `Engine_proofs`: what an import
  leaves is a prefix of the branch followed by the delta past the last trailer left in
  that prefix and by tip commits without mirrors (`ImportShape`); prefixes keep the
  order and have no gaps (`ImportKeepsOrder`); the last trailer is the fetched tip
  afterwards, and what was stripped was tainted (`ImportCatchesUp`). `OthersStay`
  (`OthersUntouched`) and `NewUpstreamLands` (`NewUpstreamMaterializes`) are about what
  the trees hold: a commit carries the whole tree, so that a pop of several commits
  could bring back an older state of another destination. `ContentsRun` excludes it: a
  stretch of commits scoped to one destination has the same trees of all others at both
  ends, and a reconcile replaces such a stretch by another (`ReconcileRegrows`).
  `ReimportIsStable` (`StableUnlessBuried`) is about what is not in the last step: it rests
  on `SettledInv`. Of every target reconciled since its last change, the branch has the
  mirror's end, then its whole tip layer as `apply_tip_layer` would write it now, then
  commits of others only, and no tip commit of it further down. Others keep this, stripping
  and regrowing what is theirs; and a strip of a layer on top then finds that very mirror
  end, whose tree is upstream's pristine one (`MirrorsReadable`), so that the same commits
  are written again.
* `Export`: `Maps`, with `TypeOK`, is inductive. It says of the destination, of the pull
  request's branch and of what `Project` planned that their trailers name commits of one
  first-parent history, oldest first and none twice, and that each trailing commit has the
  tree which what it names ships as (`Truthful`); that what a trailer names is on the
  monorepo branch or was of a tip layer, which an import rewrites (`Rooted`); and, of the
  last two, that an export leaves a commit of its own on top (`Tipped`). The heads of an
  export are a fold over the delta (`Heads`, by `ReplayAll`), and each step of it makes a
  history that is true of one commit more (`Grown`). From it follow `ExportTypes`, `MapIsTrue`
  (`ShippedOnce`), `StuckOnlyOverTips` (`StuckOnlyByTipRewrite`) and `UpToDateIsNoLie`
  (`UpToDateIsTrue`) for every way of merging; and, if no pull request is merged with a
  merge commit, `MergedIsBehind` (`MergedLeavesDelta`) and from it `DeltaOnly`
  (`OnlyDeltaShips`), since what an export adds is named by commits of its delta
  (`ShipsDelta`). The run `export_merge` shows that the condition is needed.
* `Reconciler`: `TypeCorrect`, with `Busy` (a process past its start has a target);
  `RacesKeepMirrorsWhole` for any processes, since a tip read is a branch that was
  whole, and what is computed from it is whole (`WholeTips`);
  `MutexPreventsLostUpdates` and `MutexKeepsMirrors` if no command line reconciles,
  along `Locked` (a working thread holds the lock, and its tip is the branch);
  `ServerFetchesItsOwn` and `ServerIsSerial` if there is no status either, along
  `Fetched` (at each of the three steps of a fetch the ref and the local hold what
  they should). The run `status_race` shows that the last condition is needed,
  `reconcile_cli` the first. `MutexKeepsMirrors` also needs `Tainted = {}`: an upstream
  commit that quotes a tip trailer does leave the branch.
* `Ingress`: `TypeCorrect`; `ShortIntervalScansEveryHour` if
  `Interval + MaxScan <= HourLength`, along `InTime` (the clock is at most an hour past
  the last cycle's start, and as many minutes past the hour as have gone by);
  `DedupRemembersCap`, along `Remembers` (the cache is the end of the list of accepted
  deliveries).
* `Agents`: `TypeCorrect`, along `Held` (who reads or writes an entry finds one, who
  makes a patch has content to make it of); `ResultsAreAlwaysRuns`, along `Sound`: an
  entry that is not torn is an outcome for its key or has one process writing it
  (`EntriesReplay`, `OneWriter`), and so is every result in the action cache and in a
  job (`ResultsFit`, `JobsFit`). That a key tells the action (`KeyTells`) is what lets
  a remote result go under a local key. `RunsAreVerified` and `InputsAreUploaded`, along
  `Prepared`: past the verifier the work has passed, and what was reported missing or
  is stored is all an action takes. The last assumes, as the model's `Evict` does, that
  the store keeps what `FindMissingBlobs` did not report until the action was executed.
* `Reaction`: one inductive invariant, `Invariant`, of which `TypeCorrect`, `NeverMerges`
  (`MergedByPeople`) and `NoSilentBranch` (`BranchHasPr`) are parts. It adds that a clone's
  base is part of the trunk, that commits are numbered below `made` (so that a draft is
  new), that an issue's branch holds its own work and the trunk's (`OwnWork`, theorem
  `BranchesApart`), begins with a draft (`Drafted`), and has something left to merge while a
  pull request is open (`OpenHasWork`): that is why a draft from the trunk cannot be a
  fast-forward of a branch under review. From it follow `NothingOverwritten`
  (`BranchesKept`) and `ReviewsUndisturbed` (`ReviewUndisturbed`) step by step.
* `Trees`: `SpliceThere`, `SpliceElsewhere` and `SpliceIsTree` say what `splice_tree` does, for
  any trees on paths; `ReplaysCommute` that two replays into directories apart commute,
  each with the metadata it finds. `MarkersRoundTrip` needs an upstream without
  `ORIG_SRC`; `ImportShipsBack`, the law that an import without transforms is exported
  as what it was, also one without reserved entries at its top but for a package marker.
  A path is a sequence of strings, of which nothing but equality is used.
* `Layout`: `LayoutTypes` (`TypeOK`) is inductive by itself. Its core is `Sound`: a tree of
  files on paths, none below another, whose rules are well-formed. Every operation on trees
  keeps it (`EntrySound`, `SpliceSound`, `MoveOrCopySound`, `ReplaceSound`, `RenamedSound`,
  `PreservedSound`), and so do pipelines and imports of many commits, by induction over
  their steps (`PipelineSound`, `ReplayedPuts`). `ReconcilePuts` sums up what one reconcile
  is: one tree, put into one directory, that leaves the rest (`Leaves`) and brings no marker
  (`NoNewMarker`). With that `LandsAsMade` (`LandsWhole`) goes file by file, destinations
  being apart; `TargetsCommute` is `Confluent`, from `ReplaysCommute`; `PeoplesFilesStay`
  (people's files stay where no destination is over or under them) and
  `DeclarationsArePeoples` (`MetadataIsPeoples`) add that every file `SRC` of the branch is
  one that people wrote, given `OffersHide`: no rule that people may write moves or copies
  something to the name `SRC`. The rules of the run `layout` are such. `LookupsResolve`
  is `AcceptedResolves`, as what is loaded has compiled.
  `LayoutAssumption` is about what people and upstreams may have in their trees:
  git's (files on paths, none below another) and the program's types (paths are sequences of
  names, those of a transform not empty). Its part on `Lowered`, that dropping and sorting
  transforms gives transforms of the rule, is evident from `lower_transforms` and true by
  definition, but tlapm knows nothing of `SelectSeq`; TLC evaluates it for all rules of the run.

Induction over data is done with what the provers can instantiate: a set of numbers has a
largest element (`MaxExists`, from well-foundedness of the subsets of an interval), so that
a set with 0 that is closed under + 1 has all numbers up to a bound (`StepByStep`); and the
set-recursive function behind `FoldLeft` exists and takes one step after the other
(`FoldTransforms`, `FoldCommits`, and `Heads` in `Export_proofs`).

Proofs changed the models in four places, each a case in which a property had been false
and the instance too small to show it. `Monorepo`: `synced`, as said above. `Trees`:
`RenameSrcMarkers` with markers below an `ORIG_SRC`, which gave no tree. `Layout`: a file
in the way of a destination counts as buried, and `Withdraw` takes what people delete out
of `landed`. The runs now have these cases but the first, in which two destinations
both come to declare no layer while one's lies on the other's: with that choice `monorepo`
has more states than it can search. A run with one upstream commit and that choice has
found `StableUnlessBuried` violated with the old `synced`, and holding with this one.

Only model-checked: liveness (`Converges` of `Reconciler` and `Export`, `PushesArrive`,
`RunsEnd`, `Prototyped`), as fairness and ENABLED are out of TLAPS's reach here. Every
safety and action property of the passing runs is a theorem, under the conditions named.
No module declares a RECURSIVE operator.

## Not modelled

* Message rewriting and the contents of patches; glob matching, a matter of characters
  (`**/x` also matches `foox`); the overlap check across what different versions of the
  SRC files declare, which the code does not make.
* The evaluation of SRC files and `.scl` libraries, which is Starlark's, and the
  well-formedness of slugs, SHAs and labels; prompt variables. A label is a pair of
  package and name in `Config`, where the code compares the texts `{package}:{name}`: two
  labels that coincide because a name or a directory has a `:` are left out.
* Of reactions: the payload's other fields, the rendering of the prompt, the app's token
  and its expiry; a repository that its owner rewrites or deletes.
* Of agents: the rendering of prompts; symlinks and submodules (a link's entry kind is
  Blob, so that `checkout_tree_to_dir` writes it as a regular file, which it then comes
  back as); fixture scripts, which go by the agent's label where the cache key has
  harness, provider and model, so that two agents of one model share entries; batch sizes
  of remote calls. A harness that ends with an error, here or there, is a `Stop`, and a
  remote result that must not be cached does not occur, as the only caller
  (`agent_exec.rs:218`) never asks for one. Two limits of the code show in the properties: a
  verifying import may replay a patch made without a verifier (`VerifiedWhenRun` excepts
  hits), and `--refresh` with a remote executor still takes the action cache's result.
* `do_export` in the middle of `capyfun reconcile` (it fetches through the same ref
  and reads the branch), and several exports at once.
* HMAC and payload parsing; the civil calendar; response times (one thread serves all
  requests, so that an agent run holds up `/healthz`); what `status` prints, which for an
  export may be "behind by 0".
* An upstream message with a forged `CapyFun-Vendor` or `CapyFun-Export` line.
* Pull requests merged by a three-way merge while out of date with their base; a
  rebase by the forge that gives the commits new ids.
* Pin generators, credential lookup and the other subcommands are one-shot
  conversions or calls of one function, without state to go wrong.

## Plan

In this order; done are 1 to 8 and 10.

1. `Engine`, `Monorepo` over `MirrorMap`, with theorems.
2. `Reconciler` over `SerialBranch`, with theorems.
3. `Export`.
4. `Ingress`, with theorems.
5. `Reaction`, with theorems.
6. `Agents`: hit, miss, refresh, verify and retry, crash between create and write, with
   theorems.
7. In `Agents` as well: action cache, missing blobs, upload, execute, fetch.
8. `Trees`, `Config` and `Layout` over them, with theorems.
9. `Status` reports against what a reconcile would then do; `utc_parts` against a calendar.
10. Theorems about `Export`, about `StableUnlessBuried`, and about the states of `Layout`.
11. What `ExportedTree` and `ImportShipsBack` say of transforms that are each other's
    inverse, and that the deliveries of `Reaction` take effect once.
