----------------------------- MODULE Reconciler -----------------------------
(***************************************************************************)
(* do_import and do_vendor step by step (src/src/reconcile.rs), run by the *)
(* server's two threads, the poll loop and the webhook handler, one at a   *)
(* time under ReconcileActor's mutex (src/src/server.rs), and by the       *)
(* command line in processes of their own that take no lock: `capyfun      *)
(* reconcile` and the read-only `capyfun status`.  All of them share the   *)
(* monorepo's refs: the branch and the temporary ref fetch_commit fetches  *)
(* a tracked branch into.                                                  *)
(***************************************************************************)
EXTENDS Engine

CONSTANTS
  Thread,    \* threads of the server that call ReconcileActor::act
  Cli,       \* processes that run `capyfun reconcile`
  Status,    \* processes that run `capyfun status`
  target,    \* what is declared for each destination
  Tips,      \* the tips each upstream may have
  None,      \* no process, no destination
  MaxServed, \* bound: tips one upstream has had
  MaxJobs,   \* bound: times a process is given something to do
  MaxFaults  \* bound: failed fetches and openings, and crashes

Process == Thread \cup Cli \cup Status

ASSUME ReconcilerAssumption ==
  /\ target \in [Dest -> Target]
  /\ Tips \in [Dest -> SUBSET (History \ {<<>>})]
  /\ None \notin Process \cup Dest
  /\ Cli \cap Thread = {} /\ Cli \cap Status = {} /\ Thread \cap Status = {}
  /\ MaxServed \in Nat /\ MaxJobs \in Nat /\ MaxFaults \in Nat

VARIABLES
  served,     \* every tip each upstream has had, the current one last
  branch,     \* refs/heads/<default_branch> of the monorepo
  fetch_head, \* refs/capyfun/fetch_head, <<>> when there is none
  lock,       \* ReconcileActor.lock: the thread that holds it or None
  job,        \* what each process is doing
  jobs,       \* how often a process was given something to do
  faults      \* how many fetches and openings failed and processes crashed

vars == <<served, branch, fetch_head, lock, job, jobs, faults>>

(***************************************************************************)
(* A process: where it is, the targets it still has to go through, and the *)
(* locals of the call for the one at hand: `branch_tip`, `origin_tip`, and *)
(* (a history variable) how many tips its upstream had when it began.      *)
(***************************************************************************)
Job == [pc     : {"idle", "waiting", "begin", "fetch", "resolve", "forget", "write"},
        todo   : SUBSET Dest,
        cur    : Dest \cup {None},
        tip    : Seq(Commit),
        origin : History,
        since  : Nat]
Idle == [pc |-> "idle", todo |-> {}, cur |-> None, tip |-> <<>>, origin |-> <<>>, since |-> 0]

TypeOK ==
  /\ served \in [Dest -> Seq(History)] /\ \A d \in Dest : served[d] # <<>>
  /\ branch \in Seq(Commit)
  /\ fetch_head \in History
  /\ lock \in Thread \cup {None}
  /\ job \in [Process -> Job]
  /\ jobs \in Nat /\ faults \in Nat

Init ==
  /\ served \in {s \in [Dest -> {<<h>> : h \in UNION {Tips[d] : d \in Dest}}] :
                   \A d \in Dest : s[d][1] \in Tips[d]}
  /\ branch = <<>>
  /\ fetch_head = <<>>
  /\ lock = None
  /\ job = [p \in Process |-> Idle]
  /\ jobs = 0 /\ faults = 0

Upstream(d) == Last(served[d])
Working(p) == job[p].pc \notin {"idle", "waiting"}

-----------------------------------------------------------------------------
(* Upstreams move, force-pushes included. *)

Publish(d, h) ==
  /\ Len(served[d]) < MaxServed /\ h # Upstream(d)
  /\ served' = [served EXCEPT ![d] = Append(@, h)]
  /\ UNCHANGED <<branch, fetch_head, lock, job, jobs, faults>>

-----------------------------------------------------------------------------
(* Processes get something to do. *)

Start(p, L, pc) ==
  /\ job[p].pc = "idle" /\ jobs < MaxJobs
  /\ job' = [job EXCEPT ![p].pc = pc, ![p].todo = L]
  /\ jobs' = jobs + 1
  /\ UNCHANGED <<served, branch, fetch_head, lock, faults>>

\* An event or an archive hour names the targets L: act is called and waits for
\* the lock.
Trigger(p, L) == p \in Thread /\ L # {} /\ Start(p, L, "waiting")

\* `capyfun reconcile [target]`, `capyfun status [target]`: one target or all.
Invoke(p, L) == p \in Cli \cup Status /\ Start(p, L, "begin")

\* Faulty variant: no mutex.
AcquireAnyway(p) ==
  /\ p \in Thread /\ job[p].pc = "waiting"
  /\ lock' = p
  /\ job' = [job EXCEPT ![p].pc = "begin"]
  /\ UNCHANGED <<served, branch, fetch_head, jobs, faults>>
Acquire(p) ==
  /\ p \in Thread /\ job[p].pc = "waiting" /\ lock = None
  /\ lock' = p
  /\ job' = [job EXCEPT ![p].pc = "begin"]
  /\ UNCHANGED <<served, branch, fetch_head, jobs, faults>>
\* Under the lock the repository does not open: the batch is dropped.
OpenFails(p) ==
  /\ p \in Thread /\ job[p].pc = "waiting" /\ lock = None /\ faults < MaxFaults
  /\ job' = [job EXCEPT ![p] = Idle]
  /\ faults' = faults + 1
  /\ UNCHANGED <<served, branch, fetch_head, lock, jobs>>

-----------------------------------------------------------------------------
(* One target.  Whatever becomes of it, the loop goes on to the next one.   *)

\* Faulty variant: a target that failed ends the batch.
DoneOrAbort(p) == /\ job' = [job EXCEPT ![p] = Idle]
                  /\ lock' = IF lock = p THEN None ELSE lock
\* Faulty variant: the lock is given up after each target of a batch.
DoneUnlocked(p) ==
  /\ job' = [job EXCEPT ![p] = IF job[p].todo = {} THEN Idle
                               ELSE [Idle EXCEPT !.pc = "begin", !.todo = job[p].todo]]
  /\ lock' = IF lock = p THEN None ELSE lock
Done(p) ==
  IF job[p].todo = {}
  THEN /\ job' = [job EXCEPT ![p] = Idle]
       /\ lock' = IF lock = p THEN None ELSE lock
  ELSE /\ job' = [job EXCEPT ![p] = [Idle EXCEPT !.pc = "begin", !.todo = job[p].todo]]
       /\ UNCHANGED lock
Failed(p) == Done(p)

\* The command line goes through all imports before any vendor; a thread through
\* its labels in their order, which can be any.
Turn(p, d) ==
  /\ d \in job[p].todo
  /\ p \notin Thread /\ target[d].kind = "vendor"
     => \A o \in job[p].todo : target[o].kind = "vendor"

ReadTip(p, d) ==
  /\ job[p].pc = "begin" /\ p \notin Status /\ Turn(p, d)
  /\ job' = [job EXCEPT ![p] = [pc |-> "fetch", todo |-> job[p].todo \ {d}, cur |-> d,
                                tip |-> branch, origin |-> <<>>, since |-> Len(served[d])]]
  /\ UNCHANGED <<served, branch, fetch_head, lock, jobs, faults>>

\* import_status fetches only what is behind, vendor_status nothing at all.
Compare(p, d) ==
  /\ job[p].pc = "begin" /\ p \in Status /\ Turn(p, d)
  /\ LET left == job[p].todo \ {d}
         behind == target[d].kind = "import" /\ LastImportedOrigin(branch, d) # Upstream(d)
     IN job' = [job EXCEPT ![p] =
          IF behind THEN [pc |-> "fetch", todo |-> left, cur |-> d, tip |-> branch,
                          origin |-> <<>>, since |-> Len(served[d])]
          ELSE IF left = {} THEN Idle
          ELSE [Idle EXCEPT !.pc = "begin", !.todo = left]]
  /\ UNCHANGED <<served, branch, fetch_head, lock, jobs, faults>>

\* Faulty variant: the fetch does not force the temporary ref.
FetchBranchUnforced(p) ==
  /\ job[p].pc = "fetch" /\ target[job[p].cur].kind = "import"
  /\ fetch_head' = IF fetch_head = <<>> THEN Upstream(job[p].cur) ELSE fetch_head
  /\ job' = [job EXCEPT ![p].pc = "resolve"]
  /\ UNCHANGED <<served, branch, lock, jobs, faults>>
\* fetch_commit of a tracked branch: force the temporary ref to its tip ...
FetchBranch(p) ==
  /\ job[p].pc = "fetch" /\ target[job[p].cur].kind = "import"
  /\ fetch_head' = Upstream(job[p].cur)
  /\ job' = [job EXCEPT ![p].pc = "resolve"]
  /\ UNCHANGED <<served, branch, lock, jobs, faults>>

\* ... read it ...
Resolve(p) ==
  /\ job[p].pc = "resolve" /\ fetch_head # <<>>
  /\ job' = [job EXCEPT ![p].pc = "forget", ![p].origin = fetch_head]
  /\ UNCHANGED <<served, branch, fetch_head, lock, jobs, faults>>
ResolveFails(p) ==
  /\ job[p].pc = "resolve" /\ fetch_head = <<>>
  /\ Failed(p)
  /\ UNCHANGED <<served, branch, fetch_head, jobs, faults>>

\* ... and delete it.  A status has what it came for.
Forget(p) ==
  /\ job[p].pc = "forget"
  /\ fetch_head' = <<>>
  /\ IF p \in Status THEN Done(p)
     ELSE job' = [job EXCEPT ![p].pc = "write"] /\ UNCHANGED lock
  /\ UNCHANGED <<served, branch, jobs, faults>>

\* fetch_commit of a pinned commit: no ref is involved.
FetchPin(p) ==
  /\ job[p].pc = "fetch" /\ target[job[p].cur].kind = "vendor"
  /\ job' = [job EXCEPT ![p].pc = "write", ![p].origin = target[job[p].cur].pin]
  /\ UNCHANGED <<served, branch, fetch_head, lock, jobs, faults>>

FetchFails(p) ==
  /\ job[p].pc = "fetch" /\ faults < MaxFaults
  /\ faults' = faults + 1
  /\ Failed(p)
  /\ UNCHANGED <<served, branch, fetch_head, jobs>>

\* The new head is computed from the tip read at the start, and the branch is
\* forced to it unless it is that tip.
Agrees(p) ==
  LET j == job[p] IN CanReconcile(j.tip, j.cur, target[j.cur], j.origin)
NewHead(p) ==
  LET j == job[p] IN Reconciled(j.tip, j.cur, target[j.cur], j.origin)
Write(p) ==
  /\ job[p].pc = "write" /\ Agrees(p)
  /\ branch' = IF NewHead(p) = job[p].tip THEN branch ELSE NewHead(p)
  /\ Done(p)
  /\ UNCHANGED <<served, fetch_head, jobs, faults>>
Refuse(p) ==
  /\ job[p].pc = "write" /\ ~Agrees(p)
  /\ Failed(p)
  /\ UNCHANGED <<served, branch, fetch_head, jobs, faults>>

-----------------------------------------------------------------------------
(* The server, or one of the commands, is killed: it forgets everything,     *)
(* a mutex included, and leaves the refs as they are.                        *)

Crash(P) ==
  /\ faults < MaxFaults
  /\ \E p \in P : job[p].pc # "idle"
  /\ job' = [p \in Process |-> IF p \in P THEN Idle ELSE job[p]]
  /\ lock' = IF lock \in P THEN None ELSE lock
  /\ faults' = faults + 1
  /\ UNCHANGED <<served, branch, fetch_head, jobs>>

Step(p) ==
  \/ Acquire(p) \/ OpenFails(p)
  \/ \E d \in Dest : ReadTip(p, d) \/ Compare(p, d)
  \/ FetchBranch(p) \/ FetchPin(p) \/ FetchFails(p)
  \/ Resolve(p) \/ ResolveFails(p) \/ Forget(p)
  \/ Write(p) \/ Refuse(p)

Next ==
  \/ \E d \in Dest : \E h \in Tips[d] : Publish(d, h)
  \/ \E p \in Thread, L \in SUBSET Dest : Trigger(p, L)
  \/ \E p \in Cli \cup Status, L \in {{d} : d \in Dest} \cup {Dest} : Invoke(p, L)
  \/ \E p \in Process : Step(p)
  \/ Crash(Thread)
  \/ \E p \in Cli \cup Status : Crash({p})

Spec == Init /\ [][Next]_vars
(***************************************************************************)
(* Every process that can go on does: WF_vars(Step(p)) with the ENABLED    *)
(* spelled out, which TLC takes too long to work out by itself.  The mutex *)
(* is not fair, but jobs are bounded: a thread that waits gets it.         *)
(***************************************************************************)
CanStep(p) == job[p].pc # "idle" /\ (job[p].pc = "waiting" => lock = None)
FairSpec == Spec /\ \A p \in Process : []<>~CanStep(p) \/ []<><<Step(p)>>_vars

-----------------------------------------------------------------------------
(* Properties. *)

Holding(p) == job[p].pc \in {"fetch", "resolve", "forget", "write"}

\* While a reconcile is under way the branch stays where it read it, so forcing
\* the ref at the end overwrites nothing (server.rs: "Git writes are serialized
\* by `lock` so the poll loop and the webhook handler never race").
TipIsCurrent == \A p \in Process \ Status : Holding(p) => job[p].tip = branch

\* What fetch_commit hands out is a tip its own upstream had since the reconcile
\* began, not another target's and not one a crashed process left in the ref.
OriginIsFresh ==
  \A p \in Process :
    LET j == job[p] IN
    j.pc \in {"forget", "write"} /\ target[j.cur].kind = "import"
      => \E k \in j.since..Len(served[j.cur]) : j.origin = served[j.cur][k]

\* A mirror commit that is on the branch never goes missing from it again: no
\* reconcile undoes another one's work (per-target-refs.md: "a mutex serializes
\* concurrent writers").  For upstreams without forged trailers.
MirrorsSurvive ==
  [][\A i \in DOMAIN branch : branch[i].kind = "mirror" =>
       \E k \in DOMAIN branch' : branch'[k] = branch[i]]_branch

\* Whoever races with whom, with or without the mutex, and whichever tip a
\* reconcile was handed: a mirror on the branch never has a repeat, gap or swap.
\* A race loses or misdirects a whole reconcile, never a part of one.
WholeMirrors == \A d \in Dest : Ordered(branch, d) /\ Gapless(branch, d)

\* The steps of the processes add up to whole reconciles one after the other.
SB == INSTANCE SerialBranch
SerialBranchSpec == SB!Spec

\* Once its upstream, crashes and fetch errors have settled, a target a thread
\* has been asked to reconcile ends up mirrored, however the jobs of the two
\* threads interleave and whatever became of other targets of its batch; only an
\* upstream rewritten behind its mirror stays refused, and a tip layer that does
\* not apply (server.rs: "a reconcile that converges the target against the
\* commit map, so missed/duplicate events are harmless").
Settled(d) == /\ faults = MaxFaults
              /\ Len(served[d]) = MaxServed \/ Tips[d] = {Upstream(d)}
Mirrored(d) ==
  IF target[d].kind = "import" THEN LastImportedOrigin(branch, d) = Upstream(d)
                               ELSE LastVendored(branch, d) = target[d].pin
Converges ==
  \A p \in Thread, d \in Dest :
    Settled(d) /\ job[p].pc = "waiting" /\ d \in job[p].todo
      ~> Mirrored(d) \/ ~CanReconcile(branch, d, target[d], Upstream(d))
=============================================================================
