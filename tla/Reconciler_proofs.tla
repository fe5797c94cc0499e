-------------------------- MODULE Reconciler_proofs --------------------------
(***************************************************************************)
(* What holds of Reconciler for any number of threads, commands, upstreams *)
(* and targets.  Whoever races, mirrors stay whole; and when every writer  *)
(* takes the mutex, a reconcile overwrites nothing, gets its own           *)
(* upstream's tip, and the branch is as if reconciled by one process.      *)
(***************************************************************************)
EXTENDS Reconciler, Engine_proofs

\* A process at work on a target knows which, and how many tips it had.
Busy == \A p \in Process : Holding(p) =>
          /\ job[p].cur \in Dest
          /\ job[p].since \in 1..Len(served[job[p].cur])

Typed == TypeOK /\ Busy

-----------------------------------------------------------------------------

\* What a process holds between reconciles is a job.
LEMMA IdleType == Idle \in Job /\ Idle.pc = "idle" /\ Idle.tip = <<>>
  BY DEF Idle, Job, History

\* How a target is ended: by nothing but the process's own job and its lock.
LEMMA DoneShape ==
  ASSUME TypeOK, NEW p \in Process, Done(p)
  PROVE  /\ job' \in [Process -> Job]
         /\ lock' \in Thread \cup {None}
         /\ job'[p].pc \in {"idle", "begin"} /\ job'[p].tip = <<>>
         /\ \A q \in Process \ {p} : job'[q] = job[q]
         /\ job'[p].pc = "begin" => lock' = lock
         /\ lock' # lock => lock = p /\ lock' = None
<1>1. job \in [Process -> Job] /\ lock \in Thread \cup {None} /\ Idle \in Job
  BY IdleType DEF TypeOK
<1>2. CASE job[p].todo = {}
  <2>1. job' = [job EXCEPT ![p] = Idle] /\ lock' = IF lock = p THEN None ELSE lock
    BY <1>2 DEF Done
  <2> QED  BY <1>1, <2>1, IdleType
<1>3. CASE job[p].todo # {}
  <2> DEFINE next == [Idle EXCEPT !.pc = "begin", !.todo = job[p].todo]
  <2>1. job' = [job EXCEPT ![p] = next] /\ lock' = lock
    BY <1>3 DEF Done
  <2>2. next \in Job /\ next.pc = "begin" /\ next.tip = <<>>
    BY <1>1 DEF Idle, Job, History
  <2> QED  BY <1>1, <2>1, <2>2
<1> QED  BY <1>2, <1>3

\* What any step of the system does to the processes: at most one of them moves,
\* or some of them are killed.
LEMMA StartShape ==
  ASSUME TypeOK, NEW p \in Process, NEW L \in SUBSET Dest,
         NEW pc \in {"waiting", "begin"}, Start(p, L, pc)
  PROVE  /\ job' \in [Process -> Job]
         /\ job'[p].pc = pc /\ job'[p].tip = job[p].tip
         /\ \A q \in Process \ {p} : job'[q] = job[q]
<1> DEFINE j == [job[p] EXCEPT !.pc = pc, !.todo = L]
<1>1. job \in [Process -> Job] /\ job[p] \in Job
  BY DEF TypeOK
<1>2. j \in Job /\ j.pc = pc /\ j.tip = job[p].tip
  BY <1>1 DEF Job
<1>3. job' = [job EXCEPT ![p] = j]
  BY <1>1 DEF Start
<1> QED  BY <1>1, <1>2, <1>3

\* How a process goes on within a target.
LEMMA Goto ==
  ASSUME TypeOK, NEW p \in Process,
         NEW pc \in {"begin", "resolve", "forget", "write"}, NEW origin \in History,
         \/ job' = [job EXCEPT ![p].pc = pc]
         \/ job' = [job EXCEPT ![p].pc = pc, ![p].origin = origin]
  PROVE  /\ job' \in [Process -> Job]
         /\ job'[p].pc = pc /\ job'[p].tip = job[p].tip
         /\ job'[p].cur = job[p].cur /\ job'[p].since = job[p].since
         /\ job'[p].origin \in {job[p].origin, origin}
         /\ \A q \in Process \ {p} : job'[q] = job[q]
<1> DEFINE j == [job[p] EXCEPT !.pc = pc]
           k == [job[p] EXCEPT !.pc = pc, !.origin = origin]
<1>1. job \in [Process -> Job] /\ job[p] \in Job
  BY DEF TypeOK
<1>2. \A x \in {j, k} : /\ x \in Job /\ x.pc = pc /\ x.tip = job[p].tip
                        /\ x.cur = job[p].cur /\ x.since = job[p].since
                        /\ x.origin \in {job[p].origin, origin}
  BY <1>1 DEF Job
<1>3. \E x \in {j, k} : job' = [job EXCEPT ![p] = x]
  BY <1>1
<1> QED  BY <1>1, <1>2, <1>3

\* What an upstream serves now is a history, the last of those it has served.
LEMMA UpstreamType ==
  ASSUME TypeOK, NEW d \in Dest
  PROVE  /\ served[d] \in Seq(History) /\ Len(served[d]) \in Nat \ {0}
         /\ Upstream(d) = served[d][Len(served[d])] /\ Upstream(d) \in History
<1>1. served[d] \in Seq(History) /\ served[d] # <<>>
  BY DEF TypeOK
<1> QED  BY <1>1 DEF Upstream, Last

\* What any one step of a process changes: its own job, the lock only to take or
\* release it, the branch only to write; the upstreams never.
LEMMA StepShape ==
  ASSUME Typed, NEW p \in Process, Step(p)
  PROVE  /\ TypeOK' /\ served' = served
         /\ \A q \in Process \ {p} : job'[q] = job[q]
         /\ Holding(p)' => /\ job'[p].cur \in Dest
                           /\ job'[p].since \in 1..Len(served[job'[p].cur])
         /\ branch' # branch => Write(p)
         /\ Holding(p)' => /\ Working(p)
                           /\ lock' = lock
                           /\ \/ job[p].pc = "begin" /\ job'[p].tip = branch
                              \/ Holding(p) /\ job'[p].tip = job[p].tip
<1> USE DEF Typed
<1>0. /\ job \in [Process -> Job] /\ job[p] \in Job
      /\ \A d \in Dest : Len(served[d]) \in Nat \ {0} /\ Upstream(d) \in History
  BY UpstreamType DEF TypeOK
<1> DEFINE Shaped == /\ TypeOK' /\ served' = served
                     /\ \A q \in Process \ {p} : job'[q] = job[q]
                     /\ Holding(p)' => /\ job'[p].cur \in Dest
                                       /\ job'[p].since \in 1..Len(served[job'[p].cur])
                     /\ branch' # branch => Write(p)
                     /\ Holding(p)' => /\ Working(p)
                                       /\ lock' = lock
                                       /\ \/ job[p].pc = "begin" /\ job'[p].tip = branch
                                          \/ Holding(p) /\ job'[p].tip = job[p].tip
<1>1. CASE Acquire(p)
  <2>1. /\ job' = [job EXCEPT ![p].pc = "begin"] /\ p \in Process
        /\ lock' \in Thread \cup {None}
    BY <1>1 DEF Acquire
  <2> QED  BY <1>0, <1>1, <2>1, Goto DEF Acquire, TypeOK, Job, Holding
<1>2. ASSUME NEW d \in Dest, ReadTip(p, d)
      PROVE  Shaped
  <2> DEFINE j == [pc |-> "fetch", todo |-> job[p].todo \ {d}, cur |-> d,
                   tip |-> branch, origin |-> <<>>, since |-> Len(served[d])]
  <2>1. j \in Job
    BY <1>0 DEF Job, TypeOK, History
  <2>2. /\ job' = [job EXCEPT ![p] = j] /\ job[p].pc = "begin"
        /\ UNCHANGED <<served, branch, fetch_head, lock, jobs, faults>>
    BY <1>2 DEF ReadTip
  <2> QED  BY <1>0, <2>1, <2>2 DEF TypeOK, Holding, Working
<1>3. ASSUME NEW d \in Dest, Compare(p, d)
      PROVE  Shaped
  <2> DEFINE j == [pc |-> "fetch", todo |-> job[p].todo \ {d}, cur |-> d,
                   tip |-> branch, origin |-> <<>>, since |-> Len(served[d])]
             k == [Idle EXCEPT !.pc = "begin", !.todo = job[p].todo \ {d}]
  <2>1. j \in Job /\ k \in Job /\ k.pc = "begin" /\ Idle \in Job /\ Idle.pc = "idle"
    BY <1>0, IdleType DEF Job, TypeOK, History, Idle
  <2>2. /\ \E x \in {j, k, Idle} : job' = [job EXCEPT ![p] = x]
        /\ job[p].pc = "begin"
        /\ UNCHANGED <<served, branch, fetch_head, lock, jobs, faults>>
    BY <1>3 DEF Compare
  <2>3. PICK x \in {j, k, Idle} : job' = [job EXCEPT ![p] = x]
    BY <2>2 DEF j, k
  <2>4. /\ x \in Job
        /\ x.pc = "fetch" => x.cur = d /\ x.tip = branch /\ x.since = Len(served[d])
        /\ x.pc \in {"fetch", "begin", "idle"}
    <3>1. j.pc = "fetch" /\ j.cur = d /\ j.tip = branch /\ j.since = Len(served[d])
      OBVIOUS
    <3> HIDE DEF j, k
    <3> QED  BY <2>1, <2>3, <3>1
  <2> HIDE DEF j, k
  <2>5. job'[p] = x /\ TypeOK' /\ \A q \in Process \ {p} : job'[q] = job[q]
    BY <1>0, <2>2, <2>3, <2>4 DEF TypeOK
  <2> QED  BY <1>0, <2>2, <2>4, <2>5 DEF Holding, Working
<1>4. CASE FetchBranch(p)
  <2>1. Holding(p)
    BY <1>4 DEF FetchBranch, Holding
  <2> QED  BY <1>0, <1>4, <2>1, Goto DEF FetchBranch, TypeOK, Job, Holding, Working, Busy
<1>5. CASE FetchPin(p)
  <2>1. Holding(p) /\ job[p].cur \in Dest
    BY <1>5 DEF FetchPin, Holding, Busy
  <2>2. target[job[p].cur].pin \in History
    BY <1>5, <2>1, ReconcilerAssumption DEF FetchPin, Target, History
  <2> QED  BY <1>0, <1>5, <2>1, <2>2 DEF FetchPin, TypeOK, Job, Holding, Working, Busy
<1>6. ASSUME Done(p), UNCHANGED <<served, branch, jobs>>,
             fetch_head' \in History, faults' \in Nat
      PROVE  Shaped
  BY <1>6, DoneShape DEF TypeOK, Holding
<1>7. CASE FetchFails(p) \/ ResolveFails(p) \/ Refuse(p)
  BY <1>6, <1>7 DEF FetchFails, ResolveFails, Refuse, Failed, TypeOK
<1>8. CASE Resolve(p)
  <2>1. Holding(p)
    BY <1>8 DEF Resolve, Holding
  <2> QED  BY <1>0, <1>8, <2>1, Goto DEF Resolve, TypeOK, Job, Holding, Working, Busy
<1>9. CASE Forget(p)
  <2>1. Holding(p) /\ <<>> \in History
    BY <1>9 DEF Forget, Holding, History
  <2>2. CASE p \in Status
    BY <1>6, <1>9, <2>1, <2>2 DEF Forget, TypeOK
  <2>3. CASE p \notin Status
    BY <1>0, <1>9, <2>1, <2>3, Goto DEF Forget, TypeOK, Job, Holding, Working, Busy
  <2> QED  BY <2>2, <2>3
<1>10. CASE Write(p)
  <2>1. /\ job[p].cur \in Dest /\ job[p].tip \in Seq(Commit) /\ job[p].origin \in History
        /\ target[job[p].cur] \in Target /\ Agrees(p) /\ branch \in Seq(Commit)
    BY <1>0, <1>10, ReconcilerAssumption DEF Write, Busy, Holding, Job, TypeOK
  <2>2. NewHead(p) \in Seq(Commit)
    BY <2>1, ReconciledType DEF NewHead, Agrees
  <2>3. branch' \in Seq(Commit)
    BY <1>10, <2>1, <2>2 DEF Write
  <2>4. Done(p) /\ UNCHANGED <<served, fetch_head, jobs, faults>>
    BY <1>10 DEF Write
  <2> QED  BY <1>10, <2>3, <2>4, DoneShape DEF TypeOK, Holding
<1>11. CASE OpenFails(p)
  <2>1. job' = [job EXCEPT ![p] = Idle] /\ faults' \in Nat
    BY <1>0, <1>11 DEF OpenFails, TypeOK
  <2> QED  BY <1>0, <1>11, <2>1, IdleType DEF OpenFails, TypeOK, Holding, Idle
<1> QED
  <2>1. Step(p)
    OBVIOUS
  <2> QED  BY <1>1, <1>2, <1>3, <1>4, <1>5, <1>7, <1>8, <1>9, <1>10, <1>11, <2>1 DEF Step

\* What a step does to the lock.
LEMMA LockShape ==
  ASSUME Typed, NEW p \in Process, Step(p)
  PROVE  /\ Working(p)' => \/ p \in Thread /\ lock = None /\ lock' = p
                           \/ Working(p) /\ lock' = lock
         /\ lock' # lock => lock \in {None, p}
         /\ Working(p) \/ (p \in Thread /\ lock = None)
<1>1. CASE Acquire(p)
  BY <1>1 DEF Acquire
<1>2. ASSUME Working(p), Done(p)
      PROVE  /\ Working(p)' => lock' = lock
             /\ lock' # lock => lock = p
  <2>1. /\ job'[p].pc \in {"idle", "begin"}
        /\ job'[p].pc = "begin" => lock' = lock
        /\ lock' # lock => lock = p
    BY <1>2, DoneShape DEF Typed
  <2> QED  BY <1>2, <2>1 DEF Working
<1>3. ASSUME NEW d \in Dest, ReadTip(p, d) \/ Compare(p, d)
      PROVE  Working(p) /\ lock' = lock
  BY <1>3 DEF ReadTip, Compare, Working
<1>4. CASE FetchBranch(p) \/ FetchPin(p) \/ Resolve(p)
  BY <1>4 DEF FetchBranch, FetchPin, Resolve, Working
<1>5. CASE FetchFails(p) \/ ResolveFails(p) \/ Refuse(p) \/ Write(p)
  <2>1. Working(p) /\ Done(p)
    BY <1>5 DEF FetchFails, ResolveFails, Refuse, Write, Failed, Working
  <2> QED  BY <1>2, <2>1
<1>6. CASE Forget(p)
  <2>1. Working(p) /\ (Done(p) \/ lock' = lock)
    BY <1>6 DEF Forget, Working
  <2> QED  BY <1>2, <2>1
<1>7. CASE OpenFails(p)
  <2>1. job'[p] = Idle /\ lock' = lock /\ lock = None /\ p \in Thread
    BY <1>7 DEF OpenFails, Typed, TypeOK
  <2> QED  BY <2>1 DEF Working, Idle
<1> QED
  <2>1. Step(p)
    OBVIOUS
  <2> QED  BY <1>1, <1>3, <1>4, <1>5, <1>6, <1>7, <2>1 DEF Step


\* An upstream's record of tips only gets longer.
Grows(d) == /\ Len(served[d]) \in Nat /\ Len(served'[d]) \in Nat
            /\ Len(served[d]) <= Len(served'[d])
            /\ \A k \in 1..Len(served[d]) : served'[d][k] = served[d][k]

\* What the world outside the processes, and their death, leaves of them.
LEMMA OtherShape ==
  ASSUME Typed, [Next]_vars, \A p \in Process : ~Step(p)
  PROVE  /\ Typed' /\ branch' = branch /\ fetch_head' = fetch_head
         /\ \A d \in Dest : Grows(d)
         /\ \A p \in Process : Holding(p)' => job'[p] = job[p]
         /\ \A p \in Process : \/ ~Working(p)'
                               \/ job'[p] = job[p] /\ (lock = p => lock' = p)
                               \/ p \in Cli \cup Status
<1> USE DEF Typed
<1> DEFINE Kept == /\ Typed' /\ branch' = branch /\ fetch_head' = fetch_head
                   /\ \A d \in Dest : Grows(d)
                   /\ \A p \in Process : Holding(p)' => job'[p] = job[p]
                   /\ \A p \in Process : \/ ~Working(p)'
                                         \/ job'[p] = job[p] /\ (lock = p => lock' = p)
                                         \/ p \in Cli \cup Status
<1>0. ASSUME UNCHANGED served
      PROVE  \A d \in Dest : Grows(d)
  BY <1>0, UpstreamType DEF Grows
<1>1. ASSUME NEW d \in Dest, NEW h \in Tips[d], Publish(d, h)
      PROVE  Kept
  <2>1. h \in History
    BY ReconcilerAssumption
  <2>2. /\ served' = [served EXCEPT ![d] = Append(@, h)]
        /\ UNCHANGED <<branch, fetch_head, lock, job, jobs, faults>>
    BY <1>1 DEF Publish
  <2>3. served' \in [Dest -> Seq(History)] /\ \A o \in Dest : served'[o] # <<>> /\ Grows(o)
    BY <2>1, <2>2, UpstreamType DEF TypeOK, Grows
  <2>4. TypeOK'
    BY <2>2, <2>3 DEF TypeOK
  <2>5. Busy'
    BY <2>2, <2>3, UpstreamType DEF Busy, Holding, Grows, TypeOK
  <2> QED  BY <2>2, <2>3, <2>4, <2>5 DEF Holding, Working
<1>2. ASSUME NEW p \in Process, NEW L \in SUBSET Dest, NEW pc \in {"waiting", "begin"},
             Start(p, L, pc), pc = "begin" => p \in Cli \cup Status
      PROVE  Kept
  <2>1. UNCHANGED <<served, branch, fetch_head, lock, faults>> /\ jobs' = jobs + 1
    BY <1>2 DEF Start
  <2>2. TypeOK'
    BY <1>2, <2>1, StartShape DEF TypeOK
  <2>3. Busy' /\ \A q \in Process : Holding(q)' => job'[q] = job[q]
    BY <1>2, <2>1, StartShape DEF Busy, Holding
  <2> QED  BY <1>0, <1>2, <2>1, <2>2, <2>3, StartShape DEF Working
<1>3. ASSUME NEW P \in SUBSET Process, Crash(P)
      PROVE  Kept
  <2>1. /\ UNCHANGED <<served, branch, fetch_head, jobs>> /\ faults' = faults + 1
        /\ job' = [p \in Process |-> IF p \in P THEN Idle ELSE job[p]]
        /\ lock' = IF lock \in P THEN None ELSE lock
    BY <1>3 DEF Crash
  <2>2. TypeOK'
    BY <2>1, IdleType DEF TypeOK
  <2>3. \A q \in Process : \/ q \in P /\ job'[q].pc = "idle"
                           \/ q \notin P /\ job'[q] = job[q]
    BY <2>1, IdleType
  <2>4. \A q \in Process : ~Working(q)' \/ (job'[q] = job[q] /\ (lock = q => lock' = q))
    BY <2>1, <2>3 DEF Working
  <2>5. \A q \in Process : Holding(q)' => job'[q] = job[q]
    BY <2>3 DEF Holding
  <2>6. Busy'
    BY <2>1, <2>3 DEF Busy, Holding
  <2> QED  BY <1>0, <2>1, <2>2, <2>4, <2>5, <2>6
<1>4. CASE UNCHANGED vars
  <2>1. UNCHANGED <<served, branch, fetch_head, lock, job, jobs, faults>>
    BY <1>4 DEF vars
  <2>2. TypeOK' /\ Busy'
    BY <2>1 DEF TypeOK, Busy, Holding
  <2> QED  BY <1>0, <2>1, <2>2
<1>5. ASSUME NEW p \in Thread, NEW L \in SUBSET Dest, Trigger(p, L)
      PROVE  Kept
  BY <1>2, <1>5 DEF Trigger, Process
<1>6. ASSUME NEW p \in Cli \cup Status, NEW L \in {{d} : d \in Dest} \cup {Dest}, Invoke(p, L)
      PROVE  Kept
  <2>1. L \in SUBSET Dest
    OBVIOUS
  <2> QED  BY <1>2, <1>6, <2>1 DEF Invoke, Process
<1>7. Thread \in SUBSET Process /\ \A p \in Cli \cup Status : {p} \in SUBSET Process
  BY DEF Process
<1> QED
  <2>1. [Next]_vars /\ \A p \in Process : ~Step(p)
    OBVIOUS
  <2> QED  BY <1>1, <1>3, <1>4, <1>5, <1>6, <1>7, <2>1 DEF Next

-----------------------------------------------------------------------------

\* The types, and the strengthening that makes them inductive.
LEMMA TypedAlways == Spec => []Typed
<1>1. Init => Typed
  <2> SUFFICES ASSUME Init PROVE Typed
    OBVIOUS
  <2>1. served \in [Dest -> Seq(History)] /\ \A d \in Dest : served[d] # <<>>
    <3>1. \A x \in UNION {Tips[d] : d \in Dest} : x \in History
      BY ReconcilerAssumption
    <3> DEFINE first == {<<h>> : h \in UNION {Tips[d] : d \in Dest}}
    <3>2. \A x \in first : x \in Seq(History) /\ x # <<>> /\ Len(x) = 1
      <4>1. \A h \in History : <<h>> \in Seq(History) /\ <<h>> # <<>> /\ Len(<<h>>) = 1
        OBVIOUS
      <4> QED  BY <3>1, <4>1
    <3>3. served \in [Dest -> first]
      BY DEF Init
    <3> HIDE DEF first
    <3> QED  BY <3>2, <3>3
  <2>2. TypeOK
    BY <2>1, IdleType DEF Init, TypeOK, History
  <2>3. \A p \in Process : job[p].pc = "idle"
    BY IdleType DEF Init
  <2> QED  BY <2>2, <2>3 DEF Typed, Busy, Holding
<1>2. Typed /\ [Next]_vars => Typed'
  <2> SUFFICES ASSUME Typed, [Next]_vars PROVE Typed'
    OBVIOUS
  <2>1. CASE \A p \in Process : ~Step(p)
    BY <2>1, OtherShape
  <2>2. ASSUME NEW p \in Process, Step(p)
        PROVE  Typed'
    <3>1. \A q \in Process : Holding(q)' =>
            /\ job'[q].cur \in Dest
            /\ job'[q].since \in 1..Len(served[job'[q].cur])
      <4> SUFFICES ASSUME NEW q \in Process, Holding(q)'
                   PROVE  /\ job'[q].cur \in Dest
                          /\ job'[q].since \in 1..Len(served[job'[q].cur])
        OBVIOUS
      <4>1. CASE q = p
        BY <2>2, <4>1, StepShape
      <4>2. CASE q # p
        <5>1. job'[q] = job[q]
          BY <2>2, <4>2, StepShape
        <5> QED  BY <5>1 DEF Typed, Busy, Holding
      <4> QED  BY <4>1, <4>2
    <3> QED  BY <2>2, <3>1, StepShape DEF Typed, Busy, Holding
  <2> QED  BY <2>1, <2>2
<1> QED  BY <1>1, <1>2, PTL DEF Spec

\* Every variable keeps its type, through races, failures and crashes.
THEOREM TypeCorrect == Spec => []TypeOK
  BY TypedAlways, PTL DEF Typed

-----------------------------------------------------------------------------
(* Races. *)

Whole(chain) == \A d \in Dest : Ordered(chain, d) /\ Gapless(chain, d)

\* A reconcile over a whole branch writes a whole branch, for every destination.
LEMMA ReconcileKeepsWhole ==
  ASSUME NEW chain \in Seq(Commit), NEW d \in Dest, NEW t \in Target, NEW tip \in History,
         CanReconcile(chain, d, t, tip), Whole(chain)
  PROVE  Whole(Reconciled(chain, d, t, tip))
<1> DEFINE new == Reconciled(chain, d, t, tip)
<1>1. new \in Seq(Commit)
  BY ReconciledType
<1>2. ASSUME NEW o \in Dest, t.kind = "vendor" \/ o # d
      PROVE  Ordered(new, o) /\ Gapless(new, o)
  <2>1. MirrorsIn(new, o) = MirrorsIn(chain, o) /\ \A i \in MirrorsIn(chain, o) : new[i] = chain[i]
    BY <1>2, ReconcileMirrors
  <2> HIDE DEF new
  <2> QED  BY <1>1, <2>1, SameMirrors DEF Whole
<1>3. ASSUME t.kind # "vendor"
      PROVE  Ordered(new, d) /\ Gapless(new, d)
  <2>1. t.kind = "import" /\ t.tips \in Seq(TipLabel)
    BY <1>3 DEF Target
  <2>2. CanImport(chain, d, tip, t.tips) /\ new = Import(chain, d, tip, t.tips)
    BY <2>1 DEF CanReconcile, Reconciled
  <2> HIDE DEF new
  <2> QED  BY <2>1, <2>2, ImportKeepsOrder DEF Whole
<1> HIDE DEF new
<1> QED  BY <1>2, <1>3 DEF Whole, new

\* What a process read is whole, and so is what it writes.
WholeTips == \A p \in Process : Holding(p) => Whole(job[p].tip)

\* A write, forced or fetched, moves the branch to a whole one.
LEMMA WriteWhole ==
  ASSUME Typed, WholeMirrors, WholeTips, NEW p \in Process, Write(p)
  PROVE  Whole(branch')
<1>1. Holding(p)
  BY DEF Write, Holding
<1>2. /\ job[p].cur \in Dest /\ job[p].tip \in Seq(Commit) /\ job[p].origin \in History
      /\ target[job[p].cur] \in Target
  BY <1>1, ReconcilerAssumption DEF Typed, TypeOK, Busy, Job
<1>3. Whole(branch) /\ Whole(job[p].tip)
  BY <1>1 DEF WholeMirrors, WholeTips, Whole
<1>4. Whole(NewHead(p))
  BY <1>2, <1>3, ReconcileKeepsWhole DEF Write, Agrees, NewHead
<1> QED  BY <1>3, <1>4 DEF Write

\* No race, lost update, misread temporary ref, failure or crash ever leaves a
\* mirror on the branch with a repeat, a gap or a swap.
THEOREM RacesKeepMirrorsWhole == Spec => []WholeMirrors
<1> DEFINE W == WholeMirrors /\ WholeTips
<1>1. Init => W
  <2> SUFFICES ASSUME Init PROVE W
    OBVIOUS
  <2>1. branch = <<>> /\ \A p \in Process : job[p].pc = "idle"
    BY IdleType DEF Init
  <2>2. WholeMirrors
    BY <2>1 DEF WholeMirrors, Ordered, Gapless, MirrorsIn
  <2> QED  BY <2>1, <2>2 DEF WholeTips, Holding
<1>2. Typed /\ W /\ [Next]_vars => W'
  <2> SUFFICES ASSUME Typed, W, [Next]_vars PROVE W'
    OBVIOUS
  <2>1. CASE \A p \in Process : ~Step(p)
    <3>1. branch' = branch /\ \A p \in Process : Holding(p)' => job'[p] = job[p]
      BY <2>1, OtherShape
    <3>2. \A p \in Process : Holding(p)' => Holding(p)
      BY <3>1 DEF Holding
    <3> QED  BY <3>1, <3>2 DEF WholeMirrors, WholeTips
  <2>2. ASSUME NEW p \in Process, Step(p)
        PROVE  W'
    <3>1. /\ \A q \in Process \ {p} : job'[q] = job[q]
          /\ branch' # branch => Write(p)
          /\ Holding(p)' => \/ job'[p].tip = branch
                            \/ Holding(p) /\ job'[p].tip = job[p].tip
      BY <2>2, StepShape
    <3>2. Whole(branch) /\ Whole(branch')
      BY <3>1, WriteWhole DEF WholeMirrors, Whole
    <3>3. ASSUME NEW q \in Process, Holding(q)'
          PROVE  Whole(job'[q].tip)
      <4>1. CASE q = p
        BY <3>1, <3>2, <3>3, <4>1 DEF WholeTips
      <4>2. CASE q # p
        <5>1. job'[q] = job[q] /\ Holding(q)
          BY <3>1, <3>3, <4>2 DEF Holding
        <5> QED  BY <5>1 DEF WholeTips
      <4> QED  BY <4>1, <4>2
    <3>4. WholeTips'
      BY <3>3 DEF WholeTips, Whole
    <3> QED  BY <3>2, <3>4 DEF WholeMirrors, Whole
  <2> QED  BY <2>1, <2>2
<1> QED  BY <1>1, <1>2, TypedAlways, PTL DEF Spec

-----------------------------------------------------------------------------
(* With every writer behind the mutex. *)

\* A `capyfun status` fetches for an import only, and goes no further.
StatusReads == \A p \in Status :
  /\ job[p].pc # "write"
  /\ Holding(p) => target[job[p].cur].kind = "import"

Locked == /\ \A p \in Thread : Working(p) => lock = p
          /\ StatusReads
          /\ TipIsCurrent

\* A status job holds only imports, and never reaches the write.
LEMMA StatusNeverWrites ==
  ASSUME Typed, StatusReads, NEW p \in Process, Step(p)
  PROVE  StatusReads'
<1>1. \A q \in Process \ {p} : job'[q] = job[q]
  BY StepShape
<1>2. p \in Status => /\ job'[p].pc # "write"
                      /\ Holding(p)' => target[job'[p].cur].kind = "import"
  <2> SUFFICES ASSUME p \in Status
               PROVE  /\ job'[p].pc # "write"
                      /\ Holding(p)' => target[job'[p].cur].kind = "import"
    OBVIOUS
  <2>1. job \in [Process -> Job] /\ p \notin Thread /\ job[p].pc # "write"
    BY ReconcilerAssumption DEF Typed, TypeOK, StatusReads
  <2>2. Holding(p) => target[job[p].cur].kind = "import"
    BY DEF StatusReads
  <2>3. ASSUME Done(p)
        PROVE  job'[p].pc # "write" /\ ~Holding(p)'
    BY <2>3, DoneShape DEF Typed, Holding
  <2>4. CASE FetchFails(p) \/ ResolveFails(p) \/ Refuse(p) \/ Write(p) \/ Forget(p)
    BY <2>3, <2>4 DEF FetchFails, ResolveFails, Refuse, Write, Forget, Failed
  <2>5. CASE Acquire(p) \/ FetchPin(p)
    BY <2>1, <2>2, <2>5 DEF Acquire, FetchPin, Holding
  <2>6. CASE FetchBranch(p)
    <3>1. <<>> \in History /\ TypeOK /\ job' = [job EXCEPT ![p].pc = "resolve"]
      BY <2>6 DEF FetchBranch, Typed, History
    <3>2. job'[p].pc = "resolve" /\ job'[p].cur = job[p].cur
      BY <3>1, Goto
    <3> QED  BY <2>6, <3>2 DEF FetchBranch
  <2>7. CASE Resolve(p)
    BY <2>1, <2>2, <2>7 DEF Resolve, Holding, Job
  <2>8. ASSUME NEW d \in Dest, ReadTip(p, d)
        PROVE  FALSE
    BY <2>8 DEF ReadTip
  <2>9. ASSUME NEW d \in Dest, Compare(p, d)
        PROVE  /\ job'[p].pc # "write"
               /\ Holding(p)' => target[job'[p].cur].kind = "import"
    <3> DEFINE j == [pc |-> "fetch", todo |-> job[p].todo \ {d}, cur |-> d,
                     tip |-> branch, origin |-> <<>>, since |-> Len(served[d])]
               k == [Idle EXCEPT !.pc = "begin", !.todo = job[p].todo \ {d}]
    <3>1. \/ job' = [job EXCEPT ![p] = j] /\ target[d].kind = "import"
          \/ job' = [job EXCEPT ![p] = k]
          \/ job' = [job EXCEPT ![p] = Idle]
      BY <2>9 DEF Compare
    <3>2. /\ j.pc = "fetch" /\ j.cur = d
          /\ k.pc = "begin" /\ Idle.pc = "idle"
      BY IdleType DEF Idle
    <3> HIDE DEF j, k
    <3> QED  BY <2>1, <3>1, <3>2 DEF Holding
  <2>10. CASE OpenFails(p)
    <3>1. job'[p] = Idle
      BY <2>1, <2>10 DEF OpenFails
    <3> QED  BY <3>1 DEF Idle, Holding
  <2> QED
    <3>1. Step(p)
      OBVIOUS
    <3> QED  BY <2>4, <2>5, <2>6, <2>7, <2>8, <2>9, <2>10, <3>1 DEF Step
<1>3. ASSUME NEW q \in Status
      PROVE  /\ job'[q].pc # "write"
             /\ Holding(q)' => target[job'[q].cur].kind = "import"
  <2>1. CASE q = p
    BY <1>2, <2>1
  <2>2. CASE q # p
    BY <1>1, <2>2 DEF StatusReads, Holding, Process
  <2> QED  BY <2>1, <2>2
<1> QED  BY <1>3 DEF StatusReads

\* Every step keeps the lock invariant, if no command line runs.
LEMMA LockedStep ==
  ASSUME Cli = {}, Typed, Locked, [Next]_vars
  PROVE  Locked'
<1>0. Process \ Status = Thread /\ Thread \subseteq Process /\ Status \subseteq Process
  BY ReconcilerAssumption DEF Process
<1>1. CASE \A p \in Process : ~Step(p)
  <2>1. /\ branch' = branch
        /\ \A p \in Process : Holding(p)' => job'[p] = job[p]
        /\ \A p \in Process : \/ ~Working(p)'
                              \/ job'[p] = job[p] /\ (lock = p => lock' = p)
                              \/ p \in Cli \cup Status
    BY <1>1, OtherShape
  <2>2. \A p \in Thread : Working(p)' => lock' = p
    <3> SUFFICES ASSUME NEW p \in Thread, Working(p)' PROVE lock' = p
      OBVIOUS
    <3>1. job'[p] = job[p] /\ (lock = p => lock' = p)
      BY <2>1, ReconcilerAssumption, <1>0
    <3> QED  BY <3>1 DEF Working, Locked
  <2>3. \A p \in Process : job'[p].pc = "write" => Holding(p)'
    BY DEF Holding
  <2>4. StatusReads' /\ TipIsCurrent'
    BY <1>0, <2>1, <2>3 DEF StatusReads, TipIsCurrent, Holding, Locked
  <2> QED  BY <2>2, <2>4 DEF Locked
<1>2. ASSUME NEW p \in Process, Step(p)
      PROVE  Locked'
  <2>1. StatusReads'
    BY <1>2, StatusNeverWrites DEF Locked
  <2>2. \A q \in Process \ {p} : job'[q] = job[q]
    BY <1>2, StepShape
  <2>3. /\ Working(p)' => \/ p \in Thread /\ lock = None /\ lock' = p
                          \/ Working(p) /\ lock' = lock
        /\ lock' # lock => lock \in {None, p}
        /\ Working(p) \/ (p \in Thread /\ lock = None)
    BY <1>2, LockShape
  <2>4. None \notin Thread
    BY <1>0, ReconcilerAssumption
  <2>5. ASSUME NEW q \in Thread, Working(q)'
        PROVE  lock' = q
    <3>1. CASE q = p
      BY <2>3, <2>5, <3>1 DEF Locked
    <3>2. CASE q # p
      <4>1. Working(q) /\ lock = q
        BY <1>0, <2>2, <2>5, <3>2 DEF Working, Locked
      <4> QED  BY <2>3, <2>4, <3>2, <4>1
    <3> QED  BY <3>1, <3>2
  <2>6. Write(p) => p \in Thread /\ ~Holding(p)'
    <3> SUFFICES ASSUME Write(p) PROVE p \in Thread /\ ~Holding(p)'
      OBVIOUS
    <3>1. job[p].pc = "write" /\ Done(p)
      BY DEF Write
    <3> QED  BY <1>0, <3>1, DoneShape DEF Typed, Locked, StatusReads, Holding
  <2>7. ASSUME NEW q \in Thread, Holding(q)'
        PROVE  job'[q].tip = branch'
    <3>1. branch' # branch => Write(p)
      BY <1>2, StepShape
    <3>2. CASE q = p
      <4>1. branch' = branch
        BY <2>6, <2>7, <3>1, <3>2
      <4>2. \/ job'[p].tip = branch
            \/ Holding(p) /\ job'[p].tip = job[p].tip
        BY <1>2, <2>7, <3>2, StepShape
      <4> QED  BY <1>0, <3>2, <4>1, <4>2 DEF Locked, TipIsCurrent
    <3>3. CASE q # p
      <4>1. job'[q] = job[q] /\ Holding(q)
        BY <1>0, <2>2, <2>7, <3>3 DEF Holding
      <4>2. job[q].tip = branch /\ lock = q
        BY <1>0, <4>1 DEF Locked, TipIsCurrent, Holding, Working
      <4>3. ~Write(p)
        <5>1. p \in Thread /\ Working(p) => lock = p
          BY DEF Locked
        <5> QED  BY <2>4, <2>6, <3>3, <4>2, <5>1 DEF Write, Working
      <4> QED  BY <3>1, <4>1, <4>2, <4>3
    <3> QED  BY <3>2, <3>3
  <2>8. TipIsCurrent'
    BY <1>0, <2>7 DEF TipIsCurrent
  <2> QED  BY <2>1, <2>5, <2>8 DEF Locked
<1> QED  BY <1>1, <1>2

\* So under the lock the tip a thread works on stays the tip of the branch.
LEMMA LockedAlways ==
  ASSUME Cli = {}
  PROVE  Spec => []Locked
<1>1. Init => Locked
  <2> SUFFICES ASSUME Init PROVE Locked
    OBVIOUS
  <2>1. \A p \in Process : job[p].pc = "idle"
    BY IdleType DEF Init
  <2> QED  BY <2>1 DEF Locked, StatusReads, TipIsCurrent, Working, Holding, Process
<1>2. Typed /\ Locked /\ [Next]_vars => Locked'
  BY LockedStep
<1> QED  BY <1>1, <1>2, TypedAlways, PTL DEF Spec

\* When all that writes the branch goes through the server's mutex, a reconcile
\* forces the branch from where it still is: no update is lost, whatever reads,
\* fails or crashes alongside.
THEOREM MutexPreventsLostUpdates ==
  ASSUME Cli = {}
  PROVE  Spec => []TipIsCurrent
  BY LockedAlways, PTL DEF Locked

\* So no mirror commit ever goes missing from the branch, unless it forges a tip
\* trailer.
THEOREM MutexKeepsMirrors ==
  ASSUME Cli = {}, Tainted = {}
  PROVE  Spec => MirrorsSurvive
<1> DEFINE Survive == \A i \in DOMAIN branch : branch[i].kind = "mirror" =>
                        \E k \in DOMAIN branch' : branch'[k] = branch[i]
<1>1. ASSUME Typed, Locked, [Next]_vars
      PROVE  branch' = branch \/ Survive
  <2>1. CASE \A p \in Process : ~Step(p)
    BY <1>1, <2>1, OtherShape
  <2>2. ASSUME NEW p \in Process, Step(p), branch' # branch
        PROVE  Survive
    <3>1. Write(p) /\ p \notin Status
      BY <1>1, <2>2, StepShape DEF Locked, StatusReads, Write
    <3>2. /\ Holding(p) /\ job[p].cur \in Dest /\ job[p].origin \in History
          /\ job[p].tip = branch /\ branch \in Seq(Commit)
      BY <1>1, <3>1 DEF Write, Holding, Locked, TipIsCurrent, Typed, TypeOK, Busy, Job
    <3>3. target[job[p].cur] \in Target
      BY <3>2, ReconcilerAssumption
    <3>4. /\ CanReconcile(branch, job[p].cur, target[job[p].cur], job[p].origin)
          /\ branch' = Reconciled(branch, job[p].cur, target[job[p].cur], job[p].origin)
      BY <2>2, <3>1, <3>2 DEF Write, Agrees, NewHead
    <3>5. ASSUME NEW i \in DOMAIN branch, branch[i].kind = "mirror"
          PROVE  \E k \in DOMAIN branch' : branch'[k] = branch[i]
      <4>1. ~IsOurTip(branch[i], job[p].cur)
        BY <3>5 DEF IsOurTip, HasTipTrailer
      <4> QED  BY <3>2, <3>3, <3>4, <4>1, ReconcileKeeps
    <3> QED  BY <3>5
  <2> QED  BY <2>1, <2>2
<1>2. Typed /\ Locked /\ [Next]_vars => [Survive]_branch
  BY <1>1
<1> QED
  BY <1>2, TypedAlways, LockedAlways, PTL DEF Spec, MirrorsSurvive

-----------------------------------------------------------------------------
(* With the server's threads alone. *)

\* The tips of an upstream with record s since it had n of them.
Since(s, n) == {s[k] : k \in n..Len(s)}

\* The temporary ref is what the thread that is about to read it fetched.
Fetched == \A p \in Process :
  LET j == job[p] IN
  /\ j.pc \in {"resolve", "forget"} => target[j.cur].kind = "import"
  /\ j.pc = "resolve" => fetch_head \in Since(served[j.cur], j.since)
  /\ j.pc \in {"forget", "write"} /\ target[j.cur].kind = "import"
       => j.origin \in Since(served[j.cur], j.since)

\* An upstream that serves more still has served what it had.
LEMMA SinceGrows ==
  ASSUME NEW d \in Dest, Grows(d), NEW n \in 1..Len(served[d])
  PROVE  Since(served[d], n) \subseteq Since(served'[d], n)
  BY DEF Since, Grows

\* No two threads are at work at once.
LEMMA OthersRest ==
  ASSUME Cli = {}, Status = {}, Typed, Locked, NEW p \in Process, Step(p)
  PROVE  \A q \in Process \ {p} : ~Working(q) /\ job'[q] = job[q]
<1>1. Process = Thread /\ None \notin Thread
  BY ReconcilerAssumption DEF Process
<1>2. Working(p) \/ (p \in Thread /\ lock = None)
  BY LockShape
<1> QED  BY <1>1, <1>2, StepShape DEF Locked

\* Every step keeps what is known of FETCH_HEAD, if only threads run.
LEMMA FetchedStep ==
  ASSUME Cli = {}, Status = {}, Typed, Locked, Fetched, [Next]_vars
  PROVE  Fetched'
<1> DEFINE Right(p) ==
      /\ job'[p].pc \in {"resolve", "forget"} => target[job'[p].cur].kind = "import"
      /\ job'[p].pc = "resolve" => fetch_head' \in Since(served'[job'[p].cur], job'[p].since)
      /\ job'[p].pc \in {"forget", "write"} /\ target[job'[p].cur].kind = "import"
           => job'[p].origin \in Since(served'[job'[p].cur], job'[p].since)
<1>1. CASE \A p \in Process : ~Step(p)
  <2> SUFFICES ASSUME NEW p \in Process PROVE Right(p)
    BY DEF Fetched
  <2>1. /\ fetch_head' = fetch_head /\ Holding(p)' => job'[p] = job[p]
        /\ \A d \in Dest : Grows(d)
    BY <1>1, OtherShape
  <2>2. CASE ~Holding(p)'
    BY <2>2 DEF Holding
  <2>3. CASE Holding(p)'
    <3>1. job'[p] = job[p] /\ Holding(p) /\ fetch_head' = fetch_head
      BY <1>1, <2>3, OtherShape DEF Holding
    <3>2. job[p].cur \in Dest /\ job[p].since \in 1..Len(served[job[p].cur])
      BY <3>1 DEF Typed, Busy
    <3>3. Since(served[job[p].cur], job[p].since) \subseteq Since(served'[job[p].cur], job[p].since)
      BY <2>1, <3>2, SinceGrows
    <3> QED  BY <3>1, <3>3 DEF Fetched
  <2> QED  BY <2>2, <2>3
<1>2. ASSUME NEW p \in Process, Step(p)
      PROVE  Fetched'
  <2>1. ASSUME NEW q \in Process, q # p
        PROVE  Right(q)
    BY <1>2, <2>1, OthersRest DEF Working
  <2>2. ASSUME job'[p].pc \in {"idle", "begin", "fetch"}
        PROVE  Right(p)
    BY <2>2
  <2>3. /\ job \in [Process -> Job] /\ served' = served
        /\ Holding(p) => /\ job[p].cur \in Dest /\ served[job[p].cur] \in Seq(History)
                         /\ job[p].since \in 1..Len(served[job[p].cur])
    BY <1>2, StepShape, UpstreamType DEF Typed, TypeOK, Busy
  <2>4. ASSUME \E d \in Dest : ReadTip(p, d) \/ Compare(p, d)
        PROVE  Right(p)
    <3>1. job'[p].pc = "fetch"
      BY <2>3, <2>4 DEF ReadTip, Compare
    <3> QED  BY <2>2, <3>1
  <2>5. ASSUME Acquire(p)
        PROVE  Right(p)
    BY <2>2, <2>3, <2>5 DEF Acquire
  <2>6. ASSUME Done(p)
        PROVE  Right(p)
    BY <2>2, <2>6, DoneShape DEF Typed
  <2>7. ASSUME FetchFails(p) \/ ResolveFails(p) \/ Refuse(p) \/ Write(p)
        PROVE  Right(p)
    BY <2>6, <2>7 DEF FetchFails, ResolveFails, Refuse, Failed, Write
  <2>8. ASSUME FetchBranch(p)
        PROVE  Right(p)
    <3>1. /\ <<>> \in History /\ TypeOK /\ job' = [job EXCEPT ![p].pc = "resolve"]
          /\ Holding(p) /\ fetch_head' = Upstream(job[p].cur)
          /\ target[job[p].cur].kind = "import"
      BY <2>8 DEF FetchBranch, Typed, History, Holding
    <3>2. /\ job'[p].pc = "resolve" /\ job'[p].cur = job[p].cur
          /\ job'[p].since = job[p].since
      BY <3>1, Goto
    <3>3. fetch_head' \in Since(served[job[p].cur], job[p].since)
      BY <2>3, <3>1, UpstreamType DEF Since
    <3> QED  BY <2>3, <3>1, <3>2, <3>3 DEF Since
  <2>9. ASSUME FetchPin(p)
        PROVE  Right(p)
    <3>1. /\ job'[p].pc = "write" /\ job'[p].cur = job[p].cur
          /\ target[job[p].cur].kind = "vendor"
      BY <2>3, <2>9 DEF FetchPin, Job
    <3> QED  BY <3>1
  <2>10. ASSUME Resolve(p)
        PROVE  Right(p)
    <3>1. /\ job'[p].pc = "forget" /\ job'[p].cur = job[p].cur
          /\ job'[p].since = job[p].since /\ job'[p].origin = fetch_head
          /\ job[p].pc = "resolve"
      BY <2>3, <2>10 DEF Resolve, Job
    <3>2. /\ target[job[p].cur].kind = "import"
          /\ fetch_head \in Since(served[job[p].cur], job[p].since)
      BY <3>1 DEF Fetched
    <3> QED  BY <2>3, <3>1, <3>2 DEF Since
  <2>11. ASSUME Forget(p)
        PROVE  Right(p)
    <3>1. /\ job[p].pc = "forget" /\ job' = [job EXCEPT ![p].pc = "write"]
      BY <2>11 DEF Forget
    <3>2. /\ job'[p].pc = "write" /\ job'[p].cur = job[p].cur
          /\ job'[p].since = job[p].since /\ job'[p].origin = job[p].origin
      BY <2>3, <3>1 DEF Job
    <3>3. job[p].origin \in Since(served[job[p].cur], job[p].since)
      BY <3>1 DEF Fetched
    <3> QED  BY <2>3, <3>2, <3>3 DEF Since
  <2>12. ASSUME OpenFails(p)
         PROVE  Right(p)
    <3>1. job'[p] = Idle
      BY <2>3, <2>12 DEF OpenFails
    <3> QED  BY <2>2, <3>1 DEF Idle
  <2>13. Right(p)
    BY <1>2, <2>4, <2>5, <2>7, <2>8, <2>9, <2>10, <2>11, <2>12 DEF Step
  <2>14. \A q \in Process : Right(q)
    BY <2>1, <2>13
  <2> QED  BY <2>14 DEF Fetched
<1> QED  BY <1>1, <1>2

\* So under the lock alone, what a thread resolves is what it fetched.
LEMMA FetchedAlways ==
  ASSUME Cli = {}, Status = {}
  PROVE  Spec => []Fetched
<1>1. Init => Fetched
  <2> SUFFICES ASSUME Init PROVE Fetched
    OBVIOUS
  <2>1. \A p \in Process : job[p].pc = "idle"
    BY IdleType DEF Init
  <2> QED  BY <2>1 DEF Fetched
<1>2. Typed /\ Locked /\ Fetched /\ [Next]_vars => Fetched'
  BY FetchedStep
<1> QED  BY <1>1, <1>2, TypedAlways, LockedAlways, PTL DEF Spec

\* The server hands every reconcile a tip that its own upstream had since the
\* reconcile began, whatever crashes left in the temporary ref.
THEOREM ServerFetchesItsOwn ==
  ASSUME Cli = {}, Status = {}
  PROVE  Spec => []OriginIsFresh
<1>1. Fetched => OriginIsFresh
  BY DEF Fetched, OriginIsFresh, Since
<1> QED  BY <1>1, FetchedAlways, PTL

\* Every step of the reconciler is a step of the serial branch, or a stutter.
LEMMA SerialStep ==
  ASSUME Cli = {}, Status = {}, Typed, Locked, Fetched, [Next]_vars
  PROVE  SB!Next \/ UNCHANGED <<served, branch>>
<1>1. ASSUME NEW p \in Process, Step(p)
      PROVE  SB!Next \/ UNCHANGED <<served, branch>>
  <2>1. CASE ~Write(p)
    BY <1>1, <2>1, StepShape
  <2>2. CASE Write(p)
    <3> DEFINE d == job[p].cur
    <3>1. Holding(p) /\ job[p].pc = "write"
      BY <2>2 DEF Write, Holding
    <3>2. job[p].tip = branch /\ d \in Dest
      BY <3>1 DEF Locked, TipIsCurrent, Process, Typed, Busy
    <3>3. served[d] \in Seq(History) /\ Len(served[d]) \in Nat \ {0} /\ target[d] \in Target
          /\ job[p].since \in 1..Len(served[d])
      BY <3>1, <3>2, UpstreamType, ReconcilerAssumption DEF Typed, Busy
    <3>4. PICK k \in DOMAIN served[d] :
            target[d].kind = "import" => job[p].origin = served[d][k]
      <4>1. CASE target[d].kind = "import"
        <5>1. job[p].origin \in Since(served[d], job[p].since)
          BY <3>1, <4>1 DEF Fetched
        <5> QED  BY <3>3, <5>1 DEF Since
      <4>2. CASE target[d].kind # "import"
        BY <3>3, <4>2
      <4> QED  BY <4>1, <4>2
    <3>5. /\ CanReconcile(branch, d, target[d], job[p].origin)
          /\ branch' = Reconciled(branch, d, target[d], job[p].origin)
          /\ served' = served
      BY <2>2, <3>2 DEF Write, Agrees, NewHead
    <3>6. /\ CanReconcile(branch, d, target[d], served[d][k])
          /\ branch' = Reconciled(branch, d, target[d], served[d][k])
      BY <3>4, <3>5 DEF CanReconcile, Reconciled
    <3> HIDE DEF d
    <3> QED  BY <3>2, <3>5, <3>6 DEF SB!Next, SB!ReconcileWhole
  <2> QED  BY <2>1, <2>2
<1>2. CASE UNCHANGED vars
  BY <1>2 DEF vars
<1>3. ASSUME NEW d \in Dest, NEW h \in Tips[d], Publish(d, h)
      PROVE  SB!Next
  <2>1. /\ served' = [served EXCEPT ![d] = Append(@, h)] /\ branch' = branch
        /\ h \in History /\ served \in [Dest -> Seq(History)]
    BY <1>3, ReconcilerAssumption DEF Publish, Typed, TypeOK
  <2>2. served'[d] = Append(served[d], h) /\ served[d] \in Seq(History)
    BY <2>1
  <2>3. Last(served'[d]) = h /\ served'[d] \in Seq(History)
    BY <2>1, <2>2 DEF Last
  <2> QED  BY <2>1, <2>3 DEF SB!Next, SB!Publish, SB!Last, Last
<1>4. ASSUME NEW p \in Process, NEW L, NEW pc, Start(p, L, pc)
      PROVE  UNCHANGED <<served, branch>>
  BY <1>4 DEF Start
<1>5. ASSUME NEW P, Crash(P)
      PROVE  UNCHANGED <<served, branch>>
  BY <1>5 DEF Crash
<1> QED
  BY <1>1, <1>2, <1>3, <1>4, <1>5 DEF Next, Trigger, Invoke, Process

\* The server's threads together do what one process doing whole reconciles would.
THEOREM ServerIsSerial ==
  ASSUME Cli = {}, Status = {}
  PROVE  Spec => SerialBranchSpec
<1>1. Init => SB!Init
  <2> SUFFICES ASSUME Init PROVE SB!Init
    OBVIOUS
  <2>1. \A x \in UNION {Tips[d] : d \in Dest} : x \in History
    BY ReconcilerAssumption
  <2> DEFINE first == {<<h>> : h \in UNION {Tips[d] : d \in Dest}}
  <2>2. \A x \in first : x \in Seq(History) /\ Len(x) = 1
    <3>1. \A h \in History : <<h>> \in Seq(History) /\ Len(<<h>>) = 1
      OBVIOUS
    <3> QED  BY <2>1, <3>1
  <2>3. served \in [Dest -> first] /\ branch = <<>>
    BY DEF Init
  <2> HIDE DEF first
  <2> QED  BY <2>2, <2>3 DEF SB!Init
<1>2. Typed /\ Locked /\ Fetched /\ [Next]_vars => [SB!Next]_(SB!vars)
  BY SerialStep DEF SB!vars
<1> QED
  BY <1>1, <1>2, TypedAlways, LockedAlways, FetchedAlways, PTL
  DEF Spec, SerialBranchSpec, SB!Spec
=============================================================================
