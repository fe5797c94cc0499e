------------------------------- MODULE Ingress -------------------------------
(***************************************************************************)
(* How events reach the reconciler (src/src/server.rs): the poll loop      *)
(* scans one hour of GH Archive per cycle and the HTTP thread takes        *)
(* webhook deliveries; what an event matches in the index is reconciled.   *)
(* A reconcile is one step here: Reconciler.tla takes it apart.            *)
(***************************************************************************)
EXTENDS Integers, Sequences, FiniteSets, SequencesExt

CONSTANTS
  Target,     \* labels of the declared imports and vendors
  Repo,       \* the upstream repository of each target
  Ref,        \* the ref it tracks, NoRef for a vendor
  NoRef,
  Event,      \* what may happen upstream, each at most once
  HourLength, \* ticks of the clock in an hour
  Interval,   \* --interval-secs, in ticks
  MaxScan,    \* the most ticks a poll cycle takes
  Cap,        \* deliveries Dedup remembers
  MaxHour,    \* bound: hours the clock runs
  MaxAccepted,\* bound: deliveries accepted since the server started
  MaxFaults   \* bound: failed cycles and reconciles, and crashes

Kind == {"push", "create", "release", "issues"}

ASSUME IngressAssumption ==
  /\ DOMAIN Repo = Target /\ DOMAIN Ref = Target
  /\ \A e \in Event : e.kind \in Kind
  /\ HourLength \in Nat \ {0} /\ Interval \in Nat \ {0} /\ MaxScan \in Nat
  /\ Cap \in Nat \ {0}
  /\ MaxHour \in Nat /\ MaxAccepted \in Nat /\ MaxFaults \in Nat

VARIABLES
  hour, minute, \* the time
  occurred,     \* events that have happened, with the hour GH Archive has them in
  synced,       \* for each target, the events its last successful reconcile came after
  poll,         \* the main thread: what it does, for how long, the hour it scans
  order,        \* Dedup.order, which has the elements of Dedup.seen
  accepted,     \* history: deliveries that were no duplicates, since the start
  tried,        \* history: archive hours whose scan began, since the start
  faults

vars == <<hour, minute, occurred, synced, poll, order, accepted, tried, faults>>

TypeOK ==
  /\ hour \in Nat /\ minute \in 0..(HourLength - 1)
  /\ occurred \subseteq Event \X Nat
  /\ synced \in [Target -> SUBSET Event]
  /\ poll \in [pc : {"down", "sleep", "scan"}, age : Nat, hour : Int]
  /\ order \in Seq(Event) /\ Len(order) <= Cap
  /\ accepted \in Seq(Event)
  /\ tried \subseteq Int
  /\ faults \in Nat

Happened == {o[1] : o \in occurred}

\* The server starts, two hours on so that there is an archive to look at.
Init ==
  /\ hour = 2 /\ minute = 0
  /\ occurred = {}
  /\ synced = [t \in Target |-> {}]
  /\ poll = [pc |-> "scan", age |-> 0, hour |-> 0]
  /\ order = <<>> /\ accepted = <<>> /\ tried = {0}
  /\ faults = 0

-----------------------------------------------------------------------------
(* The index: targets by repository. *)

\* Faulty variant: a second target of the same repository replaces the first.
LastSubscribed(repo) ==
  LET subs == {t \in Target : Repo[t] = repo}
  IN IF subs = {} THEN {} ELSE {CHOOSE t \in subs : TRUE}
Subscribed(repo) == {t \in Target : Repo[t] = repo}

\* Imports react to a push to the ref they track, vendors to a new tag or release.
MatchEvent(e) ==
  {t \in Subscribed(e.repo) : IF Ref[t] = NoRef THEN e.kind \in {"create", "release"}
                              ELSE e.kind = "push" /\ e.ref = Ref[t]}
\* Any delivery but a ping and an issue is read as a push.
MatchDelivery(e) ==
  IF e.kind = "issues" THEN {} ELSE MatchEvent([e EXCEPT !.kind = "push"])

\* Each target of L is reconciled, whatever becomes of the others: those of
\* `failed` stay as they are.
Act(L, failed) ==
  /\ failed \subseteq L
  /\ failed # {} => faults < MaxFaults
  /\ faults' = faults + IF failed = {} THEN 0 ELSE 1
  /\ synced' = [t \in Target |-> IF t \in L \ failed THEN Happened ELSE synced[t]]

-----------------------------------------------------------------------------
(* The world. *)

\* No event in the last hours of the run: their scan would be beyond its end.
Occur(e) ==
  /\ e \notin Happened /\ hour + 4 <= MaxHour
  /\ occurred' = occurred \cup {<<e, hour>>}
  /\ UNCHANGED <<hour, minute, synced, poll, order, accepted, tried, faults>>

\* The poll loop wakes up in time, and a cycle does not take for ever.
Tick ==
  /\ hour < MaxHour
  /\ poll.pc = "sleep" => poll.age < Interval
  /\ poll.pc = "scan" => poll.age < MaxScan
  /\ IF minute + 1 < HourLength THEN minute' = minute + 1 /\ UNCHANGED hour
                                ELSE minute' = 0 /\ hour' = hour + 1
  /\ poll' = [poll EXCEPT !.age = IF poll.pc = "down" THEN @ ELSE @ + 1]
  /\ UNCHANGED <<occurred, synced, order, accepted, tried, faults>>

-----------------------------------------------------------------------------
(* The main thread: serve and poll_once. *)

\* Looks two hours back, where the archive is complete.
ScanFrom(h) ==
  poll' = [pc |-> "scan", age |-> 0, hour |-> h - 2]

Restart ==
  /\ poll.pc = "down"
  /\ ScanFrom(hour)
  /\ order' = <<>> /\ accepted' = <<>> /\ tried' = {hour - 2}
  /\ UNCHANGED <<hour, minute, occurred, synced, faults>>

Wake ==
  /\ poll.pc = "sleep" /\ poll.age = Interval
  /\ ScanFrom(hour)
  /\ tried' = tried \cup {hour - 2}
  /\ UNCHANGED <<hour, minute, occurred, synced, order, accepted, faults>>

Sleep == poll' = [poll EXCEPT !.pc = "sleep", !.age = 0]

\* All the hour's matches are one batch.
Scanned(failed) ==
  /\ poll.pc = "scan"
  /\ Act(UNION {MatchEvent(o[1]) : o \in {o \in occurred : o[2] = poll.hour}}, failed)
  /\ Sleep
  /\ UNCHANGED <<hour, minute, occurred, order, accepted, tried>>

\* Faulty variant: backs off after a failure, for twice the interval.
BackOff ==
  /\ poll.pc = "scan" /\ faults < MaxFaults
  /\ faults' = faults + 1
  /\ poll' = [poll EXCEPT !.pc = "sleep", !.age = -Interval]
  /\ UNCHANGED <<hour, minute, occurred, synced, order, accepted, tried>>
\* The archive could not be fetched or read.
ScanFails ==
  /\ poll.pc = "scan" /\ faults < MaxFaults
  /\ faults' = faults + 1
  /\ Sleep
  /\ UNCHANGED <<hour, minute, occurred, synced, order, accepted, tried>>

-----------------------------------------------------------------------------
(* The HTTP thread: run_http and handle_webhook, one request at a time.      *)

\* Faulty variants: the newest key makes room; room is made one key too late.
InsertNewest(id) == Append(IF Len(order) >= Cap THEN Front(order) ELSE order, id)
InsertOverCap(id) == Append(IF Len(order) > Cap THEN Tail(order) ELSE order, id)
InsertNew(id) == Append(IF Len(order) >= Cap THEN Tail(order) ELSE order, id)

\* GitHub delivers an event once, never or, when somebody asks for it, again.  A
\* duplicate is skipped: no step.  The key is remembered whatever comes after.
Deliver(e, failed) ==
  /\ poll.pc # "down" /\ Len(accepted) < MaxAccepted
  /\ e \in Happened /\ e \notin Range(order)
  /\ order' = InsertNew(e)
  /\ accepted' = Append(accepted, e)
  /\ Act(MatchDelivery(e), failed)
  /\ UNCHANGED <<hour, minute, occurred, poll, tried>>

Crash ==
  /\ poll.pc # "down" /\ faults < MaxFaults
  /\ poll' = [poll EXCEPT !.pc = "down", !.age = 0]
  /\ faults' = faults + 1
  /\ UNCHANGED <<hour, minute, occurred, synced, order, accepted, tried>>

Next ==
  \/ \E e \in Event : Occur(e)
  \/ Tick \/ Restart \/ Wake
  \/ \E failed \in SUBSET Target : Scanned(failed)
  \/ ScanFails
  \/ \E e \in Event, failed \in SUBSET Target : Deliver(e, failed)
  \/ Crash

(***************************************************************************)
(* Time passes and the main thread runs; nobody need ever send a webhook.  *)
(***************************************************************************)
Spec == Init /\ [][Next]_vars
FairSpec == /\ Spec
            /\ WF_vars(Tick) /\ WF_vars(Restart) /\ WF_vars(Wake)
            /\ WF_vars(\E failed \in SUBSET Target : Scanned(failed))

-----------------------------------------------------------------------------
(* Properties. *)

\* While the server is up the poll loop leaves no hour of the archive out: of any
\* two it scanned it tried all between (automation.md: "CapyFun consumes the latest
\* archive each hour").  The interval counts from the end of a cycle, so that this
\* takes an interval shorter than an hour by the longest cycle.
EveryHourScanned == \A a, b \in tried : \A h \in a..b : h \in tried

\* A delivery is only ever processed again, in one life of the server, after Cap
\* others were since: redelivering it sooner does nothing (server.rs Dedup: "so a
\* redelivered webhook does not re-run the (idempotent but expensive) pipeline").
RedeliveryWindow ==
  \A i, j \in DOMAIN accepted : i < j /\ accepted[i] = accepted[j] => j - i > Cap

\* Whatever webhooks are lost, late, repeated or swapped, an import comes to be
\* reconciled after every push to the ref it tracks (automation.md: "Never depend
\* on an event being delivered"), provided that no cycle or reconcile fails and the
\* server does not crash: what failed is not tried again before the next event.
PushesArrive ==
  \A t \in Target, e \in Event :
    e \in Happened /\ e.kind = "push" /\ e.repo = Repo[t] /\ e.ref = Ref[t]
      ~> e \in synced[t] \/ faults > 0
=============================================================================
