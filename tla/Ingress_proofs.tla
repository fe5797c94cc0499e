--------------------------- MODULE Ingress_proofs ---------------------------
(* Theorems about Ingress, for every index, interval and capacity.           *)
EXTENDS Ingress, TLAPS

PollState == [pc : {"down", "sleep", "scan"}, age : Nat, hour : Int]

\* Setting the loop's state and the minutes of its cycle keeps the record's type.
LEMMA PollChanges ==
  ASSUME NEW p \in PollState, NEW pc \in {"down", "sleep", "scan"}, NEW a \in Nat
  PROVE  /\ [p EXCEPT !.age = a] \in PollState
         /\ [p EXCEPT !.pc = pc, !.age = a] \in PollState
  BY DEF PollState

\* Dedup's insertion keeps a queue of at most Cap deliveries one.
LEMMA InsertType ==
  ASSUME NEW o \in Seq(Event), Len(o) <= Cap, NEW e \in Event
  PROVE  LET o2 == Append(IF Len(o) >= Cap THEN Tail(o) ELSE o, e)
         IN o2 \in Seq(Event) /\ Len(o2) <= Cap
<1>1. Cap \in Nat /\ Cap # 0  BY IngressAssumption
<1>2. CASE Len(o) >= Cap
  <2>1. o # <<>> /\ Len(o) = Cap  BY <1>1, <1>2
  <2>2. Tail(o) \in Seq(Event) /\ Len(Tail(o)) = Len(o) - 1  BY <2>1
  <2> QED  BY <1>1, <1>2, <2>1, <2>2
<1>3. CASE ~(Len(o) >= Cap)  BY <1>1, <1>3
<1> QED  BY <1>2, <1>3

\* The actions keep every variable to its type, and Dedup to its capacity.
THEOREM TypeCorrect == Spec => []TypeOK
<1>1. Init => TypeOK
  BY IngressAssumption DEF Init, TypeOK
<1>2. TypeOK /\ [Next]_vars => TypeOK'
  <2> SUFFICES ASSUME TypeOK, [Next]_vars PROVE TypeOK'
    OBVIOUS
  <2> USE IngressAssumption DEF TypeOK
  <2>1. CASE UNCHANGED vars  BY <2>1 DEF vars
  <2>2. ASSUME NEW e \in Event, Occur(e) PROVE TypeOK'  BY <2>2 DEF Occur
  <2>3. CASE Tick
    <3>1. PICK a \in Nat : poll' = [poll EXCEPT !.age = a]
      <4>1. poll.age \in Nat /\ poll.age + 1 \in Nat  OBVIOUS
      <4>2. CASE poll.pc = "down"  BY <2>3, <4>1, <4>2 DEF Tick
      <4>3. CASE poll.pc # "down"  BY <2>3, <4>1, <4>3 DEF Tick
      <4> QED  BY <4>2, <4>3
    <3>2. poll' \in [pc : {"down", "sleep", "scan"}, age : Nat, hour : Int]
      BY <3>1, PollChanges DEF PollState
    <3>3. hour' \in Nat /\ minute' \in 0..(HourLength - 1)
      <4>1. CASE minute + 1 < HourLength
        <5>1. minute' = minute + 1 /\ hour' = hour  BY <2>3, <4>1 DEF Tick
        <5>2. HourLength \in Nat /\ hour \in Nat /\ minute \in Nat  OBVIOUS
        <5>3. minute + 1 \in 0..(HourLength - 1)  BY ONLY <4>1, <5>2
        <5> QED  BY <5>1, <5>2, <5>3
      <4>2. CASE ~(minute + 1 < HourLength)
        <5>1. minute' = 0 /\ hour' = hour + 1  BY <2>3, <4>2 DEF Tick
        <5>2. HourLength \in Nat \ {0} /\ hour \in Nat  OBVIOUS
        <5>3. 0 \in 0..(HourLength - 1) /\ hour + 1 \in Nat  BY ONLY <5>2
        <5> QED  BY <5>1, <5>3
      <4> QED  BY <4>1, <4>2
    <3> QED  BY <2>3, <3>2, <3>3 DEF Tick
  <2>4. CASE Restart  BY <2>4 DEF Restart, ScanFrom
  <2>5. CASE Wake  BY <2>5 DEF Wake, ScanFrom
  <2>6. ASSUME NEW L, NEW failed, Act(L, failed)
        PROVE  faults' \in Nat /\ synced' \in [Target -> SUBSET Event]
    <3>1. Happened \subseteq Event  BY DEF Happened
    <3> QED  BY <2>6, <3>1 DEF Act
  <2>7. ASSUME NEW failed \in SUBSET Target, Scanned(failed) PROVE TypeOK'
    BY <2>6, <2>7 DEF Scanned, Sleep
  <2>8. CASE ScanFails
    <3>1. poll \in PollState  BY DEF PollState
    <3>2. [poll EXCEPT !.pc = "sleep", !.age = 0] \in PollState  BY <3>1, PollChanges
    <3>3. poll' \in PollState  BY <2>8, <3>2 DEF ScanFails, Sleep
    <3> QED  BY <2>8, <3>3 DEF ScanFails, PollState
  <2>9. ASSUME NEW e \in Event, NEW failed \in SUBSET Target, Deliver(e, failed) PROVE TypeOK'
    <3>1. faults' \in Nat /\ synced' \in [Target -> SUBSET Event]
      BY <2>6, <2>9 DEF Deliver
    <3>2. order' \in Seq(Event) /\ Len(order') <= Cap
      BY <2>9, InsertType DEF Deliver, InsertNew
    <3> QED  BY <2>9, <3>1, <3>2 DEF Deliver
  <2>10. CASE Crash
    <3>1. poll \in PollState  BY DEF PollState
    <3>2. [poll EXCEPT !.pc = "down", !.age = 0] \in PollState  BY <3>1, PollChanges
    <3>3. poll' \in PollState  BY <2>10, <3>2 DEF Crash
    <3>4. faults' \in Nat
      <4>1. faults' = faults + 1  BY ONLY <2>10 DEF Crash
      <4>2. faults \in Nat  OBVIOUS
      <4> QED  BY ONLY <4>1, <4>2
    <3>5. UNCHANGED <<hour, minute, occurred, synced, order, accepted, tried>>
      BY ONLY <2>10 DEF Crash
    <3> QED  BY <3>3, <3>4, <3>5 DEF PollState
  <2> QED  BY <2>1, <2>2, <2>3, <2>4, <2>5, <2>7, <2>8, <2>9, <2>10 DEF Next
<1> QED  BY <1>1, <1>2, PTL DEF Spec

-----------------------------------------------------------------------------
(* The poll loop. *)

\* What makes EveryHourScanned inductive: the last hour tried is the one of the
\* last cycle; the clock is at most an hour further than when that cycle began, and
\* if it is, then by no more minutes past the hour than have gone by since.
Since == hour - (poll.hour + 2)
GoneBy == poll.age + IF poll.pc = "sleep" THEN MaxScan ELSE 0
InTime ==
  poll.pc # "down" =>
    /\ poll.hour \in tried /\ \A h \in tried : h <= poll.hour
    /\ Since \in 0..1
    /\ poll.pc = "scan" => poll.age <= MaxScan
    /\ poll.pc = "sleep" => poll.age <= Interval
    /\ Since = 1 => minute < GoneBy

\* With an interval shorter than an hour by at least the longest cycle, the poll
\* loop leaves no hour of the archive out while the server is up, whatever fails.
THEOREM ShortIntervalScansEveryHour ==
  ASSUME Interval + MaxScan <= HourLength
  PROVE  Spec => []EveryHourScanned
<1> USE IngressAssumption
<1>1. Init => InTime /\ EveryHourScanned
  BY DEF Init, InTime, Since, GoneBy, EveryHourScanned
<1>2. TypeOK /\ TypeOK' /\ InTime /\ EveryHourScanned /\ [Next]_vars
      => InTime' /\ EveryHourScanned'
  <2> SUFFICES ASSUME TypeOK, TypeOK', InTime, EveryHourScanned, [Next]_vars
               PROVE  InTime' /\ EveryHourScanned'
    OBVIOUS
  <2>1. ASSUME UNCHANGED <<hour, minute, poll, tried>> PROVE InTime' /\ EveryHourScanned'
    BY <2>1 DEF InTime, Since, GoneBy, EveryHourScanned
  <2>2. CASE Tick
    <3>1. EveryHourScanned'  BY <2>2 DEF Tick, EveryHourScanned
    <3>2. poll'.pc = poll.pc /\ poll'.hour = poll.hour
      BY <2>2 DEF Tick, TypeOK
    <3>3. CASE poll.pc = "down"  BY <3>1, <3>2, <3>3 DEF InTime
    <3>4. CASE poll.pc # "down"
      <4>1. poll'.age = poll.age + 1  BY <2>2, <3>4 DEF Tick, TypeOK
      <4>2. hour \in Nat /\ minute \in 0..(HourLength - 1) /\ poll.age \in Nat /\ poll.hour \in Int
        BY DEF TypeOK
      <4>3. /\ poll.pc = "sleep" => poll.age < Interval
            /\ poll.pc = "scan" => poll.age < MaxScan
        BY <2>2 DEF Tick
      <4>4. GoneBy' = GoneBy + 1 /\ GoneBy' <= HourLength /\ GoneBy \in Nat
        <5>1. MaxScan \in Nat /\ Interval \in Nat  BY DEF IngressAssumption
        <5>2. poll.pc \in {"sleep", "scan"}  BY <3>4 DEF TypeOK
        <5>3. CASE poll.pc = "sleep"
          <6>1. GoneBy = poll.age + MaxScan /\ GoneBy' = poll.age + 1 + MaxScan
            BY <3>2, <4>1, <4>2, <5>1, <5>3 DEF GoneBy
          <6> QED  BY <4>2, <4>3, <5>1, <5>3, <6>1
        <5>4. CASE poll.pc = "scan"
          <6>1. GoneBy = poll.age /\ GoneBy' = poll.age + 1
            BY <3>2, <4>1, <4>2, <5>1, <5>4 DEF GoneBy
          <6> QED  BY <4>2, <4>3, <5>1, <5>4, <6>1
        <5> QED  BY <5>2, <5>3, <5>4
      <4>5. Since \in 0..1 /\ (Since = 1 => minute < GoneBy)
        BY <3>4 DEF InTime
      <4>6. Since' \in 0..1 /\ (Since' = 1 => minute' < GoneBy')
        <5>1. CASE minute + 1 < HourLength
          <6>1. minute' = minute + 1 /\ hour' = hour  BY <2>2, <5>1 DEF Tick
          <6>2. Since' = Since  BY <3>2, <6>1 DEF Since
          <6> QED  BY <4>2, <4>4, <4>5, <6>1, <6>2
        <5>2. CASE ~(minute + 1 < HourLength)
          <6>1. minute' = 0 /\ hour' = hour + 1 /\ minute = HourLength - 1
            BY <2>2, <4>2, <5>2 DEF Tick
          <6>2. Since' = Since + 1  BY <3>2, <4>2, <6>1 DEF Since
          <6>3. Since = 0  BY <4>4, <4>5, <6>1
          <6> QED  BY <4>4, <6>1, <6>2, <6>3
        <5> QED  BY <5>1, <5>2
      <4>7. tried' = tried  BY <2>2 DEF Tick
      <4> QED  BY <3>1, <3>2, <3>4, <4>1, <4>2, <4>3, <4>6, <4>7 DEF InTime
    <3> QED  BY <3>3, <3>4
  <2>3. CASE Restart
    <3>1. poll' = [pc |-> "scan", age |-> 0, hour |-> hour - 2] /\ tried' = {hour - 2} /\ hour' = hour
      BY <2>3 DEF Restart, ScanFrom
    <3>2. hour \in Nat  BY DEF TypeOK
    <3>3. InTime'  BY <3>1, <3>2 DEF InTime, Since, GoneBy
    <3>4. EveryHourScanned'  BY <3>1, <3>2 DEF EveryHourScanned
    <3> QED  BY <3>3, <3>4
  <2>4. CASE Wake
    <3>1. /\ poll' = [pc |-> "scan", age |-> 0, hour |-> hour - 2]
          /\ tried' = tried \cup {hour - 2} /\ hour' = hour /\ poll.pc = "sleep"
      BY <2>4 DEF Wake, ScanFrom
    <3>2. hour \in Nat /\ poll.hour \in Int /\ tried \subseteq Int  BY DEF TypeOK
    <3>3. /\ poll.hour \in tried /\ \A h \in tried : h <= poll.hour
          /\ hour - 2 \in poll.hour..(poll.hour + 1)
      BY <3>1, <3>2 DEF InTime, Since
    <3>4. InTime'
      <4>1. \A h \in tried' : h <= hour - 2  BY <3>1, <3>2, <3>3
      <4> QED  BY <3>1, <3>2, <4>1 DEF InTime, Since, GoneBy
    <3>5. EveryHourScanned'
      <4> SUFFICES ASSUME NEW a \in tried', NEW b \in tried', NEW h \in a..b
                   PROVE  h \in tried'
        BY DEF EveryHourScanned
      <4>1. CASE a \in tried /\ h <= poll.hour
        BY <3>1, <3>2, <3>3, <4>1 DEF EveryHourScanned
      <4>2. CASE a \notin tried \/ h > poll.hour
        BY <3>1, <3>2, <3>3, <4>2
      <4> QED  BY <3>1, <3>2, <3>3, <4>1, <4>2
    <3> QED  BY <3>4, <3>5
  <2>5. ASSUME poll.pc = "scan", poll' = [poll EXCEPT !.pc = "sleep", !.age = 0],
               UNCHANGED <<hour, minute, tried>>
        PROVE  InTime' /\ EveryHourScanned'
    <3>1. poll'.pc = "sleep" /\ poll'.age = 0 /\ poll'.hour = poll.hour
      BY <2>5 DEF TypeOK
    <3>2. EveryHourScanned'  BY <2>5 DEF EveryHourScanned
    <3>3. InTime'
      <4>1. GoneBy \in Nat /\ GoneBy <= MaxScan /\ GoneBy' = MaxScan
        <5>1. poll.age \in Nat /\ MaxScan \in Nat  BY DEF TypeOK
        <5>2. GoneBy = poll.age + 0 /\ GoneBy' = 0 + MaxScan  BY <2>5, <3>1 DEF GoneBy
        <5>3. poll.age <= MaxScan  BY <2>5 DEF InTime
        <5> QED  BY <5>1, <5>2, <5>3
      <4>2. Since' = Since  BY <2>5, <3>1 DEF Since
      <4>3. Since = 1 => minute' < GoneBy'
        <5>1. Since = 1 => minute < GoneBy  BY <2>5 DEF InTime
        <5>2. minute' = minute /\ minute \in Int /\ MaxScan \in Nat  BY <2>5 DEF TypeOK
        <5> QED  BY <4>1, <5>1, <5>2
      <4> QED  BY <2>5, <3>1, <4>2, <4>3 DEF InTime
    <3> QED  BY <3>2, <3>3
  <2>6. CASE Crash
    <3>1. poll'.pc = "down" /\ tried' = tried  BY <2>6 DEF Crash, TypeOK
    <3> QED  BY <3>1 DEF InTime, EveryHourScanned
  <2>7. ASSUME NEW e \in Event, Occur(e) PROVE InTime' /\ EveryHourScanned'
    BY <2>1, <2>7 DEF Occur
  <2>8. ASSUME NEW failed \in SUBSET Target, Scanned(failed) PROVE InTime' /\ EveryHourScanned'
    BY <2>5, <2>8 DEF Scanned, Sleep
  <2>9. CASE ScanFails  BY <2>5, <2>9 DEF ScanFails, Sleep
  <2>10. ASSUME NEW e \in Event, NEW failed \in SUBSET Target, Deliver(e, failed)
         PROVE  InTime' /\ EveryHourScanned'
    BY <2>1, <2>10 DEF Deliver
  <2>11. CASE UNCHANGED vars  BY <2>1, <2>11 DEF vars
  <2> QED  BY <2>2, <2>3, <2>4, <2>6, <2>7, <2>8, <2>9, <2>10, <2>11 DEF Next
<1> QED  BY <1>1, <1>2, TypeCorrect, PTL DEF Spec

-----------------------------------------------------------------------------
(* Dedup. *)

\* What makes RedeliveryWindow inductive: Dedup remembers the newest deliveries
\* accepted, all of them or Cap of them.
Remembers ==
  /\ Len(order) <= Len(accepted)
  /\ Len(order) = Cap \/ Len(order) = Len(accepted)
  /\ \A k \in 1..Len(order) : order[k] = accepted[Len(accepted) - Len(order) + k]

\* For any capacity, a delivery is only processed again once Cap others were.
THEOREM DedupRemembersCap == Spec => []RedeliveryWindow
<1> USE IngressAssumption
<1>1. Init => Remembers /\ RedeliveryWindow
  BY DEF Init, Remembers, RedeliveryWindow
<1>2. TypeOK /\ Remembers /\ RedeliveryWindow /\ [Next]_vars
      => Remembers' /\ RedeliveryWindow'
  <2> SUFFICES ASSUME TypeOK, Remembers, RedeliveryWindow, [Next]_vars
               PROVE  Remembers' /\ RedeliveryWindow'
    OBVIOUS
  <2>1. ASSUME UNCHANGED <<order, accepted>> PROVE Remembers' /\ RedeliveryWindow'
    BY <2>1 DEF Remembers, RedeliveryWindow
  <2>2. ASSUME NEW e \in Event, NEW failed \in SUBSET Target, Deliver(e, failed)
        PROVE  Remembers' /\ RedeliveryWindow'
    <3>1. /\ order \in Seq(Event) /\ accepted \in Seq(Event) /\ Len(order) <= Cap
          /\ Len(order) \in Nat /\ Len(accepted) \in Nat /\ Cap \in Nat /\ Cap >= 1
      BY DEF TypeOK
    <3>2. /\ accepted' = Append(accepted, e)
          /\ order' = Append(IF Len(order) >= Cap THEN Tail(order) ELSE order, e)
          /\ \A k \in 1..Len(order) : order[k] # e
      BY <2>2, <3>1 DEF Deliver, InsertNew, Range
    <3>3. /\ Len(accepted') = Len(accepted) + 1 /\ accepted'[Len(accepted) + 1] = e
          /\ \A i \in 1..Len(accepted) : accepted'[i] = accepted[i]
      BY <3>1, <3>2
    <3>4. Remembers'
      <4>1. CASE Len(order) >= Cap
        <5>1. /\ Tail(order) \in Seq(Event) /\ Len(Tail(order)) = Len(order) - 1
              /\ \A k \in 1..(Len(order) - 1) : Tail(order)[k] = order[k + 1]
          BY <3>1, <4>1
        <5>2. /\ order' = Append(Tail(order), e) /\ Len(order') = Len(order)
              /\ order'[Len(order)] = e
              /\ \A k \in 1..(Len(order) - 1) : order'[k] = order[k + 1]
          BY <3>1, <3>2, <4>1, <5>1
        <5>3. ASSUME NEW k \in 1..(Len(order) - 1)
              PROVE  order'[k] = accepted'[Len(accepted') - Len(order') + k]
          <6>1. /\ order[k + 1] = accepted[Len(accepted) - Len(order) + (k + 1)]
                /\ Len(accepted) - Len(order) + (k + 1) \in 1..Len(accepted)
            BY <3>1 DEF Remembers
          <6>2. Len(accepted') - Len(order') + k = (Len(accepted) + 1) - Len(order) + k
            BY <3>3, <5>2
          <6>3. (Len(accepted) + 1) - Len(order) + k = Len(accepted) - Len(order) + (k + 1)
            BY <3>1
          <6> QED  BY <3>3, <5>2, <6>1, <6>2, <6>3
        <5>4. order'[Len(order)] = accepted'[Len(accepted') - Len(order') + Len(order)]
          <6>1. Len(accepted') - Len(order') + Len(order) = (Len(accepted) + 1) - Len(order) + Len(order)
            BY <3>3, <5>2
          <6>2. (Len(accepted) + 1) - Len(order) + Len(order) = Len(accepted) + 1
            BY <3>1
          <6> QED  BY <3>3, <5>2, <6>1, <6>2
        <5>5. ASSUME NEW k \in 1..Len(order')
              PROVE  order'[k] = accepted'[Len(accepted') - Len(order') + k]
          <6>1. k \in 1..(Len(order) - 1) \/ k = Len(order)  BY <3>1, <5>2
          <6> QED  BY <5>3, <5>4, <6>1
        <5>6. Len(order) <= Len(accepted)  BY DEF Remembers
        <5>7. Len(order') <= Len(accepted') /\ Len(order') = Cap
          BY <3>1, <3>3, <4>1, <5>2, <5>6
        <5> QED  BY <5>5, <5>7 DEF Remembers
      <4>2. CASE ~(Len(order) >= Cap)
        <5>1. Len(order) = Len(accepted)  BY <3>1, <4>2 DEF Remembers
        <5>2. /\ Len(order') = Len(order) + 1 /\ order'[Len(order) + 1] = e
              /\ \A k \in 1..Len(order) : order'[k] = order[k]
          BY <3>1, <3>2, <4>2
        <5>3. \A k \in 1..Len(order) : order[k] = accepted[k]
          BY <3>1, <5>1 DEF Remembers
        <5> QED  BY <3>1, <3>3, <5>1, <5>2, <5>3 DEF Remembers
      <4> QED  BY <4>1, <4>2
    <3>5. RedeliveryWindow'
      <4> SUFFICES ASSUME NEW i \in 1..(Len(accepted) + 1), NEW j \in 1..(Len(accepted) + 1),
                          i < j, accepted'[i] = accepted'[j]
                   PROVE  j - i > Cap
        <5>1. DOMAIN accepted' = 1..(Len(accepted) + 1)  BY <3>1, <3>2
        <5> QED  BY <5>1 DEF RedeliveryWindow
      <4>1. CASE j <= Len(accepted)
        <5>1. /\ i \in DOMAIN accepted /\ j \in DOMAIN accepted
              /\ accepted[i] = accepted'[i] /\ accepted[j] = accepted'[j]
          BY <3>1, <3>3, <4>1
        <5> QED  BY <5>1 DEF RedeliveryWindow
      <4>2. CASE j = Len(accepted) + 1
        <5>1. accepted[i] = e /\ i \in 1..Len(accepted)  BY <3>1, <3>3, <4>2
        <5>2. i <= Len(accepted) - Len(order)
          <6> SUFFICES ASSUME i > Len(accepted) - Len(order) PROVE FALSE
            BY <3>1
          <6> DEFINE k == i - (Len(accepted) - Len(order))
          <6>1. k \in 1..Len(order) /\ Len(accepted) - Len(order) + k = i
            BY <3>1, <5>1
          <6>2. order[k] = accepted[i]  BY <6>1 DEF Remembers
          <6> QED  BY <3>2, <5>1, <6>1, <6>2
        <5>3. Len(accepted) # Len(order)  BY <3>1, <5>1, <5>2
        <5>4. Len(order) = Cap  BY <5>3 DEF Remembers
        <5>5. Len(accepted) \in Nat /\ Cap \in Nat /\ i \in Nat  BY <3>1, <5>1
        <5>6. (Len(accepted) + 1) - i > Cap  BY ONLY <5>2, <5>4, <5>5
        <5> QED  BY ONLY <4>2, <5>6
      <4>3. Len(accepted) \in Nat /\ j \in Nat /\ j <= Len(accepted) + 1  BY <3>1
      <4>4. j <= Len(accepted) \/ j = Len(accepted) + 1  BY ONLY <4>3
      <4> QED  BY ONLY <4>1, <4>2, <4>4
    <3> QED  BY <3>4, <3>5
  <2>3. CASE Restart
    BY <2>3 DEF Restart, Remembers, RedeliveryWindow
  <2>4. ASSUME NEW e \in Event, Occur(e) PROVE Remembers' /\ RedeliveryWindow'
    BY <2>1, <2>4 DEF Occur
  <2>5. CASE Tick  BY <2>1, <2>5 DEF Tick
  <2>6. CASE Wake  BY <2>1, <2>6 DEF Wake
  <2>7. ASSUME NEW failed \in SUBSET Target, Scanned(failed) PROVE Remembers' /\ RedeliveryWindow'
    BY <2>1, <2>7 DEF Scanned
  <2>8. CASE ScanFails  BY <2>1, <2>8 DEF ScanFails
  <2>9. CASE Crash  BY <2>1, <2>9 DEF Crash
  <2>10. CASE UNCHANGED vars  BY <2>1, <2>10 DEF vars
  <2> QED  BY <2>2, <2>3, <2>4, <2>5, <2>6, <2>7, <2>8, <2>9, <2>10 DEF Next
<1> QED  BY <1>1, <1>2, TypeCorrect, PTL DEF Spec
=============================================================================
