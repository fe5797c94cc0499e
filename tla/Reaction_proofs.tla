--------------------------- MODULE Reaction_proofs ---------------------------
(***************************************************************************)
(* Theorems about Reaction, for any issues, reactions, filters, processes  *)
(* and bounds.                                                             *)
(***************************************************************************)
EXTENDS Reaction, TLAPS

States == {"open", "merged", "closed"}

-----------------------------------------------------------------------------
(* The inductive invariant.                                                *)

\* A process that runs a reaction has an event and a reaction to run, and its
\* clone is of the trunk as it was.
JobsSound ==
  \A p \in Process :
    /\ job[p].phase \in {"clone", "agent", "open"} =>
         job[p].on \in DOMAIN events /\ job[p].at \in DOMAIN Order
    /\ job[p].base \subseteq trunk

\* The number of the next commit is none that a ref holds.
Fresh ==
  /\ \A c \in trunk : c.n < made
  /\ \A i \in Issue : \A c \in branch[i] : c.n < made

\* An issue's branch holds the trunk and work on this issue.
OwnWork == \A i \in Issue : \A c \in branch[i] : c.for = i \/ c \in trunk

\* An open pull request has something to merge.
OpenHasWork == \A i \in Issue : HasOpen(i) => ~(branch[i] \subseteq trunk)

\* A branch begins with a reaction's draft.
Drafted == \A i \in Issue : branch[i] # {} => \E c \in branch[i] : c.for = i /\ c.by # People

Repo == Fresh /\ OwnWork /\ OpenHasWork /\ Drafted /\ MergedByPeople

IInv == TypeOK /\ JobsSound /\ Repo /\ BranchHasPr

-----------------------------------------------------------------------------
(* What the steps are made of.                                             *)

\* The loop over the reactions that match leaves the process without a clone, at
\* a reaction of its event or at rest.
LEMMA LoopStep ==
  ASSUME job \in [Process -> Jobs], NEW p \in Process, NEW k \in Nat,
         NEW left \in SUBSET DOMAIN Order, Loop(p, k, left)
  PROVE  /\ job' \in [Process -> Jobs]
         /\ \A q \in Process \ {p} : job'[q] = job[q]
         /\ job'[p].base = {}
         /\ job'[p].phase \in {"clone", "agent", "open"} =>
              job'[p].on = k /\ job'[p].at \in left
         /\ job'[p].phase # "open"
<1>1. DOMAIN Order \subseteq Nat  BY ReactionAssumption
<1>2. Idle \in Jobs /\ Exited \in Jobs  BY DEF Idle, Exited, Jobs
<1>3. CASE \E m \in left :
             job' = [job EXCEPT ![p] = [phase |-> "clone", on |-> k, at |-> m, base |-> {}]]
  <2>1. PICK m \in left :
          job' = [job EXCEPT ![p] = [phase |-> "clone", on |-> k, at |-> m, base |-> {}]]
    BY <1>3
  <2>2. [phase |-> "clone", on |-> k, at |-> m, base |-> {}] \in Jobs  BY <1>1 DEF Jobs
  <2> QED  BY <2>1, <2>2
<1>4. CASE job' = [job EXCEPT ![p] = IF p = Server THEN Idle ELSE Exited]
  BY <1>2, <1>4 DEF Idle, Exited
<1> QED  BY <1>3, <1>4 DEF Loop

\* Settling an issue's pull requests keeps their number; none is open any more,
\* and what was merged stays so.
LEMMA SettleStep ==
  ASSUME prs \in [Issue -> Seq(States)], NEW i \in Issue, NEW state \in {"merged", "closed"},
         prs' = Settle(i, state)
  PROVE  /\ prs' \in [Issue -> Seq(States)]
         /\ \A j \in Issue \ {i} : prs'[j] = prs[j]
         /\ DOMAIN prs'[i] = DOMAIN prs[i]
         /\ \A k \in DOMAIN prs[i] :
              prs'[i][k] = IF prs[i][k] = "open" THEN state ELSE prs[i][k]
         /\ prs[i] # <<>> => prs'[i] # <<>>
<1> DEFINE s == [k \in DOMAIN prs[i] |-> IF prs[i][k] = "open" THEN state ELSE prs[i][k]]
<1>1. prs' = [prs EXCEPT ![i] = s]  BY DEF Settle
<1>2. PICK n \in Nat : prs[i] \in [1..n -> States]
  <2>1. prs[i] \in Seq(States)  OBVIOUS
  <2> QED  BY <2>1
<1>3. s \in [1..n -> States]  BY <1>2 DEF States
<1>4. s \in Seq(States)  BY <1>3
<1>5. prs[i] # <<>> => s # <<>>
  <2> SUFFICES ASSUME prs[i] # <<>> PROVE s # <<>>  OBVIOUS
  <2>1. prs[i] \in Seq(States) /\ Len(prs[i]) # 0  OBVIOUS
  <2>2. 1 \in DOMAIN s  BY <2>1
  <2> QED  BY <2>2
<1> HIDE DEF s
<1>6. prs'[i] = s /\ \A j \in Issue \ {i} : prs'[j] = prs[j]  BY <1>1
<1>7. DOMAIN s = DOMAIN prs[i] /\ \A k \in DOMAIN prs[i] :
        s[k] = IF prs[i][k] = "open" THEN state ELSE prs[i][k]
  BY DEF s
<1> QED  BY <1>1, <1>4, <1>5, <1>6, <1>7

\* A process that runs a reaction knows its issue and its reaction.
LEMMA Running ==
  ASSUME TypeOK, JobsSound, NEW p \in Process, job[p].phase \in {"clone", "agent", "open"}
  PROVE  /\ job[p].on \in DOMAIN events /\ IssueOf(p) \in Issue
         /\ ReactionOf(p) \in Reaction
<1>1. job[p].on \in DOMAIN events /\ job[p].at \in DOMAIN Order  BY DEF JobsSound
<1>2. Order[job[p].at] \in Reaction  BY <1>1, ReactionAssumption
<1>3. events[job[p].on] \in Event  BY <1>1 DEF TypeOK
<1> QED  BY <1>1, <1>2, <1>3 DEF IssueOf, ReactionOf, Event

\* The jobs stay sound when the refs and the events only grow under them ...
LEMMA JobsKept ==
  ASSUME JobsSound, UNCHANGED job, trunk \subseteq trunk', DOMAIN events \subseteq DOMAIN events'
  PROVE  JobsSound'
  BY DEF JobsSound

\* ... and when one of them turns to its next reaction, or stops.
LEMMA JobsTurn ==
  ASSUME TypeOK, JobsSound, NEW p \in Process, NEW k \in Nat,
         NEW left \in SUBSET DOMAIN Order, left # {} => k \in DOMAIN events,
         Loop(p, k, left), UNCHANGED <<events, trunk>>
  PROVE  job' \in [Process -> Jobs] /\ JobsSound'
<1>1. /\ job' \in [Process -> Jobs]
      /\ \A q \in Process \ {p} : job'[q] = job[q]
      /\ job'[p].base = {}
      /\ job'[p].phase \in {"clone", "agent", "open"} => job'[p].on = k /\ job'[p].at \in left
  BY LoopStep DEF TypeOK
<1> QED  BY <1>1 DEF JobsSound

\* The reactions that are left are in the Ir, and the event is one that happened.
LEMMA Left ==
  ASSUME TypeOK, NEW k \in DOMAIN events, NEW n
  PROVE  MatchIssue(events[k], n) \in SUBSET DOMAIN Order /\ k \in Nat
  BY DEF TypeOK, MatchIssue

LEMMA NextStep ==
  ASSUME TypeOK, JobsSound, NEW p \in Process, job[p].phase \in {"clone", "agent", "open"},
         NextReaction(p), UNCHANGED <<events, trunk>>
  PROVE  job' \in [Process -> Jobs] /\ JobsSound'
<1>1. job[p].on \in DOMAIN events  BY Running
<1> DEFINE left == MatchIssue(events[job[p].on], job[p].at)
<1>2. left \in SUBSET DOMAIN Order /\ job[p].on \in Nat  BY <1>1, Left
<1>3. Loop(p, job[p].on, left)  BY DEF NextReaction
<1> HIDE DEF left
<1> QED  BY <1>1, <1>2, <1>3, JobsTurn

\* What people do keeps the types and the jobs.
LEMMA OutsideTypes ==
  ASSUME TypeOK, JobsSound, Outside
  PROVE  TypeOK' /\ JobsSound'
<1> USE ReactionAssumption
<1>1. ASSUME NEW i \in Issue, NEW action \in Action, NEW ls \in SUBSET Label,
             IssueEvent(i, action, ls)
      PROVE  TypeOK' /\ JobsSound'
  <2>1. [issue |-> i, action |-> action, labels |-> ls] \in Event  BY DEF Event
  <2>2. /\ events' \in Seq(Event) /\ DOMAIN events \subseteq DOMAIN events'
        /\ Len(events) + 1 \in DOMAIN events'
    BY <1>1, <2>1 DEF IssueEvent, TypeOK
  <2>3. JobsSound'  BY <1>1, <2>2, JobsKept DEF IssueEvent, repo
  <2> QED  BY <1>1, <2>2, <2>3 DEF IssueEvent, TypeOK, repo, ghosts
<1>2. ASSUME NEW k \in DOMAIN events, Redeliver(k)
      PROVE  TypeOK' /\ JobsSound'
  <2>1. JobsSound'  BY <1>2, JobsKept DEF Redeliver, repo
  <2> QED  BY <1>2, <2>1 DEF Redeliver, TypeOK, repo, ghosts
<1>3. CASE CommitToTrunk
  <2>1. Made(Trunk, People) \in Commit  BY DEF Made, Commit, TypeOK
  <2>2. JobsSound'  BY <1>3, JobsKept DEF CommitToTrunk, Others
  <2> QED  BY <1>3, <2>1, <2>2 DEF CommitToTrunk, TypeOK, Others
<1>4. ASSUME NEW i \in Issue, NEW merged \in {{}, trunk}, CommitToBranch(i, merged)
      PROVE  TypeOK' /\ JobsSound'
  <2>1. Made(i, People) \in Commit  BY DEF Made, Commit, TypeOK
  <2>2. JobsSound'  BY <1>4, JobsKept DEF CommitToBranch, Others
  <2>3. branch[i] \cup merged \cup {Made(i, People)} \in SUBSET Commit  BY <2>1 DEF TypeOK
  <2> QED  BY <1>4, <2>2, <2>3 DEF CommitToBranch, TypeOK, Others
<1>5. ASSUME NEW i \in Issue, NEW brought \in {{}, branch[i]}, MergePr(i, brought)
      PROVE  TypeOK' /\ JobsSound'
  <2>1. Made(Trunk, People) \in Commit  BY DEF Made, Commit, TypeOK
  <2>2. JobsSound'  BY <1>5, JobsKept DEF MergePr, Others
  <2>3. prs' \in [Issue -> Seq(States)]  BY <1>5, SettleStep DEF MergePr, TypeOK, States
  <2>4. trunk' \in SUBSET Commit  BY <1>5, <2>1 DEF MergePr, TypeOK
  <2> QED  BY <1>5, <2>2, <2>3, <2>4 DEF MergePr, TypeOK, Others, States
<1>6. ASSUME NEW i \in Issue, ClosePr(i)
      PROVE  TypeOK' /\ JobsSound'
  <2>1. JobsSound'  BY <1>6, JobsKept DEF ClosePr, Others
  <2>2. prs' \in [Issue -> Seq(States)]  BY <1>6, SettleStep DEF ClosePr, TypeOK, States
  <2> QED  BY <1>6, <2>1, <2>2 DEF ClosePr, TypeOK, Others, States
<1>7. ASSUME NEW i \in Issue, DeleteBranch(i)
      PROVE  TypeOK' /\ JobsSound'
  <2>1. JobsSound'  BY <1>7, JobsKept DEF DeleteBranch, Others
  <2>2. prs' \in [Issue -> Seq(States)]  BY <1>7, SettleStep DEF DeleteBranch, TypeOK, States
  <2> QED  BY <1>7, <2>1, <2>2 DEF DeleteBranch, TypeOK, Others, States
<1> QED  BY <1>1, <1>2, <1>3, <1>4, <1>5, <1>6, <1>7 DEF Outside

\* What the program does keeps the types and the jobs.
LEMMA RunTypes ==
  ASSUME TypeOK, JobsSound, NEW p \in Process, Run(p)
  PROVE  TypeOK' /\ JobsSound'
<1> USE ReactionAssumption
<1>1. CASE Clone(p)
  <2>1. job[p].phase = "clone"  BY <1>1 DEF Clone, In
  <2>2. job' = [job EXCEPT ![p].phase = "agent", ![p].base = trunk]  BY <1>1 DEF Clone
  <2>3. job' \in [Process -> Jobs] /\ \A q \in Process \ {p} : job'[q] = job[q]
    BY <2>2 DEF TypeOK, Jobs
  <2>4. job'[p].on = job[p].on /\ job'[p].at = job[p].at /\ job'[p].base = trunk
    BY <2>2 DEF TypeOK, Jobs
  <2>5. JobsSound'  BY <1>1, <2>1, <2>3, <2>4 DEF JobsSound, Clone, Inert
  <2> QED  BY <1>1, <2>3, <2>5 DEF Clone, Inert, TypeOK, ghosts
<1>2. CASE Push(p)
  <2>1. job[p].phase = "agent"  BY <1>2 DEF Push, In
  <2>2. IssueOf(p) \in Issue /\ ReactionOf(p) \in Reaction  BY <2>1, Running
  <2>3. Draft(p) \in SUBSET Commit
    <3>1. job[p].base \in SUBSET Commit  BY DEF TypeOK, JobsSound
    <3> QED  BY <2>2, <3>1 DEF Draft, Made, Commit, TypeOK
  <2>4. CASE Accepted(p) /\ job' = [job EXCEPT ![p].phase = "open", ![p].base = {}]
             /\ branch' = [branch EXCEPT ![IssueOf(p)] = Draft(p)] /\ made' = made + 1
    <3>1. job' \in [Process -> Jobs] /\ \A q \in Process \ {p} : job'[q] = job[q]
      BY <2>4 DEF TypeOK, Jobs
    <3>2. job'[p].on = job[p].on /\ job'[p].at = job[p].at /\ job'[p].base = {}
      BY <2>4 DEF TypeOK, Jobs
    <3>3. JobsSound'  BY <1>2, <2>1, <3>1, <3>2 DEF JobsSound, Push, Inert
    <3>4. branch' \in [Issue -> SUBSET Commit] /\ made' \in Nat  BY <2>2, <2>3, <2>4 DEF TypeOK
    <3> QED  BY <1>2, <3>1, <3>3, <3>4 DEF Push, Inert, TypeOK, ghosts
  <2>5. CASE NextReaction(p) /\ UNCHANGED <<branch, made>>
    <3>1. job' \in [Process -> Jobs] /\ JobsSound'  BY <1>2, <2>1, <2>5, NextStep DEF Push, Inert
    <3> QED  BY <1>2, <2>5, <3>1 DEF Push, Inert, TypeOK, ghosts
  <2> QED  BY <1>2, <2>4, <2>5 DEF Push
<1>3. CASE OpenPr(p)
  <2>1. job[p].phase = "open"  BY <1>3 DEF OpenPr, In
  <2>2. IssueOf(p) \in Issue /\ ReactionOf(p) \in Reaction  BY <2>1, Running
  <2>3. job' \in [Process -> Jobs] /\ JobsSound'  BY <1>3, <2>1, NextStep DEF OpenPr, Inert
  <2>4. prs' \in [Issue -> Seq(States)] /\ failed' \subseteq Issue \X Reaction
    <3>1. prs[IssueOf(p)] \in Seq(States)  BY <2>2 DEF TypeOK, States
    <3>2. Append(prs[IssueOf(p)], "open") \in Seq(States)  BY <3>1 DEF States
    <3>3. prs \in [Issue -> Seq(States)]  BY DEF TypeOK, States
    <3>4. prs' = prs \/ prs' = [prs EXCEPT ![IssueOf(p)] = Append(prs[IssueOf(p)], "open")]
      BY <1>3 DEF OpenPr
    <3>5. failed' = failed \/ failed' = failed \cup {<<IssueOf(p), ReactionOf(p)>>}
      BY <1>3 DEF OpenPr, Fail
    <3>6. failed \subseteq Issue \X Reaction  BY DEF TypeOK
    <3>7. failed' \subseteq Issue \X Reaction  BY <2>2, <3>5, <3>6
    <3>8. prs' \in [Issue -> Seq(States)]  BY ONLY <2>2, <3>2, <3>3, <3>4
    <3> QED  BY <3>7, <3>8
  <2> QED  BY <1>3, <2>3, <2>4 DEF OpenPr, Inert, TypeOK, States
<1>4. CASE NoEdit(p)
  <2>1. job[p].phase = "agent"  BY <1>4 DEF NoEdit, In
  <2>2. IssueOf(p) \in Issue /\ ReactionOf(p) \in Reaction  BY <2>1, Running
  <2>3. job' \in [Process -> Jobs] /\ JobsSound'  BY <1>4, <2>1, NextStep DEF NoEdit, Inert
  <2> QED  BY <1>4, <2>2, <2>3 DEF NoEdit, Fail, Inert, TypeOK
<1>5. CASE Error(p)
  <2>1. job[p].phase \in {"clone", "agent", "open"}  BY <1>5 DEF Error
  <2>2. IssueOf(p) \in Issue /\ ReactionOf(p) \in Reaction  BY <2>1, Running
  <2>3. job' \in [Process -> Jobs] /\ JobsSound'  BY <1>5, <2>1, NextStep DEF Error, Inert
  <2> QED  BY <1>5, <2>2, <2>3 DEF Error, Fail, Inert, TypeOK
<1>6. CASE Crash(p)
  <2>1. job' \in [Process -> Jobs] /\ JobsSound'
    <3> DEFINE none == {} zero == 0
    <3>1. Loop(p, zero, none)  BY <1>6 DEF Crash
    <3>2. UNCHANGED <<events, trunk>>  BY <1>6 DEF Crash, repo
    <3>3. none \in SUBSET DOMAIN Order /\ zero \in Nat /\ none = {}  OBVIOUS
    <3> HIDE DEF none, zero
    <3> QED  BY <3>1, <3>2, <3>3, JobsTurn
  <2>2. In(p, "open") => IssueOf(p) \in Issue  BY Running DEF In
  <2>3. failed' \subseteq Issue \X Reaction  BY <1>6 DEF Crash, Missed, TypeOK
  <2>4. orphan' \subseteq Issue  BY <1>6, <2>2 DEF Crash, TypeOK
  <2>5. inbox' \subseteq DOMAIN events /\ seen' \subseteq DOMAIN events
    BY <1>6 DEF Crash, TypeOK
  <2>6. mishaps' \in Nat  BY <1>6 DEF Crash, TypeOK
  <2>7. UNCHANGED <<trunk, branch, prs, events, made>>  BY <1>6 DEF Crash, repo
  <2> QED  BY <2>1, <2>3, <2>4, <2>5, <2>6, <2>7 DEF TypeOK
<1> QED  BY <1>1, <1>2, <1>3, <1>4, <1>5, <1>6 DEF Run, Work

\* A delivery or an invocation begins a run, if anything matches.
LEMMA BeginTypes ==
  ASSUME TypeOK, JobsSound, NEW k \in DOMAIN events,
         Receive(k) \/ \E p \in Cli : Invoke(p, k)
  PROVE  TypeOK' /\ JobsSound'
<1>1. MatchIssue(events[k], 0) \in SUBSET DOMAIN Order /\ k \in Nat  BY Left
<1>2. CASE Receive(k)
  <2>1. job' \in [Process -> Jobs] /\ JobsSound'
    <3>1. CASE k \in seen  BY <1>2, <3>1, JobsKept DEF Receive, repo, TypeOK
    <3>2. CASE k \notin seen
      <4>1. Loop(Server, k, MatchIssue(events[k], 0)) /\ UNCHANGED <<events, trunk>>
        BY <1>2, <3>2 DEF Receive, repo
      <4> QED  BY <1>1, <4>1, JobsTurn DEF Process
    <3> QED  BY <3>1, <3>2
  <2> QED  BY <1>2, <2>1 DEF Receive, TypeOK, repo, ghosts
<1>3. ASSUME NEW p \in Cli, Invoke(p, k)
      PROVE  TypeOK' /\ JobsSound'
  <2>1. job' \in [Process -> Jobs] /\ JobsSound'
    <3>1. Loop(p, k, MatchIssue(events[k], 0)) /\ UNCHANGED <<events, trunk>>
      BY <1>3 DEF Invoke, repo
    <3> QED  BY <1>1, <3>1, JobsTurn DEF Process
  <2> QED  BY <1>3, <2>1 DEF Invoke, TypeOK, repo, ghosts
<1> QED  BY <1>2, <1>3

-----------------------------------------------------------------------------
(* What the repository looks like.                                         *)

\* A commit that is being made is on no ref yet.
LEMMA NewCommit ==
  ASSUME TypeOK, Fresh, NEW i, NEW who
  PROVE  /\ Made(i, who) \notin trunk
         /\ \A j \in Issue : Made(i, who) \notin branch[j]
         /\ Made(i, who).n = made /\ Made(i, who).for = i /\ Made(i, who).by = who
<1>1. Made(i, who).n = made /\ Made(i, who).for = i /\ Made(i, who).by = who  BY DEF Made
<1>2. made \in Nat  BY DEF TypeOK
<1>3. \A c \in trunk : c # Made(i, who)  BY <1>1, <1>2 DEF Fresh
<1>4. \A j \in Issue : \A c \in branch[j] : c # Made(i, who)  BY <1>1, <1>2 DEF Fresh
<1> QED  BY <1>1, <1>3, <1>4

LEMMA RepoKept ==
  ASSUME Repo, UNCHANGED <<trunk, branch, prs, made>>
  PROVE  Repo'
  BY DEF Repo, Fresh, OwnWork, OpenHasWork, HasOpen, Drafted, MergedByPeople

\* Numbers are given out in order.
LEMMA FreshAgain ==
  ASSUME TypeOK, TypeOK', made' = made + 1, NEW i, NEW who,
         \A c \in trunk' : c.n < made \/ c = Made(i, who),
         \A j \in Issue : \A c \in branch'[j] : c.n < made \/ c = Made(i, who)
  PROVE  Fresh'
<1>1. Made(i, who).n = made  BY DEF Made
<1>2. made \in Nat  BY DEF TypeOK
<1>3. \A c \in Commit : c.n \in Nat  BY DEF Commit
<1>4. ASSUME NEW c \in Commit, c.n < made \/ c = Made(i, who) PROVE c.n < made + 1
  BY <1>1, <1>2, <1>3, <1>4
<1>5. trunk' \subseteq Commit /\ \A j \in Issue : branch'[j] \subseteq Commit  BY DEF TypeOK
<1> QED  BY <1>4, <1>5 DEF Fresh

\* Each step of people that changes the repository keeps what is said of it.
LEMMA TrunkRepo ==
  ASSUME TypeOK, TypeOK', Repo, CommitToTrunk
  PROVE  Repo'
<1> DEFINE new == Made(Trunk, People)
<1>1. /\ new \notin trunk /\ \A j \in Issue : new \notin branch[j]
      /\ new.by = People
  BY NewCommit DEF Repo
<1>2. Fresh'
  BY FreshAgain DEF CommitToTrunk, Repo, Fresh
<1>3. trunk' = trunk \cup {new} /\ UNCHANGED <<branch, prs>>  BY DEF CommitToTrunk
<1> HIDE DEF new
<1>4. OwnWork' /\ Drafted'  BY <1>3 DEF Repo, OwnWork, Drafted
<1>5. OpenHasWork'  BY <1>1, <1>3 DEF Repo, OpenHasWork, HasOpen
<1>6. MergedByPeople'  BY <1>1, <1>3 DEF Repo, MergedByPeople
<1> QED  BY <1>2, <1>4, <1>5, <1>6 DEF Repo

LEMMA BranchRepo ==
  ASSUME TypeOK, TypeOK', Repo, NEW i \in Issue, NEW merged \in {{}, trunk},
         CommitToBranch(i, merged)
  PROVE  Repo'
<1> DEFINE new == Made(i, People)
<1>1. new \notin trunk /\ new.for = i  BY NewCommit DEF Repo
<1>2. /\ UNCHANGED <<trunk, prs>> /\ branch[i] # {}
      /\ branch'[i] = branch[i] \cup merged \cup {new}
      /\ \A j \in Issue \ {i} : branch'[j] = branch[j]
  BY DEF CommitToBranch, TypeOK
<1>3. Fresh'
  <2>1. \A j \in Issue : \A c \in branch'[j] : c.n < made \/ c = Made(i, People)
    <3> SUFFICES ASSUME NEW j \in Issue, NEW c \in branch'[j]
                 PROVE  c.n < made \/ c = Made(i, People)
      OBVIOUS
    <3>1. CASE j = i  BY <1>2, <3>1 DEF Repo, Fresh
    <3>2. CASE j # i  BY <1>2, <3>2 DEF Repo, Fresh
    <3> QED  BY <3>1, <3>2
  <2>2. \A c \in trunk' : c.n < made  BY <1>2 DEF Repo, Fresh
  <2>3. made' = made + 1  BY DEF CommitToBranch
  <2> QED  BY <2>1, <2>2, <2>3, FreshAgain
<1> HIDE DEF new
<1>4. OwnWork'  BY <1>1, <1>2 DEF Repo, OwnWork
<1>5. Drafted'
  <2> SUFFICES ASSUME NEW j \in Issue, branch'[j] # {}
               PROVE  \E c \in branch'[j] : c.for = j /\ c.by # People
    BY DEF Drafted
  <2>1. branch[j] # {} /\ branch[j] \subseteq branch'[j]  BY <1>2
  <2> QED  BY <2>1 DEF Repo, Drafted
<1>6. OpenHasWork'  BY <1>1, <1>2 DEF Repo, OpenHasWork, HasOpen
<1>7. MergedByPeople'  BY <1>2 DEF Repo, MergedByPeople
<1> QED  BY <1>3, <1>4, <1>5, <1>6, <1>7 DEF Repo

\* Settling an issue's pull requests leaves none of them open, touches no other's
\* and keeps what was merged.
LEMMA SettledRepo ==
  ASSUME TypeOK, NEW i \in Issue, NEW state \in {"merged", "closed"}, prs' = Settle(i, state)
  PROVE  /\ ~(HasOpen(i)')
         /\ \A j \in Issue \ {i} : HasOpen(j)' => HasOpen(j)
         /\ \A j \in Issue : (\E k \in DOMAIN prs[j] : prs[j][k] = "merged")
                               => \E k \in DOMAIN prs'[j] : prs'[j][k] = "merged"
         /\ state = "merged" /\ HasOpen(i) => \E k \in DOMAIN prs'[i] : prs'[i][k] = "merged"
         /\ \A j \in Issue : prs[j] # <<>> => prs'[j] # <<>>
<1>1. prs \in [Issue -> Seq(States)]  BY DEF TypeOK, States
<1>2. /\ \A j \in Issue \ {i} : prs'[j] = prs[j]
      /\ DOMAIN prs'[i] = DOMAIN prs[i]
      /\ \A k \in DOMAIN prs[i] :
           prs'[i][k] = IF prs[i][k] = "open" THEN state ELSE prs[i][k]
      /\ prs[i] # <<>> => prs'[i] # <<>>
  BY <1>1, SettleStep
<1>3. state # "open"  OBVIOUS
<1> QED  BY <1>2, <1>3 DEF HasOpen

LEMMA MergeRepo ==
  ASSUME TypeOK, TypeOK', Repo, NEW i \in Issue, NEW brought \in {{}, branch[i]},
         MergePr(i, brought)
  PROVE  Repo'
<1> DEFINE new == Made(Trunk, People)
<1>1. /\ new \notin trunk /\ \A j \in Issue : new \notin branch[j]
      /\ new.by = People
  BY NewCommit DEF Repo
<1>2. /\ trunk' = trunk \cup brought \cup {new} /\ UNCHANGED branch
      /\ prs' = Settle(i, "merged") /\ HasOpen(i)
  BY DEF MergePr
<1>3. Fresh'
  <2>1. \A c \in trunk' : c.n < made \/ c = Made(Trunk, People)
    BY <1>2 DEF Repo, Fresh
  <2>2. \A j \in Issue : \A c \in branch'[j] : c.n < made  BY <1>2 DEF Repo, Fresh
  <2>3. made' = made + 1  BY DEF MergePr
  <2> QED  BY <2>1, <2>2, <2>3, FreshAgain
<1> HIDE DEF new
<1>4. /\ ~(HasOpen(i)')
      /\ \A j \in Issue \ {i} : HasOpen(j)' => HasOpen(j)
      /\ \A j \in Issue : (\E k \in DOMAIN prs[j] : prs[j][k] = "merged")
                            => \E k \in DOMAIN prs'[j] : prs'[j][k] = "merged"
      /\ \E k \in DOMAIN prs'[i] : prs'[i][k] = "merged"
  BY <1>2, SettledRepo
<1>5. OwnWork' /\ Drafted'  BY <1>2 DEF Repo, OwnWork, Drafted
<1>6. OpenHasWork'
  <2> SUFFICES ASSUME NEW j \in Issue, HasOpen(j)', branch[j] \subseteq trunk'
               PROVE  FALSE
    BY <1>2 DEF OpenHasWork
  <2>1. j # i /\ HasOpen(j)  BY <1>4
  <2>2. PICK c \in branch[j] : c \notin trunk  BY <2>1 DEF Repo, OpenHasWork
  <2>3. c.for = j  BY <2>2 DEF Repo, OwnWork
  <2>4. c \in branch[i]  BY <1>1, <1>2, <2>2
  <2>5. c.for = i  BY <2>2, <2>4 DEF Repo, OwnWork
  <2> QED  BY <2>1, <2>3, <2>5
<1>7. MergedByPeople'
  <2> SUFFICES ASSUME NEW c \in trunk', c.by # People
               PROVE  c.for \in Issue /\ \E k \in DOMAIN prs'[c.for] : prs'[c.for][k] = "merged"
    BY DEF MergedByPeople
  <2>1. CASE c \in trunk  BY <1>4, <2>1 DEF Repo, MergedByPeople
  <2>2. CASE c \notin trunk
    <3>1. c \in branch[i]  BY <1>1, <1>2, <2>2
    <3>2. c.for = i  BY <2>2, <3>1 DEF Repo, OwnWork
    <3> QED  BY <1>4, <3>2
  <2> QED  BY <2>1, <2>2
<1> QED  BY <1>3, <1>5, <1>6, <1>7 DEF Repo

LEMMA CloseRepo ==
  ASSUME TypeOK, Repo, NEW i \in Issue, ClosePr(i) \/ DeleteBranch(i)
  PROVE  Repo'
<1>1. /\ UNCHANGED <<trunk, made>> /\ prs' = Settle(i, "closed")
      /\ \A j \in Issue : branch'[j] = branch[j] \/ branch'[j] = {}
      /\ \A j \in Issue \ {i} : branch'[j] = branch[j]
  BY DEF ClosePr, DeleteBranch, TypeOK
<1>2. /\ ~(HasOpen(i)')
      /\ \A j \in Issue \ {i} : HasOpen(j)' => HasOpen(j)
      /\ \A j \in Issue : (\E k \in DOMAIN prs[j] : prs[j][k] = "merged")
                            => \E k \in DOMAIN prs'[j] : prs'[j][k] = "merged"
  BY <1>1, SettledRepo
<1>3. Fresh'  BY <1>1 DEF Repo, Fresh
<1>4. OwnWork' /\ Drafted'  BY <1>1 DEF Repo, OwnWork, Drafted
<1>5. OpenHasWork'  BY <1>1, <1>2 DEF Repo, OpenHasWork
<1>6. MergedByPeople'  BY <1>1, <1>2 DEF Repo, MergedByPeople
<1> QED  BY <1>3, <1>4, <1>5, <1>6 DEF Repo

\* A push that is accepted ends no review: the branch it moves was on the trunk
\* when the run cloned it, or did not exist.
LEMMA PushOverMerged ==
  ASSUME TypeOK, JobsSound, Repo, NEW p \in Process, In(p, "agent"), Accepted(p)
  PROVE  branch[IssueOf(p)] \subseteq trunk /\ ~HasOpen(IssueOf(p))
<1>1. job[p].base \subseteq trunk  BY DEF JobsSound
<1>2. IssueOf(p) \in Issue  BY Running DEF In
<1>3. Made(IssueOf(p), ReactionOf(p)) \notin branch[IssueOf(p)]  BY <1>2, NewCommit DEF Repo
<1>4. branch[IssueOf(p)] \subseteq trunk  BY <1>1, <1>3 DEF Accepted, Draft
<1> QED  BY <1>2, <1>4 DEF Repo, OpenHasWork

LEMMA PushRepo ==
  ASSUME TypeOK, TypeOK', JobsSound, Repo, NEW p \in Process, Push(p)
  PROVE  Repo'
<1> DEFINE i == IssueOf(p)
           new == Made(i, ReactionOf(p))
<1>1. In(p, "agent") /\ UNCHANGED <<trunk, prs>>  BY DEF Push, Inert
<1>2. CASE UNCHANGED <<branch, made>>  BY <1>1, <1>2, RepoKept
<1>3. CASE Accepted(p) /\ branch' = [branch EXCEPT ![i] = Draft(p)] /\ made' = made + 1
  <2>1. i \in Issue /\ ReactionOf(p) \in Reaction  BY <1>1, Running DEF In
  <2>2. job[p].base \subseteq trunk  BY DEF JobsSound
  <2>3. branch'[i] = job[p].base \cup {new} /\ \A j \in Issue \ {i} : branch'[j] = branch[j]
    BY <1>3, <2>1 DEF Draft, TypeOK
  <2>4. new.for = i /\ new.by = ReactionOf(p)  BY NewCommit DEF Repo
  <2>5. branch[i] \subseteq trunk /\ ~HasOpen(i)  BY <1>1, <1>3, PushOverMerged
  <2>6. Fresh'
    <3>1. \A c \in trunk' : c.n < made  BY <1>1 DEF Repo, Fresh
    <3>2. \A j \in Issue : \A c \in branch'[j] : c.n < made \/ c = Made(i, ReactionOf(p))
      BY <2>2, <2>3 DEF Repo, Fresh
    <3> QED  BY <1>3, <3>1, <3>2, FreshAgain
  <2> HIDE DEF i, new
  <2>7. OwnWork'  BY <1>1, <2>2, <2>3, <2>4 DEF Repo, OwnWork
  <2>8. OpenHasWork'
    <3> SUFFICES ASSUME NEW j \in Issue, HasOpen(j)' PROVE ~(branch'[j] \subseteq trunk)
      BY <1>1 DEF OpenHasWork
    <3>1. HasOpen(j)  BY <1>1 DEF HasOpen
    <3>2. j # i  BY <2>5, <3>1
    <3> QED  BY <2>3, <3>1, <3>2 DEF Repo, OpenHasWork
  <2>9. Drafted'
    <3>1. new.by # People  BY <2>1, <2>4, ReactionAssumption
    <3> SUFFICES ASSUME NEW j \in Issue, branch'[j] # {}
                 PROVE  \E c \in branch'[j] : c.for = j /\ c.by # People
      BY DEF Drafted
    <3>2. CASE j = i  BY <2>3, <2>4, <3>1, <3>2
    <3>3. CASE j # i  BY <2>3, <3>3 DEF Repo, Drafted
    <3> QED  BY <3>2, <3>3
  <2>10. MergedByPeople'  BY <1>1 DEF Repo, MergedByPeople
  <2> QED  BY <2>6, <2>7, <2>8, <2>9, <2>10 DEF Repo
<1> QED  BY <1>2, <1>3 DEF Push

LEMMA OpenPrRepo ==
  ASSUME TypeOK, JobsSound, Repo, NEW p \in Process, OpenPr(p)
  PROVE  Repo'
<1> DEFINE i == IssueOf(p)
<1>1. In(p, "open") /\ UNCHANGED <<trunk, branch, made>>  BY DEF OpenPr, Inert
<1>2. CASE UNCHANGED prs  BY <1>1, <1>2, RepoKept
<1>3. CASE ~(branch[i] \subseteq trunk) /\ prs' = [prs EXCEPT ![i] = Append(@, "open")]
  <2>1. i \in Issue  BY <1>1, Running DEF In
  <2>2. /\ prs[i] \in Seq(States) /\ prs'[i] = Append(prs[i], "open")
        /\ \A j \in Issue \ {i} : prs'[j] = prs[j]
    BY <1>3, <2>1 DEF TypeOK, States
  <2> HIDE DEF i
  <2>3. \A k \in DOMAIN prs[i] : k \in DOMAIN prs'[i] /\ prs'[i][k] = prs[i][k]
    BY <2>2
  <2>4. Fresh' /\ OwnWork' /\ Drafted'  BY <1>1 DEF Repo, Fresh, OwnWork, Drafted
  <2>5. OpenHasWork'  BY <1>1, <1>3, <2>2 DEF Repo, OpenHasWork, HasOpen
  <2>6. MergedByPeople'  BY <1>1, <2>2, <2>3 DEF Repo, MergedByPeople
  <2> QED  BY <2>4, <2>5, <2>6 DEF Repo
<1> QED  BY <1>2, <1>3 DEF OpenPr

\* The program and the people keep what is said of the repository.
LEMMA RepoStep ==
  ASSUME TypeOK, TypeOK', JobsSound, Repo, [Next]_vars
  PROVE  Repo'
<1>1. CASE UNCHANGED vars  BY <1>1, RepoKept DEF vars
<1>2. CASE Outside
  <2>1. ASSUME NEW i \in Issue, NEW action \in Action, NEW ls \in SUBSET Label,
               IssueEvent(i, action, ls)
        PROVE  Repo'
    BY <2>1, RepoKept DEF IssueEvent, repo
  <2>2. ASSUME NEW k \in DOMAIN events, Redeliver(k) PROVE Repo'
    BY <2>2, RepoKept DEF Redeliver, repo
  <2> QED  BY <1>2, <2>1, <2>2, TrunkRepo, BranchRepo, MergeRepo, CloseRepo DEF Outside
<1>3. ASSUME NEW k \in DOMAIN events, Receive(k) \/ \E p \in Cli : Invoke(p, k)
      PROVE  Repo'
  BY <1>3, RepoKept DEF Receive, Invoke, repo
<1>4. ASSUME NEW p \in Process, Run(p) PROVE Repo'
  <2>1. CASE Clone(p) \/ NoEdit(p) \/ Error(p)
    BY <2>1, RepoKept DEF Clone, NoEdit, Error, Inert
  <2>2. CASE Crash(p)  BY <2>2, RepoKept DEF Crash, repo
  <2> QED  BY <1>4, <2>1, <2>2, PushRepo, OpenPrRepo DEF Run, Work
<1> QED  BY <1>1, <1>2, <1>3, <1>4 DEF Next

-----------------------------------------------------------------------------
(* No branch without a pull request.                                       *)

\* It is enough that no new branch appears, pull requests and orphans stay, and
\* a process about to open a pull request is left alone or leaves one of these.
LEMMA HasPrKept ==
  ASSUME TypeOK, JobsSound, BranchHasPr,
         \A k \in DOMAIN events : events'[k] = events[k],
         \A i \in Issue : branch'[i] # {} => branch[i] # {},
         \A i \in Issue : prs[i] # <<>> => prs'[i] # <<>>,
         orphan \subseteq orphan',
         \A p \in Process : In(p, "open") =>
           \/ job'[p] = job[p] \/ IssueOf(p) \in orphan'
           \/ prs'[IssueOf(p)] # <<>> \/ branch'[IssueOf(p)] = {}
  PROVE  BranchHasPr'
<1> SUFFICES ASSUME NEW i \in Issue, branch'[i] # {}, i \notin orphan', prs'[i] = <<>>
             PROVE  \E p \in Process : In(p, "open")' /\ IssueOf(p)' = i
  BY DEF BranchHasPr
<1>1. branch[i] # {} /\ i \notin orphan /\ prs[i] = <<>>  OBVIOUS
<1>2. PICK p \in Process : In(p, "open") /\ IssueOf(p) = i  BY <1>1 DEF BranchHasPr
<1>3. job'[p] = job[p]  BY <1>2
<1>4. job[p].on \in DOMAIN events  BY <1>2, Running DEF In
<1> QED  BY <1>2, <1>3, <1>4 DEF In, IssueOf

LEMMA HasPrOutside ==
  ASSUME TypeOK, JobsSound, BranchHasPr, Outside
  PROVE  BranchHasPr'
<1>1. ASSUME NEW i \in Issue, NEW action \in Action, NEW ls \in SUBSET Label,
             IssueEvent(i, action, ls)
      PROVE  BranchHasPr'
  <2>1. \A k \in DOMAIN events : events'[k] = events[k]  BY <1>1 DEF IssueEvent, TypeOK
  <2> QED  BY <1>1, <2>1, HasPrKept DEF IssueEvent, repo, ghosts
<1>2. ASSUME NEW k \in DOMAIN events, Redeliver(k) PROVE BranchHasPr'
  BY <1>2, HasPrKept DEF Redeliver, repo, ghosts
<1>3. CASE CommitToTrunk  BY <1>3, HasPrKept DEF CommitToTrunk, Others
<1>4. ASSUME NEW i \in Issue, NEW merged \in {{}, trunk}, CommitToBranch(i, merged)
      PROVE  BranchHasPr'
  <2>1. \A j \in Issue : branch'[j] # {} => branch[j] # {}
    BY <1>4 DEF CommitToBranch, TypeOK
  <2> QED  BY <1>4, <2>1, HasPrKept DEF CommitToBranch, Others
<1>5. ASSUME NEW i \in Issue, NEW brought \in {{}, branch[i]}, MergePr(i, brought)
      PROVE  BranchHasPr'
  <2>1. \A j \in Issue : prs[j] # <<>> => prs'[j] # <<>>  BY <1>5, SettledRepo DEF MergePr
  <2> QED  BY <1>5, <2>1, HasPrKept DEF MergePr, Others
<1>6. ASSUME NEW i \in Issue, ClosePr(i) PROVE BranchHasPr'
  <2>1. \A j \in Issue : prs[j] # <<>> => prs'[j] # <<>>  BY <1>6, SettledRepo DEF ClosePr
  <2> QED  BY <1>6, <2>1, HasPrKept DEF ClosePr, Others
<1>7. ASSUME NEW i \in Issue, DeleteBranch(i) PROVE BranchHasPr'
  <2>1. \A j \in Issue : prs[j] # <<>> => prs'[j] # <<>>  BY <1>7, SettledRepo DEF DeleteBranch
  <2>2. \A j \in Issue : branch'[j] # {} => branch[j] # {}  BY <1>7 DEF DeleteBranch, TypeOK
  <2>3. orphan \subseteq orphan'  BY <1>7 DEF DeleteBranch
  <2> QED  BY <1>7, <2>1, <2>2, <2>3, HasPrKept DEF DeleteBranch, Others
<1> QED  BY <1>1, <1>2, <1>3, <1>4, <1>5, <1>6, <1>7 DEF Outside

\* Another process's job is left alone by whoever turns to the next reaction.
LEMMA OthersWait ==
  ASSUME TypeOK, JobsSound, NEW p \in Process, job[p].phase \in {"clone", "agent", "open"},
         NextReaction(p), NEW q \in Process \ {p}
  PROVE  job'[q] = job[q]
<1>1. job[p].on \in DOMAIN events  BY Running
<1> DEFINE left == MatchIssue(events[job[p].on], job[p].at)
<1>2. left \in SUBSET DOMAIN Order /\ job[p].on \in Nat  BY <1>1, Left
<1>3. Loop(p, job[p].on, left)  BY DEF NextReaction
<1> HIDE DEF left
<1> QED  BY <1>2, <1>3, LoopStep DEF TypeOK

LEMMA HasPrRun ==
  ASSUME TypeOK, TypeOK', JobsSound, Repo, BranchHasPr, NEW p \in Process, Run(p)
  PROVE  BranchHasPr'
<1>1. CASE Clone(p)
  <2>1. \A q \in Process : In(q, "open") => job'[q] = job[q]
    BY <1>1 DEF Clone, In, TypeOK
  <2> QED  BY <1>1, <2>1, HasPrKept DEF Clone, Inert, ghosts
<1>2. CASE Push(p)
  <2>1. In(p, "agent") /\ UNCHANGED <<prs, events, orphan>>  BY <1>2 DEF Push, Inert, ghosts
  <2>2. CASE Accepted(p) /\ branch' = [branch EXCEPT ![IssueOf(p)] = Draft(p)]
             /\ job' = [job EXCEPT ![p].phase = "open", ![p].base = {}]
    <3>1. /\ job'[p].phase = "open" /\ job'[p].on = job[p].on
          /\ \A q \in Process \ {p} : job'[q] = job[q]
      BY <2>2 DEF TypeOK, Jobs
    <3>2. \A j \in Issue \ {IssueOf(p)} : branch'[j] = branch[j]  BY <2>2 DEF TypeOK
    <3> SUFFICES ASSUME NEW i \in Issue, branch'[i] # {}, i \notin orphan', prs'[i] = <<>>
                 PROVE  \E q \in Process : In(q, "open")' /\ IssueOf(q)' = i
      BY DEF BranchHasPr
    <3>3. CASE i = IssueOf(p)  BY <2>1, <3>1, <3>3 DEF In, IssueOf
    <3>4. CASE i # IssueOf(p)
      <4>1. PICK q \in Process : In(q, "open") /\ IssueOf(q) = i
        BY <2>1, <3>2, <3>4 DEF BranchHasPr
      <4>2. q # p  BY <2>1, <4>1 DEF In
      <4> QED  BY <2>1, <3>1, <4>1, <4>2 DEF In, IssueOf
    <3> QED  BY <3>3, <3>4
  <2>3. CASE NextReaction(p) /\ UNCHANGED <<branch, made>>
    <3>1. \A q \in Process : In(q, "open") => job'[q] = job[q]
      BY <2>1, <2>3, OthersWait DEF In
    <3> QED  BY <2>1, <2>3, <3>1, HasPrKept
  <2> QED  BY <1>2, <2>2, <2>3 DEF Push
<1>3. CASE OpenPr(p)
  <2> DEFINE i == IssueOf(p)
  <2>1. In(p, "open") /\ NextReaction(p) /\ UNCHANGED <<events, branch, orphan>>
    BY <1>3 DEF OpenPr, Inert
  <2>2. i \in Issue  BY <2>1, Running DEF In
  <2>3. \A j \in Issue : prs[j] # <<>> => prs'[j] # <<>>
    <3>1. CASE UNCHANGED prs  BY <3>1
    <3>2. CASE prs' = [prs EXCEPT ![i] = Append(@, "open")]  BY <2>2, <3>2 DEF TypeOK
    <3> QED  BY <1>3, <3>1, <3>2 DEF OpenPr
  <2>4. prs'[i] # <<>> \/ branch[i] = {}
    <3>1. CASE HasOpen(i)  BY <2>2, <2>3, <3>1 DEF HasOpen
    <3>2. CASE branch[i] \subseteq trunk /\ branch[i] # {}
      <4>1. PICK c \in branch[i] : c.for = i /\ c.by # People  BY <2>2, <3>2 DEF Repo, Drafted
      <4>2. \E k \in DOMAIN prs[i] : prs[i][k] = "merged"
        BY <3>2, <4>1 DEF Repo, MergedByPeople
      <4> QED  BY <2>2, <2>3, <4>2
    <3>3. CASE prs' = [prs EXCEPT ![i] = Append(@, "open")]  BY <2>2, <3>3 DEF TypeOK
    <3> QED  BY <1>3, <3>1, <3>2, <3>3 DEF OpenPr
  <2>5. \A q \in Process : q # p => job'[q] = job[q]  BY <2>1, OthersWait DEF In
  <2> QED  BY <2>1, <2>3, <2>4, <2>5, HasPrKept
<1>4. CASE NoEdit(p)
  <2>1. \A q \in Process : In(q, "open") => job'[q] = job[q]
    BY <1>4, OthersWait DEF NoEdit, In
  <2> QED  BY <1>4, <2>1, HasPrKept DEF NoEdit, Inert
<1>5. CASE Error(p)
  <2>1. \A q \in Process \ {p} : job'[q] = job[q]  BY <1>5, OthersWait DEF Error
  <2>2. orphan \subseteq orphan' /\ (In(p, "open") => IssueOf(p) \in orphan')
    BY <1>5 DEF Error
  <2>3. UNCHANGED <<branch, prs, events>>  BY <1>5 DEF Error, Inert
  <2> QED  BY <2>1, <2>2, <2>3, HasPrKept
<1>6. CASE Crash(p)
  <2>1. \A q \in Process \ {p} : job'[q] = job[q]
    <3> DEFINE none == {} zero == 0
    <3>1. Loop(p, zero, none)  BY <1>6 DEF Crash
    <3>2. none \in SUBSET DOMAIN Order /\ zero \in Nat  OBVIOUS
    <3> HIDE DEF none, zero
    <3> QED  BY <3>1, <3>2, LoopStep DEF TypeOK
  <2>2. orphan \subseteq orphan' /\ (In(p, "open") => IssueOf(p) \in orphan')
    BY <1>6 DEF Crash
  <2>3. UNCHANGED <<branch, prs, events>>  BY <1>6 DEF Crash, repo
  <2> QED  BY <2>1, <2>2, <2>3, HasPrKept
<1> QED  BY <1>1, <1>2, <1>3, <1>4, <1>5, <1>6 DEF Run, Work

LEMMA HasPrBegin ==
  ASSUME TypeOK, JobsSound, BranchHasPr, NEW k \in DOMAIN events,
         Receive(k) \/ \E p \in Cli : Invoke(p, k)
  PROVE  BranchHasPr'
<1>1. MatchIssue(events[k], 0) \in SUBSET DOMAIN Order /\ k \in Nat  BY Left
<1>2. UNCHANGED <<branch, prs, events, orphan>>  BY DEF Receive, Invoke, repo, ghosts
<1>3. PICK p \in Process : job[p].phase = "idle"
                           /\ (UNCHANGED job \/ Loop(p, k, MatchIssue(events[k], 0)))
  BY DEF Receive, Invoke, Process
<1>4. \A q \in Process \ {p} : job'[q] = job[q]  BY <1>1, <1>3, LoopStep DEF TypeOK
<1>5. \A q \in Process : In(q, "open") => job'[q] = job[q]  BY <1>3, <1>4 DEF In
<1> QED  BY <1>2, <1>5, HasPrKept

-----------------------------------------------------------------------------
(* The theorems.                                                           *)

\* The invariant holds at first and is kept by every step.
THEOREM Invariant == Spec => []IInv
<1>1. Init => IInv
  <2> SUFFICES ASSUME Init PROVE IInv  OBVIOUS
  <2> USE ReactionAssumption DEF Init
  <2>1. Idle \in Jobs /\ Idle.base = {} /\ Idle.phase = "idle"  BY DEF Idle, Jobs
  <2>2. TypeOK  BY <2>1 DEF TypeOK
  <2>3. JobsSound  BY <2>1 DEF JobsSound
  <2>4. Repo  BY DEF Repo, Fresh, OwnWork, OpenHasWork, HasOpen, Drafted, MergedByPeople
  <2>5. BranchHasPr  BY DEF BranchHasPr
  <2> QED  BY <2>2, <2>3, <2>4, <2>5 DEF IInv
<1>2. IInv /\ [Next]_vars => IInv'
  <2> SUFFICES ASSUME IInv, [Next]_vars PROVE IInv'  OBVIOUS
  <2> USE DEF IInv
  <2>1. TypeOK' /\ JobsSound'
    <3>1. CASE UNCHANGED vars  BY <3>1 DEF vars, TypeOK, JobsSound
    <3> QED  BY <3>1, OutsideTypes, BeginTypes, RunTypes DEF Next
  <2>2. Repo'  BY <2>1, RepoStep
  <2>3. BranchHasPr'
    <3>1. CASE UNCHANGED vars  BY <3>1 DEF vars, BranchHasPr, In, IssueOf
    <3> QED  BY <2>1, <3>1, HasPrOutside, HasPrBegin, HasPrRun DEF Next
  <2> QED  BY <2>1, <2>2, <2>3
<1> QED  BY <1>1, <1>2, PTL DEF Spec

\* Refs, pull requests, deliveries and jobs keep their types.
THEOREM TypeCorrect == Spec => []TypeOK
BY Invariant, PTL DEF IInv

\* A draft is on the trunk only if people merged a pull request of its issue.
THEOREM NeverMerges == Spec => []MergedByPeople
BY Invariant, PTL DEF IInv, Repo

\* An issue's branch holds work on this issue and the trunk, whatever issues one
\* process drafts for one after the other.
THEOREM BranchesApart == Spec => []OwnWork
BY Invariant, PTL DEF IInv, Repo

\* A branch without a pull request is about to get one, or an orphan.
THEOREM NoSilentBranch == Spec => []BranchHasPr
BY Invariant, PTL DEF IInv

\* A step moves a branch forward or deletes it, and puts no draft on a branch that
\* is under review.
LEMMA BranchStep ==
  ASSUME IInv, [Next]_vars, NEW i \in Issue
  PROVE  /\ branch'[i] = {} \/ branch[i] \subseteq branch'[i]
         /\ HasOpen(i) => \A c \in branch'[i] \ branch[i] : c.by = People \/ c \in trunk
<1> USE DEF IInv
<1>1. CASE branch'[i] = branch[i]  BY <1>1
<1>2. CASE branch' # branch
  <2>1. CASE UNCHANGED vars  BY <1>2, <2>1 DEF vars
  <2>2. CASE Outside
    <3>1. ASSUME NEW j \in Issue, NEW merged \in {{}, trunk}, CommitToBranch(j, merged)
          PROVE  /\ branch[i] \subseteq branch'[i]
                 /\ \A c \in branch'[i] \ branch[i] : c.by = People \/ c \in trunk
      <4>1. Made(j, People).by = People  BY DEF Made
      <4>2. branch' = [branch EXCEPT ![j] = @ \cup merged \cup {Made(j, People)}]
        BY <3>1 DEF CommitToBranch
      <4> HIDE DEF IInv
      <4>3. branch \in [Issue -> SUBSET Commit]  BY DEF IInv, TypeOK
      <4> QED  BY <4>1, <4>2, <4>3
    <3>2. ASSUME NEW j \in Issue, DeleteBranch(j)
          PROVE  branch'[i] = {} \/ branch'[i] = branch[i]
      BY <3>2 DEF DeleteBranch, TypeOK
    <3>3. ASSUME NEW j \in Issue, NEW action \in Action, NEW ls \in SUBSET Label,
                 IssueEvent(j, action, ls)
          PROVE  FALSE
      BY <1>2, <3>3 DEF IssueEvent, repo
    <3>4. ASSUME NEW k \in DOMAIN events, Redeliver(k) PROVE FALSE
      BY <1>2, <3>4 DEF Redeliver, repo
    <3>5. ASSUME NEW j \in Issue, (\E brought \in {{}, branch[j]} : MergePr(j, brought))
                                  \/ ClosePr(j)
          PROVE  FALSE
      BY <1>2, <3>5 DEF MergePr, ClosePr
    <3>6. ~CommitToTrunk  BY <1>2 DEF CommitToTrunk
    <3> QED  BY <2>2, <3>1, <3>2, <3>3, <3>4, <3>5, <3>6 DEF Outside
  <2>3. ASSUME NEW k \in DOMAIN events, Receive(k) \/ \E p \in Cli : Invoke(p, k)
        PROVE  FALSE
    BY <1>2, <2>3 DEF Receive, Invoke, repo
  <2>4. ASSUME NEW p \in Process, Run(p)
        PROVE  /\ branch[i] \subseteq branch'[i]
               /\ HasOpen(i) => branch'[i] = branch[i]
    <3>1. Push(p)
      BY <1>2, <2>4 DEF Run, Work, Clone, OpenPr, NoEdit, Error, Crash, Inert, repo
    <3>2. In(p, "agent") /\ Accepted(p) /\ branch' = [branch EXCEPT ![IssueOf(p)] = Draft(p)]
      BY <1>2, <3>1 DEF Push
    <3>3. ~HasOpen(IssueOf(p))  BY <3>2, PushOverMerged
    <3>4. branch[IssueOf(p)] \subseteq Draft(p)  BY <3>2 DEF Accepted
    <3> HIDE DEF IInv
    <3>5. branch \in [Issue -> SUBSET Commit]  BY DEF IInv, TypeOK
    <3> QED  BY <3>2, <3>3, <3>4, <3>5
  <2> QED  BY <2>1, <2>2, <2>3, <2>4 DEF Next
<1> QED  BY <1>1, <1>2

\* No push takes a commit off a branch, whoever made it.
THEOREM NothingOverwritten == Spec => BranchesKept
<1>1. IInv /\ [Next]_vars => [\A i \in Issue : branch'[i] = {} \/ branch[i] \subseteq branch'[i]]_vars
  BY BranchStep
<1> QED  BY <1>1, Invariant, PTL DEF Spec, BranchesKept

\* A branch under review gets no draft.
THEOREM ReviewsUndisturbed == Spec => ReviewUndisturbed
<1>1. IInv /\ [Next]_vars =>
        [\A i \in Issue : HasOpen(i) =>
           \A c \in branch'[i] \ branch[i] : c.by = People \/ c \in trunk]_vars
  BY BranchStep
<1> QED  BY <1>1, Invariant, PTL DEF Spec, ReviewUndisturbed
=============================================================================
