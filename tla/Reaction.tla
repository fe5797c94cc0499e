------------------------------ MODULE Reaction ------------------------------
(***************************************************************************)
(* Issue reactions (src/src/react.rs, the ReactionService of               *)
(* src/src/server.rs and `capyfun react`): an issue event that matches a   *)
(* declared reaction has an agent draft a branch capyfun/issue-<n> in the  *)
(* issue's repository, with a pull request for people to review.           *)
(*                                                                         *)
(* One repository. A ref is the set of the commits that it holds since the *)
(* beginning of the behaviour, {} for a branch that does not exist: a push *)
(* without force is accepted when the ref's set is contained in the pushed *)
(* one. People work on the repository all the time.                        *)
(***************************************************************************)
EXTENDS Naturals, Sequences, FiniteSets

CONSTANTS
  Issue,         \* the issues of the repository
  Label,         \* the labels an issue may have
  Action,        \* what may happen to an issue
  Reaction,      \* the declared reactions on the repository
  Order,         \* the sequence of them in the Ir
  Filter,        \* for each, its `action` and `label_filter`
  Any,           \* the filter that is not set
  Server,        \* `capyfun serve`
  Cli,           \* the invocations of `capyfun react`
  People, Trunk, \* who is no reaction, what is no issue
  MaxEvent,      \* bound: issue events
  MaxMade,       \* bound: commits after which people make no more
  MaxMishap      \* bound: failures, crashes and redeliveries

Process == {Server} \cup Cli
Commit == [n : Nat, for : Issue \cup {Trunk}, by : Reaction \cup {People}]
Event == [issue : Issue, action : Action, labels : SUBSET Label]

ASSUME ReactionAssumption ==
  /\ Trunk \notin Issue /\ People \notin Reaction /\ Server \notin Cli
  /\ Order \in Seq(Reaction)
  /\ Filter \in [Reaction -> [action : Action \cup {Any}, label : Label \cup {Any}]]
  /\ MaxEvent \in Nat /\ MaxMade \in Nat /\ MaxMishap \in Nat

VARIABLES
  trunk,   \* the default branch
  branch,  \* the branch capyfun/issue-<n> of each issue
  prs,     \* the pull requests of each issue's branch, oldest first
  events,  \* history: the issue events GitHub made deliveries of
  inbox,   \* deliveries waiting for the server
  seen,    \* Dedup: deliveries the server took since it started
  job,     \* what each process does
  made,    \* the commits made so far, wherever they ended up
  failed,  \* history: runs <<issue, reaction>> of which one ended without a branch to show
  orphan,  \* history: issues whose branch was left, or taken away, without a pull request
  mishaps

repo == <<trunk, branch, prs>>
ghosts == <<failed, orphan>>
vars == <<trunk, branch, prs, events, inbox, seen, job, made, failed,
          orphan, mishaps>>

Idle == [phase |-> "idle", on |-> 0, at |-> 0, base |-> {}]
Exited == [phase |-> "exited", on |-> 0, at |-> 0, base |-> {}]
Jobs == [phase : {"idle", "clone", "agent", "open", "exited"}, on : Nat, at : Nat,
         base : SUBSET Commit]

TypeOK ==
  /\ trunk \subseteq Commit
  /\ branch \in [Issue -> SUBSET Commit]
  /\ prs \in [Issue -> Seq({"open", "merged", "closed"})]
  /\ events \in Seq(Event)
  /\ inbox \subseteq DOMAIN events /\ seen \subseteq DOMAIN events
  /\ job \in [Process -> Jobs]
  /\ made \in Nat
  /\ failed \subseteq Issue \X Reaction /\ orphan \subseteq Issue
  /\ mishaps \in Nat

Init ==
  /\ trunk = {} /\ branch = [i \in Issue |-> {}] /\ prs = [i \in Issue |-> <<>>]
  /\ events = <<>> /\ inbox = {} /\ seen = {}
  /\ job = [p \in Process |-> Idle]
  /\ made = 0 /\ failed = {} /\ orphan = {} /\ mishaps = 0

-----------------------------------------------------------------------------
(* What people and GitHub do.                                              *)

Settle(i, state) == [prs EXCEPT ![i] = [k \in DOMAIN @ |-> IF @[k] = "open" THEN state ELSE @[k]]]
HasOpen(i) == \E k \in DOMAIN prs[i] : prs[i][k] = "open"
Made(i, who) == [n |-> made, for |-> i, by |-> who]
Others == <<events, inbox, seen, job, failed, mishaps>>

\* Somebody opens, labels (again, perhaps) or closes an issue, which has the
\* labels ls by then.
IssueEvent(i, action, ls) ==
  /\ Len(events) < MaxEvent
  /\ action = "opened" => \A k \in DOMAIN events : events[k].issue # i
  /\ action = "labeled" => ls # {}
  /\ events' = Append(events, [issue |-> i, action |-> action, labels |-> ls])
  /\ inbox' = inbox \cup {Len(events) + 1}
  /\ UNCHANGED <<repo, seen, job, made, ghosts, mishaps>>

Redeliver(k) ==
  /\ k \in DOMAIN events \ inbox /\ mishaps < MaxMishap
  /\ inbox' = inbox \cup {k}
  /\ mishaps' = mishaps + 1
  /\ UNCHANGED <<repo, events, seen, job, made, ghosts>>

CommitToTrunk ==
  /\ made < MaxMade
  /\ trunk' = trunk \cup {Made(Trunk, People)}
  /\ made' = made + 1
  /\ UNCHANGED <<branch, prs, orphan, Others>>

\* A reviewer commits to a drafted branch, after merging the trunk or not.
CommitToBranch(i, merged) ==
  /\ branch[i] # {} /\ made < MaxMade /\ merged \in {{}, trunk}
  /\ branch' = [branch EXCEPT ![i] = @ \cup merged \cup {Made(i, People)}]
  /\ made' = made + 1
  /\ UNCHANGED <<trunk, prs, orphan, Others>>

\* A merge commit brings the branch's commits to the trunk, a squash does not.
MergePr(i, brought) ==
  /\ HasOpen(i) /\ made < MaxMade /\ brought \in {{}, branch[i]}
  /\ trunk' = trunk \cup brought \cup {Made(Trunk, People)}
  /\ prs' = Settle(i, "merged")
  /\ made' = made + 1
  /\ UNCHANGED <<branch, orphan, Others>>

ClosePr(i) ==
  /\ HasOpen(i)
  /\ prs' = Settle(i, "closed")
  /\ UNCHANGED <<trunk, branch, made, orphan, Others>>

\* GitHub closes the pull request of a branch that is deleted.
DeleteBranch(i) ==
  /\ branch[i] # {}
  /\ branch' = [branch EXCEPT ![i] = {}]
  /\ prs' = Settle(i, "closed")
  /\ orphan' = IF prs[i] = <<>> THEN orphan \cup {i} ELSE orphan
  /\ UNCHANGED <<trunk, made, Others>>

Outside ==
  \/ \E i \in Issue, action \in Action, ls \in SUBSET Label : IssueEvent(i, action, ls)
  \/ \E k \in DOMAIN events : Redeliver(k)
  \/ CommitToTrunk
  \/ \E i \in Issue, merged \in {{}, trunk} : CommitToBranch(i, merged)
  \/ \E i \in Issue : \E brought \in {{}, branch[i]} : MergePr(i, brought)
  \/ \E i \in Issue : ClosePr(i) \/ DeleteBranch(i)

-----------------------------------------------------------------------------
(* What the program does.                                                  *)

DefaultActions == {"opened", "labeled"}

ReactionMatches(r, e) ==
  /\ e.action \in IF Filter[r].action = Any THEN DefaultActions ELSE {Filter[r].action}
  /\ Filter[r].label # Any => Filter[r].label \in e.labels

\* The reactions that match an event and come after the n-th.
MatchIssue(e, n) == {m \in DOMAIN Order : m > n /\ ReactionMatches(Order[m], e)}

\* A process turns to the first of these, if any is left.
Loop(p, k, left) ==
  \/ \E m \in left :
       /\ \A other \in left : m <= other
       /\ job' = [job EXCEPT ![p] = [phase |-> "clone", on |-> k, at |-> m, base |-> {}]]
  \/ /\ left = {}
     /\ job' = [job EXCEPT ![p] = IF p = Server THEN Idle ELSE Exited]

\* The HTTP thread takes a delivery: a duplicate is answered at once.
Receive(k) ==
  /\ job[Server].phase = "idle" /\ k \in inbox
  /\ inbox' = inbox \ {k}
  /\ seen' = seen \cup {k}
  /\ IF k \in seen THEN UNCHANGED job ELSE Loop(Server, k, MatchIssue(events[k], 0))
  /\ UNCHANGED <<repo, events, made, ghosts, mishaps>>

\* `capyfun react --issue` with the payload of an event: no lock, no dedup.
Invoke(p, k) ==
  /\ p \in Cli /\ job[p].phase = "idle" /\ k \in DOMAIN events
  /\ Loop(p, k, MatchIssue(events[k], 0))
  /\ UNCHANGED <<repo, events, inbox, seen, made, ghosts, mishaps>>

In(p, phase) == job[p].phase = phase
IssueOf(p) == events[job[p].on].issue
ReactionOf(p) == Order[job[p].at]
NextReaction(p) == Loop(p, job[p].on, MatchIssue(events[job[p].on], job[p].at))
Fail(p) == failed' = failed \cup {<<IssueOf(p), ReactionOf(p)>>}
Inert == UNCHANGED <<trunk, events, inbox, seen>>

\* Faulty variant: the checkout goes on from the issue's branch where there is one.
CloneBranch(p) ==
  /\ In(p, "clone")
  /\ job' = [job EXCEPT ![p].phase = "agent", ![p].base = trunk \cup branch[IssueOf(p)]]
  /\ Inert /\ UNCHANGED <<branch, prs, made, ghosts, mishaps>>

\* git clone, git checkout -b: from the default branch, whatever else there is.
Clone(p) ==
  /\ In(p, "clone")
  /\ job' = [job EXCEPT ![p].phase = "agent", ![p].base = trunk]
  /\ Inert /\ UNCHANGED <<branch, prs, made, ghosts, mishaps>>

\* The agent leaves the checkout clean: no pull request.
NoEdit(p) ==
  /\ In(p, "agent") /\ mishaps < MaxMishap
  /\ mishaps' = mishaps + 1
  /\ NextReaction(p) /\ Fail(p)
  /\ Inert /\ UNCHANGED <<branch, prs, made, orphan>>

\* The agent edits the checkout; that is committed (nobody else sees it yet) and
\* pushed as capyfun/issue-<n>, without force.
DraftMislabelled(p) == job[p].base \cup {Made(ReactionOf(p), IssueOf(p))} \* faulty variant
Draft(p) == job[p].base \cup {Made(IssueOf(p), ReactionOf(p))}

AcceptedByForce(p) == TRUE \* faulty variant
Accepted(p) == branch[IssueOf(p)] \subseteq Draft(p)

\* Faulty variant: HEAD is pushed to the default branch.
PushToTrunk(p) ==
  /\ In(p, "agent")
  /\ \/ /\ trunk \subseteq Draft(p)
        /\ trunk' = Draft(p)
        /\ made' = made + 1
        /\ job' = [job EXCEPT ![p].phase = "open", ![p].base = {}]
     \/ /\ ~(trunk \subseteq Draft(p))
        /\ NextReaction(p)
        /\ UNCHANGED <<trunk, made>>
  /\ UNCHANGED <<branch, events, inbox, seen, prs, ghosts, mishaps>>

\* Faulty variant: a run is over with the push.
PushOnly(p) ==
  /\ In(p, "agent")
  /\ \/ /\ Accepted(p)
        /\ branch' = [branch EXCEPT ![IssueOf(p)] = Draft(p)]
        /\ made' = made + 1
     \/ ~Accepted(p) /\ UNCHANGED <<branch, made>>
  /\ NextReaction(p)
  /\ Inert /\ UNCHANGED <<prs, ghosts, mishaps>>

Push(p) ==
  /\ In(p, "agent")
  /\ \/ /\ Accepted(p)
        /\ branch' = [branch EXCEPT ![IssueOf(p)] = Draft(p)]
        /\ made' = made + 1
        /\ job' = [job EXCEPT ![p].phase = "open", ![p].base = {}]
     \/ /\ ~Accepted(p)
        /\ NextReaction(p)
        /\ UNCHANGED <<branch, made>>
  /\ Inert /\ UNCHANGED <<prs, ghosts, mishaps>>

\* POST /pulls: GitHub takes one open pull request per head, which must exist
\* and have something to merge.
OpenPr(p) ==
  LET i == IssueOf(p) IN
  /\ In(p, "open")
  /\ IF HasOpen(i) \/ branch[i] \subseteq trunk
     THEN Fail(p) /\ UNCHANGED prs
     ELSE prs' = [prs EXCEPT ![i] = Append(@, "open")] /\ UNCHANGED failed
  /\ NextReaction(p)
  /\ Inert /\ UNCHANGED <<branch, made, orphan, mishaps>>

\* Faulty variant: the first error ends the loop.
Bail(p) ==
  /\ job[p].phase \in {"clone", "agent", "open"} /\ mishaps < MaxMishap
  /\ mishaps' = mishaps + 1
  /\ Loop(p, job[p].on, {}) /\ Fail(p)
  /\ orphan' = IF In(p, "open") THEN orphan \cup {IssueOf(p)} ELSE orphan
  /\ Inert /\ UNCHANGED <<branch, prs, made>>

\* A call, the agent or a lookup fails: run_reaction returns the error, and the
\* caller turns to the next reaction.
Error(p) ==
  /\ job[p].phase \in {"clone", "agent", "open"} /\ mishaps < MaxMishap
  /\ mishaps' = mishaps + 1
  /\ NextReaction(p) /\ Fail(p)
  /\ orphan' = IF In(p, "open") THEN orphan \cup {IssueOf(p)} ELSE orphan
  /\ Inert /\ UNCHANGED <<branch, prs, made>>

\* The process is killed. The server starts again, without the deliveries it
\* remembered and the ones that were waiting.
Missed(ks) == {run \in Issue \X Reaction :
                 \E k \in ks : events[k].issue = run[1] /\ ReactionMatches(run[2], events[k])}

Crash(p) ==
  /\ p = Server \/ job[p].phase \notin {"idle", "exited"}
  /\ mishaps < MaxMishap
  /\ mishaps' = mishaps + 1
  /\ Loop(p, 0, {})
  /\ inbox' = IF p = Server THEN {} ELSE inbox
  /\ seen' = IF p = Server THEN {} ELSE seen
  /\ failed' = failed \cup Missed((IF p = Server THEN inbox ELSE {})
                                  \cup (IF In(p, "idle") THEN {} ELSE {job[p].on}))
  /\ orphan' = IF In(p, "open") THEN orphan \cup {IssueOf(p)} ELSE orphan
  /\ UNCHANGED <<repo, events, made>>

Work(p) == Clone(p) \/ Push(p) \/ OpenPr(p)

Run(p) == Work(p) \/ NoEdit(p) \/ Error(p) \/ Crash(p)

Next ==
  \/ Outside
  \/ \E k \in DOMAIN events : Receive(k) \/ \E p \in Cli : Invoke(p, k)
  \/ \E p \in Process : Run(p)

Spec == Init /\ [][Next]_vars

\* The server takes what waits, in some order; clones, agents and calls end.
FairSpec ==
  /\ Spec
  /\ WF_vars(\E k \in inbox : Receive(k))
  /\ \A p \in Process : WF_vars(Work(p))

-----------------------------------------------------------------------------
(* Properties.                                                             *)

\* A branch only moves forward, or is deleted by people: no reaction, however
\* many processes draft for one issue at once, pushes over a commit that is
\* already there, a reviewer's or another run's (the push without force at
\* react.rs:315).
BranchesKept == [][\A i \in Issue : branch'[i] = {} \/ branch[i] \subseteq branch'[i]]_vars

\* While a pull request is open for an issue, its branch gets no draft but what a
\* reviewer merges from the trunk: the issue labelled again, a second reaction that
\* matches it, a redelivery after a restart and a `capyfun react` beside the server
\* leave what people review alone (docs/design/reactions.md:149).
ReviewUndisturbed ==
  [][\A i \in Issue : HasOpen(i) =>
       \A c \in branch'[i] \ branch[i] : c.by = People \/ c \in trunk]_vars

\* "It opens a PR for a human to review, never merges" (docs/design/reactions.md:41):
\* a draft is on the trunk only if a pull request of its issue was merged.
MergedByPeople ==
  \A c \in trunk : c.by # People =>
    c.for \in Issue /\ \E k \in DOMAIN prs[c.for] : prs[c.for][k] = "merged"

\* A branch that has had no pull request is about to get one, unless the call
\* for it failed or people deleted the branch meanwhile: later runs' pushes are
\* rejected by the branch, so nothing would open it any more (react.rs:315-329).
BranchHasPr ==
  \A i \in Issue : branch[i] # {} /\ i \notin orphan =>
    prs[i] # <<>> \/ \E p \in Process : In(p, "open") /\ IssueOf(p) = i

\* Every reaction that matches a delivery the server has not seen gets its issue
\* a pull request, although others that match may fail, unless its own run
\* failed, edited nothing or was lost with the process, or the issue's branch
\* is an orphan.
Prototyped ==
  \A i \in Issue, r \in Reaction :
    (\E k \in inbox \ seen : events[k].issue = i /\ ReactionMatches(r, events[k]))
      ~> (prs[i] # <<>> \/ <<i, r>> \in failed \/ i \in orphan)
=============================================================================
