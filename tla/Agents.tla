------------------------------- MODULE Agents -------------------------------
(***************************************************************************)
(* How the agent_transforms of imports get their edits: from the cache of  *)
(* patches in the repository (src/src/engine.rs), from a harness run here  *)
(* and perhaps verified (src/src/engine/agent_exec.rs), or from a remote   *)
(* executor with an action cache (src/src/remote).  Several `capyfun`s may *)
(* work in one repository.  A tree is what is in its files.                *)
(***************************************************************************)
EXTENDS Integers, FiniteSets, Functions

CONSTANTS
  Process,  \* that run agents: reconciles and the server
  Task,     \* what each of them may be asked for: a request, and how to run it
  Content,  \* of the files of a destination
  Request,  \* what is asked of an agent: files, rendered prompt, agent identity
  Line,     \* the command line of an agent's harness and model
  Outcome,  \* for each action, what an agent may make of the files, in any attempt
  Verified, \* the contents the verifier accepts
  Retries,  \* CAPYFUN_VERIFY_RETRIES
  Absent,   \* no cache entry, or no result
  Empty,    \* the patch without changes, a file without bytes
  Garbled,  \* a file with part of a patch, or with bytes of two
  Cleared   \* the directory after clear_dir

\* The REAPI action: neither the provider nor a credential is in its digest.
Action(r) == [files |-> r.files, prompt |-> r.prompt, line |-> Line[r.agent]]
Actions == {Action(r) : r \in Request}
Via == {"plain", "verified", "remote"}

ASSUME AgentsAssumption ==
  /\ Task \in [Process -> SUBSET [request : Request, via : Via]]
  /\ \A r \in Request : r.files \in Content /\ r = [files |-> r.files, prompt |-> r.prompt, agent |-> r.agent]
  /\ \A a \in Actions : Outcome[a] \subseteq Content
  /\ Retries \in Nat
  /\ {Absent, Empty, Garbled, Cleared} \cap Content = {}
  /\ Absent # Empty /\ Absent # Garbled /\ Empty # Garbled

\* Faulty variant: another agent's patch will do.
KeyWithoutAgent(r) == <<r.files, r.prompt>>
AgentCacheKey(r) == <<r.files, r.prompt, r.agent>>
Keys == {AgentCacheKey(r) : r \in Request}

\* What an action takes in the CAS: its input root; its Command and itself.
Blobs(a) == {[root |-> a.files], [action |-> a]}
AllBlobs == UNION {Blobs(a) : a \in Actions}

VARIABLES
  cache, \* .git/capyfun/agent-cache: a patch made for the key's files by what it leads to
  job,   \* what each process does
  ac,    \* the action cache
  cas,   \* the blobs of actions that are stored remotely
  torn   \* history: keys whose entry a process stopped at, or two used, half written

vars == <<cache, job, ac, cas, torn>>

PC == {"read", "run", "verify", "lookup", "find", "upload", "execute", "fetch", "files",
       "create", "write", "done"}
Job == [pc : PC, via : Via, request : Request, hit : BOOLEAN, attempt : 0..Retries,
        work : Content \cup {Cleared}, got : Content \cup {Absent}, missing : SUBSET AllBlobs]
Idle == [pc |-> "idle"]

TypeOK ==
  /\ cache \in [Keys -> Content \cup {Absent, Empty, Garbled}]
  /\ job \in [Process -> Job \cup {Idle}]
  /\ ac \in [Actions -> Content \cup {Absent}]
  /\ cas \subseteq AllBlobs
  /\ torn \subseteq Keys

NewJob(r, via, pc) ==
  [pc |-> pc, via |-> via, request |-> r, hit |-> FALSE, attempt |-> 0,
   work |-> r.files, got |-> Absent, missing |-> {}]

Init ==
  /\ cache = [k \in Keys |-> Absent]
  /\ job = [p \in Process |-> Idle]
  /\ ac = [a \in Actions |-> Absent]
  /\ cas = {} /\ torn = {}

Asked(p) == job[p].request
Key(p) == AgentCacheKey(Asked(p))
\* p may be given any of these.
Made(p) == Outcome[Action(Asked(p))]
Writing(k) == {p \in Process : job[p].pc = "write" /\ Key(p) = k}

Goto(p, pc) == job' = [job EXCEPT ![p].pc = pc]
Fail(p) == job' = [job EXCEPT ![p] = Idle]

-----------------------------------------------------------------------------
(* materialize_agent_patch, up to the run. *)

\* A new import: whatever the branch and the declarations ask for now.  On a miss,
\* or with --refresh, the subtree is checked out.
Begin(p, r, via, refresh) ==
  /\ job[p].pc \in {"idle", "done"}
  /\ LET exists == cache[AgentCacheKey(r)] # Absent
         miss == IF via = "remote" THEN "lookup" ELSE "run"
     IN job' = [job EXCEPT ![p] = NewJob(r, via, IF exists /\ ~refresh THEN "read" ELSE miss)]
  /\ UNCHANGED <<cache, ac, cas, torn>>

\* What a patch may make of the files it was made for; part of one need not apply.
Applied(patch, files) ==
  CASE patch = Empty -> {files}
    [] patch = Garbled -> Content
    [] OTHER -> {patch}

Read(p) ==
  /\ job[p].pc = "read"
  /\ \E c \in Applied(cache[Key(p)], Asked(p).files) :
       job' = [job EXCEPT ![p].pc = "done", ![p].hit = TRUE, ![p].work = c]
  /\ torn' = IF Writing(Key(p)) = {} THEN torn ELSE torn \cup {Key(p)}
  /\ UNCHANGED <<cache, ac, cas>>

-----------------------------------------------------------------------------
(* Here: LiveRunner or FixtureRunner, under a VerifyingRunner or not. *)

Run(p) ==
  /\ job[p].pc = "run"
  /\ \E c \in Made(p) :
       job' = [job EXCEPT ![p].work = c,
                          ![p].pc = IF job[p].via = "verified" THEN "verify" ELSE "create"]
  /\ UNCHANGED <<cache, ac, cas, torn>>

\* Faulty variants: the last attempt counts whatever it is; attempts are not counted;
\* there is one too many.
VerifyAll(p) ==
  /\ job[p].pc = "verify"
  /\ IF job[p].work \in Verified \/ job[p].attempt = Retries THEN Goto(p, "create")
     ELSE job' = [job EXCEPT ![p].pc = "run", ![p].attempt = @ + 1]
  /\ UNCHANGED <<cache, ac, cas, torn>>
VerifyForEver(p) ==
  /\ job[p].pc = "verify"
  /\ Goto(p, IF job[p].work \in Verified THEN "create" ELSE "run")
  /\ UNCHANGED <<cache, ac, cas, torn>>
VerifyOnceMore(p) ==
  /\ job[p].pc = "verify"
  /\ IF job[p].work \in Verified THEN Goto(p, "create")
     ELSE IF job[p].attempt > Retries THEN Fail(p)
     ELSE job' = [job EXCEPT ![p].pc = "run", ![p].attempt = @ + 1]
  /\ UNCHANGED <<cache, ac, cas, torn>>
\* What the verifier rejects goes back to the agent, in the same directory.
Verify(p) ==
  /\ job[p].pc = "verify"
  /\ CASE job[p].work \in Verified -> Goto(p, "create")
       [] job[p].work \notin Verified /\ job[p].attempt < Retries ->
            job' = [job EXCEPT ![p].pc = "run", ![p].attempt = @ + 1]
       [] OTHER -> Fail(p)
  /\ UNCHANGED <<cache, ac, cas, torn>>

-----------------------------------------------------------------------------
(* There: RemoteExecutor.run_in_place. *)

\* GetActionResult: a hit skips the run, under --refresh as well.
Lookup(p) ==
  /\ job[p].pc = "lookup"
  /\ LET r == ac[Action(Asked(p))]
     IN job' = [job EXCEPT ![p].got = r, ![p].pc = IF r = Absent THEN "find" ELSE "fetch"]
  /\ UNCHANGED <<cache, ac, cas, torn>>

FindMissing(p) ==
  /\ job[p].pc = "find"
  /\ job' = [job EXCEPT ![p].missing = Blobs(Action(Asked(p))) \ cas, ![p].pc = "upload"]
  /\ UNCHANGED <<cache, ac, cas, torn>>

\* Faulty variant: uploads what the CAS has.
UploadKnown(p, sent) ==
  /\ job[p].pc = "upload" /\ sent = job[p].missing
  /\ cas' = cas \cup (Blobs(Action(Asked(p))) \ sent)
  /\ Goto(p, "execute")
  /\ UNCHANGED <<cache, ac, torn>>
\* A blob the CAS rejects ends the run; others may be stored by then.
Upload(p, sent) ==
  /\ job[p].pc = "upload" /\ sent \subseteq job[p].missing
  /\ cas' = cas \cup sent
  /\ IF sent = job[p].missing
     THEN job' = [job EXCEPT ![p].pc = "execute", ![p].missing = {}]
     ELSE Fail(p)
  /\ UNCHANGED <<cache, ac, torn>>

\* The server looks the action up once more, and runs it if it has what that takes;
\* the answer may be lost.
Execute(p, answered) ==
  /\ job[p].pc = "execute"
  /\ LET a == Action(Asked(p))
         results == IF ac[a] # Absent THEN {ac[a]}
                    ELSE IF Blobs(a) \subseteq cas THEN Made(p) ELSE {}
     IN IF results = {} THEN Fail(p) /\ UNCHANGED ac
        ELSE \E c \in results :
               /\ ac' = [ac EXCEPT ![a] = c]
               /\ IF answered THEN job' = [job EXCEPT ![p].got = c, ![p].pc = "fetch"]
                             ELSE Fail(p)
  /\ UNCHANGED <<cache, cas, torn>>

\* materialize_output: the result's Tree is read, the directory cleared,
FetchTree(p) ==
  /\ job[p].pc = "fetch"
  /\ job' = [job EXCEPT ![p].work = Cleared, ![p].pc = "files"]
  /\ UNCHANGED <<cache, ac, cas, torn>>

\* Faulty variant: goes on without the files it cannot have.
FetchAny(p) ==
  /\ job[p].pc = "files"
  /\ job' = [job EXCEPT ![p].work = Cleared, ![p].pc = "create"]
  /\ UNCHANGED <<cache, ac, cas, torn>>
\* and the files fetched into it.
FetchFiles(p) ==
  /\ job[p].pc = "files"
  /\ job' = [job EXCEPT ![p].work = job[p].got, ![p].got = Absent, ![p].pc = "create"]
  /\ UNCHANGED <<cache, ac, cas, torn>>

-----------------------------------------------------------------------------
(* std::fs::write of the entry: opened and truncated, then written. *)

Create(p) ==
  /\ job[p].pc = "create"
  /\ cache' = [cache EXCEPT ![Key(p)] = Empty]
  /\ torn' = IF Writing(Key(p)) = {} THEN torn ELSE torn \cup {Key(p)}
  /\ Goto(p, "write")
  /\ UNCHANGED <<ac, cas>>

Patch(p) == IF job[p].work = Asked(p).files THEN Empty ELSE job[p].work

\* What writing a patch may make of a file; a longer one keeps its end.
Written(patch, file) ==
  IF patch = Empty THEN {file} ELSE IF file = Empty THEN {patch} ELSE {patch, Garbled}

Write(p) ==
  /\ job[p].pc = "write"
  /\ \E f \in Written(Patch(p), cache[Key(p)]) : cache' = [cache EXCEPT ![Key(p)] = f]
  /\ job' = [job EXCEPT ![p].pc = "done", ![p].attempt = 0]
  /\ UNCHANGED <<ac, cas, torn>>

-----------------------------------------------------------------------------
(* The world. *)

\* An error anywhere, that of a harness which ends with one, here or there, included;
\* or the process is killed.
Stop(p) ==
  /\ job[p].pc \notin {"idle", "done"}
  /\ Fail(p)
  /\ IF job[p].pc = "write"
     THEN /\ torn' = torn \cup {Key(p)}
          /\ cache' \in {cache, [cache EXCEPT ![Key(p)] = Garbled]}
     ELSE UNCHANGED <<cache, torn>>
  /\ UNCHANGED <<ac, cas>>

\* The remote caches forget; what FindMissing did not report stays for a while.
Evict(b) ==
  /\ b \in cas
  /\ \A p \in Process : job[p].pc \in {"upload", "execute"} => b \notin Blobs(Action(Asked(p)))
  /\ cas' = cas \ {b}
  /\ UNCHANGED <<cache, job, ac, torn>>
EvictResult(a) ==
  /\ ac[a] # Absent
  /\ ac' = [ac EXCEPT ![a] = Absent]
  /\ UNCHANGED <<cache, job, cas, torn>>

Progress(p) ==
  \/ Read(p) \/ Run(p) \/ Verify(p)
  \/ Lookup(p) \/ FindMissing(p)
  \/ \E sent \in SUBSET AllBlobs : Upload(p, sent)
  \/ \E answered \in BOOLEAN : Execute(p, answered)
  \/ FetchTree(p) \/ FetchFiles(p)
  \/ Create(p) \/ Write(p)

Next ==
  \/ \E p \in Process :
       \/ \E t \in Task[p], refresh \in BOOLEAN : Begin(p, t.request, t.via, refresh)
       \/ Progress(p) \/ Stop(p)
  \/ \E b \in cas : Evict(b)
  \/ \E a \in Actions : EvictResult(a)

(***************************************************************************)
(* Harnesses and calls end (neither has a timeout); nobody need import.    *)
(***************************************************************************)
Spec == Init /\ [][Next]_vars
FairSpec == Spec /\ \A p \in Process : WF_vars(Progress(p))

-----------------------------------------------------------------------------
(* Properties. *)

\* What an import takes for an agent's work is what that agent can make of those
\* files for that prompt, be it run here or there or replayed from either cache,
\* unless the entry was stopped at or shared half written.
ResultsAreRuns ==
  \A p \in Process :
    job[p].pc = "done" /\ Key(p) \notin torn => job[p].work \in Made(p)

\* What comes of a run under a verifier passed it, within the retries (agent_exec.rs:
\* "the materialized patch is the final, verified state").  What is replayed may
\* have been made without one: the cache key does not tell.
VerifiedWhenRun ==
  \A p \in Process :
    job[p].pc = "done" /\ job[p].via = "verified" /\ ~job[p].hit => job[p].work \in Verified

\* An action is only executed with all it needs in the CAS, whoever else uploads
\* or has uploaded some of it.
InputsUploaded ==
  \A p \in Process : job[p].pc = "execute" => Blobs(Action(Asked(p))) \subseteq cas

\* Every run of an agent ends, also if the verifier never accepts.
RunsEnd == \A p \in Process : job[p].pc = "run" ~> job[p].pc \in {"idle", "done"}

\* A replayed patch that changes nothing is of an agent that changes nothing
\* (engine.rs: "An empty patch means the agent made no changes").  Violated: the
\* entry is empty from its creation to its writing.
EmptyMeansUnchanged ==
  \A p \in Process :
    job[p].pc = "done" /\ job[p].hit /\ job[p].work = Asked(p).files => job[p].work \in Made(p)
=============================================================================
