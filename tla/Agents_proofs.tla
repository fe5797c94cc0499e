---------------------------- MODULE Agents_proofs ----------------------------
(* Theorems about Agents, for any processes, requests and outcomes.          *)
EXTENDS Agents, TLAPS

\* A process at work has been asked for something, and may be given its outcomes.
LEMMA Working ==
  ASSUME TypeOK, NEW p \in Process, job[p].pc # "idle"
  PROVE  /\ job[p] \in Job /\ Asked(p) \in Request
         /\ Key(p) \in Keys /\ Action(Asked(p)) \in Actions
         /\ Asked(p).files \in Content /\ Made(p) \subseteq Content
<1>1. job[p] \in Job  BY DEF TypeOK, Idle
<1>2. Asked(p) \in Request  BY <1>1 DEF Asked, Job
<1>3. Key(p) \in Keys /\ Action(Asked(p)) \in Actions  BY <1>2 DEF Key, Keys, Actions
<1> QED  BY <1>1, <1>2, <1>3, AgentsAssumption DEF Made

\* A job with another step, another content of its directory, another result, is one.
LEMMA JobChanges ==
  ASSUME NEW j \in Job, NEW pc \in PC, NEW c \in Content \cup {Cleared},
         NEW g \in Content \cup {Absent}, NEW m \in SUBSET AllBlobs
  PROVE  /\ [j EXCEPT !.pc = pc] \in Job
         /\ [j EXCEPT !.pc = pc, !.attempt = 0] \in Job
         /\ [j EXCEPT !.pc = pc, !.hit = TRUE, !.work = c] \in Job
         /\ [j EXCEPT !.work = c, !.pc = pc] \in Job
         /\ [j EXCEPT !.got = g, !.pc = pc] \in Job
         /\ [j EXCEPT !.work = c, !.got = g, !.pc = pc] \in Job
         /\ [j EXCEPT !.missing = m, !.pc = pc] \in Job
         /\ [j EXCEPT !.pc = pc, !.missing = m] \in Job
         /\ j.attempt < Retries => [j EXCEPT !.pc = pc, !.attempt = @ + 1] \in Job
<1>1. Retries \in Nat /\ j.attempt \in 0..Retries  BY AgentsAssumption DEF Job
<1>2. 0 \in 0..Retries /\ (j.attempt < Retries => j.attempt + 1 \in 0..Retries)  BY <1>1
<1>3. [j EXCEPT !.pc = pc] \in Job  BY DEF Job
<1>4. [j EXCEPT !.pc = pc, !.attempt = 0] \in Job  BY <1>2 DEF Job
<1>5. [j EXCEPT !.pc = pc, !.hit = TRUE, !.work = c] \in Job  BY DEF Job
<1>6. [j EXCEPT !.work = c, !.pc = pc] \in Job  BY DEF Job
<1>7. [j EXCEPT !.got = g, !.pc = pc] \in Job  BY DEF Job
<1>8. [j EXCEPT !.work = c, !.got = g, !.pc = pc] \in Job  BY DEF Job
<1>9. [j EXCEPT !.missing = m, !.pc = pc] \in Job  BY DEF Job
<1>10. [j EXCEPT !.pc = pc, !.missing = m] \in Job  BY DEF Job
<1>11. j.attempt < Retries => [j EXCEPT !.pc = pc, !.attempt = @ + 1] \in Job  BY <1>2 DEF Job
<1> QED  BY <1>3, <1>4, <1>5, <1>6, <1>7, <1>8, <1>9, <1>10, <1>11

\* What a patch that was made or torn may make of the files is some content.
LEMMA AppliedType ==
  ASSUME NEW f \in Content, NEW x \in Content \cup {Empty, Garbled}
  PROVE  Applied(x, f) \subseteq Content
BY AgentsAssumption DEF Applied

\* What a write may make of an entry is an entry.
LEMMA WrittenType ==
  ASSUME NEW x \in Content \cup {Empty}, NEW f \in Content \cup {Empty, Garbled}
  PROVE  Written(x, f) \subseteq Content \cup {Empty, Garbled}
BY DEF Written

-----------------------------------------------------------------------------
(* Types. *)

\* What makes TypeOK inductive: who reads or writes an entry has one, who makes a
\* patch has some content, who fetches a result has one.
Holds(entries, j) ==
  /\ j.pc \in {"read", "write"} => entries[AgentCacheKey(j.request)] # Absent
  /\ j.pc \in {"verify", "create", "write", "done"} => j.work \in Content
  /\ j.pc \in {"fetch", "files"} => j.got # Absent
Held == \A p \in Process : Holds(cache, job[p])

\* An entry is never removed.
Kept == \A k \in Keys : cache[k] # Absent => cache'[k] # Absent

\* Giving one process a job of its own keeps the type of all, and what they hold.
LEMMA JobStep ==
  ASSUME TypeOK, Held, Kept, NEW p \in Process, NEW j \in Job \cup {Idle}, Holds(cache', j),
         job' = [job EXCEPT ![p] = j]
  PROVE  job' \in [Process -> Job \cup {Idle}] /\ Held'
<1>1. job' \in [Process -> Job \cup {Idle}]  BY DEF TypeOK
<1>2. ASSUME NEW q \in Process PROVE Holds(cache', job'[q])
  <2>1. CASE q = p
    <3>1. job'[q] = j  BY <2>1 DEF TypeOK
    <3> QED  BY <3>1 DEF Holds
  <2>2. CASE q # p
    <3>1. job'[q] = job[q]  BY <2>2 DEF TypeOK
    <3>2. Holds(cache, job[q])  BY DEF Held
    <3>3. job[q].pc \in {"read", "write"} => AgentCacheKey(job[q].request) \in Keys
      BY Working DEF Key, Asked
    <3> QED  BY <3>1, <3>2, <3>3 DEF Holds, Kept
  <2> QED  BY <2>1, <2>2
<1> QED  BY <1>1, <1>2 DEF Held

\* So does a failing process, which is idle afterwards.
LEMMA FailStep ==
  ASSUME TypeOK, Held, Kept, NEW p \in Process, Fail(p)
  PROVE  job' \in [Process -> Job \cup {Idle}] /\ Held'
<1>1. Holds(cache', Idle)  BY DEF Holds, Idle
<1> QED  BY <1>1, JobStep DEF Fail

\* And one that only goes on, to a step that needs no more than it has.
LEMMA GotoStep ==
  ASSUME TypeOK, Held, Kept, NEW p \in Process, job[p].pc # "idle", NEW pc \in PC, Goto(p, pc),
         pc \in {"read", "write"} => cache'[Key(p)] # Absent,
         pc \in {"verify", "create", "write", "done"} => job[p].work \in Content,
         pc \in {"fetch", "files"} => job[p].got # Absent
  PROVE  job' \in [Process -> Job \cup {Idle}] /\ Held'
<1> DEFINE j == [job[p] EXCEPT !.pc = pc]
<1>1. job[p] \in Job  BY Working
<1>2. j \in Job
  <2>1. Absent \in Content \cup {Absent} /\ {} \in SUBSET AllBlobs /\ Cleared \in Content \cup {Cleared}
    OBVIOUS
  <2> QED  BY <1>1, <2>1, JobChanges
<1>3. j.pc = pc /\ j.work = job[p].work /\ j.got = job[p].got /\ j.request = job[p].request
  BY <1>1 DEF Job
<1>4. Holds(cache', j)
  <2> HIDE DEF j
  <2> QED  BY <1>3 DEF Holds, Key, Asked
<1>5. job' = [job EXCEPT ![p] = j]  BY DEF Goto, TypeOK
<1> QED  BY <1>2, <1>4, <1>5, JobStep

\* An import asks for one of its process's tasks.
LEMMA BeginStep ==
  ASSUME TypeOK, Held, NEW p \in Process, NEW t \in Task[p], NEW refresh \in BOOLEAN,
         Begin(p, t.request, t.via, refresh)
  PROVE  TypeOK' /\ Held'
<1> DEFINE exists == cache[AgentCacheKey(t.request)] # Absent
           pc == IF exists /\ ~refresh THEN "read" ELSE IF t.via = "remote" THEN "lookup" ELSE "run"
           j == NewJob(t.request, t.via, pc)
<1>1. t.request \in Request /\ t.via \in Via
  <2>1. Task[p] \subseteq [request : Request, via : Via]  BY AgentsAssumption
  <2> QED  BY <2>1
<1>2. job' = [job EXCEPT ![p] = j]  BY DEF Begin
<1>3. j.pc = pc /\ j.request = t.request  BY DEF NewJob
<1>4. pc \in {"read", "lookup", "run"} /\ (pc = "read" => exists)  OBVIOUS
<1>5. j \in Job
  <2>1. t.request.files \in Content /\ 0 \in 0..Retries  BY <1>1, AgentsAssumption
  <2>2. pc \in PC  BY <1>4 DEF PC
  <2> HIDE DEF pc
  <2> QED  BY <1>1, <2>1, <2>2 DEF NewJob, Job
<1>6. UNCHANGED cache  BY DEF Begin
<1>7. Holds(cache', j) /\ Kept
  <2> HIDE DEF pc, j
  <2> QED  BY <1>3, <1>4, <1>6 DEF Holds, Kept
<1>8. job' \in [Process -> Job \cup {Idle}] /\ Held'
  <2> HIDE DEF j
  <2> QED  BY <1>2, <1>5, <1>7, JobStep
<1> QED  BY <1>8 DEF Begin, TypeOK

\* A replayed patch makes some content.
LEMMA ReadStep ==
  ASSUME TypeOK, Held, NEW p \in Process, Read(p)
  PROVE  TypeOK' /\ Held'
<1>1. job[p] \in Job /\ Asked(p).files \in Content /\ Key(p) \in Keys
  BY Working DEF Read
<1>2. cache[Key(p)] \in Content \cup {Empty, Garbled}
  <2>1. Holds(cache, job[p])  BY DEF Held
  <2>2. cache[Key(p)] # Absent  BY <2>1 DEF Holds, Read, Key, Asked
  <2> QED  BY <1>1, <2>2 DEF TypeOK
<1>3. PICK c \in Content :
        job' = [job EXCEPT ![p].pc = "done", ![p].hit = TRUE, ![p].work = c]
  BY <1>1, <1>2, AppliedType DEF Read
<1> DEFINE j == [job[p] EXCEPT !.pc = "done", !.hit = TRUE, !.work = c]
<1>4. j \in Job
  <2>1. "done" \in PC /\ c \in Content \cup {Cleared} /\ Absent \in Content \cup {Absent}
        /\ {} \in SUBSET AllBlobs
    BY DEF PC
  <2> QED  BY <1>1, <2>1, JobChanges
<1>5. j.pc = "done" /\ j.work = c  BY <1>1 DEF Job
<1>6. job' = [job EXCEPT ![p] = j]  BY <1>3 DEF TypeOK
<1>7. Holds(cache', j) /\ Kept
  <2> HIDE DEF j
  <2> QED  BY <1>5 DEF Holds, Kept, Read
<1>8. job' \in [Process -> Job \cup {Idle}] /\ Held'
  <2> HIDE DEF j
  <2> QED  BY <1>4, <1>6, <1>7, JobStep
<1>9. torn' \subseteq Keys  BY <1>1 DEF Read, TypeOK
<1> QED  BY <1>8, <1>9 DEF Read, TypeOK

\* A harness leaves some content.
LEMMA RunStep ==
  ASSUME TypeOK, Held, NEW p \in Process, Run(p)
  PROVE  TypeOK' /\ Held'
<1>1. job[p] \in Job /\ Made(p) \subseteq Content  BY Working DEF Run
<1> DEFINE pc == IF job[p].via = "verified" THEN "verify" ELSE "create"
<1>2. PICK c \in Content : job' = [job EXCEPT ![p].work = c, ![p].pc = pc]
  BY <1>1 DEF Run
<1>3. pc \in {"verify", "create"}  OBVIOUS
<1> HIDE DEF pc
<1> DEFINE j == [job[p] EXCEPT !.work = c, !.pc = pc]
<1>4. j \in Job
  <2>1. pc \in PC /\ c \in Content \cup {Cleared} /\ Absent \in Content \cup {Absent}
        /\ {} \in SUBSET AllBlobs
    BY <1>3 DEF PC
  <2> QED  BY <1>1, <2>1, JobChanges
<1>5. j.pc = pc /\ j.work = c  BY <1>1 DEF Job
<1>6. job' = [job EXCEPT ![p] = j]  BY <1>2 DEF TypeOK
<1>7. Holds(cache', j) /\ Kept
  <2> HIDE DEF j
  <2> QED  BY <1>3, <1>5 DEF Holds, Kept, Run
<1>8. job' \in [Process -> Job \cup {Idle}] /\ Held'
  <2> HIDE DEF j
  <2> QED  BY <1>4, <1>6, <1>7, JobStep
<1> QED  BY <1>8 DEF Run, TypeOK

\* A verifier accepts, asks for another attempt within the retries, or fails the run.
LEMMA VerifyStep ==
  ASSUME TypeOK, Held, NEW p \in Process, Verify(p)
  PROVE  TypeOK' /\ Held'
<1>1. job[p] \in Job /\ job[p].pc # "idle"  BY Working DEF Verify
<1>2. Kept  BY DEF Kept, Verify
<1>3. job[p].work \in Content
  <2>1. Holds(cache, job[p])  BY DEF Held
  <2> QED  BY <2>1 DEF Holds, Verify
<1>4. job' \in [Process -> Job \cup {Idle}] /\ Held'
  <2>1. CASE Goto(p, "create")
    <3>1. "create" \in PC  BY DEF PC
    <3> QED  BY <1>1, <1>2, <1>3, <2>1, <3>1, GotoStep
  <2>2. CASE Fail(p)  BY <1>2, <2>2, FailStep
  <2>3. CASE /\ job[p].attempt < Retries
             /\ job' = [job EXCEPT ![p].pc = "run", ![p].attempt = @ + 1]
    <3> DEFINE j == [job[p] EXCEPT !.pc = "run", !.attempt = @ + 1]
    <3>1. j \in Job
      <4>1. "run" \in PC /\ Cleared \in Content \cup {Cleared} /\ Absent \in Content \cup {Absent}
            /\ {} \in SUBSET AllBlobs
        BY DEF PC
      <4> QED  BY <1>1, <2>3, <4>1, JobChanges
    <3>2. j.pc = "run"  BY <1>1 DEF Job
    <3>3. job' = [job EXCEPT ![p] = j]  BY <2>3 DEF TypeOK
    <3>4. Holds(cache', j)
      <4> HIDE DEF j
      <4> QED  BY <3>2 DEF Holds
    <3> HIDE DEF j
    <3> QED  BY <1>2, <3>1, <3>3, <3>4, JobStep
  <2> QED  BY <2>1, <2>2, <2>3 DEF Verify
<1> QED  BY <1>4 DEF Verify, TypeOK

\* A hit in the action cache is a result.
LEMMA LookupStep ==
  ASSUME TypeOK, Held, NEW p \in Process, Lookup(p)
  PROVE  TypeOK' /\ Held'
<1>1. job[p] \in Job /\ Action(Asked(p)) \in Actions  BY Working DEF Lookup
<1> DEFINE g == ac[Action(Asked(p))]
           pc == IF g = Absent THEN "find" ELSE "fetch"
           j == [job[p] EXCEPT !.got = g, !.pc = pc]
<1>2. job' = [job EXCEPT ![p].got = g, ![p].pc = pc]  BY DEF Lookup
<1>3. pc \in {"find", "fetch"} /\ (pc = "fetch" => g # Absent) /\ g \in Content \cup {Absent}
  BY <1>1 DEF TypeOK
<1> HIDE DEF g, pc
<1>4. j \in Job
  <2>1. pc \in PC /\ Cleared \in Content \cup {Cleared} /\ {} \in SUBSET AllBlobs
    BY <1>3 DEF PC
  <2> QED  BY <1>1, <1>3, <2>1, JobChanges
<1>5. j.pc = pc /\ j.got = g  BY <1>1 DEF Job
<1>6. job' = [job EXCEPT ![p] = j]  BY <1>2 DEF TypeOK
<1>7. Holds(cache', j) /\ Kept
  <2> HIDE DEF j
  <2> QED  BY <1>3, <1>5 DEF Holds, Kept, Lookup
<1>8. job' \in [Process -> Job \cup {Idle}] /\ Held'
  <2> HIDE DEF j
  <2> QED  BY <1>4, <1>6, <1>7, JobStep
<1> QED  BY <1>8 DEF Lookup, TypeOK

\* The blobs to upload are blobs of actions.
LEMMA FindMissingStep ==
  ASSUME TypeOK, Held, NEW p \in Process, FindMissing(p)
  PROVE  TypeOK' /\ Held'
<1>1. job[p] \in Job /\ Action(Asked(p)) \in Actions  BY Working DEF FindMissing
<1> DEFINE m == Blobs(Action(Asked(p))) \ cas
           j == [job[p] EXCEPT !.missing = m, !.pc = "upload"]
<1>2. job' = [job EXCEPT ![p].missing = m, ![p].pc = "upload"]  BY DEF FindMissing
<1>3. m \subseteq AllBlobs  BY <1>1 DEF AllBlobs
<1> HIDE DEF m
<1>4. j \in Job
  <2>1. "upload" \in PC /\ Cleared \in Content \cup {Cleared} /\ Absent \in Content \cup {Absent}
    BY DEF PC
  <2> QED  BY <1>1, <1>3, <2>1, JobChanges
<1>5. j.pc = "upload"  BY <1>1 DEF Job
<1>6. job' = [job EXCEPT ![p] = j]  BY <1>2 DEF TypeOK
<1>7. Holds(cache', j) /\ Kept
  <2> HIDE DEF j
  <2> QED  BY <1>5 DEF Holds, Kept, FindMissing
<1>8. job' \in [Process -> Job \cup {Idle}] /\ Held'
  <2> HIDE DEF j
  <2> QED  BY <1>4, <1>6, <1>7, JobStep
<1> QED  BY <1>8 DEF FindMissing, TypeOK

\* What is uploaded are blobs of actions.
LEMMA UploadStep ==
  ASSUME TypeOK, Held, NEW p \in Process, NEW sent \in SUBSET AllBlobs, Upload(p, sent)
  PROVE  TypeOK' /\ Held'
<1>1. job[p] \in Job  BY Working DEF Upload
<1>2. Kept  BY DEF Kept, Upload
<1>3. job' \in [Process -> Job \cup {Idle}] /\ Held'
  <2>1. CASE Fail(p)  BY <1>2, <2>1, FailStep
  <2>2. CASE job' = [job EXCEPT ![p].pc = "execute", ![p].missing = {}]
    <3> DEFINE j == [job[p] EXCEPT !.pc = "execute", !.missing = {}]
    <3>1. j \in Job
      <4>1. "execute" \in PC /\ Cleared \in Content \cup {Cleared}
            /\ Absent \in Content \cup {Absent} /\ {} \in SUBSET AllBlobs
        BY DEF PC
      <4> QED  BY <1>1, <4>1, JobChanges
    <3>2. j.pc = "execute"  BY <1>1 DEF Job
    <3>3. job' = [job EXCEPT ![p] = j]  BY <2>2 DEF TypeOK
    <3>4. Holds(cache', j)
      <4> HIDE DEF j
      <4> QED  BY <3>2 DEF Holds
    <3> HIDE DEF j
    <3> QED  BY <1>2, <3>1, <3>3, <3>4, JobStep
  <2> QED  BY <2>1, <2>2 DEF Upload
<1> QED  BY <1>3 DEF Upload, TypeOK

\* What the server answers is a result, cached or new.
LEMMA ExecuteStep ==
  ASSUME TypeOK, Held, NEW p \in Process, NEW answered \in BOOLEAN, Execute(p, answered)
  PROVE  TypeOK' /\ Held'
<1>1. job[p] \in Job /\ Action(Asked(p)) \in Actions /\ Made(p) \subseteq Content
  BY Working DEF Execute
<1>2. Kept  BY DEF Kept, Execute
<1>3. CASE Fail(p) /\ UNCHANGED ac
  <2>1. job' \in [Process -> Job \cup {Idle}] /\ Held'  BY <1>2, <1>3, FailStep
  <2> QED  BY <1>3, <2>1 DEF Execute, TypeOK
<1>4. ASSUME NEW c \in Content, ac' = [ac EXCEPT ![Action(Asked(p))] = c],
             IF answered THEN job' = [job EXCEPT ![p].got = c, ![p].pc = "fetch"] ELSE Fail(p)
      PROVE  TypeOK' /\ Held'
  <2> DEFINE j == [job[p] EXCEPT !.got = c, !.pc = "fetch"]
  <2>1. CASE Fail(p)
    <3>1. job' \in [Process -> Job \cup {Idle}] /\ Held'  BY <1>2, <2>1, FailStep
    <3> QED  BY <1>1, <1>4, <3>1 DEF Execute, TypeOK
  <2>2. CASE job' = [job EXCEPT ![p].got = c, ![p].pc = "fetch"]
    <3>1. j \in Job
      <4>1. "fetch" \in PC /\ Cleared \in Content \cup {Cleared}
            /\ c \in Content \cup {Absent} /\ {} \in SUBSET AllBlobs
        BY DEF PC
      <4> QED  BY <1>1, <4>1, JobChanges
    <3>2. j.pc = "fetch" /\ j.got = c  BY <1>1 DEF Job
    <3>3. job' = [job EXCEPT ![p] = j]  BY <2>2 DEF TypeOK
    <3>4. Holds(cache', j)
      <4>1. c # Absent  BY AgentsAssumption
      <4> HIDE DEF j
      <4> QED  BY <3>2, <4>1 DEF Holds
    <3>5. job' \in [Process -> Job \cup {Idle}] /\ Held'
      <4> HIDE DEF j
      <4> QED  BY <1>2, <3>1, <3>3, <3>4, JobStep
    <3> QED  BY <1>1, <1>4, <3>5 DEF Execute, TypeOK
  <2> QED  BY <1>4, <2>1, <2>2
<1>5. \/ Fail(p) /\ UNCHANGED ac
      \/ \E c \in Content :
           /\ ac' = [ac EXCEPT ![Action(Asked(p))] = c]
           /\ IF answered THEN job' = [job EXCEPT ![p].got = c, ![p].pc = "fetch"] ELSE Fail(p)
  BY <1>1 DEF Execute, TypeOK
<1> QED  BY <1>3, <1>4, <1>5

\* The directory is cleared, the result stays held.
LEMMA FetchTreeStep ==
  ASSUME TypeOK, Held, NEW p \in Process, FetchTree(p)
  PROVE  TypeOK' /\ Held'
<1>1. job[p] \in Job  BY Working DEF FetchTree
<1> DEFINE j == [job[p] EXCEPT !.work = Cleared, !.pc = "files"]
<1>2. j \in Job
  <2>1. "files" \in PC /\ Cleared \in Content \cup {Cleared}
        /\ Absent \in Content \cup {Absent} /\ {} \in SUBSET AllBlobs
    BY DEF PC
  <2> QED  BY <1>1, <2>1, JobChanges
<1>3. j.pc = "files" /\ j.got = job[p].got  BY <1>1 DEF Job
<1>4. job' = [job EXCEPT ![p] = j]  BY DEF FetchTree, TypeOK
<1>5. Holds(cache', j) /\ Kept
  <2>1. job[p].got # Absent  BY DEF Held, Holds, FetchTree
  <2> HIDE DEF j
  <2> QED  BY <1>3, <2>1 DEF Holds, Kept, FetchTree
<1>6. job' \in [Process -> Job \cup {Idle}] /\ Held'
  <2> HIDE DEF j
  <2> QED  BY <1>2, <1>4, <1>5, JobStep
<1> QED  BY <1>6 DEF FetchTree, TypeOK

\* What is fetched into it is the result, some content.
LEMMA FetchFilesStep ==
  ASSUME TypeOK, Held, NEW p \in Process, FetchFiles(p)
  PROVE  TypeOK' /\ Held'
<1>1. job[p] \in Job  BY Working DEF FetchFiles
<1>2. job[p].got \in Content
  <2>1. job[p].got # Absent  BY DEF Held, Holds, FetchFiles
  <2> QED  BY <1>1, <2>1 DEF Job
<1> DEFINE j == [job[p] EXCEPT !.work = job[p].got, !.got = Absent, !.pc = "create"]
<1>3. j \in Job
  <2>1. "create" \in PC /\ job[p].got \in Content \cup {Cleared}
        /\ Absent \in Content \cup {Absent} /\ {} \in SUBSET AllBlobs
    BY <1>2 DEF PC
  <2> QED  BY <1>1, <2>1, JobChanges
<1>4. j.pc = "create" /\ j.work = job[p].got  BY <1>1 DEF Job
<1>5. job' = [job EXCEPT ![p] = j]  BY DEF FetchFiles, TypeOK
<1>6. Holds(cache', j) /\ Kept
  <2> HIDE DEF j
  <2> QED  BY <1>2, <1>4 DEF Holds, Kept, FetchFiles
<1>7. job' \in [Process -> Job \cup {Idle}] /\ Held'
  <2> HIDE DEF j
  <2> QED  BY <1>3, <1>5, <1>6, JobStep
<1> QED  BY <1>7 DEF FetchFiles, TypeOK

\* A new or truncated entry is empty.
LEMMA CreateStep ==
  ASSUME TypeOK, Held, NEW p \in Process, Create(p)
  PROVE  TypeOK' /\ Held'
<1>1. Key(p) \in Keys /\ job[p].pc # "idle"  BY Working DEF Create
<1>2. cache' \in [Keys -> Content \cup {Absent, Empty, Garbled}]  BY DEF Create, TypeOK
<1>3. cache'[Key(p)] # Absent /\ Kept
  BY <1>1, AgentsAssumption DEF Create, TypeOK, Kept
<1>4. job[p].work \in Content /\ "write" \in PC  BY DEF Held, Holds, Create, PC
<1>5. Goto(p, "write")  BY DEF Create
<1>6. job' \in [Process -> Job \cup {Idle}] /\ Held'
  BY <1>1, <1>3, <1>4, <1>5, GotoStep
<1>7. torn' \subseteq Keys  BY <1>1 DEF Create, TypeOK
<1> QED  BY <1>2, <1>6, <1>7 DEF Create, TypeOK

\* The entry a process writes is one, whatever was in the file.
LEMMA WriteStep ==
  ASSUME TypeOK, Held, NEW p \in Process, Write(p)
  PROVE  TypeOK' /\ Held'
<1>1. job[p] \in Job /\ Key(p) \in Keys  BY Working DEF Write
<1>2. job[p].work \in Content /\ cache[Key(p)] # Absent
  BY DEF Held, Holds, Write, Key, Asked
<1>3. Patch(p) \in Content \cup {Empty}  BY <1>2 DEF Patch
<1>4. cache[Key(p)] \in Content \cup {Empty, Garbled}  BY <1>1, <1>2 DEF TypeOK
<1>5. PICK f \in Content \cup {Empty, Garbled} : cache' = [cache EXCEPT ![Key(p)] = f]
  BY <1>3, <1>4, WrittenType DEF Write
<1>6. cache' \in [Keys -> Content \cup {Absent, Empty, Garbled}]  BY <1>5 DEF TypeOK
<1>7. Kept
  <2>1. f # Absent  BY AgentsAssumption
  <2> QED  BY <1>1, <1>5, <2>1 DEF TypeOK, Kept
<1> DEFINE j == [job[p] EXCEPT !.pc = "done", !.attempt = 0]
<1>8. j \in Job
  <2>1. "done" \in PC /\ Cleared \in Content \cup {Cleared}
        /\ Absent \in Content \cup {Absent} /\ {} \in SUBSET AllBlobs
    BY DEF PC
  <2> QED  BY <1>1, <2>1, JobChanges
<1>9. j.pc = "done" /\ j.work = job[p].work  BY <1>1 DEF Job
<1>10. job' = [job EXCEPT ![p] = j]  BY DEF Write, TypeOK
<1>11. Holds(cache', j)
  <2> HIDE DEF j
  <2> QED  BY <1>2, <1>9 DEF Holds
<1>12. job' \in [Process -> Job \cup {Idle}] /\ Held'
  <2> HIDE DEF j
  <2> QED  BY <1>7, <1>8, <1>10, <1>11, JobStep
<1> QED  BY <1>6, <1>12 DEF Write, TypeOK

\* A process that stops while it writes leaves an entry.
LEMMA StopStep ==
  ASSUME TypeOK, Held, NEW p \in Process, Stop(p)
  PROVE  TypeOK' /\ Held'
<1>1. Key(p) \in Keys /\ Fail(p)  BY Working DEF Stop
<1>2. cache' \in [Keys -> Content \cup {Absent, Empty, Garbled}] /\ Kept
  BY <1>1, AgentsAssumption DEF Stop, TypeOK, Kept
<1>3. torn' \subseteq Keys  BY <1>1 DEF Stop, TypeOK
<1>4. job' \in [Process -> Job \cup {Idle}] /\ Held'  BY <1>1, <1>2, FailStep
<1> QED  BY <1>2, <1>3, <1>4 DEF Stop, TypeOK

\* Every variable keeps its type, and Held holds.
LEMMA TypesInduct ==
  /\ Init => TypeOK /\ Held
  /\ TypeOK /\ Held /\ [Next]_vars => TypeOK' /\ Held'
<1>1. Init => TypeOK /\ Held
  <2> SUFFICES ASSUME Init PROVE TypeOK /\ Held  OBVIOUS
  <2>1. TypeOK  BY DEF Init, TypeOK
  <2>2. Held  BY DEF Init, Held, Holds, Idle
  <2> QED  BY <2>1, <2>2
<1>2. TypeOK /\ Held /\ [Next]_vars => TypeOK' /\ Held'
  <2> SUFFICES ASSUME TypeOK, Held, [Next]_vars PROVE TypeOK' /\ Held'
    OBVIOUS
  <2>1. CASE UNCHANGED vars  BY <2>1 DEF vars, TypeOK, Held, Holds
  <2>2. ASSUME NEW p \in Process, Progress(p) PROVE TypeOK' /\ Held'
    BY <2>2, ReadStep, RunStep, VerifyStep, LookupStep, FindMissingStep, UploadStep,
       ExecuteStep, FetchTreeStep, FetchFilesStep, CreateStep, WriteStep DEF Progress
  <2>3. ASSUME NEW b \in cas, Evict(b) PROVE TypeOK' /\ Held'
    BY <2>3 DEF Evict, TypeOK, Held, Holds
  <2>4. ASSUME NEW a \in Actions, EvictResult(a) PROVE TypeOK' /\ Held'
    BY <2>4 DEF EvictResult, TypeOK, Held, Holds
  <2> QED  BY <2>1, <2>2, <2>3, <2>4, BeginStep, StopStep DEF Next
<1> QED  BY <1>1, <1>2

\* The actions keep every variable to its type: no job reads an entry that is not
\* there, or makes a patch of a directory without its files.
THEOREM TypeCorrect == Spec => []TypeOK
BY TypesInduct, PTL DEF Spec

-----------------------------------------------------------------------------
(* Results. *)

\* What makes ResultsAreRuns inductive.  An entry nobody is writing is what a run
\* for a request of its key leads to; only its one writer sees a file it created,
\* empty; a cached result is an outcome of its action; and so is what a process has
\* got or has in its directory when it needs it.
Replays(r, x) ==
  x = Absent \/ \E c \in Outcome[Action(r)] : x = IF c = r.files THEN Empty ELSE c
EntriesReplay ==
  \A r \in Request :
    /\ AgentCacheKey(r) \notin torn
    /\ \A q \in Process : ~(job[q].pc = "write" /\ Key(q) = AgentCacheKey(r))
    => Replays(r, cache[AgentCacheKey(r)])
OneWriter ==
  \A p \in Process :
    job[p].pc = "write" /\ Key(p) \notin torn =>
      /\ cache[Key(p)] = Empty
      /\ \A q \in Process : job[q].pc = "write" /\ Key(q) = Key(p) => q = p
ResultsFit == \A a \in Actions : ac[a] = Absent \/ ac[a] \in Outcome[a]
Fits(bad, j) ==
  /\ j.pc \in {"verify", "create", "write"} => j.work \in Outcome[Action(j.request)]
  /\ j.pc \in {"fetch", "files"} => j.got \in Outcome[Action(j.request)]
  /\ j.pc = "done" /\ AgentCacheKey(j.request) \notin bad => j.work \in Outcome[Action(j.request)]
JobsFit == \A p \in Process : Fits(torn, job[p])

Elsewhere(p) == \A q \in Process \ {p} : job'[q] = job[q]

\* A process that leaves the entries alone keeps what is known of them.
LEMMA QuietStep ==
  ASSUME EntriesReplay, OneWriter, NEW p \in Process, Elsewhere(p), UNCHANGED cache,
         torn \subseteq torn', job[p].pc # "write", job'[p].pc # "write"
  PROVE  EntriesReplay' /\ OneWriter'
<1>1. \A q \in Process : job'[q].pc = "write" <=> job[q].pc = "write"  BY DEF Elsewhere
<1>2. \A q \in Process : job'[q].pc = "write" => Key(q)' = Key(q)
  BY DEF Elsewhere, Key, Asked
<1>3. EntriesReplay'
  <2> SUFFICES ASSUME NEW r \in Request, AgentCacheKey(r) \notin torn',
                      \A q \in Process : ~(job'[q].pc = "write" /\ Key(q)' = AgentCacheKey(r))
               PROVE  Replays(r, cache'[AgentCacheKey(r)])
    BY DEF EntriesReplay, Replays, AgentCacheKey, Action
  <2>1. AgentCacheKey(r) \notin torn  OBVIOUS
  <2>2. \A q \in Process : ~(job[q].pc = "write" /\ Key(q) = AgentCacheKey(r))
    BY <1>1, <1>2
  <2> QED  BY <2>1, <2>2 DEF EntriesReplay
<1>4. OneWriter'
  <2> SUFFICES ASSUME NEW o \in Process, job'[o].pc = "write", Key(o)' \notin torn'
               PROVE  /\ cache'[Key(o)'] = Empty
                      /\ \A q \in Process : job'[q].pc = "write" /\ Key(q)' = Key(o)' => q = o
    BY DEF OneWriter
  <2>1. job[o].pc = "write" /\ Key(o) \notin torn /\ Key(o)' = Key(o)  BY <1>1, <1>2
  <2> QED  BY <1>1, <1>2, <2>1 DEF OneWriter
<1> QED  BY <1>3, <1>4

\* What one process has fits if what it has now does.
LEMMA FitStep ==
  ASSUME JobsFit, NEW p \in Process, Elsewhere(p), torn \subseteq torn', Fits(torn', job'[p])
  PROVE  JobsFit'
<1> SUFFICES ASSUME NEW q \in Process PROVE Fits(torn', job'[q])
  BY DEF JobsFit, Fits, AgentCacheKey, Action
<1>1. CASE q = p  BY <1>1
<1>2. CASE q # p
  <2>1. job'[q] = job[q]  BY <1>2 DEF Elsewhere
  <2>2. Fits(torn, job[q])  BY DEF JobsFit
  <2> QED  BY <2>1, <2>2 DEF Fits
<1> QED  BY <1>1, <1>2

\* Requests of one key are for the same action and the same files.
LEMMA KeyTells ==
  ASSUME NEW r \in Request, NEW s \in Request, AgentCacheKey(r) = AgentCacheKey(s)
  PROVE  Action(r) = Action(s) /\ r.files = s.files
BY DEF AgentCacheKey, Action

Sound == EntriesReplay /\ OneWriter /\ ResultsFit /\ JobsFit

\* A step of one process that leaves entries and results alone keeps them sound, if
\* what it has fits.
LEMMA QuietSound ==
  ASSUME Sound, NEW p \in Process, Elsewhere(p), UNCHANGED <<cache, ac>>, torn \subseteq torn',
         job[p].pc # "write", job'[p].pc # "write", Fits(torn', job'[p])
  PROVE  Sound'
<1>1. EntriesReplay' /\ OneWriter'  BY QuietStep DEF Sound
<1>2. JobsFit'  BY FitStep DEF Sound
<1>3. ResultsFit'  BY DEF Sound, ResultsFit
<1> QED  BY <1>1, <1>2, <1>3 DEF Sound

\* A process that fails or begins has nothing that would have to fit.
LEMMA FailFits ==
  ASSUME TypeOK, NEW p \in Process, Fail(p), NEW bad
  PROVE  Elsewhere(p) /\ job'[p].pc = "idle" /\ Fits(bad, job'[p])
<1>1. Elsewhere(p) /\ job'[p] = Idle  BY DEF Fail, TypeOK, Elsewhere
<1> QED  BY <1>1 DEF Idle, Fits

\* Going on changes nothing but the step.
LEMMA GotoFits ==
  ASSUME TypeOK, NEW p \in Process, job[p].pc # "idle", NEW pc, Goto(p, pc)
  PROVE  /\ Elsewhere(p) /\ job'[p].pc = pc
         /\ job'[p].work = job[p].work /\ job'[p].got = job[p].got
         /\ job'[p].request = job[p].request
<1>1. job[p] \in Job  BY Working
<1>2. Elsewhere(p) /\ job'[p] = [job[p] EXCEPT !.pc = pc]  BY DEF Goto, TypeOK, Elsewhere
<1> QED  BY <1>1, <1>2 DEF Job

\* The two kinds of new jobs.
LEMMA BeginSound ==
  ASSUME TypeOK, Sound, NEW p \in Process, NEW t, NEW refresh, Begin(p, t.request, t.via, refresh)
  PROVE  Sound'
<1>1. PICK pc \in {"read", "lookup", "run"} :
        job' = [job EXCEPT ![p] = NewJob(t.request, t.via, pc)]
  BY DEF Begin
<1>2. job'[p].pc = pc /\ Elsewhere(p)  BY <1>1 DEF NewJob, Elsewhere, TypeOK
<1>3. Fits(torn', job'[p])  BY <1>2 DEF Fits
<1> QED  BY <1>2, <1>3, QuietSound DEF Begin

\* A replayed entry that nobody is writing is an outcome.
LEMMA ReadSound ==
  ASSUME TypeOK, Sound, Held, NEW p \in Process, Read(p)
  PROVE  Sound'
<1>1. job[p] \in Job /\ Asked(p) \in Request /\ Key(p) \in Keys  BY Working DEF Read
<1>2. PICK c \in Applied(cache[Key(p)], Asked(p).files) :
        job' = [job EXCEPT ![p].pc = "done", ![p].hit = TRUE, ![p].work = c]
  BY DEF Read
<1>3. /\ Elsewhere(p) /\ job'[p].pc = "done" /\ job'[p].work = c
      /\ job'[p].request = job[p].request
  <2>1. Elsewhere(p) /\ job'[p] = [job[p] EXCEPT !.pc = "done", !.hit = TRUE, !.work = c]
    BY <1>2 DEF TypeOK, Elsewhere
  <2> QED  BY <1>1, <2>1 DEF Job
<1>4. torn \subseteq torn'  BY DEF Read
<1>5. ASSUME Key(p) \notin torn' PROVE c \in Made(p)
  <2>1. Key(p) \notin torn /\ Writing(Key(p)) = {}  BY <1>5 DEF Read
  <2>2. Replays(Asked(p), cache[Key(p)])
    BY <1>1, <2>1 DEF Sound, EntriesReplay, Key, Writing
  <2>3. cache[Key(p)] # Absent  BY DEF Held, Holds, Read, Key, Asked
  <2>4. PICK d \in Made(p) : cache[Key(p)] = IF d = Asked(p).files THEN Empty ELSE d
    BY <2>2, <2>3 DEF Replays, Made
  <2>5. d \in Content  BY <2>4, Working DEF Read
  <2>6. CASE d = Asked(p).files
    <3>1. cache[Key(p)] = Empty /\ Empty # Garbled  BY <2>4, <2>6, AgentsAssumption
    <3>2. c = Asked(p).files  BY <1>2, <3>1 DEF Applied
    <3> QED  BY <2>4, <2>6, <3>2
  <2>7. CASE d # Asked(p).files
    <3>1. cache[Key(p)] = d /\ d # Empty /\ d # Garbled  BY <2>4, <2>5, <2>7, AgentsAssumption
    <3> QED  BY <1>2, <2>4, <3>1 DEF Applied
  <2> QED  BY <2>6, <2>7
<1>6. Fits(torn', job'[p])  BY <1>3, <1>5 DEF Fits, Key, Asked, Made
<1> QED  BY <1>3, <1>4, <1>6, QuietSound DEF Read

\* What a harness leaves is an outcome.
LEMMA RunSound ==
  ASSUME TypeOK, Sound, NEW p \in Process, Run(p)
  PROVE  Sound'
<1>1. job[p] \in Job  BY Working DEF Run
<1>2. PICK c \in Made(p), pc \in {"verify", "create"} :
        job' = [job EXCEPT ![p].work = c, ![p].pc = pc]
  BY DEF Run
<1>3. /\ Elsewhere(p) /\ job'[p].pc = pc /\ job'[p].work = c
      /\ job'[p].request = job[p].request
  <2>1. Elsewhere(p) /\ job'[p] = [job[p] EXCEPT !.work = c, !.pc = pc]
    BY <1>2 DEF TypeOK, Elsewhere
  <2> QED  BY <1>1, <2>1 DEF Job
<1>4. Fits(torn', job'[p])  BY <1>2, <1>3 DEF Fits, Made, Asked
<1> QED  BY <1>3, <1>4, QuietSound DEF Run

\* The verifier takes what it was given, or makes way for another attempt.
LEMMA VerifySound ==
  ASSUME TypeOK, Sound, NEW p \in Process, Verify(p)
  PROVE  Sound'
<1>1. job[p] \in Job /\ job[p].pc # "idle"  BY Working DEF Verify
<1>2. CASE Goto(p, "create")
  <2>1. /\ Elsewhere(p) /\ job'[p].pc = "create" /\ job'[p].work = job[p].work
        /\ job'[p].request = job[p].request
    BY <1>1, <1>2, GotoFits
  <2>2. job[p].work \in Outcome[Action(job[p].request)]
    BY DEF Sound, JobsFit, Fits, Verify
  <2>3. Fits(torn', job'[p])  BY <2>1, <2>2 DEF Fits
  <2> QED  BY <2>1, <2>3, QuietSound DEF Verify
<1>3. CASE job' = [job EXCEPT ![p].pc = "run", ![p].attempt = @ + 1]
  <2>1. Elsewhere(p) /\ job'[p] = [job[p] EXCEPT !.pc = "run", !.attempt = @ + 1]
    BY <1>3 DEF TypeOK, Elsewhere
  <2>2. job'[p].pc = "run"  BY <1>1, <2>1 DEF Job
  <2>3. Fits(torn', job'[p])  BY <2>2 DEF Fits
  <2> QED  BY <2>1, <2>2, <2>3, QuietSound DEF Verify
<1>4. CASE Fail(p)
  <2>1. Elsewhere(p) /\ job'[p].pc = "idle" /\ Fits(torn', job'[p])  BY <1>4, FailFits
  <2> QED  BY <2>1, QuietSound DEF Verify
<1> QED  BY <1>2, <1>3, <1>4 DEF Verify

\* A cached result is an outcome of the action.
LEMMA LookupSound ==
  ASSUME TypeOK, Sound, NEW p \in Process, Lookup(p)
  PROVE  Sound'
<1>1. job[p] \in Job /\ Action(Asked(p)) \in Actions  BY Working DEF Lookup
<1> DEFINE g == ac[Action(Asked(p))]
<1>2. PICK pc \in {"find", "fetch"} :
        /\ pc = "fetch" => g # Absent
        /\ job' = [job EXCEPT ![p].got = g, ![p].pc = pc]
  BY DEF Lookup
<1>3. g = Absent \/ g \in Made(p)  BY <1>1 DEF Sound, ResultsFit, Made
<1> HIDE DEF g
<1>4. /\ Elsewhere(p) /\ job'[p].pc = pc /\ job'[p].got = g
      /\ job'[p].request = job[p].request
  <2>1. Elsewhere(p) /\ job'[p] = [job[p] EXCEPT !.got = g, !.pc = pc]
    BY <1>2 DEF TypeOK, Elsewhere
  <2> QED  BY <1>1, <2>1 DEF Job
<1>5. Fits(torn', job'[p])  BY <1>2, <1>3, <1>4 DEF Fits, Made, Asked
<1> QED  BY <1>4, <1>5, QuietSound DEF Lookup

\* What is missing, and what is uploaded, need not fit anything.
LEMMA UploadSound ==
  ASSUME TypeOK, Sound, NEW p \in Process, NEW sent, FindMissing(p) \/ Upload(p, sent)
  PROVE  Sound'
<1>1. job[p] \in Job  BY Working DEF FindMissing, Upload
<1>2. PICK m : \E pc \in {"upload", "execute"} :
        \/ job' = [job EXCEPT ![p].missing = m, ![p].pc = pc]
        \/ job' = [job EXCEPT ![p].pc = pc, ![p].missing = m]
        \/ Fail(p)
  BY DEF FindMissing, Upload
<1>3. ASSUME NEW pc \in {"upload", "execute"},
             \/ job' = [job EXCEPT ![p].missing = m, ![p].pc = pc]
             \/ job' = [job EXCEPT ![p].pc = pc, ![p].missing = m]
      PROVE  Sound'
  <2>1. /\ Elsewhere(p)
        /\ \/ job'[p] = [job[p] EXCEPT !.missing = m, !.pc = pc]
           \/ job'[p] = [job[p] EXCEPT !.pc = pc, !.missing = m]
    BY <1>3 DEF TypeOK, Elsewhere
  <2>2. job'[p].pc = pc  BY <1>1, <2>1 DEF Job
  <2>3. Fits(torn', job'[p])  BY <2>2 DEF Fits
  <2> QED  BY <2>1, <2>2, <2>3, QuietSound DEF FindMissing, Upload
<1>4. CASE Fail(p)
  <2>1. Elsewhere(p) /\ job'[p].pc = "idle" /\ Fits(torn', job'[p])  BY <1>4, FailFits
  <2> QED  BY <2>1, QuietSound DEF FindMissing, Upload
<1> QED  BY <1>2, <1>3, <1>4

\* The server caches an outcome of the action, and answers what it caches.
LEMMA ExecuteSound ==
  ASSUME TypeOK, Sound, NEW p \in Process, NEW answered, Execute(p, answered)
  PROVE  Sound'
<1>1. job[p] \in Job /\ Action(Asked(p)) \in Actions  BY Working DEF Execute
<1>2. UNCHANGED <<cache, torn>> /\ job[p].pc = "execute"  BY DEF Execute
<1>3. ResultsFit'
  <2>1. ASSUME NEW c, c \in {ac[Action(Asked(p))]} \cup Made(p), c # Absent
        PROVE  c \in Outcome[Action(Asked(p))]
    BY <1>1, <2>1 DEF Sound, ResultsFit, Made
  <2>2. \/ UNCHANGED ac
        \/ \E c \in Made(p) \cup {ac[Action(Asked(p))]} :
             /\ c = Absent => c \in Made(p)
             /\ ac' = [ac EXCEPT ![Action(Asked(p))] = c]
    BY DEF Execute
  <2>3. \/ UNCHANGED ac
        \/ \E c \in Outcome[Action(Asked(p))] : ac' = [ac EXCEPT ![Action(Asked(p))] = c]
    BY <2>1, <2>2 DEF Made
  <2> QED  BY <1>1, <2>3 DEF Sound, ResultsFit, TypeOK
<1>4. /\ Elsewhere(p) /\ job'[p].pc \in {"idle", "fetch"} /\ Fits(torn', job'[p])
  <2>1. CASE Fail(p)  BY <2>1, FailFits
  <2>2. ASSUME NEW c \in Outcome[Action(Asked(p))],
               job' = [job EXCEPT ![p].got = c, ![p].pc = "fetch"]
        PROVE  /\ Elsewhere(p) /\ job'[p].pc \in {"idle", "fetch"} /\ Fits(torn', job'[p])
    <3>1. Elsewhere(p) /\ job'[p] = [job[p] EXCEPT !.got = c, !.pc = "fetch"]
      BY <2>2 DEF TypeOK, Elsewhere
    <3>2. job'[p].pc = "fetch" /\ job'[p].got = c /\ job'[p].request = job[p].request
      BY <1>1, <3>1 DEF Job
    <3> QED  BY <3>1, <3>2 DEF Fits, Asked
  <2>3. \/ Fail(p)
        \/ \E c \in Outcome[Action(Asked(p))] :
             job' = [job EXCEPT ![p].got = c, ![p].pc = "fetch"]
    BY <1>1 DEF Execute, Made, Sound, ResultsFit
  <2> QED  BY <2>1, <2>2, <2>3
<1>5. EntriesReplay' /\ OneWriter'  BY <1>2, <1>4, QuietStep DEF Sound
<1>6. JobsFit'  BY <1>2, <1>4, FitStep DEF Sound
<1> QED  BY <1>3, <1>5, <1>6 DEF Sound

\* The result is kept while the directory is cleared, and then in it.
LEMMA FetchSound ==
  ASSUME TypeOK, Sound, NEW p \in Process, FetchTree(p) \/ FetchFiles(p)
  PROVE  Sound'
<1>1. job[p] \in Job  BY Working DEF FetchTree, FetchFiles
<1>2. job[p].got \in Outcome[Action(job[p].request)]
  BY DEF Sound, JobsFit, Fits, FetchTree, FetchFiles
<1>3. CASE FetchTree(p)
  <2>1. Elsewhere(p) /\ job'[p] = [job[p] EXCEPT !.work = Cleared, !.pc = "files"]
    BY <1>3 DEF FetchTree, TypeOK, Elsewhere
  <2>2. /\ job'[p].pc = "files" /\ job'[p].got = job[p].got
        /\ job'[p].request = job[p].request
    BY <1>1, <2>1 DEF Job
  <2>3. Fits(torn', job'[p])  BY <1>2, <2>2 DEF Fits
  <2> QED  BY <1>3, <2>1, <2>2, <2>3, QuietSound DEF FetchTree
<1>4. CASE FetchFiles(p)
  <2>1. /\ Elsewhere(p)
        /\ job'[p] = [job[p] EXCEPT !.work = job[p].got, !.got = Absent, !.pc = "create"]
    BY <1>4 DEF FetchFiles, TypeOK, Elsewhere
  <2>2. /\ job'[p].pc = "create" /\ job'[p].work = job[p].got
        /\ job'[p].request = job[p].request
    BY <1>1, <2>1 DEF Job
  <2>3. Fits(torn', job'[p])  BY <1>2, <2>2 DEF Fits
  <2> QED  BY <1>4, <2>1, <2>2, <2>3, QuietSound DEF FetchFiles
<1> QED  BY <1>3, <1>4

\* Entries of other keys, and their writers, are as they were.
LEMMA OtherKeys ==
  ASSUME TypeOK, Sound, NEW p \in Process, Elsewhere(p), torn \subseteq torn',
         job[p].pc \in {"create", "write"}, job'[p].pc = "write" => Key(p)' = Key(p),
         \A k \in Keys \ {Key(p)} : cache'[k] = cache[k]
  PROVE  /\ \A r \in Request :
              /\ AgentCacheKey(r) # Key(p) /\ AgentCacheKey(r) \notin torn'
              /\ \A q \in Process : ~(job'[q].pc = "write" /\ Key(q)' = AgentCacheKey(r))
              => Replays(r, cache'[AgentCacheKey(r)])
         /\ \A o \in Process \ {p} :
              /\ job'[o].pc = "write" /\ Key(o)' # Key(p) /\ Key(o)' \notin torn'
              => /\ cache'[Key(o)'] = Empty
                 /\ \A q \in Process : job'[q].pc = "write" /\ Key(q)' = Key(o)' => q = o
<1>1. \A q \in Process \ {p} : job'[q].pc = job[q].pc /\ Key(q)' = Key(q)
  BY DEF Elsewhere, Key, Asked
<1>2. ASSUME NEW r \in Request, AgentCacheKey(r) # Key(p), AgentCacheKey(r) \notin torn',
             \A q \in Process : ~(job'[q].pc = "write" /\ Key(q)' = AgentCacheKey(r))
      PROVE  Replays(r, cache'[AgentCacheKey(r)])
  <2>1. \A q \in Process : ~(job[q].pc = "write" /\ Key(q) = AgentCacheKey(r))
    BY <1>1, <1>2
  <2>2. Replays(r, cache[AgentCacheKey(r)])  BY <1>2, <2>1 DEF Sound, EntriesReplay
  <2>3. AgentCacheKey(r) \in Keys \ {Key(p)}  BY <1>2 DEF Keys
  <2> QED  BY <2>2, <2>3
<1>3. ASSUME NEW o \in Process \ {p}, job'[o].pc = "write", Key(o)' # Key(p), Key(o)' \notin torn'
      PROVE  /\ cache'[Key(o)'] = Empty
             /\ \A q \in Process : job'[q].pc = "write" /\ Key(q)' = Key(o)' => q = o
  <2>1. job[o].pc = "write" /\ Key(o)' = Key(o) /\ Key(o) \notin torn  BY <1>1, <1>3
  <2>2. /\ cache[Key(o)] = Empty
        /\ \A q \in Process : job[q].pc = "write" /\ Key(q) = Key(o) => q = o
    BY <2>1 DEF Sound, OneWriter
  <2>3. Key(o) \in Keys \ {Key(p)}  BY <1>3, <2>1, Working
  <2> QED  BY <1>1, <1>3, <2>1, <2>2, <2>3
<1> QED  BY <1>2, <1>3

\* Who creates an entry is its one writer, or the key is torn.
LEMMA CreateSound ==
  ASSUME TypeOK, Sound, NEW p \in Process, Create(p)
  PROVE  Sound'
<1>1. job[p] \in Job /\ Key(p) \in Keys /\ job[p].pc = "create"  BY Working DEF Create
<1>2. /\ Elsewhere(p) /\ job'[p].pc = "write" /\ job'[p].work = job[p].work
      /\ job'[p].request = job[p].request
  BY <1>1, GotoFits DEF Create
<1>3. Key(p)' = Key(p)  BY <1>2 DEF Key, Asked
<1>4. torn \subseteq torn'  BY DEF Create
<1>5. cache'[Key(p)] = Empty /\ \A k \in Keys \ {Key(p)} : cache'[k] = cache[k]
  BY <1>1 DEF Create, TypeOK
<1>6. EntriesReplay'
  BY <1>1, <1>2, <1>3, <1>4, <1>5, OtherKeys DEF EntriesReplay, Replays, AgentCacheKey, Action
<1>7. OneWriter'
  <2>1. \A q \in Process \ {p} : job'[q].pc = job[q].pc /\ Key(q)' = Key(q)
    BY <1>2 DEF Elsewhere, Key, Asked
  <2>2. Key(p) \notin torn' => \A q \in Process : job[q].pc = "write" => Key(q) # Key(p)
    BY DEF Create, Writing
  <2> SUFFICES ASSUME NEW o \in Process, job'[o].pc = "write", Key(o)' \notin torn'
               PROVE  /\ cache'[Key(o)'] = Empty
                      /\ \A q \in Process : job'[q].pc = "write" /\ Key(q)' = Key(o)' => q = o
    BY DEF OneWriter
  <2>3. CASE o = p  BY <1>3, <1>5, <2>1, <2>2, <2>3
  <2>4. CASE o # p
    <3>1. Key(o)' # Key(p)  BY <2>1, <2>2, <2>4
    <3> QED  BY <1>1, <1>3, <1>4, <1>2, <1>5, <2>4, <3>1, OtherKeys
  <2> QED  BY <2>3, <2>4
<1>8. JobsFit'
  <2>1. job[p].work \in Outcome[Action(job[p].request)]  BY <1>1 DEF Sound, JobsFit, Fits
  <2>2. Fits(torn', job'[p])  BY <1>2, <2>1 DEF Fits
  <2> QED  BY <1>2, <1>4, <2>2, FitStep DEF Sound
<1>9. ResultsFit'  BY DEF Create, Sound, ResultsFit
<1> QED  BY <1>6, <1>7, <1>8, <1>9 DEF Sound

\* The one writer of an entry writes what its run led to.
LEMMA WriteSound ==
  ASSUME TypeOK, Sound, NEW p \in Process, Write(p)
  PROVE  Sound'
<1>1. /\ job[p] \in Job /\ Key(p) \in Keys /\ job[p].pc = "write" /\ Asked(p) \in Request
  BY Working DEF Write
<1>2. /\ Elsewhere(p) /\ job'[p].pc = "done" /\ job'[p].work = job[p].work
      /\ job'[p].request = job[p].request
  <2>1. Elsewhere(p) /\ job'[p] = [job[p] EXCEPT !.pc = "done", !.attempt = 0]
    BY DEF Write, TypeOK, Elsewhere
  <2> QED  BY <1>1, <2>1 DEF Job
<1>3. torn' = torn  BY DEF Write
<1>4. \A k \in Keys \ {Key(p)} : cache'[k] = cache[k]  BY DEF Write, TypeOK
<1>5. job[p].work \in Outcome[Action(job[p].request)]  BY <1>1 DEF Sound, JobsFit, Fits
<1>6. Key(p) \notin torn => cache'[Key(p)] = Patch(p)
  BY <1>1 DEF Sound, OneWriter, Write, Written, TypeOK
<1>7. EntriesReplay'
  <2> SUFFICES ASSUME NEW r \in Request, AgentCacheKey(r) \notin torn',
                      \A q \in Process : ~(job'[q].pc = "write" /\ Key(q)' = AgentCacheKey(r))
               PROVE  Replays(r, cache'[AgentCacheKey(r)])
    BY DEF EntriesReplay, Replays, AgentCacheKey, Action
  <2>1. CASE AgentCacheKey(r) = Key(p)
    <3>1. Action(r) = Action(Asked(p)) /\ r.files = Asked(p).files
      BY <1>1, <2>1, KeyTells DEF Key
    <3>2. cache'[AgentCacheKey(r)] = IF job[p].work = r.files THEN Empty ELSE job[p].work
      BY <1>3, <1>6, <2>1, <3>1 DEF Patch
    <3> QED  BY <1>5, <3>1, <3>2 DEF Replays, Asked
  <2>2. CASE AgentCacheKey(r) # Key(p)
    BY <1>1, <1>2, <1>3, <1>4, <2>2, OtherKeys
  <2> QED  BY <2>1, <2>2
<1>8. OneWriter'
  <2>1. \A q \in Process \ {p} : job'[q].pc = job[q].pc /\ Key(q)' = Key(q)
    BY <1>2 DEF Elsewhere, Key, Asked
  <2> SUFFICES ASSUME NEW o \in Process, job'[o].pc = "write", Key(o)' \notin torn'
               PROVE  /\ cache'[Key(o)'] = Empty
                      /\ \A q \in Process : job'[q].pc = "write" /\ Key(q)' = Key(o)' => q = o
    BY DEF OneWriter
  <2>2. o # p  BY <1>2
  <2>3. Key(o)' # Key(p)  BY <1>1, <1>3, <2>1, <2>2 DEF Sound, OneWriter
  <2> QED  BY <1>1, <1>2, <1>3, <1>4, <2>2, <2>3, OtherKeys
<1>9. JobsFit'
  <2>1. Fits(torn', job'[p])  BY <1>2, <1>5 DEF Fits
  <2> QED  BY <1>2, <1>3, <2>1, FitStep DEF Sound
<1>10. ResultsFit'  BY DEF Write, Sound, ResultsFit
<1> QED  BY <1>7, <1>8, <1>9, <1>10 DEF Sound

\* Who stops while writing leaves a torn key.
LEMMA StopSound ==
  ASSUME TypeOK, Sound, NEW p \in Process, Stop(p)
  PROVE  Sound'
<1>1. Elsewhere(p) /\ job'[p].pc = "idle" /\ Fits(torn', job'[p])  BY FailFits DEF Stop
<1>2. CASE job[p].pc # "write"  BY <1>1, <1>2, QuietSound DEF Stop
<1>3. CASE job[p].pc = "write"
  <2>1. Key(p) \in torn' /\ torn \subseteq torn'  BY <1>3 DEF Stop
  <2>2. \A k \in Keys \ {Key(p)} : cache'[k] = cache[k]  BY <1>3 DEF Stop, TypeOK
  <2>3. EntriesReplay'
    BY <1>1, <1>3, <2>1, <2>2, OtherKeys DEF EntriesReplay, Replays, AgentCacheKey, Action
  <2>4. OneWriter'
    <3> SUFFICES ASSUME NEW o \in Process, job'[o].pc = "write", Key(o)' \notin torn'
                 PROVE  /\ cache'[Key(o)'] = Empty
                        /\ \A q \in Process : job'[q].pc = "write" /\ Key(q)' = Key(o)' => q = o
      BY DEF OneWriter
    <3>1. o # p /\ Key(o)' # Key(p)  BY <1>1, <2>1
    <3> QED  BY <1>1, <1>3, <2>1, <2>2, <3>1, OtherKeys
  <2>5. JobsFit'  BY <1>1, <2>1, FitStep DEF Sound
  <2>6. ResultsFit'  BY DEF Stop, Sound, ResultsFit
  <2> QED  BY <2>3, <2>4, <2>5, <2>6 DEF Sound
<1> QED  BY <1>2, <1>3

\* Entries, results and jobs stay sound.
LEMMA SoundInduct ==
  /\ Init => Sound
  /\ TypeOK /\ Held /\ Sound /\ [Next]_vars => Sound'
<1>1. Init => Sound
  <2> SUFFICES ASSUME Init PROVE Sound  OBVIOUS
  <2>1. EntriesReplay  BY DEF Init, EntriesReplay, Replays, Keys
  <2>2. OneWriter /\ JobsFit  BY DEF Init, Idle, OneWriter, JobsFit, Fits
  <2>3. ResultsFit  BY DEF Init, ResultsFit
  <2> QED  BY <2>1, <2>2, <2>3 DEF Sound
<1>2. TypeOK /\ Held /\ Sound /\ [Next]_vars => Sound'
  <2> SUFFICES ASSUME TypeOK, Held, Sound, [Next]_vars PROVE Sound'
    OBVIOUS
  <2>1. ASSUME UNCHANGED <<cache, job, torn>>, \A a \in Actions : ac'[a] \in {ac[a], Absent}
        PROVE  Sound'
    <3>1. EntriesReplay' /\ OneWriter'
      BY <2>1 DEF Sound, EntriesReplay, OneWriter, Replays, Key, Asked, AgentCacheKey, Action
    <3>2. JobsFit'  BY <2>1 DEF Sound, JobsFit, Fits, AgentCacheKey, Action
    <3>3. ResultsFit'  BY <2>1 DEF Sound, ResultsFit
    <3> QED  BY <3>1, <3>2, <3>3 DEF Sound
  <2>2. CASE UNCHANGED vars  BY <2>1, <2>2 DEF vars
  <2>3. ASSUME NEW p \in Process, Progress(p) PROVE Sound'
    BY <2>3, ReadSound, RunSound, VerifySound, LookupSound, UploadSound, ExecuteSound,
       FetchSound, CreateSound, WriteSound DEF Progress
  <2>4. ASSUME NEW b \in cas, Evict(b) PROVE Sound'  BY <2>1, <2>4 DEF Evict
  <2>5. ASSUME NEW a \in Actions, EvictResult(a) PROVE Sound'
    BY <2>1, <2>5 DEF EvictResult, TypeOK
  <2> QED  BY <2>2, <2>3, <2>4, <2>5, BeginSound, StopSound DEF Next
<1> QED  BY <1>1, <1>2

\* Whatever processes, executors, caches and failures there are, an import only ever
\* takes for an agent's work what that agent can make of the same files for the same
\* prompt, unless the entry of that key was stopped at or shared half written.
THEOREM ResultsAreAlwaysRuns == Spec => []ResultsAreRuns
<1>1. Sound => ResultsAreRuns
  BY DEF Sound, JobsFit, Fits, ResultsAreRuns, Key, Asked, Made
<1> QED  BY <1>1, TypesInduct, SoundInduct, PTL DEF Spec

-----------------------------------------------------------------------------
(* The verifier, and the uploads. *)

\* Under a verifier nothing is run remotely, and a patch is only made of a directory
\* the verifier accepted.
Passed(j) ==
  j.pc # "idle" /\ j.via = "verified" =>
    /\ j.pc \notin {"lookup", "find", "upload", "execute", "fetch", "files"}
    /\ j.pc \in {"create", "write"} => j.work \in Verified
    /\ j.pc = "done" /\ ~j.hit => j.work \in Verified
\* What was not found missing is there until the action has been executed.
Stocked(store, j) ==
  /\ j.pc = "upload" => Blobs(Action(j.request)) \subseteq store \cup j.missing
  /\ j.pc = "execute" => Blobs(Action(j.request)) \subseteq store
Prepared == \A p \in Process : Passed(job[p]) /\ Stocked(cas, job[p])

\* A step of one process, which takes nothing out of the CAS.
LEMMA PreparedStep ==
  ASSUME Prepared, NEW p \in Process, Elsewhere(p), cas \subseteq cas',
         Passed(job'[p]), Stocked(cas', job'[p])
  PROVE  Prepared'
<1> SUFFICES ASSUME NEW q \in Process PROVE Passed(job'[q]) /\ Stocked(cas', job'[q])
  BY DEF Prepared, Passed, Stocked, Blobs, Action
<1>1. CASE q = p  BY <1>1
<1>2. CASE q # p
  <2>1. job'[q] = job[q] /\ Passed(job[q]) /\ Stocked(cas, job[q])
    BY <1>2 DEF Elsewhere, Prepared
  <2> QED  BY <2>1 DEF Stocked
<1> QED  BY <1>1, <1>2

\* Failing needs no preparation.
LEMMA PreparedFail ==
  ASSUME TypeOK, Prepared, NEW p \in Process, Fail(p), cas \subseteq cas'
  PROVE  Prepared'
<1>1. Elsewhere(p) /\ job'[p].pc = "idle"  BY FailFits
<1> QED  BY <1>1, PreparedStep DEF Passed, Stocked

\* No progress of a process leaves it unprepared.
LEMMA PreparedProgress ==
  ASSUME TypeOK, Prepared, NEW p \in Process, Progress(p)
  PROVE  Prepared'
<1>1. job[p] \in Job /\ Passed(job[p]) /\ Stocked(cas, job[p])
  <2>1. job[p].pc # "idle"
    BY DEF Progress, Read, Run, Verify, Lookup, FindMissing, Upload, Execute, FetchTree,
           FetchFiles, Create, Write
  <2> QED  BY <2>1, Working DEF Prepared
<1>2. CASE Read(p)
  <2>1. PICK c : job' = [job EXCEPT ![p].pc = "done", ![p].hit = TRUE, ![p].work = c]
    BY <1>2 DEF Read
  <2>2. Elsewhere(p) /\ job'[p] = [job[p] EXCEPT !.pc = "done", !.hit = TRUE, !.work = c]
    BY <2>1 DEF TypeOK, Elsewhere
  <2>3. job'[p].pc = "done" /\ job'[p].hit  BY <1>1, <2>2 DEF Job
  <2> QED  BY <1>2, <2>2, <2>3, PreparedStep DEF Passed, Stocked, Read
<1>3. CASE Run(p)
  <2>1. PICK c : job' = [job EXCEPT ![p].work = c,
                   ![p].pc = IF job[p].via = "verified" THEN "verify" ELSE "create"]
    BY <1>3 DEF Run
  <2>2. /\ Elsewhere(p)
        /\ job'[p] = [job[p] EXCEPT !.work = c,
                        !.pc = IF job[p].via = "verified" THEN "verify" ELSE "create"]
    BY <2>1 DEF TypeOK, Elsewhere
  <2>3. /\ job'[p].pc = IF job[p].via = "verified" THEN "verify" ELSE "create"
        /\ job'[p].via = job[p].via
    BY <1>1, <2>2 DEF Job
  <2> QED  BY <1>3, <2>2, <2>3, PreparedStep DEF Passed, Stocked, Run
<1>4. CASE Verify(p)
  <2>1. CASE job[p].work \in Verified /\ Goto(p, "create")
    <3>1. Elsewhere(p) /\ job'[p].pc = "create" /\ job'[p].work = job[p].work
      BY <1>4, <2>1, GotoFits DEF Verify
    <3> QED  BY <1>4, <2>1, <3>1, PreparedStep DEF Passed, Stocked, Verify
  <2>2. CASE job' = [job EXCEPT ![p].pc = "run", ![p].attempt = @ + 1]
    <3>1. Elsewhere(p) /\ job'[p] = [job[p] EXCEPT !.pc = "run", !.attempt = @ + 1]
      BY <2>2 DEF TypeOK, Elsewhere
    <3>2. job'[p].pc = "run"  BY <1>1, <3>1 DEF Job
    <3> QED  BY <1>4, <3>1, <3>2, PreparedStep DEF Passed, Stocked, Verify
  <2>3. CASE Fail(p)  BY <1>4, <2>3, PreparedFail DEF Verify
  <2> QED  BY <1>4, <2>1, <2>2, <2>3 DEF Verify
<1>5. CASE Lookup(p)
  <2> DEFINE g == ac[Action(Asked(p))]
  <2>1. PICK pc \in {"find", "fetch"} : job' = [job EXCEPT ![p].got = g, ![p].pc = pc]
    BY <1>5 DEF Lookup
  <2> HIDE DEF g
  <2>2. Elsewhere(p) /\ job'[p] = [job[p] EXCEPT !.got = g, !.pc = pc]
    BY <2>1 DEF TypeOK, Elsewhere
  <2>3. job'[p].pc = pc /\ job'[p].via = job[p].via  BY <1>1, <2>2 DEF Job
  <2>4. job[p].via # "verified"  BY <1>1, <1>5 DEF Passed, Lookup
  <2> QED  BY <1>5, <2>2, <2>3, <2>4, PreparedStep DEF Passed, Stocked, Lookup
<1>6. CASE FindMissing(p)
  <2> DEFINE m == Blobs(Action(Asked(p))) \ cas
  <2>1. Elsewhere(p) /\ job'[p] = [job[p] EXCEPT !.missing = m, !.pc = "upload"]
    BY <1>6 DEF TypeOK, Elsewhere, FindMissing
  <2>2. /\ job'[p].pc = "upload" /\ job'[p].via = job[p].via /\ job'[p].missing = m
        /\ job'[p].request = Asked(p)
    BY <1>1, <2>1 DEF Job, Asked
  <2>3. job[p].via # "verified"  BY <1>1, <1>6 DEF Passed, FindMissing
  <2>4. Passed(job'[p])  BY <2>2, <2>3 DEF Passed
  <2>5. Stocked(cas', job'[p])  BY <1>6, <2>2 DEF Stocked, FindMissing
  <2> QED  BY <1>6, <2>1, <2>4, <2>5, PreparedStep DEF FindMissing
<1>7. ASSUME NEW sent \in SUBSET AllBlobs, Upload(p, sent) PROVE Prepared'
  <2>1. CASE Fail(p)  BY <1>7, <2>1, PreparedFail DEF Upload
  <2>2. CASE /\ sent = job[p].missing
             /\ job' = [job EXCEPT ![p].pc = "execute", ![p].missing = {}]
    <3>1. Elsewhere(p) /\ job'[p] = [job[p] EXCEPT !.pc = "execute", !.missing = {}]
      BY <2>2 DEF TypeOK, Elsewhere
    <3>2. /\ job'[p].pc = "execute" /\ job'[p].via = job[p].via
          /\ job'[p].request = job[p].request
      BY <1>1, <3>1 DEF Job
    <3>3. job[p].via # "verified"  BY <1>1, <1>7 DEF Passed, Upload
    <3>4. Passed(job'[p])  BY <3>2, <3>3 DEF Passed
    <3>5. Stocked(cas', job'[p])  BY <1>1, <1>7, <2>2, <3>2 DEF Stocked, Upload
    <3> QED  BY <1>7, <3>1, <3>4, <3>5, PreparedStep DEF Upload
  <2> QED  BY <1>7, <2>1, <2>2 DEF Upload
<1>8. ASSUME NEW answered \in BOOLEAN, Execute(p, answered) PROVE Prepared'
  <2>1. CASE Fail(p)  BY <1>8, <2>1, PreparedFail DEF Execute
  <2>2. ASSUME NEW c, job' = [job EXCEPT ![p].got = c, ![p].pc = "fetch"] PROVE Prepared'
    <3>1. Elsewhere(p) /\ job'[p] = [job[p] EXCEPT !.got = c, !.pc = "fetch"]
      BY <2>2 DEF TypeOK, Elsewhere
    <3>2. job'[p].pc = "fetch" /\ job'[p].via = job[p].via  BY <1>1, <3>1 DEF Job
    <3>3. job[p].via # "verified"  BY <1>1, <1>8 DEF Passed, Execute
    <3> QED  BY <1>8, <3>1, <3>2, <3>3, PreparedStep DEF Passed, Stocked, Execute
  <2>3. Fail(p) \/ \E c : job' = [job EXCEPT ![p].got = c, ![p].pc = "fetch"]
    BY <1>8 DEF Execute
  <2> QED  BY <2>1, <2>2, <2>3
<1>9. CASE FetchTree(p)
  <2>1. Elsewhere(p) /\ job'[p] = [job[p] EXCEPT !.work = Cleared, !.pc = "files"]
    BY <1>9 DEF FetchTree, TypeOK, Elsewhere
  <2>2. job'[p].pc = "files" /\ job'[p].via = job[p].via  BY <1>1, <2>1 DEF Job
  <2>3. job[p].via # "verified"  BY <1>1, <1>9 DEF Passed, FetchTree
  <2> QED  BY <1>9, <2>1, <2>2, <2>3, PreparedStep DEF Passed, Stocked, FetchTree
<1>10. CASE FetchFiles(p)
  <2>1. /\ Elsewhere(p)
        /\ job'[p] = [job[p] EXCEPT !.work = job[p].got, !.got = Absent, !.pc = "create"]
    BY <1>10 DEF FetchFiles, TypeOK, Elsewhere
  <2>2. job'[p].pc = "create" /\ job'[p].via = job[p].via  BY <1>1, <2>1 DEF Job
  <2>3. job[p].via # "verified"  BY <1>1, <1>10 DEF Passed, FetchFiles
  <2> QED  BY <1>10, <2>1, <2>2, <2>3, PreparedStep DEF Passed, Stocked, FetchFiles
<1>11. CASE Create(p)
  <2>1. Elsewhere(p) /\ job'[p] = [job[p] EXCEPT !.pc = "write"]
    BY <1>11 DEF Create, Goto, TypeOK, Elsewhere
  <2>2. job'[p].pc = "write" /\ job'[p].via = job[p].via /\ job'[p].work = job[p].work
    BY <1>1, <2>1 DEF Job
  <2> QED  BY <1>1, <1>11, <2>1, <2>2, PreparedStep DEF Passed, Stocked, Create
<1>12. CASE Write(p)
  <2>1. Elsewhere(p) /\ job'[p] = [job[p] EXCEPT !.pc = "done", !.attempt = 0]
    BY <1>12 DEF Write, TypeOK, Elsewhere
  <2>2. job'[p].pc = "done" /\ job'[p].via = job[p].via /\ job'[p].work = job[p].work
    BY <1>1, <2>1 DEF Job
  <2> QED  BY <1>1, <1>12, <2>1, <2>2, PreparedStep DEF Passed, Stocked, Write
<1> QED  BY <1>2, <1>3, <1>4, <1>5, <1>6, <1>7, <1>8, <1>9, <1>10, <1>11, <1>12 DEF Progress

\* Every process stays prepared, whatever the remote store forgets.
LEMMA PreparedInduct ==
  /\ Init => Prepared
  /\ TypeOK /\ Prepared /\ [Next]_vars => Prepared'
<1>1. Init => Prepared  BY DEF Init, Idle, Prepared, Passed, Stocked
<1>2. TypeOK /\ Prepared /\ [Next]_vars => Prepared'
  <2> SUFFICES ASSUME TypeOK, Prepared, [Next]_vars PROVE Prepared'
    OBVIOUS
  <2>1. CASE UNCHANGED vars
    BY <2>1 DEF vars, Prepared, Passed, Stocked, Blobs, Action
  <2>2. ASSUME NEW p \in Process, NEW t \in Task[p], NEW refresh \in BOOLEAN,
               Begin(p, t.request, t.via, refresh)
        PROVE  Prepared'
    <3>1. PICK pc \in {"read", "lookup", "run"} :
            /\ job' = [job EXCEPT ![p] = NewJob(t.request, t.via, pc)]
            /\ pc = "lookup" => t.via = "remote"
      BY <2>2 DEF Begin
    <3>2. Elsewhere(p) /\ job'[p].pc = pc /\ job'[p].via = t.via
      BY <3>1 DEF NewJob, Elsewhere, TypeOK
    <3> QED  BY <2>2, <3>1, <3>2, PreparedStep DEF Passed, Stocked, Begin
  <2>3. ASSUME NEW p \in Process, Stop(p) PROVE Prepared'
    BY <2>3, PreparedFail DEF Stop
  <2>4. ASSUME NEW b \in cas, Evict(b) PROVE Prepared'
    <3>1. cas' = cas \ {b} /\ job' = job  BY <2>4 DEF Evict
    <3>2. \A q \in Process : job[q].pc \in {"upload", "execute"}
                             => b \notin Blobs(Action(job[q].request))
      BY <2>4 DEF Evict, Asked
    <3>3. ASSUME NEW q \in Process PROVE Passed(job'[q]) /\ Stocked(cas', job'[q])
      BY <3>1, <3>2 DEF Prepared, Stocked
    <3> QED  BY <3>3 DEF Prepared, Passed, Stocked, Blobs, Action
  <2>5. ASSUME NEW a \in Actions, EvictResult(a) PROVE Prepared'
    BY <2>5 DEF EvictResult, Prepared, Passed, Stocked, Blobs, Action
  <2> QED  BY <2>1, <2>2, <2>3, <2>4, <2>5, PreparedProgress DEF Next
<1> QED  BY <1>1, <1>2

\* What a verifying run makes its patch of, the verifier accepted, in whichever attempt.
THEOREM RunsAreVerified == Spec => []VerifiedWhenRun
<1>1. Prepared => VerifiedWhenRun  BY DEF Prepared, Passed, VerifiedWhenRun
<1> QED  BY <1>1, TypesInduct, PreparedInduct, PTL DEF Spec

\* No action is executed without its inputs in the CAS, however uploads of several
\* processes interleave, if the store keeps what it did not report missing.
THEOREM InputsAreUploaded == Spec => []InputsUploaded
<1>1. Prepared => InputsUploaded  BY DEF Prepared, Stocked, InputsUploaded, Asked
<1> QED  BY <1>1, TypesInduct, PreparedInduct, PTL DEF Spec
=============================================================================
