-------------------------- MODULE LocalOutboxProofs --------------------------
(***************************************************************************)
(* Theorems of LocalOutbox, for every finite set of commands and requests, *)
(* every set of artifacts, any retention, quota and number of attempts.    *)
(***************************************************************************)
EXTENDS LocalOutbox, FiniteSetTheorems, TLAPS

Directory ==
  [there : BOOLEAN, files : SUBSET Artifacts, inode : Inodes \cup {0}, record : Records \cup {None}]

Kept == {"saved", "doomed"}

Pruning == {"list", "prune", "try", "remove"}
Saving == {"create", "write"}
Sending == {"post", "posted", "recover"}
Confirming == {"mark", "confirm", "unlink"}
Settling == Confirming \cup {"retain", "update"}

(***************************************************************************)
(* What a command knows by itself at each of its steps.                    *)
(***************************************************************************)
Placed(job) ==
  /\ job.then # "idle" => job.pc \in Pruning
  /\ job.then # "idle" \/ job.pc \notin Pruning \cup {"idle"} => job.target \in Requests
  /\ job.pc \in {"try", "remove"} => job.open \in Requests /\ job.listed[job.open] # None
  /\ job.pc \in Saving \cup {"load"} => job.attempt = 0
  /\ job.pc = "post" => job.attempt < MaxAttempts
  /\ job.pc \in {"retain", "update"} => job.outcome # "none"

(***************************************************************************)
(* A scan that is about to save its bundle, now or after pruning: the id   *)
(* is its own.                                                             *)
(***************************************************************************)
Creates(job) == job.then = "create" \/ job.pc \in Saving

OwnIds ==
  \A p, q \in Processes :
     Creates(jobs[p]) /\ Creates(jobs[q]) /\ jobs[p].target = jobs[q].target => p = q

(***************************************************************************)
(* What a command knows of the outbox and the server at each of its steps. *)
(* It removes what it has doomed, and it marks what the server has.        *)
(***************************************************************************)
Knows(job) ==
  /\ Creates(job) => phase[job.target] = "drawn"
  /\ job.pc = "write" => dirs[job.target].there
  /\ \A r \in Requests : job.listed[r] # None => phase[r] \in Kept
  /\ job.pc = "remove" => phase[job.open] = "doomed"
  /\ job.pc \in Sending \cup Settling => phase[job.target] \in Kept
  /\ job.pc \in Sending /\ phase[job.target] = "saved" /\ server[job.target] = None =>
       job.bundle = Artifacts
  /\ job.pc \in Confirming => server[job.target] # None
  /\ job.pc = "unlink" => dirs[job.target].files \subseteq job.names

JobsOK == \A p \in Processes : Placed(jobs[p]) /\ Knows(jobs[p])

(***************************************************************************)
(* What holds of a request id before its bundle is saved, and of the posts *)
(* on their way until the server has stored one.                           *)
(***************************************************************************)
RequestOK(r) ==
  /\ dirs[r].record # None => phase[r] \in Kept
  /\ phase[r] \in {"unused", "drawn"} => server[r] = None
  /\ \A m \in wire : m[2] = r =>
       /\ phase[r] \in Kept
       /\ phase[r] = "saved" /\ server[r] = None => m[3] = Artifacts

RequestsOK == \A r \in Requests : RequestOK(r)

Promises == SavedUntilStored /\ StoredWhole /\ ReceiptProvesUpload

Inv == TypeOK /\ JobsOK /\ OwnIds /\ RequestsOK /\ Promises

-----------------------------------------------------------------------------
(***************************************************************************)
(* Types.                                                                  *)
(***************************************************************************)
LEMMA Assumed ==
  /\ IsFiniteSet(Processes) /\ IsFiniteSet(Requests)
  /\ Required \subseteq Artifacts
  /\ "record" \notin Artifacts /\ "lock" \notin Artifacts
  /\ MaxAttempts \in Nat /\ MaxAttempts > 0
  /\ Retention \in Nat /\ Quota \in Nat /\ MaxTime \in Nat
  /\ None \notin Requests /\ None \notin Records
  /\ \A bundle \in SUBSET Artifacts : bundle # None
BY OutboxAssumption

LEMMA InodesTyped == Cardinality(Processes) \in Nat /\ 1 \in Inodes /\ 0 \notin Inodes
BY Assumed, FS_CardinalityType DEF Inodes

(***************************************************************************)
(* There are more inodes than commands that could hold one open.           *)
(***************************************************************************)
LEMMA InodeIsFree == ASSUME NEW r PROVE \E i \in Inodes : i \notin InUse(r)
<1>1. SUFFICES ASSUME \A i \in Inodes : i \in InUse(r) PROVE FALSE
  OBVIOUS
<1> DEFINE f == [i \in Inodes |-> CHOOSE p \in Processes : jobs[p].fd = i]
<1>2. \A i \in Inodes : f[i] \in Processes /\ jobs[f[i]].fd = i
  BY <1>1 DEF InUse
<1>3. f \in [Inodes -> Processes]
  BY <1>2
<1>4. IsFiniteSet(Inodes) /\ Cardinality(Processes) < Cardinality(Inodes)
  <2>1. 1 \in Int /\ Cardinality(Processes) + 1 \in Int /\ ~(1 > Cardinality(Processes) + 1)
    BY InodesTyped
  <2>2. IsFiniteSet(Inodes) /\ Cardinality(Inodes) = Cardinality(Processes) + 1
    BY <2>1, FS_Interval DEF Inodes
  <2> QED
    BY <2>2, InodesTyped
<1> HIDE DEF f
<1>5. \E i, j \in Inodes : i # j /\ f[i] = f[j]
  BY <1>3, <1>4, Assumed, FS_PigeonHole
<1> QED
  BY <1>2, <1>5

LEMMA OpenedTyped ==
  ASSUME TypeOK, NEW r \in Requests
  PROVE  Opened(r) \in Inodes
BY InodeIsFree DEF Opened, TypeOK

LEMMA RecordTyped ==
  ASSUME TypeOK, NEW state \in {"pending", "retryable", "rejected", "uploaded"},
         NEW created \in 0 .. MaxTime, NEW bytes \in {0, 1}
  PROVE  /\ Record(state, created, bytes) \in Records
         /\ Record(state, created, bytes) # None
         /\ Record(state, created, bytes).state = state
BY Assumed DEF Record, Records, TypeOK

LEMMA UnlinkedTyped ==
  ASSUME NEW d \in Directory, NEW name
  PROVE  /\ Unlinked(d, name) \in Directory
         /\ Unlinked(d, name).files \subseteq d.files
         /\ Unlinked(d, name).there = d.there
         /\ Unlinked(d, name).record \in {d.record, None}
         /\ name \in Artifacts => /\ Unlinked(d, name).files = d.files \ {name}
                                  /\ Unlinked(d, name).record = d.record
BY Assumed DEF Unlinked, Directory

LEMMA IdleTyped == Idle \in Jobs /\ Placed(Idle)
BY Assumed DEF Idle, Jobs, Placed, Pruning, Saving

LEMMA ClosedTyped ==
  ASSUME NEW job \in Jobs
  PROVE  /\ Closed(job) \in Jobs
         /\ Closed(job).pc = job.pc /\ Closed(job).then = job.then
         /\ Closed(job).target = job.target /\ Closed(job).bundle = job.bundle
         /\ Closed(job).attempt = job.attempt /\ Closed(job).outcome = job.outcome
         /\ Closed(job).at = job.at /\ Closed(job).listed = job.listed
         /\ Closed(job).retained = job.retained
BY DEF Closed, Jobs

(***************************************************************************)
(* A command that writes nothing but its own state, or nothing at all.     *)
(***************************************************************************)
LEMMA JobsWritten ==
  ASSUME TypeOK, NEW p \in Processes, NEW job \in Jobs, Become(p, job)
  PROVE  /\ jobs' \in [Processes -> Jobs]
         /\ jobs'[p] = job
         /\ \A q \in Processes \ {p} : jobs'[q] = jobs[q]
BY DEF TypeOK, Become

Local == \A p \in Processes : Placed(jobs[p])

LEMMA LocalWritten ==
  ASSUME TypeOK, Local, NEW p \in Processes, NEW job \in Jobs, Placed(job), Become(p, job)
  PROVE  jobs' \in [Processes -> Jobs] /\ Local'
BY JobsWritten DEF Local

LEMMA OpenTyped ==
  ASSUME TypeOK, NEW p \in Processes, NEW r \in Requests, NEW pc,
         pc \in {"try", "update", "confirm"}, OpenLock(p, r, pc)
  PROVE  LET job == [jobs[p] EXCEPT !.pc = pc, !.open = r, !.fd = Opened(r)]
         IN  /\ job \in Jobs
             /\ Become(p, job)
             /\ dirs' = [dirs EXCEPT ![r].inode = Opened(r)]
             /\ dirs' \in [Requests -> Directory]
<1>1. Opened(r) \in Inodes /\ jobs[p] \in Jobs
  BY OpenedTyped DEF TypeOK
<1>2. [jobs[p] EXCEPT !.pc = pc, !.open = r, !.fd = Opened(r)] \in Jobs
  BY <1>1 DEF Jobs
<1>3. dirs' = [dirs EXCEPT ![r].inode = Opened(r)]
  BY DEF OpenLock
<1>4. dirs' \in [Requests -> Directory]
  BY <1>1, <1>3 DEF TypeOK, Directory
<1> QED
  BY <1>2, <1>3, <1>4 DEF OpenLock

LEMMA TypeList ==
  ASSUME TypeOK, Local, NEW p \in Processes, List(p)
  PROVE  TypeOK' /\ Local'
<1> DEFINE listed == [r \in Requests |-> IF Loadable(r) THEN dirs[r].record ELSE None]
           some == {r \in Requests : listed[r] # None /\ listed[r].bytes = 1}
           job == [jobs[p] EXCEPT !.pc = "prune", !.at = clock, !.listed = listed,
                                  !.retained = Cardinality(some)]
<1>1. jobs[p] \in Jobs /\ clock \in 0 .. MaxTime /\ Placed(jobs[p]) /\ jobs[p].pc = "list"
  BY DEF TypeOK, Local, List
<1>2. listed \in [Requests -> Records \cup {None}]
  BY DEF TypeOK, Loadable
<1>3. Cardinality(some) \in Nat
  BY Assumed, FS_Subset, FS_CardinalityType
<1>4. Become(p, job)
  BY DEF List
<1>5. job \in Jobs /\ Placed(job)
  <2> HIDE DEF listed, some
  <2>1. Cardinality(some) \in Int
    BY <1>3
  <2>2. job \in Jobs
    BY <1>1, <1>2, <2>1 DEF Jobs
  <2>3. Placed(job)
    BY <1>1 DEF Placed, Pruning, Saving, Jobs
  <2> QED
    BY <2>2, <2>3
<1> HIDE DEF job
<1> QED
  BY <1>4, <1>5, LocalWritten DEF List, TypeOK

LEMMA TypePassed ==
  ASSUME NEW job \in Jobs, Placed(job), job.pc \in Pruning, NEW r \in Requests
  PROVE  Passed(job, r) \in Jobs /\ Placed(Passed(job, r))
<1>1. Closed(job) \in Jobs
  BY ClosedTyped
<1>2. Passed(job, r) \in Jobs
  BY <1>1 DEF Passed, Jobs
<1>3. /\ Passed(job, r).pc = "prune" /\ Passed(job, r).then = job.then
      /\ Passed(job, r).target = job.target
  BY <1>1, ClosedTyped DEF Passed, Jobs
<1>4. Placed(Passed(job, r))
  BY <1>3 DEF Placed, Pruning, Saving
<1> QED
  BY <1>2, <1>4

LEMMA FailTypes ==
  ASSUME TypeOK, Local, NEW p \in Processes, Fails(p)
  PROVE  TypeOK' /\ Local'
BY IdleTyped, LocalWritten DEF Fails, Ends, TypeOK

LEMMA TypePrune ==
  ASSUME TypeOK, Local, NEW p \in Processes, Prune(p)
  PROVE  TypeOK' /\ Local'
<1>1. jobs[p] \in Jobs /\ Placed(jobs[p]) /\ clock \in 0 .. MaxTime
  BY DEF TypeOK, Local
<1>2. CASE List(p)
  BY <1>2, TypeList
<1>3. CASE KeepEntry(p)
  <2>1. PICK r \in Requests : Become(p, Passed(jobs[p], r))
    BY <1>3 DEF KeepEntry, OldestUnseen, Unseen
  <2>2. Passed(jobs[p], r) \in Jobs /\ Placed(Passed(jobs[p], r))
    BY <1>1, <1>3, TypePassed DEF KeepEntry, Pruning
  <2> QED
    BY <1>3, <2>1, <2>2, LocalWritten DEF KeepEntry, TypeOK
<1>4. CASE ChooseEntry(p)
  <2>1. PICK r \in OldestUnseen(jobs[p]) : OpenLock(p, r, "try") \/ Fails(p)
    BY <1>4 DEF ChooseEntry
  <2>2. r \in Requests /\ jobs[p].listed[r] # None
    BY <2>1 DEF OldestUnseen, Unseen
  <2>3. CASE OpenLock(p, r, "try")
    <3> DEFINE job == [jobs[p] EXCEPT !.pc = "try", !.open = r, !.fd = Opened(r)]
    <3>1. job \in Jobs /\ Become(p, job) /\ dirs' \in [Requests -> Directory]
      BY <2>2, <2>3, OpenTyped
    <3>2. Placed(job)
      BY <1>1, <1>4, <2>2 DEF ChooseEntry, Placed, Pruning, Saving, Jobs
    <3> HIDE DEF job
    <3> QED
      BY <2>3, <3>1, <3>2, LocalWritten DEF OpenLock, TypeOK, Directory
  <2> QED
    BY <2>1, <2>3, FailTypes
<1>5. CASE SkipLocked(p)
  <2>1. jobs[p].open \in Requests /\ Become(p, Passed(jobs[p], jobs[p].open))
    BY <1>1, <1>5 DEF SkipLocked, Placed
  <2>2. Passed(jobs[p], jobs[p].open) \in Jobs /\ Placed(Passed(jobs[p], jobs[p].open))
    BY <1>1, <1>5, <2>1, TypePassed DEF SkipLocked, Pruning
  <2> QED
    BY <1>5, <2>1, <2>2, LocalWritten DEF SkipLocked, TypeOK
<1>6. CASE TakeEntry(p)
  <2> DEFINE r == jobs[p].open
             job == [jobs[p] EXCEPT !.pc = "remove", !.locked = TRUE, !.names = Names(dirs[r])]
  <2>1. r \in Requests /\ jobs[p].listed[r] # None
    BY <1>1, <1>6 DEF TakeEntry, Placed
  <2>2. CASE Become(p, job) /\ phase' = [phase EXCEPT ![r] = "doomed"] /\ UNCHANGED <<clock, dirs, wire, server>>
    <3>1. Names(dirs[r]) \subseteq Artifacts \cup {"record", "lock"}
      BY <2>1 DEF TypeOK, Names
    <3>2. job \in Jobs
      BY <1>1, <3>1 DEF Jobs
    <3>3. Placed(job)
      BY <1>1, <1>6, <2>1 DEF TakeEntry, Placed, Pruning, Saving, Jobs
    <3>4. phase' \in [Requests -> {"unused", "drawn", "saved", "doomed"}]
      BY <2>1, <2>2 DEF TypeOK
    <3> HIDE DEF job
    <3> QED
      BY <2>2, <3>2, <3>3, <3>4, LocalWritten DEF TypeOK
  <2> QED
    BY <1>6, <2>2, FailTypes DEF TakeEntry
<1>7. CASE RemoveName(p)
  <2> DEFINE r == jobs[p].open
  <2>1. r \in Requests
    BY <1>1, <1>7 DEF RemoveName, Placed
  <2>2. ASSUME NEW name \in jobs[p].names, dirs' = [dirs EXCEPT ![r] = Unlinked(@, name)],
               Become(p, [jobs[p] EXCEPT !.names = @ \ {name}]), UNCHANGED <<clock, phase, wire, server>>
        PROVE  TypeOK' /\ Local'
    <3> DEFINE job == [jobs[p] EXCEPT !.names = @ \ {name}]
    <3>1. job \in Jobs
      BY <1>1 DEF Jobs
    <3>2. Placed(job)
      BY <1>1 DEF Placed, Jobs
    <3>3. dirs' \in [Requests -> Directory]
      BY <2>1, <2>2, UnlinkedTyped DEF TypeOK, Directory
    <3>4. Become(p, job) /\ UNCHANGED <<clock, phase, wire, server>>
      BY <2>2
    <3> HIDE DEF job
    <3> QED
      BY <3>1, <3>2, <3>3, <3>4, LocalWritten DEF TypeOK, Directory
  <2> QED
    BY <1>7, <2>2, FailTypes DEF RemoveName
<1>8. CASE RemoveDirectory(p)
  <2> DEFINE r == jobs[p].open
             job == [Passed(jobs[p], r) EXCEPT !.retained = @ - jobs[p].listed[r].bytes]
  <2>1. r \in Requests /\ jobs[p].listed[r] \in Records
    BY <1>1, <1>8 DEF RemoveDirectory, Placed, Jobs
  <2>2. Passed(jobs[p], r) \in Jobs /\ Placed(Passed(jobs[p], r))
    BY <1>1, <1>8, <2>1, TypePassed DEF RemoveDirectory, Pruning
  <2>3. CASE dirs' = [dirs EXCEPT ![r] = NoDirectory] /\ Become(p, job) /\ UNCHANGED <<clock, phase, wire, server>>
    <3>1. Passed(jobs[p], r).retained - jobs[p].listed[r].bytes \in Int
      BY <2>1, <2>2 DEF Jobs, Records
    <3>2. job \in Jobs
      BY <2>2, <3>1 DEF Jobs
    <3>3. Placed(job)
      BY <2>2 DEF Placed, Jobs
    <3>4. dirs' \in [Requests -> Directory]
      BY <2>1, <2>3 DEF TypeOK, Directory, NoDirectory
    <3> HIDE DEF job
    <3> QED
      BY <2>3, <3>2, <3>3, <3>4, LocalWritten DEF TypeOK, Directory
  <2> QED
    BY <1>8, <2>3, FailTypes DEF RemoveDirectory
<1>9. CASE Pruned(p)
  <2> DEFINE job == [Idle EXCEPT !.pc = jobs[p].then, !.target = jobs[p].target]
  <2>1. job \in Jobs
    BY <1>1, IdleTyped, ZenonT(30) DEF Jobs
  <2>2. Placed(job)
    <3>1. jobs[p].then \in {"idle", "create", "load"}
      BY <1>1 DEF Jobs
    <3>2. /\ job.pc = jobs[p].then /\ job.then = "idle" /\ job.attempt = 0
          /\ job.target = jobs[p].target
      BY DEF Idle
    <3> HIDE DEF job
    <3> QED
      BY <1>1, <3>1, <3>2, Assumed DEF Placed, Pruning, Saving
  <2> HIDE DEF job
  <2>3. Become(p, job)
    BY <1>9 DEF Pruned, job
  <2> QED
    BY <1>9, <2>1, <2>2, <2>3, LocalWritten DEF Pruned, TypeOK
<1> QED
  BY <1>2, <1>3, <1>4, <1>5, <1>6, <1>7, <1>8, <1>9 DEF Prune

LEMMA TypePostOrKeep ==
  ASSUME TypeOK, Local, NEW p \in Processes, NEW bundle \in SUBSET Artifacts,
         jobs[p].pc \in {"write", "load"}, PostOrKeep(p, bundle)
  PROVE  jobs' \in [Processes -> Jobs] /\ Local'
<1>1. jobs[p] \in Jobs /\ Placed(jobs[p])
  BY DEF TypeOK, Local
<1>2. Closed(jobs[p]) \in Jobs
  BY <1>1, ClosedTyped
<1>3. CASE Become(p, [Closed(jobs[p]) EXCEPT !.pc = "post", !.bundle = bundle])
  <2> DEFINE job == [Closed(jobs[p]) EXCEPT !.pc = "post", !.bundle = bundle]
  <2>1. job \in Jobs
    BY <1>2 DEF Jobs
  <2>2. /\ job.pc = "post" /\ job.then = jobs[p].then /\ job.target = jobs[p].target
        /\ job.attempt = jobs[p].attempt
    BY <1>1, <1>2, ClosedTyped DEF Jobs
  <2>3. Become(p, job)
    BY <1>3
  <2> HIDE DEF job
  <2>4. Placed(job)
    BY <1>1, <2>2, Assumed DEF Placed, Pruning, Saving
  <2> QED
    BY <2>1, <2>3, <2>4, LocalWritten
<1>4. CASE Become(p, [Closed(jobs[p]) EXCEPT !.pc = "retain", !.outcome = "retryable"])
  <2> DEFINE job == [Closed(jobs[p]) EXCEPT !.pc = "retain", !.outcome = "retryable"]
  <2>1. job \in Jobs
    BY <1>2 DEF Jobs
  <2>2. /\ job.pc = "retain" /\ job.then = jobs[p].then /\ job.target = jobs[p].target
        /\ job.outcome = "retryable"
    BY <1>1, <1>2, ClosedTyped DEF Jobs
  <2>3. Become(p, job)
    BY <1>4
  <2> HIDE DEF job
  <2>4. Placed(job)
    BY <1>1, <2>2 DEF Placed, Pruning, Saving
  <2> QED
    BY <2>1, <2>3, <2>4, LocalWritten
<1> QED
  BY <1>3, <1>4 DEF PostOrKeep

LEMMA TypeSave ==
  ASSUME TypeOK, Local, NEW p \in Processes, Save(p)
  PROVE  TypeOK' /\ Local'
<1>1. jobs[p] \in Jobs /\ Placed(jobs[p]) /\ clock \in 0 .. MaxTime
  BY DEF TypeOK, Local
<1> DEFINE r == jobs[p].target
<1>2. r \in Requests
  BY <1>1 DEF Save, Create, WriteArtifact, WriteRecord, SaveFails, Placed, Pruning
<1>3. CASE Create(p)
  <2> DEFINE job == [jobs[p] EXCEPT !.pc = "write", !.open = r, !.fd = 1, !.locked = TRUE]
  <2>1. job \in Jobs
    BY <1>1, <1>2, InodesTyped DEF Jobs
  <2>2. Placed(job)
    BY <1>1, <1>3 DEF Create, Placed, Pruning, Saving, Jobs
  <2>3. dirs' \in [Requests -> Directory]
    BY <1>2, <1>3, InodesTyped DEF Create, TypeOK, Directory, NoDirectory
  <2>4. Become(p, job)
    BY <1>3 DEF Create
  <2> HIDE DEF job
  <2> QED
    BY <1>3, <2>1, <2>2, <2>3, <2>4, LocalWritten DEF Create, TypeOK, Directory
<1>4. CASE WriteArtifact(p)
  <2>1. PICK name \in Artifacts : dirs' = [dirs EXCEPT ![r].files = @ \cup {name}]
    BY <1>4 DEF WriteArtifact
  <2>2. dirs' \in [Requests -> Directory]
    BY <1>2, <2>1 DEF TypeOK, Directory
  <2> QED
    BY <1>4, <2>2 DEF WriteArtifact, TypeOK, Directory, Local
<1>5. CASE WriteRecord(p)
  <2>1. dirs' \in [Requests -> Directory]
    BY <1>1, <1>2, <1>5, RecordTyped DEF WriteRecord, TypeOK, Directory
  <2>2. jobs' \in [Processes -> Jobs] /\ Local'
    BY <1>5, TypePostOrKeep DEF WriteRecord
  <2> QED
    BY <1>2, <1>5, <2>1, <2>2 DEF WriteRecord, TypeOK, Directory
<1>6. CASE SaveFails(p)
  <2>1. dirs' \in [Requests -> Directory]
    BY <1>2, <1>6 DEF SaveFails, TypeOK, Directory, NoDirectory
  <2> QED
    BY <1>6, <2>1, IdleTyped, LocalWritten DEF SaveFails, Ends, TypeOK, Directory
<1> QED
  BY <1>3, <1>4, <1>5, <1>6 DEF Save

(***************************************************************************)
(* How an upload goes on, for a command that has posted.                   *)
(***************************************************************************)
LEMMA TypeGoesOn ==
  ASSUME NEW job \in Jobs, Placed(job), job.pc \in {"posted", "recover"}
  PROVE  /\ Confirmed(job) \in Jobs /\ Placed(Confirmed(job))
         /\ \A outcome \in {"retryable", "rejected"} :
              Retained(job, outcome) \in Jobs /\ Placed(Retained(job, outcome))
         /\ InProgress(job) \in Jobs /\ Placed(InProgress(job))
         /\ Again(job) \in Jobs /\ Placed(Again(job))
<1>0. job.then = "idle" /\ job.target \in Requests /\ 0 \in 0 .. MaxAttempts
  BY Assumed DEF Placed, Pruning
<1>1. Confirmed(job) \in Jobs /\ Placed(Confirmed(job))
  <2>1. Confirmed(job) \in Jobs
    BY <1>0 DEF Confirmed, Jobs
  <2>2. Confirmed(job).pc = "mark" /\ Confirmed(job).then = job.then /\ Confirmed(job).target = job.target
    BY DEF Confirmed, Jobs
  <2> QED
    BY <1>0, <2>1, <2>2 DEF Placed, Pruning, Saving
<1>2. ASSUME NEW outcome \in {"retryable", "rejected"}
      PROVE  Retained(job, outcome) \in Jobs /\ Placed(Retained(job, outcome))
  <2> DEFINE kept == Retained(job, outcome)
  <2>1. kept \in Jobs
    BY <1>0 DEF Retained, Jobs
  <2>2. /\ kept.pc = "retain" /\ kept.then = job.then /\ kept.target = job.target
        /\ kept.outcome = outcome
    BY DEF Retained, Jobs
  <2> HIDE DEF kept
  <2>3. Placed(kept)
    BY <1>0, <2>2 DEF Placed, Pruning, Saving
  <2> QED
    BY <2>1, <2>3 DEF kept
<1>3. Again(job) \in Jobs /\ Placed(Again(job))
  <2>1. CASE job.attempt < MaxAttempts
    BY <2>1 DEF Again, Jobs, Placed, Pruning, Saving
  <2>2. CASE ~(job.attempt < MaxAttempts)
    BY <1>2, <2>2 DEF Again
  <2> QED
    BY <2>1, <2>2
<1> QED
  BY <1>1, <1>2, <1>3 DEF InProgress

LEMMA TypeSend ==
  ASSUME TypeOK, Local, NEW p \in Processes, Send(p)
  PROVE  TypeOK' /\ Local'
<1>1. jobs[p] \in Jobs /\ Placed(jobs[p])
  BY DEF TypeOK, Local
<1> DEFINE r == jobs[p].target
<1>2. r \in Requests
  BY <1>1 DEF Send, Load, LoadFails, Post, Answered, AnswerLost, Recover, Placed, Pruning
<1>3. CASE Load(p)
  <2>1. dirs[r].files \in SUBSET Artifacts
    BY <1>2 DEF TypeOK
  <2> QED
    BY <1>3, <2>1, TypePostOrKeep DEF Load, TypeOK
<1>4. CASE LoadFails(p)
  BY <1>4, FailTypes DEF LoadFails
<1>5. CASE Post(p)
  <2>1. CASE /\ wire' = wire \cup {<<p, r, jobs[p].bundle>>}
             /\ Become(p, [jobs[p] EXCEPT !.pc = "posted", !.attempt = @ + 1])
    <3> DEFINE job == [jobs[p] EXCEPT !.pc = "posted", !.attempt = @ + 1]
    <3>1. jobs[p].attempt + 1 \in 0 .. MaxAttempts
      BY <1>1, <1>5, Assumed DEF Post, Placed, Jobs
    <3>2. job \in Jobs
      BY <1>1, <3>1 DEF Jobs
    <3>3. Placed(job)
      BY <1>1, <1>5 DEF Post, Placed, Pruning, Saving, Jobs
    <3>4. wire' \subseteq Messages
      BY <1>1, <1>2, <2>1 DEF TypeOK, Messages, Jobs
    <3>5. Become(p, job)
      BY <2>1
    <3> HIDE DEF job
    <3> QED
      BY <1>5, <3>2, <3>3, <3>4, <3>5, LocalWritten DEF Post, TypeOK
  <2>2. CASE /\ Become(p, [jobs[p] EXCEPT !.pc = "retain", !.outcome = "rejected"])
             /\ UNCHANGED wire
    <3> DEFINE job == [jobs[p] EXCEPT !.pc = "retain", !.outcome = "rejected"]
    <3>1. job \in Jobs
      BY <1>1 DEF Jobs
    <3>2. Placed(job)
      BY <1>1, <1>5 DEF Post, Placed, Pruning, Saving, Jobs
    <3>3. Become(p, job)
      BY <2>2
    <3> HIDE DEF job
    <3> QED
      BY <1>5, <2>2, <3>1, <3>2, <3>3, LocalWritten DEF Post, TypeOK
  <2> QED
    BY <1>5, <2>1, <2>2 DEF Post
<1>6. CASE Answered(p) \/ Recover(p)
  <2>1. jobs[p].pc \in {"posted", "recover"}
    BY <1>6 DEF Answered, Recover
  <2>2. \/ Become(p, Confirmed(jobs[p])) \/ Become(p, InProgress(jobs[p]))
        \/ Become(p, Retained(jobs[p], "rejected")) \/ Become(p, Again(jobs[p]))
    BY <1>6 DEF Answered, Recover
  <2>3. jobs' \in [Processes -> Jobs] /\ Local'
    BY <1>1, <2>1, <2>2, TypeGoesOn, LocalWritten
  <2> QED
    BY <1>6, <2>3 DEF Answered, Recover, TypeOK
<1>7. CASE AnswerLost(p)
  <2> DEFINE job == [jobs[p] EXCEPT !.pc = "recover"]
  <2>1. job \in Jobs
    BY <1>1 DEF Jobs
  <2>2. Placed(job)
    BY <1>1, <1>7 DEF AnswerLost, Placed, Pruning, Saving, Jobs
  <2>3. Become(p, job)
    BY <1>7 DEF AnswerLost, Goto
  <2> HIDE DEF job
  <2> QED
    BY <1>7, <2>1, <2>2, <2>3, LocalWritten DEF AnswerLost, TypeOK
<1> QED
  BY <1>3, <1>4, <1>5, <1>6, <1>7 DEF Send

LEMMA TypeSettle ==
  ASSUME TypeOK, Local, NEW p \in Processes, Settle(p)
  PROVE  TypeOK' /\ Local'
<1>1. jobs[p] \in Jobs /\ Placed(jobs[p]) /\ clock \in 0 .. MaxTime
  BY DEF TypeOK, Local
<1> DEFINE r == jobs[p].target
<1>2. r \in Requests
  BY <1>1 DEF Settle, OpenTarget, UpdateRetry, StartMark, UnlinkArtifact, WriteReceipt, Placed, Pruning
<1>3. ASSUME OpenTarget(p), ~Fails(p) PROVE TypeOK' /\ Local'
  <2>1. PICK pc \in {"update", "confirm"} :
          /\ OpenLock(p, r, pc)
          /\ pc = "update" <=> jobs[p].pc = "retain"
    BY <1>3 DEF OpenTarget
  <2> DEFINE job == [jobs[p] EXCEPT !.pc = pc, !.open = r, !.fd = Opened(r)]
  <2>2. job \in Jobs /\ Become(p, job) /\ dirs' \in [Requests -> Directory]
    BY <1>2, <2>1, OpenTyped
  <2>3. Placed(job)
    BY <1>1, <1>3, <2>1 DEF OpenTarget, Placed, Pruning, Saving, Jobs
  <2> HIDE DEF job
  <2> QED
    BY <2>1, <2>2, <2>3, LocalWritten DEF OpenLock, TypeOK, Directory
<1>4. CASE UpdateRetry(p)
  <2>1. CASE Loadable(r)
    <3>1. dirs[r].record \in Records
      BY <1>2, <2>1 DEF TypeOK, Loadable
    <3>2. jobs[p].outcome \in {"retryable", "rejected"}
      BY <1>1, <1>4 DEF UpdateRetry, Placed, Jobs
    <3>3. Record(jobs[p].outcome, dirs[r].record.created, dirs[r].record.bytes) \in Records
      BY <3>1, <3>2, RecordTyped DEF Records
    <3>4. dirs' \in [Requests -> Directory]
      BY <1>2, <1>4, <2>1, <3>3 DEF UpdateRetry, TypeOK, Directory
    <3> QED
      BY <1>4, <3>4, IdleTyped, LocalWritten DEF UpdateRetry, Ends, TypeOK, Directory
  <2>2. CASE ~Loadable(r)
    BY <1>4, <2>2, FailTypes DEF UpdateRetry, Fails
  <2> QED
    BY <2>1, <2>2
<1>5. ASSUME StartMark(p), ~Fails(p) PROVE TypeOK' /\ Local'
  <2> DEFINE job == [jobs[p] EXCEPT !.pc = "unlink", !.locked = TRUE, !.names = dirs[r].files,
                                    !.at = dirs[r].record.created]
  <2>1. /\ Loadable(r) /\ Become(p, job) /\ UNCHANGED <<clock, dirs, phase, wire, server>>
    BY <1>5 DEF StartMark
  <2>2. dirs[r].record \in Records /\ dirs[r].files \in SUBSET Artifacts
    BY <1>2, <2>1 DEF TypeOK, Loadable
  <2>3. dirs[r].record.created \in 0 .. MaxTime
    BY <2>2 DEF Records
  <2>4. job \in Jobs
    BY <1>1, <2>2, <2>3 DEF Jobs
  <2>5. Placed(job)
    BY <1>1, <1>5 DEF StartMark, Placed, Pruning, Saving, Jobs
  <2> HIDE DEF job
  <2> QED
    BY <2>1, <2>4, <2>5, LocalWritten DEF TypeOK
<1>6. ASSUME UnlinkArtifact(p), ~Fails(p) PROVE TypeOK' /\ Local'
  <2>1. PICK name \in jobs[p].names :
          /\ dirs' = [dirs EXCEPT ![r] = Unlinked(@, name)]
          /\ Become(p, [jobs[p] EXCEPT !.names = @ \ {name}])
          /\ UNCHANGED <<clock, phase, wire, server>>
    BY <1>6 DEF UnlinkArtifact
  <2> DEFINE job == [jobs[p] EXCEPT !.names = @ \ {name}]
  <2>2. job \in Jobs
    BY <1>1 DEF Jobs
  <2>3. Placed(job)
    BY <1>1 DEF Placed, Jobs
  <2>4. dirs' \in [Requests -> Directory]
    BY <1>2, <2>1, UnlinkedTyped DEF TypeOK, Directory
  <2>5. Become(p, job)
    BY <2>1
  <2> HIDE DEF job
  <2> QED
    BY <2>1, <2>2, <2>3, <2>4, <2>5, LocalWritten DEF TypeOK, Directory
<1>7. CASE WriteReceipt(p)
  <2>1. jobs[p].at \in 0 .. MaxTime
    BY <1>1 DEF Jobs
  <2>2. Record("uploaded", jobs[p].at, 0) \in Records
    BY <2>1, RecordTyped
  <2>3. dirs' \in [Requests -> Directory]
    BY <1>2, <1>7, <2>2 DEF WriteReceipt, TypeOK, Directory
  <2> QED
    BY <1>7, <2>3, IdleTyped, LocalWritten DEF WriteReceipt, Ends, TypeOK, Directory
<1> QED
  BY <1>3, <1>4, <1>5, <1>6, <1>7, FailTypes DEF Settle

LEMMA TypeStep ==
  ASSUME TypeOK, Local, [Next]_vars
  PROVE  TypeOK' /\ Local'
<1>1. ASSUME NEW p \in Processes, NEW then, NEW r, Begins(p, then, r),
             \/ then \in {"create", "load"} /\ r \in Requests
             \/ then = "idle" /\ r = None
      PROVE  jobs' \in [Processes -> Jobs] /\ Local'
  <2> DEFINE job == [Idle EXCEPT !.pc = "list", !.then = then, !.target = r]
  <2>1. job \in Jobs
    BY <1>1, IdleTyped DEF Jobs
  <2>2. /\ job.pc = "list" /\ job.then = then /\ job.target = r
    BY DEF Idle
  <2>3. Become(p, job)
    BY <1>1 DEF Begins
  <2> HIDE DEF job
  <2>4. Placed(job)
    BY <1>1, <2>2 DEF Placed, Pruning, Saving
  <2> QED
    BY <2>1, <2>3, <2>4, LocalWritten
<1>2. ASSUME NEW p \in Processes, CachePrune(p) PROVE TypeOK' /\ Local'
  BY <1>1, <1>2 DEF CachePrune, Begins, TypeOK
<1>3. ASSUME NEW p \in Processes, NEW r \in Requests, Scan(p, r) \/ Upload(p, r) PROVE TypeOK' /\ Local'
  BY <1>1, <1>3 DEF Scan, Upload, Begins, TypeOK
<1>4. ASSUME NEW p \in Processes, Step(p) \/ Crash(p) PROVE TypeOK' /\ Local'
  BY <1>4, TypePrune, TypeSave, TypeSend, TypeSettle, FailTypes DEF Step, Crash
<1>5. ASSUME NEW m \in wire, ServerStores(m) PROVE TypeOK' /\ Local'
  <2>1. m[2] \in Requests /\ m[3] \in SUBSET Artifacts
    BY <1>5 DEF TypeOK, Messages
  <2>2. server' \in [Requests -> (SUBSET Artifacts) \cup {None}] /\ wire' \subseteq Messages
    BY <1>5, <2>1 DEF ServerStores, TypeOK
  <2> QED
    BY <1>5, <2>2 DEF ServerStores, TypeOK, Local
<1>6. ASSUME NEW m \in wire, ServerDrops(m) PROVE TypeOK' /\ Local'
  BY <1>6 DEF ServerDrops, TypeOK, Local
<1>7. CASE Tick
  BY <1>7, Assumed DEF Tick, TypeOK, Local
<1>8. CASE UNCHANGED vars
  BY <1>8 DEF vars, TypeOK, Local
<1> QED
  BY <1>2, <1>3, <1>4, <1>5, <1>6, <1>7, <1>8 DEF Next

LEMMA TypeInit == Init => TypeOK /\ Local
<1>1. ASSUME Init PROVE TypeOK
  BY <1>1, IdleTyped, Assumed DEF Init, TypeOK, NoDirectory, Messages
<1> QED
  BY <1>1, IdleTyped DEF Init, Local

(***************************************************************************)
(* Type correctness of the outbox, the wire and every command.             *)
(***************************************************************************)
THEOREM TypeCorrect == Spec => []TypeOK
<1>1. TypeOK /\ Local /\ [Next]_vars => (TypeOK /\ Local)'
  BY TypeStep
<1> QED
  BY <1>1, TypeInit, PTL DEF Spec

-----------------------------------------------------------------------------
(***************************************************************************)
(* What no step takes back: an id is drawn, saved and doomed in this order,*)
(* what the server has stored it keeps, and a saved bundle only shrinks.   *)
(***************************************************************************)
Onward(r) ==
  /\ phase[r] \in Kept => phase'[r] \in Kept /\ dirs'[r].files \subseteq dirs[r].files
  /\ phase[r] = "doomed" => phase'[r] = "doomed"
  /\ server[r] # None => server'[r] = server[r]

(***************************************************************************)
(* Only the scan that has drawn an id touches it before it is saved.       *)
(***************************************************************************)
Spares(p) ==
  \A r \in Requests : phase[r] = "drawn" /\ ~(Creates(jobs[p]) /\ jobs[p].target = r) =>
     phase'[r] = "drawn" /\ dirs'[r].there = dirs[r].there

LEMMA StillKnows ==
  ASSUME TypeOK, JobsOK, NEW q \in Processes,
         jobs'[q] = jobs[q], \A r \in Requests : Onward(r),
         Creates(jobs[q]) => /\ phase'[jobs[q].target] = "drawn"
                             /\ dirs'[jobs[q].target].there = dirs[jobs[q].target].there
  PROVE  Knows(jobs[q])'
<1> DEFINE job == jobs[q]
<1>1. Knows(job) /\ Placed(job) /\ job \in Jobs
  BY DEF JobsOK, TypeOK
<1>2. Creates(job) \/ job.pc \in Sending \cup Settling => job.target \in Requests
  BY <1>1 DEF Placed, Creates, Pruning, Saving, Sending, Settling, Confirming
<1>3. Creates(job) => phase'[job.target] = "drawn" /\ dirs'[job.target].there = dirs[job.target].there
  OBVIOUS
<1>4. job.pc = "write" => dirs'[job.target].there
  BY <1>1, <1>3 DEF Knows, Creates, Saving
<1>5. \A r \in Requests : job.listed[r] # None => phase'[r] \in Kept
  BY <1>1 DEF Knows, Onward
<1>6. job.pc = "remove" => phase'[job.open] = "doomed"
  BY <1>1 DEF Knows, Placed, Onward
<1>7. job.pc \in Sending \cup Settling => phase'[job.target] \in Kept
  BY <1>1, <1>2 DEF Knows, Onward
<1>8. job.pc \in Sending /\ phase'[job.target] = "saved" /\ server'[job.target] = None =>
        job.bundle = Artifacts
  <2>1. SUFFICES ASSUME job.pc \in Sending, phase'[job.target] = "saved", server'[job.target] = None
                 PROVE  job.bundle = Artifacts
    OBVIOUS
  <2>2. job.target \in Requests /\ phase[job.target] \in Kept
    BY <1>1, <1>2, <2>1 DEF Knows
  <2>3. phase[job.target] = "saved" /\ server[job.target] = None
    BY <2>1, <2>2 DEF Onward, Kept
  <2> QED
    BY <1>1, <2>1, <2>3 DEF Knows
<1>9. job.pc \in Confirming => server'[job.target] # None
  BY <1>1, <1>2 DEF Knows, Onward, Settling
<1>10. job.pc = "unlink" => dirs'[job.target].files \subseteq job.names
  BY <1>1, <1>2 DEF Knows, Onward, Settling, Confirming
<1> QED
  BY <1>3, <1>4, <1>5, <1>6, <1>7, <1>8, <1>9, <1>10 DEF Knows

LEMMA OthersKnow ==
  ASSUME TypeOK, JobsOK, OwnIds, NEW p \in Processes, NEW q \in Processes \ {p},
         jobs'[q] = jobs[q], \A r \in Requests : Onward(r), Spares(p)
  PROVE  Knows(jobs[q])'
<1>1. Creates(jobs[q]) => jobs[q].target \in Requests /\ phase[jobs[q].target] = "drawn"
  BY DEF JobsOK, Placed, Knows, Creates, Pruning, Saving
<1>2. Creates(jobs[q]) => /\ phase'[jobs[q].target] = "drawn"
                          /\ dirs'[jobs[q].target].there = dirs[jobs[q].target].there
  BY <1>1 DEF OwnIds, Spares
<1> QED
  BY <1>2, StillKnows

(***************************************************************************)
(* What a command becomes knows what it should, given that it knew before. *)
(***************************************************************************)
LEMMA IdleKnows == ASSUME NEW p \in Processes, jobs'[p] = Idle PROVE Knows(jobs[p])'
BY DEF Knows, Idle, Creates, Saving, Sending, Settling, Confirming

(***************************************************************************)
(* A step that leaves outbox, ids, wire and server alone.                  *)
(***************************************************************************)
shared == <<dirs, phase, wire, server>>

LEMMA SharedKept ==
  ASSUME UNCHANGED shared
  PROVE  /\ RequestsOK => RequestsOK'
         /\ Promises => Promises'
         /\ \A r \in Requests : Onward(r)
         /\ \A p \in Processes : Spares(p)
BY DEF shared, RequestsOK, RequestOK, Promises, SavedUntilStored, StoredWhole, ReceiptProvesUpload,
       Loadable, Onward, Spares

LEMMA PassedFacts ==
  ASSUME NEW job \in Jobs, NEW r \in Requests
  PROVE  /\ Passed(job, r).pc = "prune" /\ Passed(job, r).then = job.then
         /\ Passed(job, r).target = job.target
         /\ \A q \in Requests : Passed(job, r).listed[q] \in {job.listed[q], None}
<1>1. Closed(job) \in Jobs /\ Closed(job).listed = job.listed
  BY ClosedTyped
<1>2. Passed(job, r).listed = [Closed(job).listed EXCEPT ![r] = None]
  BY <1>1 DEF Passed, Jobs
<1> QED
  BY <1>1, <1>2, ClosedTyped DEF Passed, Jobs

(***************************************************************************)
(* While a command prunes it knows of its own id and of what it listed.    *)
(***************************************************************************)
LEMMA PruningKnows ==
  ASSUME NEW p \in Processes, jobs'[p].pc \in {"prune", "try"},
         Creates(jobs'[p]) => phase'[jobs'[p].target] = "drawn",
         \A r \in Requests : jobs'[p].listed[r] # None => phase'[r] \in Kept
  PROVE  Knows(jobs[p])'
BY DEF Knows, Sending, Settling, Confirming

(***************************************************************************)
(* What each step of a command has to keep.                                *)
(***************************************************************************)
KeepsJob(p) ==
  /\ \A q \in Processes \ {p} : jobs'[q] = jobs[q]
  /\ Knows(jobs[p])'
  /\ Creates(jobs'[p]) => Creates(jobs[p]) /\ jobs'[p].target = jobs[p].target

KeepsRest(p) ==
  /\ \A r \in Requests : Onward(r)
  /\ Spares(p)
  /\ RequestsOK'
  /\ Promises'

Keeps(p) == KeepsJob(p) /\ KeepsRest(p)

LEMMA SharedKeeps ==
  ASSUME Inv, NEW p \in Processes, UNCHANGED shared
  PROVE  KeepsRest(p)
BY SharedKept DEF KeepsRest, Inv

LEMMA FailKeeps == ASSUME Inv, NEW p \in Processes, Fails(p) PROVE Keeps(p)
<1>1. jobs'[p] = Idle /\ \A q \in Processes \ {p} : jobs'[q] = jobs[q]
  BY IdleTyped, JobsWritten DEF Inv, Fails, Ends
<1>2. ~Creates(Idle)
  BY DEF Creates, Idle, Saving
<1>3. KeepsRest(p)
  BY SharedKeeps DEF Fails, shared
<1> QED
  BY <1>1, <1>2, <1>3, IdleKnows DEF Keeps, KeepsJob

(***************************************************************************)
(* A lock file is opened: only the inode of the directory may change.      *)
(***************************************************************************)
LEMMA OpenKeeps ==
  ASSUME Inv, NEW p \in Processes, NEW r \in Requests, NEW pc, pc \in {"try", "update", "confirm"},
         OpenLock(p, r, pc)
  PROVE  /\ \A q \in Requests : /\ dirs'[q].files = dirs[q].files
                                /\ dirs'[q].there = dirs[q].there
                                /\ dirs'[q].record = dirs[q].record
         /\ KeepsRest(p)
<1>1. /\ dirs' = [dirs EXCEPT ![r].inode = Opened(r)] /\ UNCHANGED <<phase, wire, server>>
  BY DEF OpenLock
<1>2. \A q \in Requests : /\ dirs'[q].files = dirs[q].files
                          /\ dirs'[q].there = dirs[q].there
                          /\ dirs'[q].record = dirs[q].record
  BY <1>1 DEF Inv, TypeOK
<1>3. \A q \in Requests : Onward(q)
  BY <1>1, <1>2 DEF Onward
<1>4. Spares(p)
  BY <1>1, <1>2 DEF Spares
<1>5. RequestsOK'
  BY <1>1, <1>2 DEF Inv, RequestsOK, RequestOK
<1>6. Promises'
  BY <1>1, <1>2 DEF Inv, Promises, SavedUntilStored, StoredWhole, ReceiptProvesUpload, Loadable
<1> QED
  BY <1>2, <1>3, <1>4, <1>5, <1>6 DEF KeepsRest

(***************************************************************************)
(* What a prune has doomed may shrink and go.                              *)
(***************************************************************************)
LEMMA RemovalKeeps ==
  ASSUME Inv, NEW p \in Processes, NEW r \in Requests, phase[r] = "doomed",
         NEW d \in Directory, dirs' = [dirs EXCEPT ![r] = d], UNCHANGED <<phase, wire, server>>,
         d.files \subseteq dirs[r].files, d.record \in {dirs[r].record, None},
         d.there => dirs[r].there
  PROVE  KeepsRest(p)
<1>1. dirs'[r] = d /\ \A q \in Requests \ {r} : dirs'[q] = dirs[q]
  BY DEF Inv, TypeOK
<1>2. \A q \in Requests : Onward(q)
  BY <1>1 DEF Onward
<1>3. Spares(p)
  BY <1>1 DEF Spares
<1>4. RequestsOK'
  BY <1>1 DEF Inv, RequestsOK, RequestOK
<1>5. SavedUntilStored' /\ StoredWhole'
  BY <1>1 DEF Inv, Promises, SavedUntilStored, StoredWhole, Loadable
<1>6. ReceiptProvesUpload'
  <2>1. SUFFICES ASSUME NEW q \in Requests, Loadable(q)', dirs'[q].record.state = "uploaded"
                 PROVE  server'[q] # None /\ dirs'[q].files = {}
    BY DEF ReceiptProvesUpload
  <2>2. CASE q # r
    BY <1>1, <2>1, <2>2 DEF Inv, Promises, ReceiptProvesUpload, Loadable
  <2>3. CASE q = r
    <3>1. dirs[r].record # None /\ dirs[r].record = d.record
      BY <1>1, <2>1, <2>3 DEF Loadable
    <3>2. dirs[r].there
      BY <1>1, <2>1, <2>3 DEF Loadable
    <3> QED
      BY <1>1, <2>1, <2>3, <3>1, <3>2 DEF Inv, Promises, ReceiptProvesUpload, Loadable
  <2> QED
    BY <2>2, <2>3
<1> QED
  BY <1>2, <1>3, <1>4, <1>5, <1>6 DEF KeepsRest, Promises

LEMMA PruneWrites == ASSUME NEW p \in Processes, Prune(p) PROVE \E job : Become(p, job)
<1>1. CASE List(p) \/ Pruned(p)
  BY <1>1 DEF List, Pruned
<1>2. CASE KeepEntry(p) \/ SkipLocked(p)
  BY <1>2 DEF KeepEntry, SkipLocked
<1>3. CASE ChooseEntry(p)
  BY <1>3 DEF ChooseEntry, OpenLock, Fails, Ends
<1>4. CASE TakeEntry(p)
  BY <1>4 DEF TakeEntry, Fails, Ends
<1>5. CASE RemoveName(p)
  BY <1>5 DEF RemoveName, Fails, Ends
<1>6. CASE RemoveDirectory(p)
  BY <1>6 DEF RemoveDirectory, Fails, Ends
<1> QED
  BY <1>1, <1>2, <1>3, <1>4, <1>5, <1>6 DEF Prune

LEMMA OneWrites ==
  ASSUME TypeOK, NEW p \in Processes, \E job : Become(p, job)
  PROVE  \A q \in Processes \ {p} : jobs'[q] = jobs[q]
BY DEF TypeOK, Become

LEMMA PruneKeeps ==
  ASSUME Inv, TypeOK', NEW p \in Processes, Prune(p)
  PROVE  Keeps(p)
<1>1. jobs[p] \in Jobs /\ Placed(jobs[p]) /\ Knows(jobs[p]) /\ TypeOK /\ DOMAIN jobs = Processes
  BY DEF Inv, TypeOK, JobsOK
<1>2. \A q \in Processes \ {p} : jobs'[q] = jobs[q]
  BY <1>1, PruneWrites, OneWrites
<1>3. jobs[p].pc \in Pruning
  BY DEF Prune, List, KeepEntry, ChooseEntry, SkipLocked, TakeEntry, RemoveName, RemoveDirectory,
         Pruned, Pruning
<1>4. Creates(jobs[p]) <=> jobs[p].then = "create"
  BY <1>3 DEF Creates, Pruning, Saving
<1>5. CASE List(p)
  <2>1. UNCHANGED shared
    BY <1>5 DEF List, shared
  <2>2. /\ jobs'[p].pc = "prune" /\ jobs'[p].then = jobs[p].then /\ jobs'[p].target = jobs[p].target
        /\ jobs'[p].listed = [r \in Requests |-> IF Loadable(r) THEN dirs[r].record ELSE None]
    BY <1>1, <1>5 DEF List, Become, Jobs
  <2>3. \A r \in Requests : jobs'[p].listed[r] # None => phase'[r] \in Kept
    BY <2>1, <2>2 DEF shared, Loadable, Inv, RequestsOK, RequestOK
  <2>4. Creates(jobs'[p]) <=> Creates(jobs[p])
    BY <1>4, <2>2 DEF Creates, Saving
  <2>5. Knows(jobs[p])'
    BY <1>1, <2>1, <2>2, <2>3, <2>4, PruningKnows DEF shared, Knows
  <2> QED
    BY <1>2, <2>1, <2>2, <2>4, <2>5, SharedKeeps DEF Keeps, KeepsJob
<1>6. CASE KeepEntry(p) \/ SkipLocked(p)
  <2>1. UNCHANGED shared
    BY <1>6 DEF KeepEntry, SkipLocked, shared
  <2>2. PICK r \in Requests : jobs'[p] = Passed(jobs[p], r)
    BY <1>1, <1>6 DEF KeepEntry, SkipLocked, OldestUnseen, Unseen, Become, Placed
  <2>3. /\ jobs'[p].pc = "prune" /\ jobs'[p].then = jobs[p].then /\ jobs'[p].target = jobs[p].target
        /\ \A q \in Requests : jobs'[p].listed[q] \in {jobs[p].listed[q], None}
    BY <1>1, <2>2, PassedFacts
  <2>4. \A q \in Requests : jobs'[p].listed[q] # None => phase'[q] \in Kept
    BY <1>1, <2>1, <2>3 DEF shared, Knows
  <2>5. Creates(jobs'[p]) <=> Creates(jobs[p])
    BY <1>4, <2>3 DEF Creates, Saving
  <2>6. Knows(jobs[p])'
    BY <1>1, <2>1, <2>3, <2>4, <2>5, PruningKnows DEF shared, Knows
  <2> QED
    BY <1>2, <2>1, <2>3, <2>5, <2>6, SharedKeeps DEF Keeps, KeepsJob
<1>7. CASE ChooseEntry(p)
  <2>1. PICK r \in Requests : OpenLock(p, r, "try") \/ Fails(p)
    BY <1>7 DEF ChooseEntry, OldestUnseen, Unseen
  <2>2. CASE OpenLock(p, r, "try")
    <3>1. /\ jobs'[p].pc = "try" /\ jobs'[p].then = jobs[p].then /\ jobs'[p].target = jobs[p].target
          /\ jobs'[p].listed = jobs[p].listed /\ phase' = phase
      BY <1>1, <2>2 DEF OpenLock, Become, Jobs
    <3>2. Creates(jobs'[p]) <=> Creates(jobs[p])
      BY <1>4, <3>1 DEF Creates, Saving
    <3>3. Knows(jobs[p])'
      BY <1>1, <3>1, <3>2, PruningKnows DEF Knows
    <3> QED
      BY <1>2, <2>2, <3>1, <3>2, <3>3, OpenKeeps DEF Keeps, KeepsJob
  <2> QED
    BY <2>1, <2>2, FailKeeps
<1>8. ASSUME TakeEntry(p), ~Fails(p) PROVE Keeps(p)
  <2> DEFINE r == jobs[p].open
  <2>1. /\ Become(p, [jobs[p] EXCEPT !.pc = "remove", !.locked = TRUE, !.names = Names(dirs[r])])
        /\ phase' = [phase EXCEPT ![r] = "doomed"]
        /\ UNCHANGED <<clock, dirs, wire, server>>
    BY <1>8 DEF TakeEntry
  <2>2. r \in Requests /\ phase[r] \in Kept
    BY <1>1, <1>8 DEF TakeEntry, Placed, Knows
  <2>3. phase'[r] = "doomed" /\ \A q \in Requests \ {r} : phase'[q] = phase[q]
    BY <1>1, <2>1, <2>2 DEF TypeOK
  <2>4. /\ jobs'[p].pc = "remove" /\ jobs'[p].then = jobs[p].then /\ jobs'[p].target = jobs[p].target
        /\ jobs'[p].listed = jobs[p].listed /\ jobs'[p].open = r
    BY <1>1, <2>1 DEF Become, Jobs
  <2>5. Creates(jobs'[p]) <=> Creates(jobs[p])
    BY <1>4, <2>4 DEF Creates, Saving
  <2>6. Creates(jobs[p]) => jobs[p].target \in Requests /\ phase[jobs[p].target] = "drawn"
    BY <1>1, <1>4 DEF Placed, Knows
  <2>7. Knows(jobs[p])'
    BY <1>1, <2>2, <2>3, <2>4, <2>5, <2>6 DEF Knows, Sending, Settling, Confirming, Kept
  <2>8. \A q \in Requests : Onward(q)
    BY <2>1, <2>2, <2>3 DEF Onward, Kept
  <2>9. Spares(p)
    BY <2>1, <2>2, <2>3 DEF Spares, Kept
  <2>10. RequestsOK'
    BY <2>1, <2>2, <2>3 DEF Inv, RequestsOK, RequestOK, Kept
  <2>11. Promises'
    BY <2>1, <2>3 DEF Inv, Promises, SavedUntilStored, StoredWhole, ReceiptProvesUpload, Loadable
  <2> QED
    BY <1>2, <2>4, <2>5, <2>7, <2>8, <2>9, <2>10, <2>11 DEF Keeps, KeepsJob, KeepsRest
<1>9. ASSUME RemoveName(p), ~Fails(p) PROVE Keeps(p)
  <2> DEFINE r == jobs[p].open
  <2>1. PICK name \in jobs[p].names :
          /\ dirs' = [dirs EXCEPT ![r] = Unlinked(@, name)]
          /\ Become(p, [jobs[p] EXCEPT !.names = @ \ {name}])
          /\ UNCHANGED <<clock, phase, wire, server>>
    BY <1>9 DEF RemoveName
  <2>2. r \in Requests /\ phase[r] = "doomed" /\ jobs[p].pc = "remove"
    BY <1>1, <1>9 DEF RemoveName, Placed, Knows
  <2>3. dirs[r] \in Directory
    BY <1>1, <2>2 DEF TypeOK, Directory
  <2> DEFINE d == Unlinked(dirs[r], name)
  <2>4. /\ d \in Directory /\ d.files \subseteq dirs[r].files
        /\ d.record \in {dirs[r].record, None} /\ d.there = dirs[r].there
    BY <2>3, UnlinkedTyped
  <2>5. KeepsRest(p)
    <3>1. dirs' = [dirs EXCEPT ![r] = d]
      BY <2>1
    <3> HIDE DEF d
    <3> QED
      BY <2>1, <2>2, <2>4, <3>1, RemovalKeeps
  <2>6. /\ jobs'[p].pc = "remove" /\ jobs'[p].then = jobs[p].then /\ jobs'[p].target = jobs[p].target
        /\ jobs'[p].listed = jobs[p].listed /\ jobs'[p].open = r
    BY <1>1, <2>1, <2>2 DEF Become, Jobs
  <2>7. Creates(jobs'[p]) <=> Creates(jobs[p])
    BY <1>4, <2>6 DEF Creates, Saving
  <2>8. Knows(jobs[p])'
    BY <1>1, <2>1, <2>2, <2>6, <2>7 DEF Knows, Sending, Settling, Confirming
  <2> QED
    BY <1>2, <2>5, <2>6, <2>7, <2>8 DEF Keeps, KeepsJob
<1>10. ASSUME RemoveDirectory(p), ~Fails(p) PROVE Keeps(p)
  <2> DEFINE r == jobs[p].open
             job == Passed(jobs[p], r)
  <2>1. /\ dirs' = [dirs EXCEPT ![r] = NoDirectory]
        /\ Become(p, [job EXCEPT !.retained = @ - jobs[p].listed[r].bytes])
        /\ UNCHANGED <<clock, phase, wire, server>>
    BY <1>10 DEF RemoveDirectory
  <2>2. r \in Requests /\ phase[r] = "doomed"
    BY <1>1, <1>10 DEF RemoveDirectory, Placed, Knows
  <2>3. NoDirectory \in Directory /\ NoDirectory.files \subseteq dirs[r].files /\ NoDirectory.record = None
        /\ ~NoDirectory.there
    BY DEF NoDirectory, Directory
  <2>4. KeepsRest(p)
    BY <2>1, <2>2, <2>3, RemovalKeeps
  <2>5. job \in Jobs
    BY <1>1, <1>3, <2>2, TypePassed
  <2>6. /\ jobs'[p].pc = job.pc /\ jobs'[p].then = job.then /\ jobs'[p].target = job.target
        /\ jobs'[p].listed = job.listed
    <3> HIDE DEF job
    <3> QED
      BY <1>1, <2>1, <2>5 DEF Become, Jobs
  <2>7. /\ job.pc = "prune" /\ job.then = jobs[p].then /\ job.target = jobs[p].target
        /\ \A q \in Requests : job.listed[q] \in {jobs[p].listed[q], None}
    BY <1>1, <2>2, PassedFacts
  <2> HIDE DEF job
  <2>8. \A q \in Requests : jobs'[p].listed[q] # None => phase'[q] \in Kept
    BY <1>1, <2>1, <2>6, <2>7 DEF Knows
  <2>9. Creates(jobs'[p]) <=> Creates(jobs[p])
    BY <1>4, <2>6, <2>7 DEF Creates, Saving
  <2>10. Knows(jobs[p])'
    BY <1>1, <2>1, <2>6, <2>7, <2>8, <2>9, PruningKnows DEF Knows
  <2> QED
    BY <1>2, <2>4, <2>6, <2>7, <2>9, <2>10 DEF Keeps, KeepsJob
<1>11. CASE Pruned(p)
  <2>1. UNCHANGED shared
    BY <1>11 DEF Pruned, shared
  <2>2. /\ jobs'[p].pc = jobs[p].then /\ jobs'[p].then = "idle" /\ jobs'[p].target = jobs[p].target
        /\ \A r \in Requests : jobs'[p].listed[r] = None
    BY <1>1, <1>11 DEF Pruned, Become, Idle
  <2>3. jobs[p].then \in {"idle", "create", "load"}
    BY <1>1 DEF Jobs
  <2>4. Creates(jobs'[p]) <=> Creates(jobs[p])
    BY <1>4, <2>2, <2>3 DEF Creates, Saving
  <2>5. Knows(jobs[p])'
    BY <1>1, <2>1, <2>2, <2>3, <2>4 DEF Knows, Sending, Settling, Confirming, shared
  <2> QED
    BY <1>2, <2>1, <2>2, <2>4, <2>5, SharedKeeps DEF Keeps, KeepsJob
<1> QED
  BY <1>5, <1>6, <1>7, <1>8, <1>9, <1>10, <1>11, FailKeeps DEF Prune

(***************************************************************************)
(* What the artifacts on disk are to a command that has found a record.    *)
(***************************************************************************)
LEMMA LoadableFacts ==
  ASSUME Inv, NEW r \in Requests, Loadable(r)
  PROVE  /\ dirs[r].record \in Records /\ dirs[r].files \in SUBSET Artifacts
         /\ phase[r] \in Kept
         /\ phase[r] = "saved" /\ server[r] = None => dirs[r].files = Artifacts
BY DEF Inv, TypeOK, Loadable, RequestsOK, RequestOK, Promises, SavedUntilStored

LEMMA PostOrKeepWrites ==
  ASSUME NEW p \in Processes, NEW bundle, TypeOK, PostOrKeep(p, bundle)
  PROVE  /\ jobs'[p].then = jobs[p].then /\ jobs'[p].target = jobs[p].target
         /\ jobs'[p].listed = jobs[p].listed
         /\ \A q \in Processes \ {p} : jobs'[q] = jobs[q]
         /\ \/ jobs'[p].pc = "post" /\ jobs'[p].bundle = bundle
            \/ jobs'[p].pc = "retain"
<1>1. jobs[p] \in Jobs /\ Closed(jobs[p]) \in Jobs
  BY ClosedTyped DEF TypeOK
<1>2. DOMAIN jobs = Processes /\ \A q \in Processes \ {p} : jobs'[q] = jobs[q]
  BY OneWrites DEF TypeOK, PostOrKeep
<1>3. CASE Become(p, [Closed(jobs[p]) EXCEPT !.pc = "post", !.bundle = bundle])
  <2>1. jobs'[p] = [Closed(jobs[p]) EXCEPT !.pc = "post", !.bundle = bundle]
    BY <1>2, <1>3 DEF Become
  <2> QED
    BY <1>1, <1>2, <2>1, ClosedTyped DEF Jobs
<1>4. CASE Become(p, [Closed(jobs[p]) EXCEPT !.pc = "retain", !.outcome = "retryable"])
  <2>1. jobs'[p] = [Closed(jobs[p]) EXCEPT !.pc = "retain", !.outcome = "retryable"]
    BY <1>2, <1>4 DEF Become
  <2> QED
    BY <1>1, <1>2, <2>1, ClosedTyped DEF Jobs
<1> QED
  BY <1>3, <1>4 DEF PostOrKeep

(***************************************************************************)
(* A scan writes its own directory, and the id is saved when all is there. *)
(***************************************************************************)
LEMMA OwnDirectoryKeeps ==
  ASSUME Inv, NEW p \in Processes, NEW r \in Requests, phase[r] = "drawn",
         Creates(jobs[p]), jobs[p].target = r, NEW d, dirs' = [dirs EXCEPT ![r] = d],
         d.record = None, UNCHANGED <<phase, wire, server>>
  PROVE  KeepsRest(p)
<1>1. dirs'[r] = d /\ \A q \in Requests \ {r} : dirs'[q] = dirs[q]
  BY DEF Inv, TypeOK
<1>2. \A q \in Requests : Onward(q)
  BY <1>1 DEF Onward, Kept
<1>3. Spares(p)
  BY <1>1 DEF Spares
<1>4. RequestsOK'
  BY <1>1 DEF Inv, RequestsOK, RequestOK
<1>5. Promises'
  BY <1>1 DEF Inv, Promises, SavedUntilStored, StoredWhole, ReceiptProvesUpload, Loadable
<1> QED
  BY <1>2, <1>3, <1>4, <1>5 DEF KeepsRest

LEMMA SaveKeeps ==
  ASSUME Inv, TypeOK', NEW p \in Processes, Save(p)
  PROVE  Keeps(p)
<1> DEFINE r == jobs[p].target
<1>1. jobs[p] \in Jobs /\ Placed(jobs[p]) /\ Knows(jobs[p]) /\ TypeOK /\ DOMAIN jobs = Processes
  BY DEF Inv, TypeOK, JobsOK
<1>2. jobs[p].pc \in Saving
  BY DEF Save, Create, WriteArtifact, WriteRecord, SaveFails, Saving
<1>3. /\ Creates(jobs[p]) /\ r \in Requests /\ phase[r] = "drawn" /\ jobs[p].then = "idle"
  BY <1>1, <1>2 DEF Creates, Placed, Knows, Saving, Pruning
<1>4. dirs[r] \in Directory /\ dirs[r].record = None /\ server[r] = None /\ \A m \in wire : m[2] # r
  BY <1>3 DEF Inv, TypeOK, Directory, RequestsOK, RequestOK, Kept
<1>5. CASE Create(p)
  <2> DEFINE d == [NoDirectory EXCEPT !.there = TRUE, !.inode = 1]
  <2>1. dirs' = [dirs EXCEPT ![r] = d] /\ d.record = None /\ d.there /\ UNCHANGED <<phase, wire, server>>
    BY <1>5 DEF Create, NoDirectory
  <2>2. dirs'[r] = d
    BY <1>3, <2>1 DEF Inv, TypeOK
  <2> HIDE DEF d
  <2>3. KeepsRest(p)
    BY <1>3, <2>1, OwnDirectoryKeeps
  <2>4. /\ jobs'[p].pc = "write" /\ jobs'[p].then = jobs[p].then /\ jobs'[p].target = r
        /\ jobs'[p].listed = jobs[p].listed /\ \A q \in Processes \ {p} : jobs'[q] = jobs[q]
    BY <1>1, <1>5 DEF Create, Become, Jobs
  <2>5. Knows(jobs[p])'
    BY <1>1, <1>3, <2>1, <2>2, <2>4 DEF Knows, Sending, Settling, Confirming
  <2> QED
    BY <1>3, <2>3, <2>4, <2>5 DEF Keeps, KeepsJob
<1>6. CASE WriteArtifact(p)
  <2>1. PICK name \in Artifacts : dirs' = [dirs EXCEPT ![r].files = @ \cup {name}]
    BY <1>6 DEF WriteArtifact
  <2> DEFINE d == [dirs[r] EXCEPT !.files = @ \cup {name}]
  <2>2. dirs' = [dirs EXCEPT ![r] = d] /\ d.record = None /\ d.there = dirs[r].there
    BY <1>3, <1>4, <2>1 DEF Directory
  <2>3. dirs'[r] = d
    BY <1>3, <2>2 DEF Inv, TypeOK
  <2> HIDE DEF d
  <2>4. UNCHANGED <<phase, wire, server, jobs>>
    BY <1>6 DEF WriteArtifact
  <2>5. KeepsRest(p)
    BY <1>3, <2>2, <2>4, OwnDirectoryKeeps
  <2>6. Knows(jobs[p])'
    BY <1>1, <1>2, <1>3, <2>2, <2>3, <2>4 DEF Knows, Saving, Sending, Settling, Confirming
  <2> QED
    BY <2>4, <2>5, <2>6 DEF Keeps, KeepsJob
<1>7. CASE WriteRecord(p)
  <2> DEFINE record == Record("pending", clock, 1)
  <2>1. /\ dirs' = [dirs EXCEPT ![r].record = record] /\ phase' = [phase EXCEPT ![r] = "saved"]
        /\ UNCHANGED <<wire, server>> /\ PostOrKeep(p, Artifacts)
        /\ dirs[r].files = Artifacts /\ dirs[r].there
    BY <1>1, <1>7 DEF WriteRecord, Written, Knows
  <2>2. record # None /\ record.state = "pending"
    BY RecordTyped DEF Inv, TypeOK
  <2>3. /\ dirs'[r].record = record /\ dirs'[r].files = Artifacts /\ dirs'[r].there
        /\ \A q \in Requests \ {r} : dirs'[q] = dirs[q] /\ phase'[q] = phase[q]
        /\ phase'[r] = "saved"
    BY <1>3, <1>4, <2>1 DEF Inv, TypeOK, Directory
  <2> HIDE DEF record
  <2>4. /\ jobs'[p].then = "idle" /\ jobs'[p].target = r /\ jobs'[p].listed = jobs[p].listed
        /\ \A q \in Processes \ {p} : jobs'[q] = jobs[q]
        /\ \/ jobs'[p].pc = "post" /\ jobs'[p].bundle = Artifacts
           \/ jobs'[p].pc = "retain"
    BY <1>1, <1>3, <2>1, PostOrKeepWrites
  <2>5. Knows(jobs[p])'
    BY <1>1, <1>3, <2>3, <2>4 DEF Knows, Creates, Saving, Sending, Settling, Confirming, Kept
  <2>6. ~Creates(jobs'[p])
    BY <2>4 DEF Creates, Saving
  <2>7. \A q \in Requests : Onward(q)
    BY <1>3, <2>1, <2>3 DEF Onward, Kept
  <2>8. Spares(p)
    BY <1>3, <2>3 DEF Spares
  <2>9. RequestsOK'
    BY <1>4, <2>1, <2>2, <2>3 DEF Inv, RequestsOK, RequestOK, Kept
  <2>10. Promises'
    BY <1>4, <2>1, <2>2, <2>3 DEF Inv, Promises, SavedUntilStored, StoredWhole, ReceiptProvesUpload, Loadable
  <2> QED
    BY <2>4, <2>5, <2>6, <2>7, <2>8, <2>9, <2>10 DEF Keeps, KeepsJob, KeepsRest
<1>8. CASE SaveFails(p)
  <2>1. KeepsRest(p)
    <3>1. dirs' = [dirs EXCEPT ![r] = NoDirectory] /\ UNCHANGED <<phase, wire, server>>
      BY <1>8 DEF SaveFails
    <3>2. NoDirectory.record = None
      BY DEF NoDirectory
    <3> QED
      BY <1>3, <3>1, <3>2, OwnDirectoryKeeps
  <2>2. jobs'[p] = Idle /\ \A q \in Processes \ {p} : jobs'[q] = jobs[q]
    BY <1>1, <1>8 DEF SaveFails, Ends, Become
  <2>3. ~Creates(Idle)
    BY DEF Creates, Idle, Saving
  <2> QED
    BY <2>1, <2>2, <2>3, IdleKnows DEF Keeps, KeepsJob
<1> QED
  BY <1>5, <1>6, <1>7, <1>8 DEF Save

(***************************************************************************)
(* A post carries what the command has loaded.                             *)
(***************************************************************************)
LEMMA PostKeeps ==
  ASSUME Inv, NEW p \in Processes, NEW r \in Requests, NEW bundle,
         phase[r] \in Kept, phase[r] = "saved" /\ server[r] = None => bundle = Artifacts,
         wire' = wire \cup {<<p, r, bundle>>}, UNCHANGED <<dirs, phase, server>>
  PROVE  KeepsRest(p)
<1>1. RequestsOK'
  BY DEF Inv, RequestsOK, RequestOK
<1> QED
  BY <1>1 DEF KeepsRest, Onward, Spares, Inv, Promises, SavedUntilStored, StoredWhole,
              ReceiptProvesUpload, Loadable

LEMMA GoesOnFacts ==
  ASSUME NEW job \in Jobs, NEW next \in Jobs, job.pc \in {"posted", "recover"},
         next \in {Confirmed(job), InProgress(job), Retained(job, "rejected"), Again(job)}
  PROVE  /\ next.then = job.then /\ next.target = job.target /\ next.listed = job.listed
         /\ \/ next.pc \in {"mark", "retain"}
            \/ next.pc = "post" /\ next.bundle = job.bundle
BY ZenonT(60) DEF Confirmed, InProgress, Retained, Again, Jobs

LEMMA SendKeeps ==
  ASSUME Inv, TypeOK', NEW p \in Processes, Send(p)
  PROVE  Keeps(p)
<1> DEFINE r == jobs[p].target
<1>1. jobs[p] \in Jobs /\ Placed(jobs[p]) /\ Knows(jobs[p]) /\ TypeOK /\ DOMAIN jobs = Processes
  BY DEF Inv, TypeOK, JobsOK
<1>2. jobs[p].pc \in Sending \cup {"load"}
  BY DEF Send, Load, LoadFails, Post, Answered, AnswerLost, Recover, Sending
<1>3. r \in Requests /\ jobs[p].then = "idle"
  BY <1>1, <1>2 DEF Placed, Sending, Pruning
<1>4. jobs[p].pc \in Sending =>
        /\ phase[r] \in Kept
        /\ phase[r] = "saved" /\ server[r] = None => jobs[p].bundle = Artifacts
  BY <1>1 DEF Knows
<1>5. CASE Load(p)
  <2>1. UNCHANGED shared /\ Loadable(r) /\ PostOrKeep(p, dirs[r].files)
    BY <1>5 DEF Load, shared
  <2>2. /\ phase[r] \in Kept
        /\ phase[r] = "saved" /\ server[r] = None => dirs[r].files = Artifacts
    BY <1>3, <2>1, LoadableFacts
  <2>3. /\ jobs'[p].then = "idle" /\ jobs'[p].target = r /\ jobs'[p].listed = jobs[p].listed
        /\ \A q \in Processes \ {p} : jobs'[q] = jobs[q]
        /\ \/ jobs'[p].pc = "post" /\ jobs'[p].bundle = dirs[r].files
           \/ jobs'[p].pc = "retain"
    BY <1>1, <1>3, <2>1, PostOrKeepWrites
  <2>4. Knows(jobs[p])' /\ ~Creates(jobs'[p])
    BY <1>1, <2>1, <2>2, <2>3 DEF Knows, Creates, Saving, Sending, Settling, Confirming, shared
  <2> QED
    BY <2>1, <2>3, <2>4, SharedKeeps DEF Keeps, KeepsJob
<1>6. CASE LoadFails(p)
  BY <1>6, FailKeeps DEF LoadFails
<1>7. CASE Post(p)
  <2>1. /\ UNCHANGED <<dirs, phase, server>>
        /\ \/ /\ wire' = wire \cup {<<p, r, jobs[p].bundle>>}
              /\ Become(p, [jobs[p] EXCEPT !.pc = "posted", !.attempt = @ + 1])
           \/ /\ UNCHANGED wire
              /\ Become(p, [jobs[p] EXCEPT !.pc = "retain", !.outcome = "rejected"])
    BY <1>7 DEF Post
  <2>2. /\ jobs'[p].pc \in {"posted", "retain"} /\ jobs'[p].then = "idle" /\ jobs'[p].target = r
        /\ jobs'[p].listed = jobs[p].listed /\ jobs'[p].bundle = jobs[p].bundle
        /\ \A q \in Processes \ {p} : jobs'[q] = jobs[q]
    <3>1. \A q \in Processes \ {p} : jobs'[q] = jobs[q]
      BY <1>1, <2>1, OneWrites
    <3>2. CASE Become(p, [jobs[p] EXCEPT !.pc = "posted", !.attempt = @ + 1])
      BY <1>1, <1>3, <3>1, <3>2 DEF Become, Jobs
    <3>3. CASE Become(p, [jobs[p] EXCEPT !.pc = "retain", !.outcome = "rejected"])
      BY <1>1, <1>3, <3>1, <3>3 DEF Become, Jobs
    <3> QED
      BY <2>1, <3>2, <3>3
  <2>3. jobs[p].pc \in Sending
    BY <1>7 DEF Post, Sending
  <2>4. Knows(jobs[p])' /\ ~Creates(jobs'[p])
    BY <1>1, <1>4, <2>1, <2>2, <2>3 DEF Knows, Creates, Saving, Sending, Settling, Confirming
  <2>5. KeepsRest(p)
    BY <1>3, <1>4, <2>1, <2>3, PostKeeps, SharedKeeps DEF shared
  <2> QED
    BY <2>2, <2>4, <2>5 DEF Keeps, KeepsJob
<1>8. CASE Answered(p) \/ Recover(p)
  <2>1. UNCHANGED shared /\ jobs[p].pc \in {"posted", "recover"}
    BY <1>8 DEF Answered, Recover, shared
  <2>2. PICK next \in {Confirmed(jobs[p]), InProgress(jobs[p]), Retained(jobs[p], "rejected"), Again(jobs[p])} :
          /\ Become(p, next)
          /\ next.pc = "mark" => server[r] # None
    <3>1. jobs[p].bundle # None
      BY <1>1, Assumed DEF Jobs
    <3>2. \/ Become(p, Confirmed(jobs[p])) /\ server[r] # None
          \/ Become(p, InProgress(jobs[p]))
          \/ Become(p, Retained(jobs[p], "rejected"))
          \/ Become(p, Again(jobs[p]))
      BY <1>8, <3>1 DEF Answered, Recover
    <3>3. /\ InProgress(jobs[p]).pc # "mark" /\ Retained(jobs[p], "rejected").pc # "mark"
          /\ Again(jobs[p]).pc # "mark"
      BY <1>1 DEF InProgress, Retained, Again, Jobs
    <3> QED
      BY <3>2, <3>3
  <2>3. next \in Jobs /\ jobs'[p] = next /\ \A q \in Processes \ {p} : jobs'[q] = jobs[q]
    BY <1>1, <2>1, <2>2, TypeGoesOn DEF Become
  <2>4. /\ next.then = "idle" /\ next.target = r /\ next.listed = jobs[p].listed
        /\ \/ next.pc \in {"mark", "retain"}
           \/ next.pc = "post" /\ next.bundle = jobs[p].bundle
    BY <1>1, <1>3, <2>1, <2>2, <2>3, GoesOnFacts
  <2>5. Knows(jobs[p])' /\ ~Creates(jobs'[p])
    BY <1>1, <1>4, <2>1, <2>2, <2>3, <2>4 DEF Knows, Creates, Saving, Sending, Settling, Confirming, shared
  <2> QED
    BY <2>1, <2>3, <2>5, SharedKeeps DEF Keeps, KeepsJob
<1>9. CASE AnswerLost(p)
  <2>1. UNCHANGED shared /\ jobs[p].pc = "posted"
    BY <1>9 DEF AnswerLost, shared
  <2>2. /\ jobs'[p].pc = "recover" /\ jobs'[p].then = "idle" /\ jobs'[p].target = r
        /\ jobs'[p].listed = jobs[p].listed /\ jobs'[p].bundle = jobs[p].bundle
        /\ \A q \in Processes \ {p} : jobs'[q] = jobs[q]
    BY <1>1, <1>3, <1>9 DEF AnswerLost, Goto, Become, Jobs
  <2>3. Knows(jobs[p])' /\ ~Creates(jobs'[p])
    BY <1>1, <1>4, <2>1, <2>2 DEF Knows, Creates, Saving, Sending, Settling, Confirming, shared
  <2> QED
    BY <2>1, <2>2, <2>3, SharedKeeps DEF Keeps, KeepsJob
<1> QED
  BY <1>5, <1>6, <1>7, <1>8, <1>9 DEF Send

(***************************************************************************)
(* The record of a kept bundle is rewritten, or artifacts of it go that the*)
(* server has.                                                             *)
(***************************************************************************)
LEMMA RewriteKeeps ==
  ASSUME Inv, NEW p \in Processes, NEW r \in Requests, phase[r] \in Kept,
         NEW d \in Directory, dirs' = [dirs EXCEPT ![r] = d], UNCHANGED <<phase, wire, server>>,
         d.there = dirs[r].there, d.files \subseteq dirs[r].files,
         dirs[r].record # None => d.record # None,
         server[r] = None => d.files = dirs[r].files,
         d.there /\ d.record # None /\ d.record.state = "uploaded" => server[r] # None /\ d.files = {}
  PROVE  KeepsRest(p)
<1>1. dirs'[r] = d /\ \A q \in Requests \ {r} : dirs'[q] = dirs[q]
  BY DEF Inv, TypeOK
<1>2. \A q \in Requests : Onward(q)
  BY <1>1 DEF Onward
<1>3. Spares(p)
  BY <1>1 DEF Spares
<1>4. RequestsOK'
  BY <1>1 DEF Inv, RequestsOK, RequestOK
<1>5. SavedUntilStored' /\ StoredWhole'
  BY <1>1 DEF Inv, Promises, SavedUntilStored, StoredWhole, Loadable
<1>6. ReceiptProvesUpload'
  <2>1. SUFFICES ASSUME NEW q \in Requests, Loadable(q)', dirs'[q].record.state = "uploaded"
                 PROVE  server'[q] # None /\ dirs'[q].files = {}
    BY DEF ReceiptProvesUpload
  <2>2. CASE q # r
    BY <1>1, <2>1, <2>2 DEF Inv, Promises, ReceiptProvesUpload, Loadable
  <2>3. CASE q = r
    BY <1>1, <2>1, <2>3 DEF Loadable
  <2> QED
    BY <2>2, <2>3
<1> QED
  BY <1>2, <1>3, <1>4, <1>5, <1>6 DEF KeepsRest, Promises

(***************************************************************************)
(* A command that keeps a request or marks it: artifacts go only when the *)
(* server has them, and the receipt is written when none is left.          *)
(***************************************************************************)
LEMMA SettleKeeps ==
  ASSUME Inv, TypeOK', NEW p \in Processes, Settle(p)
  PROVE  Keeps(p)
<1> DEFINE r == jobs[p].target
<1>1. jobs[p] \in Jobs /\ Placed(jobs[p]) /\ Knows(jobs[p]) /\ TypeOK /\ DOMAIN jobs = Processes
  BY DEF Inv, TypeOK, JobsOK
<1>2. jobs[p].pc \in Settling
  BY DEF Settle, OpenTarget, UpdateRetry, StartMark, UnlinkArtifact, WriteReceipt, Settling, Confirming
<1>3. r \in Requests /\ jobs[p].then = "idle" /\ phase[r] \in Kept
  BY <1>1, <1>2 DEF Placed, Settling, Confirming, Pruning, Knows
<1>4. dirs[r] \in Directory
  BY <1>3 DEF Inv, TypeOK, Directory
<1>5. ASSUME jobs'[p] = Idle PROVE Knows(jobs[p])' /\ ~Creates(jobs'[p])
  <2>1. Knows(jobs[p])'
    BY <1>5, IdleKnows
  <2>2. ~Creates(Idle)
    BY DEF Creates, Idle, Saving
  <2> QED
    BY <1>5, <2>1, <2>2
<1>6. ASSUME OpenTarget(p), ~Fails(p) PROVE Keeps(p)
  <2>1. PICK pc \in {"update", "confirm"} :
          /\ OpenLock(p, r, pc)
          /\ pc = "update" <=> jobs[p].pc = "retain"
    BY <1>6 DEF OpenTarget
  <2>2. /\ jobs'[p].pc = pc /\ jobs'[p].then = "idle" /\ jobs'[p].target = r
        /\ jobs'[p].listed = jobs[p].listed /\ \A q \in Processes \ {p} : jobs'[q] = jobs[q]
        /\ UNCHANGED <<phase, server>>
    BY <1>1, <1>3, <2>1 DEF OpenLock, Become, Jobs
  <2>3. jobs[p].pc # "retain" => jobs[p].pc = "mark"
    BY <1>6 DEF OpenTarget
  <2>4. Knows(jobs[p])' /\ ~Creates(jobs'[p])
    BY <1>1, <1>3, <2>1, <2>2, <2>3 DEF Knows, Creates, Saving, Sending, Settling, Confirming
  <2> QED
    BY <1>3, <2>1, <2>2, <2>4, OpenKeeps DEF Keeps, KeepsJob
<1>7. CASE UpdateRetry(p)
  <2>1. jobs'[p] = Idle /\ \A q \in Processes \ {p} : jobs'[q] = jobs[q]
    BY <1>1, <1>7 DEF UpdateRetry, Ends, Become
  <2>2. CASE ~Loadable(r)
    BY <1>5, <1>7, <2>1, <2>2, SharedKeeps DEF UpdateRetry, shared, Keeps, KeepsJob
  <2>3. CASE Loadable(r)
    <3> DEFINE record == Record(jobs[p].outcome, dirs[r].record.created, dirs[r].record.bytes)
               d == [dirs[r] EXCEPT !.record = record]
    <3>1. dirs[r].record \in Records
      BY <1>3, <2>3, LoadableFacts
    <3>2. jobs[p].outcome \in {"retryable", "rejected"}
      BY <1>1, <1>7 DEF UpdateRetry, Placed, Jobs
    <3>3. record \in Records /\ record # None /\ record.state # "uploaded"
      <4>1. dirs[r].record.created \in 0 .. MaxTime /\ dirs[r].record.bytes \in {0, 1}
        BY <3>1 DEF Records
      <4>2. record \in Records /\ record # None /\ record.state = jobs[p].outcome
        BY <1>1, <3>2, <4>1, RecordTyped
      <4> QED
        BY <3>2, <4>2
    <3>4. dirs' = [dirs EXCEPT ![r] = d] /\ UNCHANGED <<phase, wire, server>>
      BY <1>3, <1>7, <2>3 DEF UpdateRetry
    <3> HIDE DEF record
    <3>5. /\ d \in Directory /\ d.there = dirs[r].there /\ d.files = dirs[r].files
          /\ d.record = record
      BY <1>4, <3>3 DEF Directory
    <3> HIDE DEF d
    <3>6. KeepsRest(p)
      BY <1>3, <3>3, <3>4, <3>5, RewriteKeeps
    <3> QED
      BY <1>5, <2>1, <3>6 DEF Keeps, KeepsJob
  <2> QED
    BY <2>2, <2>3
<1>8. ASSUME StartMark(p), ~Fails(p) PROVE Keeps(p)
  <2>1. /\ UNCHANGED shared /\ jobs[p].pc = "confirm"
        /\ Become(p, [jobs[p] EXCEPT !.pc = "unlink", !.locked = TRUE, !.names = dirs[r].files,
                                     !.at = dirs[r].record.created])
    BY <1>8 DEF StartMark, shared
  <2>2. /\ jobs'[p].pc = "unlink" /\ jobs'[p].then = "idle" /\ jobs'[p].target = r
        /\ jobs'[p].listed = jobs[p].listed /\ jobs'[p].names = dirs[r].files
        /\ \A q \in Processes \ {p} : jobs'[q] = jobs[q]
    BY <1>1, <1>3, <2>1 DEF Become, Jobs
  <2>3. Knows(jobs[p])' /\ ~Creates(jobs'[p])
    BY <1>1, <1>3, <2>1, <2>2 DEF Knows, Creates, Saving, Sending, Settling, Confirming, shared
  <2> QED
    BY <2>1, <2>2, <2>3, SharedKeeps DEF Keeps, KeepsJob
<1>9. ASSUME UnlinkArtifact(p), ~Fails(p) PROVE Keeps(p)
  <2>1. PICK name \in jobs[p].names :
          /\ name \in dirs[r].files
          /\ dirs' = [dirs EXCEPT ![r] = Unlinked(@, name)]
          /\ Become(p, [jobs[p] EXCEPT !.names = @ \ {name}])
          /\ UNCHANGED <<clock, phase, wire, server>>
    BY <1>9 DEF UnlinkArtifact
  <2>2. server[r] # None /\ dirs[r].files \subseteq jobs[p].names /\ jobs[p].pc = "unlink"
    BY <1>1, <1>9 DEF UnlinkArtifact, Knows, Confirming
  <2> DEFINE d == Unlinked(dirs[r], name)
  <2>3. name \in Artifacts
    BY <1>4, <2>1 DEF Directory
  <2>4. /\ d \in Directory /\ d.there = dirs[r].there /\ d.files = dirs[r].files \ {name}
        /\ d.record = dirs[r].record
    BY <1>4, <2>3, UnlinkedTyped
  <2>5. dirs' = [dirs EXCEPT ![r] = d]
    BY <2>1
  <2>6. /\ jobs'[p].pc = "unlink" /\ jobs'[p].then = "idle" /\ jobs'[p].target = r
        /\ jobs'[p].listed = jobs[p].listed /\ jobs'[p].names = jobs[p].names \ {name}
        /\ \A q \in Processes \ {p} : jobs'[q] = jobs[q]
    BY <1>1, <1>3, <2>1, <2>2 DEF Become, Jobs
  <2> HIDE DEF d
  <2>7. dirs'[r] = d
    BY <1>3, <2>5 DEF Inv, TypeOK
  <2>8. dirs[r].there /\ dirs[r].record # None /\ dirs[r].record.state = "uploaded" => dirs[r].files = {}
    BY <1>3 DEF Inv, Promises, ReceiptProvesUpload, Loadable
  <2>9. KeepsRest(p)
    <3>1. UNCHANGED <<phase, wire, server>>
      BY <2>1
    <3>2. d.there /\ d.record # None /\ d.record.state = "uploaded" => d.files = {}
      BY <2>4, <2>8
    <3>3. d.files \subseteq dirs[r].files /\ (dirs[r].record # None => d.record # None)
      BY <2>4
    <3> QED
      BY <1>3, <2>2, <2>4, <2>5, <3>1, <3>2, <3>3, RewriteKeeps
  <2>10. Knows(jobs[p])' /\ ~Creates(jobs'[p])
    BY <1>1, <1>3, <2>1, <2>2, <2>4, <2>6, <2>7 DEF Knows, Creates, Saving, Sending, Settling, Confirming
  <2> QED
    BY <2>6, <2>9, <2>10 DEF Keeps, KeepsJob
<1>10. CASE WriteReceipt(p)
  <2>1. jobs'[p] = Idle /\ \A q \in Processes \ {p} : jobs'[q] = jobs[q]
    BY <1>1, <1>10 DEF WriteReceipt, Ends, Become
  <2>2. server[r] # None /\ dirs[r].files = {}
    BY <1>1, <1>10 DEF WriteReceipt, UnlinkedAll, Knows, Confirming
  <2>3. CASE ~dirs[r].there
    BY <1>5, <1>10, <2>1, <2>3, SharedKeeps DEF WriteReceipt, shared, Keeps, KeepsJob
  <2>4. CASE dirs[r].there
    <3> DEFINE record == Record("uploaded", jobs[p].at, 0)
               d == [dirs[r] EXCEPT !.record = record]
    <3>1. jobs[p].at \in 0 .. MaxTime
      BY <1>1 DEF Jobs
    <3>2. record \in Records /\ record # None
      BY <1>1, <3>1, RecordTyped
    <3>3. dirs' = [dirs EXCEPT ![r] = d] /\ UNCHANGED <<phase, wire, server>>
      BY <1>3, <1>10, <2>4 DEF WriteReceipt
    <3> HIDE DEF record
    <3>4. d \in Directory /\ d.there = dirs[r].there /\ d.files = dirs[r].files /\ d.record = record
      BY <1>4, <3>2 DEF Directory
    <3> HIDE DEF d
    <3>5. KeepsRest(p)
      BY <1>3, <2>2, <3>2, <3>3, <3>4, RewriteKeeps
    <3> QED
      BY <1>5, <2>1, <3>5 DEF Keeps, KeepsJob
  <2> QED
    BY <2>3, <2>4
<1> QED
  BY <1>6, <1>7, <1>8, <1>9, <1>10, FailKeeps DEF Settle

-----------------------------------------------------------------------------
LEMMA KeepsInv ==
  ASSUME Inv, TypeOK', Local', NEW p \in Processes, Keeps(p)
  PROVE  Inv'
<1>1. TypeOK /\ Local /\ JobsOK /\ OwnIds
  BY DEF Inv, JobsOK, Local
<1>2. \A q \in Processes : Knows(jobs[q])'
  BY <1>1, OthersKnow DEF Keeps, KeepsJob, KeepsRest
<1>3. OwnIds'
  <2>1. \A q \in Processes : Creates(jobs'[q]) => Creates(jobs[q]) /\ jobs'[q].target = jobs[q].target
    BY DEF Keeps, KeepsJob
  <2>2. \A q \in Processes : Creates(jobs[q])' <=> Creates(jobs'[q])
    BY DEF Creates
  <2> QED
    BY <1>1, <2>1, <2>2 DEF OwnIds
<1> QED
  BY <1>2, <1>3 DEF Inv, JobsOK, Local, Keeps, KeepsRest

(***************************************************************************)
(* A command begins: it knows nothing yet, but that the id a scan draws is *)
(* used by nobody.                                                         *)
(***************************************************************************)
LEMMA BeginsInv ==
  ASSUME Inv, TypeOK', Local', NEW p \in Processes, NEW r, NEW then, Begins(p, then, r),
         \/ then # "create" /\ UNCHANGED phase
         \/ r \in Requests /\ phase[r] = "unused" /\ phase' = [phase EXCEPT ![r] = "drawn"]
  PROVE  Inv'
<1>1. TypeOK /\ Local /\ JobsOK /\ OwnIds /\ DOMAIN jobs = Processes
  BY DEF Inv, JobsOK, Local, TypeOK
<1>2. /\ jobs'[p].pc = "list" /\ jobs'[p].then = then /\ jobs'[p].target = r
      /\ \A q \in Requests : jobs'[p].listed[q] = None
      /\ \A q \in Processes \ {p} : jobs'[q] = jobs[q]
      /\ UNCHANGED <<dirs, wire, server>>
  BY <1>1 DEF Begins, Become, Idle
<1>3. /\ then = "create" => r \in Requests /\ phase[r] = "unused" /\ phase'[r] = "drawn"
      /\ \A q \in Requests : phase'[q] = phase[q] \/ (q = r /\ phase[q] = "unused" /\ phase'[q] = "drawn")
  <2>1. CASE then # "create" /\ phase' = phase
    BY <2>1
  <2>2. CASE r \in Requests /\ phase[r] = "unused" /\ phase' = [phase EXCEPT ![r] = "drawn"]
    <3>1. phase \in [Requests -> {"unused", "drawn", "saved", "doomed"}]
      BY <1>1 DEF TypeOK
    <3> QED
      BY <2>2, <3>1
  <2> QED
    BY <2>1, <2>2
<1>4. \A q \in Requests : phase'[q] = phase[q] \/ (q = r /\ phase[q] = "unused" /\ phase'[q] = "drawn")
  BY <1>3
<1>5. \A q \in Requests : Onward(q)
  BY <1>2, <1>4 DEF Onward, Kept
<1>6. Spares(p)
  BY <1>2, <1>4 DEF Spares
<1>7. \A q \in Processes \ {p} : Knows(jobs[q])'
  BY <1>1, <1>2, <1>5, <1>6, OthersKnow
<1>8. Creates(jobs'[p]) <=> then = "create"
  BY <1>2 DEF Creates, Saving
<1>9. Knows(jobs[p])'
  BY <1>2, <1>3, <1>8 DEF Knows, Creates, Saving, Sending, Settling, Confirming
<1>10. \A q \in Processes \ {p} : Creates(jobs[q]) => jobs[q].target \in Requests /\ phase[jobs[q].target] = "drawn"
  BY <1>1 DEF JobsOK, Placed, Knows, Creates, Saving, Pruning
<1>11. OwnIds'
  <2>1. \A q \in Processes : Creates(jobs[q])' <=> Creates(jobs'[q])
    BY DEF Creates
  <2>2. SUFFICES ASSUME NEW q \in Processes, NEW s \in Processes, Creates(jobs'[q]), Creates(jobs'[s]),
                        jobs'[q].target = jobs'[s].target
                 PROVE  q = s
    BY <2>1 DEF OwnIds
  <2>3. CASE q # p /\ s # p
    BY <1>1, <1>2, <2>2, <2>3 DEF OwnIds
  <2>4. CASE q = p \/ s = p
    BY <1>2, <1>3, <1>8, <1>10, <2>2, <2>4
  <2> QED
    BY <2>3, <2>4
<1>12. RequestsOK'
  BY <1>2, <1>4 DEF Inv, RequestsOK, RequestOK, Kept
<1>13. Promises'
  BY <1>2, <1>4 DEF Inv, Promises, SavedUntilStored, StoredWhole, ReceiptProvesUpload, Loadable,
                    RequestsOK, RequestOK
<1> QED
  BY <1>7, <1>9, <1>11, <1>12, <1>13 DEF Inv, JobsOK, Local

(***************************************************************************)
(* The server, and time.                                                   *)
(***************************************************************************)
LEMMA ServerInv ==
  ASSUME Inv, TypeOK', Local', UNCHANGED <<dirs, phase, jobs>>, wire' \subseteq wire,
         \/ UNCHANGED server
         \/ \E m \in wire : server[m[2]] = None /\ server' = [server EXCEPT ![m[2]] = m[3]]
  PROVE  Inv'
<1>1. TypeOK /\ Local /\ JobsOK /\ OwnIds
  BY DEF Inv, JobsOK, Local
<1>2. \A r \in Requests :
        \/ server'[r] = server[r]
        \/ server[r] = None /\ server'[r] # None /\ \E m \in wire : m[2] = r /\ m[3] = server'[r]
  BY <1>1, Assumed DEF TypeOK, Messages
<1>3. \A r \in Requests : Onward(r)
  BY <1>2 DEF Onward
<1>5. \A q \in Processes : Knows(jobs[q])'
  <2>1. \A q \in Processes : Creates(jobs[q]) => phase[jobs[q].target] = "drawn"
    BY <1>1 DEF JobsOK, Knows
  <2> QED
    BY <1>1, <1>3, <2>1, StillKnows
<1>6. OwnIds'
  BY <1>1 DEF OwnIds, Creates
<1>7. RequestsOK'
  BY <1>2 DEF Inv, RequestsOK, RequestOK, Kept
<1>8. SavedUntilStored' /\ ReceiptProvesUpload'
  BY <1>2 DEF Inv, Promises, SavedUntilStored, ReceiptProvesUpload, Loadable
<1>9. StoredWhole'
  BY <1>2 DEF Inv, Promises, StoredWhole, RequestsOK, RequestOK, Kept
<1> QED
  BY <1>5, <1>6, <1>7, <1>8, <1>9 DEF Inv, JobsOK, Local, Promises

LEMMA InvStep == ASSUME Inv, [Next]_vars PROVE Inv'
<1>1. TypeOK' /\ Local'
  BY TypeStep DEF Inv, JobsOK, Local
<1>2. ASSUME NEW p \in Processes, Step(p) \/ Crash(p) PROVE Inv'
  BY <1>1, <1>2, PruneKeeps, SaveKeeps, SendKeeps, SettleKeeps, FailKeeps, KeepsInv DEF Step, Crash
<1>3. ASSUME NEW p \in Processes, CachePrune(p) PROVE Inv'
  BY <1>1, <1>3, BeginsInv DEF CachePrune
<1>4. ASSUME NEW p \in Processes, NEW r \in Requests, Scan(p, r) PROVE Inv'
  BY <1>1, <1>4, BeginsInv DEF Scan
<1>5. ASSUME NEW p \in Processes, NEW r \in Requests, Upload(p, r) PROVE Inv'
  BY <1>1, <1>5, BeginsInv DEF Upload
<1>6. ASSUME NEW m \in wire, ServerStores(m) \/ ServerDrops(m) PROVE Inv'
  <2>1. /\ UNCHANGED <<dirs, phase, jobs>> /\ wire' \subseteq wire
        /\ \/ UNCHANGED server
           \/ server[m[2]] = None /\ server' = [server EXCEPT ![m[2]] = m[3]]
    BY <1>6 DEF ServerStores, ServerDrops
  <2> QED
    BY <1>1, <1>6, <2>1, ServerInv
<1>7. CASE Tick \/ UNCHANGED vars
  BY <1>1, <1>7, ServerInv DEF Tick, vars
<1> QED
  BY <1>2, <1>3, <1>4, <1>5, <1>6, <1>7 DEF Next

LEMMA InvInit == Init => Inv
<1> SUFFICES ASSUME Init PROVE Inv
  OBVIOUS
<1>1. TypeOK /\ Local
  BY TypeInit
<1>2. \A p \in Processes : jobs[p] = Idle
  BY DEF Init
<1>3. ~Creates(Idle) /\ Knows(Idle)
  BY DEF Creates, Knows, Idle, Saving, Sending, Settling, Confirming
<1>4. JobsOK /\ OwnIds
  BY <1>1, <1>2, <1>3 DEF JobsOK, Local, OwnIds
<1>5. RequestsOK /\ Promises
  BY DEF Init, RequestsOK, RequestOK, Promises, SavedUntilStored, StoredWhole, ReceiptProvesUpload,
         Loadable, NoDirectory
<1> QED
  BY <1>1, <1>4, <1>5 DEF Inv

LEMMA InvAlways == Spec => []Inv
BY InvInit, InvStep, PTL DEF Spec

(***************************************************************************)
(* A saved result stays whole until the server has it, for any number of   *)
(* commands that save, send, mark, prune and die at the same time.         *)
(***************************************************************************)
THEOREM ResultsAreKept == Spec => []SavedUntilStored
<1>1. Inv => SavedUntilStored
  BY DEF Inv, Promises
<1> QED
  BY <1>1, InvAlways, PTL

(***************************************************************************)
(* No part of a bundle is ever stored, unless a prune removes it.          *)
(***************************************************************************)
THEOREM BundlesAreStoredWhole == Spec => []StoredWhole
<1>1. Inv => StoredWhole
  BY DEF Inv, Promises
<1> QED
  BY <1>1, InvAlways, PTL

(***************************************************************************)
(* Where there is a receipt the server has the scan, and nothing of it is  *)
(* left on disk.                                                           *)
(***************************************************************************)
THEOREM ReceiptsProveUploads == Spec => []ReceiptProvesUpload
<1>1. Inv => ReceiptProvesUpload
  BY DEF Inv, Promises
<1> QED
  BY <1>1, InvAlways, PTL

=============================================================================
