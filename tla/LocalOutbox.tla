---------------------------- MODULE LocalOutbox ----------------------------
(***************************************************************************)
(* The outbox of the local command line: a directory per scan that holds   *)
(* the result until the server has it.  Commands are processes on one      *)
(* machine, and each prunes the outbox before it does anything else.  A    *)
(* scan saves a new bundle and uploads it, an upload sends a saved bundle  *)
(* again.  A lock file in the directory is held while the bundle is        *)
(* written, reread, marked or removed, and not while it is uploaded.       *)
(*                                                                         *)
(* A lock belongs to the file that was opened.  Pruning unlinks the file   *)
(* it locks, and whoever then opens the path locks another file, so a lock *)
(* is held on an inode and not on a request.                               *)
(*                                                                         *)
(* A step is one file operation that another command can see, or one       *)
(* message; a command may die before any step.  The server is the upload   *)
(* service, reduced to what a request id is bound to: a post may be        *)
(* stored long after the client has given up on its answer.                *)
(*                                                                         *)
(* A name with Without, Ignoring or As is a faulty variant of the          *)
(* definition that follows it.                                             *)
(***************************************************************************)
EXTENDS Integers, FiniteSets

CONSTANTS
  Processes,    \* commands that run at the same time
  Requests,     \* request ids, UUIDs drawn by scans
  Artifacts,    \* the files of a bundle
  Required,     \* metadata.json and findings.json
  None,         \* no record, no request
  MaxAttempts,  \* max_attempts              4
  Retention,    \* DEFAULT_RETENTION    7 days
  Quota,        \* DEFAULT_QUOTA_BYTES   1 GiB; a bundle has one byte
  MaxTime       \* bound: the clock stops here

Records ==
  [state : {"pending", "retryable", "rejected", "uploaded"}, created : 0 .. MaxTime,
   updated : 0 .. MaxTime, bytes : {0, 1}]

ASSUME OutboxAssumption ==
  /\ IsFiniteSet(Processes) /\ IsFiniteSet(Requests)
  /\ Required \subseteq Artifacts
  /\ Artifacts \cap {"record", "lock"} = {}
  /\ MaxAttempts \in Nat \ {0}
  /\ {Retention, Quota, MaxTime} \subseteq Nat
  /\ None \notin Requests \cup Records
  /\ \A bundle \in SUBSET Artifacts : bundle # None

VARIABLES
  clock,   \* the wall clock of the machine
  dirs,    \* the outbox by request: a directory with its files
  phase,   \* what became of a request id: unused, drawn, saved, doomed
  wire,    \* posts on their way to the server or being worked on there
  server,  \* the artifacts the server has stored for a request, or None
  jobs     \* the commands

vars == <<clock, dirs, phase, wire, server, jobs>>

-----------------------------------------------------------------------------
(***************************************************************************)
(* A directory: its artifacts, its record.json and the inode of its .lock, *)
(* 0 if there is none.  A record is replaced as a whole.                   *)
(***************************************************************************)
NoDirectory == [there |-> FALSE, files |-> {}, inode |-> 0, record |-> None]

Record(state, created, bytes) ==
  [state |-> state, created |-> created, updated |-> clock, bytes |-> bytes]

Loadable(r) == dirs[r].there /\ dirs[r].record # None

Names(d) ==
  d.files \cup (IF d.record = None THEN {} ELSE {"record"})
          \cup (IF d.inode = 0 THEN {} ELSE {"lock"})

Unlinked(d, name) ==
  CASE name = "record" -> [d EXCEPT !.record = None]
    [] name = "lock" -> [d EXCEPT !.inode = 0]
    [] OTHER -> [d EXCEPT !.files = @ \ {name}]

(***************************************************************************)
(* A command: its next step, the one after pruning, its request, the       *)
(* parts it posts and how often it has, and how the upload ended; what it  *)
(* listed, when, and has left to prune; the request whose lock file it has open,  *)
(* as fd, whether it holds the lock, and the files it has yet to unlink.   *)
(***************************************************************************)
Idle ==
  [pc |-> "idle", then |-> "idle", target |-> None, bundle |-> {}, attempt |-> 0,
   outcome |-> "none", at |-> 0, listed |-> [r \in Requests |-> None], retained |-> 0,
   open |-> None, fd |-> 0, locked |-> FALSE, names |-> {}]

Closed(job) == [job EXCEPT !.open = None, !.fd = 0, !.locked = FALSE, !.names = {}]

Become(p, job) == jobs' = [jobs EXCEPT ![p] = job]

Goto(p, pc) == Become(p, [jobs[p] EXCEPT !.pc = pc])

Ends(p) == Become(p, Idle)

Fails(p) == Ends(p) /\ UNCHANGED <<clock, dirs, phase, wire, server>>

(***************************************************************************)
(* The lock: the file is opened, or created, and flock is asked for.       *)
(***************************************************************************)
Inodes == 1 .. Cardinality(Processes) + 1

InUse(r) == {jobs[p].fd : p \in {q \in Processes : jobs[q].open = r}}

Opened(r) ==
  IF dirs[r].inode # 0 THEN dirs[r].inode ELSE CHOOSE i \in Inodes : i \notin InUse(r)

LockFree(p) ==
  \A q \in Processes \ {p} :
     ~(jobs[q].locked /\ jobs[q].open = jobs[p].open /\ jobs[q].fd = jobs[p].fd)

OpenLock(p, r, pc) ==
  /\ dirs[r].there
  /\ dirs' = [dirs EXCEPT ![r].inode = Opened(r)]
  /\ Become(p, [jobs[p] EXCEPT !.pc = pc, !.open = r, !.fd = Opened(r)])
  /\ UNCHANGED <<clock, phase, wire, server>>

-----------------------------------------------------------------------------
Init ==
  /\ clock = 0
  /\ dirs = [r \in Requests |-> NoDirectory]
  /\ phase = [r \in Requests |-> "unused"]
  /\ wire = {}
  /\ server = [r \in Requests |-> None]
  /\ jobs = [p \in Processes |-> Idle]

Tick ==
  /\ clock < MaxTime
  /\ clock' = clock + 1
  /\ UNCHANGED <<dirs, phase, wire, server, jobs>>

(***************************************************************************)
(* A command starts: a scan draws an id nobody else has, an upload names   *)
(* one that was printed before, cache prune only prunes.                   *)
(***************************************************************************)
Begins(p, then, r) ==
  /\ jobs[p].pc = "idle"
  /\ Become(p, [Idle EXCEPT !.pc = "list", !.then = then, !.target = r])
  /\ UNCHANGED <<clock, dirs, wire, server>>

Scan(p, r) ==
  /\ phase[r] = "unused"
  /\ Begins(p, "create", r)
  /\ phase' = [phase EXCEPT ![r] = "drawn"]

Upload(p, r) ==
  /\ phase[r] # "unused"
  /\ Begins(p, "load", r)
  /\ UNCHANGED phase

CachePrune(p) == Begins(p, "idle", None) /\ UNCHANGED phase

-----------------------------------------------------------------------------
(***************************************************************************)
(* prune: every readable record is listed without a lock, and what is      *)
(* expired by that listing, or oldest while it is over the quota, is       *)
(* removed.                                                                *)
(***************************************************************************)
List(p) ==
  LET listed == [r \in Requests |-> IF Loadable(r) THEN dirs[r].record ELSE None]
  IN  /\ jobs[p].pc = "list"
      /\ Become(p, [jobs[p] EXCEPT
           !.pc = "prune", !.at = clock, !.listed = listed,
           !.retained = Cardinality({r \in Requests : listed[r] # None /\ listed[r].bytes = 1})])
      /\ UNCHANGED <<clock, dirs, phase, wire, server>>

Unseen(job) == {r \in Requests : job.listed[r] # None}

OldestUnseen(job) ==
  {r \in Unseen(job) :
     \A s \in Unseen(job) : job.listed[r].created <= job.listed[s].created}

Expired(job, r) == job.at - job.listed[r].updated > Retention

ShouldRemove(job, r) == Expired(job, r) \/ job.retained > Quota

Passed(job, r) == [Closed(job) EXCEPT !.pc = "prune", !.listed[r] = None]

KeepEntry(p) ==
  /\ jobs[p].pc = "prune"
  /\ \E r \in OldestUnseen(jobs[p]) :
       ~ShouldRemove(jobs[p], r) /\ Become(p, Passed(jobs[p], r))
  /\ UNCHANGED <<clock, dirs, phase, wire, server>>

ChooseEntry(p) ==
  /\ jobs[p].pc = "prune"
  /\ \E r \in OldestUnseen(jobs[p]) :
       /\ ShouldRemove(jobs[p], r)
       /\ OpenLock(p, r, "try") \/ (~dirs[r].there /\ Fails(p))

(***************************************************************************)
(* A request that is locked is skipped.  rmtree reads the directory once   *)
(* and raises if a name is gone when its turn comes or if there is another *)
(* name in the directory at the end.                                       *)
(***************************************************************************)
SkipLocked(p) ==
  /\ jobs[p].pc = "try"
  /\ ~LockFree(p)
  /\ Become(p, Passed(jobs[p], jobs[p].open))
  /\ UNCHANGED <<clock, dirs, phase, wire, server>>

TakeEntry(p) ==
  LET r == jobs[p].open
  IN  /\ jobs[p].pc = "try"
      /\ LockFree(p)
      /\ \/ /\ dirs[r].there
            /\ Become(p, [jobs[p] EXCEPT !.pc = "remove", !.locked = TRUE, !.names = Names(dirs[r])])
            /\ phase' = [phase EXCEPT ![r] = "doomed"]
            /\ UNCHANGED <<clock, dirs, wire, server>>
         \/ ~dirs[r].there /\ Fails(p)

RemoveName(p) ==
  LET r == jobs[p].open
  IN  /\ jobs[p].pc = "remove"
      /\ \E name \in jobs[p].names :
           \/ /\ name \in Names(dirs[r])
              /\ dirs' = [dirs EXCEPT ![r] = Unlinked(@, name)]
              /\ Become(p, [jobs[p] EXCEPT !.names = @ \ {name}])
              /\ UNCHANGED <<clock, phase, wire, server>>
           \/ name \notin Names(dirs[r]) /\ Fails(p)

RemoveDirectory(p) ==
  LET r == jobs[p].open
  IN  /\ jobs[p].pc = "remove"
      /\ jobs[p].names = {}
      /\ \/ /\ dirs[r].there /\ Names(dirs[r]) = {}
            /\ dirs' = [dirs EXCEPT ![r] = NoDirectory]
            /\ Become(p, [Passed(jobs[p], r) EXCEPT !.retained = @ - jobs[p].listed[r].bytes])
            /\ UNCHANGED <<clock, phase, wire, server>>
         \/ ~(dirs[r].there /\ Names(dirs[r]) = {}) /\ Fails(p)

Pruned(p) ==
  /\ jobs[p].pc = "prune"
  /\ Unseen(jobs[p]) = {}
  /\ Become(p, [Idle EXCEPT !.pc = jobs[p].then, !.target = jobs[p].target])
  /\ UNCHANGED <<clock, dirs, phase, wire, server>>

-----------------------------------------------------------------------------
(***************************************************************************)
(* save: the directory is made and locked, which nobody contends for since *)
(* nobody else has the id; the artifacts are written and the record last.  *)
(* An error removes the directory.                                         *)
(***************************************************************************)
Create(p) ==
  LET r == jobs[p].target
  IN  /\ jobs[p].pc = "create"
      /\ dirs' = [dirs EXCEPT ![r] = [NoDirectory EXCEPT !.there = TRUE, !.inode = 1]]
      /\ Become(p, [jobs[p] EXCEPT !.pc = "write", !.open = r, !.fd = 1, !.locked = TRUE])
      /\ UNCHANGED <<clock, phase, wire, server>>

WriteArtifact(p) ==
  LET r == jobs[p].target
  IN  /\ jobs[p].pc = "write"
      /\ \E name \in Artifacts \ dirs[r].files :
           dirs' = [dirs EXCEPT ![r].files = @ \cup {name}]
      /\ UNCHANGED <<clock, phase, wire, server, jobs>>

(***************************************************************************)
(* What follows a saved or a loaded bundle: it is posted, or only kept     *)
(* because of --no-upload or because there is no token.                    *)
(***************************************************************************)
PostOrKeep(p, bundle) ==
  \/ Become(p, [Closed(jobs[p]) EXCEPT !.pc = "post", !.bundle = bundle])
  \/ Become(p, [Closed(jobs[p]) EXCEPT !.pc = "retain", !.outcome = "retryable"])

WrittenWithoutOptional(r) == Required \subseteq dirs[r].files

Written(r) == dirs[r].files = Artifacts

WriteRecord(p) ==
  LET r == jobs[p].target
  IN  /\ jobs[p].pc = "write"
      /\ Written(r)
      /\ dirs' = [dirs EXCEPT ![r].record = Record("pending", clock, 1)]
      /\ phase' = [phase EXCEPT ![r] = "saved"]
      /\ PostOrKeep(p, Artifacts)
      /\ UNCHANGED <<clock, wire, server>>

SaveFails(p) ==
  /\ jobs[p].pc = "write"
  /\ dirs' = [dirs EXCEPT ![jobs[p].target] = NoDirectory]
  /\ Ends(p)
  /\ UNCHANGED <<clock, phase, wire, server>>

(***************************************************************************)
(* load, for an upload: the bundle is the artifacts that are there, without*)
(* a lock and whatever the record's state; without the required ones the   *)
(* command fails.                                                          *)
(***************************************************************************)
Load(p) ==
  LET r == jobs[p].target
  IN  /\ jobs[p].pc = "load"
      /\ Loadable(r)
      /\ Required \subseteq dirs[r].files
      /\ PostOrKeep(p, dirs[r].files)
      /\ UNCHANGED <<clock, dirs, phase, wire, server>>

LoadFails(p) ==
  /\ jobs[p].pc = "load"
  /\ ~(Loadable(jobs[p].target) /\ Required \subseteq dirs[jobs[p].target].files)
  /\ Fails(p)

-----------------------------------------------------------------------------
(***************************************************************************)
(* upload_bundle: an attempt posts the files the bundle names.  If one is  *)
(* gone when the attempt starts, the request is kept as rejected; if one   *)
(* goes while they are sent, the post is lost.                             *)
(***************************************************************************)
Post(p) ==
  LET r == jobs[p].target
  IN  /\ jobs[p].pc = "post"
      /\ \/ /\ jobs[p].bundle \subseteq dirs[r].files
            /\ wire' = wire \cup {<<p, r, jobs[p].bundle>>}
            /\ Become(p, [jobs[p] EXCEPT !.pc = "posted", !.attempt = @ + 1])
         \/ /\ ~(jobs[p].bundle \subseteq dirs[r].files)
            /\ Become(p, [jobs[p] EXCEPT !.pc = "retain", !.outcome = "rejected"])
            /\ UNCHANGED wire
      /\ UNCHANGED <<clock, dirs, phase, server>>

(***************************************************************************)
(* The server takes a post from the wire: it stores the bundle unless the  *)
(* request id is bound already, or does not get to it.                     *)
(***************************************************************************)
ServerStores(m) ==
  /\ m \in wire
  /\ server[m[2]] = None
  /\ server' = [server EXCEPT ![m[2]] = m[3]]
  /\ wire' = wire \ {m}
  /\ UNCHANGED <<clock, dirs, phase, jobs>>

ServerDrops(m) ==
  /\ m \in wire
  /\ wire' = wire \ {m}
  /\ UNCHANGED <<clock, dirs, phase, server, jobs>>

(***************************************************************************)
(* How an upload goes on: it is confirmed, it is kept for another command, *)
(* or it is tried again while there are attempts left.                     *)
(***************************************************************************)
Confirmed(job) == [job EXCEPT !.pc = "mark", !.bundle = {}, !.attempt = 0]

Retained(job, outcome) ==
  [job EXCEPT !.pc = "retain", !.outcome = outcome, !.bundle = {}, !.attempt = 0]

AgainWithoutLimit(job) == [job EXCEPT !.pc = "post"]

Again(job) ==
  IF job.attempt < MaxAttempts THEN [job EXCEPT !.pc = "post"] ELSE Retained(job, "retryable")

(***************************************************************************)
(* 202: another execution holds the id; it may never store anything.       *)
(***************************************************************************)
InProgressAsConfirmed(job) == Confirmed(job)

InProgress(job) == Retained(job, "retryable")

(***************************************************************************)
(* The answer to the post: 200 or 201 when the server has this bundle, 202 *)
(* while it has none, a status that is final, or one that is retried.      *)
(***************************************************************************)
Answered(p) ==
  LET job == jobs[p]
  IN  /\ job.pc = "posted"
      /\ <<p, job.target, job.bundle>> \notin wire
      /\ \/ server[job.target] = job.bundle /\ Become(p, Confirmed(job))
         \/ server[job.target] = None /\ Become(p, InProgress(job))
         \/ Become(p, Retained(job, "rejected"))
         \/ Become(p, Again(job))
      /\ UNCHANGED <<clock, dirs, phase, wire, server>>

(***************************************************************************)
(* No answer: the status of the request id is asked for once.              *)
(***************************************************************************)
AnswerLost(p) ==
  /\ jobs[p].pc = "posted"
  /\ Goto(p, "recover")
  /\ UNCHANGED <<clock, dirs, phase, wire, server>>

Recover(p) ==
  LET job == jobs[p]
  IN  /\ job.pc = "recover"
      /\ \/ server[job.target] # None /\ Become(p, Confirmed(job))
         \/ server[job.target] = None /\ Become(p, InProgress(job))
         \/ Become(p, Retained(job, "rejected"))
         \/ Become(p, Again(job))
      /\ UNCHANGED <<clock, dirs, phase, wire, server>>

-----------------------------------------------------------------------------
(***************************************************************************)
(* retain and mark_uploaded wait for the lock, then reread the record.     *)
(***************************************************************************)
OpenTarget(p) ==
  LET r == jobs[p].target
  IN  /\ jobs[p].pc \in {"retain", "mark"}
      /\ \/ OpenLock(p, r, IF jobs[p].pc = "retain" THEN "update" ELSE "confirm")
         \/ ~dirs[r].there /\ Fails(p)

UpdateRetry(p) ==
  LET r == jobs[p].target
  IN  /\ jobs[p].pc = "update"
      /\ LockFree(p)
      /\ dirs' = IF Loadable(r)
                 THEN [dirs EXCEPT ![r].record =
                         Record(jobs[p].outcome, @.created, @.bytes)]
                 ELSE dirs
      /\ Ends(p)
      /\ UNCHANGED <<clock, phase, wire, server>>

(***************************************************************************)
(* mark_uploaded: the artifacts are unlinked one by one and then the       *)
(* record becomes a receipt.                                               *)
(***************************************************************************)
StartMark(p) ==
  LET r == jobs[p].target
  IN  /\ jobs[p].pc = "confirm"
      /\ LockFree(p)
      /\ \/ /\ Loadable(r)
            /\ Become(p, [jobs[p] EXCEPT !.pc = "unlink", !.locked = TRUE, !.names = dirs[r].files,
                                         !.at = dirs[r].record.created])
            /\ UNCHANGED <<clock, dirs, phase, wire, server>>
         \/ ~Loadable(r) /\ Fails(p)

UnlinkArtifact(p) ==
  LET r == jobs[p].target
  IN  /\ jobs[p].pc = "unlink"
      /\ \E name \in jobs[p].names :
           \/ /\ name \in dirs[r].files
              /\ dirs' = [dirs EXCEPT ![r] = Unlinked(@, name)]
              /\ Become(p, [jobs[p] EXCEPT !.names = @ \ {name}])
              /\ UNCHANGED <<clock, phase, wire, server>>
           \/ name \notin dirs[r].files /\ Fails(p)

UnlinkedAllIgnoringRest(job) == TRUE

UnlinkedAll(job) == job.names = {}

WriteReceipt(p) ==
  LET r == jobs[p].target
  IN  /\ jobs[p].pc = "unlink"
      /\ UnlinkedAll(jobs[p])
      /\ dirs' = IF dirs[r].there
                 THEN [dirs EXCEPT ![r].record = Record("uploaded", jobs[p].at, 0)]
                 ELSE dirs
      /\ Ends(p)
      /\ UNCHANGED <<clock, phase, wire, server>>

(***************************************************************************)
(* The command is killed; the system releases its lock.                    *)
(***************************************************************************)
Crash(p) == jobs[p].pc # "idle" /\ Fails(p)

-----------------------------------------------------------------------------
Prune(p) ==
  \/ List(p) \/ KeepEntry(p) \/ ChooseEntry(p) \/ SkipLocked(p) \/ TakeEntry(p)
  \/ RemoveName(p) \/ RemoveDirectory(p) \/ Pruned(p)

Save(p) == Create(p) \/ WriteArtifact(p) \/ WriteRecord(p) \/ SaveFails(p)

Send(p) == Load(p) \/ LoadFails(p) \/ Post(p) \/ Answered(p) \/ AnswerLost(p) \/ Recover(p)

Settle(p) ==
  OpenTarget(p) \/ UpdateRetry(p) \/ StartMark(p) \/ UnlinkArtifact(p) \/ WriteReceipt(p)

Step(p) == Prune(p) \/ Save(p) \/ Send(p) \/ Settle(p)

Messages == Processes \X Requests \X SUBSET Artifacts

Next ==
  \/ Tick
  \/ \E p \in Processes : CachePrune(p) \/ Step(p) \/ Crash(p)
  \/ \E p \in Processes, r \in Requests : Scan(p, r) \/ Upload(p, r)
  \/ \E m \in wire : ServerStores(m) \/ ServerDrops(m)

Spec == Init /\ [][Next]_vars

-----------------------------------------------------------------------------
Jobs ==
  [pc : {"idle", "list", "prune", "try", "remove", "create", "write", "load", "post", "posted",
         "recover", "retain", "mark", "update", "confirm", "unlink"},
   then : {"idle", "create", "load"}, target : Requests \cup {None}, bundle : SUBSET Artifacts, attempt : 0 .. MaxAttempts,
   outcome : {"none", "retryable", "rejected"}, at : 0 .. MaxTime,
   listed : [Requests -> Records \cup {None}], retained : Int,
   open : Requests \cup {None}, fd : Inodes \cup {0}, locked : BOOLEAN,
   names : SUBSET (Artifacts \cup {"record", "lock"})]

TypeOK ==
  /\ clock \in 0 .. MaxTime
  /\ dirs \in [Requests -> [there : BOOLEAN, files : SUBSET Artifacts, inode : Inodes \cup {0},
                            record : Records \cup {None}]]
  /\ phase \in [Requests -> {"unused", "drawn", "saved", "doomed"}]
  /\ wire \subseteq Messages
  /\ server \in [Requests -> (SUBSET Artifacts) \cup {None}]
  /\ jobs \in [Processes -> Jobs]

(***************************************************************************)
(* A result is never lost before the server has it: once a scan has saved  *)
(* its bundle, the record and every artifact stay until the server has     *)
(* stored them, whatever dies, times out or runs at the same time, unless  *)
(* a prune set about removing the request.  service.py saves the bundle    *)
(* "before its first upload attempt", and mark_uploaded deletes it.        *)
(***************************************************************************)
SavedUntilStored ==
  \A r \in Requests :
     phase[r] = "saved" /\ server[r] = None =>
        Loadable(r) /\ dirs[r].files = Artifacts

(***************************************************************************)
(* The server stores whole bundles: no interrupted save or mark leaves a   *)
(* part of a bundle that another command posts, unless a prune set about   *)
(* removing the request.                                                   *)
(***************************************************************************)
StoredWhole ==
  \A r \in Requests :
     phase[r] \in {"drawn", "saved"} => server[r] \in {None, Artifacts}

(***************************************************************************)
(* A receipt is proof of a stored scan and has no artifact of it left      *)
(* beside it: mark_uploaded, "delete sensitive bundle files and retain     *)
(* only a small receipt".                                                  *)
(***************************************************************************)
ReceiptProvesUpload ==
  \A r \in Requests :
     Loadable(r) /\ dirs[r].record.state = "uploaded" =>
        server[r] # None /\ dirs[r].files = {}
=============================================================================
