--------------------------- MODULE IngestService ---------------------------
(***************************************************************************)
(* The upload path of the server: concurrent HTTP requests that each carry *)
(* one scan bundle, local or from GitHub Actions, over one SQLite database *)
(* with the idempotency rows, the usage charges, the audit attempts and    *)
(* the stored runs; and the actors that delete what was stored: a user's   *)
(* deletion of a scan or of a project, and the retention task.             *)
(*                                                                         *)
(* A request is one execution of ingest_local_scan or ingest_github_result *)
(* and is used once; a client that retries sends the same command in       *)
(* another request.  Between two database transactions of a request any    *)
(* other actor may run.  SQLite admits one write transaction at a time:    *)
(* writer names the request that holds one open across two steps, and a    *)
(* transaction that begins and commits in one step waits for writer=None.  *)
(*                                                                         *)
(* NotPrepared, AbandonWithoutRollback and the like are faulty variants of *)
(* the definitions below them, see IdempotencyGuard.                       *)
(***************************************************************************)
EXTENDS UsageQuota

CONSTANTS
  Requests,       \* executions of an upload handler; also the lease ids
  Commands,       \* the uploads clients may send
  None,           \* SQL NULL, Python None
  Lease,          \* DEFAULT_LEASE                       5 minutes
  Tombstone,      \* RETENTION_DAYS.deletion_tombstone   30 days
  RawRetention,   \* RETENTION_DAYS.raw_artifacts        30 days
  HistoryRetention, \* RETENTION_DAYS.normalized_history 365 days
  AttemptRetention, \* ingest_attempt.RETENTION          30 days
  ChargeRetention,  \* of a usage charge                 2 days
  ReserveWithin,  \* bound: how old the time a handler read is when it reserves
  BatchSize,      \* RETENTION_BATCH_SIZE
  MaxTime         \* bound: the clock stops here

VARIABLES
  clock,      \* the server's wall clock
  claims,     \* ingest_requests and github_ingest_requests, by key
  runs,       \* runs with their scanner_artifacts, by run id
  charges,    \* ingest_usage_charges
  attempts,   \* ingest_attempts, by correlation id (one per request)
  hidden,     \* the projects with projects.hidden set
  requests,   \* the handler executions
  writer,     \* the request whose write transaction is open, or None
  deletion    \* a project or all-scans deletion between its read and its write

vars == <<clock, claims, runs, charges, attempts, hidden, requests, writer, deletion>>

RunIds == Requests \cup GithubKeys
Projects == {c.project : c \in Commands}
Accounts == {c.account : c \in Commands}
Principals == {c.principal : c \in Commands}
Payloads == {c.payload : c \in Commands}

CommandFields == {"origin", "key", "account", "principal", "project", "payload", "bytes", "size"}

(***************************************************************************)
(* A local key names the user, so the user is a function of the key; a     *)
(* GitHub key names the repository, whose owner may change.  Time bounds   *)
(* are positive.  Nothing else is assumed of the commands.  A charge is    *)
(* kept for longer than the windows it counts in, by as much as a handler  *)
(* may reserve late: two days against a day.                               *)
(***************************************************************************)
ASSUME IngestAssumption ==
  /\ None \notin Requests \cup Keys
  /\ Requests \cap GithubKeys = {}
  /\ LocalKeys \cap GithubKeys = {}
  /\ \A c \in Commands :
       /\ DOMAIN c = CommandFields
       /\ c.bytes \in Nat /\ c.size \in Nat
       /\ \/ c.origin = "local" /\ c.key \in LocalKeys
          \/ c.origin = "github" /\ c.key \in GithubKeys
  /\ \A c, d \in Commands : c.origin = "local" /\ c.key = d.key => c.account = d.account
  /\ \A c, d \in Commands : c.origin = "github" /\ c.key = d.key => c.principal = d.principal
  /\ {Lease, Hour, Day, Tombstone, RawRetention, HistoryRetention, AttemptRetention,
      ChargeRetention, BatchSize} \subseteq Nat \ {0}
  /\ ReserveWithin \in Nat
  /\ Hour + ReserveWithin < ChargeRetention
  /\ Day + ReserveWithin <= ChargeRetention
  /\ MaxTime \in Nat

-----------------------------------------------------------------------------
(***************************************************************************)
(* Absent rows, and the rows a handler writes.                             *)
(***************************************************************************)
NoClaim ==
  [state |-> "none", project |-> None, account |-> None, principal |-> None,
   payload |-> None, bytes |-> 0, run |-> None, lease |-> None,
   leaseExpires |-> 0, tombExpires |-> 0]

NoRun ==
  [stored |-> FALSE, origin |-> "none", key |-> None, project |-> None,
   account |-> None, payload |-> None, request |-> None, completedAt |-> 0,
   artifacts |-> FALSE, artifactsAt |-> 0, size |-> 0]

NoAttempt == [outcome |-> "none", run |-> None, expires |-> 0]

NoDeletion == [kind |-> "none", project |-> None, runs |-> {}, since |-> 0]

NewRequest ==
  [pc |-> "idle", cmd |-> None, now |-> 0, reserved |-> FALSE, granted |-> FALSE,
   outcome |-> "none", run |-> None]

(***************************************************************************)
(* The id of the run request r would store: random for a local scan,       *)
(* derived from the key for a GitHub run attempt.                          *)
(***************************************************************************)
RunIdOf(r) == IF requests[r].cmd.origin = "local" THEN r ELSE requests[r].cmd.key

RunRecord(r) ==
  LET cmd == requests[r].cmd
  IN  [stored |-> TRUE, origin |-> cmd.origin, key |-> cmd.key, project |-> cmd.project,
       account |-> cmd.account, payload |-> cmd.payload, request |-> r,
       completedAt |-> requests[r].now, artifacts |-> TRUE, artifactsAt |-> clock,
       size |-> cmd.size]

Attempt(r, outcome, run) ==
  [outcome |-> outcome, run |-> run, expires |-> requests[r].now + AttemptRetention]

Charge(r) ==
  LET cmd == requests[r].cmd
  IN  [request |-> r, origin |-> cmd.origin, principal |-> cmd.principal,
       account |-> cmd.account, bytes |-> cmd.bytes, at |-> requests[r].now]

Stored == {id \in RunIds : runs[id].stored}

(***************************************************************************)
(* What the row of r's key says to r, in the words of either origin.       *)
(***************************************************************************)
NoWork(r) ==
  LET cmd == requests[r].cmd
      row == claims[cmd.key]
  IN  /\ row.state # "none"
      /\ IF cmd.origin = "local" THEN LocalNoWork(row, cmd, requests[r].now)
                                 ELSE GithubNoWork(row, cmd, requests[r].now)

Decision(r) ==
  LET cmd == requests[r].cmd
      row == claims[cmd.key]
  IN  IF row.state = "none" THEN "free"
      ELSE IF cmd.origin = "local" THEN LocalExistingDecision(row, cmd, requests[r].now)
      ELSE GithubExistingDecision(row, cmd, requests[r].now)

QuotaAllows(r) ==
  LET cmd == requests[r].cmd
      t == requests[r].now
  IN  IF cmd.origin = "local"
      THEN LocalQuotaAllows(cmd, t, claims, charges, runs)
      ELSE GithubQuotaAllows(cmd, t, claims, charges)

Owns(r) == OwnedBy(claims[requests[r].cmd.key], requests[r].cmd, r)

GrantedRow(r) ==
  LET cmd == requests[r].cmd
      row == claims[cmd.key]
      expires == requests[r].now + Lease
  IN  IF row.state = "none" THEN NewRow(cmd, None, r, expires)
      ELSE IF cmd.origin = "local" THEN LocalTakeOver(row, cmd, None, r, expires)
      ELSE GithubTakeOver(row, cmd, None, r, expires)

(***************************************************************************)
(* Move request r on, and write one of its fields.                         *)
(***************************************************************************)
Goto(r, pc) == requests' = [requests EXCEPT ![r].pc = pc]

Finish(r, outcome) ==
  requests' = [requests EXCEPT ![r] = [@ EXCEPT !.pc = "done", !.outcome = outcome]]

-----------------------------------------------------------------------------
Init ==
  /\ clock = 0
  /\ claims = [k \in Keys |-> NoClaim]
  /\ runs = [id \in RunIds |-> NoRun]
  /\ charges = {}
  /\ attempts = [r \in Requests |-> NoAttempt]
  /\ hidden = {}
  /\ requests = [r \in Requests |-> NewRequest]
  /\ writer = None
  /\ deletion = NoDeletion

(***************************************************************************)
(* A bundle arrives.  The handler reads the clock once, for the whole      *)
(* request, and resolves the project; a hidden project answers 404.        *)
(***************************************************************************)
Receive(r, cmd) ==
  LET found == cmd.project \notin hidden
  IN  /\ requests[r].pc = "idle"
      /\ requests' = [requests EXCEPT ![r] = [@ EXCEPT
           !.cmd = cmd,
           !.now = clock,
           !.pc = IF found THEN "reserve" ELSE "done",
           !.outcome = IF found THEN "none" ELSE "not_found"]]
      /\ UNCHANGED <<clock, claims, runs, charges, attempts, hidden, writer, deletion>>

(***************************************************************************)
(* reserve: BEGIN IMMEDIATE, then either the key's row says that no work   *)
(* starts, or the limits admit the upload and its charge is staged; both   *)
(* leave the transaction open.  Or a limit is violated: rollback.          *)
(***************************************************************************)
ReserveNoWork(r) ==
  /\ requests[r].pc = "reserve"
  /\ writer = None
  /\ NoWork(r)
  /\ writer' = r
  /\ Goto(r, "acquire")
  /\ UNCHANGED <<clock, claims, runs, charges, attempts, hidden, deletion>>

ReserveCharge(r) ==
  /\ requests[r].pc = "reserve"
  /\ writer = None
  /\ ~NoWork(r)
  /\ QuotaAllows(r)
  /\ writer' = r
  /\ requests' = [requests EXCEPT ![r] = [@ EXCEPT !.pc = "acquire", !.reserved = TRUE]]
  /\ UNCHANGED <<clock, claims, runs, charges, attempts, hidden, deletion>>

ReserveRefuse(r) ==
  /\ requests[r].pc = "reserve"
  /\ writer = None
  /\ ~NoWork(r)
  /\ ~QuotaAllows(r)
  /\ requests' = [requests EXCEPT ![r] = [@ EXCEPT !.pc = "record", !.outcome = "quota"]]
  /\ UNCHANGED <<clock, claims, runs, charges, attempts, hidden, writer, deletion>>

(***************************************************************************)
(* acquire: in the same transaction, insert the row or take it over and    *)
(* commit it with the staged charge; or roll back and answer from the row. *)
(***************************************************************************)
AcquireGrant(r) ==
  /\ requests[r].pc = "acquire"
  /\ writer = r
  /\ Decision(r) = "free"
  /\ claims' = [claims EXCEPT ![requests[r].cmd.key] = GrantedRow(r)]
  /\ charges' = IF requests[r].reserved THEN charges \cup {Charge(r)} ELSE charges
  /\ writer' = None
  /\ requests' = [requests EXCEPT ![r] = [@ EXCEPT !.pc = "persist", !.granted = TRUE]]
  /\ UNCHANGED <<clock, runs, attempts, hidden, deletion>>

AcquireDecline(r) ==
  /\ requests[r].pc = "acquire"
  /\ writer = r
  /\ Decision(r) # "free"
  /\ writer' = None
  /\ requests' = [requests EXCEPT ![r] = [@ EXCEPT
       !.pc = "record",
       !.outcome = Decision(r),
       !.run = IF Decision(r) = "replayed" THEN claims[requests[r].cmd.key].run ELSE None]]
  /\ UNCHANGED <<clock, claims, runs, charges, attempts, hidden, deletion>>

(***************************************************************************)
(* ingest_result_bundle: one transaction stores the run with its children, *)
(* completes the claim under its fence and stages the accepted attempt.    *)
(***************************************************************************)
Storable(r) ==
  /\ requests[r].pc = "persist"
  /\ writer = None
  /\ ~runs[RunIdOf(r)].stored
  /\ Owns(r)
  /\ attempts[r].outcome = "none"

StoreRun(r) ==
  LET key == requests[r].cmd.key
      id == RunIdOf(r)
  IN  /\ runs' = [runs EXCEPT ![id] = RunRecord(r)]
      /\ claims' = [claims EXCEPT ![key] = CompletedRow(claims[key], None, id)]
      /\ attempts' = [attempts EXCEPT ![r] = Attempt(r, "accepted", id)]

PersistCommit(r) ==
  /\ Storable(r)
  /\ StoreRun(r)
  /\ requests' = [requests EXCEPT ![r] = [@ EXCEPT !.pc = "done", !.outcome = "created",
                                                    !.run = RunIdOf(r)]]
  /\ UNCHANGED <<clock, charges, hidden, writer, deletion>>

(***************************************************************************)
(* The commit is durable but the awaiting task is cancelled: the handler   *)
(* sees an exception and enters its except branch.                         *)
(***************************************************************************)
PersistUnacknowledged(r) ==
  /\ Storable(r)
  /\ StoreRun(r)
  /\ Goto(r, "cleanup")
  /\ UNCHANGED <<clock, charges, hidden, writer, deletion>>

(***************************************************************************)
(* The run id is taken, the fence is lost, or anything else raises: the    *)
(* transaction is rolled back and nothing of it remains.                   *)
(***************************************************************************)
PersistFails(r) ==
  /\ requests[r].pc = "persist"
  /\ Goto(r, "cleanup")
  /\ UNCHANGED <<clock, claims, runs, charges, attempts, hidden, writer, deletion>>

(***************************************************************************)
(* The except branch: release the claim if it is still this worker's, then *)
(* record the failure, each in a transaction of its own whose error is     *)
(* swallowed; then the exception goes on to the client.                    *)
(***************************************************************************)
CleanupFail(r) ==
  LET key == requests[r].cmd.key
  IN  /\ requests[r].pc = "cleanup"
      /\ writer = None
      /\ claims' = [claims EXCEPT ![key] = IF Owns(r) THEN FailedRow(@, None) ELSE @]
      /\ Goto(r, "record_failure")
      /\ UNCHANGED <<clock, runs, charges, attempts, hidden, writer, deletion>>

CleanupSwallowed(r) ==
  /\ requests[r].pc = "cleanup"
  /\ Goto(r, "record_failure")
  /\ UNCHANGED <<clock, claims, runs, charges, attempts, hidden, writer, deletion>>

RecordFailureOverwriting(r) ==
  /\ requests[r].pc = "record_failure"
  /\ writer = None
  /\ attempts' = [attempts EXCEPT ![r] = Attempt(r, "failed_internal", None)]
  /\ Finish(r, "error")
  /\ UNCHANGED <<clock, claims, runs, charges, hidden, writer, deletion>>

RecordFailure(r) ==
  /\ requests[r].pc = "record_failure"
  /\ writer = None
  /\ attempts[r].outcome = "none"
  /\ attempts' = [attempts EXCEPT ![r] = Attempt(r, "failed_internal", None)]
  /\ Finish(r, "error")
  /\ UNCHANGED <<clock, claims, runs, charges, hidden, writer, deletion>>

RecordFailureSwallowed(r) ==
  /\ requests[r].pc = "record_failure"
  /\ Finish(r, "error")
  /\ UNCHANGED <<clock, claims, runs, charges, attempts, hidden, writer, deletion>>

(***************************************************************************)
(* _record_attempt for an answer that stores nothing.  The attempt refers  *)
(* to the replayed run; if that run is gone by now, the foreign key fails  *)
(* and the client gets an error instead of the answer.                     *)
(***************************************************************************)
AttemptOutcome(outcome) ==
  IF outcome \in {"replayed", "in_progress"} THEN "replayed" ELSE "rejected"

Answerable(r) == requests[r].run \in {None} \cup Stored

RecordOutcome(r) ==
  /\ requests[r].pc = "record"
  /\ writer = None
  /\ attempts[r].outcome = "none"
  /\ Answerable(r)
  /\ attempts' = [attempts EXCEPT ![r] = Attempt(r, AttemptOutcome(requests[r].outcome),
                                                    requests[r].run)]
  /\ Goto(r, "done")
  /\ UNCHANGED <<clock, claims, runs, charges, hidden, writer, deletion>>

RecordDangling(r) ==
  /\ requests[r].pc = "record"
  /\ writer = None
  /\ ~Answerable(r)
  /\ Finish(r, "error")
  /\ UNCHANGED <<clock, claims, runs, charges, attempts, hidden, writer, deletion>>

(***************************************************************************)
(* An exception or a cancellation outside the try block: the session is    *)
(* closed, an open transaction is rolled back, and what an earlier one     *)
(* committed stays; a granted claim stays leased.                          *)
(***************************************************************************)
AbandonWithoutRollback(r) ==
  /\ requests[r].pc \in {"reserve", "acquire", "persist", "record"}
  /\ Finish(r, "error")
  /\ UNCHANGED <<clock, claims, runs, charges, attempts, hidden, writer, deletion>>

Abandon(r) ==
  /\ requests[r].pc \in {"reserve", "acquire", "persist", "record"}
  /\ Finish(r, "error")
  /\ writer' = IF writer = r THEN None ELSE writer
  /\ UNCHANGED <<clock, claims, runs, charges, attempts, hidden, deletion>>

(***************************************************************************)
(* The server process dies and is started again: every handler is gone and *)
(* SQLite rolls the open transaction back.                                 *)
(***************************************************************************)
Running(r) == requests[r].pc \notin {"idle", "done"}

Crash ==
  /\ (\E r \in Requests : Running(r)) \/ deletion # NoDeletion
  /\ requests' = [r \in Requests |->
                    IF Running(r) THEN [requests[r] EXCEPT !.pc = "done", !.outcome = "lost"]
                                  ELSE requests[r]]
  /\ writer' = None
  /\ deletion' = NoDeletion
  /\ UNCHANGED <<clock, claims, runs, charges, attempts, hidden>>

-----------------------------------------------------------------------------
(***************************************************************************)
(* Deletion.  prepare_runs_for_deletion turns the completed claims of the  *)
(* listed runs into tombstones; the DELETE that follows in the transaction *)
(* sets the run of the attempts that refer to a deleted run to NULL.       *)
(***************************************************************************)
NotPrepared(k, ids) == claims[k]

Prepared(k, ids) ==
  IF claims[k].state = "completed" /\ claims[k].run \in ids
  THEN TombstonedRow(claims[k], None, clock + Tombstone)
  ELSE claims[k]

Detached(r, ids) ==
  IF attempts[r].run \in ids THEN [attempts[r] EXCEPT !.run = None] ELSE attempts[r]

Remove(listed, ids) ==
  /\ claims' = [k \in Keys |-> Prepared(k, listed)]
  /\ runs' = [id \in RunIds |-> IF id \in ids THEN NoRun ELSE runs[id]]
  /\ attempts' = [r \in Requests |-> Detached(r, ids)]

DeleteScan(id) ==
  /\ writer = None
  /\ runs[id].stored
  /\ runs[id].project \notin hidden
  /\ Remove({id}, {id})
  /\ UNCHANGED <<clock, charges, hidden, requests, writer, deletion>>

(***************************************************************************)
(* delete_project and delete_all_scans first read the runs of the project, *)
(* outside any write transaction.                                          *)
(***************************************************************************)
StoredOf(project) == {id \in Stored : runs[id].project = project}

BeginDeletion(kind, project) ==
  /\ deletion = NoDeletion
  /\ project \notin hidden
  /\ deletion' = [kind |-> kind, project |-> project, runs |-> StoredOf(project),
                  since |-> clock]
  /\ UNCHANGED <<clock, claims, runs, charges, attempts, hidden, requests, writer>>

DeleteListedScans ==
  /\ writer = None
  /\ deletion.kind = "scans"
  /\ Remove(deletion.runs, deletion.runs)
  /\ deletion' = NoDeletion
  /\ UNCHANGED <<clock, charges, hidden, requests, writer>>

(***************************************************************************)
(* delete_project tombstones the runs it read and deletes the runs the     *)
(* project has now.  A run stored in between still has a completed claim,  *)
(* and the constraint completed => run_id NOT NULL aborts it all.          *)
(***************************************************************************)
NeverStranded(ids) == FALSE

Stranded(ids) == \E k \in Keys : /\ claims[k].state = "completed"
                                 /\ claims[k].run \in ids \ deletion.runs

DeleteProject ==
  LET ids == StoredOf(deletion.project)
  IN  /\ writer = None
      /\ deletion.kind = "project"
      /\ ~Stranded(ids)
      /\ Remove(deletion.runs, ids)
      /\ hidden' = hidden \cup {deletion.project}
      /\ deletion' = NoDeletion
      /\ UNCHANGED <<clock, charges, requests, writer>>

DeleteProjectAborts ==
  /\ writer = None
  /\ deletion.kind = "project"
  /\ Stranded(StoredOf(deletion.project))
  /\ deletion' = NoDeletion
  /\ UNCHANGED <<clock, claims, runs, charges, attempts, hidden, requests, writer>>

(***************************************************************************)
(* run_retention_cleanup, one transaction.  Each DELETE takes at most      *)
(* BatchSize rows; which ones, when there are more, is left open.          *)
(***************************************************************************)
Batches(S) == {B \in SUBSET S : Cardinality(B) = BatchSize \/ (B = S /\ Cardinality(S) < BatchSize)}

OldArtifacts ==
  {id \in Stored : runs[id].artifacts /\ runs[id].artifactsAt + RawRetention <= clock}

OldRuns(unpacked) ==
  {id \in Stored : /\ runs[id].completedAt + HistoryRetention <= clock
                   /\ ~runs[id].artifacts \/ id \in unpacked}

OldTombstones(keys) == {k \in keys : claims[k].state = "tombstoned" /\ claims[k].tombExpires <= clock}

OldAttemptsIgnoringExpiry == {r \in Requests : attempts[r].outcome # "none"}

OldAttempts == {r \in Requests : attempts[r].outcome # "none" /\ attempts[r].expires <= clock}

OldChargesIgnoringRetention == {c \in charges : c.at <= clock}

OldCharges == {c \in charges : c.at + ChargeRetention <= clock}

RetentionWrites(unpacked, expired, over, stale, spent) ==
  /\ runs' = [id \in RunIds |-> IF id \in expired THEN NoRun
                                ELSE IF id \in unpacked THEN [runs[id] EXCEPT !.artifacts = FALSE]
                                ELSE runs[id]]
  /\ claims' = [k \in Keys |-> IF k \in over THEN NoClaim ELSE Prepared(k, expired)]
  /\ attempts' = [r \in Requests |-> IF r \in stale THEN NoAttempt ELSE Detached(r, expired)]
  /\ charges' = charges \ spent

RetentionCleanup ==
  /\ writer = None
  /\ \E unpacked \in Batches(OldArtifacts) : \E expired \in Batches(OldRuns(unpacked)) :
     \E local \in Batches(OldTombstones(LocalKeys)), github \in Batches(OldTombstones(GithubKeys)),
        stale \in Batches(OldAttempts), spent \in Batches(OldCharges) :
       RetentionWrites(unpacked, expired, local \cup github, stale, spent)
  /\ UNCHANGED <<clock, hidden, requests, writer, deletion>>

(***************************************************************************)
(* Time passes.  A deletion request is assumed to end within the 30 days   *)
(* that the tombstones of the runs it read last, and a handler to reserve  *)
(* within the day that charges are kept beyond the windows they count in.  *)
(***************************************************************************)
Tick ==
  /\ clock < MaxTime
  /\ deletion = NoDeletion \/ clock + 1 < deletion.since + Tombstone
  /\ \A r \in Requests :
       requests[r].pc = "reserve" => clock + 1 <= requests[r].now + ReserveWithin
  /\ clock' = clock + 1
  /\ UNCHANGED <<claims, runs, charges, attempts, hidden, requests, writer, deletion>>

-----------------------------------------------------------------------------
(***************************************************************************)
(* A step of the handler of r after the request arrived.                   *)
(***************************************************************************)
Reserve(r) == ReserveNoWork(r) \/ ReserveCharge(r) \/ ReserveRefuse(r)
Acquire(r) == AcquireGrant(r) \/ AcquireDecline(r)
Persist(r) == PersistCommit(r) \/ PersistUnacknowledged(r) \/ PersistFails(r)
Cleanup(r) == CleanupFail(r) \/ CleanupSwallowed(r) \/ RecordFailure(r) \/ RecordFailureSwallowed(r)
Record(r) == RecordOutcome(r) \/ RecordDangling(r)

HandlerStep(r) == Reserve(r) \/ Acquire(r) \/ Persist(r) \/ Cleanup(r) \/ Record(r)

DeletionStep ==
  \/ \E id \in RunIds : DeleteScan(id)
  \/ \E p \in Projects : BeginDeletion("scans", p) \/ BeginDeletion("project", p)
  \/ DeleteListedScans
  \/ DeleteProject
  \/ DeleteProjectAborts

Next ==
  \/ \E r \in Requests : \/ \E cmd \in Commands : Receive(r, cmd)
                         \/ HandlerStep(r)
                         \/ Abandon(r)
  \/ Crash
  \/ DeletionStep
  \/ RetentionCleanup
  \/ Tick

Spec == Init /\ [][Next]_vars

(***************************************************************************)
(* The event loop runs every handler that can take a step.                 *)
(***************************************************************************)
Fairness == \A r \in Requests : WF_vars(HandlerStep(r))

-----------------------------------------------------------------------------
(***************************************************************************)
(* Types.                                                                  *)
(***************************************************************************)
ClaimRows ==
  [state : ClaimStates, project : Projects \cup {None}, account : Accounts \cup {None},
   principal : Principals \cup {None}, payload : Payloads \cup {None}, bytes : Nat,
   run : RunIds \cup {None}, lease : Requests \cup {None}, leaseExpires : Nat,
   tombExpires : Nat]

RunRows ==
  [stored : BOOLEAN, origin : {"none", "local", "github"}, key : Keys \cup {None},
   project : Projects \cup {None}, account : Accounts \cup {None},
   payload : Payloads \cup {None}, request : Requests \cup {None}, completedAt : Nat,
   artifacts : BOOLEAN, artifactsAt : Nat, size : Nat]

ChargeRows ==
  [request : Requests, origin : {"local", "github"}, principal : Principals,
   account : Accounts, bytes : Nat, at : Nat]

AttemptRows ==
  [outcome : {"none", "accepted", "replayed", "rejected", "failed_internal"},
   run : RunIds \cup {None}, expires : Nat]

RequestStates ==
  [pc : {"idle", "reserve", "acquire", "persist", "cleanup", "record_failure", "record", "done"},
   cmd : Commands \cup {None}, now : Nat, reserved : BOOLEAN, granted : BOOLEAN,
   outcome : {"none", "not_found", "quota", "replayed", "in_progress", "conflict",
              "tombstoned", "created", "error", "lost"},
   run : RunIds \cup {None}]

Deletions ==
  [kind : {"none", "scans", "project"}, project : Projects \cup {None},
   runs : SUBSET RunIds, since : Nat]

(***************************************************************************)
(* Every table and every handler variable keeps its type, a request that   *)
(* has arrived has a command, and a deletion under way has a project.      *)
(***************************************************************************)
TypeOK ==
  /\ clock \in Nat
  /\ claims \in [Keys -> ClaimRows]
  /\ runs \in [RunIds -> RunRows]
  /\ charges \subseteq ChargeRows
  /\ attempts \in [Requests -> AttemptRows]
  /\ hidden \subseteq Projects
  /\ requests \in [Requests -> RequestStates]
  /\ \A r \in Requests : requests[r].pc # "idle" => requests[r].cmd \in Commands
  /\ writer \in Requests \cup {None}
  /\ deletion \in Deletions
  /\ deletion.kind # "none" => deletion.project \in Projects

-----------------------------------------------------------------------------
(***************************************************************************)
(* The idempotency rows and the run table agree: a completed claim has its *)
(* run, a stored run has its completed claim.  Commits, releases, lease    *)
(* takeovers, crashes, scan and project deletions and retention all write  *)
(* one table or both, and none may leave them apart.                       *)
(***************************************************************************)
ClaimsAndRunsAgree ==
  /\ \A k \in Keys : claims[k].state = "completed" =>
       /\ claims[k].run \in RunIds
       /\ runs[claims[k].run].stored
       /\ runs[claims[k].run].key = k
  /\ \A id \in RunIds : runs[id].stored =>
       /\ runs[id].key \in Keys
       /\ claims[runs[id].key].state = "completed"
       /\ claims[runs[id].key].run = id

(***************************************************************************)
(* However often an upload is retried, and whatever becomes of its         *)
(* workers, at most one run is stored for its idempotency key.             *)
(***************************************************************************)
OneRunPerKey ==
  \A i, j \in RunIds : runs[i].stored /\ runs[j].stored /\ runs[i].key = runs[j].key => i = j

(***************************************************************************)
(* What a replay answers with is the upload it was asked for: the run of a *)
(* completed claim has the payload the claim is compared by, and for a     *)
(* GitHub key the project too, also after the key was reused.              *)
(***************************************************************************)
ClaimBindsRunContent ==
  \A k \in Keys : claims[k].state = "completed" =>
    /\ runs[claims[k].run].payload = claims[k].payload
    /\ k \in GithubKeys => runs[claims[k].run].project = claims[k].project

(***************************************************************************)
(* The uploads whose lease is live stay within every in-flight limit: per  *)
(* token, user, repository, for local uploads and for the instance.  The   *)
(* count, the decision and the new claim are made by handlers that decide  *)
(* at the time they read when the request arrived.                         *)
(***************************************************************************)
InflightWithinLimits ==
  /\ \A p \in Principals :
       /\ Cardinality(PrincipalInFlight(claims, LocalKeys, p, clock))
            <= LocalLimits.inflightPerPrincipal
       /\ Cardinality(PrincipalInFlight(claims, GithubKeys, p, clock))
            <= GithubLimits.inflightPerPrincipal
  /\ \A a \in Accounts : Cardinality(AccountInFlight(claims, LocalKeys, a, clock))
                           <= LocalLimits.inflightPerAccount
  /\ Cardinality(InFlight(claims, LocalKeys, clock)) <= LocalLimits.inflightPerOrigin
  /\ Cardinality(InFlight(claims, Keys, clock)) <= SharedInflight

(***************************************************************************)
(* In no hour does a token or repository start more uploads than its       *)
(* hourly limit, and on no day does a user or owner start more uploads or  *)
(* bytes than the daily limits, in whatever order the handlers that read   *)
(* the clock come to reserve.  What is counted is every grant there ever   *)
(* was, so retention may not purge a charge that still counts.             *)
(***************************************************************************)
Grants == {Charge(r) : r \in {q \in Requests : requests[q].granted}}

ChargesOf(origin, S) == {c \in S : c.origin = origin}

GrantsBy(p, t) == {c \in Grants : c.principal = p /\ t - Hour <= c.at /\ c.at <= t}

HourlyUploads ==
  \A p \in Principals, t \in 0 .. clock :
    /\ Cardinality(ChargesOf("local", GrantsBy(p, t))) <= LocalLimits.uploadsPerHour
    /\ Cardinality(ChargesOf("github", GrantsBy(p, t))) <= GithubLimits.uploadsPerHour

GrantsOn(d, a) == {c \in Grants : c.account = a /\ DayStart(c.at) = DayStart(d)}

DailyUploads ==
  \A a \in Accounts, d \in 0 .. clock :
    /\ Cardinality(ChargesOf("local", GrantsOn(d, a))) <= LocalLimits.uploadsPerDay
    /\ Cardinality(ChargesOf("github", GrantsOn(d, a))) <= GithubLimits.uploadsPerDay

DailyBytes ==
  \A a \in Accounts, d \in 0 .. clock :
    /\ ChargedBytes(ChargesOf("local", GrantsOn(d, a))) <= LocalLimits.bytesPerDay
    /\ ChargedBytes(ChargesOf("github", GrantsOn(d, a))) <= GithubLimits.bytesPerDay

RatesWithinLimits == HourlyUploads /\ DailyUploads /\ DailyBytes

(***************************************************************************)
(* A request is charged if and only if it was granted a claim: retries of  *)
(* failed or stale work are, replays, duplicates, conflicts and refusals   *)
(* are not, and neither is a handler that stopped between the charge and   *)
(* the claim.                                                              *)
(***************************************************************************)
ChargesMatchGrants ==
  \A r \in Requests :
    LET charged == \E c \in charges : c.request = r
    IN  /\ charged => requests[r].granted
        /\ requests[r].granted /\ clock < requests[r].now + ChargeRetention => charged

(***************************************************************************)
(* While attempts are kept, each stored run has the accepted attempt of    *)
(* the request that stored it, and no failure is on record for it, not     *)
(* even when the handler never saw its own commit.                         *)
(***************************************************************************)
AttemptsMatchRuns ==
  /\ \A id \in RunIds : runs[id].stored =>
       \/ clock >= runs[id].completedAt + AttemptRetention
       \/ /\ attempts[runs[id].request].outcome = "accepted"
          /\ attempts[runs[id].request].run = id
  /\ \A r \in Requests : attempts[r].run # None => runs[attempts[r].run].stored

-----------------------------------------------------------------------------
(***************************************************************************)
(* Whoever deletes a run, and whenever, leaves a tombstone on its key that *)
(* lasts Tombstone from that moment.                                       *)
(***************************************************************************)
DeletionLeavesTombstone ==
  [][\A id \in RunIds : runs[id].stored /\ ~runs'[id].stored =>
       LET row == claims'[runs[id].key]
       IN  row.state = "tombstoned" /\ row.tombExpires = clock + Tombstone]_vars

(***************************************************************************)
(* Until it expires a tombstone stays as it is, also for a request that    *)
(* read the clock long ago, and whatever else happens to the row.          *)
(***************************************************************************)
TombstoneHolds ==
  [][\A k \in Keys : claims[k].state = "tombstoned" /\ claims[k].tombExpires > clock =>
       claims'[k] = claims[k]]_vars

(***************************************************************************)
(* A claim in progress is completed or released only by the request that   *)
(* holds its lease: a worker whose claim was taken over changes nothing.   *)
(***************************************************************************)
OnlyLeaseholderFinishes ==
  [][\A k \in Keys : claims[k].state = "processing" /\ claims'[k].state # "processing" =>
       LET r == claims[k].lease
       IN  /\ requests[r].pc \in {"persist", "cleanup"}
           /\ requests'[r].pc # requests[r].pc
           /\ claims'[k].state = "completed" => runs'[claims'[k].run].request = r]_vars

(***************************************************************************)
(* Every handler that starts comes to an end: no request waits for ever    *)
(* for the write transaction of another.                                   *)
(***************************************************************************)
EveryRequestFinishes ==
  \A r \in Requests : Running(r) ~> (requests[r].pc = "done")

(***************************************************************************)
(* The service implements AcceptOnce: its stored runs are the accepted     *)
(* ones, its tombstones the quarantines, and the run that a handler names  *)
(* in its answer is what its client is told.  The content that a retry is  *)
(* held against is the payload, for a GitHub upload with its project.      *)
(***************************************************************************)
Content(upload) ==
  IF upload.origin = "local" THEN <<upload.payload>> ELSE <<upload.project, upload.payload>>

Asked == {[client |-> r, key |-> requests[r].cmd.key, content |-> Content(requests[r].cmd)] :
            r \in {q \in Requests : requests[q].pc # "idle"}}

Answers == {[client |-> r, run |-> requests[r].run] : r \in {q \in Requests : requests[q].run # None}}

Accepted == {[id |-> id, key |-> runs[id].key, content |-> Content(runs[id])] : id \in Stored}

Blocked == [k \in Keys |-> IF claims[k].state = "tombstoned" THEN claims[k].tombExpires ELSE 0]

Abstract == INSTANCE AcceptOnce
              WITH Clients <- Requests, Contents <- {Content(cmd) : cmd \in Commands},
                   Quarantine <- Tombstone, asked <- Asked, answers <- Answers,
                   accepted <- Accepted, blocked <- Blocked

AcceptsOnce == Abstract!Spec

-----------------------------------------------------------------------------
(***************************************************************************)
(* Statements of the documentation that the code does not keep; each is    *)
(* checked by a run that finds it violated.                                *)
(***************************************************************************)

(***************************************************************************)
(* "... a content-free tombstone rejects key reuse for 30 days": after     *)
(* that a key may be reused.  A request that was granted the claim holds   *)
(* it, so that it can complete or release it.                              *)
(***************************************************************************)
GrantedLeaseIsHeld ==
  [][\A r \in Requests : requests[r].pc = "acquire" /\ requests'[r].pc = "persist" =>
       Owns(r)']_vars

(***************************************************************************)
(* "Run/project deletion hides immediately and purges payload/normalized   *)
(* content within 24 hours": no run is left in a deleted project a day     *)
(* after it was stored there.                                              *)
(***************************************************************************)
DeletedProjectIsPurged ==
  \A id \in RunIds : runs[id].stored /\ runs[id].project \in hidden =>
    clock <= runs[id].artifactsAt + Day
=============================================================================
