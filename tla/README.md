# Assurance Scan: specifications, model checking and proofs

Assurance Scan is a self-hosted server that collects scan results: developers
upload bundles with a local command line tool, GitHub Actions jobs upload them
with an OIDC identity, scans can also run on the server, and all results are
stored as runs of a project, one SQLite database behind one asyncio process.
Projects and who may see them follow the GitHub App installations. This
directory holds TLA+ specifications of its core logic, TLC instances that check
them, and TLAPS proofs. Paths below are relative to `src/backend/app/`.

- [1. Inventory](#1-inventory)
- [2. Modules and their code](#2-modules-and-their-code)
- [3. Properties and runs](#3-properties-and-runs)
- [4. Bounds and fairness](#4-bounds-and-fairness)
- [5. Proofs](#5-proofs)
- [6. Where documentation and code differ](#6-where-documentation-and-code-differ)
- [7. What is not modelled](#7-what-is-not-modelled)
- [8. Plan](#8-plan)

## 1. Inventory

| Component | State | Operations | What makes it hard | What makes it correct |
|---|---|---|---|---|
| Idempotency guard (`repositories/ingest_requests.py`, `github_ingest_requests.py`, `idempotency_guard/`) | one row per key: processing, completed, failed, tombstoned; lease; tombstone expiry | acquire, complete, fail, tombstone (heartbeat, purge: unused) | racing uploads of one key, leases that run out under a worker, keys reused with other content | one run per key; only the leaseholder finishes; tombstones hold |
| Usage quota (`ingest_usage.py`, `github_ingest_usage.py`, `ingest_quota_lock.py`, `usage_quota/`) | charges; counts over claims, charges and runs | reserve, release | the decision and the claim are two calls in one transaction; the clock is read long before | limits hold; charged exactly when granted |
| Upload workflows (`workflows/local_scan_ingest`, `github_oidc_ingest`, `result_ingest`, `result_persister`, `ingest_attempt`) | handler executions, attempts, runs | the handler of an upload, with its except branches | cancellation after a durable commit, swallowed cleanup errors, crashes between transactions | claims, runs and attempts agree; every handler ends |
| Deletion and retention (`routes/scans.py`, `routes/projects.py`, `db/retention.py`) | runs, artifacts, tombstones, hidden projects | delete scan, delete all scans, delete project, cleanup | reads made before the write transaction; uploads in flight | deletions leave tombstones; deleted content is purged |
| GitHub webhooks and reconciliation (`github_webhook_worker.py`, `github_webhooks.py`, `github_reconciliation.py`, `github_reconciliation_scheduler.py`, `routes/github_app_setup.py`) | deliveries with leases and retries; installations, repositories with their ETag, projects | receive, lease, renew, complete, retry; read the cache, fetch, project a listing, suspend, deactivate | network calls between lease and write; several refreshes at once that commit out of order; workers that die | rows converge to what GitHub has; an older listing never replaces a newer one; a delivery is processed only after its effect is in the rows |
| Local outbox and upload client (`local_cli/outbox_storage`, `upload_client`, `workflows/local_scan_execution`) | request directories, records, lock files; posts on the wire | save, load, update, mark uploaded, prune; post, recover status | crashes between file operations, pruning against uploading, locks on unlinked files, lost and late messages | a bundle is kept whole until the server has it; a receipt proves the upload |
| Scan queue, orchestrator, event bus (`worker/`, `events/`, `routes/stream.py`) | pending scans, runs, scanner runs, findings, event buffers, subscriber queues | enqueue, consume, run, cancel, delete, stop; publish, subscribe, stream | a scan that starts before its row is committed, cancelled or deleted under the worker, a session that breaks, a replay beside publishing | what is streamed is committed; a completed run is whole; no event is lost or doubled; a stream ends |
| Scan tokens (`api_tokens.py`, `access/scan_token`) | tokens | create, verify, revoke | counting before inserting | active limit; a revoked token stays revoked |
| Sessions and sign-in (`identity_sessions.py`, `github_signin.py`, `github_installation_states.py`) | sessions, sign-in transactions | create, touch, revoke, consume | expiry against use | no use after expiry; single use |
| Memberships and credentials (`github_memberships.py`, `project_access.py`, `github_user_credentials.py`) | memberships with their verification time, tokens | refresh, expire, grant access | a snapshot fetched before a revocation and written after it | revoked access ends within the lifetime of a membership |
| GitHub Actions authentication (`github_oidc.py`, `github_actions_ingest_auth.py`, `github_upload_authorization.py`, `github_oidc_replays.py`) | cached keys, rows of the repository, used token digests | fetch keys, authenticate, load, ask GitHub, confirm, consume | key rotation, renames and transfers between the steps, the same token twice, restarts | a token authorizes once, on GitHub's own answer, with recent keys; a name is not dated later than GitHub had it |
| Failure limiter (`access/auth_failure_limiter`) | bounded tables of failure times | record a failure | eviction at the bound | the limit of a source |
| SQLite cutover (`operations/sqlite_cutover`) | database files, the log of the service, backups with manifests | back up, verify, restore with checks, renames and a back-out | kills and failures between the renames, a service started and killed after the evidence of its stop | no confirmed commit is lost; no database meets the log of another |
| Evidence (`evidence/state_compute.py`, `state/matcher.py`, `state/resolver.py`) | test results and states of requirements by run | evaluate tests, revise results, climb the ladder of states | results revised twice, dependencies in one pass | a pass is shown by evidence; an accepted risk stays visible; dependencies hold |
| Setup state, scan production, compliance, Notion, MCP tools, configuration, migrations, frontend | | | mostly sequential transformations of data | |

How the parts meet. GitHub tells the server of changes by webhooks; the worker,
the repair loop and the setup page bring them into the rows of installations,
repositories and projects, which decide who sees a project and which job may
upload to it. An authenticated upload goes to the upload service, the local
client's as well as a job's. Scans on the server write runs beside those of
uploads, and their findings feed the states of requirements. A handler of an upload resolves its project, calls the
quota (which opens the write transaction of SQLite), the guard (which commits
or rolls it back), the persister (a second transaction: run, completed claim,
attempt) and, on failure, the guard and the attempt repository again (one
transaction each). Deletion routes and the retention task work on the same
tables in transactions of their own. Between two transactions of one actor any
other may run, and the process may stop.

## 2. Modules and their code

| Module | Models |
|---|---|
| `IdempotencyGuard` | the decision on one row and the rows that transitions write, for both tables |
| `UsageQuota` | the snapshot queries and the decision of both origins, as operators on the tables |
| `IngestService` | the upload service: both workflows, deletions, retention, crashes, time |
| `AcceptOnce` | the abstract promise of the upload service: one run per key, answers that name it, quarantine after a deletion |
| `WebhookQueue` | one delivery: which is due, what a lease, a renewal, a completion and a retry write |
| `WorkQueue` | the abstract promise of the delivery queue: only the worker last given a delivery ends it |
| `InstallationSync` | GitHub, the webhook worker, the repair loop, the setup page and the membership refresh over the rows of one installation |
| `LocalOutbox` | the outbox directories of a machine, the commands that work on them, the upload client and the wire |
| `ScanWorker` | scans on the server: requests, queue, orchestrator, event bus, streams |
| `EventFeed` | the abstract promise of a scan's event stream: one protocol, read in order to its end |
| `EvidenceStates` | the evaluation of a run's tests and requirements |
| `ActionsAuthentication` | the authentication of a GitHub Actions upload against keys, rows and GitHub |
| `SqliteCutover` | backup and restore of the database file beside a service that starts, stops and dies |
| `MC...` | the instances for TLC |
| `...Proofs` | theorems and proofs |

### The upload service

`IngestService` has one variable per table (`claims`, `runs`, `charges`,
`attempts`, `hidden`), the handler executions (`requests`), the holder of an
open write transaction (`writer`), a deletion between its read and its write
(`deletion`) and the server's `clock`.

A request is one execution of `ingest_local_scan` or `ingest_github_result`.
Its `pc` names the next database transaction:

| `pc` | Actions | Code |
|---|---|---|
| `idle` | `Receive` | reads the clock once, resolves the project; hidden answers 404 |
| `reserve` | `ReserveNoWork`, `ReserveCharge`, `ReserveRefuse` | `reserve`: BEGIN IMMEDIATE; no work or a staged charge leaves the transaction open, a refusal rolls back |
| `acquire` | `AcquireGrant`, `AcquireDecline` | `acquire`: commits row and charge, or rolls back and answers |
| `persist` | `PersistCommit`, `PersistUnacknowledged`, `PersistFails` | `ingest_result_bundle`: one transaction; its commit may be durable although the handler sees an exception |
| `cleanup`, `record_failure` | `CleanupFail`, `CleanupSwallowed`, `RecordFailure`, `RecordFailureSwallowed` | the except branch, each part with its swallowed error |
| `record` | `RecordOutcome`, `RecordDangling` | the attempt of an answer that stores nothing; it refers to the replayed run by a foreign key |
| any | `Abandon`, `Crash` | an exception or cancellation outside the try block; the process stops |

The two workflows have the same control flow and share the actions; where they
differ the operators of `IdempotencyGuard` and `UsageQuota` differ: what a
binding is, which columns a takeover writes, how limits are counted, and which
run id is stored (random, or derived from the GitHub key). `Storable` collects
what makes the persisting transaction succeed: the fence (`OwnedBy`), the
unused run id, the unused correlation id.

Time is the server's wall clock in ticks. A handler decides with the clock it
read on arrival (`requests[r].now`), as the code passes one `timestamp` down;
deletions, retention and the age of artifacts use the current clock. Charges are
kept for two days, twice the longest window they count in; `ReserveWithin` says
how old a handler's time may be when it reserves, at most the day that is left.

The database's constraints are part of the model where a handler depends on
them: the foreign key of an attempt (`RecordDangling`, `Detached`) and
`completed => run_id NOT NULL` (`Stranded`, which aborts a project deletion that
meets a run it did not list).

Abstractions. A payload is a model value, two bundles are equal if their hashes
are. Hourly and daily windows, retention times and limits are constants. The
first SELECT of a deletion is one step, its writing transaction another;
`delete_scan` reads and writes in one step. The children of a run appear as one
flag (`artifacts`) with a time and a size. A deletion is assumed to end within
the time its tombstones last, and one deletion of a project (or of all its
scans) is in flight at a time. PostgreSQL's row locks are not modelled; the
server runs on SQLite.

### Webhooks, reconciliation and memberships

`WebhookQueue` holds the pure part: the order in which deliveries are due, the
fence (`HoldsLease`, `HasToken`), and the rows that the transitions write; a
retry after `attempt_count` attempts waits `min(maximum, initial * 2^(n-1))` or
fails the delivery. `InstallationSync` composes it with

- **GitHub**: the installation (active, suspended, deleted), its repositories
  and a user's grants. Each change may announce a webhook; deliveries may be
  missed, which is what the repair loop is for.
- **the rows** of the installation (`status`, `verified`, `etag`), its
  repository rows, the visibility of their projects, and memberships.
- **jobs**: executions of the webhook worker, the repair loop, the setup page
  and the membership refresh, any mix of them at once. A `pc` stands before each
  database transaction or call to GitHub: `lease`, read the ETag, read the cached
  rows, describe the installation, list page by page, `Guard` (the renewal that
  checks the lease), project, complete or retry.

`at` is the time a job took before its first call; `IsStale` compares it with
the row's `verified` time, in the transaction that projects. A lease
runs out by the passing of time, and a job that dies (`Crash`) leaves its lease
to run out. `ListRepositories` answers a page at a time or with "not modified"
when the ETag still describes the repositories at GitHub. `ETag` is a value
that equals another exactly when the listings are equal, as a strong validator
is.

`ReplaceForUser` writes memberships with the time of the refresh; `MayAccess` is
the clause every route filters by: the membership was verified recently, the
project is not hidden.

### The local outbox

A directory per request with artifacts, `record.json` and `.lock`. A command is
a process: it prunes, then saves a new bundle or loads a saved one, posts it,
and marks or keeps it. A step is one operation on the file system that another
process can see. `fd` is the inode a command has locked: `prune` unlinks the
lock file while it holds it, and a command that opens the path afterwards locks
another file. `rmtree` removes the names it has read, one at a time, and raises
when one is gone. The wire keeps posts that the client has given up on; the
server stores them later or drops them. `MaxAttempts` limits the posts of a
command; an answer may be lost at any of them.

The owner and mode checks, redirects and the delays between attempts are left
out. Artifacts are written in any order, where the code sorts their names.

### Scans on the server

`requests`, `pending` and `job` are `start_scan`, `ScanQueue` and the
orchestrator; `runs`, `results` and `found` the tables; `events` and `streams`
the bus and its subscribers. `StartScan` puts the scan into the queue,
`CommitRun` commits its row afterwards, and `Take` does not look at the row. A
flush that fails breaks the session of the orchestrator, so that the handler
which would record the failure fails too (`SessionBreaks`): the run stays as it
was last committed and nothing is published. `Restart` is a stop or a crash.

A scanner ends as completed or failed (`FinishScanner`), and a failure may keep
what was stored before it: the report of a failing suite, or findings before the
step that failed. Its own `except` branch updates a row and commits, so it
raises as well: `Raise` fails the run from any step with a statement in it,
and `FailRun` may commit what the session had left of the scanner that was
raised out of. The last kind is `project-tests`, which has no findings but a
report, and is passed over without event or row when the project has no suites
(`SkipProjectTests`). `found` is what is stored, findings or report.
`broken` and `detached` remember such runs for the properties.

The 1000 events that are kept of a run and the 512 slots of a subscriber's queue
are not reached by one run: it publishes two events and two per scanner.
`ScanAssumption` says so, and `Offered` would drop an event at a full queue.

### Evidence

`Init` chooses what a scan may have left: completed scanners, findings,
test reports, acceptances, waivers. A step evaluates one requirement, in the
order of their ids: `EvaluateTest`, then the two revisions of the results (`Ran`,
`Accepted`), then the ladder (`EvaluateFr`). Results are kept by test id, as in
the code: a test without an id is skipped, of several tests with one id the last
evaluation stays and each of them may revise it. A rule pattern and a severity
floor are the set of rules that count against a test.

### GitHub Actions authentication

A request goes through `keys`, `load`, `ask`, `confirm`, `consume`; between two
of them GitHub renames or transfers the repository or replaces its signing key,
refreshes rewrite the row, the project is deleted or rebound, and the server
restarts. A request uses the clock it read at its start in every step, as the
route passes one `now` down.

`scope` is what the row of the repository, its installation and its project say.
A refresh takes its time, reads the ETag (`ReadETag`) and then the row
(`ReadRow`), and asks GitHub, which lists in full (`ListFully`) or answers 304
if the listing of that ETag still holds (`ListNotModified`); then it writes what
was listed, or the row it had read, with its own time (`WriteRefresh`), unless a
later refresh was there first (`Superseded`). `Confirm` changes the name and
leaves the ETag. `InstallationSync` has the same refreshes with leases,
memberships and all rows; here they are followed for what they make of the name.
`restamped` is history: the row was last written by a refresh that was answered
with 304 and had read another name than the one in the ETag's listing. `Rebind`
is external, the operator's rebind that
`docs/plans/shared/identity-and-visibility.md:17` describes. Cryptography and the shape of claims are left out:
a token is the record of what it says.

### SQLite cutover

A file is the set of commits it holds, and its digest is its content. The
service commits to the log beside `target`; `Checkpoint` and a clean `Stop` move
the log into the file, `Kill` leaves it, and `Start` replays what it finds, which
ruins a file that the log does not extend. `CopySource` ... `WriteManifest` take
a backup: the file is read as immutable, so that commits still in the log are
not in it. `Plan` ... `RecheckSidecars` are the checks of a restore in their
order, each a look at the disk, `MoveAside` and `Swap` the two renames,
`Raise`, `SetAside` and `Reinstate` the `except` branch, and `RestoreEnds` every
way out before the first rename as well as a kill at any step. Recovery names
hold a time and a digest; `Guard` chooses one that is not taken.

The model allows the service to be started, stopped and killed whenever it
likes, except between the last look at the log (`service.py:225`) and the end
of the swap: the tool asks for evidence that it is stopped and cannot do more. A
service started in that window writes a log for a file that is renamed under it.

### Faulty variants

Some definitions are faulty variants (`AbandonWithoutRollback`,
`LocalNoWorkIgnoringLease`, ...). No action uses them: each stands before the
definition it varies and states a plausible mistake, and putting it in that
definition's place makes a property fail. PROJECT.json (`mutants`) lists which
property fails on which; a property that no such mistake breaks would say
nothing about the code.

## 3. Properties and runs

| Run | Instance | Shows |
|---|---|---|
| `ingest` | two uploads; a local and a GitHub key, each sent with equal and different content (for GitHub also from another project); deletions, retention, crashes; time enough to store, delete, wait out the quarantine and store again | `ClaimsAndRunsAgree`, `ClaimBindsRunContent`, `ChargesMatchGrants`, `AttemptsMatchRuns`, `AcceptsOnce`, `DeletionLeavesTombstone`, `TombstoneHolds`, `OnlyLeaseholderFinishes` |
| `limits` | two uploads, two tokens of one user and a GitHub repository, all in-flight limits 1; local uploads meet the daily limit, GitHub ones the hourly one; charges and attempts that expire, charges one tick after the windows; fairness | `InflightWithinLimits`, `RatesWithinLimits`, `ChargesMatchGrants`, `AttemptsMatchRuns`, `EveryRequestFinishes` |
| `sync` | two jobs of any kind, two deliveries, a repository, a user, clock up to 5 | `ShownOnlyWhenInstalled`, `FullListingIsCurrent`, `ProcessedIsProjected`, `RevocationTakesEffect`, `ServesQueue` |
| `outbox` | two commands on one request with a required and an optional artifact | `TypeOK`, `SavedUntilStored`, `StoredWhole`, `ReceiptProvesUpload` |
| `scans` | one run with a scanner and the project tests, which may be absent, two streams; fairness | `EventsAreCommitted`, `CompletedRunIsWhole`, `StreamHasNoGap`, `ServesFeed`, `StreamEnds` |
| `evidence` | three requirements, every dependency shape of `Dependencies`, five lists of tests, one with an id twice, and every outcome of two scanners and a suite | `PassedIsShown`, `RefutedIsFailed`, `RiskIsVisible`, `DependenciesHold` |
| `access` | two uploads, a refresh, two tokens, names, owners and keys, three bindings, two changes by others | `TypeOK`, `TokenAuthorizesOnce`, `AuthorizedByGithub`, `MetadataWasTrueWhenVerified`, `KeysAreRecent`, `UnknownKeyWasLookedUp` |
| `cutover` | three commits, two backups, three recovery paths | `TypeOK`, `NoCommitIsLost`, `LogBelongsToTarget` |
| `key_reuse` | two uploads, one key, two payloads | violation of `GrantedLeaseIsHeld` |
| `deleted_project` | two uploads, one key | violation of `DeletedProjectIsPurged` |
| `dependency` | as `evidence` | violation of `BlockedByDependency` |
| `scanner_finds` | as `evidence`, one requirement wants a find | violation of `PassedFindsAreFound` |

What the properties say of the code. The upload service:

- `ClaimsAndRunsAgree`: a completed claim has its stored run and a stored run
  its completed claim. Four transactions in different modules keep this up: the
  persisting one, deletions, retention, and acquisitions that clear `run_id`.
  That at most one run is stored for a key (`OneRunPerKey`) follows from it.
- `ClaimBindsRunContent`: a replay answers with the content it was asked for,
  also after a key was reused. It needs `GithubTakeOver` to write all the
  columns the fence leaves unchecked. The project of a local key is not
  claimed: an expired local tombstone keeps its old project (section 6).
- `ChargesMatchGrants`: charged exactly when granted. The quota asks "is there
  work?" in code of its own (`_local_no_work`), the guard decides
  (`_existing_decision`); the property fails if the two drift apart.
- `AttemptsMatchRuns`: the audit trail agrees with what is stored, also when
  the handler saw an exception after its own commit. The unique correlation id
  makes the second insert fail.
- `InflightWithinLimits`, `RatesWithinLimits`: the limits hold although handlers
  decide with a clock they read earlier. Leases are counted at a time not after
  the present, which can only count too many; the charge windows have no upper
  end, so charges later than the handler's clock count too. The rates count
  every grant there ever was (`Grants`), so that a charge which retention purged
  too early would let the property fail.
- `DeletionLeavesTombstone`, `TombstoneHolds`: whoever removes a run, its key is
  quarantined from that moment for the full time.
- `OnlyLeaseholderFinishes`: a worker that lost its claim changes nothing.
- `EveryRequestFinishes`: no handler keeps the write transaction open for ever,
  not even one that is cancelled between the quota and the guard.
- `AcceptsOnce`: refinement of `AcceptOnce`, with the stored runs as what is
  accepted, the tombstones as quarantines and the run ids that handlers answer
  with as what clients are told. It relates deletions to later acceptances and
  answers to what was sent: a client is told only of a run that is stored at
  that moment for its key with its content, though it may never hear of a run
  whose commit was not acknowledged.

Webhooks, reconciliation and memberships:

- `ShownOnlyWhenInstalled`: whatever order refreshes, suspensions and deletions
  commit in, no project is visible whose repository is not installed and usable
  by the rows.
- `FullListingIsCurrent`: rows written from a listing that began after GitHub's
  last change are what GitHub has, and no slower job overwrites them.
- `ProcessedIsProjected`: a delivery counts as processed only if the rows come
  from a refresh that began after the delivery was received, even if its lease
  went through several workers.
- `RevocationTakesEffect`: a user who lost access at GitHub cannot see the
  project once the lifetime of a membership has passed, whatever refreshes
  overlapped with the revocation.
- `ServesQueue`: refinement of `WorkQueue`. A worker whose lease ran out may
  finish its calls and its projections, but only the worker that was last given
  the delivery settles, hands back or fails it; what is settled is never leased
  again; a delivery is handed back while attempts are left and failed only
  afterwards.

The local outbox:

- `SavedUntilStored`: no result is lost. A record and all its artifacts stay
  until the server has them, through crashes, lost answers, "processing"
  answers that come to nothing, and concurrent commands. Only a prune may set
  about removing it: what it has begun to remove (`doomed`) is exempt.
- `StoredWhole`: no interrupted save or mark leaves a part of a bundle that
  another command posts.
- `ReceiptProvesUpload`: a record says "uploaded" only if the server has the
  scan and no artifact of it is left.

Scans:

- `EventsAreCommitted`: an event that reports an end is true of the database
  when it is sent and stays true, except for cancelled runs and runs without a
  row.
- `CompletedRunIsWhole`: every scanner of a completed run has ended, but tests
  the project does not have; the run has the findings of those that completed
  and nothing of one that has not ended, whoever cancelled it and whatever
  failed.
- `StreamHasNoGap`: events reach a stream in order, each once, from wherever its
  client resumed.
- `ServesFeed`: refinement of `EventFeed`. The events of a run follow one
  protocol (started, each scanner announced and reported in turn, completed,
  perhaps without the project's tests, or failed at any time before that)
  through commit failures, exceptions within a scanner, broken sessions and cancellations, and each reader is
  given them one after the other until the end; events are lost only all
  together, with their readers, when the server stops.
- `StreamEnds`: a stream ends, unless the scan broke off or the server stopped.

Evidence: `PassedIsShown` (no pass without evidence: two revisions of a result
are checked against a definition of what the run shows, by which a test that
wants a scanner to find something needs a find; the case in which the code
passes it without one is named in the property and shown by `scanner_finds`; it
speaks of requirements whose tests have ids of their own), `RefutedIsFailed`,
`RiskIsVisible` (an accepted risk is "accepted" and not "passed"),
`DependenciesHold` (a dependency looked at once, in the order of ids, still
holds at the end).

Authentication:

- `TokenAuthorizesOnce`: of all requests with a token one at most is authorized.
- `AuthorizedByGithub`: GitHub itself said what the token says, at some time
  since the request began; the row never stands in for the answer. The
  repository is bound to the same project when the row is confirmed as when it
  was loaded, so that a rebind in between stops the upload.
- `MetadataWasTrueWhenVerified`: GitHub had the stored name at
  `repository_verified_at` or later, whoever wrote in between. It fails in one
  case, which the property exempts and section 6 describes: a refresh answered
  with 304 that restamps another name than its listing's.
- `KeysAreRecent`, `UnknownKeyWasLookedUp`: no token is accepted with keys older
  than an hour, and none refused for its key unless GitHub was asked within the
  last minute.

SQLite cutover:

- `NoCommitIsLost`: what the service confirmed is in the database, its log, a
  recovery copy or the copy set aside, through any number of restores that
  succeed, fail in the middle, are backed out or killed.
- `LogBelongsToTarget`: no restore leaves a database beside the log of another,
  which the next start would replay; a service that was started and killed
  after the evidence was taken leaves such a log.

## 4. Bounds and fairness

Every bound is a CONSTANT of its module and named in its header.

- `ingest`, `limits`: two executions suffice for a takeover, a replay
  and a conflict. Every time constant is small enough to be passed: leases and
  tombstones run out, artifacts and runs expire within `ingest`, charges and
  attempts within `limits`. `BatchSize` is 9, above the number of rows, so retention takes all that is due.
  `AmpleLocal`, `AmpleGithub` never refuse; `TightLocal`, `TightGithub` let two
  uploads collide. In `limits` charges live three ticks, with windows of one and
  handlers at most one late, as the assumption asks (in the code two days, a day
  and a day); `UploadsSpec` leaves out the deletion of a project or of all its
  scans, which touches nothing the limits count but retained artifacts and is
  in `ingest`.
- `sync`: a lease of 2, retries of 1 and 2, two attempts and a clock up to 5 let
  a lease run out under a worker, the delivery be taken by the other, fail and
  be retried, and a membership expire. One page holds one repository. A third
  job would add orders of the same pairs: every property relates two jobs, the
  one that wrote and the one that writes.
- `outbox`: two commands on one request: all conflicts are between commands on
  the same directory. `Retention` 0 makes a record of an earlier tick expire;
  two attempts are one retry. The quota only adds a reason to remove, which the
  retention has already.
- `scans`: with one run, the queue never holds two; scans run one after the
  other and share only the queue. Two streams resume at different events.
- `evidence`: three requirements give a chain, a cycle, a forward, a backward
  and a dangling dependency; two rules, one a prefix of the other.
- `access`: `MaxChanges` bounds what others do to two steps in a behaviour, the
  start of a refresh among them (a rename or rotation there and back, a change
  and a restart, or a change and a refresh). `PushSpec` begins with a repository
  as the first token has it and any name in the installation's ETag, so the
  state after a slow confirm needs no change of its own. One refresh is enough to meet
  a confirm; two that overlap are the subject of `sync`, and the theorem covers
  any number.
- `cutover`: three commits are one in a backup, one in the file and one in the
  log; three recovery paths let two restores follow each other and a third find
  its path taken; a second backup is made of a restored database.
- Symmetry is used where processes or requests are interchangeable, and in no
  run with a liveness property.
- Deadlock is checked except where a bound lets everything end: `sync` and
  `access` stop when the clock and the changes are used up, `evidence` when all
  requirements are evaluated.

Fairness. In `IngestService` a handler that can take a step takes one (weak
fairness of `HandlerStep`): the event loop runs every task that is ready, and
SQLite's writer lock is free again after each transaction. In `ScanWorker` the
queue's one task goes on (scanners and test suites have timeouts), a start
request ends, and a stream with an event to send sends it. Deletions, retention,
crashes, cancellations, restarts and the arrival of requests are never assumed
to happen.

## 5. Proofs

A theorem holds for every value of the constants that its module's assumption
allows, where a run shows its property on a small instance. Each module of
proofs follows one pattern: an inductive invariant, the lemmas
`Init => Inv` and `Inv /\ [Next]_vars => Inv'` with a step per action, and
theorems that read the property off the invariant. The invariants were checked
with TLC before they were proved.

| Module | Theorem | Statement |
|---|---|---|
| `IngestServiceProofs` | `TypeCorrect` | `Spec => []TypeOK` |
| | `ClaimsMatchRuns` | `Spec => []ClaimsAndRunsAgree` |
| | `StoresAtMostOnce` | `Spec => []OneRunPerKey` |
| | `TombstonesHold` | `Spec => TombstoneHolds` |
| | `DeletionsLeaveTombstones` | `Spec => DeletionLeavesTombstone` |
| | `LeaseholderFinishes` | `Spec => OnlyLeaseholderFinishes` |
| | `NoWorkExactlyWhenDeclined` | what the quota lets pass uncharged is what the guard declines |
| `IngestUsageProofs` | `ClaimsBindContent` | `Spec => []ClaimBindsRunContent` |
| | `ImplementsAcceptOnce` | `Spec => AcceptsOnce` |
| | `AttemptsAgree` | `Spec => []AttemptsMatchRuns` |
| | `ChargedWhenGranted` | `Spec => []ChargesMatchGrants` |
| | `InFlightStaysWithin` | `Spec => []InflightWithinLimits` |
| | `RatesStayWithin` | `Spec => []RatesWithinLimits` |
| `InstallationSyncProofs` | `TypeCorrect` | `Spec => []TypeOK` |
| | `ShownWhenInstalled` | `Spec => []ShownOnlyWhenInstalled` |
| | `ProcessedOnceProjected` | `Spec => []ProcessedIsProjected` |
| | `ListingsAreCurrent` | `Spec => []FullListingIsCurrent` |
| | `RevocationsTakeEffect` | `Spec => []RevocationTakesEffect` |
| | `ImplementsQueue` | `Spec => ServesQueue` |
| `LocalOutboxProofs` | `TypeCorrect` | `Spec => []TypeOK` |
| | `ResultsAreKept` | `Spec => []SavedUntilStored` |
| | `BundlesAreStoredWhole` | `Spec => []StoredWhole` |
| | `ReceiptsProveUploads` | `Spec => []ReceiptProvesUpload` |
| `ScanWorkerProofs` | `TypeCorrect` | `Spec => []TypeOK` |
| | `CompletedIsWhole` | `Spec => []CompletedRunIsWhole` |
| | `StreamsHaveNoGap` | `Spec => []StreamHasNoGap` |
| | `EventsTellTheTruth` | `Spec => []EventsAreCommitted` |
| | `ImplementsFeed` | `Spec => ServesFeed` |
| `EvidenceStatesProofs` | `TypeCorrect` | `Spec => []TypeOK` |
| | `OnlyTheShownPass` | `Spec => []PassedIsShown` |
| | `TheRefutedFail` | `Spec => []RefutedIsFailed` |
| | `AcceptedRiskShows` | `Spec => []RiskIsVisible` |
| | `DependenciesStayGood` | `Spec => []DependenciesHold` |
| `ActionsAuthenticationProofs` | `TypeCorrect` | `Spec => []TypeOK` |
| | `GithubVouches` | `Spec => []AuthorizedByGithub` |
| | `StoredNameWasTrue` | `Spec => []MetadataWasTrueWhenVerified` |
| | `AcceptedKeysAreRecent` | `Spec => []KeysAreRecent` |
| | `UnknownKeysAreLookedUp` | `Spec => []UnknownKeyWasLookedUp` |
| | `TokensAuthorizeOnce` | `Spec => []TokenAuthorizesOnce` |
| `SqliteCutoverProofs` | `TypeCorrect` | `Spec => []TypeOK` |
| | `CommitsAreKept` | `Spec => []NoCommitIsLost` |
| | `LogsStayWithTheirDatabase` | `Spec => []LogBelongsToTarget` |

**Upload service.** `IngestAssumption` says what keys are: local and GitHub
keys differ, ids are not `None`, a local key determines the user and a GitHub
key the repository (both are part of the key in the database's unique
constraints), and times are positive. `ClaimsAndRunsAgree` is not inductive
alone: a project deletion tombstones the runs it read earlier and then deletes
the runs it finds, so one has to know that a run it listed is either gone for
good or still that run. The inductive invariant is

    IInv == TypeOK /\ ClaimsAndRunsAgree /\ ArrivalsPast /\ DeletionTimely
            /\ RunIdsPlaced /\ ListedRunsStay

`RunIdsPlaced` says where a run id can be stored: a random id belongs to the
request that made it, a GitHub id to its key. `ListedRunsStay` and
`DeletionTimely` say that the key of a run listed by a deletion in flight cannot
hold another run before the deletion writes, because its tombstone outlives the
deletion. `ArrivalsPast` bounds the handlers' clocks by the current one: this is
what makes tombstones hold for handlers that read the clock long ago. `OneRunPerKey`
follows from the invariant, as two runs of a key would both be the `run` of its
one row; the action properties follow from the invariant by cases on `Next`.

**Refinement of `AcceptOnce`.** Each step is a step of `AcceptOnce` or a stutter:
`Receive` asks, `PersistCommit` and `PersistUnacknowledged` accept, with and
without an answer, `AcquireDecline` of a completed key is a replay, and
`DeleteScan`, `DeleteListedScans`, `DeleteProject` and `RetentionCleanup` are
deletions; an acquisition that replaces an expired tombstone is a deletion of
nothing that forgets one elapsed quarantine. Beside `IInv` this needs
`AnswerInv`: what the key of a completed claim binds is the content of its run
(`ClaimBindsRunContent`), so that a replay names a run with the content that was
sent (`ReplayedRun`); a run has the origin of its key (`OriginsPlaced`), by which
content is compared; and a handler names no run before it acquires
(`SilentEarly`), so that a client is told once.

**Records and limits of the upload service.** These theorems use `IInv` and add
what the limits are counted from; `QuotaAssumption` makes the limits natural
numbers. `LeasesPlaced` says that a leased GitHub row carries the project of the request
that holds the lease; the fence compares the content, so what is stored is what
was claimed. `AttemptsKept` says that a stored run has its accepted attempt until
that attempt may expire, which is counted from the same clock reading as the
completion of the run.
`WriterHolds` says that between reservation and acquisition the decision and the
limits still read as they did when the charge was staged: nobody else writes, as
the transaction is open. So at a grant the limits hold for the tables as they
are, seen at the handler's time, and a charge is written if and only if a claim
is granted. That time may lie in the past: a row whose lease is live now was live
then (`GrantGrows`), so the count then, which had room for one more, bounds the
count now. `RowsNamed` says that a row keeps the user or the repository of its key
when it is taken over, so that it is counted for the one who is limited, and
`RowsFinite` that there are finitely many. For the rates the invariant bounds
the windows of every moment (`HoursWithin`, `DaysWithin`), counting every grant
there was. `IngestAssumption` makes charges last longer than the windows by as
much as a handler may reserve late (`ReserveWithin`), so that each grant which
counts at the handler's time still has its charge when the handler decides, and
while its transaction is open nobody purges it (`CountedIsCharged`). The window
counted at a grant has no upper end and so holds every charge of any hour that
the new charge falls into, and every charge of its day. For the daily bytes,
`ChargedBytesCount` shows that the sum over a finite set of charges is the number
of their units (a charge and the numbers 1 to its bytes), so that the library's
facts about cardinality say what a subset and a further charge do to the sum. It
is proved by induction on the set, in the form the provers can follow: of the
sets for which it fails, the library's theorem on well-founded minima gives a
smallest one (`SmallestSubset`).

**Webhooks, reconciliation, memberships.** `SyncAssumption` and
`WebhookQueueAssumption` make times positive and `None` no row. `Past` says that
no time in a row or an execution lies after the clock; executions start at
distinct times, as the clock moves with each start. The rest are invariants of
what an execution knows at its step: `Served`, that a worker started after its
delivery was received and completes it only on rows that are at least as new
as its own start; `AllReadCurrent`, that an execution which started after
GitHub's last change has read what is there; `AllGrantsHeld`, that a refresh
of a user which started after the user lost a repository does not hold it.
With the order of projections that `IsStale` enforces, the theorems follow for
any number of executions that overlap in any order.

The refinement of `WorkQueue` maps the lease token of a row to its holder, the
worker that still works with it. It rests on `Served` and on `AttemptsKnown`, that a worker
which holds the token knows the row's count of attempts: by that count
it decides between handing back and failing. A lease that runs out is a stutter,
the next lease takes the delivery over, and the fence (`HasToken`) shows that an
end is always the holder's.

**Local outbox.** `OutboxAssumption` makes commands and requests finite, as on
one machine, and artifacts other files than the record and the lock. `Placed` is
what a command knows by itself, `Knows` what it knows of the outbox and the
server: it removes what it has doomed, it posts whole bundles of saved requests,
it marks what the server has stored. `OwnIds` says that two scans never create
the same directory, `RequestOK` that there is no record and no post of an id
before it is saved. The proof needs no lock: whether a lock is held on the inode
in the directory or on an unlinked one, these facts stay true when the steps of
other commands come between. What they rest on (`Onward`) is that an id goes
from drawn to saved to doomed and never back, that the server keeps what it has
stored, and that saved artifacts only disappear.

**Scans.** `ScanAssumption` says that scanners are distinct and a subscriber's
queue has room for the events of one run. `TakenOnce` is what the FIFO queue is
for: a scan waits at most once, and nothing is stored or published for it before
it is taken. `UncommittedIsEmpty` covers a scan that starts before its row is
committed, `InOrder` says which scanners have ended at each step of the
orchestrator, `StoredWithStatus` what may be stored with which status, and
`CompletedAfterAll` that a run is completed after the last, skipped tests
excepted.
`EventsCounted` bounds the events of the current run, so that no subscriber's
queue fills up; `EventsOfThePast`, `RowKept` and `EndRecorded` relate events to
the rows. The refinement of `EventFeed` maps the events of a run to its log and a
stream to how much of that log it was sent; `StreamHasNoGap` makes every delivery
a read of the next event, and `AtLatest` says which event is the latest at each place of the
orchestrator, and so which the protocol allows next. An exception within a scanner leaves its
announcement the latest, after which `EventFeed` allows the failed end but no
further scanner.

**Evidence.** `EvaluatedByTests` is the core: an evaluated requirement is waived,
blocked, or in the state its own tests give it (`OwnState`), whatever was
evaluated since. `OpenAreUntested` says that requirements which are not yet
evaluated are untested: this is why one pass in the order of ids never has to be
repeated for a dependency that was good. A result is that of the last test with
an id, revised by all of them; for requirements whose tests have ids of their
own (`HasOwnIds`) that is one test, and `OnlyTheShownPass` speaks of those.

**Authentication.** `RowOK` says what is known of a request at each step. What
GitHub says can be withdrawn at any time: `agreed` remembers that it said what
the token says since the request began. `CacheOK` bounds the promises of the
cache by the time of the fetch, `NamesSeen` relates the history of names to the
clock. `RefreshesOK` says what a refresh knows: its listing was GitHub's at its
own time or later, and so was the listing of the ETag when a 304 confirms it.
A refresh that was answered with 304 therefore writes a name that GitHub had
since its time, if it is that listing's name; if not, the row is `restamped`,
the exception of `MetadataWasTrueWhenVerified`, until a request or another
refresh writes it.

**SQLite cutover.** `CutoverAssumption` makes names, `None` and the torn file
distinct from each other and from databases. `RecoveryFree` says that the recovery path of a
restore stays free until its first rename, and `LogFits` that there is no log
while the files are swapped and otherwise one that extends the target.
`KeptAside` is the strengthening of `NoCommitIsLost`: from the first rename to
the end, the files other than the target hold every commit, so that whatever
becomes of the target nothing is lost.

Every safety property that a passing run checks is proved; `TypeOK` of
`IngestService`, `ScanWorker`, `InstallationSync` and `EvidenceStates` is proved
and not run. Only model-checked are the liveness properties
`EveryRequestFinishes` and `StreamEnds`, which are out of the prover's reach.

## 6. Where documentation and code differ

With a run:

- **A reused local key may be unusable** (`key_reuse`). After a tombstone
  expired and before retention purges it, `acquire` grants the row to new
  content but keeps `payload_hash` and `project_id`
  (`repositories/ingest_requests.py:78-91`). `complete` and `fail` compare the
  payload hash and match nothing: the upload fails, and its retries are answered
  with a conflict. The GitHub repository writes the columns.
- **A deleted project may gain a run** (`deleted_project`). An upload that
  resolved its project before the deletion stores its run afterwards; nothing
  purges it within a day, as `result-contract.md:84-85` says of deleted
  projects.
- **A requirement is blocked by a dependency that passes** (`dependency`).
  `state_compute.py:141` says "leaf FRs first", but every requirement has the
  state `untested` before the loop (line 139), so none waits: one that depends
  on a later id is stored as blocked, whatever becomes of the dependency.
- **A scanner that must find something passes without a find**
  (`scanner_finds`). `matcher.py:183` says a scanner "must produce ≥1 finding"
  and `test_scanner_finds_pending_when_scanner_silent` expects "pending"; the
  comment on the revision (`state_compute.py:166-167`) speaks of scanner-clean
  tests. Its condition (178) looks at the scanner and the note only, so a
  scanner-finds test whose scanner completed passes as well.

Seen while modelling, in the models but without a run of their own:

- The lease of a claim has no heartbeat, although
  `docs/plans/shared/result-contract.md:72-73` describes a "fenced lease with
  heartbeat": `heartbeat` (`repositories/ingest_requests.py:93-108`) is called
  by no workflow. A worker that persists longer than five minutes loses its
  claim to a retry; the fence makes its commit fail, so only its work is lost
  (`OnlyLeaseholderFinishes`).
- An old name can be dated anew. `confirm` writes the name of an earlier answer
  over that of a later refresh, without comparing times as `_is_stale` does, and
  leaves the installation's ETag (`github_upload_authorization.py:76-83`). The
  next refresh reads that ETag with the row (`github_reconciliation.py:41-78`),
  GitHub answers 304, since its listing has not changed, and the refresh writes
  the cached row, the old name, with its own time as `repository_verified_at`
  (`github_app_api.py:266-270`, `github_reconciliation.py:333-339`). So it goes
  on until the listing changes or another upload confirms the new name.
  `MetadataWasTrueWhenVerified` exempts exactly these rows (`restamped`).
- Two tests of one requirement with the same id keep the evaluation of the last
  only, and a test without an id is skipped (`state_compute.py:155-164`). The
  schema says that an id "Must be unique within the FR"
  (`src/backend/resources/schemas/fr-catalog.v3.schema.json:78`) and nothing
  enforces it.
- A project a user deleted is shown again by the next reconciliation
  (`github_reconciliation.py:345`), while migration `0017_projects_hidden.py`
  calls `hidden` a tombstone "so deleted projects stay deleted".
- A delivery whose worker dies is leased again without limit and before every
  younger one (`github_webhooks.py:74-104`); `webhook-and-repository-sync.md`
  says at most eight retries. The limit is applied when a refresh answers with
  an error.
- The deletion of an installation the server does not know leaves nothing that
  would stop an older listing from creating it (`github_reconciliation.py:142`).
- The cached ETag and the cached rows are read in two statements
  (`github_reconciliation.py:41-78`) and may be of two projections, with the
  same effect when a 304 follows.
- `cancel_scan` ("Cancel a running scan. Idempotent.", `mcp/server.py:414`)
  marks the run as failed; the scan goes on and may complete it.
- A failed flush leaves a run `running` for ever and its streams open
  (`worker/orchestrator.py:218-222`).
- An upload that is repeated after its receipt was written turns the receipt
  back into a retryable record (`outbox_storage/service.py:127-140`), and a
  prune that removes a bundle while it is uploaded may have a part of it posted.
- `prune` aborts when two commands prune at once, and directories without a
  record are never removed.
- Manual attestations are never supplied to the matcher
  (`state_compute.py:159`).
- A backup reads the file as immutable (`sqlite_cutover/service.py:350-360`)
  and misses commits that are still in the log, while `create_verified_backup`
  calls it an "online SQLite backup" (77). The digest of the target and its
  sidecars are looked at one after the other (223-226): a service that stops
  cleanly in between leaves a file whose digest is not the one the result
  reports.
- `purge_expired` of the used tokens and of the guard's tombstones is not
  called; the tokens' rows are kept for ever.

## 7. What is not modelled

- **Of modelled components**: body limits and parsing before the workflows, with
  the attempts they record; the content of bundles; PostgreSQL; the retention
  of token audits and deliveries; cryptography; GitHub's response formats;
  roles of memberships and the exchange of user tokens; owner and mode checks
  of the outbox; the discovery and parsing of scanners and test suites.
- `retained` limits are part of the quota decision but are no property: a worker
  whose lease ran out is not counted and may still complete, so stored bytes can
  pass them.
- **Scan tokens, browser sessions, the failure limiter, setup state**: single
  statements on single rows, or tables in memory without a wait; they have few
  interleavings, and the races that exist are listed as hazards.
- **SQLite cutover**: two restores at once (a second one could move the first
  one's result onto a recovery path and both could back out), a service started
  in the middle of the swap, power loss (the staged copy is never synced to the
  disk before it is renamed), owner and mode of files, and the reports that only
  read.
- **Scan production, compliance reports, Notion, MCP tools that read,
  configuration, migrations, frontend, scripts**: sequential transformations of
  data. Most of the repository's lines are of this kind (HTML and PDF reports,
  parsers of scanner output, dashboards).

## 8. Plan

1. Scan tokens and the exchange of user credentials, whose per-user lock is
   released before the caller commits.
2. Evidence evaluated by a loop that waits for dependencies, as the comment
   intends, to compare with the one that is there.
