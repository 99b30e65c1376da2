----------------------------- MODULE ScanWorker -----------------------------
(***************************************************************************)
(* Scans that run on the server: the requests that start, cancel and       *)
(* delete them, the queue with its one consumer, the orchestrator that     *)
(* takes a scan through its scanners, and the event bus whose events the   *)
(* streams send to browsers.  All of it is one asyncio process; what it    *)
(* shares besides the database is in memory and is lost when it stops.     *)
(*                                                                         *)
(* A step ends where the code commits, publishes after a commit, or waits. *)
(* An orchestrator keeps one session.  If a flush fails in it (a row it    *)
(* refers to is gone, or the database is locked for too long) the session  *)
(* refuses every later statement, so the handlers that would record the    *)
(* failure fail too, and the queue only logs it.                           *)
(*                                                                         *)
(* A name with Without, Before or Ignoring is a faulty variant of the      *)
(* definition that follows it.                                             *)
(***************************************************************************)
EXTENDS Integers, SequencesExt

CONSTANTS
  Runs,       \* run ids
  Scanners,   \* the kinds in the order they run, project-tests the last
  Streams,    \* connections to GET /scans/{run_id}/stream
  None,       \* no row, no run
  QueueSize   \* slots of a subscriber's queue: 512

Kinds == ToSet(Scanners)

ProjectTests == Scanners[Len(Scanners)]

Events == [kind : {"scan_started", "scan_completed"}, scanner : {None}, status : {"completed", "failed", None}]
          \cup [kind : {"scanner_started", "scanner_completed"}, scanner : Kinds,
                status : {"completed", "failed", None}]

(***************************************************************************)
(* A run publishes fewer events than a subscriber's queue has slots, and   *)
(* so fewer than the 1000 that are kept of a run.                          *)
(***************************************************************************)
ASSUME ScanAssumption ==
  /\ Scanners \in Seq(Kinds)
  /\ IsInjective(Scanners)
  /\ Scanners # <<>>
  /\ None \notin Runs \cup {"queued", "running", "completed", "failed"}
  /\ QueueSize \in Nat
  /\ 2 * Len(Scanners) + 2 <= QueueSize

VARIABLES
  runs,      \* runs.status, None without a row
  results,   \* scanner_runs.status by run and kind, None without a row that was running
  found,     \* the scanners whose findings or test reports are stored, by run
  requests,  \* start_scan by run: none, sent (the row is not committed), done
  pending,   \* ScanQueue._queue
  job,       \* the scan in progress
  events,    \* EventBus._buffers: the events by run, an event's id is its place
  streams,   \* the streams: run, ids delivered, ids in the queue
  cancels,   \* cancel_scan by run: none, read (the status allowed it), done
  broken,    \* history: runs whose scan ended without scan_completed
  detached   \* history: runs that had no row at some time of their scan

database == <<runs, results, found>>
history == <<broken, detached>>
vars == <<database, requests, pending, job, events, streams, cancels, history>>

NoJob == [run |-> None, pc |-> "idle", next |-> 1]

NoStream == [run |-> None, from |-> 0, got |-> 0, queue |-> <<>>]

Settled == {"completed", "failed"}

-----------------------------------------------------------------------------
Init ==
  /\ runs = [r \in Runs |-> None]
  /\ results = [r \in Runs |-> [k \in Kinds |-> None]]
  /\ found = [r \in Runs |-> {}]
  /\ requests = [r \in Runs |-> "none"]
  /\ pending = <<>>
  /\ job = NoJob
  /\ events = [r \in Runs |-> <<>>]
  /\ streams = [s \in Streams |-> NoStream]
  /\ cancels = [r \in Runs |-> "none"]
  /\ broken = {}
  /\ detached = {}

(***************************************************************************)
(* publish: the event gets the next id and goes to every subscriber whose  *)
(* queue is not full.                                                      *)
(***************************************************************************)
Event(kind, scanner, status) == [kind |-> kind, scanner |-> scanner, status |-> status]

Offered(stream, r, id) ==
  IF stream.run = r /\ Len(stream.queue) < QueueSize
  THEN [stream EXCEPT !.queue = Append(@, id)] ELSE stream

Publish(r, event) ==
  /\ events' = [events EXCEPT ![r] = Append(@, event)]
  /\ streams' = [s \in Streams |-> Offered(streams[s], r, Len(events[r]) + 1)]

-----------------------------------------------------------------------------
(***************************************************************************)
(* start_scan puts the scan into the queue and then inserts the run; the   *)
(* insert is committed later, or fails.                                    *)
(***************************************************************************)
StartScan(r) ==
  /\ requests[r] = "none"
  /\ requests' = [requests EXCEPT ![r] = "sent"]
  /\ pending' = Append(pending, r)
  /\ UNCHANGED <<database, job, events, streams, cancels, history>>

CommitRun(r) ==
  /\ requests[r] = "sent"
  /\ requests' = [requests EXCEPT ![r] = "done"]
  /\ runs' = [runs EXCEPT ![r] = "queued"]
  /\ UNCHANGED <<results, found, pending, job, events, streams, cancels, history>>

StartFails(r) ==
  /\ requests[r] = "sent"
  /\ requests' = [requests EXCEPT ![r] = "done"]
  /\ UNCHANGED <<database, pending, job, events, streams, cancels, history>>

(***************************************************************************)
(* cancel_scan reads the status and then fails the run; the scan goes on.  *)
(***************************************************************************)
CancelReads(r) ==
  /\ runs[r] \notin Settled \cup {None}
  /\ cancels[r] = "none"
  /\ cancels' = [cancels EXCEPT ![r] = "read"]
  /\ UNCHANGED <<database, requests, pending, job, events, streams, history>>

CancelWrites(r) ==
  /\ cancels[r] = "read"
  /\ cancels' = [cancels EXCEPT ![r] = "done"]
  /\ runs' = [runs EXCEPT ![r] = IF @ = None THEN None ELSE "failed"]
  /\ UNCHANGED <<results, found, requests, pending, job, events, streams, history>>

(***************************************************************************)
(* A scan is deleted with its scanner runs and findings, whatever its      *)
(* status; so it is with all scans of a project or with the project.       *)
(***************************************************************************)
DeleteRun(r) ==
  /\ runs[r] # None
  /\ runs' = [runs EXCEPT ![r] = None]
  /\ results' = [results EXCEPT ![r] = [k \in Kinds |-> None]]
  /\ found' = [found EXCEPT ![r] = {}]
  /\ detached' = detached \cup {r}
  /\ UNCHANGED <<requests, pending, job, events, streams, cancels, broken>>

-----------------------------------------------------------------------------
(***************************************************************************)
(* The consumer takes the next scan, whether its row is committed or not.  *)
(***************************************************************************)
Take ==
  /\ job.pc = "idle"
  /\ pending # <<>>
  /\ job' = [run |-> Head(pending), pc |-> "prepare", next |-> 1]
  /\ pending' = Tail(pending)
  /\ detached' = IF runs[Head(pending)] = None THEN detached \cup {Head(pending)} ELSE detached
  /\ UNCHANGED <<database, requests, events, streams, cancels, broken>>

(***************************************************************************)
(* execute, up to its first commit: the catalogue and the mapping are      *)
(* loaded and pinned to the run, which is running from now on, whatever    *)
(* its status was, if it has a row.                                        *)
(***************************************************************************)
Prepare ==
  /\ job.pc = "prepare"
  /\ runs' = [runs EXCEPT ![job.run] = IF @ = None THEN None ELSE "running"]
  /\ job' = [job EXCEPT !.pc = "scanner"]
  /\ Publish(job.run, Event("scan_started", None, None))
  /\ UNCHANGED <<results, found, requests, pending, cancels, history>>

(***************************************************************************)
(* _run_scanner and _run_project_tests: the start is published, then the   *)
(* row is committed as running, which needs the row of the run.            *)
(***************************************************************************)
Current == Scanners[job.next]

AnnounceScanner ==
  /\ job.pc = "scanner"
  /\ job.next <= Len(Scanners)
  /\ job' = [job EXCEPT !.pc = "create"]
  /\ Publish(job.run, Event("scanner_started", Current, None))
  /\ UNCHANGED <<database, requests, pending, cancels, history>>

CreateScannerRun ==
  /\ job.pc = "create"
  /\ runs[job.run] # None
  /\ results' = [results EXCEPT ![job.run][Current] = "running"]
  /\ job' = [job EXCEPT !.pc = "run"]
  /\ UNCHANGED <<runs, found, requests, pending, events, streams, cancels, history>>

(***************************************************************************)
(* A project without test suites has no project-tests: no event, no row.   *)
(***************************************************************************)
SkipProjectTests ==
  /\ job.pc = "scanner"
  /\ job.next = Len(Scanners)
  /\ job' = [job EXCEPT !.next = @ + 1]
  /\ UNCHANGED <<database, requests, pending, events, streams, cancels, history>>

(***************************************************************************)
(* The scanner's status is committed with what it stored.  A scanner that  *)
(* succeeds has stored its findings; tests that succeed may have written   *)
(* no report.  A failure may keep something too: the report of a failing   *)
(* suite, the findings stored before the step that failed.  A run that was *)
(* deleted loses the row to update: then nothing can be stored, and what   *)
(* stores nothing passes unnoticed.                                        *)
(***************************************************************************)
StoredWithoutFailure(r, k, status) ==
  [results EXCEPT ![r][k] = IF @ = None \/ status = "failed" THEN @ ELSE status]

Stored(r, k, status) == [results EXCEPT ![r][k] = IF @ = None THEN None ELSE status]

FinishScanner(status, kept) ==
  /\ job.pc = "run"
  /\ kept => results[job.run][Current] # None
  /\ status = "completed" => kept \/ Current = ProjectTests
  /\ results' = Stored(job.run, Current, status)
  /\ found' = [found EXCEPT ![job.run] = IF kept THEN @ \cup {Current} ELSE @]
  /\ job' = [job EXCEPT !.pc = "scanner", !.next = @ + 1]
  /\ Publish(job.run, Event("scanner_completed", Current, status))
  /\ UNCHANGED <<runs, requests, pending, cancels, history>>

(***************************************************************************)
(* The states of the requirements are computed, the findings published in  *)
(* the run, and the run is completed, whatever its status was; then the    *)
(* findings are counted and the end is published.                          *)
(***************************************************************************)
ScannedAll == job.next > Len(Scanners)

Complete ==
  /\ job.pc = "scanner"
  /\ ScannedAll
  /\ runs' = [runs EXCEPT ![job.run] = IF @ = None THEN None ELSE "completed"]
  /\ job' = [job EXCEPT !.pc = "count"]
  /\ UNCHANGED <<results, found, requests, pending, events, streams, cancels, history>>

PublishCompletionBeforeCount ==
  /\ job.pc = "count"
  /\ \E counted \in BOOLEAN : job' = IF counted THEN NoJob ELSE [job EXCEPT !.pc = "fail"]
  /\ Publish(job.run, Event("scan_completed", None, "completed"))
  /\ UNCHANGED <<database, requests, pending, cancels, history>>

PublishCompletion ==
  /\ job.pc = "count"
  /\ job' = NoJob
  /\ Publish(job.run, Event("scan_completed", None, "completed"))
  /\ UNCHANGED <<database, requests, pending, cancels, history>>

(***************************************************************************)
(* except Exception: a catalogue that cannot be read, a statement that     *)
(* finds the database locked.  While a scanner runs it has an except of    *)
(* its own, whose mark_failed and commit raise as well.  From one scanner  *)
(* to the next nothing does, but the search for suites and the computation *)
(* after the last one do.                                                  *)
(***************************************************************************)
Raise ==
  /\ job.pc \in {"prepare", "create", "run", "scanner", "count"}
  /\ job.pc = "scanner" => job.next >= Len(Scanners)
  /\ job' = [job EXCEPT !.pc = "fail"]
  /\ UNCHANGED <<database, requests, pending, events, streams, cancels, history>>

(***************************************************************************)
(* The run is failed and committed, and with it what the session had left  *)
(* from a scanner that was raised out of; then the end is published.       *)
(***************************************************************************)
Unfinished == {k \in Kinds : results[job.run][k] = "running"}

FailRunWithoutCommit ==
  /\ job.pc = "fail"
  /\ job' = [job EXCEPT !.pc = "report"]
  /\ UNCHANGED <<database, requests, pending, events, streams, cancels, history>>

FailRun ==
  /\ job.pc = "fail"
  /\ runs' = [runs EXCEPT ![job.run] = IF @ = None THEN None ELSE "failed"]
  /\ \E left \in SUBSET Unfinished : found' = [found EXCEPT ![job.run] = @ \cup left]
  /\ job' = [job EXCEPT !.pc = "report"]
  /\ UNCHANGED <<results, requests, pending, events, streams, cancels, history>>

PublishFailureWithoutEvent ==
  /\ job.pc = "report"
  /\ job' = NoJob
  /\ UNCHANGED <<database, requests, pending, events, streams, cancels, history>>

PublishFailure ==
  /\ job.pc = "report"
  /\ job' = NoJob
  /\ Publish(job.run, Event("scan_completed", None, "failed"))
  /\ UNCHANGED <<database, requests, pending, cancels, history>>

(***************************************************************************)
(* A flush fails, or the failure cannot be recorded: the scan ends as it   *)
(* was last committed and nothing is published.                            *)
(***************************************************************************)
SessionBreaks ==
  /\ job.pc \in {"prepare", "create", "run", "scanner", "fail"}
  /\ job' = NoJob
  /\ broken' = broken \cup {job.run}
  /\ UNCHANGED <<database, requests, pending, events, streams, cancels, detached>>

(***************************************************************************)
(* The process stops, or crashes, and starts again: stop cancels the scan, *)
(* which no except Exception sees, and the pending scans are discarded.    *)
(***************************************************************************)
Restart ==
  /\ job' = NoJob
  /\ pending' = <<>>
  /\ requests' = [r \in Runs |-> IF requests[r] = "sent" THEN "done" ELSE requests[r]]
  /\ events' = [r \in Runs |-> <<>>]
  /\ streams' = [s \in Streams |-> NoStream]
  /\ broken' = broken \cup {r \in Runs : requests[r] # "none"}
  /\ cancels' = [r \in Runs |-> IF cancels[r] = "read" THEN "none" ELSE cancels[r]]
  /\ UNCHANGED <<database, detached>>

-----------------------------------------------------------------------------
(***************************************************************************)
(* A stream subscribes from the Last-Event-ID of its client, which is the  *)
(* last it was given or nothing; the replay and the registration are one   *)
(* step, since a put into a queue with room does not yield.                *)
(***************************************************************************)
ReplayIgnoringLastId(r, from) == [n \in 1 .. Len(events[r]) |-> n]

Replay(r, from) == [n \in 1 .. Len(events[r]) - from |-> from + n]

Subscribe(s, r, from) ==
  /\ streams[s].run = None
  /\ runs[r] # None
  /\ from <= Len(events[r])
  /\ streams' = [streams EXCEPT ![s] =
       [run |-> r, from |-> from, got |-> from, queue |-> Replay(r, from)]]
  /\ UNCHANGED <<database, requests, pending, job, events, cancels, history>>

(***************************************************************************)
(* The stream sends the next event, and ends after scan_completed.         *)
(***************************************************************************)
Deliver(s) ==
  LET stream == streams[s]
      id == Head(stream.queue)
  IN  /\ stream.run # None
      /\ stream.queue # <<>>
      /\ streams' = [streams EXCEPT ![s] =
           IF events[stream.run][id].kind = "scan_completed" THEN NoStream
           ELSE [stream EXCEPT !.got = id, !.queue = Tail(@)]]
      /\ UNCHANGED <<database, requests, pending, job, events, cancels, history>>

Disconnect(s) ==
  /\ streams[s].run # None
  /\ streams' = [streams EXCEPT ![s] = NoStream]
  /\ UNCHANGED <<database, requests, pending, job, events, cancels, history>>

-----------------------------------------------------------------------------
Consume ==
  \/ Take \/ Prepare \/ AnnounceScanner \/ CreateScannerRun \/ SkipProjectTests
  \/ \E status \in Settled, kept \in BOOLEAN : FinishScanner(status, kept)
  \/ Complete \/ PublishCompletion \/ Raise \/ FailRun \/ PublishFailure \/ SessionBreaks

Request(r) ==
  StartScan(r) \/ CommitRun(r) \/ StartFails(r) \/ CancelReads(r) \/ CancelWrites(r) \/ DeleteRun(r)

Stream(s) ==
  \/ \E r \in Runs : \E from \in 0 .. Len(events[r]) : Subscribe(s, r, from)
  \/ Deliver(s)
  \/ Disconnect(s)

Next ==
  \/ Consume
  \/ Restart
  \/ \E r \in Runs : Request(r)
  \/ \E s \in Streams : Stream(s)

Spec == Init /\ [][Next]_vars

(***************************************************************************)
(* The consumer's task and the streams keep running: scanners and test     *)
(* suites have timeouts, and a connected client is written to.             *)
(***************************************************************************)
FairSpec ==
  /\ Spec
  /\ WF_vars(Consume)
  /\ \A r \in Runs : WF_vars(CommitRun(r) \/ StartFails(r))
  /\ \A s \in Streams : WF_vars(Deliver(s))

-----------------------------------------------------------------------------
TypeOK ==
  /\ runs \in [Runs -> {None, "queued", "running"} \cup Settled]
  /\ results \in [Runs -> [Kinds -> {None, "running"} \cup Settled]]
  /\ found \in [Runs -> SUBSET Kinds]
  /\ requests \in [Runs -> {"none", "sent", "done"}]
  /\ pending \in Seq(Runs)
  /\ job \in [run : Runs \cup {None}, next : 1 .. Len(Scanners) + 1,
              pc : {"idle", "prepare", "scanner", "create", "run", "count", "fail", "report"}]
  /\ events \in [Runs -> Seq(Events)]
  /\ streams \in [Streams -> [run : Runs \cup {None}, from : Nat, got : Nat, queue : Seq(Nat)]]
  /\ cancels \in [Runs -> {"none", "read", "done"}]
  /\ broken \subseteq Runs
  /\ detached \subseteq Runs

(***************************************************************************)
(* What a stream was told is what the database says: an event that reports *)
(* the end of a scanner or of the scan is published after the commit, and  *)
(* nothing later contradicts it, unless the run was cancelled or had no    *)
(* row while it was scanned.                                               *)
(***************************************************************************)
EventsAreCommitted ==
  \A r \in Runs \ detached : \A n \in 1 .. Len(events[r]) :
     LET event == events[r][n]
     IN  /\ event.kind = "scan_completed" => runs[r] = event.status \/ cancels[r] = "done"
         /\ event.kind = "scanner_completed" => results[r][event.scanner] = event.status

(***************************************************************************)
(* A completed run is whole: every scanner has ended in it, but tests that *)
(* the project does not have; it has the findings of all that succeeded,   *)
(* and what it has is of a scanner that ended, whoever cancelled it and    *)
(* whatever failed on the way.                                             *)
(***************************************************************************)
CompletedRunIsWhole ==
  \A r \in Runs : runs[r] = "completed" => \A k \in Kinds :
     /\ results[r][k] \in Settled \/ (k = ProjectTests /\ results[r][k] = None)
     /\ results[r][k] = "completed" => k \in found[r] \/ k = ProjectTests
     /\ k \in found[r] => results[r][k] \in Settled

(***************************************************************************)
(* A stream misses no event and repeats none: what it was given and what   *)
(* its queue holds run on without a gap up to the latest event, wherever   *)
(* the client resumed and whatever was published meanwhile.                *)
(***************************************************************************)
StreamHasNoGap ==
  \A s \in Streams : streams[s].run # None =>
     LET stream == streams[s]
     IN  /\ stream.got + Len(stream.queue) = Len(events[stream.run])
         /\ \A n \in 1 .. Len(stream.queue) : stream.queue[n] = stream.got + n

(***************************************************************************)
(* _event_stream ends "until the client disconnects or scan ends": a       *)
(* stream whose client has not been told the end before ends, unless the   *)
(* scan broke off or the server stopped, which nobody is told of.          *)
(***************************************************************************)
ToldBefore(stream) ==
  stream.from > 0 /\ events[stream.run][stream.from].kind = "scan_completed"

StreamEnds ==
  \A s \in Streams, r \in Runs :
     streams[s].run = r /\ ~ToldBefore(streams[s]) ~> streams[s].run # r \/ r \in broken

-----------------------------------------------------------------------------
(***************************************************************************)
(* What a watcher of a scan may rely on: the events of a run follow the    *)
(* protocol of EventFeed, whichever scanner fails, whoever cancels or      *)
(* deletes the run and whatever breaks off, and each stream reads them in  *)
(* their order and is ended with the scan.                                 *)
(***************************************************************************)
Watching == [s \in Streams |-> [run |-> streams[s].run, got |-> streams[s].got]]

Feed == INSTANCE EventFeed WITH Readers <- Streams, log <- events, readers <- Watching

ServesFeed == Feed!Spec
=============================================================================
