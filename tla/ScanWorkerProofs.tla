--------------------------- MODULE ScanWorkerProofs ---------------------------
(***************************************************************************)
(* Theorems of ScanWorker, for every set of runs and streams, every list   *)
(* of scanners and every queue size that fits it.                          *)
(***************************************************************************)
EXTENDS ScanWorker, TLAPS

Waiting(r) == \E n \in 1 .. Len(pending) : pending[n] = r

(***************************************************************************)
(* A scan is taken from the queue once: it waits there at most once, and   *)
(* until it is taken nothing has been stored or published for it.          *)
(***************************************************************************)
TakenOnce ==
  /\ \A m, n \in 1 .. Len(pending) : pending[m] = pending[n] => m = n
  /\ \A r \in Runs : Waiting(r) => requests[r] # "none"
  /\ \A r \in Runs : requests[r] = "none" \/ Waiting(r) =>
       /\ job.run # r
       /\ events[r] = <<>>
       /\ runs[r] # "completed"
       /\ \A k \in Kinds : results[r][k] = None

(***************************************************************************)
(* Before the insert of a run is committed no scanner can store anything.  *)
(***************************************************************************)
UncommittedIsEmpty ==
  \A r \in Runs : requests[r] # "done" =>
     /\ runs[r] = None
     /\ \A k \in Kinds : results[r][k] = None
     /\ job.run = r =>
          /\ job.pc # "run"
          /\ \A n \in 1 .. job.next - 1 : Scanners[n] = ProjectTests

JobPlaced ==
  /\ job.pc = "idle" <=> job.run = None
  /\ job.pc \in {"create", "run"} => job.next <= Len(Scanners)
  /\ job.pc = "count" => job.next > Len(Scanners)

Ended(r, k) == results[r][k] \in Settled \/ (k = ProjectTests /\ results[r][k] = None)

(***************************************************************************)
(* The scan works through its scanners in their order: those before the    *)
(* current one have ended or were skipped, if the run still has its row,   *)
(* and those after it have not begun.                                      *)
(***************************************************************************)
InOrder ==
  job.pc # "idle" =>
    LET r == job.run
    IN  /\ \A n \in job.next .. Len(Scanners) :
             \/ results[r][Scanners[n]] = None
             \/ job.pc \in {"run", "fail", "report"} /\ n = job.next
        /\ job.pc = "run" => results[r][Current] \in {None, "running"}
        /\ runs[r] # None =>
             /\ \A n \in 1 .. job.next - 1 : Ended(r, Scanners[n])
             /\ job.pc = "run" => results[r][Current] = "running"

(***************************************************************************)
(* Nothing is stored of a scanner without a row, and a success is stored   *)
(* with its findings.                                                      *)
(***************************************************************************)
StoredWithStatus ==
  \A r \in Runs : \A k \in Kinds :
     /\ k \in found[r] => results[r][k] # None
     /\ results[r][k] = "completed" => k \in found[r] \/ k = ProjectTests

CompletedAfterAll ==
  \A r \in Runs : runs[r] = "completed" =>
     /\ \A k \in Kinds : Ended(r, k)
     /\ job.run = r => job.pc \in {"count", "fail", "report"}

(***************************************************************************)
(* What has been published when the scan is at each of its steps.          *)
(***************************************************************************)
EventsCounted ==
  /\ job.pc = "prepare" => events[job.run] = <<>>
  /\ job.pc = "scanner" => Len(events[job.run]) <= 2 * job.next - 1
  /\ job.pc \in {"create", "run"} => Len(events[job.run]) <= 2 * job.next
  /\ job.pc \in {"count", "fail", "report"} => Len(events[job.run]) <= 2 * Len(Scanners) + 1

EventsOfThePast ==
  \A r \in Runs : \A n \in 1 .. Len(events[r]) :
     LET event == events[r][n]
     IN  /\ event.kind = "scan_completed" => job.run # r
         /\ event.kind = "scanner_completed" /\ job.run = r =>
              \E m \in 1 .. job.next - 1 : event.scanner = Scanners[m]

RowKept ==
  \A r \in Runs \ detached : events[r] # <<>> \/ job.run = r => runs[r] # None

EndRecorded ==
  job.run \notin detached =>
    /\ job.pc = "count" => runs[job.run] = "completed" \/ cancels[job.run] = "done"
    /\ job.pc = "report" => runs[job.run] = "failed"

-----------------------------------------------------------------------------
LEMMA Bounds ==
  /\ Len(Scanners) \in Nat /\ QueueSize \in Nat /\ 2 * Len(Scanners) + 2 <= QueueSize
  /\ \A n \in 1 .. Len(Scanners) : Scanners[n] \in Kinds
  /\ \A k \in Kinds : \E n \in 1 .. Len(Scanners) : Scanners[n] = k
  /\ \A m, n \in 1 .. Len(Scanners) : Scanners[m] = Scanners[n] => m = n
  /\ None \notin Runs /\ None \notin {"queued", "running", "completed", "failed"}
  /\ Len(Scanners) >= 1
<1>1. Scanners \in Seq(Kinds) /\ IsInjective(Scanners)
  BY ScanAssumption
<1>2. Len(Scanners) \in Nat /\ DOMAIN Scanners = 1 .. Len(Scanners) /\ Len(Scanners) >= 1
  BY <1>1, ScanAssumption
<1>3. \A n \in 1 .. Len(Scanners) : Scanners[n] \in Kinds
  BY <1>1
<1>4. \A k \in Kinds : \E n \in 1 .. Len(Scanners) : Scanners[n] = k
  BY <1>2 DEF Kinds, ToSet
<1>5. \A m, n \in 1 .. Len(Scanners) : Scanners[m] = Scanners[n] => m = n
  BY <1>1, <1>2 DEF IsInjective
<1> QED
  BY <1>2, <1>3, <1>4, <1>5, ScanAssumption

JobOK(j) ==
  j \in [run : Runs \cup {None}, next : 1 .. Len(Scanners) + 1,
         pc : {"idle", "prepare", "scanner", "create", "run", "count", "fail", "report"}]

StreamOK(stream) == stream \in [run : Runs \cup {None}, from : Nat, got : Nat, queue : Seq(Nat)]

LEMMA EmptyTypes == JobOK(NoJob) /\ StreamOK(NoStream)
BY Bounds DEF JobOK, NoJob, StreamOK, NoStream

(***************************************************************************)
(* What publish does to the events of its run and to the streams.          *)
(***************************************************************************)
LEMMA Published ==
  ASSUME TypeOK, NEW r \in Runs, NEW event \in Events, Publish(r, event)
  PROVE  /\ events' \in [Runs -> Seq(Events)]
         /\ Len(events[r]) \in Nat
         /\ Len(events'[r]) = Len(events[r]) + 1
         /\ events'[r][Len(events[r]) + 1] = event
         /\ \A n \in 1 .. Len(events[r]) : events'[r][n] = events[r][n]
         /\ \A q \in Runs : q # r => events'[q] = events[q]
         /\ \A s \in Streams : StreamOK(streams'[s])
         /\ streams' \in [Streams -> [run : Runs \cup {None}, from : Nat, got : Nat, queue : Seq(Nat)]]
<1>1. events \in [Runs -> Seq(Events)] /\ events[r] \in Seq(Events)
  BY DEF TypeOK
<1>2. events'[r] = Append(events[r], event) /\ \A q \in Runs : q # r => events'[q] = events[q]
  BY <1>1 DEF Publish
<1>3. events' \in [Runs -> Seq(Events)]
  BY <1>1 DEF Publish
<1>4. /\ Len(events[r]) \in Nat
      /\ Len(events'[r]) = Len(events[r]) + 1
      /\ events'[r][Len(events[r]) + 1] = event
      /\ \A n \in 1 .. Len(events[r]) : events'[r][n] = events[r][n]
  BY <1>1, <1>2
<1>5. ASSUME NEW s \in Streams PROVE StreamOK(Offered(streams[s], r, Len(events[r]) + 1))
  <2>1. StreamOK(streams[s]) /\ streams[s].queue \in Seq(Nat) /\ Len(events[r]) + 1 \in Nat
    BY <1>4 DEF TypeOK, StreamOK
  <2>2. Append(streams[s].queue, Len(events[r]) + 1) \in Seq(Nat)
    BY <2>1
  <2> QED
    BY <2>1, <2>2 DEF Offered, StreamOK
<1>6. streams' = [s \in Streams |-> Offered(streams[s], r, Len(events[r]) + 1)]
  BY DEF Publish
<1> QED
  BY <1>2, <1>3, <1>4, <1>5, <1>6 DEF StreamOK

LEMMA EventTypes ==
  /\ Event("scan_started", None, None) \in Events
  /\ \A status \in Settled : Event("scan_completed", None, status) \in Events
  /\ \A k \in Kinds : Event("scanner_started", k, None) \in Events
  /\ \A k \in Kinds, status \in Settled : Event("scanner_completed", k, status) \in Events
BY DEF Event, Events, Settled

LEMMA TypeInit == Init => TypeOK
<1> SUFFICES ASSUME Init PROVE TypeOK
  OBVIOUS
<1>1. job \in [run : Runs \cup {None}, next : 1 .. Len(Scanners) + 1,
               pc : {"idle", "prepare", "scanner", "create", "run", "count", "fail", "report"}]
  BY EmptyTypes DEF Init, JobOK
<1>2. streams \in [Streams -> [run : Runs \cup {None}, from : Nat, got : Nat, queue : Seq(Nat)]]
  BY EmptyTypes DEF Init, StreamOK
<1>3. pending \in Seq(Runs) /\ events \in [Runs -> Seq(Events)]
  BY DEF Init
<1> QED
  BY <1>1, <1>2, <1>3 DEF Init, TypeOK

(***************************************************************************)
(* The variables that a step of the consumer, a request or a stream may    *)
(* write keep their types.                                                 *)
(***************************************************************************)
LEMMA TypeConsume == TypeOK /\ JobPlaced /\ Consume => TypeOK'
<1> SUFFICES ASSUME TypeOK, JobPlaced, Consume PROVE TypeOK'
  OBVIOUS
<1>0. /\ job.next \in 1 .. Len(Scanners) + 1 /\ JobOK(job)
      /\ job.pc # "idle" => job.run \in Runs
      /\ job.pc \in {"create", "run"} => job.next <= Len(Scanners)
  BY DEF TypeOK, JobOK, JobPlaced
<1>1. CASE Take
  <2>1. Head(pending) \in Runs /\ Tail(pending) \in Seq(Runs)
    BY <1>1 DEF Take, TypeOK
  <2>2. JobOK(job')
    BY <1>1, <2>1, Bounds DEF Take, JobOK
  <2> QED
    BY <1>1, <2>1, <2>2 DEF Take, TypeOK, JobOK, database
<1>2. CASE Prepare
  <2>1. JobOK(job') /\ runs' \in [Runs -> {None, "queued", "running"} \cup Settled]
    BY <1>0, <1>2 DEF Prepare, JobOK, TypeOK
  <2> QED
    BY <1>0, <1>2, <2>1, Published, EventTypes DEF Prepare, TypeOK, JobOK, history
<1>3. CASE AnnounceScanner
  <2>1. JobOK(job') /\ Current \in Kinds
    BY <1>0, <1>3, Bounds DEF AnnounceScanner, JobOK, Current
  <2> QED
    BY <1>0, <1>3, <2>1, Published, EventTypes DEF AnnounceScanner, TypeOK, JobOK, database, history
<1>4. CASE CreateScannerRun
  <2>1. JobOK(job') /\ results' \in [Runs -> [Kinds -> {None, "running"} \cup Settled]]
    BY <1>0, <1>4, Bounds DEF CreateScannerRun, JobOK, TypeOK
  <2> QED
    BY <1>4, <2>1 DEF CreateScannerRun, TypeOK, JobOK, history
<1>5. ASSUME NEW status \in Settled, NEW kept \in BOOLEAN, FinishScanner(status, kept) PROVE TypeOK'
  <2>1. Current \in Kinds /\ job.run \in Runs
    BY <1>0, <1>5, Bounds DEF FinishScanner, Current
  <2>2. JobOK(job')
    <3>1. job.next + 1 \in 1 .. Len(Scanners) + 1
      BY <1>0, <1>5, Bounds DEF FinishScanner
    <3> QED
      BY <1>0, <1>5, <3>1 DEF FinishScanner, JobOK
  <2>3. results' \in [Runs -> [Kinds -> {None, "running"} \cup Settled]]
    BY <1>5, <2>1 DEF FinishScanner, Stored, TypeOK
  <2>4. found' \in [Runs -> SUBSET Kinds]
    BY <1>5, <2>1 DEF FinishScanner, TypeOK
  <2> QED
    BY <1>5, <2>1, <2>2, <2>3, <2>4, Published, EventTypes DEF FinishScanner, TypeOK, JobOK, history
<1>6. CASE Complete
  <2>1. JobOK(job') /\ runs' \in [Runs -> {None, "queued", "running"} \cup Settled]
    BY <1>0, <1>6 DEF Complete, JobOK, TypeOK, Settled
  <2> QED
    BY <1>6, <2>1 DEF Complete, TypeOK, JobOK, history
<1>7. CASE PublishCompletion \/ PublishFailure
  <2>1. job.run \in Runs /\ JobOK(job')
    BY <1>0, <1>7, EmptyTypes DEF PublishCompletion, PublishFailure
  <2>2. \E status \in Settled : Publish(job.run, Event("scan_completed", None, status))
    BY <1>7 DEF PublishCompletion, PublishFailure, Settled
  <2> QED
    BY <1>7, <2>1, <2>2, Published, EventTypes
    DEF PublishCompletion, PublishFailure, TypeOK, JobOK, database, history
<1>8. CASE FailRun
  <2>1. JobOK(job') /\ runs' \in [Runs -> {None, "queued", "running"} \cup Settled]
    BY <1>0, <1>8 DEF FailRun, JobOK, TypeOK, Settled
  <2>2. found' \in [Runs -> SUBSET Kinds]
    <3>1. PICK left \in SUBSET Unfinished : found' = [found EXCEPT ![job.run] = @ \cup left]
      BY <1>8 DEF FailRun
    <3>2. left \subseteq Kinds
      BY DEF Unfinished
    <3> QED
      BY <3>1, <3>2 DEF TypeOK
  <2> QED
    BY <1>8, <2>1, <2>2 DEF FailRun, TypeOK, JobOK, history
<1>9. CASE Raise \/ SessionBreaks
  <2>1. JobOK(job') /\ broken' \subseteq Runs
    BY <1>0, <1>9, EmptyTypes DEF Raise, SessionBreaks, JobOK, TypeOK, history
  <2> QED
    BY <1>9, <2>1 DEF Raise, SessionBreaks, TypeOK, JobOK, database, history
<1>10. CASE SkipProjectTests
  <2>1. JobOK(job')
    <3>1. job.next + 1 \in 1 .. Len(Scanners) + 1
      BY <1>0, <1>10, Bounds DEF SkipProjectTests
    <3> QED
      BY <1>0, <1>10, <3>1 DEF SkipProjectTests, JobOK
  <2> QED
    BY <1>10, <2>1 DEF SkipProjectTests, TypeOK, JobOK, database, history
<1> QED
  BY <1>1, <1>2, <1>3, <1>4, <1>5, <1>6, <1>7, <1>8, <1>9, <1>10 DEF Consume

LEMMA TypeOthers ==
  TypeOK /\ (Restart \/ (\E r \in Runs : Request(r)) \/ (\E s \in Streams : Stream(s))) => TypeOK'
<1>1. ASSUME TypeOK, Restart PROVE TypeOK'
  <2>1. job' \in [run : Runs \cup {None}, next : 1 .. Len(Scanners) + 1,
                  pc : {"idle", "prepare", "scanner", "create", "run", "count", "fail", "report"}]
    BY <1>1, EmptyTypes DEF Restart, JobOK
  <2>2. streams' \in [Streams -> [run : Runs \cup {None}, from : Nat, got : Nat, queue : Seq(Nat)]]
    BY <1>1, EmptyTypes DEF Restart, StreamOK
  <2>3. pending' \in Seq(Runs) /\ events' \in [Runs -> Seq(Events)]
    BY <1>1 DEF Restart
  <2> QED
    BY <1>1, <2>1, <2>2, <2>3 DEF Restart, TypeOK, database
<1>2. ASSUME TypeOK, NEW r \in Runs, Request(r) PROVE TypeOK'
  <2>1. Append(pending, r) \in Seq(Runs)
    BY <1>2 DEF TypeOK
  <2>2. CASE StartScan(r)
    BY <1>2, <2>1, <2>2 DEF StartScan, TypeOK, database, history
  <2>3. CASE CommitRun(r) \/ StartFails(r)
    BY <1>2, <2>3 DEF CommitRun, StartFails, TypeOK, database, history
  <2>4. CASE CancelReads(r)
    BY <1>2, <2>4 DEF CancelReads, TypeOK, database, history
  <2>5. CASE CancelWrites(r)
    BY <1>2, <2>5 DEF CancelWrites, TypeOK, history, Settled
  <2>6. CASE DeleteRun(r)
    <3>1. results' \in [Runs -> [Kinds -> {None, "running"} \cup Settled]]
      BY <1>2, <2>6 DEF DeleteRun, TypeOK
    <3> QED
      BY <1>2, <2>6, <3>1 DEF DeleteRun, TypeOK
  <2> QED
    BY <1>2, <2>2, <2>3, <2>4, <2>5, <2>6 DEF Request
<1>3. ASSUME TypeOK, NEW s \in Streams, Stream(s) PROVE TypeOK'
  <2>1. ASSUME NEW row, streams' = [streams EXCEPT ![s] = row], StreamOK(row)
        PROVE  streams' \in [Streams -> [run : Runs \cup {None}, from : Nat, got : Nat, queue : Seq(Nat)]]
    BY <1>3, <2>1 DEF TypeOK, StreamOK
  <2>2. ASSUME NEW r \in Runs, NEW from \in 0 .. Len(events[r]), Subscribe(s, r, from) PROVE TypeOK'
    <3>1. Len(events[r]) \in Nat
      BY <1>3 DEF TypeOK
    <3>2. Replay(r, from) \in Seq(Nat)
      BY <3>1 DEF Replay
    <3>3. StreamOK([run |-> r, from |-> from, got |-> from, queue |-> Replay(r, from)])
      BY <3>1, <3>2 DEF StreamOK
    <3> QED
      BY <1>3, <2>1, <2>2, <3>3 DEF Subscribe, TypeOK, database, history
  <2>3. CASE Deliver(s)
    <3>0. StreamOK(streams[s]) /\ streams[s].queue # <<>>
      BY <1>3, <2>3 DEF Deliver, TypeOK, StreamOK
    <3>1. Head(streams[s].queue) \in Nat /\ Tail(streams[s].queue) \in Seq(Nat)
      BY <3>0 DEF StreamOK
    <3>2. StreamOK([streams[s] EXCEPT !.got = Head(streams[s].queue), !.queue = Tail(@)])
      BY <3>0, <3>1 DEF StreamOK
    <3> QED
      BY <1>3, <2>1, <2>3, <3>2, EmptyTypes DEF Deliver, TypeOK, database, history
  <2>4. CASE Disconnect(s)
    BY <1>3, <2>1, <2>4, EmptyTypes DEF Disconnect, TypeOK, database, history
  <2> QED
    BY <1>3, <2>2, <2>3, <2>4 DEF Stream
<1> QED
  BY <1>1, <1>2, <1>3

-----------------------------------------------------------------------------
(***************************************************************************)
(* What is stored for a run, and when.                                     *)
(***************************************************************************)
StoreOK ==
  /\ TakenOnce
  /\ UncommittedIsEmpty
  /\ JobPlaced
  /\ InOrder
  /\ StoredWithStatus
  /\ CompletedAfterAll

LEMMA StoreInit == Init => StoreOK
BY Bounds DEF Init, StoreOK, Ended, TakenOnce, Waiting, UncommittedIsEmpty, JobPlaced, InOrder,
              StoredWithStatus, CompletedAfterAll, NoJob

(***************************************************************************)
(* The facts of a job that its steps use.                                  *)
(***************************************************************************)
LEMMA JobFacts ==
  ASSUME TypeOK, StoreOK
  PROVE  /\ job.next \in Nat /\ job.next >= 1 /\ job.next <= Len(Scanners) + 1
         /\ job.pc # "idle" => job.run \in Runs
         /\ job.pc \in {"create", "run"} => job.next \in 1 .. Len(Scanners) /\ Current \in Kinds
         /\ job.pc # "idle" => requests[job.run] # "none" /\ ~Waiting(job.run)
         /\ JobOK(job)
<1>1. job.next \in 1 .. Len(Scanners) + 1 /\ JobOK(job)
  BY DEF TypeOK, JobOK
<1>2. job.pc # "idle" => job.run \in Runs
  BY <1>1 DEF StoreOK, JobPlaced, JobOK
<1>3. job.pc \in {"create", "run"} => job.next \in 1 .. Len(Scanners)
  BY <1>1, Bounds DEF StoreOK, JobPlaced
<1> QED
  BY <1>1, <1>2, <1>3, Bounds DEF Current, StoreOK, TakenOnce

LEMMA StoreTake == TypeOK /\ StoreOK /\ Take => StoreOK'
<1> SUFFICES ASSUME TypeOK, StoreOK, Take PROVE StoreOK'
  OBVIOUS
<1> DEFINE r == pending[1]
<1>1. /\ pending \in Seq(Runs) /\ Len(pending) \in Nat /\ Len(pending) >= 1
      /\ r \in Runs /\ pending' = Tail(pending) /\ Head(pending) = r
      /\ Len(pending') = Len(pending) - 1
      /\ \A n \in 1 .. Len(pending') : pending'[n] = pending[n + 1]
  BY DEF TypeOK, Take
<1>2. Waiting(r)
  BY <1>1 DEF Waiting
<1>3. \A q \in Runs : Waiting(q)' => Waiting(q) /\ q # r
  <2> SUFFICES ASSUME NEW q \in Runs, NEW n \in 1 .. Len(pending'), pending'[n] = q
               PROVE  Waiting(q) /\ q # r
    BY DEF Waiting
  <2>1. n + 1 \in 1 .. Len(pending) /\ pending[n + 1] = q /\ n + 1 # 1 /\ 1 \in 1 .. Len(pending)
    BY <1>1
  <2> QED
    BY <2>1 DEF Waiting, StoreOK, TakenOnce
<1>4. job' = [run |-> r, pc |-> "prepare", next |-> 1] /\ UNCHANGED <<database, requests, events>>
  BY <1>1 DEF Take
<1>5. requests[r] # "none" /\ runs[r] # "completed" /\ \A k \in Kinds : results[r][k] = None
  BY <1>1, <1>2 DEF StoreOK, TakenOnce
<1>6. TakenOnce'
  <2>1. \A m, n \in 1 .. Len(pending') : pending'[m] = pending'[n] => m = n
    <3> SUFFICES ASSUME NEW m \in 1 .. Len(pending'), NEW n \in 1 .. Len(pending'), pending'[m] = pending'[n]
                 PROVE  m = n
      OBVIOUS
    <3>1. m + 1 \in 1 .. Len(pending) /\ n + 1 \in 1 .. Len(pending) /\ pending[m + 1] = pending[n + 1]
      BY <1>1
    <3>2. m + 1 = n + 1
      BY <3>1 DEF StoreOK, TakenOnce
    <3> QED
      BY <1>1, <3>2
  <2> QED
    BY <1>3, <1>4, <1>5, <2>1 DEF StoreOK, TakenOnce, database
<1>7. UncommittedIsEmpty' /\ JobPlaced' /\ StoredWithStatus' /\ CompletedAfterAll'
  BY <1>1, <1>4, <1>5, Bounds
  DEF StoreOK, Ended, UncommittedIsEmpty, JobPlaced, StoredWithStatus, CompletedAfterAll, database
<1>8. InOrder'
  BY <1>1, <1>4, <1>5, Bounds DEF InOrder, Ended, database
<1> QED
  BY <1>6, <1>7, <1>8 DEF StoreOK

(***************************************************************************)
(* A step that leaves the queue and the requests alone, and neither begins *)
(* a job nor stores anything for another run, leaves the others alone.     *)
(***************************************************************************)
LEMMA StoreOwnRun ==
  ASSUME TypeOK, StoreOK, NEW r \in Runs, requests[r] # "none", ~Waiting(r),
         UNCHANGED <<pending, requests>>,
         job'.run \in {r, job.run, None},
         \A q \in Runs : q # r => /\ results'[q] = results[q] /\ events'[q] = events[q]
                                  /\ runs'[q] = runs[q]
  PROVE  TakenOnce'
<1>1. \A q \in Runs : Waiting(q)' <=> Waiting(q)
  BY DEF Waiting
<1> QED
  BY <1>1, Bounds DEF StoreOK, TakenOnce

LEMMA StoreConsume == TypeOK /\ StoreOK /\ Consume => StoreOK'
<1> SUFFICES ASSUME TypeOK, StoreOK, Consume PROVE StoreOK'
  OBVIOUS
<1> DEFINE r == job.run
<1>0. /\ job.next \in Nat /\ job.next >= 1 /\ job.next <= Len(Scanners) + 1
      /\ job.pc # "idle" => r \in Runs
      /\ job.pc \in {"create", "run"} => job.next \in 1 .. Len(Scanners) /\ Current \in Kinds
      /\ job.pc # "idle" => requests[r] # "none" /\ ~Waiting(r)
      /\ JobOK(job)
  BY JobFacts
<1>t. /\ runs \in [Runs -> {None, "queued", "running"} \cup Settled]
      /\ results \in [Runs -> [Kinds -> {None, "running"} \cup Settled]]
      /\ found \in [Runs -> SUBSET Kinds]
  BY DEF TypeOK
<1>e. ASSUME NEW event \in Events, job.pc # "idle", Publish(r, event)
      PROVE  \A q \in Runs : q # r => events'[q] = events[q]
  BY <1>0, <1>e, Published
<1>1. CASE Prepare
  <2>1. TakenOnce'
    <3>1. \A q \in Runs : q # r => /\ results'[q] = results[q] /\ events'[q] = events[q]
                                   /\ runs'[q] = runs[q]
      BY <1>0, <1>1, <1>t, <1>e, EventTypes DEF Prepare
    <3> QED
      BY <1>0, <1>1, <3>1, StoreOwnRun DEF Prepare, JobOK
  <2>2. UncommittedIsEmpty' /\ JobPlaced' /\ StoredWithStatus'
    BY <1>0, <1>1, <1>t, Bounds DEF Prepare, JobOK, StoreOK, UncommittedIsEmpty, JobPlaced, StoredWithStatus
  <2>3. InOrder'
    BY <1>0, <1>1, <1>t, Bounds DEF Prepare, JobOK, StoreOK, Ended, InOrder
  <2>4. CompletedAfterAll'
    BY <1>0, <1>1, <1>t, Bounds DEF Prepare, JobOK, StoreOK, Ended, CompletedAfterAll
  <2> QED
    BY <2>1, <2>2, <2>3, <2>4 DEF StoreOK
<1>2. CASE AnnounceScanner
  <2>1. TakenOnce'
    <3>1. \A q \in Runs : q # r => /\ results'[q] = results[q] /\ events'[q] = events[q]
                                   /\ runs'[q] = runs[q]
      <4>1. job.next \in 1 .. Len(Scanners)
        BY <1>0, <1>2, Bounds DEF AnnounceScanner
      <4>2. Event("scanner_started", Current, None) \in Events
        BY <4>1, Bounds, EventTypes DEF Current
      <4> QED
        BY <1>0, <1>2, <4>2, <1>e DEF AnnounceScanner, database
    <3> QED
      BY <1>0, <1>2, <3>1, StoreOwnRun DEF AnnounceScanner, JobOK
  <2>2. UncommittedIsEmpty' /\ JobPlaced' /\ StoredWithStatus' /\ CompletedAfterAll'
    BY <1>0, <1>2, Bounds
    DEF AnnounceScanner, database, JobOK, StoreOK, Ended, UncommittedIsEmpty, JobPlaced, StoredWithStatus,
        CompletedAfterAll
  <2>3. InOrder'
    BY <1>0, <1>2, Bounds DEF AnnounceScanner, database, JobOK, StoreOK, Ended, InOrder
  <2> QED
    BY <2>1, <2>2, <2>3 DEF StoreOK
<1>3. CASE CreateScannerRun
  <2>0. /\ r \in Runs /\ Current \in Kinds /\ runs[r] # None /\ requests[r] = "done"
        /\ job.next \in 1 .. Len(Scanners) /\ Current = Scanners[job.next]
        /\ results[r][Current] = None
    BY <1>0, <1>3, Bounds DEF CreateScannerRun, StoreOK, Ended, UncommittedIsEmpty, InOrder, Current
  <2>1. /\ results'[r][Current] = "running"
        /\ \A k \in Kinds : k # Current => results'[r][k] = results[r][k]
        /\ \A q \in Runs : q # r => results'[q] = results[q]
    BY <1>3, <1>t, <2>0 DEF CreateScannerRun
  <2>2. \A n \in 1 .. Len(Scanners) : n # job.next => results'[r][Scanners[n]] = results[r][Scanners[n]]
    BY <2>0, <2>1, Bounds
  <2>3. job'.next = job.next /\ job'.run = r /\ job'.pc = "run" /\ Current' = Current
    BY <1>0, <1>3 DEF CreateScannerRun, JobOK, Current
  <2>4. TakenOnce'
    BY <1>0, <1>3, <2>0, <2>1, <2>3, StoreOwnRun DEF CreateScannerRun
  <2>5. UncommittedIsEmpty' /\ JobPlaced'
    BY <1>0, <1>3, <2>0, <2>1, <2>3, Bounds DEF CreateScannerRun, StoreOK, UncommittedIsEmpty, JobPlaced
  <2>6. StoredWithStatus'
    BY <1>3, <2>0, <2>1, Bounds DEF CreateScannerRun, StoreOK, StoredWithStatus
  <2>7. InOrder'
    <3>1. \A n \in job.next .. Len(Scanners) : n = job.next \/ results[r][Scanners[n]] = None
      BY <1>0, <1>3 DEF CreateScannerRun, StoreOK, Ended, InOrder
    <3>2. \A n \in 1 .. job.next - 1 : Ended(r, Scanners[n])
      BY <1>0, <1>3, <2>0 DEF CreateScannerRun, StoreOK, Ended, InOrder
    <3> QED
      BY <1>3, <2>0, <2>1, <2>2, <2>3, <3>1, <3>2, Bounds, SMTT(30) DEF CreateScannerRun, InOrder, Ended
  <2>8. CompletedAfterAll'
    BY <1>0, <1>3, <2>0, <2>1, <2>3 DEF CreateScannerRun, StoreOK, Ended, CompletedAfterAll
  <2> QED
    BY <2>4, <2>5, <2>6, <2>7, <2>8 DEF StoreOK
<1>4. ASSUME NEW status \in Settled, NEW kept \in BOOLEAN, FinishScanner(status, kept) PROVE StoreOK'
  <2>0. /\ r \in Runs /\ Current \in Kinds /\ requests[r] = "done"
        /\ job.next \in 1 .. Len(Scanners) /\ Current = Scanners[job.next]
        /\ results[r][Current] \in {None, "running"}
        /\ runs[r] # None => results[r][Current] = "running"
    <3>1. requests[r] # "done" => job.pc # "run"
      BY <1>0, <1>4 DEF FinishScanner, StoreOK, UncommittedIsEmpty
    <3> QED
      BY <1>0, <1>4, <3>1, Bounds DEF FinishScanner, StoreOK, Ended, InOrder, Current
  <2>1. /\ results'[r][Current] = IF results[r][Current] = None THEN None ELSE status
        /\ \A k \in Kinds : k # Current => results'[r][k] = results[r][k]
        /\ \A q \in Runs : q # r => results'[q] = results[q]
    BY <1>4, <1>t, <2>0 DEF FinishScanner, Stored
  <2>2. \A n \in 1 .. Len(Scanners) : n # job.next => results'[r][Scanners[n]] = results[r][Scanners[n]]
    BY <2>0, <2>1, Bounds
  <2>3. job'.next = job.next + 1 /\ job'.run = r /\ job'.pc = "scanner"
    BY <1>0, <1>4 DEF FinishScanner, JobOK
  <2>4. TakenOnce'
    <3>1. \A q \in Runs : q # r => events'[q] = events[q]
      BY <1>4, <2>0, <1>e, EventTypes DEF FinishScanner
    <3> QED
      BY <1>0, <1>4, <2>0, <2>1, <2>3, <3>1, StoreOwnRun DEF FinishScanner
  <2>5. UncommittedIsEmpty' /\ JobPlaced'
    BY <1>0, <1>4, <2>0, <2>1, <2>3, Bounds DEF FinishScanner, StoreOK, UncommittedIsEmpty, JobPlaced
  <2>6. StoredWithStatus'
    <3>1. /\ \A q \in Runs : q # r => found'[q] = found[q]
          /\ found'[r] = IF kept THEN found[r] \cup {Current} ELSE found[r]
          /\ kept => results[r][Current] = "running"
          /\ status = "completed" => kept \/ Current = ProjectTests
      BY <1>4, <1>t, <2>0 DEF FinishScanner
    <3>2. \A k \in Kinds : k \in found'[r] => results'[r][k] # None
      BY <2>0, <2>1, <3>1, Bounds DEF StoreOK, StoredWithStatus, Settled
    <3>3. \A k \in Kinds : results'[r][k] = "completed" => k \in found'[r] \/ k = ProjectTests
      BY <2>0, <2>1, <3>1, Bounds DEF StoreOK, StoredWithStatus
    <3> QED
      BY <2>1, <3>1, <3>2, <3>3 DEF StoreOK, StoredWithStatus
  <2>7. InOrder'
    <3>1. \A n \in job.next .. Len(Scanners) : n = job.next \/ results[r][Scanners[n]] = None
      BY <1>0, <1>4 DEF FinishScanner, StoreOK, Ended, InOrder
    <3>2. runs[r] # None => \A n \in 1 .. job.next - 1 : Ended(r, Scanners[n])
      BY <1>0, <1>4, <2>0 DEF FinishScanner, StoreOK, Ended, InOrder
    <3>3. runs[r] # None => \A n \in 1 .. job.next : Ended(r, Scanners[n])'
      <4> SUFFICES ASSUME runs[r] # None, NEW n \in 1 .. job.next
                   PROVE  Ended(r, Scanners[n])'
        OBVIOUS
      <4>1. CASE n = job.next
        BY <2>0, <2>1, <2>3, <4>1, Bounds, SMTT(30) DEF Ended
      <4>2. CASE n # job.next
        BY <2>0, <2>2, <2>3, <3>2, <4>2, Bounds DEF Ended
      <4> QED
        BY <4>1, <4>2
    <3>4. \A n \in job.next + 1 .. Len(Scanners) : results'[r][Scanners[n]] = None
      BY <2>0, <2>2, <3>1, Bounds
    <3>5. job'.next - 1 = job.next /\ runs' = runs
      BY <1>4, <2>0, <2>3 DEF FinishScanner
    <3>6. \A n \in job'.next .. Len(Scanners) : results'[job'.run][Scanners[n]] = None
      BY <2>3, <3>4
    <3>7. runs'[job'.run] # None =>
            \A n \in 1 .. job'.next - 1 : Ended(job.run, Scanners[n])'
      BY <2>3, <3>3, <3>5 DEF Ended
    <3> QED
      BY <2>3, <3>6, <3>7 DEF InOrder, Ended
  <2>8. CompletedAfterAll'
    BY <1>0, <1>4, <2>0, <2>1, <2>3 DEF FinishScanner, StoreOK, Ended, CompletedAfterAll
  <2> QED
    BY <2>4, <2>5, <2>6, <2>7, <2>8 DEF StoreOK
<1>5. CASE Complete
  <2>0. r \in Runs /\ job.next = Len(Scanners) + 1
    BY <1>0, <1>5, Bounds DEF Complete, ScannedAll
  <2>1. TakenOnce'
    BY <1>0, <1>5, <1>t, <2>0, StoreOwnRun DEF Complete, JobOK
  <2>2. runs[r] # None => \A k \in Kinds : Ended(r, k)
    <3>1. runs[r] # None => \A n \in 1 .. Len(Scanners) : Ended(r, Scanners[n])
      BY <1>0, <1>5, <2>0, Bounds DEF Complete, StoreOK, Ended, InOrder
    <3> QED
      BY <3>1, Bounds
  <2>3. UncommittedIsEmpty' /\ JobPlaced' /\ StoredWithStatus'
    BY <1>0, <1>5, <1>t, <2>0, Bounds
    DEF Complete, JobOK, StoreOK, UncommittedIsEmpty, JobPlaced, StoredWithStatus
  <2>4. InOrder'
    BY <1>0, <1>5, <1>t, <2>0, Bounds DEF Complete, JobOK, StoreOK, Ended, InOrder
  <2>5. CompletedAfterAll'
    BY <1>0, <1>5, <1>t, <2>0, <2>2, Bounds DEF Complete, JobOK, StoreOK, Ended, CompletedAfterAll
  <2> QED
    BY <2>1, <2>3, <2>4, <2>5 DEF StoreOK
<1>6. CASE FailRun
  <2>1. TakenOnce'
    BY <1>0, <1>6, <1>t, StoreOwnRun DEF FailRun, JobOK
  <2>2. UncommittedIsEmpty' /\ JobPlaced'
    BY <1>0, <1>6, <1>t, Bounds DEF FailRun, JobOK, StoreOK, UncommittedIsEmpty, JobPlaced
  <2>5. StoredWithStatus'
    <3>1. /\ \A q \in Runs : q # r => found'[q] = found[q]
          /\ found[r] \subseteq found'[r] /\ found'[r] \subseteq found[r] \cup Unfinished
          /\ UNCHANGED results
      BY <1>0, <1>6, <1>t DEF FailRun
    <3>2. \A k \in Unfinished : results[r][k] # None
      BY Bounds DEF Unfinished
    <3> QED
      BY <3>1, <3>2 DEF StoreOK, StoredWithStatus
  <2>3. InOrder'
    BY <1>0, <1>6, <1>t, Bounds DEF FailRun, JobOK, StoreOK, Ended, InOrder
  <2>4. CompletedAfterAll'
    BY <1>0, <1>6, <1>t, Bounds DEF FailRun, JobOK, StoreOK, CompletedAfterAll, Ended
  <2> QED
    BY <2>1, <2>2, <2>3, <2>4, <2>5 DEF StoreOK
<1>7. CASE Raise
  <2>1. TakenOnce'
    BY <1>0, <1>7, StoreOwnRun DEF Raise, database, JobOK
  <2>2. /\ UNCHANGED <<runs, results, found, requests>> /\ r \in Runs
        /\ job'.run = r /\ job'.pc = "fail" /\ job'.next = job.next /\ job.pc # "idle"
    BY <1>0, <1>7 DEF Raise, database, JobOK
  <2>3. UncommittedIsEmpty' /\ JobPlaced' /\ StoredWithStatus' /\ CompletedAfterAll'
    BY <2>2, Bounds
    DEF StoreOK, Ended, UncommittedIsEmpty, JobPlaced, StoredWithStatus, CompletedAfterAll
  <2>4. InOrder'
    <3>1. runs[r] # None => \A n \in 1 .. job.next - 1 : Ended(r, Scanners[n])
      BY <2>2 DEF StoreOK, InOrder
    <3>2. \A n \in job.next .. Len(Scanners) : results[r][Scanners[n]] = None \/ n = job.next
      BY <2>2 DEF StoreOK, InOrder
    <3> QED
      BY <2>2, <3>1, <3>2 DEF InOrder, Ended
  <2> QED
    BY <2>1, <2>3, <2>4 DEF StoreOK
<1>8. CASE PublishCompletion \/ PublishFailure \/ SessionBreaks
  <2>1. job' = NoJob /\ UNCHANGED <<database, requests, pending>> /\ r \in Runs
    BY <1>0, <1>8 DEF PublishCompletion, PublishFailure, SessionBreaks
  <2>2. \A q \in Runs : q # r => events'[q] = events[q]
    BY <1>0, <1>8, <1>e, EventTypes DEF PublishCompletion, PublishFailure, SessionBreaks, Settled
  <2>3. TakenOnce'
    BY <1>0, <1>8, <2>1, <2>2, StoreOwnRun
    DEF NoJob, database, PublishCompletion, PublishFailure, SessionBreaks
  <2>4. UncommittedIsEmpty' /\ JobPlaced' /\ StoredWithStatus' /\ CompletedAfterAll' /\ InOrder'
    BY <2>1, Bounds
    DEF NoJob, database, StoreOK, Ended, UncommittedIsEmpty, JobPlaced, StoredWithStatus,
        CompletedAfterAll, InOrder
  <2> QED
    BY <2>3, <2>4 DEF StoreOK
<1>9. CASE SkipProjectTests
  <2>1. /\ UNCHANGED <<runs, results, found, requests, pending, events>> /\ r \in Runs
        /\ job'.run = r /\ job'.pc = "scanner" /\ job.pc = "scanner"
        /\ job.next = Len(Scanners) /\ job'.next = job.next + 1
    BY <1>0, <1>9 DEF SkipProjectTests, JobOK, database
  <2>2. TakenOnce'
    BY <1>0, <2>1, StoreOwnRun
  <2>3. UncommittedIsEmpty'
    <3>1. Scanners[job.next] = ProjectTests
      BY <2>1 DEF ProjectTests
    <3>2. \A n \in 1 .. job'.next - 1 : n = job.next \/ n \in 1 .. job.next - 1
      BY <1>0, <2>1
    <3> QED
      BY <2>1, <3>1, <3>2 DEF StoreOK, UncommittedIsEmpty
  <2>4. InOrder'
    <3>1. results[r][Scanners[Len(Scanners)]] = None
      BY <2>1, Bounds DEF StoreOK, Ended, InOrder
    <3>2. runs[r] # None => \A n \in 1 .. job.next : Ended(r, Scanners[n])
      BY <2>1, <3>1, Bounds DEF StoreOK, InOrder, Ended, ProjectTests
    <3>3. job'.next - 1 = job.next /\ \A n \in job'.next .. Len(Scanners) : FALSE
      BY <2>1, Bounds
    <3> QED
      BY <2>1, <3>2, <3>3 DEF InOrder, Ended
  <2>5. JobPlaced' /\ StoredWithStatus' /\ CompletedAfterAll'
    BY <2>1, Bounds DEF StoreOK, JobPlaced, StoredWithStatus, CompletedAfterAll, Ended
  <2> QED
    BY <2>2, <2>3, <2>4, <2>5 DEF StoreOK
<1> QED
  BY <1>1, <1>2, <1>3, <1>4, <1>5, <1>6, <1>7, <1>8, <1>9, StoreTake DEF Consume

LEMMA StoreRequest == ASSUME TypeOK, StoreOK, NEW r \in Runs, Request(r) PROVE StoreOK'
<1>t. /\ runs \in [Runs -> {None, "queued", "running"} \cup Settled]
      /\ results \in [Runs -> [Kinds -> {None, "running"} \cup Settled]]
      /\ found \in [Runs -> SUBSET Kinds]
      /\ requests \in [Runs -> {"none", "sent", "done"}]
  BY DEF TypeOK
<1>1. CASE StartScan(r)
  <2>0. /\ pending \in Seq(Runs) /\ Len(pending) \in Nat
        /\ pending' = Append(pending, r) /\ Len(pending') = Len(pending) + 1
        /\ pending'[Len(pending) + 1] = r
        /\ \A n \in 1 .. Len(pending) : pending'[n] = pending[n]
    BY <1>1 DEF StartScan, TypeOK
  <2>1. ~Waiting(r) /\ requests[r] = "none"
    BY <1>1 DEF StartScan, StoreOK, TakenOnce
  <2>2. \A q \in Runs : Waiting(q)' <=> Waiting(q) \/ q = r
    <3> SUFFICES ASSUME NEW q \in Runs PROVE Waiting(q)' <=> Waiting(q) \/ q = r
      OBVIOUS
    <3>1. ASSUME Waiting(q) PROVE Waiting(q)'
      <4>1. PICK n \in 1 .. Len(pending) : pending[n] = q
        BY <3>1 DEF Waiting
      <4>2. n \in 1 .. Len(pending') /\ pending'[n] = q
        BY <2>0, <4>1
      <4> QED
        BY <4>2 DEF Waiting
    <3>2. Waiting(r)'
      <4>1. Len(pending) + 1 \in 1 .. Len(pending')
        BY <2>0
      <4> QED
        BY <2>0, <4>1 DEF Waiting
    <3>3. ASSUME NEW n \in 1 .. Len(pending'), pending'[n] = q PROVE Waiting(q) \/ q = r
      <4>1. n \in 1 .. Len(pending) \/ n = Len(pending) + 1
        BY <2>0
      <4> QED
        BY <2>0, <3>3, <4>1 DEF Waiting
    <3> QED
      BY <3>1, <3>2, <3>3 DEF Waiting
  <2>3. \A m, n \in 1 .. Len(pending') : pending'[m] = pending'[n] => m = n
    <3> SUFFICES ASSUME NEW m \in 1 .. Len(pending'), NEW n \in 1 .. Len(pending'), pending'[m] = pending'[n]
                 PROVE  m = n
      OBVIOUS
    <3>1. m \in 1 .. Len(pending) \/ m = Len(pending) + 1
      BY <2>0
    <3>2. n \in 1 .. Len(pending) \/ n = Len(pending) + 1
      BY <2>0
    <3>3. \A i \in 1 .. Len(pending) : pending[i] # r
      BY <2>1 DEF Waiting
    <3> QED
      BY <2>0, <3>1, <3>2, <3>3 DEF StoreOK, TakenOnce
  <2>4. requests'[r] = "sent" /\ \A q \in Runs : q # r => requests'[q] = requests[q]
    BY <1>1, <1>t DEF StartScan
  <2>5. UNCHANGED <<database, job, events>>
    BY <1>1 DEF StartScan
  <2>6. TakenOnce'
    BY <2>1, <2>2, <2>3, <2>4, <2>5 DEF StoreOK, TakenOnce, database
  <2>7. UncommittedIsEmpty'
    BY <2>1, <2>4, <2>5 DEF StoreOK, UncommittedIsEmpty, database
  <2> QED
    BY <2>5, <2>6, <2>7
    DEF StoreOK, Ended, JobPlaced, InOrder, StoredWithStatus, CompletedAfterAll, database, Current
<1>2. CASE CommitRun(r) \/ StartFails(r)
  <2>1. /\ requests[r] = "sent" /\ requests'[r] = "done"
        /\ \A q \in Runs : q # r => requests'[q] = requests[q] /\ runs'[q] = runs[q]
        /\ runs'[r] \in {runs[r], "queued"}
        /\ UNCHANGED <<results, found, pending, job, events>>
    BY <1>2, <1>t DEF CommitRun, StartFails, database
  <2>2. \A q \in Runs : Waiting(q)' <=> Waiting(q)
    BY <2>1 DEF Waiting
  <2>3. TakenOnce' /\ UncommittedIsEmpty' /\ JobPlaced' /\ StoredWithStatus' /\ CompletedAfterAll'
    BY <2>1, <2>2
    DEF StoreOK, Ended, TakenOnce, UncommittedIsEmpty, JobPlaced, StoredWithStatus, CompletedAfterAll
  <2>4. job.run = r => job.pc # "run" /\ \A n \in 1 .. job.next - 1 : Ended(r, Scanners[n])
    <3>1. \A n \in 1 .. job.next - 1 : n \in 1 .. Len(Scanners)
      BY JobFacts, Bounds
    <3>2. \A n \in 1 .. job.next - 1 : Scanners[n] \in Kinds
      BY <3>1, Bounds
    <3> QED
      BY <2>1, <3>2 DEF StoreOK, UncommittedIsEmpty, Ended
  <2>5. job.pc # "idle" => job.run \in Runs
    BY JobFacts
  <2>6. InOrder'
    BY <2>1, <2>4, <2>5 DEF StoreOK, InOrder, Current, Ended
  <2> QED
    BY <2>3, <2>6 DEF StoreOK
<1>3. CASE CancelReads(r)
  <2>1. UNCHANGED <<database, requests, pending, job, events>>
    BY <1>3 DEF CancelReads
  <2> QED
    BY <2>1
    DEF StoreOK, Ended, TakenOnce, Waiting, UncommittedIsEmpty, JobPlaced, InOrder, StoredWithStatus,
        CompletedAfterAll, database, Current
<1>4. CASE CancelWrites(r)
  <2>1. /\ UNCHANGED <<results, found, requests, pending, job, events>>
        /\ \A q \in Runs : runs'[q] = runs[q] \/ (runs[q] # None /\ runs'[q] = "failed")
    BY <1>4, <1>t DEF CancelWrites
  <2>2. \A q \in Runs : Waiting(q)' <=> Waiting(q)
    BY <2>1 DEF Waiting
  <2>3. TakenOnce' /\ UncommittedIsEmpty' /\ JobPlaced' /\ StoredWithStatus' /\ CompletedAfterAll'
    BY <2>1, <2>2
    DEF StoreOK, Ended, TakenOnce, UncommittedIsEmpty, JobPlaced, StoredWithStatus, CompletedAfterAll
  <2>5. job.pc # "idle" => job.run \in Runs
    BY JobFacts
  <2>6. InOrder'
    BY <2>1, <2>5, Bounds DEF StoreOK, Ended, InOrder, Current
  <2> QED
    BY <2>3, <2>6 DEF StoreOK
<1>5. CASE DeleteRun(r)
  <2>1. /\ UNCHANGED <<requests, pending, job, events>>
        /\ runs[r] # None /\ runs'[r] = None /\ found'[r] = {}
        /\ \A k \in Kinds : results'[r][k] = None
        /\ \A q \in Runs : q # r => /\ runs'[q] = runs[q] /\ results'[q] = results[q]
                                    /\ found'[q] = found[q]
    BY <1>5, <1>t DEF DeleteRun
  <2>2. \A q \in Runs : Waiting(q)' <=> Waiting(q)
    BY <2>1 DEF Waiting
  <2>3. TakenOnce' /\ UncommittedIsEmpty' /\ JobPlaced' /\ StoredWithStatus' /\ CompletedAfterAll'
    BY <2>1, <2>2, Bounds
    DEF StoreOK, Ended, TakenOnce, UncommittedIsEmpty, JobPlaced, StoredWithStatus, CompletedAfterAll
  <2>5. /\ job.pc # "idle" => job.run \in Runs
        /\ job.next \in Nat /\ job.next >= 1
        /\ job.pc = "run" => job.next \in 1 .. Len(Scanners) /\ Current \in Kinds
    BY JobFacts
  <2>6. InOrder'
    <3>1. \A n \in job.next .. Len(Scanners) : Scanners[n] \in Kinds
      BY <2>5, Bounds
    <3>2. CASE job.run = r
      BY <2>1, <2>5, <3>1, <3>2 DEF InOrder, Ended, Current
    <3>3. CASE job.run # r
      BY <2>1, <2>5, <3>3 DEF StoreOK, Ended, InOrder, Current
    <3> QED
      BY <3>2, <3>3
  <2> QED
    BY <2>3, <2>6 DEF StoreOK
<1> QED
  BY <1>1, <1>2, <1>3, <1>4, <1>5 DEF Request

LEMMA StoreRestart == TypeOK /\ StoreOK /\ Restart => StoreOK'
<1> SUFFICES ASSUME TypeOK, StoreOK, Restart PROVE StoreOK'
  OBVIOUS
<1>1. /\ job' = NoJob /\ pending' = <<>> /\ UNCHANGED database
      /\ \A r \in Runs : events'[r] = <<>>
      /\ \A r \in Runs : requests'[r] = "none" <=> requests[r] = "none"
      /\ \A r \in Runs : requests'[r] # "done" => requests[r] # "done"
  BY DEF Restart
<1>2. Len(pending') = 0
  BY <1>1
<1>3. \A q \in Runs : ~Waiting(q)'
  BY <1>2 DEF Waiting
<1>4. \A m, n \in 1 .. Len(pending') : pending'[m] = pending'[n] => m = n
  BY <1>2
<1>5. TakenOnce'
  BY <1>1, <1>3, <1>4, Bounds DEF StoreOK, TakenOnce, NoJob, database
<1> QED
  BY <1>1, <1>5, Bounds
  DEF StoreOK, Ended, UncommittedIsEmpty, JobPlaced, InOrder, StoredWithStatus, CompletedAfterAll, NoJob, database

LEMMA StoreOthers ==
  StoreOK /\ ((\E s \in Streams : Stream(s)) \/ UNCHANGED vars) => StoreOK'
<1> SUFFICES ASSUME StoreOK, (\E s \in Streams : Stream(s)) \/ UNCHANGED vars PROVE StoreOK'
  OBVIOUS
<1>1. UNCHANGED <<database, requests, pending, job, events>>
  BY DEF Stream, Subscribe, Deliver, Disconnect, vars
<1> QED
  BY <1>1
  DEF StoreOK, Ended, TakenOnce, Waiting, UncommittedIsEmpty, JobPlaced, InOrder, StoredWithStatus,
      CompletedAfterAll, database, Current

LEMMA StoreNext == TypeOK /\ StoreOK /\ [Next]_vars => TypeOK' /\ StoreOK'
<1>1. TypeOK /\ UNCHANGED vars => TypeOK'
  BY DEF vars, database, history, TypeOK
<1>2. StoreOK => JobPlaced
  BY DEF StoreOK
<1> QED
  BY <1>1, <1>2, TypeConsume, TypeOthers, StoreConsume, StoreRequest, StoreRestart, StoreOthers DEF Next

LEMMA StoreAlways == Spec => [](TypeOK /\ StoreOK)
BY TypeInit, StoreInit, StoreNext, PTL DEF Spec

(***************************************************************************)
(* Type correctness.                                                       *)
(***************************************************************************)
THEOREM TypeCorrect == Spec => []TypeOK
BY StoreAlways, PTL

(***************************************************************************)
(* A completed run has the results of all its scanners, the findings of    *)
(* those that succeeded and none of a scanner that did not end: the scan   *)
(* is completed only after its last scanner, what is left of one that was  *)
(* raised out of fails the run, a scan is taken once, and whoever takes    *)
(* the row away takes the results.                                         *)
(***************************************************************************)
THEOREM CompletedIsWhole == Spec => []CompletedRunIsWhole
<1>1. TypeOK /\ StoreOK => CompletedRunIsWhole
  BY Bounds DEF TypeOK, StoreOK, StoredWithStatus, CompletedAfterAll, Ended, CompletedRunIsWhole, Settled
<1> QED
  BY <1>1, StoreAlways, PTL

-----------------------------------------------------------------------------
(***************************************************************************)
(* Streams.  A subscriber's queue is never full when an event is           *)
(* published, since a scan publishes fewer events than it has slots.       *)
(***************************************************************************)
Counted == TypeOK /\ StoreOK /\ EventsCounted /\ StreamHasNoGap

LEMMA CountedInit == Init => Counted
<1> SUFFICES ASSUME Init PROVE Counted
  OBVIOUS
<1>1. EventsCounted /\ StreamHasNoGap
  BY Bounds DEF Init, EventsCounted, NoJob, StreamHasNoGap, NoStream
<1> QED
  BY <1>1, TypeInit, StoreInit DEF Counted

LEMMA StreamFacts ==
  ASSUME TypeOK, StreamHasNoGap, NEW s \in Streams, streams[s].run # None
  PROVE  /\ streams[s].run \in Runs
         /\ streams[s].got \in Nat /\ streams[s].queue \in Seq(Nat) /\ Len(streams[s].queue) \in Nat
         /\ streams[s].got + Len(streams[s].queue) = Len(events[streams[s].run])
         /\ \A n \in 1 .. Len(streams[s].queue) : streams[s].queue[n] = streams[s].got + n
BY DEF TypeOK, StreamHasNoGap

LEMMA GotAndQueued ==
  ASSUME NEW got \in Nat, NEW queued \in Nat
  PROVE  /\ got + (queued + 1) = (got + queued) + 1
         /\ \A n : n = queued + 1 => got + n = (got + queued) + 1
OBVIOUS

LEMMA NoGapPublished ==
  ASSUME TypeOK, StreamHasNoGap, NEW r \in Runs, NEW event \in Events, Publish(r, event),
         Len(events[r]) < QueueSize
  PROVE  StreamHasNoGap'
<1> SUFFICES ASSUME NEW s \in Streams, streams'[s].run # None
             PROVE  /\ streams'[s].got + Len(streams'[s].queue) = Len(events'[streams'[s].run])
                    /\ \A n \in 1 .. Len(streams'[s].queue) :
                          streams'[s].queue[n] = streams'[s].got + n
  BY DEF StreamHasNoGap
<1>1. streams'[s] = Offered(streams[s], r, Len(events[r]) + 1) /\ streams[s].run = streams'[s].run
  BY DEF Publish, Offered, TypeOK
<1>2. /\ streams[s].run \in Runs
      /\ streams[s].got \in Nat /\ streams[s].queue \in Seq(Nat) /\ Len(streams[s].queue) \in Nat
      /\ streams[s].got + Len(streams[s].queue) = Len(events[streams[s].run])
      /\ \A n \in 1 .. Len(streams[s].queue) : streams[s].queue[n] = streams[s].got + n
  BY <1>1, StreamFacts
<1>3. CASE streams[s].run # r
  BY <1>1, <1>2, <1>3, Published DEF Offered
<1>4. CASE streams[s].run = r
  <2>1. Len(events[r]) \in Nat /\ Len(events'[r]) = Len(events[r]) + 1
    BY Published
  <2>2. Len(streams[s].queue) < QueueSize
    BY <1>2, <1>4, <2>1, Bounds, SMTT(30)
  <2> DEFINE q == Append(streams[s].queue, Len(events[r]) + 1)
  <2>3. streams'[s] = [streams[s] EXCEPT !.queue = q]
    BY <1>1, <1>4, <2>2 DEF Offered
  <2>4. streams'[s].queue = q /\ streams'[s].got = streams[s].got /\ streams'[s].run = r
    BY <1>4, <2>3 DEF TypeOK
  <2>5. /\ Len(q) = Len(streams[s].queue) + 1
        /\ q[Len(streams[s].queue) + 1] = Len(events[r]) + 1
        /\ \A n \in 1 .. Len(streams[s].queue) : q[n] = streams[s].queue[n]
    BY <1>2, <2>1
  <2> HIDE DEF q
  <2>6. ASSUME NEW n \in 1 .. Len(q) PROVE q[n] = streams[s].got + n
    <3>1. n \in 1 .. Len(streams[s].queue) \/ n = Len(streams[s].queue) + 1
      BY <1>2, <2>5
    <3>2. CASE n \in 1 .. Len(streams[s].queue)
      BY <1>2, <2>5, <3>2
    <3>3. CASE n = Len(streams[s].queue) + 1
      <4>1. Len(events[r]) = streams[s].got + Len(streams[s].queue)
        BY <1>2, <1>4
      <4>2. q[n] = Len(events[r]) + 1
        BY <2>5, <3>3
      <4>3. streams[s].got \in Nat /\ Len(streams[s].queue) \in Nat
        BY <1>2
      <4> QED
        BY <3>3, <4>1, <4>2, <4>3, GotAndQueued, Zenon
    <3> QED
      BY <3>1, <3>2, <3>3
  <2>7. \A n \in 1 .. Len(q) : q[n] = streams[s].got + n
    BY <2>6
  <2>8. streams[s].got + Len(q) = Len(events'[r])
    <3>1. streams[s].got \in Nat /\ Len(streams[s].queue) \in Nat
      BY <1>2
    <3>2. Len(events[r]) = streams[s].got + Len(streams[s].queue)
      BY <1>2, <1>4
    <3> QED
      BY <2>1, <2>5, <3>1, <3>2, GotAndQueued, Zenon
  <2>9. \A n \in 1 .. Len(streams'[s].queue) : streams'[s].queue[n] = streams'[s].got + n
    BY <2>4, <2>7, Zenon
  <2>10. streams'[s].got + Len(streams'[s].queue) = Len(events'[streams'[s].run])
    BY <2>4, <2>8, Zenon
  <2> QED
    BY <2>9, <2>10
<1> QED
  BY <1>3, <1>4

LEMMA CountedConsume == Counted /\ Consume => EventsCounted' /\ StreamHasNoGap'
<1> SUFFICES ASSUME Counted, Consume PROVE EventsCounted' /\ StreamHasNoGap'
  OBVIOUS
<1> DEFINE r == job.run
           size == Len(events[r])
<1> USE DEF Counted
<1>0. /\ job.next \in Nat /\ job.next >= 1 /\ job.next <= Len(Scanners) + 1
      /\ job.pc # "idle" => r \in Runs
      /\ job.pc \in {"create", "run"} => job.next \in 1 .. Len(Scanners) /\ Current \in Kinds
      /\ JobOK(job)
  BY JobFacts
<1>1. job.pc # "idle" => size \in Nat /\ size < QueueSize
  <2>1. job.pc # "idle" => size \in Nat
    BY <1>0 DEF TypeOK
  <2>2. job.pc = "prepare" => size = 0
    BY DEF EventsCounted
  <2>3. job.pc \in {"create", "run"} => job.next <= Len(Scanners)
    BY <1>0
  <2>4. job.pc # "idle" => size <= 2 * Len(Scanners) + 1
    BY <1>0, <2>1, <2>2, <2>3, Bounds DEF EventsCounted, JobOK
  <2> QED
    BY <2>1, <2>4, Bounds
<1>2. ASSUME NEW event \in Events, job.pc # "idle", Publish(r, event)
      PROVE  StreamHasNoGap' /\ Len(events'[r]) = size + 1
  BY <1>0, <1>1, <1>2, NoGapPublished, Published
<1>3. ASSUME UNCHANGED <<events, streams>> PROVE StreamHasNoGap'
  BY <1>3 DEF StreamHasNoGap
<1>4. CASE Take
  <2>1. Head(pending) = pending[1] /\ 1 \in 1 .. Len(pending) /\ pending[1] \in Runs
    BY <1>4 DEF Take, TypeOK
  <2>2. events[Head(pending)] = <<>>
    BY <2>1 DEF StoreOK, TakenOnce, Waiting
  <2> QED
    BY <1>3, <1>4, <2>2 DEF Take, EventsCounted
<1>5. CASE Prepare
  <2>1. job'.pc = "scanner" /\ job'.run = r /\ job'.next = job.next /\ size = 0 /\ r \in Runs
    BY <1>0, <1>5 DEF Prepare, JobOK, EventsCounted
  <2>2. StreamHasNoGap' /\ Len(events'[r]) = 1
    BY <1>2, <1>5, <2>1, EventTypes DEF Prepare
  <2> QED
    BY <1>0, <2>1, <2>2 DEF EventsCounted
<1>6. CASE AnnounceScanner
  <2>1. job'.pc = "create" /\ job'.run = r /\ job'.next = job.next /\ r \in Runs
    BY <1>0, <1>6 DEF AnnounceScanner, JobOK
  <2>2. Event("scanner_started", Current, None) \in Events
    BY <1>0, <1>6, Bounds, EventTypes DEF AnnounceScanner, Current
  <2>3. StreamHasNoGap' /\ Len(events'[r]) = size + 1
    BY <1>2, <1>6, <2>2 DEF AnnounceScanner
  <2>4. size <= 2 * job.next - 1 /\ size \in Nat
    BY <1>1, <1>6 DEF AnnounceScanner, EventsCounted
  <2> QED
    BY <1>0, <2>1, <2>3, <2>4 DEF EventsCounted
<1>7. CASE CreateScannerRun
  <2>1. job'.pc = "run" /\ job'.run = r /\ job'.next = job.next
    BY <1>0, <1>7 DEF CreateScannerRun, JobOK
  <2> QED
    BY <1>3, <1>7, <2>1 DEF CreateScannerRun, EventsCounted
<1>8. ASSUME NEW status \in Settled, NEW kept \in BOOLEAN, FinishScanner(status, kept)
      PROVE  EventsCounted' /\ StreamHasNoGap'
  <2>1. job'.pc = "scanner" /\ job'.run = r /\ job'.next = job.next + 1
    BY <1>0, <1>8 DEF FinishScanner, JobOK
  <2>2. StreamHasNoGap' /\ Len(events'[r]) = size + 1
    BY <1>0, <1>2, <1>8, EventTypes DEF FinishScanner
  <2>3. size <= 2 * job.next /\ size \in Nat
    BY <1>1, <1>8 DEF FinishScanner, EventsCounted
  <2> QED
    BY <1>0, <2>1, <2>2, <2>3 DEF EventsCounted
<1>9. CASE Complete \/ Raise \/ FailRun
  <2>1. /\ job'.pc \in {"count", "fail", "report"} /\ job'.run = r /\ job'.next = job.next
        /\ UNCHANGED <<events, streams>>
        /\ job.pc \in {"prepare", "scanner", "create", "run", "count", "fail"}
    BY <1>0, <1>9 DEF Complete, Raise, FailRun, JobOK
  <2>2. size \in Nat /\ size <= 2 * Len(Scanners) + 1
    <3>1. job.pc = "prepare" => size = 0
      BY DEF EventsCounted
    <3>2. job.pc \in {"create", "run"} => size <= 2 * Len(Scanners)
      BY <1>0, <1>1, Bounds DEF EventsCounted
    <3> QED
      BY <1>0, <1>1, <2>1, <3>1, <3>2, Bounds DEF EventsCounted
  <2> QED
    BY <1>3, <2>1, <2>2 DEF EventsCounted
<1>10. CASE PublishCompletion \/ PublishFailure
  <2>1. job' = NoJob
    BY <1>10 DEF PublishCompletion, PublishFailure
  <2>2. StreamHasNoGap'
    BY <1>2, <1>10, EventTypes DEF PublishCompletion, PublishFailure, Settled
  <2> QED
    BY <2>1, <2>2 DEF NoJob, EventsCounted
<1>11. CASE SessionBreaks
  BY <1>3, <1>11 DEF SessionBreaks, NoJob, EventsCounted
<1>12. CASE SkipProjectTests
  <2>1. /\ job'.pc = "scanner" /\ job'.run = r /\ job'.next = job.next + 1 /\ job.pc = "scanner"
        /\ UNCHANGED <<events, streams>>
    BY <1>0, <1>12 DEF SkipProjectTests, JobOK
  <2>2. size <= 2 * job.next - 1 /\ size \in Nat
    BY <1>1, <2>1 DEF EventsCounted
  <2> QED
    BY <1>0, <1>3, <2>1, <2>2 DEF EventsCounted
<1> QED
  BY <1>4, <1>5, <1>6, <1>7, <1>8, <1>9, <1>10, <1>11, <1>12 DEF Consume

LEMMA CountedNext == Counted /\ [Next]_vars => Counted'
<1> SUFFICES ASSUME Counted, [Next]_vars PROVE EventsCounted' /\ StreamHasNoGap'
  BY StoreNext DEF Counted
<1> USE DEF Counted
<1>1. ASSUME UNCHANGED <<job, events, streams>> PROVE EventsCounted' /\ StreamHasNoGap'
  BY <1>1 DEF EventsCounted, StreamHasNoGap
<1>2. ASSUME NEW r \in Runs, Request(r) PROVE EventsCounted' /\ StreamHasNoGap'
  BY <1>1, <1>2 DEF Request, StartScan, CommitRun, StartFails, CancelReads, CancelWrites, DeleteRun
<1>3. CASE Restart
  BY <1>3 DEF Restart, NoJob, NoStream, EventsCounted, StreamHasNoGap
<1>4. ASSUME NEW s \in Streams, Stream(s) PROVE EventsCounted' /\ StreamHasNoGap'
  <2>1. UNCHANGED <<job, events>>
    BY <1>4 DEF Stream, Subscribe, Deliver, Disconnect
  <2>2. EventsCounted'
    BY <2>1 DEF EventsCounted
  <2>3. \A t \in Streams : t # s => streams'[t] = streams[t]
    BY <1>4 DEF Stream, Subscribe, Deliver, Disconnect, TypeOK
  <2>4. ASSUME streams'[s].run # None
        PROVE  /\ streams'[s].got + Len(streams'[s].queue) = Len(events[streams'[s].run])
               /\ \A n \in 1 .. Len(streams'[s].queue) :
                     streams'[s].queue[n] = streams'[s].got + n
    <3>1. ASSUME NEW r \in Runs, NEW from \in 0 .. Len(events[r]), Subscribe(s, r, from)
          PROVE  /\ streams'[s].got + Len(streams'[s].queue) = Len(events[streams'[s].run])
                 /\ \A n \in 1 .. Len(streams'[s].queue) :
                       streams'[s].queue[n] = streams'[s].got + n
      <4>1. streams'[s] = [run |-> r, from |-> from, got |-> from, queue |-> Replay(r, from)]
        BY <3>1 DEF Subscribe, TypeOK
      <4>2. Len(events[r]) \in Nat /\ Len(events[r]) - from \in Nat
        BY DEF TypeOK
      <4>3. /\ Len(Replay(r, from)) = Len(events[r]) - from
            /\ \A n \in 1 .. Len(events[r]) - from : Replay(r, from)[n] = from + n
        BY <4>2 DEF Replay
      <4>4. /\ streams'[s].run = r /\ streams'[s].got = from
            /\ streams'[s].queue = Replay(r, from)
        BY <4>1
      <4>5. from \in Nat /\ from + (Len(events[r]) - from) = Len(events[r])
        BY <4>2
      <4> QED
        BY <4>3, <4>4, <4>5
    <3>2. CASE Deliver(s)
      <4> DEFINE q == streams[s].queue
      <4>1. streams[s].run # None /\ q # <<>>
        BY <3>2 DEF Deliver
      <4>2. /\ streams[s].got \in Nat /\ q \in Seq(Nat) /\ Len(q) \in Nat
            /\ streams[s].got + Len(q) = Len(events[streams[s].run])
            /\ \A n \in 1 .. Len(q) : q[n] = streams[s].got + n
        BY <4>1, StreamFacts
      <4>3. streams'[s] = [streams[s] EXCEPT !.got = Head(q), !.queue = Tail(q)]
        BY <2>4, <3>2 DEF Deliver, TypeOK, NoStream
      <4>4. /\ streams'[s].got = Head(q) /\ streams'[s].queue = Tail(q)
            /\ streams'[s].run = streams[s].run
        BY <4>3 DEF TypeOK
      <4>5. /\ Len(q) >= 1 /\ Head(q) = q[1] /\ Len(Tail(q)) = Len(q) - 1
            /\ \A n \in 1 .. Len(q) - 1 : Tail(q)[n] = q[n + 1]
        BY <4>1, <4>2
      <4>6. Head(q) = streams[s].got + 1
        BY <4>2, <4>5
      <4>7. ASSUME NEW n \in 1 .. Len(q) - 1 PROVE Tail(q)[n] = Head(q) + n
        <5>1. n + 1 \in 1 .. Len(q)
          BY <4>2
        <5>2. Tail(q)[n] = q[n + 1] /\ q[n + 1] = streams[s].got + (n + 1)
          BY <4>2, <4>5, <5>1
        <5>3. n \in Int /\ streams[s].got \in Int
          BY <4>2
        <5>4. \A i, j \in Int : i + (j + 1) = (i + 1) + j
          OBVIOUS
        <5> QED
          BY <4>6, <5>2, <5>3, <5>4
      <4>8. Head(q) + (Len(q) - 1) = Len(events[streams[s].run])
        <5>1. streams[s].got \in Int /\ Len(q) \in Int
          BY <4>2
        <5>2. \A i, j \in Int : (i + 1) + (j - 1) = i + j
          OBVIOUS
        <5> QED
          BY <4>2, <4>6, <5>1, <5>2
      <4>9. /\ streams'[s].got + Len(streams'[s].queue) = Len(events[streams'[s].run])
            /\ \A n \in 1 .. Len(streams'[s].queue) : streams'[s].queue[n] = streams'[s].got + n
        <5> HIDE DEF q
        <5> QED
          BY <4>4, <4>5, <4>7, <4>8
      <4> QED
        BY <4>9
    <3>3. CASE Disconnect(s)
      BY <2>4, <3>3 DEF Disconnect, NoStream, TypeOK
    <3> QED
      BY <1>4, <3>1, <3>2, <3>3 DEF Stream
  <2>5. StreamHasNoGap'
    BY <2>1, <2>3, <2>4 DEF StreamHasNoGap
  <2> QED
    BY <2>2, <2>5
<1> QED
  BY <1>1, <1>2, <1>3, <1>4, CountedConsume DEF Next, vars

(***************************************************************************)
(* A stream has no gap, wherever its client resumed.                       *)
(***************************************************************************)
THEOREM StreamsHaveNoGap == Spec => []StreamHasNoGap
<1>1. Spec => []Counted
  BY CountedInit, CountedNext, PTL DEF Spec
<1>2. Counted => StreamHasNoGap
  BY DEF Counted
<1> QED
  BY <1>1, <1>2, PTL

-----------------------------------------------------------------------------
(***************************************************************************)
(* What the events tell.  An event of the past is not contradicted, since  *)
(* a scan never returns to a scanner, ends once, and keeps its row unless  *)
(* it is deleted; and the end that is about to be published is committed.  *)
(***************************************************************************)
ToldOK ==
  /\ EventsOfThePast
  /\ RowKept
  /\ EndRecorded
  /\ EventsAreCommitted

Told == Counted /\ ToldOK

LEMMA ToldInit == Init => Told
<1> SUFFICES ASSUME Init PROVE Told
  OBVIOUS
<1>1. \A r \in Runs : events[r] = <<>> /\ Len(events[r]) = 0
  BY DEF Init
<1>2. ToldOK
  BY <1>1, Bounds
  DEF Init, NoJob, ToldOK, EventsOfThePast, RowKept, EndRecorded, EventsAreCommitted
<1> QED
  BY <1>2, CountedInit DEF Told

(***************************************************************************)
(* One more event: the past stays, and the new one must be true.           *)
(***************************************************************************)
LEMMA OneMoreEvent ==
  ASSUME TypeOK, NEW r \in Runs, NEW event \in Events, Publish(r, event),
         EventsOfThePast, EventsAreCommitted, UNCHANGED <<cancels, detached>>,
         job.run = r, job'.run \in {r, None}, job.next \in Nat, job'.next \in Nat,
         job'.run = r => job'.next >= job.next,
         \A k \in Kinds, n \in 1 .. Len(events[r]) :
            events[r][n].kind = "scanner_completed" /\ events[r][n].scanner = k =>
              results'[r][k] = results[r][k],
         \A q \in Runs : q # r => results'[q] = results[q] /\ runs'[q] = runs[q],
         event.kind = "scan_completed" =>
           /\ job'.run = None
           /\ r \notin detached => runs'[r] = event.status \/ cancels[r] = "done",
         event.kind = "scanner_completed" =>
           /\ r \notin detached => results'[r][event.scanner] = event.status
           /\ job'.run = r => \E m \in 1 .. job'.next - 1 : event.scanner = Scanners[m]
  PROVE  EventsOfThePast' /\ EventsAreCommitted'
<1>1. /\ Len(events[r]) \in Nat
      /\ Len(events'[r]) = Len(events[r]) + 1
      /\ events'[r][Len(events[r]) + 1] = event
      /\ \A n \in 1 .. Len(events[r]) : events'[r][n] = events[r][n]
      /\ \A q \in Runs : q # r => events'[q] = events[q]
  BY Published
<1>2. ASSUME NEW n \in 1 .. Len(events'[r])
      PROVE  n \in 1 .. Len(events[r]) \/ events'[r][n] = event
  <2>1. n \in 1 .. Len(events[r]) \/ n = Len(events[r]) + 1
    BY <1>1
  <2> QED
    BY <1>1, <2>1
<1>3. EventsOfThePast'
  <2> SUFFICES ASSUME NEW q \in Runs, NEW n \in 1 .. Len(events'[q])
               PROVE  /\ events'[q][n].kind = "scan_completed" => job'.run # q
                      /\ events'[q][n].kind = "scanner_completed" /\ job'.run = q =>
                           \E m \in 1 .. job'.next - 1 : events'[q][n].scanner = Scanners[m]
    BY DEF EventsOfThePast
  <2>1. CASE q # r
    BY <1>1, <2>1, Bounds DEF EventsOfThePast
  <2>2. CASE q = r /\ n \in 1 .. Len(events[r])
    <3>1. events[r][n].kind # "scan_completed"
      BY <2>2 DEF EventsOfThePast
    <3>2. events[r][n].kind = "scanner_completed" =>
            \E m \in 1 .. job.next - 1 : events[r][n].scanner = Scanners[m]
      BY <2>2 DEF EventsOfThePast
    <3>3. job'.run = r => 1 .. job.next - 1 \subseteq 1 .. job'.next - 1
      OBVIOUS
    <3> QED
      BY <1>1, <2>2, <3>1, <3>2, <3>3
  <2>3. CASE q = r /\ events'[r][n] = event
    BY <2>3, Bounds
  <2> QED
    BY <1>2, <2>1, <2>2, <2>3
<1>4. EventsAreCommitted'
  <2> SUFFICES ASSUME NEW q \in Runs \ detached, NEW n \in 1 .. Len(events'[q])
               PROVE  /\ events'[q][n].kind = "scan_completed" =>
                           runs'[q] = events'[q][n].status \/ cancels[q] = "done"
                      /\ events'[q][n].kind = "scanner_completed" =>
                           results'[q][events'[q][n].scanner] = events'[q][n].status
    BY DEF EventsAreCommitted
  <2>1. CASE q # r
    BY <1>1, <2>1 DEF EventsAreCommitted
  <2>2. CASE q = r /\ n \in 1 .. Len(events[r])
    <3>1. events[r][n].kind # "scan_completed"
      BY <2>2 DEF EventsOfThePast
    <3>2. events[r][n].kind = "scanner_completed" => events[r][n].scanner \in Kinds
      BY <2>2 DEF TypeOK, Events
    <3>3. events[r][n].kind = "scanner_completed" =>
            results[r][events[r][n].scanner] = events[r][n].status
      BY <2>2 DEF EventsAreCommitted
    <3>4. events[r][n].kind = "scanner_completed" =>
            results'[r][events[r][n].scanner] = results[r][events[r][n].scanner]
      BY <2>2, <3>2
    <3>5. events'[r][n] = events[r][n]
      BY <1>1, <2>2
    <3> QED
      BY <2>2, <3>1, <3>3, <3>4, <3>5, SMTT(30)
  <2>3. CASE q = r /\ events'[r][n] = event
    BY <2>3
  <2> QED
    BY <1>2, <2>1, <2>2, <2>3
<1> QED
  BY <1>3, <1>4

LEMMA ToldConsume == Told /\ Consume => ToldOK'
<1> SUFFICES ASSUME Told, Consume PROVE ToldOK'
  OBVIOUS
<1> USE DEF Told, ToldOK, Counted
<1> DEFINE r == job.run
<1>0. /\ job.next \in Nat /\ job.next >= 1 /\ job.next <= Len(Scanners) + 1
      /\ job.pc # "idle" => r \in Runs
      /\ job.pc \in {"create", "run"} => job.next \in 1 .. Len(Scanners) /\ Current \in Kinds
      /\ JobOK(job)
  BY JobFacts
<1>t. /\ runs \in [Runs -> {None, "queued", "running"} \cup Settled]
      /\ results \in [Runs -> [Kinds -> {None, "running"} \cup Settled]]
      /\ events \in [Runs -> Seq(Events)]
  BY DEF TypeOK
<1>p. job.pc # "idle" => \A n \in 1 .. Len(events[r]) :
        /\ events[r][n].kind # "scan_completed"
        /\ events[r][n].kind = "scanner_completed" =>
             \E m \in 1 .. job.next - 1 : events[r][n].scanner = Scanners[m]
  BY <1>0 DEF EventsOfThePast
<1>k. RowKept /\ job.pc # "idle" /\ r \notin detached => runs[r] # None
  BY <1>0 DEF RowKept
<1>1. CASE Take
  <2>1. pending[1] = Head(pending) /\ 1 \in 1 .. Len(pending) /\ pending[1] \in Runs
    BY <1>1 DEF Take, TypeOK
  <2> DEFINE h == Head(pending)
  <2>2. h \in Runs /\ events[h] = <<>> /\ Len(events[h]) = 0
    BY <2>1 DEF StoreOK, TakenOnce, Waiting
  <2>3. /\ UNCHANGED <<runs, results, events, cancels>> /\ detached \subseteq detached'
        /\ job' = [run |-> h, pc |-> "prepare", next |-> 1]
        /\ runs[h] = None => h \in detached'
    BY <1>1 DEF Take, database
  <2> HIDE DEF h
  <2>4. EventsOfThePast'
    BY <2>2, <2>3, Bounds DEF EventsOfThePast
  <2> QED
    BY <2>2, <2>3, <2>4 DEF RowKept, EndRecorded, EventsAreCommitted
<1>2. CASE Prepare
  <2> DEFINE event == Event("scan_started", None, None)
  <2>1. /\ r \in Runs /\ job'.run = r /\ job'.next = job.next /\ job'.pc = "scanner"
        /\ events[r] = <<>> /\ Publish(r, event) /\ event \in Events
        /\ UNCHANGED <<results, cancels, detached>>
    BY <1>0, <1>2, EventTypes DEF Prepare, EventsCounted, JobOK, history
  <2>2. EventsOfThePast' /\ EventsAreCommitted'
    <3>1. \A q \in Runs : q # r => results'[q] = results[q] /\ runs'[q] = runs[q]
      BY <1>2, <1>t, <2>1 DEF Prepare
    <3>2. event.kind = "scan_started"
      BY DEF Event
    <3> QED
      BY <1>0, <2>1, <3>1, <3>2, OneMoreEvent
  <2>3. \A q \in Runs : q # r => events'[q] = events[q]
    BY <2>1, Published
  <2>4. RowKept'
    BY <1>2, <1>k, <1>t, <2>1, <2>3, Bounds DEF Prepare, RowKept
  <2> QED
    BY <2>1, <2>2, <2>4 DEF EndRecorded
<1>3. CASE AnnounceScanner
  <2> DEFINE event == Event("scanner_started", Current, None)
  <2>1. /\ r \in Runs /\ job'.run = r /\ job'.next = job.next /\ job'.pc = "create"
        /\ Publish(r, event) /\ event.kind = "scanner_started"
        /\ UNCHANGED <<runs, results, cancels, detached>>
    BY <1>0, <1>3 DEF AnnounceScanner, JobOK, history, database, Event
  <2>2. event \in Events
    BY <1>0, <1>3, Bounds, EventTypes DEF AnnounceScanner, Current
  <2> HIDE DEF event
  <2>3. EventsOfThePast' /\ EventsAreCommitted'
    BY <1>0, <2>1, <2>2, OneMoreEvent
  <2>4. RowKept'
    BY <1>3, <1>k, <2>1, <2>2, Published, SMTT(30) DEF AnnounceScanner, RowKept
  <2> QED
    BY <2>1, <2>3, <2>4 DEF EndRecorded
<1>4. CASE CreateScannerRun
  <2>1. /\ r \in Runs /\ job'.run = r /\ job'.next = job.next /\ job'.pc = "run"
        /\ Current = Scanners[job.next] /\ job.next \in 1 .. Len(Scanners)
        /\ UNCHANGED <<runs, events, cancels, detached>>
    BY <1>0, <1>4 DEF CreateScannerRun, JobOK, history, Current
  <2>2. /\ \A k \in Kinds : k # Current => results'[r][k] = results[r][k]
        /\ \A q \in Runs : q # r => results'[q] = results[q]
    BY <1>0, <1>4, <1>t DEF CreateScannerRun
  <2>3. EventsAreCommitted'
    <3> SUFFICES ASSUME NEW q \in Runs \ detached, NEW n \in 1 .. Len(events[q]),
                        events[q][n].kind = "scanner_completed"
                 PROVE  results'[q][events[q][n].scanner] = results[q][events[q][n].scanner]
      BY <2>1 DEF EventsAreCommitted
    <3>1. CASE q # r
      BY <2>2, <3>1
    <3>2. CASE q = r
      <4>1. PICK m \in 1 .. job.next - 1 : events[q][n].scanner = Scanners[m]
        BY <1>p, <1>4, <3>2 DEF CreateScannerRun
      <4>2. Scanners[m] # Current /\ Scanners[m] \in Kinds
        BY <2>1, <4>1, Bounds
      <4> QED
        BY <2>2, <3>2, <4>1, <4>2
    <3> QED
      BY <3>1, <3>2
  <2>4. EventsOfThePast' /\ RowKept' /\ EndRecorded'
    BY <2>1 DEF EventsOfThePast, RowKept, EndRecorded
  <2> QED
    BY <2>3, <2>4
<1>5. ASSUME NEW status \in Settled, NEW kept \in BOOLEAN, FinishScanner(status, kept) PROVE ToldOK'
  <2> DEFINE event == Event("scanner_completed", Current, status)
  <2>1. /\ r \in Runs /\ job'.run = r /\ job'.next = job.next + 1 /\ job'.pc = "scanner"
        /\ Publish(r, event) /\ event \in Events
        /\ event.kind = "scanner_completed" /\ event.scanner = Current /\ event.status = status
        /\ Current = Scanners[job.next] /\ job.next \in 1 .. Len(Scanners) /\ Current \in Kinds
        /\ UNCHANGED <<runs, cancels, detached>>
    BY <1>0, <1>5, EventTypes DEF FinishScanner, JobOK, history, Current, Event
  <2> HIDE DEF event
  <2>2. /\ results'[r][Current] = IF results[r][Current] = None THEN None ELSE status
        /\ \A k \in Kinds : k # Current => results'[r][k] = results[r][k]
        /\ \A q \in Runs : q # r => results'[q] = results[q]
    BY <1>5, <1>t, <2>1 DEF FinishScanner, Stored
  <2>3. r \notin detached => results[r][Current] = "running"
    BY <1>k, <1>5 DEF FinishScanner, StoreOK, InOrder
  <2>4. ASSUME NEW k \in Kinds, NEW n \in 1 .. Len(events[r]),
               events[r][n].kind = "scanner_completed", events[r][n].scanner = k
        PROVE  results'[r][k] = results[r][k]
    <3>1. PICK m \in 1 .. job.next - 1 : k = Scanners[m]
      BY <1>p, <1>5, <2>4 DEF FinishScanner
    <3>2. k # Current
      BY <2>1, <3>1, Bounds
    <3> QED
      BY <2>2, <3>2
  <2>5. job.next \in 1 .. job'.next - 1 /\ job'.next \in Nat /\ job'.next >= job.next
    BY <2>1
  <2>6. r \notin detached => results'[r][event.scanner] = event.status
    BY <2>1, <2>2, <2>3, Bounds
  <2>7. EventsOfThePast' /\ EventsAreCommitted'
    BY <1>0, <2>1, <2>2, <2>4, <2>5, <2>6, OneMoreEvent
  <2>8. RowKept'
    BY <1>5, <1>k, <2>1, Published DEF FinishScanner, RowKept
  <2> QED
    BY <2>1, <2>7, <2>8 DEF EndRecorded
<1>6. CASE Complete \/ FailRun
  <2>1. /\ r \in Runs /\ job'.run = r /\ job'.next = job.next
        /\ UNCHANGED <<results, events, cancels, detached>>
        /\ \A q \in Runs : q # r => runs'[q] = runs[q]
    BY <1>0, <1>6, <1>t DEF Complete, FailRun, JobOK, history
  <2>2. EventsOfThePast' /\ EventsAreCommitted'
    BY <1>p, <1>6, <2>1 DEF Complete, FailRun, EventsOfThePast, EventsAreCommitted
  <2>3. RowKept'
    BY <1>6, <1>t, <2>1, Bounds DEF Complete, FailRun, RowKept
  <2>4. EndRecorded'
    BY <1>0, <1>6, <1>k, <1>t, <2>1, Bounds DEF Complete, FailRun, EndRecorded, JobOK
  <2> QED
    BY <2>2, <2>3, <2>4
<1>7. CASE PublishCompletion \/ PublishFailure
  <2>1. PICK status \in Settled :
          /\ Publish(r, Event("scan_completed", None, status))
          /\ job.pc = "count" => status = "completed"
          /\ job.pc = "report" => status = "failed"
    BY <1>7 DEF PublishCompletion, PublishFailure, Settled
  <2> DEFINE event == Event("scan_completed", None, status)
  <2>2. /\ r \in Runs /\ job' = NoJob /\ job.pc \in {"count", "report"}
        /\ event \in Events /\ event.kind = "scan_completed" /\ event.status = status
        /\ UNCHANGED <<runs, results, cancels, detached>>
    BY <1>0, <1>7, EventTypes DEF PublishCompletion, PublishFailure, history, database, Event
  <2> HIDE DEF event
  <2>3. r \notin detached => runs[r] = event.status \/ cancels[r] = "done"
    BY <2>1, <2>2 DEF EndRecorded
  <2>4. Publish(r, event)
    BY <2>1 DEF event
  <2>5. job'.run = None /\ job'.next = 1 /\ job'.next \in Nat /\ job'.run # r
    BY <2>2, Bounds DEF NoJob
  <2>6. EventsOfThePast' /\ EventsAreCommitted'
    BY <1>0, <2>2, <2>3, <2>4, <2>5, OneMoreEvent
  <2>7. RowKept'
    BY <1>7, <1>k, <2>2, <2>4, <2>5, Published, Bounds DEF PublishCompletion, PublishFailure, RowKept
  <2> QED
    BY <2>2, <2>6, <2>7 DEF NoJob, EndRecorded
<1>8. CASE Raise
  <2>1. job'.run = r /\ job'.next = job.next /\ job'.pc = "fail"
        /\ UNCHANGED <<runs, results, events, cancels, detached>>
    BY <1>0, <1>8 DEF Raise, JobOK, history, database
  <2> QED
    BY <2>1 DEF EventsOfThePast, RowKept, EndRecorded, EventsAreCommitted
<1>9. CASE SessionBreaks
  <2>1. job' = NoJob /\ UNCHANGED <<runs, results, events, cancels, detached>>
    BY <1>9 DEF SessionBreaks, database
  <2> QED
    BY <2>1, Bounds DEF NoJob, EventsOfThePast, RowKept, EndRecorded, EventsAreCommitted
<1>10. CASE SkipProjectTests
  <2>1. /\ job'.run = r /\ job'.next = job.next + 1 /\ job'.pc = "scanner" /\ job.pc = "scanner"
        /\ UNCHANGED <<runs, results, events, cancels, detached>>
    BY <1>0, <1>10 DEF SkipProjectTests, JobOK, history, database
  <2>2. EventsOfThePast'
    <3>1. 1 .. job.next - 1 \subseteq 1 .. job'.next - 1
      BY <1>0, <2>1
    <3> QED
      BY <2>1, <3>1 DEF EventsOfThePast
  <2> QED
    BY <2>1, <2>2 DEF RowKept, EndRecorded, EventsAreCommitted
<1> QED
  BY <1>1, <1>2, <1>3, <1>4, <1>5, <1>6, <1>7, <1>8, <1>9, <1>10 DEF Consume

LEMMA ToldOthers ==
  Told /\ (Restart \/ (\E r \in Runs : Request(r)) \/ (\E s \in Streams : Stream(s)) \/ UNCHANGED vars)
    => ToldOK'
<1> SUFFICES ASSUME Told,
                    Restart \/ (\E r \in Runs : Request(r)) \/ (\E s \in Streams : Stream(s)) \/ UNCHANGED vars
             PROVE  ToldOK'
  OBVIOUS
<1> USE DEF Told, ToldOK, Counted
<1>t. /\ runs \in [Runs -> {None, "queued", "running"} \cup Settled]
      /\ results \in [Runs -> [Kinds -> {None, "running"} \cup Settled]]
      /\ cancels \in [Runs -> {"none", "read", "done"}]
      /\ job.pc # "idle" => job.run \in Runs
  BY JobFacts DEF TypeOK
<1>1. ASSUME UNCHANGED <<runs, results, events, cancels, detached, job>> PROVE ToldOK'
  BY <1>1 DEF EventsOfThePast, RowKept, EndRecorded, EventsAreCommitted
<1>2. CASE (\E s \in Streams : Stream(s)) \/ UNCHANGED vars
  BY <1>1, <1>2 DEF Stream, Subscribe, Deliver, Disconnect, vars, database, history
<1>3. CASE Restart
  <2>1. /\ job' = NoJob /\ \A r \in Runs : events'[r] = <<>> /\ Len(events'[r]) = 0
        /\ UNCHANGED detached
    BY <1>3 DEF Restart
  <2> QED
    BY <2>1, Bounds DEF NoJob, EventsOfThePast, RowKept, EndRecorded, EventsAreCommitted
<1>4. ASSUME NEW r \in Runs, Request(r) PROVE ToldOK'
  <2>1. UNCHANGED <<events, job>> /\ detached \subseteq detached'
    BY <1>4 DEF Request, StartScan, CommitRun, StartFails, CancelReads, CancelWrites, DeleteRun, history
  <2>2. EventsOfThePast'
    BY <2>1 DEF EventsOfThePast
  <2>3. CASE StartScan(r) \/ StartFails(r)
    BY <1>1, <2>3 DEF StartScan, StartFails, database, history
  <2>4. CASE CommitRun(r)
    <3>1. /\ runs[r] = None /\ runs'[r] = "queued" /\ UNCHANGED <<results, cancels, detached>>
          /\ \A q \in Runs : q # r => runs'[q] = runs[q]
      BY <1>t, <2>4 DEF CommitRun, StoreOK, UncommittedIsEmpty, history
    <3>2. r \in detached \/ (events[r] = <<>> /\ Len(events[r]) = 0 /\ job.run # r)
      BY <3>1 DEF RowKept
    <3> QED
      BY <1>t, <2>1, <2>2, <3>1, <3>2, Bounds DEF RowKept, EndRecorded, EventsAreCommitted
  <2>5. CASE CancelReads(r)
    <3>1. /\ UNCHANGED <<runs, results, detached>>
          /\ \A q \in Runs : cancels[q] = "done" => cancels'[q] = "done"
      BY <1>t, <2>5 DEF CancelReads, database, history
    <3> QED
      BY <1>t, <2>1, <2>2, <3>1 DEF RowKept, EndRecorded, EventsAreCommitted
  <2>6. CASE CancelWrites(r)
    <3>1. /\ cancels'[r] = "done" /\ UNCHANGED <<results, detached>>
          /\ \A q \in Runs : q # r => runs'[q] = runs[q] /\ cancels'[q] = cancels[q]
          /\ runs'[r] = IF runs[r] = None THEN None ELSE "failed"
      BY <1>t, <2>6 DEF CancelWrites, history
    <3>2. RowKept' /\ EndRecorded'
      BY <1>t, <2>1, <2>2, <3>1, Bounds DEF RowKept, EndRecorded
    <3> QED
      BY <2>1, <2>2, <3>1, <3>2 DEF EventsAreCommitted
  <2>7. CASE DeleteRun(r)
    <3>1. /\ detached' = detached \cup {r} /\ UNCHANGED cancels
          /\ \A q \in Runs : q # r => runs'[q] = runs[q] /\ results'[q] = results[q]
      BY <1>t, <2>7 DEF DeleteRun
    <3> QED
      BY <1>t, <2>1, <2>2, <3>1, Bounds DEF RowKept, EndRecorded, EventsAreCommitted
  <2> QED
    BY <1>4, <2>3, <2>4, <2>5, <2>6, <2>7 DEF Request
<1> QED
  BY <1>2, <1>3, <1>4

(***************************************************************************)
(* What a stream was told is what the database says.                       *)
(***************************************************************************)
THEOREM EventsTellTheTruth == Spec => []EventsAreCommitted
<1>1. Told /\ [Next]_vars => Told'
  BY CountedNext, ToldConsume, ToldOthers DEF Told, Next
<1>2. Told => EventsAreCommitted
  BY DEF Told, ToldOK
<1> QED
  BY <1>1, <1>2, ToldInit, PTL DEF Spec

-----------------------------------------------------------------------------
(***************************************************************************)
(* The refinement of EventFeed.  Where the scan is says what its latest    *)
(* event was, and so which event the protocol allows next.                 *)
(***************************************************************************)
AtLatest ==
  /\ job.pc = "prepare" => events[job.run] = <<>> /\ job.next = 1
  /\ job.pc = "scanner" /\ job.next <= Len(Scanners) => Feed!Reported(job.run, job.next - 1)
  /\ (job.pc = "scanner" /\ job.next > Len(Scanners)) \/ job.pc = "count" =>
       Feed!Reported(job.run, Len(Scanners)) \/ Feed!Reported(job.run, Len(Scanners) - 1)
  /\ job.pc \in {"create", "run"} =>
       /\ events[job.run] # <<>>
       /\ Feed!Latest(job.run) = Event("scanner_started", Current, None)
  /\ job.pc \in {"fail", "report"} =>
       events[job.run] = <<>> \/ Feed!Latest(job.run).kind # "scan_completed"

LEMMA LatestPublished ==
  ASSUME TypeOK, NEW r \in Runs, NEW event \in Events, Publish(r, event)
  PROVE  events'[r] # <<>> /\ events'[r][Len(events'[r])] = event
<1>1. events[r] \in Seq(Events) /\ events'[r] = Append(events[r], event)
  BY DEF TypeOK, Publish
<1> QED
  BY <1>1

LEMMA AtLatestStays ==
  ASSUME AtLatest, UNCHANGED <<events, job>>
  PROVE  AtLatest'
BY DEF AtLatest, Feed!Reported, Feed!Latest, Current

LEMMA AtLatestConsume == Counted /\ AtLatest /\ Consume => AtLatest'
<1> SUFFICES ASSUME Counted, AtLatest, Consume PROVE AtLatest'
  OBVIOUS
<1>t. /\ TypeOK /\ StoreOK /\ JobPlaced
      /\ job.next \in 1 .. Len(Scanners) + 1 /\ Len(Scanners) \in Nat
      /\ job \in [run : Runs \cup {None}, next : 1 .. Len(Scanners) + 1,
              pc : {"idle", "prepare", "scanner", "create", "run", "count", "fail", "report"}]
      /\ job.pc # "idle" => job.run \in Runs
  BY JobFacts, Bounds DEF Counted, StoreOK, TypeOK
<1>1. CASE Take
  <2>1. /\ job' = [run |-> Head(pending), pc |-> "prepare", next |-> 1] /\ UNCHANGED events
        /\ pending # <<>> /\ pending \in Seq(Runs)
    BY <1>1, <1>t DEF Take, TypeOK
  <2>2. Head(pending) \in Runs /\ Waiting(Head(pending))
    BY <2>1 DEF Waiting
  <2>3. events[Head(pending)] = <<>>
    BY <1>t, <2>2 DEF StoreOK, TakenOnce
  <2> QED
    BY <2>1, <2>3 DEF AtLatest
<1>2. CASE Prepare
  <2> DEFINE event == Event("scan_started", None, None)
  <2>1. /\ job' = [job EXCEPT !.pc = "scanner"] /\ Publish(job.run, event) /\ job.pc = "prepare"
    BY <1>2 DEF Prepare
  <2>2. job.next = 1 /\ job.run \in Runs
    BY <1>t, <2>1 DEF AtLatest
  <2>3. event \in Events
    BY EventTypes
  <2>4. events'[job.run] # <<>> /\ events'[job.run][Len(events'[job.run])] = event
    BY <1>t, <2>1, <2>2, <2>3, LatestPublished
  <2>5. job'.pc = "scanner" /\ job'.run = job.run /\ job'.next = 1
    BY <1>t, <2>1, <2>2
  <2> QED
    BY <2>4, <2>5 DEF AtLatest, Feed!Reported, Feed!Latest, Feed!Event, Event
<1>3. CASE AnnounceScanner
  <2> DEFINE event == Event("scanner_started", Current, None)
  <2>1. /\ job' = [job EXCEPT !.pc = "create"] /\ Publish(job.run, event) /\ job.pc = "scanner"
        /\ job.next <= Len(Scanners)
    BY <1>3 DEF AnnounceScanner
  <2>2. event \in Events
    BY <1>t, <2>1, EventTypes, Bounds DEF Current
  <2>4. events'[job.run] # <<>> /\ events'[job.run][Len(events'[job.run])] = event
    BY <1>t, <2>1, <2>2, LatestPublished
  <2>5. job'.pc = "create" /\ job'.run = job.run /\ job'.next = job.next
    BY <1>t, <2>1
  <2> QED
    BY <2>4, <2>5 DEF AtLatest, Feed!Latest, Current
<1>4. CASE CreateScannerRun
  <2>1. /\ job'.pc = "run" /\ job'.run = job.run /\ job'.next = job.next /\ job.pc = "create"
        /\ UNCHANGED events
    BY <1>t, <1>4 DEF CreateScannerRun
  <2> QED
    BY <2>1 DEF AtLatest, Feed!Latest, Current
<1>5. ASSUME NEW status \in Settled, NEW kept \in BOOLEAN, FinishScanner(status, kept) PROVE AtLatest'
  <2> DEFINE event == Event("scanner_completed", Current, status)
  <2>1. /\ job' = [job EXCEPT !.pc = "scanner", !.next = @ + 1] /\ Publish(job.run, event)
        /\ job.pc = "run" /\ job.next <= Len(Scanners)
    BY <1>t, <1>5 DEF FinishScanner, JobPlaced
  <2>2. event \in Events
    BY <1>t, <2>1, EventTypes, Bounds DEF Current, Settled
  <2>4. events'[job.run] # <<>> /\ events'[job.run][Len(events'[job.run])] = event
    BY <1>t, <2>1, <2>2, LatestPublished
  <2>5. job'.pc = "scanner" /\ job'.run = job.run /\ job'.next = job.next + 1
    BY <1>t, <2>1
  <2>6. job'.next - 1 = job.next /\ job.next # 0
    BY <1>t, <2>5
  <2>7. Feed!Reported(job.run, job.next - 1)'
    BY <2>4, <2>5, <2>6 DEF Feed!Reported, Feed!Latest, Feed!Event, Event, Current, Settled
  <2>8. job'.next > Len(Scanners) => job'.next - 1 = Len(Scanners)
    BY <1>t, <2>1, <2>5
  <2> QED
    BY <2>5, <2>7, <2>8 DEF AtLatest
<1>6. CASE Complete
  <2>1. /\ job'.pc = "count" /\ job'.run = job.run /\ job'.next = job.next /\ job.pc = "scanner"
        /\ job.next > Len(Scanners) /\ UNCHANGED events
    BY <1>t, <1>6 DEF Complete, ScannedAll
  <2> QED
    BY <2>1 DEF AtLatest, Feed!Reported, Feed!Latest
<1>7. CASE Raise
  <2>1. /\ job'.pc = "fail" /\ job'.run = job.run /\ UNCHANGED events
        /\ job.pc \in {"prepare", "scanner", "create", "run", "count"}
    BY <1>t, <1>7 DEF Raise
  <2>2. ASSUME NEW n, Feed!Reported(job.run, n) PROVE Feed!Latest(job.run).kind # "scan_completed"
    BY <2>2 DEF Feed!Reported, Feed!Event
  <2>3. job.pc \in {"create", "run"} => Feed!Latest(job.run).kind # "scan_completed"
    BY DEF AtLatest, Event
  <2>4. events[job.run] = <<>> \/ Feed!Latest(job.run).kind # "scan_completed"
    BY <1>t, <2>1, <2>2, <2>3 DEF AtLatest
  <2> QED
    BY <2>1, <2>4 DEF AtLatest, Feed!Latest
<1>8. CASE FailRun
  <2>1. /\ job'.pc = "report" /\ job'.run = job.run /\ job.pc = "fail" /\ UNCHANGED events
    BY <1>t, <1>8 DEF FailRun
  <2> QED
    BY <2>1 DEF AtLatest, Feed!Reported, Feed!Latest
<1>9. CASE PublishCompletion \/ PublishFailure \/ SessionBreaks
  BY <1>9 DEF PublishCompletion, PublishFailure, SessionBreaks, NoJob, AtLatest
<1>10. CASE SkipProjectTests
  <2>1. /\ job'.pc = "scanner" /\ job'.run = job.run /\ job.pc = "scanner" /\ UNCHANGED events
        /\ job.next = Len(Scanners) /\ job'.next = Len(Scanners) + 1
    BY <1>t, <1>10 DEF SkipProjectTests
  <2>2. Feed!Reported(job.run, Len(Scanners) - 1)
    BY <1>t, <2>1 DEF AtLatest
  <2> QED
    BY <1>t, <2>1, <2>2 DEF AtLatest, Feed!Reported, Feed!Latest
<1> QED
  BY <1>1, <1>2, <1>3, <1>4, <1>5, <1>6, <1>7, <1>8, <1>9, <1>10 DEF Consume

LEMMA AtLatestNext == Counted /\ AtLatest /\ [Next]_vars => AtLatest'
<1> SUFFICES ASSUME Counted, AtLatest, [Next]_vars PROVE AtLatest'
  OBVIOUS
<1>1. CASE Restart
  BY <1>1 DEF Restart, NoJob, AtLatest
<1>2. ASSUME NEW r \in Runs, Request(r) PROVE AtLatest'
  BY <1>2, AtLatestStays
  DEF Request, StartScan, CommitRun, StartFails, CancelReads, CancelWrites, DeleteRun, database, history
<1>3. ASSUME NEW s \in Streams, Stream(s) PROVE AtLatest'
  BY <1>3, AtLatestStays DEF Stream, Subscribe, Deliver, Disconnect
<1>4. CASE UNCHANGED vars
  BY <1>4, AtLatestStays DEF vars
<1> QED
  BY <1>1, <1>2, <1>3, <1>4, AtLatestConsume DEF Next

LEMMA PublishMaps ==
  ASSUME TypeOK, NEW r \in Runs, NEW event \in Events, Publish(r, event)
  PROVE  Feed!Publish(r, event)
<1>1. \A s \in Streams : streams'[s].run = streams[s].run /\ streams'[s].got = streams[s].got
  BY DEF Publish, Offered, TypeOK
<1>2. Watching' = Watching
  BY <1>1 DEF Watching
<1> QED
  BY <1>2 DEF Publish, Feed!Publish

LEMMA ConsumeMaps ==
  Counted /\ AtLatest /\ Consume => Feed!Next \/ UNCHANGED <<events, Watching>>
<1> SUFFICES ASSUME Counted, AtLatest, Consume PROVE Feed!Next \/ UNCHANGED <<events, Watching>>
  OBVIOUS
<1>t. /\ TypeOK /\ JobPlaced
      /\ job.next \in 1 .. Len(Scanners) + 1 /\ Len(Scanners) \in Nat
      /\ job.pc # "idle" => job.run \in Runs
  BY JobFacts, Bounds DEF Counted, StoreOK, TypeOK
<1>0. ASSUME NEW r \in Runs, Feed!Scan(r) PROVE Feed!Next
  BY <1>0 DEF Feed!Next
<1>1. CASE Prepare
  <2> DEFINE event == Event("scan_started", None, None)
  <2>1. job.run \in Runs /\ event \in Events /\ Publish(job.run, event) /\ events[job.run] = <<>>
    BY <1>t, <1>1, EventTypes DEF Prepare, AtLatest
  <2>2. Feed!Publish(job.run, event)
    BY <1>t, <2>1, PublishMaps
  <2>3. Feed!Begin(job.run)
    BY <2>1, <2>2 DEF Feed!Begin, Feed!Event, Event
  <2> QED
    BY <1>0, <2>1, <2>3 DEF Feed!Scan
<1>2. CASE AnnounceScanner
  <2> DEFINE event == Event("scanner_started", Current, None)
  <2>1. /\ job.run \in Runs /\ job.next \in 1 .. Len(Scanners)
        /\ Publish(job.run, event) /\ Feed!Reported(job.run, job.next - 1)
    BY <1>t, <1>2 DEF AnnounceScanner, AtLatest
  <2>2. event \in Events
    BY <2>1, EventTypes, Bounds DEF Current
  <2>3. Feed!Publish(job.run, event)
    BY <1>t, <2>1, <2>2, PublishMaps
  <2>4. Feed!Announce(job.run, job.next)
    BY <2>1, <2>3 DEF Feed!Announce, Feed!Event, Event, Current
  <2> QED
    BY <1>0, <2>1, <2>4 DEF Feed!Scan
<1>3. ASSUME NEW status \in Settled, NEW kept \in BOOLEAN, FinishScanner(status, kept) PROVE Feed!Next
  <2> DEFINE event == Event("scanner_completed", Current, status)
  <2>1. /\ job.run \in Runs /\ job.next \in 1 .. Len(Scanners) /\ Publish(job.run, event)
        /\ events[job.run] # <<>>
        /\ Feed!Latest(job.run) = Event("scanner_started", Current, None)
    BY <1>t, <1>3 DEF FinishScanner, AtLatest, JobPlaced
  <2>2. event \in Events
    BY <2>1, EventTypes, Bounds DEF Current, Settled
  <2>3. Feed!Publish(job.run, event)
    BY <1>t, <2>1, <2>2, PublishMaps
  <2>4. Feed!Report(job.run, job.next, status)
    BY <2>1, <2>3 DEF Feed!Report, Feed!Event, Event, Current
  <2> QED
    BY <1>0, <2>1, <2>4 DEF Feed!Scan, Settled
<1>4. CASE PublishCompletion
  <2> DEFINE event == Event("scan_completed", None, "completed")
  <2>1. Publish(job.run, event) /\ job.pc = "count" /\ job.run \in Runs
    BY <1>t, <1>4 DEF PublishCompletion
  <2>3. Feed!Reported(job.run, Len(Scanners)) \/ Feed!Reported(job.run, Len(Scanners) - 1)
    BY <2>1 DEF AtLatest
  <2>4. Feed!Publish(job.run, event)
    <3>1. event \in Events
      BY EventTypes DEF Settled
    <3> QED
      BY <1>t, <2>1, <3>1, PublishMaps
  <2>5. Feed!Complete(job.run)
    BY <2>3, <2>4 DEF Feed!Complete, Feed!Event, Event
  <2> QED
    BY <1>0, <2>1, <2>5 DEF Feed!Scan
<1>5. CASE PublishFailure
  <2> DEFINE event == Event("scan_completed", None, "failed")
  <2>1. /\ job.run \in Runs /\ Publish(job.run, event)
        /\ events[job.run] = <<>> \/ Feed!Latest(job.run).kind # "scan_completed"
    BY <1>t, <1>5 DEF PublishFailure, AtLatest
  <2>2. Feed!Publish(job.run, event)
    <3>1. event \in Events
      BY EventTypes DEF Settled
    <3> QED
      BY <1>t, <2>1, <3>1, PublishMaps
  <2>3. Feed!Fail(job.run)
    BY <2>1, <2>2 DEF Feed!Fail, Feed!Event, Event
  <2> QED
    BY <1>0, <2>1, <2>3 DEF Feed!Scan
<1>6. CASE Take \/ CreateScannerRun \/ SkipProjectTests \/ Complete \/ Raise \/ FailRun \/ SessionBreaks
  BY <1>6 DEF Take, SkipProjectTests, CreateScannerRun, Complete, Raise, FailRun, SessionBreaks, Watching
<1> QED
  BY <1>1, <1>2, <1>3, <1>4, <1>5, <1>6 DEF Consume

(***************************************************************************)
(* The oldest event in a stream's queue is the one after the last that was *)
(* given: a stream that has no gap reads on.                               *)
(***************************************************************************)
LEMMA DeliverMaps ==
  ASSUME TypeOK, StreamHasNoGap, NEW s \in Streams, Deliver(s)
  PROVE  Feed!Read(s)
<1> DEFINE stream == streams[s]
           id == Head(stream.queue)
<1>1. /\ stream.run # None /\ stream.queue # <<>>
      /\ streams' = [streams EXCEPT ![s] =
           IF events[stream.run][id].kind = "scan_completed" THEN NoStream
           ELSE [stream EXCEPT !.got = id, !.queue = Tail(@)]]
      /\ UNCHANGED events
  BY DEF Deliver
<1>2. /\ stream.got \in Nat /\ stream.queue \in Seq(Nat) /\ Len(stream.queue) \in Nat
      /\ stream.got + Len(stream.queue) = Len(events[stream.run])
      /\ \A n \in 1 .. Len(stream.queue) : stream.queue[n] = stream.got + n
  BY <1>1, StreamFacts
<1>3. Len(stream.queue) >= 1 /\ id = stream.queue[1]
  BY <1>1, <1>2
<1>4. id = stream.got + 1 /\ id <= Len(events[stream.run])
  BY <1>2, <1>3
<1>5. /\ Watching[s].run = stream.run /\ Watching[s].got = stream.got
      /\ streams \in [Streams -> [run : Runs \cup {None}, from : Nat, got : Nat, queue : Seq(Nat)]]
  BY DEF Watching, TypeOK
<1>6. Watching' = [Watching EXCEPT ![s] =
         IF events[stream.run][id].kind = "scan_completed" THEN Feed!Nobody
         ELSE [run |-> stream.run, got |-> id]]
  <2>1. \A q \in Streams : q # s => streams'[q] = streams[q]
    BY <1>1, <1>5
  <2>2. streams'[s] = IF events[stream.run][id].kind = "scan_completed" THEN NoStream
                      ELSE [stream EXCEPT !.got = id, !.queue = Tail(@)]
    BY <1>1, <1>5
  <2>3. CASE events[stream.run][id].kind = "scan_completed"
    <3>1. streams'[s].run = None /\ streams'[s].got = 0
      BY <2>2, <2>3 DEF NoStream
    <3> QED
      BY <2>1, <2>3, <3>1 DEF Watching, Feed!Nobody
  <2>4. CASE events[stream.run][id].kind # "scan_completed"
    <3>1. streams'[s].run = stream.run /\ streams'[s].got = id
      BY <1>5, <2>2, <2>4
    <3> QED
      BY <2>1, <2>4, <3>1 DEF Watching
  <2> QED
    BY <2>3, <2>4
<1> HIDE DEF stream, id
<1> QED
  BY <1>1, <1>4, <1>5, <1>6 DEF Feed!Read

LEMMA StreamMaps ==
  ASSUME TypeOK, StreamHasNoGap, NEW s \in Streams, Stream(s)
  PROVE  Feed!Next
<1>t. streams \in [Streams -> [run : Runs \cup {None}, from : Nat, got : Nat, queue : Seq(Nat)]]
  BY DEF TypeOK
<1>0. Feed!Watch(s) => Feed!Next
  BY DEF Feed!Next
<1>1. ASSUME NEW r \in Runs, NEW from \in 0 .. Len(events[r]), Subscribe(s, r, from)
      PROVE  Feed!Watch(s)
  <2>1. Watching' = [Watching EXCEPT ![s] = [run |-> r, got |-> from]]
    BY <1>t, <1>1 DEF Subscribe, Watching
  <2>2. Watching[s].run = None /\ UNCHANGED events
    BY <1>1 DEF Subscribe, Watching
  <2>3. Feed!Attach(s, r, from)
    BY <2>1, <2>2 DEF Feed!Attach
  <2> QED
    BY <2>3 DEF Feed!Watch
<1>2. CASE Deliver(s)
  BY <1>0, <1>2, DeliverMaps DEF Feed!Watch
<1>3. CASE Disconnect(s)
  <2>1. Watching' = [Watching EXCEPT ![s] = Feed!Nobody]
    BY <1>t, <1>3 DEF Disconnect, Watching, NoStream, Feed!Nobody
  <2>2. Watching[s].run # None /\ UNCHANGED events
    BY <1>3 DEF Disconnect, Watching
  <2>3. Feed!Leave(s)
    BY <2>1, <2>2 DEF Feed!Leave
  <2> QED
    BY <1>0, <2>3 DEF Feed!Watch
<1> QED
  BY <1>0, <1>1, <1>2, <1>3 DEF Stream

(***************************************************************************)
(* The scans serve the feed that EventFeed promises: every publication is  *)
(* the next event of the protocol, and every delivery the next event of    *)
(* the log.                                                                *)
(***************************************************************************)
THEOREM ImplementsFeed == Spec => ServesFeed
<1> DEFINE Inv == Counted /\ AtLatest
<1>1. Init => Inv
  <2>1. Init => AtLatest
    BY DEF Init, NoJob, AtLatest
  <2> QED
    BY <2>1, CountedInit
<1>2. Inv /\ [Next]_vars => Inv'
  BY CountedNext, AtLatestNext
<1>3. Init => Feed!Init
  BY DEF Init, Feed!Init, Watching, NoStream, Feed!Nobody
<1>4. Inv /\ [Next]_vars => [Feed!Next]_(Feed!vars)
  <2> SUFFICES ASSUME Inv, [Next]_vars PROVE Feed!Next \/ UNCHANGED <<events, Watching>>
    BY DEF Feed!vars
  <2>1. CASE Restart
    <3>1. events' = [r \in Runs |-> <<>>] /\ Watching' = [s \in Streams |-> Feed!Nobody]
      BY <2>1 DEF Restart, Watching, NoStream, Feed!Nobody
    <3> QED
      BY <3>1 DEF Feed!Next, Feed!Lose
  <2>2. ASSUME NEW r \in Runs, Request(r) PROVE UNCHANGED <<events, Watching>>
    BY <2>2 DEF Request, StartScan, CommitRun, StartFails, CancelReads, CancelWrites, DeleteRun,
                database, history, Watching
  <2>3. CASE UNCHANGED vars
    BY <2>3 DEF vars, Watching
  <2> QED
    BY <2>1, <2>2, <2>3, ConsumeMaps, StreamMaps DEF Next, Counted
<1> QED
  BY <1>1, <1>2, <1>3, <1>4, PTL DEF Spec, ServesFeed, Feed!Spec
=============================================================================
