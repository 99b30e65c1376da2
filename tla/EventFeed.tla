------------------------------ MODULE EventFeed ------------------------------
(***************************************************************************)
(* What the stream of a scan promises to those who watch it, and says      *)
(* nothing about queues, subscribers or the database: the events of a run  *)
(* follow one protocol, and a reader is given them one after the other     *)
(* from where it asked to begin until the end of the scan.                 *)
(*                                                                         *)
(* A scan starts, each scanner in turn is announced and then reported, and *)
(* the scan is completed, perhaps without the last one, the project's own  *)
(* tests; or it is completed as failed, at any time before that.  What was *)
(* published may be lost, and then all of it is, with its readers.         *)
(***************************************************************************)
EXTENDS Integers, Sequences

CONSTANTS
  Runs, Scanners, None,
  Readers

VARIABLES
  log,      \* the events published of each run
  readers   \* the run each reader watches, and how much of its log it was given

vars == <<log, readers>>

Nobody == [run |-> None, got |-> 0]

Init ==
  /\ log = [r \in Runs |-> <<>>]
  /\ readers = [s \in Readers |-> Nobody]

Event(kind, scanner, status) == [kind |-> kind, scanner |-> scanner, status |-> status]

Latest(r) == log[r][Len(log[r])]

Publish(r, event) ==
  /\ log' = [log EXCEPT ![r] = Append(@, event)]
  /\ UNCHANGED readers

(***************************************************************************)
(* The first n scanners are reported, and no further one is announced.     *)
(***************************************************************************)
Reported(r, n) ==
  /\ log[r] # <<>>
  /\ IF n = 0 THEN Latest(r) = Event("scan_started", None, None)
     ELSE \E status \in {"completed", "failed"} :
            Latest(r) = Event("scanner_completed", Scanners[n], status)

Begin(r) ==
  /\ log[r] = <<>>
  /\ Publish(r, Event("scan_started", None, None))

Announce(r, n) ==
  /\ Reported(r, n - 1)
  /\ Publish(r, Event("scanner_started", Scanners[n], None))

Report(r, n, status) ==
  /\ log[r] # <<>> /\ Latest(r) = Event("scanner_started", Scanners[n], None)
  /\ Publish(r, Event("scanner_completed", Scanners[n], status))

Complete(r) ==
  /\ Reported(r, Len(Scanners)) \/ Reported(r, Len(Scanners) - 1)
  /\ Publish(r, Event("scan_completed", None, "completed"))

Fail(r) ==
  /\ log[r] = <<>> \/ Latest(r).kind # "scan_completed"
  /\ Publish(r, Event("scan_completed", None, "failed"))

(***************************************************************************)
(* A reader begins anywhere in the log, is given the next event at each    *)
(* read, and is dismissed with the end of the scan.                        *)
(***************************************************************************)
Attach(s, r, from) ==
  /\ readers[s].run = None
  /\ readers' = [readers EXCEPT ![s] = [run |-> r, got |-> from]]
  /\ UNCHANGED log

Read(s) ==
  LET r == readers[s].run
      next == readers[s].got + 1
  IN  /\ r # None
      /\ next <= Len(log[r])
      /\ readers' = [readers EXCEPT ![s] =
           IF log[r][next].kind = "scan_completed" THEN Nobody ELSE [run |-> r, got |-> next]]
      /\ UNCHANGED log

Leave(s) ==
  /\ readers[s].run # None
  /\ readers' = [readers EXCEPT ![s] = Nobody]
  /\ UNCHANGED log

Lose ==
  /\ log' = [r \in Runs |-> <<>>]
  /\ readers' = [s \in Readers |-> Nobody]

Scan(r) ==
  \/ Begin(r)
  \/ \E n \in 1 .. Len(Scanners) : Announce(r, n)
  \/ \E n \in 1 .. Len(Scanners), status \in {"completed", "failed"} : Report(r, n, status)
  \/ Complete(r)
  \/ Fail(r)

Watch(s) ==
  \/ \E r \in Runs : \E from \in 0 .. Len(log[r]) : Attach(s, r, from)
  \/ Read(s)
  \/ Leave(s)

Next ==
  \/ Lose
  \/ \E r \in Runs : Scan(r)
  \/ \E s \in Readers : Watch(s)

Spec == Init /\ [][Next]_vars
=============================================================================
