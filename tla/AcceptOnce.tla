----------------------------- MODULE AcceptOnce -----------------------------
(***************************************************************************)
(* What the upload service promises to its clients and says nothing about  *)
(* how: for each idempotency key at most one run is accepted and kept, and *)
(* once that run is deleted the key accepts nothing for Quarantine ticks.  *)
(* A client that sends its upload again is told of the run that is kept    *)
(* for the key, provided that it sends the content this run has.  It may   *)
(* never hear of a run that was accepted for it.                           *)
(***************************************************************************)
EXTENDS Integers

CONSTANTS Clients, Keys, Contents, RunIds, Quarantine

VARIABLES
  clock,
  asked,      \* the uploads that were sent: client, key and content
  answers,    \* the runs that clients are told of: client and run id
  accepted,   \* the runs that are stored: run id, key and content
  blocked     \* until when a key accepts nothing after a deletion

vars == <<clock, asked, answers, accepted, blocked>>

Init ==
  /\ clock = 0
  /\ asked = {}
  /\ answers = {}
  /\ accepted = {}
  /\ blocked = [k \in Keys |-> 0]

Ask(c) ==
  /\ \A upload \in asked : upload.client # c
  /\ \E k \in Keys, content \in Contents :
       asked' = asked \cup {[client |-> c, key |-> k, content |-> content]}
  /\ UNCHANGED <<clock, answers, accepted, blocked>>

Tell(c, id) ==
  /\ \A answer \in answers : answer.client # c
  /\ answers' = answers \cup {[client |-> c, run |-> id]}

(***************************************************************************)
(* One new run for a key that has none and is not in quarantine; whether   *)
(* its client hears of it is left open.                                    *)
(***************************************************************************)
Accept(upload, id) ==
  /\ upload \in asked
  /\ \A run \in accepted : run.key # upload.key /\ run.id # id
  /\ blocked[upload.key] <= clock
  /\ accepted' = accepted \cup {[id |-> id, key |-> upload.key, content |-> upload.content]}
  /\ blocked' = [blocked EXCEPT ![upload.key] = 0]
  /\ Tell(upload.client, id) \/ UNCHANGED answers
  /\ UNCHANGED <<clock, asked>>

(***************************************************************************)
(* The upload is already there.                                            *)
(***************************************************************************)
Replay(upload, run) ==
  /\ upload \in asked
  /\ run \in accepted
  /\ run.key = upload.key /\ run.content = upload.content
  /\ Tell(upload.client, run.id)
  /\ UNCHANGED <<clock, asked, accepted, blocked>>

(***************************************************************************)
(* Some runs are deleted, which starts the quarantine of their keys, and   *)
(* the quarantines in `over`, which have elapsed, are forgotten.           *)
(***************************************************************************)
Delete(gone, over) ==
  /\ gone \subseteq accepted
  /\ \A k \in over : blocked[k] <= clock
  /\ accepted' = accepted \ gone
  /\ blocked' = [k \in Keys |-> IF \E run \in gone : run.key = k THEN clock + Quarantine
                                ELSE IF k \in over THEN 0
                                ELSE blocked[k]]
  /\ UNCHANGED <<clock, asked, answers>>

Tick == clock' = clock + 1 /\ UNCHANGED <<asked, answers, accepted, blocked>>

Next ==
  \/ Tick
  \/ \E gone \in SUBSET accepted, over \in SUBSET Keys : Delete(gone, over)
  \/ \E c \in Clients : Ask(c)
  \/ \E upload \in asked : \/ \E id \in RunIds : Accept(upload, id)
                           \/ \E run \in accepted : Replay(upload, run)

Spec == Init /\ [][Next]_vars
=============================================================================
