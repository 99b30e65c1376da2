------------------------------ MODULE WorkQueue ------------------------------
(***************************************************************************)
(* What the queue of webhook deliveries promises its workers, and nothing  *)
(* of clocks, lease times or GitHub: a delivery is worked off by whoever   *)
(* was last given it.  A worker that loses its delivery to another may go  *)
(* on working, but only the holder settles it, hands it back or, after     *)
(* the last attempt, fails it.  What is settled is never worked on again.  *)
(***************************************************************************)
EXTENDS Integers

CONSTANTS Deliveries, Workers, None, MaximumAttempts

VARIABLES
  work,     \* the deliveries: status, attempts begun, and at most one holder
  serving   \* what each worker believes to work on

vars == <<work, serving>>

Unknown == [status |-> "none", attempts |-> 0, holders |-> {}]

Init ==
  /\ work = [d \in Deliveries |-> Unknown]
  /\ serving = [w \in Workers |-> None]

Accept(d) ==
  /\ work[d].status = "none"
  /\ work' = [work EXCEPT ![d] = [Unknown EXCEPT !.status = "received"]]
  /\ UNCHANGED serving

(***************************************************************************)
(* A worker that is free is given a delivery, perhaps one that another is  *)
(* still working on.                                                       *)
(***************************************************************************)
Take(d, w) ==
  /\ serving[w] = None
  /\ work[d].status = "received"
  /\ work' = [work EXCEPT ![d] =
       [status |-> "received", attempts |-> @.attempts + 1, holders |-> {w}]]
  /\ serving' = [serving EXCEPT ![w] = d]

(***************************************************************************)
(* The holder ends its work with a result.                                 *)
(***************************************************************************)
End(d, w, status) ==
  /\ serving[w] = d
  /\ w \in work[d].holders
  /\ work[d].status = "received"
  /\ work' = [work EXCEPT ![d] =
       [status |-> status, attempts |-> @.attempts, holders |-> {}]]
  /\ serving' = [serving EXCEPT ![w] = None]

Settle(d, w) == End(d, w, "processed")

HandBack(d, w) == work[d].attempts < MaximumAttempts /\ End(d, w, "received")

Fail(d, w) == work[d].attempts >= MaximumAttempts /\ End(d, w, "failed")

(***************************************************************************)
(* A worker crashes, or finds that the delivery is not its own any more.   *)
(***************************************************************************)
Stop(w) ==
  /\ serving[w] # None
  /\ work' = [work EXCEPT ![serving[w]].holders = @ \ {w}]
  /\ serving' = [serving EXCEPT ![w] = None]

Next ==
  \/ \E d \in Deliveries : Accept(d)
  \/ \E d \in Deliveries, w \in Workers : Take(d, w) \/ Settle(d, w) \/ HandBack(d, w) \/ Fail(d, w)
  \/ \E w \in Workers : Stop(w)

Spec == Init /\ [][Next]_vars
=============================================================================
