---------------------------- MODULE WebhookQueue ----------------------------
(***************************************************************************)
(* The table github_webhook_deliveries as a queue of work: the rows that   *)
(* the claim of a verified webhook inserts, and what leasing, renewing,    *)
(* completing and retrying write to one row.  Every operation is one       *)
(* transaction, so each is a condition on the row and the row it becomes.  *)
(*                                                                         *)
(* A token is the UUID drawn for one lease; here the reading of the clock  *)
(* at which the lease was taken, which is as unique.  A name with Ignoring *)
(* is a faulty variant of the definition below it.                         *)
(***************************************************************************)
EXTENDS Integers, FiniteSetsExt

CONSTANTS
  Deliveries,     \* X-GitHub-Delivery ids
  None,           \* SQL NULL, Python None
  WorkLease,      \* _WORK_LEASE             5 minutes
  InitialRetry,   \* _INITIAL_RETRY_SECONDS  30 seconds
  MaximumRetry,   \* _MAXIMUM_RETRY_SECONDS  1 hour
  MaximumAttempts \* _MAXIMUM_WORK_ATTEMPTS  8

ASSUME WebhookQueueAssumption ==
  /\ None \notin Nat
  /\ {WorkLease, InitialRetry, MaximumRetry, MaximumAttempts} \subseteq Nat \ {0}

Events == {"deleted", "suspend", "refresh"}

NoDelivery ==
  [status |-> "none", event |-> None, received |-> 0, attempts |-> 0,
   available |-> 0, token |-> None, expires |-> 0]

(***************************************************************************)
(* claim: a delivery id that is known is a replay or a conflict and        *)
(* changes nothing.                                                        *)
(***************************************************************************)
ClaimedDelivery(event, t) ==
  [status |-> "received", event |-> event, received |-> t, attempts |-> 0,
   available |-> t, token |-> None, expires |-> 0]

(***************************************************************************)
(* lease_next: the oldest row that is due and that no live lease protects. *)
(***************************************************************************)
Due(row, t) ==
  /\ row.status = "received"
  /\ row.available <= t
  /\ row.token = None \/ row.expires <= t

NextDue(rows, t) ==
  {d \in Deliveries :
     /\ Due(rows[d], t)
     /\ \A e \in Deliveries : Due(rows[e], t) => rows[d].received <= rows[e].received}

LeasedDelivery(row, t) ==
  [row EXCEPT !.token = t, !.expires = t + WorkLease, !.attempts = @ + 1]

(***************************************************************************)
(* renew and complete ask for a live lease, retry only for the token.      *)
(***************************************************************************)
HasTokenIgnoringOwner(row, token) == row.status = "received"

HasToken(row, token) == row.status = "received" /\ row.token = token

HoldsLease(row, token, t) == HasToken(row, token) /\ row.expires > t

RenewedDelivery(row, t) == [row EXCEPT !.expires = t + WorkLease]

ProcessedDelivery(row) ==
  [row EXCEPT !.status = "processed", !.token = None, !.expires = 0]

(***************************************************************************)
(* retry_github_webhook_work: exponential backoff up to an hour, or up to  *)
(* the time a rate limit names if that is later but within the hour; after *)
(* the last attempt the row fails.  attempt is the number the lease had.   *)
(***************************************************************************)
RetryDelay(attempt) == Min({MaximumRetry, InitialRetry * 2 ^ (attempt - 1)})

RetryAt(attempt, notBefore, t) ==
  Max({t + RetryDelay(attempt), Min({notBefore, t + MaximumRetry})})

ReleasedDelivery(row, attempt, notBefore, t) ==
  [row EXCEPT !.status = IF attempt >= MaximumAttempts THEN "failed" ELSE "received",
              !.available = RetryAt(attempt, notBefore, t),
              !.token = None,
              !.expires = 0]
=============================================================================
