------------------------- MODULE IdempotencyGuard -------------------------
(***************************************************************************)
(* The decisions of the idempotency guard, as operators on one row.        *)
(*                                                                         *)
(* Every upload names an idempotency key: (user, client request UUID) for  *)
(* a local scan, (repository, run, attempt) for a GitHub Actions run.  The *)
(* database keeps one row per key, and a row is in one of five states; a   *)
(* row whose state is "none" is a row that does not exist.                 *)
(*                                                                         *)
(* A command is a record with the fields                                   *)
(*   origin     "local" or "github"                                        *)
(*   key        the idempotency key                                        *)
(*   account    the submitting user, or the GitHub owner                   *)
(*   principal  the scan token, or the GitHub repository                   *)
(*   project    the project the upload resolved to                         *)
(*   payload    the canonical payload hash                                 *)
(*   bytes      the accepted wire bytes                                    *)
(*   size       the bytes of the artifacts in the bundle                   *)
(*                                                                         *)
(* A definition whose name goes on with "Ignoring", "Keeping", "Without"   *)
(* or the like is a faulty variant of the definition below it.  No action  *)
(* uses it; it states a plausible mistake that a property must notice.     *)
(***************************************************************************)
EXTENDS Integers

ClaimStates == {"none", "processing", "completed", "failed", "tombstoned"}

(***************************************************************************)
(* The lease of a row is live at time t.                                   *)
(***************************************************************************)
LeaseLive(row, t) == row.state = "processing" /\ row.leaseExpires > t

LocalBindingDiffersIgnoringPayload(row, cmd) == row.project # cmd.project

LocalBindingDiffers(row, cmd) ==
  row.project # cmd.project \/ row.payload # cmd.payload

GithubBindingDiffers(row, cmd) ==
  row.project # cmd.project \/ row.account # cmd.account \/ row.payload # cmd.payload

(***************************************************************************)
(* What an existing row says to a command that arrives at time t.  "free"  *)
(* is the None of the code: the caller may take the row over.              *)
(***************************************************************************)
LocalExistingDecisionIgnoringExpiry(row, cmd, t) ==
  IF row.state = "tombstoned" THEN "free"
  ELSE IF LocalBindingDiffers(row, cmd) THEN "conflict"
  ELSE IF row.state = "completed" THEN "replayed"
  ELSE IF LeaseLive(row, t) THEN "in_progress"
  ELSE "free"

LocalExistingDecision(row, cmd, t) ==
  IF row.state = "tombstoned"
  THEN IF row.tombExpires > t THEN "tombstoned" ELSE "free"
  ELSE IF LocalBindingDiffers(row, cmd) THEN "conflict"
  ELSE IF row.state = "completed" THEN "replayed"
  ELSE IF LeaseLive(row, t) THEN "in_progress"
  ELSE "free"

GithubExistingDecision(row, cmd, t) ==
  IF row.state = "tombstoned"
  THEN IF row.tombExpires > t THEN "tombstoned" ELSE "free"
  ELSE IF GithubBindingDiffers(row, cmd) THEN "conflict"
  ELSE IF row.state = "completed" THEN "replayed"
  ELSE IF LeaseLive(row, t) THEN "in_progress"
  ELSE "free"

(***************************************************************************)
(* The quota step asks the same question in code of its own: will this     *)
(* command start no new work, so that it costs nothing?                    *)
(***************************************************************************)
LocalNoWorkIgnoringLease(row, cmd, t) ==
  IF row.state = "tombstoned"
  THEN row.tombExpires > t
  ELSE LocalBindingDiffers(row, cmd) \/ row.state \in {"completed", "processing"}

LocalNoWork(row, cmd, t) ==
  IF row.state = "tombstoned"
  THEN row.tombExpires > t
  ELSE \/ LocalBindingDiffers(row, cmd)
       \/ row.state = "completed"
       \/ LeaseLive(row, t)

GithubNoWork(row, cmd, t) ==
  IF row.state = "tombstoned"
  THEN row.tombExpires > t
  ELSE \/ GithubBindingDiffers(row, cmd)
       \/ row.state = "completed"
       \/ LeaseLive(row, t)

(***************************************************************************)
(* The row a successful acquisition writes: a new one, or the existing one *)
(* with a new lease.  A local takeover keeps the project and the payload   *)
(* the row was created with; a GitHub takeover binds the row to the new    *)
(* command but keeps the owner.                                            *)
(***************************************************************************)
NewRow(cmd, none, lease, leaseExpires) ==
  [state |-> "processing", project |-> cmd.project, account |-> cmd.account,
   principal |-> cmd.principal, payload |-> cmd.payload, bytes |-> cmd.bytes,
   run |-> none, lease |-> lease, leaseExpires |-> leaseExpires, tombExpires |-> 0]

LocalTakeOver(row, cmd, none, lease, leaseExpires) ==
  [row EXCEPT !.state = "processing", !.principal = cmd.principal, !.bytes = cmd.bytes,
              !.run = none, !.lease = lease, !.leaseExpires = leaseExpires,
              !.tombExpires = 0]

GithubTakeOverKeepingProject(row, cmd, none, lease, leaseExpires) ==
  [row EXCEPT !.state = "processing", !.payload = cmd.payload, !.bytes = cmd.bytes,
              !.run = none, !.lease = lease, !.leaseExpires = leaseExpires,
              !.tombExpires = 0]

GithubTakeOver(row, cmd, none, lease, leaseExpires) ==
  [row EXCEPT !.state = "processing", !.project = cmd.project, !.payload = cmd.payload,
              !.bytes = cmd.bytes, !.run = none, !.lease = lease,
              !.leaseExpires = leaseExpires, !.tombExpires = 0]

(***************************************************************************)
(* The fence: the row is still the one this lease was granted on.  Every   *)
(* completion and every release is an UPDATE with this WHERE clause.       *)
(***************************************************************************)
OwnedByPayload(row, cmd, lease) == row.state = "processing" /\ row.payload = cmd.payload

OwnedBy(row, cmd, lease) ==
  row.state = "processing" /\ row.lease = lease /\ row.payload = cmd.payload

CompletedRow(row, none, run) ==
  [row EXCEPT !.state = "completed", !.run = run, !.lease = none, !.leaseExpires = 0]

FailedRow(row, none) ==
  [row EXCEPT !.state = "failed", !.run = none, !.lease = none, !.leaseExpires = 0]

TombstonedRow(row, none, expires) ==
  [row EXCEPT !.state = "tombstoned", !.run = none, !.tombExpires = expires]
===========================================================================
