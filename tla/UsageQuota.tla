---------------------------- MODULE UsageQuota ----------------------------
(***************************************************************************)
(* The usage limits on uploads, as operators on the tables they are        *)
(* counted from: the idempotency rows (uploads in flight), the usage       *)
(* charges (uploads and bytes started lately) and the stored runs (raw     *)
(* artifacts kept).                                                        *)
(*                                                                         *)
(* charges is a set of records [request, origin, principal, account,       *)
(* bytes, at]; claims and runs are functions, as in IngestService.  Every  *)
(* limit and window is a parameter.  (A name that goes on with "UpToNow"   *)
(* or "Ignoring" is a faulty variant, see IdempotencyGuard.)               *)
(* Which limit is named first, and the Retry-After it carries, is wording  *)
(* of the refusal and is left out.                                         *)
(***************************************************************************)
EXTENDS Integers, FiniteSetsExt, IdempotencyGuard

CONSTANTS
  LocalKeys,       \* (user, client request UUID)
  GithubKeys,      \* (repository, run, attempt); also the GitHub run ids
  LocalLimits,     \* UsageLimits
  GithubLimits,    \* GitHubUsageLimitsV2
  SharedInflight,  \* SharedUsageLimitsV2.inflight_per_instance
  Hour, Day        \* the windows of the rate limits

Keys == LocalKeys \cup GithubKeys

(***************************************************************************)
(* Limits are counts and sizes.                                            *)
(***************************************************************************)
ASSUME QuotaAssumption ==
  /\ {LocalLimits.uploadsPerHour, LocalLimits.uploadsPerDay, LocalLimits.inflightPerPrincipal,
      LocalLimits.inflightPerAccount, LocalLimits.inflightPerOrigin,
      LocalLimits.bytesPerDay} \subseteq Nat
  /\ {GithubLimits.uploadsPerHour, GithubLimits.uploadsPerDay,
      GithubLimits.inflightPerPrincipal, GithubLimits.bytesPerDay} \subseteq Nat
  /\ SharedInflight \in Nat

(***************************************************************************)
(* Rows of `keys` whose lease is live at t.  A row whose lease ran out is  *)
(* not counted, whether or not its worker still runs.                      *)
(***************************************************************************)
InFlight(claims, keys, t) == {k \in keys : LeaseLive(claims[k], t)}

PrincipalInFlight(claims, keys, principal, t) ==
  {k \in InFlight(claims, keys, t) : claims[k].principal = principal}

AccountInFlight(claims, keys, account, t) ==
  {k \in InFlight(claims, keys, t) : claims[k].account = account}

(***************************************************************************)
(* Charges of one principal in the last hour: a sliding window with no     *)
(* upper end.  Charges of one account today: a calendar day.               *)
(***************************************************************************)
PrincipalChargesUpToNow(charges, cmd, t) ==
  {c \in charges : /\ c.origin = cmd.origin
                   /\ c.principal = cmd.principal
                   /\ c.at \in (t - Hour) .. t}

PrincipalCharges(charges, cmd, t) ==
  {c \in charges : /\ c.origin = cmd.origin
                   /\ c.principal = cmd.principal
                   /\ c.at >= t - Hour}

DayStart(t) == t - (t % Day)

AccountCharges(charges, cmd, t) ==
  {c \in charges : /\ c.origin = cmd.origin
                   /\ c.account = cmd.account
                   /\ c.at >= DayStart(t)}

ChargedBytes(charges) == MapThenSumSet(LAMBDA c : c.bytes, charges)

PendingBytes(claims, keys) == MapThenSumSet(LAMBDA k : claims[k].bytes, keys)

(***************************************************************************)
(* Raw artifact bytes of the stored local runs in `ids`.                   *)
(***************************************************************************)
RetainedBytes(runs, ids) ==
  MapThenSumSet(LAMBDA id : runs[id].size,
                {id \in ids : runs[id].stored /\ runs[id].origin = "local" /\ runs[id].artifacts})

(***************************************************************************)
(* decide_usage_quota on the snapshot of a local upload: allowed unless a  *)
(* limit is violated.                                                      *)
(***************************************************************************)
LocalQuotaAllows(cmd, t, claims, charges, runs) ==
  LET live == InFlight(claims, LocalKeys, t)
      mine == AccountInFlight(claims, LocalKeys, cmd.account, t)
      today == AccountCharges(charges, cmd, t)
      myRuns == {id \in DOMAIN runs : runs[id].account = cmd.account}
  IN  /\ Cardinality(PrincipalCharges(charges, cmd, t)) < LocalLimits.uploadsPerHour
      /\ Cardinality(today) < LocalLimits.uploadsPerDay
      /\ Cardinality(PrincipalInFlight(claims, LocalKeys, cmd.principal, t))
           < LocalLimits.inflightPerPrincipal
      /\ Cardinality(mine) < LocalLimits.inflightPerAccount
      /\ Cardinality(live) < LocalLimits.inflightPerOrigin
      /\ Cardinality(InFlight(claims, Keys, t)) < SharedInflight
      /\ RetainedBytes(runs, myRuns) + PendingBytes(claims, mine) + cmd.bytes
           <= LocalLimits.retainedPerAccount
      /\ RetainedBytes(runs, DOMAIN runs) + PendingBytes(claims, live) + cmd.bytes
           <= LocalLimits.retainedPerInstance
      /\ ChargedBytes(today) + cmd.bytes <= LocalLimits.bytesPerDay

(***************************************************************************)
(* decide_github_usage_quota on the snapshot of a GitHub upload.           *)
(***************************************************************************)
GithubQuotaAllowsIgnoringLocal(cmd, t, claims, charges) ==
  LET today == AccountCharges(charges, cmd, t)
  IN  /\ Cardinality(PrincipalCharges(charges, cmd, t)) < GithubLimits.uploadsPerHour
      /\ Cardinality(today) < GithubLimits.uploadsPerDay
      /\ Cardinality(PrincipalInFlight(claims, GithubKeys, cmd.principal, t))
           < GithubLimits.inflightPerPrincipal
      /\ Cardinality(InFlight(claims, GithubKeys, t)) < SharedInflight
      /\ ChargedBytes(today) + cmd.bytes <= GithubLimits.bytesPerDay

GithubQuotaAllows(cmd, t, claims, charges) ==
  LET today == AccountCharges(charges, cmd, t)
  IN  /\ Cardinality(PrincipalCharges(charges, cmd, t)) < GithubLimits.uploadsPerHour
      /\ Cardinality(today) < GithubLimits.uploadsPerDay
      /\ Cardinality(PrincipalInFlight(claims, GithubKeys, cmd.principal, t))
           < GithubLimits.inflightPerPrincipal
      /\ Cardinality(InFlight(claims, Keys, t)) < SharedInflight
      /\ ChargedBytes(today) + cmd.bytes <= GithubLimits.bytesPerDay
===========================================================================
