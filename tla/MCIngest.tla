------------------------------ MODULE MCIngest ------------------------------
(***************************************************************************)
(* Instances of IngestService for TLC: one key retried, one GitHub run     *)
(* attempt retried, and several keys under small limits.                   *)
(***************************************************************************)
EXTENDS IngestService, TLC

CONSTANTS r1, r2, r3, k1, k2, g1, pA, pB, x, y, u1, t1, t2, o1, q1

LocalCommand(key, token, project, payload) ==
  [origin |-> "local", key |-> key, account |-> u1, principal |-> token,
   project |-> project, payload |-> payload, bytes |-> 1, size |-> 1]

GithubCommand(key, owner, project, payload) ==
  [origin |-> "github", key |-> key, account |-> owner, principal |-> q1,
   project |-> project, payload |-> payload, bytes |-> 1, size |-> 1]

(***************************************************************************)
(* One client request id, sent again with the same and with other content. *)
(***************************************************************************)
RetriedLocal == {LocalCommand(k1, t1, pA, x), LocalCommand(k1, t1, pA, y)}

(***************************************************************************)
(* One GitHub run attempt, sent again from the same and another project.   *)
(***************************************************************************)
RetriedGithub == {GithubCommand(g1, o1, pA, x), GithubCommand(g1, o1, pB, y)}

(***************************************************************************)
(* Two client requests of one user with two tokens, and a GitHub run.      *)
(***************************************************************************)
Mixed == {LocalCommand(k1, t1, pA, x), LocalCommand(k2, t2, pA, x), GithubCommand(g1, o1, pA, x)}

Retried == RetriedLocal \cup RetriedGithub

AmpleLocal ==
  [uploadsPerHour |-> 9, uploadsPerDay |-> 9, inflightPerPrincipal |-> 9, inflightPerAccount |-> 9,
   inflightPerOrigin |-> 9, retainedPerAccount |-> 9, retainedPerInstance |-> 9, bytesPerDay |-> 9]

AmpleGithub ==
  [uploadsPerHour |-> 9, uploadsPerDay |-> 9, inflightPerPrincipal |-> 9, bytesPerDay |-> 9]

(***************************************************************************)
(* Limits at which two uploads collide: local ones on the daily limit,     *)
(* GitHub ones on the hourly limit.                                        *)
(***************************************************************************)
TightLocal ==
  [uploadsPerHour |-> 1, uploadsPerDay |-> 1, inflightPerPrincipal |-> 1, inflightPerAccount |-> 1,
   inflightPerOrigin |-> 1, retainedPerAccount |-> 2, retainedPerInstance |-> 2, bytesPerDay |-> 2]

TightGithub ==
  [uploadsPerHour |-> 1, uploadsPerDay |-> 2, inflightPerPrincipal |-> 1, bytesPerDay |-> 3]

(***************************************************************************)
(* Uploads, deletions of one scan and retention, without the deletion of a *)
(* project or of all scans, which touches none of what the limits count    *)
(* but the retained artifacts.                                             *)
(***************************************************************************)
UploadsNext ==
  \/ \E r \in Requests : \/ \E cmd \in Commands : Receive(r, cmd)
                         \/ HandlerStep(r)
                         \/ Abandon(r)
  \/ Crash
  \/ \E id \in RunIds : DeleteScan(id)
  \/ RetentionCleanup
  \/ Tick

UploadsSpec ==
  /\ Init
  /\ [][UploadsNext]_vars
  /\ Fairness

Symmetric == Permutations(Requests)
=============================================================================
