------------------------------ MODULE MCAccess ------------------------------
(***************************************************************************)
(* Instances of ActionsAuthentication for TLC.                             *)
(***************************************************************************)
EXTENDS ActionsAuthentication, TLC

CONSTANTS r1, r2, p1, n1, n2, o1, o2, k1, k2

(***************************************************************************)
(* Two tokens of two pushes, the second after the repository was renamed   *)
(* and the signing key replaced.                                           *)
(***************************************************************************)
TwoTokens ==
  {[id |-> 1, kid |-> k1, expires |-> 1, name |-> n1, owner |-> o1],
   [id |-> 2, kid |-> k2, expires |-> 2, name |-> n2, owner |-> o1]}

(***************************************************************************)
(* The project of the repository, another one after it was deleted, and    *)
(* the one of another owner.                                               *)
(***************************************************************************)
ThreeBindings ==
  {[installation |-> 1, owner |-> o1, project |-> 1],
   [installation |-> 1, owner |-> o1, project |-> 2],
   [installation |-> 2, owner |-> o2, project |-> 3]}

(***************************************************************************)
(* The first token is that of the repository as it is when the behaviour   *)
(* begins, and the second belongs to what it may become.  The ETag may be  *)
(* that of a listing from before the row was confirmed.                    *)
(***************************************************************************)
PushInit ==
  /\ Init
  /\ live.name = n1
  /\ live.owner = o1
  /\ published = {k1}
  /\ scope.binding.project = 1
  /\ scope.etag # None

PushSpec == PushInit /\ [][Next]_vars

Symmetric == Permutations(Requests)
=============================================================================
