------------------------------ MODULE MCOutbox ------------------------------
(***************************************************************************)
(* Instances of LocalOutbox for TLC.                                       *)
(***************************************************************************)
EXTENDS LocalOutbox, TLC

CONSTANTS c1, c2, r1

Symmetric == Permutations(Processes)
=============================================================================
