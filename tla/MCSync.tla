------------------------------- MODULE MCSync -------------------------------
(***************************************************************************)
(* Instances of InstallationSync for TLC.                                  *)
(***************************************************************************)
EXTENDS InstallationSync, TLC

CONSTANTS p1, p2, repo1, user1

Symmetric == Permutations(Processes)
=============================================================================
