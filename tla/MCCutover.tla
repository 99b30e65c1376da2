----------------------------- MODULE MCCutover -----------------------------
(***************************************************************************)
(* Instances of SqliteCutover for TLC.                                     *)
(***************************************************************************)
EXTENDS SqliteCutover, TLC

CONSTANTS w1, w2, w3, b1, b2, p1, p2, p3, torn

Symmetric == Permutations(Commits) \cup Permutations(Recoveries) \cup Permutations(Backups)
=============================================================================
