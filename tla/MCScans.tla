------------------------------ MODULE MCScans -------------------------------
(***************************************************************************)
(* Instances of ScanWorker for TLC.                                        *)
(***************************************************************************)
EXTENDS ScanWorker

CONSTANTS a, s1, s2

TwoScanners == <<"semgrep", "project-tests">>
=============================================================================
