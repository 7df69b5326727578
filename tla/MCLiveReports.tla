----------------------------- MODULE MCLiveReports -----------------------------
(***************************************************************************)
(* LiveReports with interchangeable runs and requests.                     *)
(***************************************************************************)
EXTENDS LiveReports, TLC

Symmetry == Permutations(Runs) \cup Permutations(Requests)
================================================================================
