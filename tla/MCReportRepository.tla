-------------------------- MODULE MCReportRepository --------------------------
(***************************************************************************)
(* ReportRepository with small contents: two reports of one size, a third  *)
(* of another, and the two shapes of JSON that are not a report.           *)
(***************************************************************************)
EXTENDS ReportRepository, TLC

CONSTANTS g1, g2, g3, g4

MCShape(g) == CASE g = g3 -> "bare" [] g = g4 -> "array" [] OTHER -> "report"
MCSize(g) == IF g \in {g1, g2} THEN 1 ELSE 2

RequestSymmetry == Permutations(Requests)
================================================================================
