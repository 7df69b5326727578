------------------------------ MODULE MCWorkspace ------------------------------
(***************************************************************************)
(* Workspace with three reports and a limit of two.                        *)
(***************************************************************************)
EXTENDS Workspace, TLC

CONSTANTS t0, t1, t2

MCIds == 1 .. 3
\* Every report may go, the first one and all of them included.
MCContents == {MCIds, {2, 3}, {}}
MCQueries == {MCIds, {2}}
\* Two entries, the page being loaded at either of them: a bare URL, and one
\* that names more reports than a comparison takes.
MCSessions == {<< <<>>, <<1, 2, 3>> >>}

\* The fixed repository and the sessions of the runs that end in a finding.
StillRepository == {MCIds}
AnySearch == {MCIds}
ReloadedSession == {<< <<1>>, <<2>> >>}

TaskSymmetry == Permutations(Tasks \ {Startup})
================================================================================
