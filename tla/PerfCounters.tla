------------------------------ MODULE PerfCounters ------------------------------
(***************************************************************************)
(* The hardware counters of the native suite: PerfGroup, its use by        *)
(* measure_kernel around a kernel, by the workers of compute-scaling and   *)
(* by main to find out what the machine offers, and what each of them      *)
(* publishes.  Every system call may fail, in every group by itself.       *)
(***************************************************************************)
EXTENDS Naturals, Sequences

CONSTANT Users        \* who measures: a subset of AllUsers

KernelUsers == {"pipeline", "instruction-fetch", "branch-predictor", "branch-structures"}
ProbeUsers == {"probe-core", "probe-branch", "probe-cache"}
AllUsers == KernelUsers \cup ProbeUsers \cup {"compute-scaling"}

ASSUME UsersAssumption == Users \subseteq AllUsers

Kinds == {"core", "branch", "cache"}

VARIABLES
  user,       \* who measures
  stage,      \* open, start, run, stop, report, close, done
  k,          \* the group in turn
  fds,        \* fds[g]: descriptors of the group that are open
  leader,     \* leader[g]: leader_ is a descriptor
  started,    \* started_
  error,      \* error_ is not empty
  enabled,    \* the kernel counts for the group
  covered,    \* the kernel counted during the measured function, all of it
  counts,     \* counts[g]: the values of the group have been read
  perf,       \* the PerfCounts that are returned
  published   \* what the user reports

vars == <<user, stage, k, fds, leader, started, error, enabled, covered, counts,
          perf, published>>

Groups == CASE user \in KernelUsers -> <<"core", "branch", "cache">>
            [] user = "probe-branch" -> <<"branch">>
            [] user = "probe-cache" -> <<"cache">>
            [] OTHER -> <<"core">>
Group == Groups[k]
None == [g \in Kinds |-> FALSE]
Nothing == [available |-> FALSE, branches |-> FALSE, cache |-> FALSE,
            explained |-> FALSE, zero |-> {}]

Available(g) == leader[g] /\ fds[g] = 2

Init ==
  /\ user \in Users
  /\ stage = "open" /\ k = 1
  /\ fds = [g \in Kinds |-> 0]
  /\ leader = None /\ started = None /\ error = None
  /\ enabled = None /\ covered = None /\ counts = None
  /\ perf = Nothing
  /\ published = {}

\* The groups are opened and started in one order, stopped and closed in the other.
Up(next) == IF k < Len(Groups) THEN k' = k + 1 /\ stage' = stage
                               ELSE k' = 1 /\ stage' = next
Down(next) == IF k > 1 THEN k' = k - 1 /\ stage' = stage
                       ELSE k' = 1 /\ stage' = next
LastOf(next) == k' = Len(Groups) /\ stage' = next

--------------------------------------------------------------------------------
(* The constructor: one perf_event_open for each of the two events. *)

OpenEvent ==
  /\ stage = "open" /\ fds[Group] < 2
  /\ fds' = [fds EXCEPT ![Group] = @ + 1]
  /\ leader' = [leader EXCEPT ![Group] = TRUE]
  /\ IF fds[Group] = 1 THEN Up("start") ELSE UNCHANGED <<k, stage>>
  /\ UNCHANGED <<user, started, error, enabled, covered, counts, perf, published>>

\* What was opened is closed again, and the group stays unavailable.
OpenFails ==
  /\ stage = "open"
  /\ fds' = [fds EXCEPT ![Group] = 0]
  /\ leader' = [leader EXCEPT ![Group] = FALSE]
  /\ error' = [error EXCEPT ![Group] = TRUE]
  /\ Up("start")
  /\ UNCHANGED <<user, started, enabled, covered, counts, perf, published>>

\* Mutant: the groups behind an unavailable one are not started.
StartSkipped_All ==
  /\ stage = "start" /\ ~Available(Group)
  /\ k' = 1
  /\ stage' = IF user \in ProbeUsers THEN "close" ELSE "run"
  /\ UNCHANGED <<user, fds, leader, started, error, enabled, covered, counts, perf, published>>

\* start: nothing for an unavailable group.  Only the probes of main give up.
StartSkipped ==
  /\ stage = "start" /\ ~Available(Group)
  /\ IF user \in ProbeUsers THEN LastOf("close")
     ELSE Up("run")
  /\ UNCHANGED <<user, fds, leader, started, error, enabled, covered, counts, perf, published>>

\* RESET, then ENABLE.
Start ==
  /\ stage = "start" /\ Available(Group)
  /\ started' = [started EXCEPT ![Group] = TRUE]
  /\ enabled' = [enabled EXCEPT ![Group] = TRUE]
  /\ Up("run")
  /\ UNCHANGED <<user, fds, leader, error, covered, counts, perf, published>>

StartFails ==
  /\ stage = "start" /\ Available(Group)
  /\ error' = [error EXCEPT ![Group] = TRUE]
  /\ IF user \in ProbeUsers THEN LastOf("close") ELSE Up("run")
  /\ UNCHANGED <<user, fds, leader, started, enabled, covered, counts, perf, published>>

\* The measured function runs, whether or not anything counts.
Run ==
  /\ stage = "run"
  /\ covered' = enabled
  /\ LastOf("stop")
  /\ UNCHANGED <<user, fds, leader, started, error, enabled, counts, perf, published>>

\* stop: nothing for a group that was not started.
StopSkipped ==
  /\ stage = "stop" /\ ~(Available(Group) /\ started[Group])
  /\ Down("report")
  /\ UNCHANGED <<user, fds, leader, started, error, enabled, covered, counts, perf, published>>

\* DISABLE, then a read of the whole group with a running time above zero.
Stop ==
  /\ stage = "stop" /\ Available(Group) /\ started[Group]
  /\ started' = [started EXCEPT ![Group] = FALSE]
  /\ enabled' = [enabled EXCEPT ![Group] = FALSE]
  /\ counts' = [counts EXCEPT ![Group] = TRUE]
  /\ Down("report")
  /\ UNCHANGED <<user, fds, leader, error, covered, perf, published>>

\* Mutant: what a failed stop has read is used.
StopFails_Counts ==
  /\ stage = "stop" /\ Available(Group) /\ started[Group]
  /\ started' = [started EXCEPT ![Group] = FALSE]
  /\ counts' = [counts EXCEPT ![Group] = TRUE]
  /\ error' = [error EXCEPT ![Group] = TRUE]
  /\ Down("report")
  /\ UNCHANGED <<user, fds, leader, enabled, covered, perf, published>>

\* DISABLE fails, the read is short or fails, the count of events is wrong, or
\* the group was never scheduled.
StopFails ==
  /\ stage = "stop" /\ Available(Group) /\ started[Group]
  /\ started' = [started EXCEPT ![Group] = FALSE]
  /\ enabled' \in {enabled, [enabled EXCEPT ![Group] = FALSE]}
  /\ error' = [error EXCEPT ![Group] = TRUE]
  /\ Down("report")
  /\ UNCHANGED <<user, fds, leader, covered, counts, perf, published>>

--------------------------------------------------------------------------------
(* What is made of the counts. *)

\* PerfCounts of a single group, or measure_kernel's core counts with the
\* branch and cache counts merged in; zero: groups whose divisor counted nothing.
Merged(zero) ==
  LET own == Groups[1] IN
  [available |-> counts[own], branches |-> counts["branch"], cache |-> counts["cache"],
   explained |-> ~counts[own] /\ error[own], zero |-> zero]

\* record_kernel and its like: which figures the counts are good for.
Figures(p) ==
  CASE user = "pipeline" ->
         IF p.available /\ "core" \notin p.zero
         THEN {"core"} \cup (IF p.cache /\ "cache" \notin p.zero THEN {"cache"} ELSE {})
         ELSE {}
    [] user = "instruction-fetch" ->
         IF p.available /\ "core" \notin p.zero THEN {"core"} ELSE {}
    [] user = "compute-scaling" -> IF p.available THEN {"core"} ELSE {}
    [] user = "branch-predictor" ->
         IF p.available /\ p.branches /\ "branch" \notin p.zero
         THEN {"branch"} \cup ({"core"} \ p.zero)
         ELSE {}
    [] user = "branch-structures" ->
         IF p.branches /\ "branch" \notin p.zero THEN {"branch"} ELSE {}
    [] OTHER -> {}

ReportCounts ==
  /\ stage = "report"
  /\ \E zero \in SUBSET Kinds :
       /\ perf' = Merged(zero)
       /\ published' = Figures(Merged(zero))
  /\ LastOf("close")
  /\ UNCHANGED <<user, fds, leader, started, error, enabled, covered, counts>>

\* Mutant: only the leader is closed.
Close_LeaderOnly ==
  /\ stage = "close"
  /\ fds' = [fds EXCEPT ![Group] = IF @ = 2 THEN 1 ELSE 0]
  /\ enabled' = [enabled EXCEPT ![Group] = FALSE]
  /\ Down("done")
  /\ UNCHANGED <<user, leader, started, error, covered, counts, perf, published>>

\* The destructor.
Close ==
  /\ stage = "close"
  /\ fds' = [fds EXCEPT ![Group] = 0]
  /\ enabled' = [enabled EXCEPT ![Group] = FALSE]
  /\ Down("done")
  /\ UNCHANGED <<user, leader, started, error, covered, counts, perf, published>>

Finished == stage = "done" /\ UNCHANGED vars

Next ==
  \/ OpenEvent \/ OpenFails
  \/ StartSkipped \/ Start \/ StartFails
  \/ Run
  \/ StopSkipped \/ Stop \/ StopFails
  \/ ReportCounts \/ Close \/ Finished

Spec == Init /\ [][Next]_vars

--------------------------------------------------------------------------------
TypeOK ==
  /\ user \in Users
  /\ stage \in {"open", "start", "run", "stop", "report", "close", "done"}
  /\ k \in DOMAIN Groups
  /\ fds \in [Kinds -> 0 .. 2]
  /\ leader \in [Kinds -> BOOLEAN] /\ started \in [Kinds -> BOOLEAN]
  /\ error \in [Kinds -> BOOLEAN] /\ enabled \in [Kinds -> BOOLEAN]
  /\ covered \in [Kinds -> BOOLEAN] /\ counts \in [Kinds -> BOOLEAN]
  /\ published \subseteq Kinds

\* Every descriptor that was opened is closed, on every path through the calls
\* that may fail, and no group goes on counting.
NoDescriptorLeak == stage = "done" => \A g \in Kinds : fds[g] = 0 /\ ~enabled[g]

\* A figure stands on counters that ran during the whole measured function and
\* were read back; a group that failed anywhere contributes to none.
FiguresCoverKernel ==
  \A g \in published : covered[g] /\ counts[g] /\ ~error[g]

\* The groups whose figure the user publishes from that group alone.
OwnFigures ==
  CASE user \in {"pipeline", "instruction-fetch", "compute-scaling"} -> {"core"}
    [] user = "branch-structures" -> {"branch"}
    [] OTHER -> {}

\* METRICS.md:166-169: the groups are independent.  Where a probe makes a figure
\* of one group, it is published unless a call for that very group has failed or
\* its divisor counted nothing, whatever failed for the other two groups that
\* measure_kernel opens, starts and stops around the same kernel.
OwnFiguresSurvive ==
  stage \in {"close", "done"} =>
    \A g \in OwnFigures : error[g] \/ g \in perf.zero \/ g \in published

\* METRICS.md:168-172: a branch or cache group that is constrained does not
\* cost the IPC of a kernel, which is there where the core group is.
IpcIsIndependent ==
  stage \in {"close", "done"} /\ user \in {"pipeline", "instruction-fetch", "branch-predictor"} =>
    error["core"] \/ "core" \in perf.zero \/ "core" \in published
================================================================================
