--------------------------- MODULE MeasurementWindow ---------------------------
(***************************************************************************)
(* What a multi-threaded bandwidth or throughput probe promises, whatever  *)
(* its threads do: the work it reports is all the work its workers did,    *)
(* every unit of that work was done while the stopwatch it is divided by   *)
(* was running, and a probe that gives up reports nothing.                 *)
(***************************************************************************)
EXTENDS Naturals

CONSTANT Workers        \* the threads that do the measured work

VARIABLES
  watch,    \* watch[w]: the stopwatch that w's work is divided by
  work,     \* work[w]: units of work done by w
  outcome,  \* "pending", then "reported" or "abandoned"
  report    \* the work that went into the published figure

windowVars == <<watch, work, outcome, report>>

WatchState == {"unset", "running", "stopped"}

Init ==
  /\ watch = [w \in Workers |-> "unset"]
  /\ work = [w \in Workers |-> 0]
  /\ outcome = "pending"
  /\ report = [w \in Workers |-> 0]

\* One stopwatch may time several workers: a set of them starts together.
Start(S) ==
  /\ outcome = "pending"
  /\ \A w \in S : watch[w] = "unset"
  /\ watch' = [w \in Workers |-> IF w \in S THEN "running" ELSE watch[w]]
  /\ UNCHANGED <<work, outcome, report>>

Work(w) ==
  /\ watch[w] = "running"
  /\ work' = [work EXCEPT ![w] = @ + 1]
  /\ UNCHANGED <<watch, outcome, report>>

Stop(S) ==
  /\ \A w \in S : watch[w] = "running"
  /\ watch' = [w \in Workers |-> IF w \in S THEN "stopped" ELSE watch[w]]
  /\ UNCHANGED <<work, outcome, report>>

Report ==
  /\ outcome = "pending"
  /\ \A w \in Workers : watch[w] = "stopped"
  /\ outcome' = "reported"
  /\ report' = work
  /\ UNCHANGED <<watch, work>>

Abandon ==
  /\ outcome = "pending"
  /\ \A w \in Workers : work[w] = 0
  /\ outcome' = "abandoned"
  /\ UNCHANGED <<watch, work, report>>

Next ==
  \/ \E S \in SUBSET Workers : Start(S) \/ Stop(S)
  \/ \E w \in Workers : Work(w)
  \/ Report
  \/ Abandon

Spec == Init /\ [][Next]_windowVars
================================================================================
