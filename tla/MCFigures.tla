------------------------------- MODULE MCFigures -------------------------------
(***************************************************************************)
(* What becomes a figure: the hardware counters, the summary of the DRAM   *)
(* bandwidth and the knees of the curves.  They share nothing, so that a   *)
(* behaviour is one of the three.  The summary is that of machines of two  *)
(* cores on two nodes, whose caches are their own, shared, or not to be    *)
(* seen.                                                                   *)
(***************************************************************************)
EXTENDS PerfCounters, DramSummary, CurveKnees

\* A CPU with a small cache of its own below the one it shares.
C(c, level, size, shared) ==
  [cpu |-> c, socket |-> c, die |-> 0, core |-> 0, node |-> c,
   caches |-> {[level |-> 2, bytes |-> 1, shared |-> <<<<c, c>>>>],
               [level |-> level, bytes |-> size, shared |-> shared]}]
Own(c) == <<<<c, c>>>>

\* One cache for each node, of one size or two; one for both nodes; the same
\* with empty lists of CPUs; second-level caches only; nothing in sysfs.
Apart == [cpus |-> <<C(0, 3, 1, Own(0)), C(1, 3, 1, Own(1))>>, all |-> 2, reach |-> [n \in Nodes |-> 1]]
Uneven == [cpus |-> <<C(0, 3, 1, Own(0)), C(1, 3, 2, Own(1))>>, all |-> 3,
           reach |-> [n \in Nodes |-> n + 1]]
Spanning == [cpus |-> <<C(0, 3, 2, <<<<0, 1>>>>), C(1, 3, 2, <<<<0, 1>>>>)>>, all |-> 2,
             reach |-> [n \in Nodes |-> 2]]
Unlisted == [Spanning EXCEPT !.cpus = <<C(0, 3, 2, <<>>), C(1, 3, 2, <<>>)>>]
Shallow == [cpus |-> <<C(0, 2, 1, Own(0)), C(1, 2, 1, Own(1))>>, all |-> 2,
            reach |-> [n \in Nodes |-> 1]]
Hidden == [Apart EXCEPT !.cpus = [i \in 1 .. 2 |-> [Apart.cpus[i] EXCEPT !.caches = {}]]]

MCLayouts == {Apart, Uneven, Spanning, Unlisted, Shallow, Hidden}

--------------------------------------------------------------------------------
NoCounters ==
  /\ user = "none" /\ stage = "none" /\ k = 1 /\ fds = [g \in Kinds |-> 0]
  /\ leader = None /\ started = None /\ error = None /\ enabled = None
  /\ covered = None /\ counts = None /\ perf = Nothing /\ published = {}
NoSummary ==
  /\ suite = "none" /\ explicit = FALSE /\ request = 0 /\ layout = Hidden /\ available = 0
  /\ multiple = 0 /\ told = FALSE /\ bound = FALSE /\ limit = 0
  /\ phase = "none" /\ bytes = 0 /\ points = {} /\ warnings = {} /\ summary = <<>>
NoCurve == CurveInit

FiguresInit ==
  \/ Init /\ NoSummary /\ NoCurve
  \/ SummaryInit /\ NoCounters /\ NoCurve
  \/ CurveInit /\ NoCounters /\ NoSummary

Counting == user \in Users
Summing == suite \in Suites

FiguresNext ==
  \/ Counting /\ Next /\ UNCHANGED <<summaryVars, curveVars>>
  \/ Summing /\ SummaryNext /\ UNCHANGED <<vars, curveVars>>
  \/ ~Counting /\ ~Summing /\ CurveNext /\ UNCHANGED <<vars, summaryVars>>

FiguresSpec == FiguresInit /\ [][FiguresNext]_<<vars, summaryVars, curveVars>>
================================================================================
