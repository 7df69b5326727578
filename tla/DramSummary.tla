------------------------------ MODULE DramSummary ------------------------------
(***************************************************************************)
(* How a bandwidth becomes a DRAM or NUMA figure of the report.  The       *)
(* native probe sizes its arrays (memory_bandwidth.cpp, numa.cpp), labels  *)
(* each point with what it knows of the last-level cache, and warns; the   *)
(* Python side (infer.py) checks the labels again, drops what exceeds the  *)
(* configured memory's upper bound, picks the figures, and runner.py tells *)
(* what was left out.  Sizes are in units of the 4096-byte floor.          *)
(***************************************************************************)
EXTENDS Topology

CONSTANTS
  Suites,       \* "stream", "numa"
  Operations,   \* the stream kernels of the profile
  Layouts,      \* machines: [cpus, all, reach], the CPUs as Topology has them; the
                \* bytes of the LLC there really are, and how many a node can reach
  Free,         \* possible MemAvailable; 0: unknown
  Requests,     \* possible --memory-mib, in the same unit
  BaseBytes,    \* what the profile asks for by itself
  Cap,          \* the profile's automatic cap
  Labels,       \* LLC multiples that a binary on disk calls "exceeds"
  Rates,        \* measured bandwidths
  Limits        \* configured upper bounds; 0: not known

ASSUME SizingAssumption ==
  /\ Suites \subseteq {"stream", "numa"}
  /\ Operations \subseteq {"read", "write", "copy", "triad"}
  /\ \A l \in Layouts : l.all \in Nat /\ l.reach \in [{0, 1} -> Nat]
  /\ Free \subseteq Nat /\ Requests \subseteq Nat
  /\ BaseBytes \in Nat /\ Cap \in Nat \ {0}
  /\ Labels \subseteq Nat /\ Rates \subseteq Nat /\ Limits \subseteq Nat

Floor == 1
Nodes == {0, 1}

AggregateOf(l) == AggregateLlcBytes(PhysicalCpus(l.cpus))   \* aggregate_llc
NodeLlcOf(l, n) ==                                          \* node_llc_bytes
  LET physical == PhysicalCpus(l.cpus)
  IN  AggregateLlcBytes(AtPlaces(physical, {i \in DOMAIN physical : physical[i].node = n}))

\* What the probes add up from sysfs is a size; where sysfs tells of caches at
\* all it is not less than what there is.
ASSUME SysfsAssumption ==
  \A l \in Layouts :
    /\ AggregateOf(l) \in Nat /\ (AggregateOf(l) = 0 \/ AggregateOf(l) >= l.all)
    /\ \A n \in Nodes :
         NodeLlcOf(l, n) \in Nat /\ (NodeLlcOf(l, n) = 0 \/ NodeLlcOf(l, n) >= l.reach[n])

VARIABLES
  suite,        \* which probe
  explicit,     \* memory_explicit: --memory-mib was given
  request,      \* memory_mib
  layout,       \* the machine
  available,    \* MemAvailable when the probe starts
  multiple,     \* what the binary means by working_set_exceeds_llc; 4 in this source
  told,         \* its points bear both byte counts as labels; TRUE in this source
  bound,        \* mbind worked
  limit,        \* the configured upper bound
  phase,        \* "size", "measure", "infer", "done"
  bytes,        \* the array
  points,       \* the observations
  warnings,
  summary       \* figure |-> the points it is computed from

machine == <<suite, explicit, request, layout, available, multiple, told, bound, limit>>
summaryVars == <<machine, phase, bytes, points, warnings, summary>>

Larger(a, b) == IF a >= b THEN a ELSE b
Smaller(a, b) == IF a <= b THEN a ELSE b

Aggregate == AggregateOf(layout)
NodeLlc(n) == NodeLlcOf(layout, n)
LargestNode == Larger(NodeLlc(0), NodeLlc(1))               \* largest_node_llc
SizingCache == IF suite = "stream" THEN Aggregate ELSE LargestNode

\* stream_array_count
Arrays(op) == CASE op \in {"read", "write"} -> 1 [] op = "copy" -> 2 [] op = "triad" -> 3

\* run_stream maps at least 1024 elements of 8 bytes for every thread.
Mapped(op, threads) == Arrays(op) * Larger(2 * threads, bytes)

Desired ==
  IF explicit THEN request
  ELSE Larger(IF suite = "stream" THEN request ELSE BaseBytes, 4 * SizingCache)

\* Mutant: half of the free memory for each array.
Share_Half == 2

\* A sixth of what is free for each of up to three arrays, a third for one.
Share == IF suite = "stream" THEN 6 ELSE 3
Safe == IF available > 0 THEN available \div Share ELSE Cap
ArrayBytes == Larger(Floor, Smaller(Desired, IF explicit THEN Safe ELSE Smaller(Cap, Safe)))

ExceedsLlc(workingSet, cache) == cache > 0 /\ workingSet >= multiple * cache

SummaryInit ==
  /\ suite \in Suites /\ explicit \in BOOLEAN /\ request \in Requests
  /\ layout \in Layouts /\ available \in Free
  /\ multiple \in Labels /\ told \in BOOLEAN /\ bound \in BOOLEAN /\ limit \in Limits
  /\ suite = "stream" => bound
  /\ phase = "size" /\ bytes = 0 /\ points = {} /\ warnings = {} /\ summary = <<>>

\* The array is sized once for all points of the probe.
SizeArray ==
  /\ phase = "size"
  /\ phase' = "measure"
  /\ bytes' = ArrayBytes
  /\ warnings' =
       (IF ExceedsLlc(ArrayBytes, SizingCache) THEN {} ELSE {"within-cache"})
         \cup (IF ArrayBytes < Desired THEN {"capped"} ELSE {})
  /\ UNCHANGED <<machine, points, summary>>

\* One kernel with one core or with all of them.
MeasureStream(op, threads) ==
  /\ phase = "measure" /\ suite = "stream"
  /\ ~\E p \in points : p.op = op /\ p.threads = threads
  /\ \E rate \in Rates :
       LET workingSet == bytes * Arrays(op)
           exceeds == ExceedsLlc(workingSet, Aggregate)
       IN  points' = points \cup
             {[op |-> op, threads |-> threads, local |-> TRUE,
               workingSet |-> workingSet, cache |-> Aggregate, exceeds |-> exceeds,
               confidence |-> IF exceeds THEN "high" ELSE "low", rate |-> rate]}
  /\ UNCHANGED <<machine, phase, bytes, warnings, summary>>

\* Node `reader' reads the buffer of node 0.
MeasureNuma(reader) ==
  /\ phase = "measure" /\ suite = "numa"
  /\ ~\E p \in points : p.threads = reader
  /\ \E rate \in Rates :
       LET exceeds == ExceedsLlc(bytes, NodeLlc(reader))
       IN  points' = points \cup
             {[op |-> "read", threads |-> reader, local |-> reader = 0,
               workingSet |-> bytes, cache |-> NodeLlc(reader), exceeds |-> exceeds,
               confidence |-> IF ~exceeds THEN "low" ELSE IF bound THEN "high" ELSE "medium",
               rate |-> rate]}
  /\ UNCHANGED <<machine, phase, bytes, warnings, summary>>

\* The probe ends; an exception may have ended it before all points were made.
ProbeEnds ==
  /\ phase = "measure"
  /\ phase' = "infer"
  /\ UNCHANGED <<machine, bytes, points, warnings, summary>>

--------------------------------------------------------------------------------
(* infer.py *)

\* Mutant: the label is believed.
Qualified_ByLabel(items) == {p \in items : p.exceeds}

\* _dram_bandwidth_points: the label is believed only if the numbers agree, where
\* the point has them; without them it is believed as it is.
Qualified(items) == {p \in items : p.exceeds /\ (told => p.workingSet >= 4 * p.cache)}

\* limit_with_tolerance
Above(p) == limit > 0 /\ 100 * p.rate > 105 * limit

Best(items) ==
  {p \in items : p = CHOOSE b \in items : \A q \in items : b.rate >= q.rate}
Of(op) == {p \in points : p.op = op}
OneCore(items) == {p \in items : p.threads = 1}

ReadPoints == {p \in Qualified(Of("read")) : ~Above(p)}

StreamFigures ==
  [single_core_read |-> Best(OneCore(ReadPoints)),
   aggregate_read |-> Best(ReadPoints),
   single_core_write |-> Best(OneCore(Qualified(Of("write")))),
   aggregate_write |-> Best(Qualified(Of("write"))),
   single_core_copy |-> Best(OneCore(Qualified(Of("copy")))),
   aggregate_copy |-> Best(Qualified(Of("copy"))),
   single_core_triad |-> Best(OneCore(Qualified(Of("triad")))),
   aggregate_triad |-> Best(Qualified(Of("triad")))]

NumaBandwidth == {p \in Qualified(points) : ~Above(p)}

NumaFigures ==
  [local_payload |-> {p \in NumaBandwidth : p.local},
   interconnect_payload |-> {p \in NumaBandwidth : ~p.local}]

\* diagnostics["memory_bandwidth"], diagnostics["numa_bandwidth"]
AboveLimit == {p \in Qualified(Of("read")) : Above(p)}
Unverified == Of("read") \ Qualified(Of("read"))
Rejected == points \ NumaBandwidth

\* Mutant: only what exceeds the bound is reported.
Validation_LimitOnly == IF limit > 0 /\ AboveLimit # {} THEN {"above-limit"} ELSE {}

\* _bandwidth_validation_warnings
Validation ==
  IF suite = "stream"
  THEN (IF limit > 0 /\ AboveLimit # {} THEN {"above-limit"} ELSE {})
         \cup (IF Unverified # {} THEN {"points-unverified"} ELSE {})
  ELSE IF Rejected # {} THEN {"numa-rejected"} ELSE {}

Infer ==
  /\ phase = "infer"
  /\ phase' = "done"
  /\ summary' = IF suite = "stream" THEN StreamFigures ELSE NumaFigures
  /\ warnings' = warnings \cup Validation
  /\ UNCHANGED <<machine, bytes, points>>

Done == phase = "done" /\ UNCHANGED summaryVars

SummaryNext ==
  \/ SizeArray
  \/ \E op \in Operations, threads \in {1, 2} : MeasureStream(op, threads)
  \/ \E reader \in Nodes : MeasureNuma(reader)
  \/ ProbeEnds \/ Infer \/ Done

SummarySpec == SummaryInit /\ [][SummaryNext]_summaryVars

--------------------------------------------------------------------------------
SummaryFigures == UNION {summary[f] : f \in DOMAIN summary}

SummaryTypeOK ==
  /\ phase \in {"size", "measure", "infer", "done"}
  /\ bytes \in Nat
  /\ \A p \in points : p.op \in Operations \cup {"read"} /\ p.rate \in Rates
  /\ SummaryFigures \subseteq points
  /\ warnings \subseteq {"within-cache", "capped", "above-limit", "points-unverified", "numa-rejected"}

\* METRICS.md:93-97, 128-130: no figure of the DRAM and NUMA summary is computed
\* from a working set that four times the LLC could hold that the measuring CPUs
\* really have, however sysfs tells of its sharing.  That goes for a binary that
\* --skip-build has left from an older source too, whatever its label means, if
\* it writes the sizes beside it; without them only if its label means four.
SummaryIsBeyondCaches ==
  told \/ multiple >= 4 =>
    \A p \in SummaryFigures :
      p.workingSet >= 4 * (IF suite = "stream" THEN layout.all ELSE layout.reach[p.threads])

\* Whatever kernel runs, and whatever size was asked for, the arrays together
\* take at most half of the memory that was free (a third for the one NUMA
\* buffer), unless they are already at the smallest size.
LeavesMemoryFree ==
  available > 0 =>
    IF suite = "stream"
    THEN \A p \in points : bytes > 2 * p.threads => 2 * Mapped(p.op, p.threads) <= available
    ELSE bytes > Floor => 3 * bytes <= available

\* A read point that did not reach the figures it belongs to is spoken of in the
\* report's warnings, the native ones or the runner's.
ExclusionIsSaid ==
  phase = "done" =>
    \A p \in Of("read") :
      p \notin (IF suite = "stream" THEN ReadPoints ELSE SummaryFigures)
        => warnings \cap {"above-limit", "points-unverified", "numa-rejected"} # {}
================================================================================
