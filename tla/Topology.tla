-------------------------------- MODULE Topology --------------------------------
(***************************************************************************)
(* native/runtime.hpp: what the native suite takes the machine to be.      *)
(* discover_cpus reads one record for each allowed CPU out of sysfs; the   *)
(* operators below choose from these records the CPUs the probes use.      *)
(*                                                                         *)
(* A machine is the sequence of its allowed CPUs in ascending order, as    *)
(* sysfs shows each of them: the number `cpu', the numbers socket, die,    *)
(* core and node (Missing where there is no such file), and `caches', its  *)
(* data caches [level, bytes, shared], where `shared' is the text of       *)
(* shared_cpu_list as a sequence of ranges <<first, last>>.  `unit' is the *)
(* physical core the CPU really is a thread of, which no file shows.       *)
(***************************************************************************)
EXTENDS Integers, Sequences, FiniteSets, SequencesExt

Missing == -1

Shown == Nat \cup {Missing}
Cache == [level : Nat, bytes : Nat, shared : Seq(Nat \X Nat)]
Cpu == [cpu : Nat, socket : Shown, die : Shown, core : Shown, node : Shown, unit : Nat,
        caches : SUBSET Cache]
IsMachine(m) ==
  m \in Seq(Cpu) /\ Len(m) > 0 /\ \A i, j \in 1 .. Len(m) : i < j => m[i].cpu < m[j].cpu

\* The first element of S in the order R, then the second, and so on.
InOrder(S, R) ==
  [i \in 1 .. Cardinality(S) |->
     CHOOSE x \in S : Cardinality({y \in S : <<y, x>> \in R}) = i - 1]

Ascending(S) == InOrder(S, {p \in S \X S : p[1] < p[2]})

\* The elements of s at the places in I, in their order.
AtPlaces(s, I) ==
  LET places == Ascending(I) IN [k \in 1 .. Cardinality(I) |-> s[places[k]]]

\* parse_cpu_list: the numbers of all ranges; a reversed range has none.
ParseCpuList(ranges) == UNION {r[1] .. r[2] : r \in ToSet(ranges)}

\* discover_cpus: what a missing file is replaced by.
Discovered(m) ==
  LET Or(x, fallback) == IF x = Missing THEN fallback ELSE x
      info(r) == [r EXCEPT !.socket = Or(r.socket, 0), !.die = Or(r.die, 0),
                           !.core = Or(r.core, r.cpu), !.node = Or(r.node, 0)]
  IN  [i \in 1 .. Len(m) |-> info(m[i])]

SameCore(a, b) == a.socket = b.socket /\ a.die = b.die /\ a.core = b.core

\* physical_cpus: the first CPU of every core.
PhysicalCpus(cpus) ==
  AtPlaces(cpus, {i \in DOMAIN cpus : ~\E j \in 1 .. i - 1 : SameCore(cpus[j], cpus[i])})

\* Mutant: all cores of one node before the next.
NumaBalanced_NodeByNode(cpus) ==
  LET P == ToSet(PhysicalCpus(cpus))
      before(a, b) == a.node < b.node \/ (a.node = b.node /\ a.cpu < b.cpu)
  IN  InOrder(P, {p \in P \X P : before(p[1], p[2])})

\* numa_balanced_physical_cpus: the first core of each node, then the second of
\* each that has one, and so on.
NumaBalanced(cpus) ==
  LET P == ToSet(PhysicalCpus(cpus))
      round == [r \in P |-> Cardinality({s \in P : s.node = r.node /\ s.cpu < r.cpu})]
      before(a, b) == round[a] < round[b] \/ (round[a] = round[b] /\ a.node < b.node)
  IN  InOrder(P, {p \in P \X P : before(p[1], p[2])})

\* thread_counts: 1, 2, 4 ... and the maximum itself.
ThreadCounts(maximum) ==
  Ascending({n \in 1 .. maximum : n = maximum \/ \E k \in 0 .. n : n = 2 ^ k})

\* The CPUs that share r's cache of the highest level; none without sysfs.
LlcSiblings(r) ==
  UNION {ParseCpuList(c.shared) :
           c \in {c \in r.caches : \A d \in r.caches : d.level <= c.level}}

\* cpu_relation
CpuRelation(a, b) ==
  CASE SameCore(a, b) -> "smt-sibling"
    [] ~SameCore(a, b) /\ a.node = b.node ->
         IF b.cpu \in LlcSiblings(a) THEN "same-llc-different-core" ELSE "cross-llc-same-numa"
    [] ~SameCore(a, b) /\ a.node # b.node ->
         IF a.socket = b.socket THEN "cross-numa-same-socket" ELSE "cross-socket"

\* unique_data_cache_instances: one for all CPUs that share it.  A cache without
\* a list of CPUs counts for each CPU that shows it.
DataCaches(cpus) ==
  LET sharers(r, c) == IF ParseCpuList(c.shared) = {} THEN {r.cpu} ELSE ParseCpuList(c.shared)
  IN  UNION {{[level |-> c.level, bytes |-> c.bytes, cpus |-> sharers(r, c)] : c \in r.caches} :
               r \in ToSet(cpus)}

\* aggregate_last_level_cache_bytes; 0 without sysfs.
AggregateLlcBytes(cpus) ==
  LET found == DataCaches(cpus)
      last == {c \in found : \A d \in found : d.level <= c.level}
  IN  MapThenSumSet(LAMBDA c : c.bytes, last)

\* The pairs of places that two nested loops over a sequence visit.
PairsOf(s) == {p \in (DOMAIN s) \X (DOMAIN s) : p[1] < p[2]}

\* The order in which they do.
Visited(p, q) == p[1] < q[1] \/ (p[1] = q[1] /\ p[2] < q[2])
InLoops(S) == InOrder(S, {pq \in S \X S : Visited(pq[1], pq[2])})

\* The pairs whose relation no pair before them has.
RelationOf(cpus, p) == CpuRelation(cpus[p[1]], cpus[p[2]])
Representatives(cpus) ==
  {p \in PairsOf(cpus) :
     ~\E q \in PairsOf(cpus) : Visited(q, p) /\ RelationOf(cpus, q) = RelationOf(cpus, p)}

\* The first pair of threads of one core, if there is one.
SmtPair(cpus) == {p \in Representatives(cpus) : RelationOf(cpus, p) = "smt-sibling"}

Couples(s, S) ==
  LET pairs == InLoops(S)
  IN  [k \in 1 .. Cardinality(S) |-> <<s[pairs[k][1]], s[pairs[k][2]]>>]

\* Mutant: without the extra pair of the physical cores' matrix.
HandoffPairs_NoSmt(profile, cpus) ==
  LET physical == PhysicalCpus(cpus) IN
  CASE profile = "deep" -> Couples(cpus, PairsOf(cpus))
    [] profile = "standard" -> Couples(physical, PairsOf(physical))
    [] OTHER -> Couples(cpus, Representatives(cpus))

\* benchmark_core_latency: all pairs of CPUs, or all pairs of cores and one of
\* siblings, or one pair for each relation.
HandoffPairs(profile, cpus) ==
  LET physical == PhysicalCpus(cpus) IN
  CASE profile = "deep" -> Couples(cpus, PairsOf(cpus))
    [] profile = "standard" ->
         Couples(physical, PairsOf(physical)) \o Couples(cpus, SmtPair(cpus))
    [] OTHER -> Couples(cpus, Representatives(cpus))
================================================================================
