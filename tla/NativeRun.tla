------------------------------- MODULE NativeRun -------------------------------
(***************************************************************************)
(* One run of sdc-native: the command line, the choice of probes, the      *)
(* probes one after the other on the one main thread, and the JSON         *)
(* document.  A probe is a sequence of parts (a scope of its own for       *)
(* failures); a part is a sequence of measured points.  What a point       *)
(* computes is left out; where it runs, where its memory lives and what a  *)
(* failure in it does to the rest of the run is what the module is about.  *)
(***************************************************************************)
EXTENDS Topology

CONSTANTS
  Cases,        \* [command, machine, build]: a command line [wants, profile, only],
                \* a machine as Topology has it, the target of the build
  Sweep,        \* bound: points of a sweep
  MaxFailures   \* bound: failures in a run, refused pins included

ASSUME RunAssumption ==
  /\ \A c \in Cases :
       /\ IsMachine(c.machine)
       /\ c.command.only \in Seq(STRING)
       /\ c.command.profile \in {"smoke", "quick", "standard", "deep"}
  /\ Sweep \in Nat \ {0} /\ MaxFailures \in Nat

Registry == <<
  "timer", "cache-latency", "tlb", "memory-bandwidth", "cache-bandwidth",
  "stride-prefetch", "memory-parallelism", "page-policy",
  "loaded-memory-latency", "store-forwarding", "instruction-fetch",
  "pipeline", "compute-scaling", "branch-predictor", "branch-structures",
  "core-latency", "false-sharing", "numa", "rob", "os-overheads">>

None == -1

VARIABLES
  command, machine, build,   \* given from outside
  phase,          \* "parse", "setup", "probe", "emit", "exited"
  selected,       \* the probes to run, in order
  at, part, point,\* which probe, which of its parts, how many points of it are done
  cpus,           \* what discover_cpus has found
  plan,           \* the parts of each probe that was called so far
  affinity,       \* the CPUs the main thread may run on
  home,           \* the node of the part's buffer, once its pages are placed
  observations, warnings,
  stdout,         \* "nothing", "text" or "document"
  exit,           \* exit status; None while running, 134 for an abort
  failures,       \* history: failures so far
  refused         \* history: the probes in which the kernel has refused a pin

given == <<command, machine, build>>
position == <<selected, at, part, point>>
histories == <<failures, refused>>
setting == <<cpus, plan>>
vars == <<given, phase, position, setting, affinity, home, observations, warnings, stdout, exit, histories>>

--------------------------------------------------------------------------------
(* The machine as the probes see it. *)

Numbers(rs) == [i \in 1 .. Len(rs) |-> rs[i].cpu]
Here(c) == CHOOSE r \in ToSet(cpus) : r.cpu = c
NodeOf(c) == Here(c).node
Primary == cpus[1].cpu

Physical == Numbers(PhysicalCpus(cpus))
Balanced == Numbers(NumaBalanced(cpus))
Nodes == {r.node : r \in ToSet(PhysicalCpus(cpus))}
OnNode(n) == AtPlaces(Physical, {i \in DOMAIN Physical : NodeOf(Physical[i]) = n})
FrontOf(n) == OnNode(n)[1]

--------------------------------------------------------------------------------
(* Points and parts. *)

\* What one point asks for.  fill: the CPU the main thread is pinned to for
\* writing the buffer; pin: the one it is pinned to next; main: the CPU it
\* measures on, if it does; workers: the CPUs of the threads that pin
\* themselves; memory: the node of the buffer it measures; label: what its
\* observation says of the CPUs.
Blank == [fill |-> None, pin |-> None, main |-> None, workers |-> <<>>,
          memory |-> None, label |-> "none"]
ByMain(c) == [Blank EXCEPT !.main = c]
ByWorkers(cs) == [Blank EXCEPT !.workers = cs]
Labelled(pt, label) == [pt EXCEPT !.label = label]

Times(pt) == [i \in 1 .. Sweep |-> pt]
Threads(pt) == ToSet(pt.workers) \cup (IF pt.main = None THEN {} ELSE {pt.main})

\* fails: what a failure in the part leads to.
\*   "next"   caught, a warning, the probe goes on behind the scope
\*   "leave"  caught or reported, a warning, the probe returns
\*   "quiet"  the result is missing and nothing says so
\*   "throw"  an exception that only main() catches
\* buffer: when the main thread places the pages it measures.
\*   "each" by every point, "first" before the part pins anything,
\*   "bound" mbind, else by the first point; "none" there is no such buffer
Part(runs, pin, buffer, fails, points) ==
  [runs |-> runs, pin |-> pin, buffer |-> buffer, fails |-> fails, points |-> points]

Full == command.profile # "smoke"
AtMost(n, limit) == IF command.profile = "quick" /\ n > limit THEN limit ELSE n
Solo == ByMain(Primary)
Local == [Solo EXCEPT !.memory = NodeOf(Primary)]

\* One point for each number of threads, on the first of the balanced cores.
Scaling(maximum) ==
  LET counts == ThreadCounts(maximum)
  IN  [k \in 1 .. Len(counts) |->
         Labelled(ByWorkers(SubSeq(Balanced, 1, counts[k])), "physical-cores")]

TimerParts == <<Part(TRUE, Primary, "none", {}, Times(Solo))>>

CacheLatencyParts == <<Part(TRUE, Primary, "each", {"next"}, Times(Local))>>

TlbParts == <<Part(TRUE, Primary, "each", {"next"}, Times(Local))>>

MemoryBandwidthParts ==
  <<Part(TRUE, None, "none", {"next"},
         Scaling(IF Full THEN AtMost(Len(Physical), 8) ELSE 1))>>

CacheBandwidthParts ==
  <<Part(Full, None, "none", {"next"}, Times(ByWorkers(<<Primary>>)))>>

StridePrefetchParts == <<Part(Full, Primary, "each", {"next"}, Times(Local))>>

MemoryParallelismParts == <<Part(Full, Primary, "each", {"next"}, Times(Local))>>

\* Base pages, then huge pages.
PagePolicyParts ==
  <<Part(Full, Primary, "each", {"leave"}, <<Local>>),
    Part(Full, None, "each", {"leave"}, <<Local>>)>>

\* The buffers are filled before the main thread moves to the latency CPU;
\* load comes from none of the other cores, then from more and more of them.
LoadedLatencyParts ==
  LET others == AtPlaces(Balanced, {i \in DOMAIN Balanced : Balanced[i] # Balanced[1]})
      counts == IF others = <<>> THEN <<0>>
                ELSE <<0>> \o ThreadCounts(AtMost(Len(others), 4))
      loaded(n) == [ByMain(Balanced[1]) EXCEPT !.pin = Balanced[1],
                                               !.workers = SubSeq(others, 1, n)]
  IN  <<Part(Full, None, "first", {"next"}, [k \in 1 .. Len(counts) |-> loaded(counts[k])])>>

\* Mutant: the probe relies on where the one before it has left the thread.
StoreForwardingParts_Unpinned == <<Part(Full, None, "none", {}, Times(Solo))>>
StoreForwardingParts == <<Part(Full, Primary, "none", {}, Times(Solo))>>

InstructionFetchParts == <<Part(Full, Primary, "none", {"next"}, Times(Solo))>>

PipelineParts == <<Part(TRUE, Primary, "none", {}, Times(Solo))>>

\* Then the first two threads of one core.
ComputeScalingParts ==
  LET smt == Couples(Numbers(cpus), SmtPair(cpus))
  IN  <<Part(Full, None, "none", {"throw"},
             Scaling(AtMost(Len(Physical), 4))
               \o [k \in 1 .. Len(smt) |-> Labelled(ByWorkers(smt[k]), "smt-siblings")])>>

BranchPredictorParts == <<Part(TRUE, Primary, "none", {}, Times(Solo))>>

\* The targets, the history, the return stack, the indirect calls.
BranchStructuresParts ==
  <<Part(Full, Primary, "none", {"next"}, Times(Solo)),
    Part(Full, Primary, "none", {}, Times(Solo)),
    Part(Full, Primary, "none", {"next"}, Times(Solo)),
    Part(Full, Primary, "none", {"next"}, Times(Solo))>>

CoreLatencyParts ==
  LET pairs == HandoffPairs(command.profile, cpus)
      handoff(p) == Labelled(ByWorkers(<<p[1].cpu, p[2].cpu>>), CpuRelation(p[1], p[2]))
  IN  <<Part(Len(cpus) > 1, None, "none", {"throw"},
             [k \in 1 .. Len(pairs) |-> handoff(pairs[k])])>>

\* Six distances on the first two cores.
FalseSharingParts ==
  <<Part(Full /\ Len(Physical) > 1, None, "none", {"throw"},
         IF Len(Physical) = 1 THEN <<>>
         ELSE Times(ByWorkers(<<Physical[1], Physical[2]>>)))>>

\* For each memory node a buffer, for each CPU node a chase by the main thread
\* and a read by that node's cores; the memory node's CPU fills it each time.
NodeAt(i) == CHOOSE n \in Nodes : Cardinality({x \in Nodes : x < n}) = i - 1

\* Mutant: the buffer is filled from wherever the main thread is.
NumaPoints_FilledAnywhere(n) ==
  [k \in 1 .. 2 * Cardinality(Nodes) |->
     LET d == NodeAt((k + 1) \div 2)
         readers == SubSeq(OnNode(d), 1, AtMost(Len(OnNode(d)), 4))
     IN  IF k % 2 = 1
         THEN [ByMain(FrontOf(d)) EXCEPT !.pin = FrontOf(d), !.memory = n]
         ELSE [ByWorkers(readers) EXCEPT !.pin = FrontOf(n), !.memory = n]]
NumaPoints(n) ==
  [k \in 1 .. 2 * Cardinality(Nodes) |->
     LET d == NodeAt((k + 1) \div 2)
         readers == SubSeq(OnNode(d), 1, AtMost(Len(OnNode(d)), 4))
     IN  IF k % 2 = 1
         THEN [ByMain(FrontOf(d)) EXCEPT !.fill = FrontOf(n), !.pin = FrontOf(d), !.memory = n]
         ELSE [ByWorkers(readers) EXCEPT !.pin = FrontOf(n), !.memory = n]]

NumaParts ==
  [i \in 1 .. Cardinality(Nodes) |->
     Part(Full, None, "bound", {"next"}, NumaPoints(NodeAt(i)))]

RobParts ==
  <<Part(Full /\ build = "x86_64", Primary, "each", {"throw"}, Times(Local))>>

\* System calls, page faults, the pipe handoff with a second thread.
OsOverheadsParts ==
  <<Part(TRUE, Primary, "none", {}, <<Solo>>),
    Part(TRUE, None, "each", {"next"}, <<Local>>),
    Part(Len(cpus) > 1, None, "none", {"leave", "throw", "quiet"},
         IF Len(cpus) = 1 THEN <<>>
         ELSE <<Labelled([Solo EXCEPT !.pin = Primary, !.workers = <<cpus[2].cpu>>],
                         CpuRelation(cpus[1], cpus[2]))>>)>>

Parts(p) ==
  CASE p = "timer" -> TimerParts
    [] p = "cache-latency" -> CacheLatencyParts
    [] p = "tlb" -> TlbParts
    [] p = "memory-bandwidth" -> MemoryBandwidthParts
    [] p = "cache-bandwidth" -> CacheBandwidthParts
    [] p = "stride-prefetch" -> StridePrefetchParts
    [] p = "memory-parallelism" -> MemoryParallelismParts
    [] p = "page-policy" -> PagePolicyParts
    [] p = "loaded-memory-latency" -> LoadedLatencyParts
    [] p = "store-forwarding" -> StoreForwardingParts
    [] p = "instruction-fetch" -> InstructionFetchParts
    [] p = "pipeline" -> PipelineParts
    [] p = "compute-scaling" -> ComputeScalingParts
    [] p = "branch-predictor" -> BranchPredictorParts
    [] p = "branch-structures" -> BranchStructuresParts
    [] p = "core-latency" -> CoreLatencyParts
    [] p = "false-sharing" -> FalseSharingParts
    [] p = "numa" -> NumaParts
    [] p = "rob" -> RobParts
    [] p = "os-overheads" -> OsOverheadsParts

--------------------------------------------------------------------------------
Init ==
  /\ \E c \in Cases : command = c.command /\ machine = c.machine /\ build = c.build
  /\ phase = "parse"
  /\ selected = <<>> /\ at = 1 /\ part = 1 /\ point = 0
  /\ cpus = <<>> /\ plan = <<>> /\ affinity = {r.cpu : r \in ToSet(machine)} /\ home = None
  /\ observations = {} /\ warnings = {}
  /\ stdout = "nothing" /\ exit = None
  /\ failures = 0 /\ refused = {}

Leaves(status) == phase' = "exited" /\ exit' = status

\* parse_options throws, and main() catches.
BadArguments ==
  /\ phase = "parse" /\ command.wants = "bad"
  /\ Leaves(1)
  /\ UNCHANGED <<given, position, setting, affinity, home, observations, warnings, stdout, histories>>

HelpOrList ==
  /\ phase = "parse" /\ command.wants = "help"
  /\ Leaves(0)
  /\ stdout' = "text"
  /\ UNCHANGED <<given, position, setting, affinity, home, observations, warnings, histories>>

UnsupportedBuild ==
  /\ phase = "parse" /\ command.wants = "run" /\ build = "unsupported"
  /\ Leaves(2)
  /\ UNCHANGED <<given, position, setting, affinity, home, observations, warnings, stdout, histories>>

\* selected_probe_definitions: registry order, whatever order was asked for.
Requested == ToSet(command.only)
Selection ==
  AtPlaces(Registry, {i \in DOMAIN Registry : Requested = {} \/ Registry[i] \in Requested})

Unknown == Requested # {} /\ Len(Selection) # Cardinality(Requested)

Runs == phase = "parse" /\ command.wants = "run" /\ build # "unsupported"

UnknownProbe ==
  /\ Runs /\ Unknown
  /\ Leaves(1)
  /\ UNCHANGED <<given, position, setting, affinity, home, observations, warnings, stdout, histories>>

\* pin_to_cpu's result is not looked at: the kernel may refuse any of the pins
\* of a step, and the thread stays where it may run.
Refusals(pins) == {no \in SUBSET pins : failures + Cardinality(no) <= MaxFailures}
Refuse(no, who) ==
  /\ failures' = failures + Cardinality(no)
  /\ refused' = IF no = {} THEN refused ELSE refused \cup {who}
Pin(to, from, fails) == IF to = None \/ fails THEN from ELSE {to}

\* The CPUs are listed and the main thread is pinned to the first one.
Select ==
  /\ Runs /\ ~Unknown
  /\ phase' = "probe"
  /\ selected' = Selection
  /\ cpus' = Discovered(machine)
  /\ \E no \in Refusals({"pin"}) :
       /\ Refuse(no, "setup")
       /\ affinity' = Pin(machine[1].cpu, affinity, no # {})
  /\ UNCHANGED <<given, at, part, point, plan, home, observations, warnings, stdout, exit>>

--------------------------------------------------------------------------------
(* The loop over the selected probes. *)

Probing == phase = "probe" /\ at <= Len(selected)
Running == Probing /\ Len(plan) = at
TheProbe == selected[at]
TheParts == plan[at]
ThePart == TheParts[part]

\* probe->run(context): which CPUs and which points it takes follows from the
\* CPUs and the profile.
StartProbe ==
  /\ Probing /\ Len(plan) < at
  /\ plan' = Append(plan, Parts(TheProbe))
  /\ UNCHANGED <<given, cpus, phase, position, affinity, home, observations, warnings,
                 stdout, exit, histories>>

\* point = 0 is before a part, n while its n-th point is measured.
EnterPart ==
  /\ point = 0 /\ Running /\ part <= Len(TheParts) /\ ThePart.runs
  /\ point' = 1
  /\ \E no \in Refusals({ThePart.pin} \ {None}) :
       /\ Refuse(no, TheProbe)
       /\ affinity' = Pin(ThePart.pin, affinity, no # {})
  /\ home' \in CASE ThePart.buffer = "first" -> {NodeOf(c) : c \in affinity}
                 [] ThePart.buffer = "bound" -> {ThePart.points[1].memory, None}
                 [] OTHER -> {None}
  /\ UNCHANGED <<given, setting, phase, selected, at, part, observations, warnings, stdout, exit>>

\* An early return, for its profile, its machine or its build.
SkipPart ==
  /\ point = 0 /\ Running /\ part <= Len(TheParts) /\ ~ThePart.runs
  /\ part' = part + 1
  /\ UNCHANGED <<given, setting, phase, selected, at, point, affinity, home, observations, warnings,
                 stdout, exit, histories>>

\* The pins of a point: of the main thread, twice, and of each worker.
PinsOf(pt) ==
  {<<"fill", 0>> : x \in {pt.fill} \ {None}} \cup {<<"pin", 0>> : x \in {pt.pin} \ {None}}
    \cup {<<"worker", i>> : i \in DOMAIN pt.workers}

\* One more point: the buffer is filled, the threads are put in place, the
\* measurement is made and add_observation appends it.  A worker inherits the
\* affinity of the main thread, which pins itself before it starts workers that
\* measure, and behind that when it measures itself.
Measure ==
  /\ point > 0 /\ Running /\ point <= Len(ThePart.points)
  /\ LET pt == ThePart.points[point] IN
     \E no \in Refusals(PinsOf(pt)) :
       LET filling == Pin(pt.fill, affinity, <<"fill", 0>> \in no)
           running == Pin(pt.pin, filling, <<"pin", 0>> \in no)
           inherited == IF pt.main = None THEN running ELSE filling
           lost == {i \in DOMAIN pt.workers : <<"worker", i>> \in no}
           pinned == {pt.workers[i] : i \in DOMAIN pt.workers \ lost}
       IN  /\ Refuse(no, TheProbe)
           /\ affinity' = running
           /\ \E filler \in filling, runner \in running, stray \in inherited :
                LET placed == IF home # None THEN home ELSE NodeOf(filler)
                IN  /\ home' = IF ThePart.buffer = "bound" THEN placed ELSE home
                    /\ observations' = observations \cup
                         {[probe |-> TheProbe, part |-> part, point |-> point,
                           cpus |-> Threads(pt), workers |-> pt.workers, label |-> pt.label,
                           ran |-> pinned \cup (IF lost = {} THEN {} ELSE {stray})
                                     \cup (IF pt.main = None THEN {} ELSE {runner}),
                           memory |-> pt.memory,
                           placed |-> IF pt.memory = None THEN None ELSE placed]}
  /\ point' = point + 1
  /\ UNCHANGED <<given, setting, phase, selected, at, part, warnings, stdout, exit>>

LeavePart ==
  /\ point > 0 /\ Running /\ point > Len(ThePart.points)
  /\ part' = part + 1
  /\ point' = 0
  /\ home' = None
  /\ UNCHANGED <<given, setting, phase, selected, at, affinity, observations, warnings, stdout, exit, histories>>

\* run() has returned.
NextProbe ==
  /\ point = 0 /\ Running /\ part > Len(TheParts)
  /\ at' = at + 1 /\ part' = 1 /\ point' = 0
  /\ UNCHANGED <<given, setting, phase, selected, affinity, home, observations, warnings, stdout, exit, histories>>

\* A mapping, a protection change, a pipe or a thread is refused.
Fails(how) ==
  /\ point > 0 /\ failures < MaxFailures /\ Running
  /\ point <= Len(ThePart.points)
  /\ IF how = "abort" THEN Len(ThePart.points[point].workers) > 1 ELSE how \in ThePart.fails
  /\ failures' = failures + 1
  /\ UNCHANGED refused

Warn == warnings' = warnings \cup {<<TheProbe, part>>}

\* Mutant: the exception is swallowed.
FailureCaught_Silent ==
  /\ Fails("next")
  /\ part' = part + 1 /\ point' = 0 /\ home' = None
  /\ UNCHANGED <<given, setting, phase, selected, at, affinity, observations, warnings, stdout, exit>>
FailureCaught ==
  /\ Fails("next") /\ Warn
  /\ part' = part + 1 /\ point' = 0 /\ home' = None
  /\ UNCHANGED <<given, setting, phase, selected, at, affinity, observations, stdout, exit>>

FailureEndsProbe ==
  /\ Fails("leave") /\ Warn
  /\ part' = Len(TheParts) + 1 /\ point' = 0 /\ home' = None
  /\ UNCHANGED <<given, setting, phase, selected, at, affinity, observations, stdout, exit>>

FailureUnsaid ==
  /\ Fails("quiet")
  /\ part' = part + 1 /\ point' = 0
  /\ UNCHANGED <<given, setting, phase, selected, at, affinity, home, observations, warnings, stdout, exit>>

\* What main() catches ends the run: the observations made so far are lost.
FailureUncaught ==
  /\ Fails("throw") /\ Leaves(1)
  /\ UNCHANGED <<given, position, setting, affinity, home, observations, warnings, stdout>>

\* One of several threads cannot be created: the vector of those that run is
\* destroyed, which terminates the process.
Aborted ==
  /\ Fails("abort") /\ Leaves(134)
  /\ UNCHANGED <<given, position, setting, affinity, home, observations, warnings, stdout>>

EmitJson ==
  /\ phase = "probe" /\ at > Len(selected)
  /\ stdout' = "document"
  /\ Leaves(0)
  /\ UNCHANGED <<given, position, setting, affinity, home, observations, warnings, histories>>

Exited == phase = "exited" /\ UNCHANGED vars

Next ==
  \/ BadArguments \/ HelpOrList \/ UnsupportedBuild \/ UnknownProbe \/ Select
  \/ StartProbe \/ EnterPart \/ SkipPart \/ Measure \/ LeavePart \/ NextProbe
  \/ FailureCaught \/ FailureEndsProbe \/ FailureUnsaid \/ FailureUncaught \/ Aborted
  \/ EmitJson \/ Exited

Spec == Init /\ [][Next]_vars

--------------------------------------------------------------------------------
\* Each thread measures on the CPU its result is labelled with, although one
\* main thread serves all probes and several leave it elsewhere (METRICS.md:89,
\* 109, 139, 189: the measuring threads are fixed to their CPUs).  A pin that
\* the kernel refuses costs the probe it belongs to and no other.
RunsWhereLabelled ==
  \A o \in observations : o.probe \in refused \/ o.ran = o.cpus

\* The memory a point measures is on the node it is said to be on, or on the
\* measuring CPU's own node: no earlier probe's pin decides its first touch.
MemoryWhereLabelled ==
  \A o \in observations : o.memory # None =>
    o.probe \in refused \/ o.placed = o.memory

\* The document is there exactly when the exit status tells the caller to read
\* it, and it has what every probe that was asked for has measured, whatever the
\* order and the repetitions: nothing is missing from a successful run that no
\* warning speaks of, the pipe handoff's I/O errors apart.  A name that no probe
\* has lets no run succeed.
DocumentIsComplete ==
  /\ stdout = "document" => exit = 0
  /\ phase = "exited" /\ exit = 0 /\ command.wants = "run" =>
       /\ stdout = "document"
       /\ \A p \in IF Requested = {} THEN ToSet(Registry) ELSE Requested :
            \E k \in DOMAIN selected :
              LET parts == plan[k]
                  said(i) == \E j \in 1 .. i : <<p, j>> \in warnings
                  there == {<<o.part, o.point>> : o \in {o \in observations : o.probe = p}}
              IN  /\ selected[k] = p
                  /\ \A i \in 1 .. Len(parts) :
                       parts[i].runs /\ "quiet" \notin parts[i].fails /\ ~said(i)
                         => {i} \X (1 .. Len(parts[i].points)) \subseteq there

--------------------------------------------------------------------------------
(* The machine as it is. *)

Unit(c) == Here(c).unit
Units == {r.unit : r \in ToSet(cpus)}

\* The numbers in sysfs tell all cores apart, and threads of one core have the
\* same.  Not so where the numbers of cores begin anew in every cluster, and not
\* without the files.
CoresTold == \A a, b \in ToSet(cpus) : SameCore(a, b) => a.unit = b.unit
SiblingsTold == \A a, b \in ToSet(cpus) : a.unit = b.unit => SameCore(a, b)

\* Threads of one core are on one node and behind one last cache, and the CPUs
\* behind a last cache are so for each other.
SharingTold ==
  \A a, b \in ToSet(cpus) :
    /\ SameCore(a, b) => a.node = b.node /\ LlcSiblings(a) = LlcSiblings(b)
    /\ b.cpu \in LlcSiblings(a) => a.cpu \in LlcSiblings(b)

\* In a document no two threads of a point share a core, unless it is a point about sharing
\* one (METRICS.md:89: every thread is fixed to a physical core of its own).
\* The threads of a scaling point are spread evenly over the nodes, and the
\* last point of the full sweep has a thread on every core.
ThreadsOnOwnCores ==
  stdout = "document" => \A o \in observations :
    LET share(n) == Cardinality({c \in o.cpus : NodeOf(c) = n})
        cores(n) == Cardinality({r.unit : r \in {r \in ToSet(cpus) : r.node = n}})
    IN  /\ o.label \in {"none", "physical-cores"} /\ SiblingsTold =>
             \A c, d \in o.cpus : c # d => Unit(c) # Unit(d)
        /\ o.label = "physical-cores" => Cardinality(o.cpus) = Len(o.workers)
        /\ CoresTold /\ SiblingsTold /\ SharingTold =>
             /\ o.label = "smt-siblings" => Cardinality({Unit(c) : c \in o.cpus}) = 1
             /\ o.label = "physical-cores" =>
                  \A m, n \in Nodes : share(m) < share(n) - 1 => share(m) = cores(m)
             /\ o.probe = "memory-bandwidth" /\ command.profile \in {"standard", "deep"}
                  /\ o.point = Len(MemoryBandwidthParts[1].points) =>
                  {Unit(c) : c \in o.cpus} = Units

\* How two CPUs really are to each other.
TrueRelation(a, b) ==
  IF a.unit = b.unit THEN "smt-sibling" ELSE CpuRelation(a, b)

\* A run that ends well has measured every kind of path between two CPUs that
\* the machine has and no other, in every profile, although each profile has a
\* choice of pairs of its own (METRICS.md:147).
PathsAreCovered ==
  exit = 0 /\ stdout = "document" /\ "core-latency" \in ToSet(selected)
    /\ CoresTold /\ SiblingsTold /\ SharingTold =>
    LET measured == {o \in observations : o.probe = "core-latency"}
        pairs == {p \in ToSet(cpus) \X ToSet(cpus) : p[1].cpu < p[2].cpu}
    IN  /\ \A o \in measured :
             o.label = TrueRelation(Here(o.workers[1]), Here(o.workers[2]))
        /\ {o.label : o \in measured} = {TrueRelation(p[1], p[2]) : p \in pairs}
================================================================================
