# SystemDecap: specification and verification

SystemDecap measures a CPU and its memory system (a native C++ suite of twenty
probes), infers capacities and bandwidths from the observations (Python), and
shows reports in a local web workspace (Python server, JavaScript page). This
directory holds TLA+ models of the parts of it that have state and can go wrong,
the TLC configurations that check them on small instances, and TLAPS proofs, for
every instance, of the thread protocols, the pointer chain, whole native runs,
the hardware counters, the bandwidth summary, the detectors of knees, the report
repository, the runs that write into it, and the page. `PROJECT.json` maps every
definition to the lines it stands for and lists runs, mutants, hazards and
theorems. Paths below are relative to the repository.

## 1. Inventory

| component | state | operations | what makes it hard | what makes it correct |
|---|---|---|---|---|
| Measurement barrier (`native/support/stream.hpp`, `loaded_memory_latency.cpp`, `compute_scaling.cpp`, `false_sharing.cpp`, `numa.cpp`) | atomics `ready`, `go`, `stop`, the worker vector, per-worker counts, the array's first-touch owners | spawn, announce, release, pass, stop, join, sum | threads in every order, a thread constructor that throws, page placement | placement before timing, all passes in the figure, no worker outlives its frame |
| Ping-pong (`core_latency.cpp`) | one atomic word, `ready`, `go` | take, give, join | two spinning threads | the legs timed are the legs divided by |
| Pipe handoff (`os_overheads.cpp`) | two pipes, `io_ok` | write, read, close | blocking reads, failing system calls | published only if complete, descriptors open while used |
| Pointer chase (`pointer_chase.hpp`) | the chain in the buffer | build, follow | 32-bit offsets | one ring through all points |
| Hardware counters (`runtime.hpp`, `kernel_measurement.hpp`) | three groups of perf descriptors | open, enable, stop, read, close | every system call may fail | no leak, figures only from counters that covered the kernel |
| Generated machine code (`branch_structures.cpp`, `rob.cpp`, `instruction_fetch.cpp`, `ExecutableBuffer`) | a mapping that is writable, then executable | map, store, seal, call | sizes, offsets and displacements are computed apart from each other for two architectures | only whole instructions of the sealed buffer are executed, and as many as the figures are divided by |
| Native run (`main.cpp`, `cli.cpp`, `probe_registry.cpp`, all probes) | selected probes, the main thread's affinity, observations, warnings, output | parse, select, run a probe, fail, emit | one main thread is pinned and left pinned by one probe after another; a pin may be refused; exceptions | each figure is measured where its label says; the document is complete |
| Array sizing and DRAM summary (`memory_bandwidth.cpp`, `numa.cpp`, `infer.py`, `runner.py`) | array size, labelled points, summary, warnings | size, measure, qualify, summarise, warn | boundaries of cache, memory, tolerance; labels of an older binary; caches that nodes share or sysfs hides | no cache bandwidth in the DRAM summary, half of the memory stays free |
| Curve inference (`infer.py`, `rob.cpp`) | none (pure) | seven knee detectors | noise, ends of the curve | spikes are no knees, steps are |
| Report repository (`server.py`) | catalog cache under a lock, files | catalog, detail | a thread a request, files rewritten meanwhile, coarse time stamps | an answer is a picture of the reports as they were while the request ran |
| Runner (`runner.py`, `cli.py`) | four files of an output directory | build, discover, measure, infer, write | kills, full disks, shared directories | a report has its raw output beside it |
| Browser workspace (`web/app.js`) | catalog, selection, report cache, route, URL, page, rows | open, tick, compare, back, refresh, search | tasks that await answers overlap | the page shows what is selected and loaded |
| Topology (`runtime.hpp`, `core_latency.cpp`) | none after discovery | parse, order, relate, choose | machines of odd shapes, numbers that repeat, files that are missing | every thread on a core of its own, every kind of path measured under its name |
| Rendering (`web/*.js` but `app.js`), metric catalog, inventory of the machine (`discover.py`), build files, tests | none | – | – | not modelled, see section 7 |

How they interact. `runner.py` starts the native program as a process of its own
and reads one JSON document from its standard output; `infer.py` turns the
observations into figures; the runner writes four files. The server reads
`report.json` from the file system while runs write them; nothing but the file
system connects the two, and `LiveReports` composes them over it. The page talks to the server by HTTP. In the native
program the probes run one after the other on one main thread and share its
affinity; the multi-threaded probes create workers that share flags and an
array with main and end before the function returns.

## 2. Modules

| module | models | state and actions in terms of the code |
|---|---|---|
| `MeasurementWindow` | the promise of a multi-threaded measurement | abstract: a stopwatch per worker, work done, one report. `Start`, `Work` (only while the watch runs), `Stop`, `Report` (all the work, once), `Abandon` (nothing reported) |
| `ProbeBarrier` | `run_stream`, `read_existing`, loaded latency, compute scaling, false sharing | `kind` picks the function; `mpc` and `wpc` are the places of main and of each worker; `ready`, `go`, `stop` are the atomics; one action per step between two accesses to shared state; `owner` says who first touched each cell |
| `ProbeBarrierProofs` | – | its theorems |
| `Relay` | the promise of a ping-pong: legs alternate, and the time covers all of them | abstract |
| `TurnHandoff` | `ping_pong_latency` | `turn` is the exchanged word; `fround`, `sround` the rounds of the two threads; each spin is an action that is enabled when the awaited value is there |
| `PipeHandoff` | the handoff of `os_overheads.cpp` | `main` and `second` are the places of the two threads, `mainRound` and `secondRound` their rounds; bytes in each pipe; every read and write either moves a byte or fails; both ends of both pipes stay open in the process, so a dead partner is no end of file |
| `HandoffProofs` | – | the theorems of `TurnHandoff` and `PipeHandoff` |
| `PointerChase` | both chain builders and the chase | the buffer as a function from addresses to offsets, cut to `Modulus` where the code has `uint32_t` |
| `PerfCounters` | `PerfGroup`, `measure_kernel`, `probe_perf_group`, publication of counter figures | groups opened, started, stopped, read and closed in the code's order; each system call may fail |
| `MCKernels` | pointer chase and generated code in one run | a behaviour is one or the other |
| `GeneratedCode` | the code that `branch_structures.cpp`, `rob.cpp` and `instruction_fetch.cpp` generate, and its execution | a byte of the buffer belongs to one instruction and has a place in it; `MapBuffer`, one `Emit` per store, `Seal` (`mprotect`), `Enter` (the kernel's call) and `Execute`, which moves `ip`, the stack, the link register and the zero flag |
| `KernelProofs` | – | the theorems of `PointerChase` and `GeneratedCode` |
| `Topology` | `discover_cpus`, `physical_cpus`, `numa_balanced_physical_cpus`, `thread_counts`, `cpu_relation`, `aggregate_last_level_cache_bytes`, the pairs of the core-latency probe | pure operators over a machine: the sequence of its CPUs, each with what sysfs shows of it (or `Missing`) and with the core it really belongs to, which no file shows |
| `NativeRun`, `MCNativeRun` | a whole run of the native program, on top of `Topology` | each probe is a sequence of parts (scopes for failures), a part a sequence of points, each of them derived from the discovered CPUs and the profile as the probe derives it; the CPUs a point runs on and the node its buffer was placed on are computed from what happened before, a refused pin included; failures are caught where the probe has a handler, and end the program where not |
| `NativeRunProofs` | – | the theorems of `NativeRun`, the lemmas about `Topology` |
| `DramSummary` | from the size of an array to the warnings of the report, on top of `Topology` | three phases: size, measure and label, infer and warn; the LLC the code computes comes from `Topology`, the one a point can really reach from the layout of the machine; the binary may be an older one whose label means another multiple (`multiple`) or whose points lack the byte counts (`told`) |
| `CurveKnees` | seven detectors of knees and drops, the pressure detector with its four thresholds | the operators are the detectors; the state machine only enumerates curves |
| `MCFigures` | counters, summary and curves in one run | a behaviour is one of the three; holds the layouts of the caches |
| `FigureProofs` | – | the theorems of what becomes a figure: of `PerfCounters`, `DramSummary` and `CurveKnees` |
| `ReportCatalog` | the promise of the repository to a browser | abstract: `Disturb` (somebody writes), `Ask`, `Answer` in one step with contents the reports had while the request ran, `Break` only for a file that is no report |
| `ReportRepository`, `MCReportRepository` | catalog and detail requests | per request: stat, look-up under the lock, read, store under the lock, eviction, reply; the environment writes (begin, finish), replaces and deletes files, and moves a coarse clock |
| `ReportRepositoryProofs` | – | its theorems |
| `ReportRun` | the `run` command | the runs' stages up to the four files, each of them opened and then closed; a kill may come between any two steps and a write may fail |
| `LiveReports`, `MCLiveReports` | runs and server at once | extends `ReportRun` and instantiates `ReportRepository` with the disk of the runs as its files; a step of a run that changes a `report.json` is a step of the server's outside world (`Becomes`), every other step of the world is left out |
| `LiveReportsProofs` | – | the theorems of the runs and of the composition |
| `Workspace`, `MCWorkspace` | `app.js` | each task is a click, the back button or a refresh; it stops at each `await` and is resumed by an answer or a failure, in any order; the selection is a sequence in the order of insertion (`Added`, `AddAll`, `Kept` are what `Set.add`, its loop, and `filter` or `Set.delete` do); where the first report was picked it is looked up again after the await (`Route`), and may be gone (`FirstIsGone`) |
| `WorkspaceProofs` | – | its theorems |

The specifications keep the control of the code and abstract its data: a
measurement is a count of passes, a report a model value with a shape and a
size, a rate a small number. Operators named `X_Y` directly above a definition
`X` are mutations of it, with which the runs were shown to notice the bug named
in their comment.

## 3. Runs

`Next` of the native modules ends in a stuttering step at the final states, so
that deadlock is checked. The two runs with `CHECK_DEADLOCK FALSE` are
`repository` and `live_reports`: no request need arrive, the files stop changing
and every run ends.

| run | instance | what it shows | why the bounds are enough |
|---|---|---|---|
| `barrier` | N = 3, 5 cells, 2 passes | a released worker finds every page placed (`StreamsPlacedMemory`), each cell is first touched by the worker that streams over it (`FirstTouchIsLocal`), no function is left while a worker lives (`NoWorkerOutlivesFrame`), the chase runs under load (`ChaseUnderLoad`), the whole implements the window (`ImplementsWindow`), and the function comes to its end (`Terminates`) | 5 is no multiple of 3, so the slices differ; a constructor can fail with none, one or two threads running; two passes separate "some" from "all"; the safety part is proved for every value |
| `turn_handoff` | 20 rounds | `RoundsInStep`, `AllLegsTimed`, `ImplementsRelay`, `Terminates` | the rounds repeat one pattern of five steps; proved for every number |
| `pipe_handoff` | 8 rounds | `DescriptorsOpenWhileUsed`, `PublishedOnlyIfComplete`, `HandoffEnds`: it ends, or an I/O failure has happened | a failure can happen in the first, an inner and the last round, in either thread |
| `kernels` | chase: 5 points, every permutation, both builders, offsets that just reach the end of the buffer. Code: both architectures, 1 and 4 branches at the narrowest and the widest spacing (4, 64 bytes), 1 and 4 returns, 4 indirect targets, 0 and 8 fillers, 16 and 32 bytes of no-ops of each length in use (1, 4, 8) | `SingleRing`, `StaysInCode`, `RunsWhatIsCounted` | 5 points with a spread of 3 make the rotation of the lines wrap; the code is a prefix, equal slots and an end, so that one slot and several, each with every displacement that its width allows, are its cases |
| `figures` | counters: all users, every system call fails or not. Summary: six layouts of the caches of two nodes, values on both sides of each threshold, labels of two meanings (twice and four times the LLC), with byte counts and without. Curves: 7 points over 5 values | `NoDescriptorLeak`, `FiguresCoverKernel`, and `OwnFiguresSurvive`: a figure made of one group is not lost to another; `SummaryIsBeyondCaches`, `LeavesMemoryFree`, `ExclusionIsSaid`; `SpikesAreRejected`, `StepsAreFound` | the counters have no other bound; the code of the summary is piecewise in its values, and each piece and each boundary has one; the widest detector looks at four points before and three after a knee |
| `perf_independence` | the three users that publish an IPC | `IpcIsIndependent` ends in a counterexample, see section 6 | – |
| `native_run` | six machines, nine kinds of command line, three targets, 2 points a sweep, up to 2 failures or refused pins | `RunsWhereLabelled`, `MemoryWhereLabelled`, `DocumentIsComplete`, `ThreadsOnOwnCores`, `PathsAreCovered` | see below; two failures cover a failing probe after one that failed, or was refused a pin, and left the thread where it was |
| `chase_beyond_offsets` | 4 pages of 4 bytes, offsets up to 8 | `EveryPageChased` ends in a counterexample, see section 6 | – |
| `repository` | 1 path, 2 requests, 3 contents, 2 ticks | `CacheIsFaithful`, `ImplementsCatalog` | two requests are the fewest that race for the cache; two contents of one size within one tick are the case the stamp cannot see; the cache of a path does not depend on other paths but for eviction, which absence brings about with one |
| `live_reports` | 2 runs in 1 directory, 2 catalog requests | `RawBesideReport`, `SuccessIsComplete`, `LastRunIsShown`, `FailureKeepsEarlierReport` | two runs are at work at once or one after the other; directories do not influence each other but through the eviction that `repository` covers; the first request fills the cache that the second one uses |
| `workspace` | 3 reports, of which the server may lack the first or all, limit 2, 3 tasks, searches, a page loaded at a bare URL or reloaded at one that names too many reports | `NoStuckSpinner`, `RowsShowSelection`, `ViewIsLoaded` | three tasks overlap in pairs with one in between; three reports exceed the limit of two as nine exceed eight; without the first another is the first, without all there is none |
| `workspace_url` | the same without changes on the server | ends in a counterexample, see section 6 | – |

`barrier` and `turn_handoff`, whose threads share data, check their type
invariants. The type invariants of the other modules with a proof are proved with
it; the remaining modules document their variables where they are declared. The
runs spend the time on properties.

The machines of `native_run` are `One` CPU; `Two` threads of one core, and the
same `Masked`, without any file in sysfs; `Three` cores on two nodes, the first
allowed CPU not on the first node; a `Server` of two sockets that number their
cores alike, with two caches on one node, one on the other, and a sibling
numbered behind all cores; and `Clusters` that number their cores alike
within one socket. `One`, `Two`, `Three` and, in the smoke profile, `Masked` run
all probes; the multi-threaded probes run on `Server` in the other three profiles
and on `Clusters` and `Masked` in the standard one. What the files say may be wrong:
`ThreadsOnOwnCores` and `PathsAreCovered` compare the choices with the cores as
they really are (`unit`), and say in their antecedents what they need of the
files. `CoresTold` (equal numbers mean one core) does not hold of `Clusters`:
there runtime.hpp:211 takes two cores for one, fewer threads are used and two
distinct cores are reported as siblings. `SiblingsTold` (threads of one core have
equal numbers) does not hold of `Masked`: there siblings are taken for cores of
their own. `SharingTold` says that threads of one core are on one node and behind
one last cache, and that whoever shares a cache with another is in that one's list
too. runtime.hpp looks at the files of the first thread of a core only and takes
them for the other's. It holds of the machines but for `Clusters`, where threads of
two cores pass for threads of one.

A refused pin belongs to the fault model of `native_run`. No caller looks at the
result of `pin_to_cpu`, and the thread stays where it may run.
`RunsWhereLabelled` and `MemoryWhereLabelled` let the probe in which that
happened be wrong, and no other: what they show is that no probe inherits the
misplacement of an earlier one. That the probe itself is wrong then is among the
disagreements of section 6.

`IpcIsIndependent` and `OwnFiguresSurvive` speak of published figures.
`OwnFigures` names those that a probe makes of one group alone: the IPC of the
pipeline, the instruction fetch and the compute scaling, the misses of the branch
structures. The branch predictor asks for two groups at once, whatever the figure.

`ImplementsCatalog` is the refinement of `ReportCatalog`: a whole request, with
all its stats, look-ups, reads and stores, is one step of the abstract catalog,
taken when it answers.

Symmetry is used for the runs, for the requests of the repository and for the
tasks that the user starts: they are interchangeable, no `CHOOSE` ranges over
them, and those runs check safety only.

`CacheIsFaithful` and `ReportCatalog` (its `blurred`) exempt files whose contents
changed within one tick of the clock without a change of size. The cache compares
time stamp and size and nothing else can be expected of it. `LiveReports` shows
where this does no harm: all reports have one size there and the clock moves as
seldom as it can, namely while a native program measures, and still
`LastRunIsShown` holds. It speaks, like `RawBesideReport` and
`SuccessIsComplete`, of a run that has its directory to itself while it runs
(`LastAlone`): two runs that write into one directory at once may mix their files.

## 4. Fairness

`barrier`: weak fairness of main's step and of each worker's step. The threads
are kernel threads, the scheduler runs each of them, and the spins yield or read
an atomic that main will set. A thread pinned to a CPU of its own process' mask
is still scheduled. `turn_handoff`: weak fairness of main and of both threads,
for the same reason. `pipe_handoff`: weak fairness of both threads' successful
steps; no failure is ever forced, and `HandoffEnds` therefore states that the
handoff ends or some system call has failed. The other modules are checked for
safety only: their processes have no loop that could go on for ever.

## 5. Proofs

All proofs are checked by TLAPS with Z3, Zenon and LS4, for every value of the
constants that the modules' assumptions admit. Those are what the code needs to
run at all: `BarrierAssumption` (N, Elements and MaxPasses natural, Elements at
least N), `RoundsAssumption` (a natural number of rounds), `ChaseAssumption` (two
points or more, the used lines of a page lie within it), `RepositoryAssumption`
(finitely many files and requests, a report is not empty, "no path" is no path),
`WorkspaceAssumption` (reports are numbered, a limit of at least one, session
histories made of lists of reports), `CasesAssumption` (spacings, lengths of no-ops and architectures are those of the
sources, counts are natural numbers), `RunAssumption` (machines are sequences of
CPUs in ascending order, whatever sysfs shows of them; profiles are the four the
parser lets through; a sweep has a point), `SysfsAssumption` (see DramSummary
below), `SizingAssumption` and `CurveAssumption` (sizes, rates, values and lengths
are natural numbers). The users of `PerfCounters` are any of
those the code has.

Each inductive invariant was checked by TLC on the instance of its run before it
was proved.

**ProbeBarrierProofs.** `IInv` has six parts: types; `ReadyInv` (`ready` is the
number of workers that have announced themselves); `MainInv` (where main is
decides `go`, `stop`, and how many threads are created and joined); `WorkerInv`
(the same for each worker, and that what a worker has published is what it has
counted once it has exited); `TouchInv` (who owns which cell); `WatchInv` (whose
stopwatch runs). It is needed because the safety properties speak of main and
of one worker, and what connects them is the counter: `ready = N` means that
every worker has announced itself only because the counter is the cardinality
of that set (`AllAnnounced`). The lemma `SlicesCover` and `SlicesDisjoint` show
for every length and number of workers that the integer slices partition the
array. From `IInvHolds` follow `TypeCorrect`, `ResultComplete`,
`FrameOutlivesWorkers`, `ChaseIsUnderLoad`, `PlacedBeforeStreaming` and
`LocalFirstTouch`; `WindowImplemented` shows that each step is a step of
`MeasurementWindow` or a stutter.

**HandoffProofs.** `TurnHandoff`: `IInv` ties the two rounds, the places of the
threads and the word: whose turn it is determines which of the two is ahead. From
it follow `TypeCorrect`, `StepForStep`, `EveryLegTimed` and the refinement
`RelayImplemented`. `PipeHandoff`: neither thread sees the other's place; what
connects them is that a round trip moves one token, a byte in one of the pipes or
in the second thread's hand (`TokenInv`). With what a failure can have left behind
(`FailureInv`) it gives `OnlyCompleteIsPublished`: `io_ok` knows nothing of the second
thread, yet its failure keeps a byte from main that main cannot pass by.
`DescriptorsOutliveUse` rests on `LifeInv`. `NoHangByItself` is the safety half of
`HandoffEnds`: both threads sit in a read only after a failure.

**KernelProofs.** `PointerChase`: `RingInv` says that the links stored so far lead from each
point to the next and that the chase has come as far along the ring as it has
made loads (`Turn`, with its arithmetic in `Turns`). It needs that no store
overwrites an earlier one: `PlacesApart` shows for every stride, spread and line
that two points have their pointers at different places, because the rotation
within a page stays below the stride. `ShuffledOnce` takes from the finiteness of the points that an
order which reaches all of them reaches each once. `OneRing` asks for `Fits`,
`TypeCorrect` does not: loads stay within the buffer also where offsets are cut.
`GeneratedCode`: neither property is inductive, since an instruction says nothing of
how the processor came to it. First come facts about the stores of each probe alone:
`InTurn` (none reaches into the next, the last ends within the buffer, the sum that
the probe asks for included), and, by kind, `InLine` (each instruction of straight code
leads to the next one, through a displacement or by falling through) or `FramesAt`
(where the parts of each nested call are). `CodeInv` then says that the bytes stored so
far are as they were stored (`MemInv`) and ties the place of the processor to its past
(`FlowInv`): in straight code the n-th instruction comes after the first n - 1; in the
nested calls the stack holds the return of every frame that is open (`Pushed`, `Back`)
and the history is that of a chain that goes down and comes back (`ChainOp`); every
target that was called has returned. `CodeStaysInside` and `CountsAreRun` follow; the
latter counts positions in the history, which on AArch64 alternate between returns and
restores (`OddSize`).

**NativeRunProofs.** What a probe measures depends on a main thread that all
probes share. The lemmas come first. `InOrder` lists each element of a finite set
once, in the given order (`Ranks`, `Listed`), and so the CPUs, the cores, the
balanced cores, the cores of a node and the numbers of threads are what the code's
loops leave of the machine (`PhysicalIs`, `NodesAre`, `BalancedIs`, `HandoffsAre`). Then
it is shown of each of the twenty probes that its parts are in order (`PartOK`):
the point either pins before it measures on the CPU of its label, or the part has
pinned to that CPU before, and no point of it moves the thread elsewhere
(`Settled`, `Follows`, `Moves`); a part whose label names a node places its buffer
by a thread that stands there, or by mbind, or by the workers themselves
(`Locally`, `Bound`, `NoMemory`). Over these, `PlaceInv` says where the thread is in
the part in turn, unless the probe was refused a pin, `HomeInv` where the buffer is,
`AccountInv` that each point behind `part` and `point` is measured, skipped or
spoken of, and `OutputInv` which exit status goes with which output. The four
steps that leave a part for different reasons are where these could break.
From `RunInvariant` follow `LabelsAreTrue`, `MemoryIsWhereLabelled` and
`SuccessIsComplete`, for every machine, command line, order and repetition of
probes and any number of failures; the first two of the observations of probes
that were refused no pin, whichever pins the others were refused.

The other two theorems are about which CPUs are chosen, and need to know where an
observation comes from: `OriginInv` (`RunHasOrigin`) says that each one, and each
warning, comes from a point of a plan, and that every plan is the one the CPUs and
the profile give (`Chosen`). The core of `CoresAreTheirOwn` is the dealing of the
cores: a core's round is the number of cores of its node before it (`RoundsAre`),
the order is by round and node (`BalancedCores`), and so the first n cores of it
take from each node all it has, or as many as from the others but for one
(`Dealt`, `SharesAreEven`). `OnCores` says of each probe that its threads are
such a prefix, single CPUs, siblings or the pair it names. For `PathsAreAllCovered`,
`PairsCover` shows that the pairs measured contain one of each relation: the code
keeps the first pair of each relation among the cores (`Represented`) and a pair of
siblings if there is one, and under `SharingTold` two CPUs are related as their
cores are (`RelationOfCores`). It then needs that a run with a document has
measured them all: `core-latency` only fails by an exception, so `AccountInv`
leaves it no excuse (`HandoffsThere`).

**FigureProofs.** `PerfCounters`: `ProgressInv` states for the group in turn, those
before it and those behind it what each stage of the code has made of them; an
error is for good and keeps a group from having counts. From it follow `NothingLeaks`,
`FiguresAreWhole` and `FailuresStayInTheirGroup`; the latter is about figures of one
group, since those of the branch predictor do not stay apart (section 6).

`DramSummary`: `SummaryInv` says how large the array is beside the memory and the
smallest size (`ArrayFits`, an argument about integer division), what each
label was made from, and that every figure is over points that the checks of
`infer.py` let through (`FiguresAreQualified`). Where a point lacks its byte counts the
check is the label alone; `FiguresAreOfMemory` then asks that the label means four
times the caches or more. It also needs that the LLC the probe adds up is no
smaller than the one its threads can reach; what sysfs shows of the caches is an
input to it, and `SysfsAssumption` names the fact that the operators of `Topology` are checked for by the run: where sysfs
shows a last level at all, the sum covers the real one.
`MemoryStaysFree` and `ExclusionsAreTold` do not use it.

`CurveKnees`: `CurveInv` says that what a complete curve's detectors have found is
what the operators give for it. `SpikesAreNoKnees` rests on one observation: of three
neighbours at least one lies outside a spike of two, so a detector that asks for
three followers, or for a majority of a window, meets a point of the base. `StepsAreKnees` reduces a
curve with a step to its two levels, and compares each detector's baseline and
threshold with them.

**ReportRepositoryProofs.** The server reads a file after its stat, and stores what
it read under the stat; the file may have been rewritten in between. `EntryOK`
says what can be said of such an entry: the file was in the state of the stamp
with the content that was read, or with one that has gone and does not come
back. `HitInv` says what a cache hit is worth to a request that has made its own
stat: as much as reading the file, or the two are of one tick and one size. It
speaks of pending stores of other requests too, since one of them may be stored
between the stat and the look-up. From these follow `CacheStaysFaithful` and, with
the request's walk over the paths, `CatalogImplemented`: the step that answers is
the catalog's `Answer`, a step of the world its `Disturb`, all others stutter.

**LiveReportsProofs.** `LiveRunsAreRuns` shows that the composition implements
`ReportRun`, whose invariant `RunInv` then gives `RawIsAlwaysBeside`,
`SuccessIsAlwaysComplete` and `FailuresKeepReports`. For `LastRunIsAlwaysShown` the
argument is about the clock: it moves while the native program measures, so that
at the time a run opens its report, what the directory has had before is older
than the clock (`NewerInv`); a stat or an entry with the stamp of the finished
report and a size that is not 0 can therefore only be of that run (`SightInv`), and
a report that stands still while a request runs is ahead of it, at hand or in
its list (`ShownInv`).

**WorkspaceProofs.** The tasks know nothing of each other, and each invariant says
which task will put right what is not right: the spinner is there only with a task
that is still loading, or after a failure (`SpinnerInv`); what a task lacks it waits
for (`JobsInv`); the rows are the selection, or a task that will render them is at
work (`RowsInv`, where a click on a title does not count). The operators on
sequences are recursive functions; `Induction` and `Recursion` derive induction over
the natural numbers from the library's theorem about least elements, and with
them `Filtered`, `SetAdd` and `SetAddAll` show what the operators return for
sequences of every length.

Left to TLC:

- liveness (`Terminates`, `HandoffEnds`): the prover has neither fairness nor ENABLED;
- the properties of section 6, which do not hold;
- the sums of the caches that `SysfsAssumption` speaks of (`MapThenSumSet`), which
  `figures` evaluates for its layouts.

## 6. Where code and documents disagree

Three runs end in a counterexample to what a document says:

- *URL of the page* (`workspace_url`). README.md:76 says that the selection is
  written into the URL so that it can be bookmarked. `showReports` writes the URL of
  whichever task is answered last (app.js:74), and a task of the back button
  (app.js:181) does not write it: two overlapping tasks leave a page whose URL
  names other reports. Another way there, which needs a server whose reports
  change: the first report is picked before an await and looked up again after it
  (app.js:160-161). If there is none by then, the task ends with an exception,
  and the one of the start replaces the report it has just rendered by the message
  that the repository cannot be read.
- *Figures of two groups* (`perf_independence`). METRICS.md:168-169 says that a
  constrained branch or cache event no longer costs the IPC.
  branch_predictor.cpp:33 publishes IPC and miss rate together, if both groups were
  available: a failure of the branch group costs the IPC of its three patterns,
  one of the core group their miss rates.
- *Chains beyond 4 GiB* (`chase_beyond_offsets`). METRICS.md:58 gives each base page a
  pointer. Places have 32 bits (pointer_chase.hpp:45), and pages beyond are left
  without one; `SingleRing` therefore asks for `Fits`. The deep TLB sweep gets there
  with pages of 64 KiB. The other builder cuts the offsets it stores
  (pointer_chase.hpp:34), and the NUMA chase gets there with `--memory-mib` above 4096.

Others are visible in the models by reading, or contradict no document:

- *Pinning that is refused.* METRICS.md:89 says that the threads are fixed to their
  cores. No caller looks at the result of `pin_to_cpu` (runtime.hpp:169), and the
  point is published under the CPUs it was meant for. `RunsWhereLabelled` and
  `MemoryWhereLabelled` hold only because they leave out, through `refused`, the
  probe in which that happened.
- *Cores that share their numbers.* METRICS.md:139-141 has the paths between two
  CPUs classified, siblings first. On `Clusters` two distinct cores are published
  as siblings (runtime.hpp:750), although `thread_siblings_list` is at hand.
  METRICS.md:89 gives every thread a physical core of its own: on `Clusters` cores
  are left out, on `Masked` siblings are taken for cores, see section 3.
- *A file of JSON that is no report.* `ReadWrongShape`: `AttributeError` is not
  among the exceptions for which server.py:79 skips a file, and the whole catalog
  breaks off. `ReportCatalog` admits it (`Break`) since no document says otherwise.
- *Points without byte counts.* infer.py:71 compares the working set with the LLC
  only where a point has both as labels and believes the label
  `working_set_exceeds_llc` where it has not; the tests rely on it
  (tests/test_infer.py:18-40). The binary of this source writes all three. Of an
  older one that wrote a looser label alone, `SummaryIsBeyondCaches` says nothing:
  its points do enter the summary.
- *Warned runs.* memory_bandwidth.cpp:34 tells the user that the results of a
  working set below four times the LLC do not enter the DRAM summary. Copy and
  triad use two and three such arrays and are labelled by their sum
  (memory_bandwidth.cpp:56-57), so with an array between 4/3 and 4 times the
  LLC they do enter it. `SummaryIsBeyondCaches` holds of them all the same.
- *Pipes that fail.* After a failed read or write of the scheduler handoff the
  other thread may sleep for ever (os_overheads.cpp:75). `HandoffEnds` says that
  this happens after a failure only.
- *Selection limit.* README.md:74 speaks of one to eight reports.
  `refreshCatalog` (app.js:154) adds the ids of the route to the selection
  without looking at its size; a comparison never exceeds the limit
  (`ViewIsLoaded`), the ticks may.

## 7. What is not modelled, and why

- What a probe's C++ loops and inline assembly compute: they have no state beyond
  registers, and time is not part of the models. The code that probes generate
  at run time is modelled up to what it executes; that an instruction's bytes
  encode the operation they stand for is taken from the comments beside them.
- Weak memory: the flags are acquire and release atomics and the counters are
  published before a join, so interleavings of their accesses are what the code
  can do; the ping-pong's word is likewise an atomic.
- Rendering of reports (`single-report.js`, `comparison.js`, `charts.js`,
  `model.js`, `ui.js`), the metric catalog, and `discover.py`: functions from
  data to text or DOM.
- Static assets and the sockets of `http.server`.
- Medians, ratios and wording of `infer.py` beyond knees and DRAM summary. One of
  them is published with the loop variables of the last level (infer.py:240); it
  is a sequential formula that a test with two levels settles.
- Headers and encodings of the server; contents of the reports the page has
  loaded (that it never fetches one again, app.js:39, is visible in `Workspace`
  only as which reports are loaded); the export of a comparison, which reads the
  attributes of a catalog item that may have vanished meanwhile (app.js:72,
  comparison.js:131).

## 8. Plan

Order of work: the thread protocols first, since every figure of the native
suite rests on them and no test can reach their interleavings; then the whole
native run on machines of all shapes, the generated code, the inference, the
repository, the page, and the runs and the server together; then the proofs of
section 5, in the same order but for the native run and the generated code, which
came last. Done: all of this. What is
left is what `AggregateLlcBytes` adds up, for every machine, in the place of
`SysfsAssumption`.
