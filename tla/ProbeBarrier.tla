------------------------------ MODULE ProbeBarrier ------------------------------
(***************************************************************************)
(* The ready / go / stop / join protocol of the native suite's             *)
(* multi-threaded probes.  One main thread allocates and prepares an       *)
(* array, creates N workers, waits until each has announced itself, starts *)
(* the stopwatch, releases them, stops them after a fixed time, joins them *)
(* in order and adds up what they published.  Five functions share the     *)
(* protocol and differ in the few points that `kind' selects:              *)
(*   "stream-local"   run_stream, each worker first-touches its own slice  *)
(*   "stream-placed"  run_stream with memory_init_cpu >= 0                 *)
(*   "numa-read"      read_existing, over an array the caller initialised  *)
(*   "loaded"         benchmark_loaded_memory_latency, main chases         *)
(*                    pointers while the workers load the memory           *)
(*   "compute"        measure_compute_scaling_point, a stopwatch a worker  *)
(*   "false-sharing"  false_sharing_rate, two workers                      *)
(***************************************************************************)
EXTENDS Integers, FiniteSets

CONSTANTS
  N,          \* number of workers (cpus.size(), load_threads, selected.size())
  Elements,   \* 8-byte elements of the array the workers share out
  MaxPasses   \* bound: passes a worker makes before stop is seen

ASSUME BarrierAssumption ==
  /\ N \in Nat
  /\ Elements \in Nat /\ Elements >= N
  /\ MaxPasses \in Nat

Workers == 0 .. N - 1
Main == N               \* an owner of array elements, beside the workers
Nobody == -1
Cells == 0 .. Elements - 1

VARIABLES
  kind,       \* which of the functions runs: chosen once
  mpc,        \* where the main thread is
  created,    \* workers.size(): threads constructed so far
  joined,     \* threads joined so far
  wpc,        \* where each worker is
  ready,      \* the atomic the workers count themselves in
  go, stop,   \* the two atomic flags
  owner,      \* owner[c]: who first touched cell c of the array
  count,      \* completed passes of each worker
  passes,     \* the passes each worker has published to the main thread
  watch,      \* the stopwatch each worker's passes are divided by
  result      \* the passes that entered the returned figure

vars == <<kind, mpc, created, joined, wpc, ready, go, stop, owner, count,
          passes, watch, result>>
control == <<kind, mpc, created, joined, ready, go, stop>>

\* Only the loaded probe has a point without workers, its unloaded baseline;
\* false_sharing_rate is the case of two workers of the last one.
Kinds == {"loaded"}
           \cup (IF N > 0 THEN {"stream-local", "stream-placed", "numa-read", "compute"} ELSE {})
           \cup (IF N > 1 THEN {"false-sharing"} ELSE {})

\* An array is shared out among the workers, and who writes it first.
UsesArray == kind \notin {"compute", "false-sharing"}
WorkerTouches == kind = "stream-local"
\* Buffers are mapped inside the function, so the mapping can fail there.
Allocates == kind \in {"stream-local", "stream-placed", "loaded", "false-sharing"}
\* measure_compute_scaling_point times every worker by itself.
WorkerTimed == kind = "compute"
\* false_sharing_rate counts into the captured variable as it goes.
CountsInPlace == kind = "false-sharing"

\* Mutant: each slice also takes the first cell of the next.
Slice_Overlapping(w) == (Elements * w) \div N .. (Elements * (w + 1)) \div N

\* elements * worker / n .. elements * (worker + 1) / n - 1
Slice(w) == (Elements * w) \div N .. (Elements * (w + 1)) \div N - 1

MainStates == {"alloc", "spawn", "await", "open", "armed", "sleep", "chase",
               "join", "sum", "returned", "thrown", "terminated"}
WorkerStates == {"unborn", "setup", "announce", "spin", "loop", "pass", "exited"}
Final == {"returned", "thrown", "terminated"}

Init ==
  /\ kind \in Kinds
  /\ mpc = "alloc"
  /\ created = 0 /\ joined = 0
  /\ wpc = [w \in Workers |-> "unborn"]
  /\ ready = 0 /\ go = FALSE /\ stop = FALSE
  /\ owner = [c \in Cells |-> Nobody]
  /\ count = [w \in Workers |-> 0]
  /\ passes = [w \in Workers |-> 0]
  /\ watch = [w \in Workers |-> "unset"]
  /\ result = [w \in Workers |-> 0]

--------------------------------------------------------------------------------
(* The main thread. *)

\* The buffers are mapped; the main thread writes them unless the workers do.
Allocate ==
  /\ mpc = "alloc"
  /\ mpc' = "spawn"
  /\ owner' = IF UsesArray /\ ~WorkerTouches THEN [c \in Cells |-> Main] ELSE owner
  /\ UNCHANGED <<kind, created, joined, wpc, ready, go, stop, count, passes, watch, result>>

\* mmap fails: MappedBuffer throws before any thread exists.
AllocateFails ==
  /\ mpc = "alloc" /\ Allocates
  /\ mpc' = "thrown"
  /\ UNCHANGED <<kind, created, joined, wpc, ready, go, stop, owner, count, passes, watch, result>>

\* workers.emplace_back: the new thread starts to run at once.
Spawn ==
  /\ mpc = "spawn" /\ created < N
  /\ wpc' = [wpc EXCEPT ![created] = "setup"]
  /\ created' = created + 1
  /\ UNCHANGED <<kind, mpc, joined, ready, go, stop, owner, count, passes, watch, result>>

\* Mutant: the threads that run are left to themselves.
SpawnFails_Quietly ==
  /\ mpc = "spawn" /\ created < N
  /\ mpc' = "thrown"
  /\ UNCHANGED <<kind, created, joined, wpc, ready, go, stop, owner, count, passes, watch, result>>

\* The thread constructor throws.  The vector of threads is destroyed on the
\* way out: a joinable thread in it ends the process, an empty one does not.
SpawnFails ==
  /\ mpc = "spawn" /\ created < N
  /\ mpc' = IF created = 0 THEN "thrown" ELSE "terminated"
  /\ UNCHANGED <<kind, created, joined, wpc, ready, go, stop, owner, count, passes, watch, result>>

SpawnedAll ==
  /\ mpc = "spawn" /\ created = N
  /\ mpc' = "await"
  /\ UNCHANGED <<kind, created, joined, wpc, ready, go, stop, owner, count, passes, watch, result>>

\* Mutant: nobody is waited for.
AllReady_Unguarded ==
  /\ mpc = "await"
  /\ mpc' = "open"
  /\ UNCHANGED <<kind, created, joined, wpc, ready, go, stop, owner, count, passes, watch, result>>

\* The yield loop on `ready' ends.
AllReady ==
  /\ mpc = "await" /\ ready = N
  /\ mpc' = "open"
  /\ UNCHANGED <<kind, created, joined, wpc, ready, go, stop, owner, count, passes, watch, result>>

\* begin = Clock::now(); measure_compute_scaling_point reads no clock here.
SampleBegin ==
  /\ mpc = "open"
  /\ mpc' = "armed"
  /\ watch' = IF WorkerTimed THEN watch ELSE [w \in Workers |-> "running"]
  /\ UNCHANGED <<kind, created, joined, wpc, ready, go, stop, owner, count, passes, result>>

SetGo ==
  /\ mpc = "armed"
  /\ go' = TRUE
  /\ mpc' = "sleep"
  /\ UNCHANGED <<kind, created, joined, wpc, ready, stop, owner, count, passes, watch, result>>

\* The sleep ends; only the loaded probe then measures a latency itself.
SleepOver ==
  /\ mpc = "sleep" /\ kind = "loaded"
  /\ mpc' = "chase"
  /\ UNCHANGED <<kind, created, joined, wpc, ready, go, stop, owner, count, passes, watch, result>>

SetStop ==
  /\ mpc = IF kind = "loaded" THEN "chase" ELSE "sleep"
  /\ stop' = TRUE
  /\ mpc' = "join"
  /\ UNCHANGED <<kind, created, joined, wpc, ready, go, owner, count, passes, watch, result>>

\* Mutant: the loop does not move on to the next thread.
Join_Again ==
  /\ mpc = "join" /\ joined < N
  /\ wpc[joined] = "exited"
  /\ UNCHANGED vars

\* for (auto &worker : workers) worker.join()
Join ==
  /\ mpc = "join" /\ joined < N
  /\ wpc[joined] = "exited"
  /\ joined' = joined + 1
  /\ UNCHANGED <<kind, mpc, created, wpc, ready, go, stop, owner, count, passes, watch, result>>

\* Mutant: the clock is read before the threads are joined.
SampleEnd_BeforeJoin ==
  /\ mpc = "join"
  /\ mpc' = "sum"
  /\ watch' = IF WorkerTimed THEN watch ELSE [w \in Workers |-> "stopped"]
  /\ UNCHANGED <<kind, created, joined, wpc, ready, go, stop, owner, count, passes, result>>

\* end = Clock::now()
SampleEnd ==
  /\ mpc = "join" /\ joined = N
  /\ mpc' = "sum"
  /\ watch' = IF WorkerTimed THEN watch ELSE [w \in Workers |-> "stopped"]
  /\ UNCHANGED <<kind, created, joined, wpc, ready, go, stop, owner, count, passes, result>>

\* The published counts are added up and the function returns its locals.
Accumulate ==
  /\ mpc = "sum"
  /\ result' = passes
  /\ mpc' = "returned"
  /\ UNCHANGED <<kind, created, joined, wpc, ready, go, stop, owner, count, passes, watch>>

--------------------------------------------------------------------------------
(* A worker.  Every step needs a living process. *)

Alive == mpc # "terminated"

\* pin_to_cpu, then first touch of the worker's own slice.
Setup(w) ==
  /\ Alive /\ wpc[w] = "setup"
  /\ owner' = [c \in Cells |-> IF WorkerTouches /\ c \in Slice(w) THEN w ELSE owner[c]]
  /\ wpc' = [wpc EXCEPT ![w] = "announce"]
  /\ UNCHANGED <<control, count, passes, watch, result>>

\* Mutant: a worker counts itself in twice.
Announce_Twice(w) ==
  /\ Alive /\ wpc[w] = "announce"
  /\ ready' = ready + 2
  /\ wpc' = [wpc EXCEPT ![w] = "spin"]
  /\ UNCHANGED <<kind, mpc, created, joined, go, stop, owner, count, passes, watch, result>>

\* ready.fetch_add(1)
Announce(w) ==
  /\ Alive /\ wpc[w] = "announce"
  /\ ready' = ready + 1
  /\ wpc' = [wpc EXCEPT ![w] = "spin"]
  /\ UNCHANGED <<kind, mpc, created, joined, go, stop, owner, count, passes, watch, result>>

\* while (!go) cpu_relax(); a compute worker then reads the clock.
SeeGo(w) ==
  /\ Alive /\ wpc[w] = "spin" /\ go
  /\ wpc' = [wpc EXCEPT ![w] = "loop"]
  /\ watch' = IF WorkerTimed THEN [watch EXCEPT ![w] = "running"] ELSE watch
  /\ UNCHANGED <<control, owner, count, passes, result>>

\* while (!stop): one more pass over the slice.
BeginPass(w) ==
  /\ Alive /\ wpc[w] = "loop" /\ ~stop
  /\ count[w] < MaxPasses
  /\ wpc' = [wpc EXCEPT ![w] = "pass"]
  /\ UNCHANGED <<control, owner, count, passes, watch, result>>

EndPass(w) ==
  /\ Alive /\ wpc[w] = "pass"
  /\ wpc' = [wpc EXCEPT ![w] = "loop"]
  /\ count' = [count EXCEPT ![w] = @ + 1]
  /\ passes' = IF CountsInPlace THEN [passes EXCEPT ![w] = @ + 1] ELSE passes
  /\ UNCHANGED <<control, owner, watch, result>>

\* stop is seen: the local count is published and the thread ends.
Publish(w) ==
  /\ Alive /\ wpc[w] = "loop" /\ stop
  /\ wpc' = [wpc EXCEPT ![w] = "exited"]
  /\ passes' = [passes EXCEPT ![w] = count[w]]
  /\ watch' = IF WorkerTimed THEN [watch EXCEPT ![w] = "stopped"] ELSE watch
  /\ UNCHANGED <<control, owner, count, result>>

--------------------------------------------------------------------------------
MainStep ==
  \/ Allocate \/ AllocateFails \/ Spawn \/ SpawnFails \/ SpawnedAll
  \/ AllReady \/ SampleBegin \/ SetGo \/ SleepOver \/ SetStop
  \/ Join \/ SampleEnd \/ Accumulate

WorkerStep(w) ==
  Setup(w) \/ Announce(w) \/ SeeGo(w) \/ BeginPass(w) \/ EndPass(w) \/ Publish(w)

\* The function has returned, thrown or taken the process with it.
Finished ==
  /\ mpc \in Final
  /\ UNCHANGED vars

Next == MainStep \/ (\E w \in Workers : WorkerStep(w)) \/ Finished

Spec == Init /\ [][Next]_vars

\* The operating system runs every thread that can run.
Fairness == WF_vars(MainStep) /\ \A w \in Workers : WF_vars(WorkerStep(w))
FairSpec == Spec /\ Fairness

--------------------------------------------------------------------------------
TypeOK ==
  /\ kind \in Kinds
  /\ mpc \in MainStates
  /\ created \in 0 .. N /\ joined \in 0 .. N /\ ready \in 0 .. N
  /\ wpc \in [Workers -> WorkerStates]
  /\ go \in BOOLEAN /\ stop \in BOOLEAN
  /\ owner \in [Cells -> Workers \cup {Main, Nobody}]
  /\ count \in [Workers -> 0 .. MaxPasses]
  /\ passes \in [Workers -> 0 .. MaxPasses]
  /\ watch \in [Workers -> {"unset", "running", "stopped"}]
  /\ result \in [Workers -> 0 .. MaxPasses]

\* No worker streams over the array before all of it, the other workers'
\* slices included, has been written by the thread that places its pages: a
\* measured pass never pays for a page fault (the barrier of run_stream).
StreamsPlacedMemory ==
  UsesArray /\ (\E w \in Workers : wpc[w] = "pass" \/ count[w] > 0)
    => \A c \in Cells : owner[c] # Nobody

\* Every cell a worker streams over was first touched by that worker when the
\* workers do the touching, so the slices cover the array and do not overlap.
FirstTouchIsLocal ==
  mpc = "returned" /\ WorkerTouches
    => \A c \in Cells : \E w \in Workers :
         /\ owner[c] = w
         /\ {v \in Workers : c \in Slice(v)} = {w}

\* The returned figure holds every pass that any worker completed, although
\* workers keep their count to themselves until they see stop.
ResultIsComplete == mpc = "returned" => result = count

\* The workers hold references to the function's locals: none of them is still
\* running when the function is left by return or by exception.
NoWorkerOutlivesFrame ==
  mpc \in {"returned", "thrown"} => \A w \in Workers : wpc[w] \in {"unborn", "exited"}

\* The latency that the loaded probe measures is measured with every load
\* worker started and none told to stop.
ChaseUnderLoad ==
  mpc = "chase" => /\ go /\ ~stop
                   /\ \A w \in Workers : wpc[w] \in {"spin", "loop", "pass"}

\* What has become of the figure.
Outcome == CASE mpc = "returned" -> "reported"
             [] mpc \in {"thrown", "terminated"} -> "abandoned"
             [] OTHER -> "pending"

\* The protocol implements a measurement window.
Window == INSTANCE MeasurementWindow WITH
  work <- count, report <- result, outcome <- Outcome

\* Every pass is made while its stopwatch runs, the figure is made of all the
\* passes and published once, and a probe that fails publishes nothing.
ImplementsWindow == Window!Spec

\* The probe comes to an end: no thread waits for ever on ready, go or stop.
Terminates == <>(mpc \in Final)
================================================================================
