--------------------------- MODULE ProbeBarrierProofs ---------------------------
(***************************************************************************)
(* Proofs about ProbeBarrier for every number of workers, every array and  *)
(* every bound on the passes.                                              *)
(***************************************************************************)
EXTENDS ProbeBarrier, FiniteSetTheorems, TLAPS

\* The first cell of a worker's slice, and the cell after its last.
Bound(w) == (Elements * w) \div N

LEMMA DivBounds ==
  ASSUME NEW a \in Nat, NEW b \in Nat \ {0}
  PROVE  /\ a \div b \in Nat
         /\ b * (a \div b) <= a
         /\ a < b * (a \div b) + b
OBVIOUS

\* Multiplication by a natural number keeps the order.
LEMMA TimesOrder ==
  ASSUME NEW a \in Nat, NEW b \in Nat, NEW k \in Nat, a <= b
  PROVE  k * a \in Nat /\ k * b \in Nat /\ k * a <= k * b
<1>1. PICK d \in Nat : b = a + d
  <2>1. b - a \in Nat /\ b = a + (b - a)
    OBVIOUS
  <2>. QED
    BY <2>1
<1>2. k * d \in Nat /\ k * a \in Nat /\ k * b = k * a + k * d
  BY <1>1
<1>. QED
  BY <1>2

\* A quotient is below another when its dividend is.
LEMMA DivOrder ==
  ASSUME NEW a \in Nat, NEW b \in Nat, NEW k \in Nat \ {0}, a <= b
  PROVE  a \div k \in Nat /\ b \div k \in Nat /\ a \div k <= b \div k
<1>. DEFINE p == a \div k
            q == b \div k
<1>1. p \in Nat /\ k * p <= a
  BY DivBounds
<1>2. q \in Nat /\ b < k * q + k
  BY DivBounds
<1>. HIDE DEF p, q
<1>3. CASE p > q
  <2>1. k * (q + 1) <= k * p
    BY <1>1, <1>2, <1>3, TimesOrder
  <2>2. k * (q + 1) = k * q + k
    BY <1>2
  <2>3. k * p \in Nat /\ k * q \in Nat
    BY <1>1, <1>2
  <2>. QED
    BY <1>1, <1>2, <2>1, <2>2, <2>3
<1>4. CASE ~(p > q)
  BY <1>1, <1>2, <1>4 DEF p, q
<1>. QED
  BY <1>3, <1>4

LEMMA BoundOrder ==
  ASSUME N # 0, NEW v \in 0 .. N, NEW w \in 0 .. N, v <= w
  PROVE  Bound(v) \in Nat /\ Bound(w) \in Nat /\ Bound(v) <= Bound(w)
<1>1. N \in Nat \ {0} /\ Elements \in Nat
  BY BarrierAssumption
<1>2. Elements * v \in Nat /\ Elements * w \in Nat /\ Elements * v <= Elements * w
  BY <1>1, TimesOrder
<1>. QED
  BY <1>1, <1>2, DivOrder DEF Bound

\* A slice is an interval of cells between two bounds.
LEMMA SliceBounds ==
  ASSUME NEW w \in Workers
  PROVE  /\ Slice(w) = Bound(w) .. Bound(w + 1) - 1
         /\ Bound(w) \in Nat /\ Bound(w + 1) \in Nat
<1>1. N \in Nat \ {0} /\ w \in 0 .. N /\ w + 1 \in 0 .. N
  BY BarrierAssumption DEF Workers
<1>. QED
  BY <1>1, BoundOrder DEF Slice, Bound

\* The slices of two workers have no cell in common.
LEMMA SlicesDisjoint ==
  ASSUME NEW v \in Workers, NEW w \in Workers, v # w,
         NEW c \in Slice(v)
  PROVE  c \notin Slice(w)
<1>1. N \in Nat \ {0} /\ v \in 0 .. N - 1 /\ w \in 0 .. N - 1
  BY BarrierAssumption DEF Workers
<1>2. CASE v < w
  <2>1. Bound(v + 1) <= Bound(w)
    BY <1>1, <1>2, BoundOrder
  <2>. QED
    BY <2>1, SliceBounds
<1>3. CASE w < v
  <2>1. Bound(w + 1) <= Bound(v)
    BY <1>1, <1>3, BoundOrder
  <2>. QED
    BY <2>1, SliceBounds
<1>. QED
  BY <1>1, <1>2, <1>3

\* A worker's slice lies inside the array.
LEMMA SlicesInArray ==
  ASSUME NEW w \in Workers
  PROVE  Slice(w) \subseteq Cells
<1>1. N \in Nat \ {0} /\ Elements \in Nat /\ w + 1 \in 0 .. N /\ N \in 0 .. N
  BY BarrierAssumption DEF Workers
<1>2. Bound(w + 1) <= Bound(N)
  BY <1>1, BoundOrder
<1>3. Bound(N) <= Elements
  <2>1. /\ Elements * N = N * Elements /\ N * Elements \in Nat
    BY <1>1
  <2>2. Bound(N) \in Nat /\ N * Bound(N) <= N * Elements
    BY <1>1, <2>1, DivBounds DEF Bound
  <2>3. CASE Elements + 1 <= Bound(N)
    <3>1. N * (Elements + 1) <= N * Bound(N) /\ N * Bound(N) \in Nat
      BY <1>1, <2>2, <2>3, TimesOrder
    <3>2. N * (Elements + 1) = N * Elements + N
      BY <1>1
    <3>. QED
      BY <1>1, <2>1, <2>2, <3>1, <3>2
  <2>. QED
    BY <1>1, <2>2, <2>3
<1>4. Bound(N) \in Nat
  BY <1>1, BoundOrder
<1>. QED
  BY <1>1, <1>2, <1>3, <1>4, SliceBounds DEF Cells

\* Every cell of the array is in some worker's slice.
LEMMA SlicesCover ==
  ASSUME NEW c \in Cells, N # 0
  PROVE  \E w \in Workers : c \in Slice(w)
<1>. DEFINE t == (c + 1) * N - 1
            w == t \div Elements
<1>1. /\ N \in Nat \ {0} /\ Elements \in Nat \ {0}
      /\ c \in Nat /\ c + 1 \in Nat /\ c + 1 <= Elements
  BY BarrierAssumption DEF Cells
<1>2. /\ N * (c + 1) \in Nat \ {0} /\ N * (c + 1) <= N * Elements
      /\ N * (c + 1) = (c + 1) * N /\ N * Elements = Elements * N
      /\ N * (c + 1) = N * c + N /\ N * c \in Nat
  <2>1. N * (c + 1) = N * c + N /\ N * c \in Nat
    BY <1>1
  <2>2. N * (c + 1) \in Nat \ {0}
    BY <2>1, <1>1
  <2>. QED
    BY <1>1, <2>1, <2>2, TimesOrder
<1>3. t \in Nat /\ t = N * (c + 1) - 1
  BY <1>1, <1>2
<1>4. w \in Nat /\ Elements * w <= t /\ t < Elements * w + Elements
  BY <1>1, <1>3, DivBounds
<1>. HIDE DEF t, w
<1>5. Elements * w \in Nat /\ Elements * (w + 1) = Elements * w + Elements
  BY <1>1, <1>4
<1>6. w < N
  <2>1. SUFFICES ASSUME N <= w PROVE FALSE
    BY <1>1, <1>4
  <2>2. Elements * N <= Elements * w
    BY <1>1, <1>4, <2>1, TimesOrder
  <2>. QED
    BY <1>1, <1>2, <1>3, <1>4, <1>5, <2>2
<1>7. w \in Workers
  BY <1>1, <1>4, <1>6 DEF Workers
<1>8. Bound(w) <= c
  <2>1. /\ Bound(w) \in Nat
        /\ N * Bound(w) <= Elements * w
    BY <1>1, <1>5, DivBounds DEF Bound
  <2>2. CASE c + 1 <= Bound(w)
    <3>1. N * (c + 1) <= N * Bound(w) /\ N * Bound(w) \in Nat
      BY <1>1, <2>1, <2>2, TimesOrder
    <3>. QED
      BY <1>2, <1>3, <1>4, <1>5, <2>1, <3>1
  <2>. QED
    BY <1>1, <2>1, <2>2
<1>9. c < Bound(w + 1)
  <2>1. Elements * (w + 1) \in Nat /\ N * (c + 1) <= Elements * (w + 1)
    BY <1>1, <1>2, <1>3, <1>4, <1>5
  <2>2. /\ Bound(w + 1) \in Nat
        /\ Elements * (w + 1) < N * Bound(w + 1) + N
    BY <1>1, <2>1, DivBounds DEF Bound
  <2>3. CASE Bound(w + 1) <= c
    <3>1. N * Bound(w + 1) <= N * c /\ N * Bound(w + 1) \in Nat
      BY <1>1, <2>2, <2>3, TimesOrder
    <3>. QED
      BY <1>1, <1>2, <2>1, <2>2, <3>1
  <2>. QED
    BY <1>1, <2>2, <2>3
<1>10. c \in Slice(w)
  BY <1>1, <1>7, <1>8, <1>9, SliceBounds
<1>. QED
  BY <1>7, <1>10

--------------------------------------------------------------------------------
(* The inductive invariant: where the main thread is says what the atomics  *)
(* hold, and the atomics say how far a worker can be.                       *)

Announced == {w \in Workers : wpc[w] \in {"spin", "loop", "pass", "exited"}}

\* The main thread is past the wait for `ready'.
Released == {"open", "armed", "sleep", "chase", "join", "sum", "returned"}

MainInv ==
  /\ mpc \in Released => ready = N
  /\ go <=> mpc \in {"sleep", "chase", "join", "sum", "returned"}
  /\ stop <=> mpc \in {"join", "sum", "returned"}
  /\ joined > 0 => stop
  /\ mpc \in {"sum", "returned"} => joined = N
  /\ mpc \in {"alloc", "thrown"} => created = 0
  /\ mpc \in {"open", "armed", "sleep", "chase", "join", "sum", "returned", "await"}
       => created = N
  /\ mpc = "returned" => result = passes

WorkerInv ==
  \A w \in Workers :
    /\ w >= created <=> wpc[w] = "unborn"
    /\ wpc[w] \in {"loop", "pass", "exited"} => go
    /\ wpc[w] = "exited" => stop /\ passes[w] = count[w]
    /\ w < joined => wpc[w] = "exited"
    /\ count[w] > 0 => wpc[w] \in {"loop", "pass", "exited"}
    /\ wpc[w] # "exited" => passes[w] <= count[w]
    /\ wpc[w] = "pass" => count[w] < MaxPasses

ReadyInv == ready = Cardinality(Announced)

\* When every worker is ready, the array has been written by who should.
TouchInv ==
  /\ UsesArray /\ ~WorkerTouches /\ mpc \notin {"alloc", "thrown"}
       => \A c \in Cells : owner[c] = Main
  /\ WorkerTouches
       => \A w \in Workers : wpc[w] \notin {"unborn", "setup"}
            => \A c \in Slice(w) : owner[c] = w

WatchInv ==
  \A w \in Workers :
    IF WorkerTimed
    THEN /\ wpc[w] \in {"unborn", "setup", "announce", "spin"} => watch[w] = "unset"
         /\ wpc[w] \in {"loop", "pass"} => watch[w] = "running"
         /\ wpc[w] = "exited" => watch[w] = "stopped"
    ELSE /\ mpc \in {"alloc", "spawn", "await", "open", "thrown", "terminated"}
              => watch[w] = "unset"
         /\ mpc \in {"armed", "sleep", "chase", "join"} => watch[w] = "running"
         /\ mpc \in {"sum", "returned"} => watch[w] = "stopped"

IInv == TypeOK /\ ReadyInv /\ MainInv /\ WorkerInv /\ TouchInv /\ WatchInv

--------------------------------------------------------------------------------
(* Counting the workers that have announced themselves. *)

LEMMA WorkersFinite ==
  /\ IsFiniteSet(Workers)
  /\ Cardinality(Workers) = N
<1>1. N \in Nat
  BY BarrierAssumption
<1>. QED
  BY <1>1, FS_Interval DEF Workers

LEMMA WorkerSetFinite ==
  ASSUME NEW S, S \subseteq Workers
  PROVE  IsFiniteSet(S) /\ Cardinality(S) \in 0 .. N
<1>1. IsFiniteSet(S) /\ Cardinality(S) <= N
  BY WorkersFinite, FS_Subset
<1>. QED
  BY <1>1, FS_CardinalityType, BarrierAssumption

\* The count reaches N only when every worker has announced itself.
LEMMA AllAnnounced ==
  ASSUME ReadyInv, ready = N
  PROVE  Announced = Workers
<1>1. Announced \subseteq Workers
  BY DEF Announced
<1>. QED
  BY <1>1, WorkersFinite, FS_Subset DEF ReadyInv

LEMMA InitIInv == Init => IInv
<1>. SUFFICES ASSUME Init PROVE IInv
  OBVIOUS
<1>1. TypeOK
  <2>1. owner \in [Cells -> Workers \cup {Main, Nobody}]
    BY DEF Init
  <2>2. 0 \in 0 .. N /\ 0 \in 0 .. MaxPasses
    BY BarrierAssumption
  <2>. QED
    BY <2>1, <2>2 DEF Init, TypeOK, MainStates, WorkerStates
<1>2. ReadyInv
  <2>1. Announced = {}
    BY DEF Init, Announced
  <2>. QED
    BY <2>1, FS_EmptySet DEF Init, ReadyInv
<1>3. MainInv
  BY DEF Init, MainInv, Released
<1>4. WorkerInv
  BY BarrierAssumption DEF Init, WorkerInv, Workers
<1>5. TouchInv
  BY DEF Init, TouchInv
<1>6. WatchInv
  BY DEF Init, WatchInv
<1>. QED
  BY <1>1, <1>2, <1>3, <1>4, <1>5, <1>6 DEF IInv

\* A step of the main thread keeps the invariant.
LEMMA MainStepIInv ==
  ASSUME IInv, MainStep
  PROVE  IInv'
<1>. USE BarrierAssumption DEF IInv
<1>1. CASE Allocate
  <2>1. TypeOK'
    BY <1>1 DEF Allocate, TypeOK, MainStates, WorkerStates, Workers, Kinds, UsesArray, WorkerTouches, Allocates, WorkerTimed, CountsInPlace
  <2>2. ReadyInv'
    BY <1>1 DEF Allocate, ReadyInv, Announced, TypeOK, WorkerInv, Workers
  <2>3. MainInv'
    BY <1>1 DEF Allocate, MainInv, Released, TypeOK
  <2>4. WorkerInv'
    BY <1>1 DEF Allocate, WorkerInv, MainInv, TypeOK, Workers
  <2>5. TouchInv'
    BY <1>1 DEF Allocate, TouchInv, TypeOK, MainInv, WorkerInv, Workers, Kinds, UsesArray, WorkerTouches, Allocates, WorkerTimed, CountsInPlace
  <2>6. WatchInv'
    BY <1>1 DEF Allocate, WatchInv, TypeOK, Workers, Kinds, UsesArray, WorkerTouches, Allocates, WorkerTimed, CountsInPlace
  <2>. QED
    BY <2>1, <2>2, <2>3, <2>4, <2>5, <2>6
<1>2. CASE AllocateFails
  <2>1. TypeOK'
    BY <1>2 DEF AllocateFails, TypeOK, MainStates, WorkerStates, Workers, Kinds, UsesArray, WorkerTouches, Allocates, WorkerTimed, CountsInPlace
  <2>2. ReadyInv'
    BY <1>2 DEF AllocateFails, ReadyInv, Announced, TypeOK, WorkerInv, Workers
  <2>3. MainInv'
    BY <1>2 DEF AllocateFails, MainInv, Released, TypeOK
  <2>4. WorkerInv'
    BY <1>2 DEF AllocateFails, WorkerInv, MainInv, TypeOK, Workers
  <2>5. TouchInv'
    BY <1>2 DEF AllocateFails, TouchInv, TypeOK, MainInv, WorkerInv, Workers, Kinds, UsesArray, WorkerTouches, Allocates, WorkerTimed, CountsInPlace
  <2>6. WatchInv'
    BY <1>2 DEF AllocateFails, WatchInv, TypeOK, Workers, Kinds, UsesArray, WorkerTouches, Allocates, WorkerTimed, CountsInPlace
  <2>. QED
    BY <2>1, <2>2, <2>3, <2>4, <2>5, <2>6
<1>3. CASE Spawn
  <2>1. TypeOK'
    <3>1. created \in Workers /\ created + 1 \in 0 .. N
      BY <1>3 DEF Spawn, TypeOK, Workers
    <3>. QED
      BY <1>3, <3>1 DEF Spawn, TypeOK, WorkerStates, Kinds
  <2>2. ReadyInv'
    <3>1. created \in Workers /\ wpc[created] = "unborn"
      BY <1>3 DEF Spawn, TypeOK, Workers, WorkerInv
    <3>2. Announced' = Announced
      BY <1>3, <3>1 DEF Spawn, TypeOK, Announced
    <3>. QED
      BY <1>3, <3>2 DEF Spawn, ReadyInv
  <2>3. MainInv'
    BY <1>3 DEF Spawn, MainInv, Released, TypeOK
  <2>4. WorkerInv'
    BY <1>3 DEF Spawn, WorkerInv, MainInv, TypeOK, Workers
  <2>5. TouchInv'
    BY <1>3 DEF Spawn, TouchInv, TypeOK, MainInv, WorkerInv, Workers, Kinds, UsesArray, WorkerTouches, Allocates, WorkerTimed, CountsInPlace
  <2>6. WatchInv'
    <3>1. created \in Workers /\ wpc[created] = "unborn"
      BY <1>3 DEF Spawn, TypeOK, Workers, WorkerInv
    <3>. QED
      BY <1>3, <3>1 DEF Spawn, WatchInv, TypeOK, WorkerTimed
  <2>. QED
    BY <2>1, <2>2, <2>3, <2>4, <2>5, <2>6
<1>4. CASE SpawnFails
  <2>1. TypeOK'
    BY <1>4 DEF SpawnFails, TypeOK, MainStates, WorkerStates, Workers, Kinds, UsesArray, WorkerTouches, Allocates, WorkerTimed, CountsInPlace
  <2>2. ReadyInv'
    BY <1>4 DEF SpawnFails, ReadyInv, Announced, TypeOK, WorkerInv, Workers
  <2>3. MainInv'
    BY <1>4 DEF SpawnFails, MainInv, Released, TypeOK
  <2>4. WorkerInv'
    BY <1>4 DEF SpawnFails, WorkerInv, MainInv, TypeOK, Workers
  <2>5. TouchInv'
    BY <1>4 DEF SpawnFails, TouchInv, TypeOK, MainInv, WorkerInv, Workers, Kinds, UsesArray, WorkerTouches, Allocates, WorkerTimed, CountsInPlace
  <2>6. WatchInv'
    BY <1>4 DEF SpawnFails, WatchInv, TypeOK, Workers, Kinds, UsesArray, WorkerTouches, Allocates, WorkerTimed, CountsInPlace
  <2>. QED
    BY <2>1, <2>2, <2>3, <2>4, <2>5, <2>6
<1>5. CASE SpawnedAll
  <2>1. TypeOK'
    BY <1>5 DEF SpawnedAll, TypeOK, MainStates, WorkerStates, Workers, Kinds, UsesArray, WorkerTouches, Allocates, WorkerTimed, CountsInPlace
  <2>2. ReadyInv'
    BY <1>5 DEF SpawnedAll, ReadyInv, Announced, TypeOK, WorkerInv, Workers
  <2>3. MainInv'
    BY <1>5 DEF SpawnedAll, MainInv, Released, TypeOK
  <2>4. WorkerInv'
    BY <1>5 DEF SpawnedAll, WorkerInv, MainInv, TypeOK, Workers
  <2>5. TouchInv'
    BY <1>5 DEF SpawnedAll, TouchInv, TypeOK, MainInv, WorkerInv, Workers, Kinds, UsesArray, WorkerTouches, Allocates, WorkerTimed, CountsInPlace
  <2>6. WatchInv'
    BY <1>5 DEF SpawnedAll, WatchInv, TypeOK, Workers, Kinds, UsesArray, WorkerTouches, Allocates, WorkerTimed, CountsInPlace
  <2>. QED
    BY <2>1, <2>2, <2>3, <2>4, <2>5, <2>6
<1>6. CASE AllReady
  <2>1. TypeOK'
    BY <1>6 DEF AllReady, TypeOK, MainStates, WorkerStates, Workers, Kinds, UsesArray, WorkerTouches, Allocates, WorkerTimed, CountsInPlace
  <2>2. ReadyInv'
    BY <1>6 DEF AllReady, ReadyInv, Announced, TypeOK, WorkerInv, Workers
  <2>3. MainInv'
    BY <1>6 DEF AllReady, MainInv, Released, TypeOK
  <2>4. WorkerInv'
    BY <1>6 DEF AllReady, WorkerInv, MainInv, TypeOK, Workers
  <2>5. TouchInv'
    BY <1>6 DEF AllReady, TouchInv, TypeOK, MainInv, WorkerInv, Workers, Kinds, UsesArray, WorkerTouches, Allocates, WorkerTimed, CountsInPlace
  <2>6. WatchInv'
    BY <1>6 DEF AllReady, WatchInv, TypeOK, Workers, Kinds, UsesArray, WorkerTouches, Allocates, WorkerTimed, CountsInPlace
  <2>. QED
    BY <2>1, <2>2, <2>3, <2>4, <2>5, <2>6
<1>7. CASE SampleBegin
  <2>1. TypeOK'
    BY <1>7 DEF SampleBegin, TypeOK, MainStates, WorkerStates, Workers, Kinds, UsesArray, WorkerTouches, Allocates, WorkerTimed, CountsInPlace
  <2>2. ReadyInv'
    BY <1>7 DEF SampleBegin, ReadyInv, Announced, TypeOK, WorkerInv, Workers
  <2>3. MainInv'
    BY <1>7 DEF SampleBegin, MainInv, Released, TypeOK
  <2>4. WorkerInv'
    BY <1>7 DEF SampleBegin, WorkerInv, MainInv, TypeOK, Workers
  <2>5. TouchInv'
    BY <1>7 DEF SampleBegin, TouchInv, TypeOK, MainInv, WorkerInv, Workers, Kinds, UsesArray, WorkerTouches, Allocates, WorkerTimed, CountsInPlace
  <2>6. WatchInv'
    BY <1>7 DEF SampleBegin, WatchInv, TypeOK, Workers, Kinds, UsesArray, WorkerTouches, Allocates, WorkerTimed, CountsInPlace
  <2>. QED
    BY <2>1, <2>2, <2>3, <2>4, <2>5, <2>6
<1>8. CASE SetGo
  <2>1. TypeOK'
    BY <1>8 DEF SetGo, TypeOK, MainStates, WorkerStates, Workers, Kinds, UsesArray, WorkerTouches, Allocates, WorkerTimed, CountsInPlace
  <2>2. ReadyInv'
    BY <1>8 DEF SetGo, ReadyInv, Announced, TypeOK, WorkerInv, Workers
  <2>3. MainInv'
    BY <1>8 DEF SetGo, MainInv, Released, TypeOK
  <2>4. WorkerInv'
    BY <1>8 DEF SetGo, WorkerInv, MainInv, TypeOK, Workers
  <2>5. TouchInv'
    BY <1>8 DEF SetGo, TouchInv, TypeOK, MainInv, WorkerInv, Workers, Kinds, UsesArray, WorkerTouches, Allocates, WorkerTimed, CountsInPlace
  <2>6. WatchInv'
    BY <1>8 DEF SetGo, WatchInv, TypeOK, Workers, Kinds, UsesArray, WorkerTouches, Allocates, WorkerTimed, CountsInPlace
  <2>. QED
    BY <2>1, <2>2, <2>3, <2>4, <2>5, <2>6
<1>9. CASE SleepOver
  <2>1. TypeOK'
    BY <1>9 DEF SleepOver, TypeOK, MainStates, WorkerStates, Workers, Kinds, UsesArray, WorkerTouches, Allocates, WorkerTimed, CountsInPlace
  <2>2. ReadyInv'
    BY <1>9 DEF SleepOver, ReadyInv, Announced, TypeOK, WorkerInv, Workers
  <2>3. MainInv'
    BY <1>9 DEF SleepOver, MainInv, Released, TypeOK
  <2>4. WorkerInv'
    BY <1>9 DEF SleepOver, WorkerInv, MainInv, TypeOK, Workers
  <2>5. TouchInv'
    BY <1>9 DEF SleepOver, TouchInv, TypeOK, MainInv, WorkerInv, Workers, Kinds, UsesArray, WorkerTouches, Allocates, WorkerTimed, CountsInPlace
  <2>6. WatchInv'
    BY <1>9 DEF SleepOver, WatchInv, TypeOK, Workers, Kinds, UsesArray, WorkerTouches, Allocates, WorkerTimed, CountsInPlace
  <2>. QED
    BY <2>1, <2>2, <2>3, <2>4, <2>5, <2>6
<1>10. CASE SetStop
  <2>1. TypeOK'
    BY <1>10 DEF SetStop, TypeOK, MainStates, WorkerStates, Workers, Kinds, UsesArray, WorkerTouches, Allocates, WorkerTimed, CountsInPlace
  <2>2. ReadyInv'
    BY <1>10 DEF SetStop, ReadyInv, Announced, TypeOK, WorkerInv, Workers
  <2>3. MainInv'
    BY <1>10 DEF SetStop, MainInv, Released, TypeOK
  <2>4. WorkerInv'
    BY <1>10 DEF SetStop, WorkerInv, MainInv, TypeOK, Workers
  <2>5. TouchInv'
    BY <1>10 DEF SetStop, TouchInv, TypeOK, MainInv, WorkerInv, Workers, Kinds, UsesArray, WorkerTouches, Allocates, WorkerTimed, CountsInPlace
  <2>6. WatchInv'
    BY <1>10 DEF SetStop, WatchInv, TypeOK, Workers, Kinds, UsesArray, WorkerTouches, Allocates, WorkerTimed, CountsInPlace
  <2>. QED
    BY <2>1, <2>2, <2>3, <2>4, <2>5, <2>6
<1>11. CASE Join
  <2>1. TypeOK'
    <3>1. joined + 1 \in 0 .. N
      BY <1>11 DEF Join, TypeOK
    <3>. QED
      BY <1>11, <3>1 DEF Join, TypeOK, Kinds
  <2>2. ReadyInv'
    BY <1>11 DEF Join, ReadyInv, Announced, TypeOK, WorkerInv, Workers
  <2>3. MainInv'
    BY <1>11 DEF Join, MainInv, Released, TypeOK
  <2>4. WorkerInv'
    <3>1. joined \in Nat /\ joined' = joined + 1 /\ wpc[joined] = "exited"
      BY <1>11 DEF Join, TypeOK
    <3>2. \A w \in Workers : w < joined' => w < joined \/ w = joined
      BY <3>1 DEF Workers
    <3>3. \A w \in Workers : w < joined' => wpc[w] = "exited"
      BY <3>1, <3>2 DEF WorkerInv
    <3>. QED
      BY <1>11, <3>3 DEF Join, WorkerInv
  <2>5. TouchInv'
    BY <1>11 DEF Join, TouchInv, TypeOK, MainInv, WorkerInv, Workers, Kinds, UsesArray, WorkerTouches, Allocates, WorkerTimed, CountsInPlace
  <2>6. WatchInv'
    BY <1>11 DEF Join, WatchInv, TypeOK, Workers, Kinds, UsesArray, WorkerTouches, Allocates, WorkerTimed, CountsInPlace
  <2>. QED
    BY <2>1, <2>2, <2>3, <2>4, <2>5, <2>6
<1>12. CASE SampleEnd
  <2>1. TypeOK'
    BY <1>12 DEF SampleEnd, TypeOK, MainStates, WorkerStates, Workers, Kinds, UsesArray, WorkerTouches, Allocates, WorkerTimed, CountsInPlace
  <2>2. ReadyInv'
    BY <1>12 DEF SampleEnd, ReadyInv, Announced, TypeOK, WorkerInv, Workers
  <2>3. MainInv'
    BY <1>12 DEF SampleEnd, MainInv, Released, TypeOK
  <2>4. WorkerInv'
    BY <1>12 DEF SampleEnd, WorkerInv, MainInv, TypeOK, Workers
  <2>5. TouchInv'
    BY <1>12 DEF SampleEnd, TouchInv, TypeOK, MainInv, WorkerInv, Workers, Kinds, UsesArray, WorkerTouches, Allocates, WorkerTimed, CountsInPlace
  <2>6. WatchInv'
    BY <1>12 DEF SampleEnd, WatchInv, TypeOK, Workers, Kinds, UsesArray, WorkerTouches, Allocates, WorkerTimed, CountsInPlace
  <2>. QED
    BY <2>1, <2>2, <2>3, <2>4, <2>5, <2>6
<1>13. CASE Accumulate
  <2>1. TypeOK'
    BY <1>13 DEF Accumulate, TypeOK, MainStates, WorkerStates, Workers, Kinds, UsesArray, WorkerTouches, Allocates, WorkerTimed, CountsInPlace
  <2>2. ReadyInv'
    BY <1>13 DEF Accumulate, ReadyInv, Announced, TypeOK, WorkerInv, Workers
  <2>3. MainInv'
    BY <1>13 DEF Accumulate, MainInv, Released, TypeOK
  <2>4. WorkerInv'
    BY <1>13 DEF Accumulate, WorkerInv, MainInv, TypeOK, Workers
  <2>5. TouchInv'
    BY <1>13 DEF Accumulate, TouchInv, TypeOK, MainInv, WorkerInv, Workers, Kinds, UsesArray, WorkerTouches, Allocates, WorkerTimed, CountsInPlace
  <2>6. WatchInv'
    BY <1>13 DEF Accumulate, WatchInv, TypeOK, Workers, Kinds, UsesArray, WorkerTouches, Allocates, WorkerTimed, CountsInPlace
  <2>. QED
    BY <2>1, <2>2, <2>3, <2>4, <2>5, <2>6
<1>. QED
  BY <1>1, <1>2, <1>3, <1>4, <1>5, <1>6, <1>7, <1>8, <1>9, <1>10, <1>11, <1>12, <1>13 DEF MainStep

\* A step of a worker keeps the invariant.
LEMMA WorkerStepIInv ==
  ASSUME IInv, NEW w \in Workers, WorkerStep(w)
  PROVE  IInv'
<1>. USE BarrierAssumption DEF IInv
<1>1. CASE Setup(w)
  <2>1. TypeOK'
    BY <1>1 DEF Setup, control, TypeOK, WorkerStates, Workers, Kinds, UsesArray, WorkerTouches, Allocates, WorkerTimed, CountsInPlace
  <2>2. ReadyInv'
    BY <1>1 DEF Setup, control, ReadyInv, Announced, TypeOK
  <2>3. MainInv'
    BY <1>1 DEF Setup, control, MainInv, WorkerInv, Released, TypeOK
  <2>4. WorkerInv'
    BY <1>1 DEF Setup, control, WorkerInv, MainInv, TypeOK, Workers
  <2>5. TouchInv'
    <3>1. CASE WorkerTouches
      <4>1. ASSUME NEW v \in Workers, wpc'[v] \notin {"unborn", "setup"},
                   NEW c \in Slice(v), c \in Cells
            PROVE  owner'[c] = v
        BY <1>1, <3>1, <4>1, SlicesDisjoint DEF Setup, TouchInv, TypeOK
      <4>2. \A v \in Workers : Slice(v) \subseteq Cells
        BY SlicesInArray
      <4>. QED
        BY <1>1, <3>1, <4>1, <4>2 DEF Setup, control, TouchInv, UsesArray, WorkerTouches
    <3>2. CASE ~WorkerTouches
      BY <1>1, <3>2 DEF Setup, control, TouchInv, TypeOK, UsesArray, WorkerTouches
    <3>. QED
      BY <3>1, <3>2
  <2>6. WatchInv'
    BY <1>1 DEF Setup, control, WatchInv, TypeOK, Kinds, UsesArray, WorkerTouches, Allocates, WorkerTimed, CountsInPlace
  <2>. QED
    BY <2>1, <2>2, <2>3, <2>4, <2>5, <2>6
<1>2. CASE Announce(w)
  <2>2. ReadyInv'
    <3>1. Announced' = Announced \cup {w} /\ w \notin Announced
      BY <1>2 DEF Announce, Announced, TypeOK
    <3>2. IsFiniteSet(Announced)
      BY WorkerSetFinite DEF Announced
    <3>. QED
      BY <1>2, <3>1, <3>2, FS_AddElement DEF Announce, ReadyInv
  <2>1. TypeOK'
    <3>1. Announced' \subseteq Workers
      BY DEF Announced
    <3>2. ready' \in 0 .. N
      BY <2>2, <3>1, WorkerSetFinite DEF ReadyInv
    <3>. QED
      BY <1>2, <3>2 DEF Announce, TypeOK, WorkerStates, Kinds
  <2>3. MainInv'
    <3>1. w \notin Announced
      BY <1>2 DEF Announce, Announced
    <3>2. ready # N
      BY <3>1, AllAnnounced
    <3>. QED
      BY <1>2, <3>2 DEF Announce, MainInv, Released
  <2>4. WorkerInv'
    BY <1>2 DEF Announce, control, WorkerInv, MainInv, TypeOK, Workers
  <2>5. TouchInv'
    BY <1>2 DEF Announce, control, TouchInv, TypeOK, Kinds, UsesArray, WorkerTouches, Allocates, WorkerTimed, CountsInPlace
  <2>6. WatchInv'
    BY <1>2 DEF Announce, control, WatchInv, TypeOK, Kinds, UsesArray, WorkerTouches, Allocates, WorkerTimed, CountsInPlace
  <2>. QED
    BY <2>1, <2>2, <2>3, <2>4, <2>5, <2>6
<1>3. CASE SeeGo(w)
  <2>1. TypeOK'
    BY <1>3 DEF SeeGo, control, TypeOK, WorkerStates, Workers, Kinds, UsesArray, WorkerTouches, Allocates, WorkerTimed, CountsInPlace
  <2>2. ReadyInv'
    BY <1>3 DEF SeeGo, control, ReadyInv, Announced, TypeOK
  <2>3. MainInv'
    BY <1>3 DEF SeeGo, control, MainInv, WorkerInv, Released, TypeOK
  <2>4. WorkerInv'
    BY <1>3 DEF SeeGo, control, WorkerInv, MainInv, TypeOK, Workers
  <2>5. TouchInv'
    BY <1>3 DEF SeeGo, control, TouchInv, TypeOK, Kinds, UsesArray, WorkerTouches, Allocates, WorkerTimed, CountsInPlace
  <2>6. WatchInv'
    BY <1>3 DEF SeeGo, control, WatchInv, TypeOK, Kinds, UsesArray, WorkerTouches, Allocates, WorkerTimed, CountsInPlace
  <2>. QED
    BY <2>1, <2>2, <2>3, <2>4, <2>5, <2>6
<1>4. CASE BeginPass(w)
  <2>1. TypeOK'
    BY <1>4 DEF BeginPass, control, TypeOK, WorkerStates, Workers, Kinds, UsesArray, WorkerTouches, Allocates, WorkerTimed, CountsInPlace
  <2>2. ReadyInv'
    BY <1>4 DEF BeginPass, control, ReadyInv, Announced, TypeOK
  <2>3. MainInv'
    BY <1>4 DEF BeginPass, control, MainInv, WorkerInv, Released, TypeOK
  <2>4. WorkerInv'
    BY <1>4 DEF BeginPass, control, WorkerInv, MainInv, TypeOK, Workers
  <2>5. TouchInv'
    BY <1>4 DEF BeginPass, control, TouchInv, TypeOK, Kinds, UsesArray, WorkerTouches, Allocates, WorkerTimed, CountsInPlace
  <2>6. WatchInv'
    BY <1>4 DEF BeginPass, control, WatchInv, TypeOK, Kinds, UsesArray, WorkerTouches, Allocates, WorkerTimed, CountsInPlace
  <2>. QED
    BY <2>1, <2>2, <2>3, <2>4, <2>5, <2>6
<1>5. CASE EndPass(w)
  <2>1. TypeOK'
    <3>1. count[w] + 1 \in 0 .. MaxPasses /\ passes[w] + 1 \in 0 .. MaxPasses
      BY <1>5 DEF EndPass, TypeOK, WorkerInv
    <3>. QED
      BY <1>5, <3>1 DEF EndPass, control, TypeOK, WorkerStates, Kinds
  <2>2. ReadyInv'
    BY <1>5 DEF EndPass, control, ReadyInv, Announced, TypeOK
  <2>3. MainInv'
    <3>1. mpc # "returned"
      BY <1>5 DEF EndPass, MainInv, WorkerInv, Workers
    <3>. QED
      BY <1>5, <3>1 DEF EndPass, control, MainInv, Released
  <2>4. WorkerInv'
    BY <1>5 DEF EndPass, control, WorkerInv, MainInv, TypeOK, Workers
  <2>5. TouchInv'
    BY <1>5 DEF EndPass, control, TouchInv, TypeOK, Kinds, UsesArray, WorkerTouches, Allocates, WorkerTimed, CountsInPlace
  <2>6. WatchInv'
    BY <1>5 DEF EndPass, control, WatchInv, TypeOK, Kinds, UsesArray, WorkerTouches, Allocates, WorkerTimed, CountsInPlace
  <2>. QED
    BY <2>1, <2>2, <2>3, <2>4, <2>5, <2>6
<1>6. CASE Publish(w)
  <2>1. TypeOK'
    BY <1>6 DEF Publish, control, TypeOK, WorkerStates, Workers, Kinds, UsesArray, WorkerTouches, Allocates, WorkerTimed, CountsInPlace
  <2>2. ReadyInv'
    BY <1>6 DEF Publish, control, ReadyInv, Announced, TypeOK
  <2>3. MainInv'
    <3>1. mpc # "returned"
      BY <1>6 DEF Publish, MainInv, WorkerInv, Workers
    <3>. QED
      BY <1>6, <3>1 DEF Publish, control, MainInv, Released
  <2>4. WorkerInv'
    BY <1>6 DEF Publish, control, WorkerInv, MainInv, TypeOK, Workers
  <2>5. TouchInv'
    BY <1>6 DEF Publish, control, TouchInv, TypeOK, Kinds, UsesArray, WorkerTouches, Allocates, WorkerTimed, CountsInPlace
  <2>6. WatchInv'
    BY <1>6 DEF Publish, control, WatchInv, TypeOK, Kinds, UsesArray, WorkerTouches, Allocates, WorkerTimed, CountsInPlace
  <2>. QED
    BY <2>1, <2>2, <2>3, <2>4, <2>5, <2>6
<1>. QED
  BY <1>1, <1>2, <1>3, <1>4, <1>5, <1>6 DEF WorkerStep

LEMMA NextIInv == IInv /\ [Next]_vars => IInv'
<1>. SUFFICES ASSUME IInv, [Next]_vars PROVE IInv'
  OBVIOUS
<1>1. CASE MainStep
  BY <1>1, MainStepIInv
<1>2. ASSUME NEW w \in Workers, WorkerStep(w) PROVE IInv'
  BY <1>2, WorkerStepIInv
<1>3. CASE UNCHANGED vars
  BY <1>3 DEF vars, IInv, TypeOK, ReadyInv, Announced, MainInv, WorkerInv, TouchInv,
              WatchInv, Kinds, UsesArray, WorkerTouches, WorkerTimed
<1>. QED
  BY <1>1, <1>2, <1>3 DEF Next, Finished

\* The inductive invariant holds for every number of workers, every array and
\* every function that uses the barrier.
THEOREM IInvHolds == Spec => []IInv
BY InitIInv, NextIInv, PTL DEF Spec

--------------------------------------------------------------------------------
(* The theorems. *)

\* Every variable keeps its type; `ready' never exceeds the number of workers.
THEOREM TypeCorrect == Spec => []TypeOK
<1>1. IInv => TypeOK
  BY DEF IInv
<1>. QED
  BY <1>1, IInvHolds, PTL

\* The figure run_stream and its siblings return holds every completed pass.
THEOREM ResultComplete == Spec => []ResultIsComplete
<1>1. IInv => ResultIsComplete
  <2>. SUFFICES ASSUME IInv, mpc = "returned" PROVE result = count
    BY DEF ResultIsComplete
  <2>1. joined = N /\ result = passes
    BY DEF IInv, MainInv
  <2>2. \A w \in Workers : passes[w] = count[w]
    BY <2>1, BarrierAssumption DEF IInv, WorkerInv, Workers
  <2>. QED
    BY <2>1, <2>2 DEF IInv, TypeOK
<1>. QED
  BY <1>1, IInvHolds, PTL

\* No worker that holds references to the frame is running when it is left.
THEOREM FrameOutlivesWorkers == Spec => []NoWorkerOutlivesFrame
<1>1. IInv => NoWorkerOutlivesFrame
  <2>. SUFFICES ASSUME IInv, mpc \in {"returned", "thrown"}, NEW w \in Workers
                PROVE  wpc[w] \in {"unborn", "exited"}
    BY DEF NoWorkerOutlivesFrame
  <2>1. CASE mpc = "returned"
    BY <2>1, BarrierAssumption DEF IInv, MainInv, WorkerInv, Workers
  <2>2. CASE mpc = "thrown"
    BY <2>2, BarrierAssumption DEF IInv, MainInv, WorkerInv, Workers
  <2>. QED
    BY <2>1, <2>2
<1>. QED
  BY <1>1, IInvHolds, PTL

\* The loaded latency is measured between the release and the stop of the load.
THEOREM ChaseIsUnderLoad == Spec => []ChaseUnderLoad
<1>1. IInv => ChaseUnderLoad
  <2>. SUFFICES ASSUME IInv, mpc = "chase"
                PROVE  /\ go /\ ~stop
                       /\ \A w \in Workers : wpc[w] \in {"spin", "loop", "pass"}
    BY DEF ChaseUnderLoad
  <2>1. go /\ ~stop /\ ready = N
    BY DEF IInv, MainInv, Released
  <2>2. Announced = Workers
    BY <2>1, AllAnnounced DEF IInv
  <2>3. \A w \in Workers : wpc[w] # "exited"
    BY <2>1 DEF IInv, WorkerInv
  <2>. QED
    BY <2>1, <2>2, <2>3 DEF Announced
<1>. QED
  BY <1>1, IInvHolds, PTL

\* No measured pass runs over memory that has not been placed, in any slice.
THEOREM PlacedBeforeStreaming == Spec => []StreamsPlacedMemory
<1>1. IInv => StreamsPlacedMemory
  <2>. SUFFICES ASSUME IInv, UsesArray,
                       NEW w \in Workers, wpc[w] = "pass" \/ count[w] > 0,
                       NEW c \in Cells
                PROVE  owner[c] # Nobody
    BY DEF StreamsPlacedMemory
  <2>1. go
    BY DEF IInv, WorkerInv
  <2>2. ready = N /\ mpc \notin {"alloc", "thrown"}
    BY <2>1 DEF IInv, MainInv, Released
  <2>3. CASE WorkerTouches
    <3>1. N # 0 /\ N \in Nat
      BY BarrierAssumption DEF Workers
    <3>2. PICK v \in Workers : c \in Slice(v)
      BY <3>1, SlicesCover
    <3>3. v \in Announced
      BY <2>2, AllAnnounced DEF IInv
    <3>4. owner[c] = v
      BY <2>3, <3>2, <3>3 DEF IInv, TouchInv, Announced
    <3>. QED
      BY <3>1, <3>4 DEF Nobody, Workers
  <2>4. CASE ~WorkerTouches
    BY <2>2, <2>4, BarrierAssumption DEF IInv, TouchInv, Main, Nobody
  <2>. QED
    BY <2>3, <2>4
<1>. QED
  BY <1>1, IInvHolds, PTL

\* With first touch by the workers, each streams over pages it placed itself.
THEOREM LocalFirstTouch == Spec => []FirstTouchIsLocal
<1>1. IInv => FirstTouchIsLocal
  <2>. SUFFICES ASSUME IInv, mpc = "returned", WorkerTouches, NEW c \in Cells
                PROVE  \E w \in Workers : /\ owner[c] = w
                                          /\ {v \in Workers : c \in Slice(v)} = {w}
    BY DEF FirstTouchIsLocal
  <2>1. N # 0
    BY BarrierAssumption DEF IInv, TypeOK, Kinds, WorkerTouches
  <2>2. PICK w \in Workers : c \in Slice(w)
    BY <2>1, SlicesCover
  <2>3. w \in Announced
    BY AllAnnounced DEF IInv, MainInv, Released
  <2>4. owner[c] = w
    BY <2>2, <2>3 DEF IInv, TouchInv, Announced
  <2>5. {v \in Workers : c \in Slice(v)} = {w}
    BY <2>2, SlicesDisjoint
  <2>. QED
    BY <2>4, <2>5
<1>. QED
  BY <1>1, IInvHolds, PTL

--------------------------------------------------------------------------------
(* The protocol implements the measurement window. *)

LEMMA WindowInit == Init => Window!Init
BY DEF Init, Window!Init, Outcome

\* A worker's pass is made while the stopwatch of the worker runs.
LEMMA PassIsTimed ==
  ASSUME IInv, NEW w \in Workers, wpc[w] \in {"loop", "pass"}
  PROVE  watch[w] = "running" /\ mpc \in {"sleep", "chase", "join"}
<1>1. mpc \in {"sleep", "chase", "join"}
  BY BarrierAssumption DEF IInv, MainInv, WorkerInv, Workers
<1>. QED
  BY <1>1 DEF IInv, WatchInv

\* The figure is made of the passes of workers that have all exited.
LEMMA SumIsComplete ==
  ASSUME IInv, mpc = "sum"
  PROVE  passes = count /\ \A w \in Workers : watch[w] = "stopped"
<1>1. \A w \in Workers : wpc[w] = "exited"
  BY BarrierAssumption DEF IInv, MainInv, WorkerInv, Workers
<1>2. \A w \in Workers : passes[w] = count[w]
  BY <1>1 DEF IInv, WorkerInv
<1>3. passes = count
  BY <1>2 DEF IInv, TypeOK
<1>. QED
  BY <1>1, <1>3 DEF IInv, WatchInv

\* Before the release no worker has completed a pass.
LEMMA NoWorkBeforeGo ==
  ASSUME IInv, ~go, NEW w \in Workers
  PROVE  count[w] = 0
BY BarrierAssumption DEF IInv, WorkerInv, TypeOK

LEMMA WindowStep ==
  ASSUME IInv, [Next]_vars
  PROVE  [Window!Next]_(Window!windowVars)
<1>. USE DEF Window!windowVars
<1>1. CASE AllocateFails \/ SpawnFails
  <2>1. mpc \in {"alloc", "spawn"} /\ mpc' \in {"thrown", "terminated"}
    BY <1>1 DEF AllocateFails, SpawnFails
  <2>2. \A w \in Workers : count[w] = 0
    BY <2>1, NoWorkBeforeGo DEF IInv, MainInv
  <2>3. Window!Abandon
    BY <1>1, <2>1, <2>2 DEF Window!Abandon, AllocateFails, SpawnFails, Outcome
  <2>. QED
    BY <2>3 DEF Window!Next
<1>2. CASE SampleBegin
  <2>1. CASE WorkerTimed
    BY <1>2, <2>1 DEF SampleBegin, Outcome
  <2>2. CASE ~WorkerTimed
    <3>1. \A w \in Workers : watch[w] = "unset"
      BY <1>2, <2>2 DEF SampleBegin, IInv, WatchInv
    <3>2. Window!Start(Workers)
      BY <1>2, <2>2, <3>1 DEF SampleBegin, Outcome, Window!Start
    <3>. QED
      BY <3>2 DEF Window!Next
  <2>. QED
    BY <2>1, <2>2
<1>3. CASE SampleEnd
  <2>1. CASE WorkerTimed
    BY <1>3, <2>1 DEF SampleEnd, Outcome
  <2>2. CASE ~WorkerTimed
    <3>1. \A w \in Workers : watch[w] = "running"
      BY <1>3, <2>2 DEF SampleEnd, IInv, WatchInv
    <3>2. Window!Stop(Workers)
      BY <1>3, <2>2, <3>1 DEF SampleEnd, Outcome, Window!Stop
    <3>. QED
      BY <3>2 DEF Window!Next
  <2>. QED
    BY <2>1, <2>2
<1>4. CASE Accumulate
  <2>1. mpc = "sum"
    BY <1>4 DEF Accumulate
  <2>2. Window!Report
    BY <1>4, <2>1, SumIsComplete DEF Accumulate, Outcome, Window!Report
  <2>. QED
    BY <2>2 DEF Window!Next
<1>5. CASE Allocate \/ Spawn \/ SpawnedAll \/ AllReady \/ SetGo \/ SleepOver \/ SetStop \/ Join
  BY <1>5 DEF Allocate, Spawn, SpawnedAll, AllReady, SetGo, SleepOver, SetStop, Join, Outcome
<1>6. ASSUME NEW w \in Workers, EndPass(w)
      PROVE  Window!Next
  <2>1. watch[w] = "running"
    BY <1>6, PassIsTimed DEF EndPass
  <2>2. Window!Work(w)
    BY <1>6, <2>1 DEF EndPass, control, Outcome, Window!Work
  <2>. QED
    BY <2>2 DEF Window!Next
<1>7. ASSUME NEW w \in Workers, SeeGo(w)
      PROVE  Window!Next \/ UNCHANGED Window!windowVars
  <2>1. CASE WorkerTimed
    <3>1. /\ watch[w] = "unset" /\ watch \in [Workers -> {"unset", "running", "stopped"}]
          /\ mpc \in {"sleep", "chase", "join", "sum", "returned"} /\ wpc[w] = "spin"
      BY <1>7, <2>1 DEF SeeGo, IInv, WatchInv, MainInv, TypeOK
    <3>2. mpc \in {"sleep", "chase", "join"}
      BY <3>1, BarrierAssumption DEF IInv, MainInv, WorkerInv, Workers
    <3>3. Window!Start({w})
      BY <1>7, <2>1, <3>1, <3>2 DEF SeeGo, control, Outcome, Window!Start
    <3>. QED
      BY <3>3 DEF Window!Next
  <2>2. CASE ~WorkerTimed
    BY <1>7, <2>2 DEF SeeGo, control, Outcome
  <2>. QED
    BY <2>1, <2>2
<1>8. ASSUME NEW w \in Workers, Publish(w)
      PROVE  Window!Next \/ UNCHANGED Window!windowVars
  <2>1. CASE WorkerTimed
    <3>1. watch[w] = "running" /\ watch \in [Workers -> {"unset", "running", "stopped"}]
      BY <1>8, PassIsTimed DEF Publish, IInv, TypeOK
    <3>2. Window!Stop({w})
      BY <1>8, <2>1, <3>1 DEF Publish, control, Outcome, Window!Stop
    <3>. QED
      BY <3>2 DEF Window!Next
  <2>2. CASE ~WorkerTimed
    BY <1>8, <2>2 DEF Publish, control, Outcome
  <2>. QED
    BY <2>1, <2>2
<1>9. ASSUME NEW w \in Workers, Setup(w) \/ Announce(w) \/ BeginPass(w)
      PROVE  UNCHANGED Window!windowVars
  BY <1>9 DEF Setup, Announce, BeginPass, control, Outcome
<1>10. CASE UNCHANGED vars
  BY <1>10 DEF vars, Outcome
<1>. QED
  BY <1>1, <1>2, <1>3, <1>4, <1>5, <1>6, <1>7, <1>8, <1>9, <1>10
     DEF Next, MainStep, WorkerStep, Finished

\* Every pass is timed, all passes are reported, once, or none is.
THEOREM WindowImplemented == Spec => ImplementsWindow
<1>1. IInv /\ [Next]_vars => [Window!Next]_(Window!windowVars)
  BY WindowStep
<1>. QED
  BY <1>1, WindowInit, IInvHolds, PTL DEF Spec, ImplementsWindow, Window!Spec
================================================================================
