------------------------------- MODULE PipeHandoff -------------------------------
(***************************************************************************)
(* The scheduler handoff of native/probes/os_overheads.cpp: the main       *)
(* thread and a second one send a byte back and forth through two pipes,   *)
(* with blocking reads, Trips times.  A read or a write may fail; the      *)
(* code then leaves its loop, and the other thread is not told.            *)
(***************************************************************************)
EXTENDS Integers

CONSTANT Trips        \* round trips of one measurement

ASSUME TripsAssumption == Trips \in Nat

VARIABLES
  main, second,            \* where the main thread and the second thread are
  secondReady,             \* set by the second thread before its first read
  mainRound, secondRound,  \* the loop variables
  toSecond, toFirst,       \* bytes in each pipe
  fds,                     \* the four descriptors are open
  ioOk,                    \* the main thread's io_ok
  failed,                  \* history: some read or write has failed
  emitted                  \* the observation has been added

pipeVars ==
  <<main, second, secondReady, mainRound, secondRound, toSecond, toFirst, fds, ioOk, failed, emitted>>
pipes == <<toSecond, toFirst>>

Ended == {"returned", "thrown"}

PipeInit ==
  /\ main = "create" /\ second = "unborn" /\ secondReady = FALSE
  /\ mainRound = 0 /\ secondRound = 0
  /\ toSecond = 0 /\ toFirst = 0
  /\ fds = FALSE /\ ioOk = TRUE /\ failed = FALSE /\ emitted = FALSE

--------------------------------------------------------------------------------
(* The main thread. *)

CreatePipes ==
  /\ main = "create"
  /\ fds' = TRUE /\ main' = "spawn"
  /\ UNCHANGED <<second, secondReady, mainRound, secondRound, pipes, ioOk, failed, emitted>>

\* pipe2 fails: what was opened is closed, a warning is left, nothing else.
PipesFail ==
  /\ main = "create"
  /\ main' = "returned" /\ fds' = FALSE
  /\ UNCHANGED <<second, secondReady, mainRound, secondRound, pipes, ioOk, failed, emitted>>

Spawn ==
  /\ main = "spawn"
  /\ second' = "start" /\ main' = "await"
  /\ UNCHANGED <<secondReady, mainRound, secondRound, pipes, fds, ioOk, failed, emitted>>

\* No handler in the function: the descriptors stay open behind the exception.
NoThread ==
  /\ main = "spawn"
  /\ main' = "thrown"
  /\ UNCHANGED <<second, secondReady, mainRound, secondRound, pipes, fds, ioOk, failed, emitted>>

SeeReady ==
  /\ main = "await" /\ secondReady
  /\ main' = "loop"
  /\ UNCHANGED <<second, secondReady, mainRound, secondRound, pipes, fds, ioOk, failed, emitted>>

MainWrites ==
  /\ main = "loop" /\ mainRound < Trips
  /\ toSecond' = toSecond + 1 /\ main' = "read"
  /\ UNCHANGED <<second, secondReady, mainRound, secondRound, toFirst, fds, ioOk, failed, emitted>>

\* A blocking read returns when there is a byte.
MainReads ==
  /\ main = "read" /\ toFirst > 0
  /\ toFirst' = toFirst - 1
  /\ mainRound' = mainRound + 1 /\ main' = "loop"
  /\ UNCHANGED <<second, secondReady, secondRound, toSecond, fds, ioOk, failed, emitted>>

\* Mutant: the failure is not noted.
MainIoFails_Unnoted ==
  /\ \/ main = "loop" /\ mainRound < Trips
     \/ main = "read"
  /\ failed' = TRUE /\ main' = "join"
  /\ UNCHANGED <<second, secondReady, mainRound, secondRound, pipes, fds, ioOk, emitted>>
MainIoFails ==
  /\ \/ main = "loop" /\ mainRound < Trips
     \/ main = "read"
  /\ ioOk' = FALSE /\ failed' = TRUE /\ main' = "join"
  /\ UNCHANGED <<second, secondReady, mainRound, secondRound, pipes, fds, emitted>>

MainLeavesLoop ==
  /\ main = "loop" /\ mainRound = Trips
  /\ main' = "join"
  /\ UNCHANGED <<second, secondReady, mainRound, secondRound, pipes, fds, ioOk, failed, emitted>>

\* Mutant: the descriptors are closed before the join.
JoinAndClose_Early ==
  /\ main = "join"
  /\ fds' = FALSE
  /\ emitted' = ioOk
  /\ main' = "returned"
  /\ UNCHANGED <<second, secondReady, mainRound, secondRound, pipes, ioOk, failed>>

\* second.join(), close the descriptors, then the observation if all went well.
JoinAndClose ==
  /\ main = "join" /\ second = "exited"
  /\ fds' = FALSE
  /\ emitted' = ioOk
  /\ main' = "returned"
  /\ UNCHANGED <<second, secondReady, mainRound, secondRound, pipes, ioOk, failed>>

--------------------------------------------------------------------------------
(* The second thread. *)

SetReady ==
  /\ second = "start"
  /\ secondReady' = TRUE /\ second' = "read"
  /\ UNCHANGED <<main, mainRound, secondRound, pipes, fds, ioOk, failed, emitted>>

SecondReads ==
  /\ second = "read" /\ secondRound < Trips /\ toSecond > 0
  /\ toSecond' = toSecond - 1 /\ second' = "write"
  /\ UNCHANGED <<main, secondReady, mainRound, secondRound, toFirst, fds, ioOk, failed, emitted>>

SecondWrites ==
  /\ second = "write"
  /\ toFirst' = toFirst + 1
  /\ secondRound' = secondRound + 1 /\ second' = "read"
  /\ UNCHANGED <<main, secondReady, mainRound, toSecond, fds, ioOk, failed, emitted>>

\* if (... != 1) return;
SecondIoFails ==
  /\ \/ second = "read" /\ secondRound < Trips
     \/ second = "write"
  /\ failed' = TRUE /\ second' = "exited"
  /\ UNCHANGED <<main, secondReady, mainRound, secondRound, pipes, fds, ioOk, emitted>>

\* Mutant: the second thread makes one round less.
SecondReturns_OneShort ==
  /\ second = "read" /\ secondRound = Trips - 1
  /\ second' = "exited"
  /\ UNCHANGED <<main, secondReady, mainRound, secondRound, pipes, fds, ioOk, failed, emitted>>
SecondReturns ==
  /\ second = "read" /\ secondRound = Trips
  /\ second' = "exited"
  /\ UNCHANGED <<main, secondReady, mainRound, secondRound, pipes, fds, ioOk, failed, emitted>>

--------------------------------------------------------------------------------
MainPipeStep == CreatePipes \/ PipesFail \/ Spawn \/ NoThread \/ SeeReady
              \/ MainWrites \/ MainReads \/ MainLeavesLoop \/ JoinAndClose
SecondPipeStep == SetReady \/ SecondReads \/ SecondWrites \/ SecondReturns
IoFailure == MainIoFails \/ SecondIoFails

\* A thread sits in a read that no one will ever answer, and main with it.
Hung ==
  \/ main = "read" /\ toFirst = 0 /\ second = "exited"
  \/ main = "join" /\ second = "read" /\ secondRound < Trips /\ toSecond = 0

HandoffOver == main \in Ended /\ UNCHANGED pipeVars
StaysHung == Hung /\ UNCHANGED pipeVars

PipeNext == MainPipeStep \/ SecondPipeStep \/ IoFailure \/ HandoffOver \/ StaysHung

PipeSpec == PipeInit /\ [][PipeNext]_pipeVars

\* Both threads run; nothing forces an I/O failure to happen.
FairPipeSpec == PipeSpec /\ WF_pipeVars(MainPipeStep) /\ WF_pipeVars(SecondPipeStep)

--------------------------------------------------------------------------------
PipeTypeOK ==
  /\ main \in {"create", "spawn", "await", "loop", "read", "join"} \cup Ended
  /\ second \in {"unborn", "start", "read", "write", "exited"}
  /\ secondReady \in BOOLEAN /\ fds \in BOOLEAN /\ ioOk \in BOOLEAN
  /\ failed \in BOOLEAN /\ emitted \in BOOLEAN
  /\ mainRound \in 0 .. Trips /\ secondRound \in 0 .. Trips
  /\ toSecond \in 0 .. 1 /\ toFirst \in 0 .. 1

\* The descriptors outlive every read and write that uses them.
DescriptorsOpenWhileUsed ==
  second \in {"start", "read", "write"} \/ main \in {"loop", "read"} => fds

\* Only the main thread's own failures clear io_ok, yet no figure is published
\* when the other thread has failed, nor before both have made every round.
PublishedOnlyIfComplete ==
  emitted => ~failed /\ mainRound = Trips /\ secondRound = Trips /\ toSecond + toFirst = 0

\* Either the handoff ends or a read or a write has failed.
HandoffEnds == <>(main \in Ended \/ failed)
================================================================================
