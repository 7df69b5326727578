------------------------------- MODULE TurnHandoff -------------------------------
(***************************************************************************)
(* ping_pong_latency of native/probes/core_latency.cpp: two pinned threads *)
(* hand one cache line, the atomic `turn', to each other Rounds times.     *)
(* Every load and store of an atomic is a step of its own.                 *)
(***************************************************************************)
EXTENDS Integers

CONSTANT Rounds       \* round trips of one measurement

ASSUME RoundsAssumption == Rounds \in Nat

VARIABLES
  mpc,        \* the main thread
  fpc, spc,   \* the first and the second thread
  ready, go, turn,
  fround, sround,   \* the loop variables of the two threads
  legs,       \* history: stores to `turn' so far
  timedLegs   \* history: the legs the first thread's elapsed time holds

vars == <<mpc, fpc, spc, ready, go, turn, fround, sround, legs, timedLegs>>
mainVars == <<mpc, ready, go>>

Final == {"returned", "thrown", "terminated"}
Untimed == -1

Init ==
  /\ mpc = "spawn-first"
  /\ fpc = "unborn" /\ spc = "unborn"
  /\ ready = 0 /\ go = FALSE /\ turn = 0
  /\ fround = 0 /\ sround = 0
  /\ legs = 0 /\ timedLegs = Untimed

--------------------------------------------------------------------------------
(* The main thread. *)

SpawnFirst ==
  /\ mpc = "spawn-first"
  /\ fpc' = "announce" /\ mpc' = "spawn-second"
  /\ UNCHANGED <<spc, ready, go, turn, fround, sround, legs, timedLegs>>

SpawnSecond ==
  /\ mpc = "spawn-second"
  /\ spc' = "announce" /\ mpc' = "await"
  /\ UNCHANGED <<fpc, ready, go, turn, fround, sround, legs, timedLegs>>

\* The second constructor throws while `first' is joinable: std::terminate.
SpawnFails ==
  /\ \/ mpc = "spawn-first" /\ mpc' = "thrown"
     \/ mpc = "spawn-second" /\ mpc' = "terminated"
  /\ UNCHANGED <<fpc, spc, ready, go, turn, fround, sround, legs, timedLegs>>

SetGo ==
  /\ mpc = "await" /\ ready = 2
  /\ go' = TRUE /\ mpc' = "join-first"
  /\ UNCHANGED <<fpc, spc, ready, turn, fround, sround, legs, timedLegs>>

\* Mutant: `first' is joined where `second' should be next.
JoinFirst_Again ==
  /\ mpc = "join-first" /\ fpc = "exited"
  /\ UNCHANGED vars
JoinFirst ==
  /\ mpc = "join-first" /\ fpc = "exited"
  /\ mpc' = "join-second"
  /\ UNCHANGED <<fpc, spc, ready, go, turn, fround, sround, legs, timedLegs>>

JoinSecond ==
  /\ mpc = "join-second" /\ spc = "exited"
  /\ mpc' = "returned"
  /\ UNCHANGED <<fpc, spc, ready, go, turn, fround, sround, legs, timedLegs>>

--------------------------------------------------------------------------------
(* The two threads. *)

Alive == mpc # "terminated"

AnnounceFirst ==
  /\ Alive /\ fpc = "announce"
  /\ ready' = ready + 1 /\ fpc' = "spin"
  /\ UNCHANGED <<mpc, spc, go, turn, fround, sround, legs, timedLegs>>

AnnounceSecond ==
  /\ Alive /\ spc = "announce"
  /\ ready' = ready + 1 /\ spc' = "spin"
  /\ UNCHANGED <<mpc, fpc, go, turn, fround, sround, legs, timedLegs>>

\* The spin on `go' ends and the clock is read.
FirstSeesGo ==
  /\ Alive /\ fpc = "spin" /\ go
  /\ fpc' = "take"
  /\ UNCHANGED <<mainVars, spc, turn, fround, sround, legs, timedLegs>>

SecondSeesGo ==
  /\ Alive /\ spc = "spin" /\ go
  /\ spc' = "take"
  /\ UNCHANGED <<mainVars, fpc, turn, fround, sround, legs, timedLegs>>

\* Mutant: one round too many.
FirstTakes_OneMore ==
  /\ Alive /\ fpc = "take" /\ fround <= Rounds /\ turn = 0
  /\ fpc' = "give"
  /\ UNCHANGED <<mainVars, spc, turn, fround, sround, legs, timedLegs>>
FirstTakes ==
  /\ Alive /\ fpc = "take" /\ fround < Rounds /\ turn = 0
  /\ fpc' = "give"
  /\ UNCHANGED <<mainVars, spc, turn, fround, sround, legs, timedLegs>>

FirstGives ==
  /\ Alive /\ fpc = "give"
  /\ turn' = 1 /\ legs' = legs + 1
  /\ fpc' = "back"
  /\ UNCHANGED <<mainVars, spc, fround, sround, timedLegs>>

\* Mutant: the round counts as over before `turn' is back.
FirstSeesBack_AtOnce ==
  /\ Alive /\ fpc = "back"
  /\ fround' = fround + 1
  /\ fpc' = "take"
  /\ UNCHANGED <<mainVars, spc, turn, sround, legs, timedLegs>>

\* The second wait of the loop body: the round is over when `turn' is back.
FirstSeesBack ==
  /\ Alive /\ fpc = "back" /\ turn = 0
  /\ fround' = fround + 1
  /\ fpc' = "take"
  /\ UNCHANGED <<mainVars, spc, turn, sround, legs, timedLegs>>

\* Mutant: the loop is one round short.
FirstExits_OneShort ==
  /\ Alive /\ fpc = "take" /\ fround = Rounds - 1
  /\ timedLegs' = legs
  /\ fpc' = "exited"
  /\ UNCHANGED <<mainVars, spc, turn, fround, sround, legs>>

\* elapsed = seconds_between(begin, now)
FirstExits ==
  /\ Alive /\ fpc = "take" /\ fround = Rounds
  /\ timedLegs' = legs
  /\ fpc' = "exited"
  /\ UNCHANGED <<mainVars, spc, turn, fround, sround, legs>>

SecondTakes ==
  /\ Alive /\ spc = "take" /\ sround < Rounds /\ turn = 1
  /\ spc' = "give"
  /\ UNCHANGED <<mainVars, fpc, turn, fround, sround, legs, timedLegs>>

SecondGives ==
  /\ Alive /\ spc = "give"
  /\ turn' = 0 /\ legs' = legs + 1
  /\ sround' = sround + 1
  /\ spc' = "take"
  /\ UNCHANGED <<mainVars, fpc, fround, timedLegs>>

SecondExits ==
  /\ Alive /\ spc = "take" /\ sround = Rounds
  /\ spc' = "exited"
  /\ UNCHANGED <<mainVars, fpc, turn, fround, sround, legs, timedLegs>>

--------------------------------------------------------------------------------
MainStep == SpawnFirst \/ SpawnSecond \/ SpawnFails \/ SetGo \/ JoinFirst \/ JoinSecond
FirstStep == AnnounceFirst \/ FirstSeesGo \/ FirstTakes \/ FirstGives \/ FirstSeesBack \/ FirstExits
SecondStep == AnnounceSecond \/ SecondSeesGo \/ SecondTakes \/ SecondGives \/ SecondExits

Finished == mpc \in Final /\ UNCHANGED vars

Next == MainStep \/ FirstStep \/ SecondStep \/ Finished

Spec == Init /\ [][Next]_vars

\* The scheduler runs every thread; a spinning thread does not stop another.
FairSpec == Spec /\ WF_vars(MainStep) /\ WF_vars(FirstStep) /\ WF_vars(SecondStep)

--------------------------------------------------------------------------------
TypeOK ==
  /\ mpc \in {"spawn-first", "spawn-second", "await", "join-first", "join-second"} \cup Final
  /\ fpc \in {"unborn", "announce", "spin", "take", "give", "back", "exited"}
  /\ spc \in {"unborn", "announce", "spin", "take", "give", "exited"}
  /\ ready \in 0 .. 2 /\ go \in BOOLEAN /\ turn \in {0, 1}
  /\ fround \in 0 .. Rounds /\ sround \in 0 .. Rounds
  /\ legs \in 0 .. 2 * Rounds
  /\ timedLegs \in {Untimed} \cup 0 .. 2 * Rounds

\* Neither thread overtakes the other: whatever the order of the spins, the
\* rounds of the two threads stay in step and `turn' says whose move it is.
RoundsInStep ==
  /\ fround <= sround /\ sround <= fround + 1
  /\ fpc = "give" => turn = 0 /\ sround = fround
  /\ spc = "give" => turn = 1 /\ sround = fround

\* The elapsed time that is divided by 2 * rounds holds exactly that many
\* handoffs, and the main thread reads it after it has been written.
AllLegsTimed ==
  /\ fpc = "exited" => timedLegs = 2 * Rounds
  /\ mpc = "returned" => timedLegs = legs /\ turn = 0

\* The probe implements the relay.
Token == INSTANCE Relay WITH
  side <- IF turn = 0 THEN "first" ELSE "second",
  figure <- CASE mpc = "returned" -> "published"
              [] mpc \in {"thrown", "terminated"} -> "withheld"
              [] OTHER -> "none"
ImplementsRelay == Token!Spec

\* The ping-pong ends: neither thread waits for ever for its turn.
Terminates == <>(mpc \in Final)
================================================================================
