----------------------------- MODULE HandoffProofs -----------------------------
(***************************************************************************)
(* Proofs about the two handoffs between two threads, through a shared     *)
(* word and through pipes, for every number of rounds.  The specifications *)
(* have no variable in common.                                             *)
(***************************************************************************)
EXTENDS TurnHandoff, PipeHandoff, TLAPS

--------------------------------------------------------------------------------
(* TurnHandoff *)

\* Handoffs the first thread has made: it counts a round when `turn' is back.
Given == IF fpc = "back" THEN fround + 1 ELSE fround

Waiting(pc) == pc \in {"unborn", "announce"}

\* Whose move it is, in terms of the handoffs made by each side.
TurnInv ==
  /\ turn = 0 => Given = sround
  /\ turn = 1 => Given = sround + 1
  /\ legs = Given + sround
  /\ fpc # "back" => turn = 0
  /\ fpc \in {"give", "back"} => fround < Rounds
  /\ spc = "give" => turn = 1

\* What a thread that has ended leaves behind, who is joined, who not yet born.
ExitInv ==
  /\ fpc = "exited" => fround = Rounds /\ timedLegs = 2 * Rounds
  /\ mpc \in {"join-second", "returned"} => fpc = "exited"
  /\ mpc = "returned" => spc = "exited"
  /\ mpc = "spawn-first" => fpc = "unborn"
  /\ mpc \in {"spawn-first", "spawn-second"} => spc = "unborn"

ReadyInv == ready = (IF Waiting(fpc) THEN 0 ELSE 1) + (IF Waiting(spc) THEN 0 ELSE 1)

IInv == TypeOK /\ TurnInv /\ ExitInv /\ ReadyInv

LEMMA InitIInv == Init => IInv
<1>. SUFFICES ASSUME Init PROVE IInv
  OBVIOUS
<1>1. TypeOK
  <2>1. 0 \in 0 .. Rounds /\ 0 \in 0 .. 2 * Rounds
    BY RoundsAssumption
  <2>2. timedLegs \in {Untimed} \cup 0 .. 2 * Rounds
    BY DEF Init
  <2>3. /\ mpc \in {"spawn-first", "spawn-second", "await", "join-first", "join-second"} \cup Final
        /\ go \in BOOLEAN /\ turn \in {0, 1}
    BY DEF Init
  <2>4. ready \in 0 .. 2 /\ fround \in 0 .. Rounds /\ sround \in 0 .. Rounds /\ legs \in 0 .. 2 * Rounds
    BY <2>1 DEF Init
  <2>. QED
    BY <2>2, <2>3, <2>4 DEF Init, TypeOK
<1>. QED
  BY <1>1 DEF Init, IInv, TurnInv, ExitInv, ReadyInv, Given, Waiting

LEMMA NextIInv == IInv /\ [Next]_vars => IInv'
<1>. SUFFICES ASSUME IInv, [Next]_vars PROVE IInv'
  OBVIOUS
<1>. USE RoundsAssumption DEF IInv, mainVars, Alive
<1>1. CASE SpawnFirst
  <2>1. TypeOK'
    BY <1>1 DEF SpawnFirst, TypeOK, TurnInv, ReadyInv, Given, Waiting, Final, Untimed
  <2>2. TurnInv'
    BY <1>1 DEF SpawnFirst, TypeOK, TurnInv, ExitInv, Given
  <2>3. ExitInv'
    BY <1>1 DEF SpawnFirst, TypeOK, TurnInv, ExitInv, Given
  <2>4. ReadyInv'
    BY <1>1 DEF SpawnFirst, TypeOK, ExitInv, ReadyInv, Waiting
  <2>. QED
    BY <2>1, <2>2, <2>3, <2>4
<1>2. CASE SpawnSecond
  <2>1. TypeOK'
    BY <1>2 DEF SpawnSecond, TypeOK, TurnInv, ReadyInv, Given, Waiting, Final, Untimed
  <2>2. TurnInv'
    BY <1>2 DEF SpawnSecond, TypeOK, TurnInv, ExitInv, Given
  <2>3. ExitInv'
    BY <1>2 DEF SpawnSecond, TypeOK, TurnInv, ExitInv, Given
  <2>4. ReadyInv'
    BY <1>2 DEF SpawnSecond, TypeOK, ExitInv, ReadyInv, Waiting
  <2>. QED
    BY <2>1, <2>2, <2>3, <2>4
<1>3. CASE SpawnFails
  <2>1. TypeOK'
    BY <1>3 DEF SpawnFails, TypeOK, TurnInv, ReadyInv, Given, Waiting, Final, Untimed
  <2>2. TurnInv'
    BY <1>3 DEF SpawnFails, TypeOK, TurnInv, ExitInv, Given
  <2>3. ExitInv'
    BY <1>3 DEF SpawnFails, TypeOK, TurnInv, ExitInv, Given
  <2>4. ReadyInv'
    BY <1>3 DEF SpawnFails, TypeOK, ExitInv, ReadyInv, Waiting
  <2>. QED
    BY <2>1, <2>2, <2>3, <2>4
<1>4. CASE SetGo
  <2>1. TypeOK'
    BY <1>4 DEF SetGo, TypeOK, TurnInv, ReadyInv, Given, Waiting, Final, Untimed
  <2>2. TurnInv'
    BY <1>4 DEF SetGo, TypeOK, TurnInv, ExitInv, Given
  <2>3. ExitInv'
    BY <1>4 DEF SetGo, TypeOK, TurnInv, ExitInv, Given
  <2>4. ReadyInv'
    BY <1>4 DEF SetGo, TypeOK, ExitInv, ReadyInv, Waiting
  <2>. QED
    BY <2>1, <2>2, <2>3, <2>4
<1>5. CASE JoinFirst
  <2>1. TypeOK'
    BY <1>5 DEF JoinFirst, TypeOK, TurnInv, ReadyInv, Given, Waiting, Final, Untimed
  <2>2. TurnInv'
    BY <1>5 DEF JoinFirst, TypeOK, TurnInv, ExitInv, Given
  <2>3. ExitInv'
    BY <1>5 DEF JoinFirst, TypeOK, TurnInv, ExitInv, Given
  <2>4. ReadyInv'
    BY <1>5 DEF JoinFirst, TypeOK, ExitInv, ReadyInv, Waiting
  <2>. QED
    BY <2>1, <2>2, <2>3, <2>4
<1>6. CASE JoinSecond
  <2>1. TypeOK'
    BY <1>6 DEF JoinSecond, TypeOK, TurnInv, ReadyInv, Given, Waiting, Final, Untimed
  <2>2. TurnInv'
    BY <1>6 DEF JoinSecond, TypeOK, TurnInv, ExitInv, Given
  <2>3. ExitInv'
    BY <1>6 DEF JoinSecond, TypeOK, TurnInv, ExitInv, Given
  <2>4. ReadyInv'
    BY <1>6 DEF JoinSecond, TypeOK, ExitInv, ReadyInv, Waiting
  <2>. QED
    BY <2>1, <2>2, <2>3, <2>4
<1>7. CASE AnnounceFirst
  <2>1. TypeOK'
    BY <1>7 DEF AnnounceFirst, TypeOK, TurnInv, ReadyInv, Given, Waiting, Final, Untimed
  <2>2. TurnInv'
    BY <1>7 DEF AnnounceFirst, TypeOK, TurnInv, ExitInv, Given
  <2>3. ExitInv'
    BY <1>7 DEF AnnounceFirst, TypeOK, TurnInv, ExitInv, Given
  <2>4. ReadyInv'
    BY <1>7 DEF AnnounceFirst, TypeOK, ExitInv, ReadyInv, Waiting
  <2>. QED
    BY <2>1, <2>2, <2>3, <2>4
<1>8. CASE FirstSeesGo
  <2>1. TypeOK'
    BY <1>8 DEF FirstSeesGo, TypeOK, TurnInv, ReadyInv, Given, Waiting, Final, Untimed
  <2>2. TurnInv'
    BY <1>8 DEF FirstSeesGo, TypeOK, TurnInv, ExitInv, Given
  <2>3. ExitInv'
    BY <1>8 DEF FirstSeesGo, TypeOK, TurnInv, ExitInv, Given
  <2>4. ReadyInv'
    BY <1>8 DEF FirstSeesGo, TypeOK, ExitInv, ReadyInv, Waiting
  <2>. QED
    BY <2>1, <2>2, <2>3, <2>4
<1>9. CASE FirstTakes
  <2>1. TypeOK'
    BY <1>9 DEF FirstTakes, TypeOK, TurnInv, ReadyInv, Given, Waiting, Final, Untimed
  <2>2. TurnInv'
    BY <1>9 DEF FirstTakes, TypeOK, TurnInv, ExitInv, Given
  <2>3. ExitInv'
    BY <1>9 DEF FirstTakes, TypeOK, TurnInv, ExitInv, Given
  <2>4. ReadyInv'
    BY <1>9 DEF FirstTakes, TypeOK, ExitInv, ReadyInv, Waiting
  <2>. QED
    BY <2>1, <2>2, <2>3, <2>4
<1>10. CASE FirstGives
  <2>1. TypeOK'
    BY <1>10 DEF FirstGives, TypeOK, TurnInv, ReadyInv, Given, Waiting, Final, Untimed
  <2>2. TurnInv'
    BY <1>10 DEF FirstGives, TypeOK, TurnInv, ExitInv, Given
  <2>3. ExitInv'
    BY <1>10 DEF FirstGives, TypeOK, TurnInv, ExitInv, Given
  <2>4. ReadyInv'
    BY <1>10 DEF FirstGives, TypeOK, ExitInv, ReadyInv, Waiting
  <2>. QED
    BY <2>1, <2>2, <2>3, <2>4
<1>11. CASE FirstSeesBack
  <2>1. TypeOK'
    BY <1>11 DEF FirstSeesBack, TypeOK, TurnInv, ReadyInv, Given, Waiting, Final, Untimed
  <2>2. TurnInv'
    BY <1>11 DEF FirstSeesBack, TypeOK, TurnInv, ExitInv, Given
  <2>3. ExitInv'
    BY <1>11 DEF FirstSeesBack, TypeOK, TurnInv, ExitInv, Given
  <2>4. ReadyInv'
    BY <1>11 DEF FirstSeesBack, TypeOK, ExitInv, ReadyInv, Waiting
  <2>. QED
    BY <2>1, <2>2, <2>3, <2>4
<1>12. CASE FirstExits
  <2>1. TypeOK'
    BY <1>12 DEF FirstExits, TypeOK, TurnInv, ReadyInv, Given, Waiting, Final, Untimed
  <2>2. TurnInv'
    BY <1>12 DEF FirstExits, TypeOK, TurnInv, ExitInv, Given
  <2>3. ExitInv'
    BY <1>12 DEF FirstExits, TypeOK, TurnInv, ExitInv, Given
  <2>4. ReadyInv'
    BY <1>12 DEF FirstExits, TypeOK, ExitInv, ReadyInv, Waiting
  <2>. QED
    BY <2>1, <2>2, <2>3, <2>4
<1>13. CASE AnnounceSecond
  <2>1. TypeOK'
    BY <1>13 DEF AnnounceSecond, TypeOK, TurnInv, ReadyInv, Given, Waiting, Final, Untimed
  <2>2. TurnInv'
    BY <1>13 DEF AnnounceSecond, TypeOK, TurnInv, ExitInv, Given
  <2>3. ExitInv'
    BY <1>13 DEF AnnounceSecond, TypeOK, TurnInv, ExitInv, Given
  <2>4. ReadyInv'
    BY <1>13 DEF AnnounceSecond, TypeOK, ExitInv, ReadyInv, Waiting
  <2>. QED
    BY <2>1, <2>2, <2>3, <2>4
<1>14. CASE SecondSeesGo
  <2>1. TypeOK'
    BY <1>14 DEF SecondSeesGo, TypeOK, TurnInv, ReadyInv, Given, Waiting, Final, Untimed
  <2>2. TurnInv'
    BY <1>14 DEF SecondSeesGo, TypeOK, TurnInv, ExitInv, Given
  <2>3. ExitInv'
    BY <1>14 DEF SecondSeesGo, TypeOK, TurnInv, ExitInv, Given
  <2>4. ReadyInv'
    BY <1>14 DEF SecondSeesGo, TypeOK, ExitInv, ReadyInv, Waiting
  <2>. QED
    BY <2>1, <2>2, <2>3, <2>4
<1>15. CASE SecondTakes
  <2>1. TypeOK'
    BY <1>15 DEF SecondTakes, TypeOK, TurnInv, ReadyInv, Given, Waiting, Final, Untimed
  <2>2. TurnInv'
    BY <1>15 DEF SecondTakes, TypeOK, TurnInv, ExitInv, Given
  <2>3. ExitInv'
    BY <1>15 DEF SecondTakes, TypeOK, TurnInv, ExitInv, Given
  <2>4. ReadyInv'
    BY <1>15 DEF SecondTakes, TypeOK, ExitInv, ReadyInv, Waiting
  <2>. QED
    BY <2>1, <2>2, <2>3, <2>4
<1>16. CASE SecondGives
  <2>1. TypeOK'
    BY <1>16 DEF SecondGives, TypeOK, TurnInv, ReadyInv, Given, Waiting, Final, Untimed
  <2>2. TurnInv'
    BY <1>16 DEF SecondGives, TypeOK, TurnInv, ExitInv, Given
  <2>3. ExitInv'
    BY <1>16 DEF SecondGives, TypeOK, TurnInv, ExitInv, Given
  <2>4. ReadyInv'
    BY <1>16 DEF SecondGives, TypeOK, ExitInv, ReadyInv, Waiting
  <2>. QED
    BY <2>1, <2>2, <2>3, <2>4
<1>17. CASE SecondExits
  <2>1. TypeOK'
    BY <1>17 DEF SecondExits, TypeOK, TurnInv, ReadyInv, Given, Waiting, Final, Untimed
  <2>2. TurnInv'
    BY <1>17 DEF SecondExits, TypeOK, TurnInv, ExitInv, Given
  <2>3. ExitInv'
    BY <1>17 DEF SecondExits, TypeOK, TurnInv, ExitInv, Given
  <2>4. ReadyInv'
    BY <1>17 DEF SecondExits, TypeOK, ExitInv, ReadyInv, Waiting
  <2>. QED
    BY <2>1, <2>2, <2>3, <2>4
<1>18. CASE UNCHANGED vars
  BY <1>18 DEF vars, TypeOK, TurnInv, ExitInv, ReadyInv, Given, Waiting
<1>. QED
  BY <1>1, <1>2, <1>3, <1>4, <1>5, <1>6, <1>7, <1>8, <1>9, <1>10, <1>11, <1>12, <1>13, <1>14, <1>15, <1>16, <1>17, <1>18
     DEF Next, MainStep, FirstStep, SecondStep, Finished

\* The inductive invariant holds for every number of rounds.
THEOREM IInvHolds == Spec => []IInv
BY InitIInv, NextIInv, PTL DEF Spec

\* The loop variables stay within the rounds, the handoffs within twice that.
THEOREM TypeCorrect == Spec => []TypeOK
<1>1. IInv => TypeOK
  BY DEF IInv
<1>. QED
  BY <1>1, IInvHolds, PTL

\* The two threads of ping_pong_latency stay in step for any rounds.
THEOREM StepForStep == Spec => []RoundsInStep
<1>1. IInv => RoundsInStep
  BY DEF IInv, TypeOK, TurnInv, RoundsInStep, Given
<1>. QED
  BY <1>1, IInvHolds, PTL

\* The elapsed time ping_pong_latency divides by 2 * rounds holds 2 * rounds legs.
THEOREM EveryLegTimed == Spec => []AllLegsTimed
<1>1. IInv => AllLegsTimed
  BY RoundsAssumption DEF IInv, TypeOK, TurnInv, ExitInv, AllLegsTimed, Given
<1>. QED
  BY <1>1, IInvHolds, PTL

\* ping_pong_latency implements the relay of one token.
THEOREM RelayImplemented == Spec => ImplementsRelay
<1>1. Init => Token!Init
  BY DEF Init, Token!Init
<1>2. IInv /\ IInv' /\ [Next]_vars => [Token!Next]_(Token!relayVars)
  <2>. SUFFICES ASSUME IInv, IInv', [Next]_vars
                PROVE  Token!Next \/ UNCHANGED Token!relayVars
    BY DEF Token!relayVars
  <2>. USE DEF Token!relayVars, mainVars, Alive
  <2>1. CASE FirstGives \/ SecondGives
    <3>1. turn' # turn /\ turn \in {0, 1} /\ turn' \in {0, 1} /\ mpc' = mpc
      BY <2>1 DEF FirstGives, SecondGives, IInv, TypeOK, TurnInv
    <3>2. legs' = legs + 1 /\ legs < 2 * Rounds
      BY <2>1, RoundsAssumption DEF FirstGives, SecondGives, IInv, TypeOK
    <3>3. Token!Pass
      BY <3>1, <3>2 DEF Token!Pass
    <3>. QED
      BY <3>3 DEF Token!Next
  <2>2. CASE JoinSecond
    <3>1. turn = 0 /\ legs = 2 * Rounds
      BY <2>2, RoundsAssumption
         DEF JoinSecond, IInv, TypeOK, TurnInv, ExitInv, Given
    <3>2. Token!Publish
      BY <2>2, <3>1 DEF JoinSecond, Token!Publish
    <3>. QED
      BY <3>2 DEF Token!Next
  <2>3. CASE SpawnFails
    BY <2>3 DEF SpawnFails, Token!Withhold, Token!Next
  <2>4. CASE SpawnFirst \/ SpawnSecond \/ SetGo \/ JoinFirst
    BY <2>4 DEF SpawnFirst, SpawnSecond, SetGo, JoinFirst
  <2>5. CASE AnnounceFirst \/ FirstSeesGo \/ FirstTakes \/ FirstSeesBack \/ FirstExits
    BY <2>5 DEF AnnounceFirst, FirstSeesGo, FirstTakes, FirstSeesBack, FirstExits
  <2>6. CASE AnnounceSecond \/ SecondSeesGo \/ SecondTakes \/ SecondExits
    BY <2>6 DEF AnnounceSecond, SecondSeesGo, SecondTakes, SecondExits
  <2>7. CASE UNCHANGED vars
    BY <2>7 DEF vars
  <2>. QED
    BY <2>1, <2>2, <2>3, <2>4, <2>5, <2>6, <2>7
       DEF Next, MainStep, FirstStep, SecondStep, Finished
<1>. QED
  BY <1>1, <1>2, IInvHolds, PTL DEF Spec, ImplementsRelay, Token!Spec

--------------------------------------------------------------------------------
(* PipeHandoff *)

\* The one token: a byte in a pipe, or read by the second thread and not yet
\* written back.
Tokens == toSecond + toFirst + (IF second = "write" THEN 1 ELSE 0)

\* A round trip moves one token.  Main has it whenever it is not waiting for it,
\* unless a failure of its own has made it leave.
TokenInv ==
  /\ Tokens <= 1
  /\ main # "read" /\ ioOk => Tokens = 0
  /\ toFirst = secondRound - mainRound

\* How far the loops are, in terms of where the threads are.
RoundInv ==
  /\ main = "read" => mainRound < Trips
  /\ main = "join" /\ ioOk => mainRound = Trips
  /\ second = "write" => secondRound < Trips
  /\ second = "exited" /\ ~failed => secondRound = Trips

\* Who can have failed: main, and knows, or the second thread before its last
\* round was made.
FailureInv ==
  /\ ~ioOk => failed /\ main \in {"join", "returned"}
  /\ failed /\ ioOk => second = "exited" /\ secondRound < Trips
  /\ emitted => ioOk /\ main = "returned" /\ mainRound = Trips

\* The second thread lives between its creation and the join, the descriptors
\* from before the one until after the other.
LifeInv ==
  /\ main \in {"create", "spawn", "thrown"} => second = "unborn"
  /\ main = "returned" => second \in {"unborn", "exited"}
  /\ main \in {"spawn", "await", "loop", "read", "join"} => fds

PipeIInv == PipeTypeOK /\ TokenInv /\ RoundInv /\ FailureInv /\ LifeInv

LEMMA PipeInitIInv == PipeInit => PipeIInv
<1>. SUFFICES ASSUME PipeInit PROVE PipeIInv
  OBVIOUS
<1>1. PipeTypeOK
  <2>1. main = "create" /\ second = "unborn" /\ 0 \in 0 .. Trips
    BY TripsAssumption DEF PipeInit
  <2>2. secondReady \in BOOLEAN /\ fds \in BOOLEAN /\ ioOk \in BOOLEAN
          /\ failed \in BOOLEAN /\ emitted \in BOOLEAN
    BY DEF PipeInit
  <2>. QED
    BY <2>1, <2>2 DEF PipeInit, PipeTypeOK
<1>2. TokenInv /\ RoundInv
  BY DEF PipeInit, TokenInv, Tokens, RoundInv
<1>3. FailureInv /\ LifeInv
  BY DEF PipeInit, FailureInv, LifeInv
<1>. QED
  BY <1>1, <1>2, <1>3 DEF PipeIInv

LEMMA PipeNextIInv == PipeIInv /\ [PipeNext]_pipeVars => PipeIInv'
<1>. SUFFICES ASSUME PipeIInv, [PipeNext]_pipeVars PROVE PipeIInv'
  OBVIOUS
<1>. USE TripsAssumption DEF PipeIInv, PipeTypeOK, Ended, pipes
<1>1. CASE CreatePipes
  <2>1. PipeTypeOK'
    BY <1>1 DEF CreatePipes, TokenInv, Tokens
  <2>2. TokenInv'
    BY <1>1 DEF CreatePipes, TokenInv, Tokens, FailureInv, RoundInv
  <2>3. RoundInv'
    BY <1>1 DEF CreatePipes, RoundInv, TokenInv, Tokens, FailureInv
  <2>4. FailureInv'
    BY <1>1 DEF CreatePipes, FailureInv, RoundInv, TokenInv, Tokens, LifeInv
  <2>5. LifeInv'
    BY <1>1 DEF CreatePipes, LifeInv
  <2>. QED
    BY <2>1, <2>2, <2>3, <2>4, <2>5
<1>2. CASE PipesFail
  <2>1. PipeTypeOK'
    BY <1>2 DEF PipesFail, TokenInv, Tokens
  <2>2. TokenInv'
    BY <1>2 DEF PipesFail, TokenInv, Tokens, FailureInv, RoundInv
  <2>3. RoundInv'
    BY <1>2 DEF PipesFail, RoundInv, TokenInv, Tokens, FailureInv
  <2>4. FailureInv'
    BY <1>2 DEF PipesFail, FailureInv, RoundInv, TokenInv, Tokens, LifeInv
  <2>5. LifeInv'
    BY <1>2 DEF PipesFail, LifeInv
  <2>. QED
    BY <2>1, <2>2, <2>3, <2>4, <2>5
<1>3. CASE Spawn
  <2>1. PipeTypeOK'
    BY <1>3 DEF Spawn, TokenInv, Tokens
  <2>2. TokenInv'
    BY <1>3 DEF Spawn, TokenInv, Tokens, FailureInv, RoundInv
  <2>3. RoundInv'
    BY <1>3 DEF Spawn, RoundInv, TokenInv, Tokens, FailureInv
  <2>4. FailureInv'
    BY <1>3 DEF Spawn, FailureInv, RoundInv, TokenInv, Tokens, LifeInv
  <2>5. LifeInv'
    BY <1>3 DEF Spawn, LifeInv
  <2>. QED
    BY <2>1, <2>2, <2>3, <2>4, <2>5
<1>4. CASE NoThread
  <2>1. PipeTypeOK'
    BY <1>4 DEF NoThread, TokenInv, Tokens
  <2>2. TokenInv'
    BY <1>4 DEF NoThread, TokenInv, Tokens, FailureInv, RoundInv
  <2>3. RoundInv'
    BY <1>4 DEF NoThread, RoundInv, TokenInv, Tokens, FailureInv
  <2>4. FailureInv'
    BY <1>4 DEF NoThread, FailureInv, RoundInv, TokenInv, Tokens, LifeInv
  <2>5. LifeInv'
    BY <1>4 DEF NoThread, LifeInv
  <2>. QED
    BY <2>1, <2>2, <2>3, <2>4, <2>5
<1>5. CASE SeeReady
  <2>1. PipeTypeOK'
    BY <1>5 DEF SeeReady, TokenInv, Tokens
  <2>2. TokenInv'
    BY <1>5 DEF SeeReady, TokenInv, Tokens, FailureInv, RoundInv
  <2>3. RoundInv'
    BY <1>5 DEF SeeReady, RoundInv, TokenInv, Tokens, FailureInv
  <2>4. FailureInv'
    BY <1>5 DEF SeeReady, FailureInv, RoundInv, TokenInv, Tokens, LifeInv
  <2>5. LifeInv'
    BY <1>5 DEF SeeReady, LifeInv
  <2>. QED
    BY <2>1, <2>2, <2>3, <2>4, <2>5
<1>6. CASE MainWrites
  <2>1. PipeTypeOK'
    BY <1>6 DEF MainWrites, TokenInv, Tokens, FailureInv
  <2>2. TokenInv'
    BY <1>6 DEF MainWrites, TokenInv, Tokens, FailureInv, RoundInv
  <2>3. RoundInv'
    BY <1>6 DEF MainWrites, RoundInv, TokenInv, Tokens, FailureInv
  <2>4. FailureInv'
    BY <1>6 DEF MainWrites, FailureInv, RoundInv, TokenInv, Tokens, LifeInv
  <2>5. LifeInv'
    BY <1>6 DEF MainWrites, LifeInv
  <2>. QED
    BY <2>1, <2>2, <2>3, <2>4, <2>5
<1>7. CASE MainReads
  <2>1. PipeTypeOK'
    BY <1>7 DEF MainReads, TokenInv, Tokens
  <2>2. TokenInv'
    BY <1>7 DEF MainReads, TokenInv, Tokens, FailureInv, RoundInv
  <2>3. RoundInv'
    BY <1>7 DEF MainReads, RoundInv, TokenInv, Tokens, FailureInv
  <2>4. FailureInv'
    BY <1>7 DEF MainReads, FailureInv, RoundInv, TokenInv, Tokens, LifeInv
  <2>5. LifeInv'
    BY <1>7 DEF MainReads, LifeInv
  <2>. QED
    BY <2>1, <2>2, <2>3, <2>4, <2>5
<1>8. CASE MainIoFails
  <2>1. PipeTypeOK'
    BY <1>8 DEF MainIoFails, TokenInv, Tokens
  <2>2. TokenInv'
    BY <1>8 DEF MainIoFails, TokenInv, Tokens, FailureInv, RoundInv
  <2>3. RoundInv'
    BY <1>8 DEF MainIoFails, RoundInv, TokenInv, Tokens, FailureInv
  <2>4. FailureInv'
    BY <1>8 DEF MainIoFails, FailureInv, RoundInv, TokenInv, Tokens, LifeInv
  <2>5. LifeInv'
    BY <1>8 DEF MainIoFails, LifeInv
  <2>. QED
    BY <2>1, <2>2, <2>3, <2>4, <2>5
<1>9. CASE MainLeavesLoop
  <2>1. PipeTypeOK'
    BY <1>9 DEF MainLeavesLoop, TokenInv, Tokens
  <2>2. TokenInv'
    BY <1>9 DEF MainLeavesLoop, TokenInv, Tokens, FailureInv, RoundInv
  <2>3. RoundInv'
    BY <1>9 DEF MainLeavesLoop, RoundInv, TokenInv, Tokens, FailureInv
  <2>4. FailureInv'
    BY <1>9 DEF MainLeavesLoop, FailureInv, RoundInv, TokenInv, Tokens, LifeInv
  <2>5. LifeInv'
    BY <1>9 DEF MainLeavesLoop, LifeInv
  <2>. QED
    BY <2>1, <2>2, <2>3, <2>4, <2>5
<1>10. CASE JoinAndClose
  <2>1. PipeTypeOK'
    BY <1>10 DEF JoinAndClose, TokenInv, Tokens
  <2>2. TokenInv'
    BY <1>10 DEF JoinAndClose, TokenInv, Tokens, FailureInv, RoundInv
  <2>3. RoundInv'
    BY <1>10 DEF JoinAndClose, RoundInv, TokenInv, Tokens, FailureInv
  <2>4. FailureInv'
    BY <1>10 DEF JoinAndClose, FailureInv, RoundInv, TokenInv, Tokens, LifeInv
  <2>5. LifeInv'
    BY <1>10 DEF JoinAndClose, LifeInv
  <2>. QED
    BY <2>1, <2>2, <2>3, <2>4, <2>5
<1>11. CASE SetReady
  <2>1. PipeTypeOK'
    BY <1>11 DEF SetReady, TokenInv, Tokens
  <2>2. TokenInv'
    BY <1>11 DEF SetReady, TokenInv, Tokens, FailureInv, RoundInv
  <2>3. RoundInv'
    BY <1>11 DEF SetReady, RoundInv, TokenInv, Tokens, FailureInv
  <2>4. FailureInv'
    BY <1>11 DEF SetReady, FailureInv, RoundInv, TokenInv, Tokens, LifeInv
  <2>5. LifeInv'
    BY <1>11 DEF SetReady, LifeInv
  <2>. QED
    BY <2>1, <2>2, <2>3, <2>4, <2>5
<1>12. CASE SecondReads
  <2>1. PipeTypeOK'
    BY <1>12 DEF SecondReads, TokenInv, Tokens
  <2>2. TokenInv'
    BY <1>12 DEF SecondReads, TokenInv, Tokens, FailureInv, RoundInv
  <2>3. RoundInv'
    BY <1>12 DEF SecondReads, RoundInv, TokenInv, Tokens, FailureInv
  <2>4. FailureInv'
    BY <1>12 DEF SecondReads, FailureInv, RoundInv, TokenInv, Tokens, LifeInv
  <2>5. LifeInv'
    BY <1>12 DEF SecondReads, LifeInv
  <2>. QED
    BY <2>1, <2>2, <2>3, <2>4, <2>5
<1>13. CASE SecondWrites
  <2>1. PipeTypeOK'
    BY <1>13 DEF SecondWrites, TokenInv, Tokens, RoundInv
  <2>2. TokenInv'
    BY <1>13 DEF SecondWrites, TokenInv, Tokens, FailureInv, RoundInv
  <2>3. RoundInv'
    BY <1>13 DEF SecondWrites, RoundInv, TokenInv, Tokens, FailureInv
  <2>4. FailureInv'
    BY <1>13 DEF SecondWrites, FailureInv, RoundInv, TokenInv, Tokens, LifeInv
  <2>5. LifeInv'
    BY <1>13 DEF SecondWrites, LifeInv
  <2>. QED
    BY <2>1, <2>2, <2>3, <2>4, <2>5
<1>14. CASE SecondIoFails
  <2>1. PipeTypeOK'
    BY <1>14 DEF SecondIoFails, TokenInv, Tokens
  <2>2. TokenInv'
    BY <1>14 DEF SecondIoFails, TokenInv, Tokens, FailureInv, RoundInv
  <2>3. RoundInv'
    BY <1>14 DEF SecondIoFails, RoundInv, TokenInv, Tokens, FailureInv
  <2>4. FailureInv'
    BY <1>14 DEF SecondIoFails, FailureInv, RoundInv, TokenInv, Tokens, LifeInv
  <2>5. LifeInv'
    BY <1>14 DEF SecondIoFails, LifeInv
  <2>. QED
    BY <2>1, <2>2, <2>3, <2>4, <2>5
<1>15. CASE SecondReturns
  <2>1. PipeTypeOK'
    BY <1>15 DEF SecondReturns, TokenInv, Tokens
  <2>2. TokenInv'
    BY <1>15 DEF SecondReturns, TokenInv, Tokens, FailureInv, RoundInv
  <2>3. RoundInv'
    BY <1>15 DEF SecondReturns, RoundInv, TokenInv, Tokens, FailureInv
  <2>4. FailureInv'
    BY <1>15 DEF SecondReturns, FailureInv, RoundInv, TokenInv, Tokens, LifeInv
  <2>5. LifeInv'
    BY <1>15 DEF SecondReturns, LifeInv
  <2>. QED
    BY <2>1, <2>2, <2>3, <2>4, <2>5
<1>16. CASE UNCHANGED pipeVars
  BY <1>16 DEF pipeVars, TokenInv, Tokens, RoundInv, FailureInv, LifeInv
<1>. QED
  BY <1>1, <1>2, <1>3, <1>4, <1>5, <1>6, <1>7, <1>8, <1>9, <1>10, <1>11, <1>12, <1>13, <1>14, <1>15, <1>16
     DEF PipeNext, MainPipeStep, SecondPipeStep, IoFailure, HandoffOver, StaysHung

\* The inductive invariant holds for every number of rounds, wherever a read or
\* a write fails.
THEOREM PipeIInvHolds == PipeSpec => []PipeIInv
BY PipeInitIInv, PipeNextIInv, PTL DEF PipeSpec

\* The loop variables stay within the rounds; neither pipe of os_overheads.cpp
\* ever holds more than one byte.
THEOREM PipeTypeCorrect == PipeSpec => []PipeTypeOK
<1>1. PipeIInv => PipeTypeOK
  BY DEF PipeIInv
<1>. QED
  BY <1>1, PipeIInvHolds, PTL

\* The pipe descriptors are closed behind the join, when no thread uses them.
THEOREM DescriptorsOutliveUse == PipeSpec => []DescriptorsOpenWhileUsed
<1>1. PipeIInv => DescriptorsOpenWhileUsed
  BY DEF PipeIInv, PipeTypeOK, Ended, LifeInv, DescriptorsOpenWhileUsed
<1>. QED
  BY <1>1, PipeIInvHolds, PTL

\* The handoff figure is over all rounds, although io_ok knows nothing of the
\* second thread: its failure is one that main cannot pass by.
THEOREM OnlyCompleteIsPublished == PipeSpec => []PublishedOnlyIfComplete
<1>1. PipeIInv => PublishedOnlyIfComplete
  <2>. SUFFICES ASSUME PipeIInv, emitted PROVE ~failed /\ mainRound = Trips
                                           /\ secondRound = Trips /\ toSecond + toFirst = 0
    BY DEF PublishedOnlyIfComplete
  <2>. USE TripsAssumption DEF PipeIInv, PipeTypeOK
  <2>1. ioOk /\ main = "returned" /\ mainRound = Trips
    BY DEF FailureInv
  <2>2. toSecond = 0 /\ toFirst = 0 /\ secondRound = Trips
    BY <2>1 DEF TokenInv, Tokens
  <2>3. ~failed
    BY <2>1, <2>2 DEF FailureInv
  <2>. QED
    BY <2>1, <2>2, <2>3
<1>. QED
  BY <1>1, PipeIInvHolds, PTL

\* What `Terminates' rests on.
HungOnlyAfterFailure == Hung => failed

\* A thread sits in a read that is never answered only after a read or a write
\* has failed, for every number of rounds.
THEOREM NoHangByItself == PipeSpec => []HungOnlyAfterFailure
<1>1. PipeIInv => HungOnlyAfterFailure
  <2>. SUFFICES ASSUME PipeIInv, ~failed, Hung PROVE FALSE
    BY DEF HungOnlyAfterFailure
  <2>. USE TripsAssumption DEF PipeIInv, PipeTypeOK, TokenInv, Tokens, RoundInv, FailureInv
  <2>1. CASE main = "read" /\ toFirst = 0 /\ second = "exited"
    BY <2>1
  <2>2. CASE main = "join" /\ second = "read" /\ secondRound < Trips /\ toSecond = 0
    BY <2>2
  <2>. QED
    BY <2>1, <2>2 DEF Hung
<1>. QED
  BY <1>1, PipeIInvHolds, PTL
================================================================================
