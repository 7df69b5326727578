--------------------------------- MODULE Relay ---------------------------------
(***************************************************************************)
(* What a handoff latency stands for: one token goes from the first party  *)
(* to the second and back, Rounds times, and the elapsed time is divided   *)
(* by the 2 * Rounds legs it holds.  A figure over fewer legs, or over a   *)
(* token that is not back home, is never published.                        *)
(***************************************************************************)
EXTENDS Naturals

CONSTANT Rounds

VARIABLES side, legs, figure

relayVars == <<side, legs, figure>>

Init == side = "first" /\ legs = 0 /\ figure = "none"

\* The token is handed over.
Pass ==
  /\ legs < 2 * Rounds
  /\ side' = IF side = "first" THEN "second" ELSE "first"
  /\ legs' = legs + 1
  /\ UNCHANGED figure

Publish ==
  /\ figure = "none" /\ side = "first" /\ legs = 2 * Rounds
  /\ figure' = "published"
  /\ UNCHANGED <<side, legs>>

\* The probe gives up; what is left of the relay no longer matters.
Withhold ==
  /\ figure = "none"
  /\ figure' = "withheld"
  /\ UNCHANGED <<side, legs>>

Next == Pass \/ Publish \/ Withhold

Spec == Init /\ [][Next]_relayVars
================================================================================
