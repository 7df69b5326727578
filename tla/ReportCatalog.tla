------------------------------ MODULE ReportCatalog ------------------------------
(***************************************************************************)
(* What the report repository promises to a browser: the answer to a       *)
(* request is a picture of the reports as they were while it was at work.  *)
(* Of a report that changes meanwhile it may show any of the contents the  *)
(* report had, or leave it out; of one that does not, exactly that one.    *)
(***************************************************************************)
EXTENDS FiniteSets

CONSTANTS
  Paths,       \* places of reports
  Requests,    \* requests
  Generations, \* contents
  Shape(_)     \* "report" for a content that is one

VARIABLES
  contents,   \* contents[p]: at most one complete content
  blurred,    \* places with two contents that stat could not tell apart
  phase,      \* "idle", "asked", "answered", "broken"
  asks,       \* asks[r]: the places a request is about
  answer,     \* answer[r]: a set of [path, gen]
  during,     \* during[r]: the contents seen since r was asked
  steady      \* steady[r]: the places of valid reports untouched since then

vars == <<contents, blurred, phase, asks, answer, during, steady>>

Shown == UNION {{[path |-> p, gen |-> g] : g \in contents[p]} : p \in Paths}
Valid == {p \in Paths : \E g \in contents[p] : Shape(g) = "report"}

Init ==
  /\ contents = [p \in Paths |-> {}] /\ blurred = {}
  /\ phase = [r \in Requests |-> "idle"]
  /\ asks \in [Requests -> SUBSET Paths]
  /\ answer = [r \in Requests |-> {}]
  /\ during = [r \in Requests |-> {}]
  /\ steady = [r \in Requests |-> {}]

\* Somebody writes to a place, or clears it.
Disturb(p, gs) ==
  /\ contents' = [contents EXCEPT ![p] = gs]
  /\ blurred \subseteq blurred' /\ blurred' \subseteq blurred \cup {p}
  /\ during' = [r \in Requests |->
       during[r] \cup (IF phase[r] = "asked" THEN {[path |-> p, gen |-> g] : g \in gs} ELSE {})]
  /\ steady' = [r \in Requests |-> steady[r] \ {p}]
  /\ UNCHANGED <<phase, asks, answer>>

\* A request about one place that is empty is answered on the spot.
Ask(r, ps) ==
  /\ phase[r] = "idle"
  /\ asks' = [asks EXCEPT ![r] = ps]
  /\ during' = [during EXCEPT ![r] = Shown]
  /\ steady' = [steady EXCEPT ![r] = Valid]
  /\ \/ phase' = [phase EXCEPT ![r] = "asked"]
     \/ (ps \cap Valid) = {} /\ phase' = [phase EXCEPT ![r] = "answered"]
  /\ UNCHANGED <<contents, blurred, answer>>

\* The answer, in one step.
Answer(r, a) ==
  /\ phase[r] = "asked"
  /\ \A x, y \in a : x.path = y.path => x = y
  /\ \A x \in a : x.path \in asks[r] /\ (x \in during[r] \/ x.path \in blurred)
  /\ steady[r] \cap asks[r] \subseteq {x.path : x \in a}
  /\ answer' = [answer EXCEPT ![r] = a]
  /\ phase' = [phase EXCEPT ![r] = "answered"]
  /\ UNCHANGED <<contents, blurred, asks, during, steady>>

\* A file of JSON that is no report ends a request without an answer.
Break(r) ==
  /\ phase[r] = "asked"
  /\ \E x \in during[r] : Shape(x.gen) # "report"
  /\ phase' = [phase EXCEPT ![r] = "broken"]
  /\ UNCHANGED <<contents, blurred, asks, answer, during, steady>>

Next ==
  \/ \E p \in Paths, g \in Generations : Disturb(p, {g}) \/ Disturb(p, {})
  \/ \E r \in Requests : Break(r) \/ Answer(r, answer'[r])
  \/ \E r \in Requests : \E ps \in {Paths} \cup {{p} : p \in Paths} : Ask(r, ps)

Spec == Init /\ [][Next]_vars
================================================================================
