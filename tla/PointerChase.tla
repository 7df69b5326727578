------------------------------ MODULE PointerChase ------------------------------
(***************************************************************************)
(* native/support/pointer_chase.hpp: a chain of pointers is laid over a    *)
(* buffer in random order and then followed, one dependent load after the  *)
(* other.  A pointer is an offset of W bits (uint32_t in the code).        *)
(*   "lines"  build_random_chain, one pointer in each stride of the buffer *)
(*   "pages"  build_random_page_chain, one pointer in each base page, the  *)
(*            cache line in the page rotating with the page number         *)
(***************************************************************************)
EXTENDS Integers

CONSTANTS
  Kinds,      \* the builders a run looks at
  Points,     \* pointers in the chain
  Stride,     \* bytes from one to the next: stride, page_size
  Spread,     \* cache lines of a page that are used in turn: set_spread
  Line,       \* bytes of a cache line
  Modulus     \* offsets a pointer can hold: 2^32

ASSUME ChaseAssumption ==
  /\ Kinds \subseteq {"lines", "pages"}
  /\ Points \in Nat /\ Points >= 2
  /\ Stride \in Nat \ {0} /\ Spread \in Nat \ {0} /\ Line \in Nat \ {0}
  /\ Spread * Line <= Stride
  /\ Modulus \in Nat \ {0}

Point == 0 .. Points - 1
Addresses == 0 .. Points * Stride - 1
Trunc(x) == x % Modulus

VARIABLES
  kind,       \* the builder
  order,      \* the shuffled points
  built,      \* pointers stored so far
  cell,       \* what the buffer holds at each address; fresh pages hold 0
  current,    \* where the chase is
  steps,      \* loads made so far
  visited     \* history: addresses loaded from

vars == <<kind, order, built, cell, current, steps, visited>>

\* Where point p has its pointer, as size_t arithmetic has it.
Place(p) == IF kind = "pages" THEN p * Stride + (p % Spread) * Line ELSE p * Stride

\* The page builder keeps its addresses in uint32_t; the other one truncates
\* only the offset it stores.
Here(p) == IF kind = "pages" THEN Trunc(Place(p)) ELSE Place(p)
Offset(p) == Trunc(Place(p))

\* Mutant: the last point is not linked to the first.
Successor_Open(i) == order[IF i + 1 < Points THEN i + 1 ELSE i]

\* The point after the i-th: the last is linked to the first.
Successor(i) == order[(i + 1) % Points]

Init ==
  /\ kind \in Kinds
  /\ order \in {o \in [Point -> Point] : \A p \in Point : \E i \in Point : o[i] = p}
  /\ built = 0
  /\ cell = [a \in Addresses |-> 0]
  /\ current = 0 /\ steps = 0 /\ visited = {}

\* One turn of the builder's loop.
Store ==
  /\ built < Points
  /\ cell' = [cell EXCEPT ![Here(order[built])] = Offset(Successor(built))]
  /\ built' = built + 1
  /\ UNCHANGED <<kind, order, current, steps, visited>>

\* One turn of chase_chain's loop, up to two rounds of the ring.
Load ==
  /\ built = Points /\ steps < 2 * Points
  /\ current' = cell[current]
  /\ visited' = visited \cup {current}
  /\ steps' = steps + 1
  /\ UNCHANGED <<kind, order, built, cell>>

ChaseOver == steps = 2 * Points /\ UNCHANGED vars

Next == Store \/ Load \/ ChaseOver

Spec == Init /\ [][Next]_vars

--------------------------------------------------------------------------------
TypeOK ==
  /\ kind \in Kinds
  /\ order \in [Point -> Point]
  /\ built \in 0 .. Points
  /\ cell \in [Addresses -> Addresses]
  /\ visited \subseteq Addresses
  /\ current \in Addresses
  /\ steps \in 0 .. 2 * Points

\* The buffer lies within what a pointer can hold.
Fits == Points * Stride <= Modulus

\* The chain is one ring through all points: the chase comes back to where it
\* began after Points loads, and not before it has loaded every pointer once.
\* A shorter ring would turn a memory latency into a cache latency.
\* It holds as long as the chain lies within what a pointer can hold.
SingleRing ==
  Fits =>
    /\ steps \in {Points, 2 * Points} =>
         current = 0 /\ visited = {Place(p) : p \in Point}
    /\ steps \in 1 .. Points - 1 => current \notin visited

\* METRICS.md:58: there is a pointer in each base page, and a round of the chain
\* takes in all of them, however many there are.
EveryPageChased == steps = Points => visited = {Place(p) : p \in Point}
================================================================================
