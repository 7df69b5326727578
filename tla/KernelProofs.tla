------------------------------ MODULE KernelProofs ------------------------------
(***************************************************************************)
(* The theorems about the two kernels that are built in memory and then    *)
(* walked through: the pointer chase and the generated code.               *)
(***************************************************************************)
EXTENDS PointerChase, GeneratedCode, FiniteSetTheorems, SequenceTheorems,
        WellFoundedInduction, TLAPS

--------------------------------------------------------------------------------
(* Arithmetic. *)

\* A product grows with each of its factors.
LEMMA ProductGrows ==
  ASSUME NEW a \in Nat, NEW b \in Nat, NEW c \in Nat, a <= b
  PROVE  a * c \in Nat /\ b * c \in Nat /\ a * c <= b * c
OBVIOUS

LEMMA Remainders ==
  ASSUME NEW n \in Nat \ {0}
  PROVE  /\ \A x \in Nat : x % n \in 0 .. n - 1
         /\ \A x \in Nat : x % n <= x
         /\ \A x \in 0 .. n - 1 : x % n = x
         /\ n % n = 0
<1>1. \A x \in Nat : x % n \in 0 .. n - 1
  OBVIOUS
<1>2. \A x \in 0 .. n - 1 : x % n = x
  OBVIOUS
<1>3. \A x \in Nat : x % n <= x
  BY <1>1, <1>2
<1>4. n % n = 0
  OBVIOUS
<1>. QED
  BY <1>1, <1>2, <1>3, <1>4

LEMMA Below ==
  ASSUME NEW n \in Nat \ {0}, NEW x \in Nat
  PROVE  /\ x % n \in Nat /\ x % n <= x
         /\ x < n => x % n = x
BY Remainders

\* The pointers of two points are at different places, both in the buffer.
LEMMA PlacesApart ==
  ASSUME ChaseAssumption
  PROVE  /\ \A p \in Point : Place(p) \in Addresses
         /\ \A p, q \in Point : Place(p) = Place(q) => p = q
         /\ 0 \in Point /\ Place(0) = 0
<1>. DEFINE shift(p) == IF kind = "pages" THEN (p % Spread) * Line ELSE 0
<1>1. Points \in Nat /\ Stride \in Nat \ {0} /\ Spread \in Nat \ {0} /\ Line \in Nat \ {0}
      /\ Spread * Line <= Stride /\ Points >= 2
  BY DEF ChaseAssumption
<1>2. ASSUME NEW p \in Nat
      PROVE  /\ shift(p) \in Nat /\ shift(p) < Stride
             /\ Place(p) = p * Stride + shift(p) /\ p * Stride \in Nat
  <2>1. p * Stride \in Nat
    BY <1>1, ProductGrows
  <2>2. p % Spread \in Nat /\ (p % Spread) + 1 <= Spread
    BY <1>1, Remainders
  <2>3. (p % Spread) * Line \in Nat
    BY <1>1, <2>2, ProductGrows
  <2>4. ((p % Spread) + 1) * Line <= Spread * Line
    BY <1>1, <2>2, ProductGrows
  <2>5. ((p % Spread) + 1) * Line = (p % Spread) * Line + Line
    BY <1>1, <2>2
  <2>6. Spread * Line \in Nat
    BY <1>1, ProductGrows
  <2>7. (p % Spread) * Line < Stride
    BY <1>1, <2>3, <2>4, <2>5, <2>6
  <2>. QED
    BY <1>1, <2>1, <2>3, <2>7 DEF Place
<1>3. ASSUME NEW p \in Nat, NEW q \in Nat, p < q
      PROVE  p * Stride + Stride <= q * Stride
  <2>1. (p + 1) * Stride <= q * Stride
    BY <1>1, <1>3, ProductGrows
  <2>2. (p + 1) * Stride = p * Stride + Stride
    BY <1>1
  <2>. QED
    BY <2>1, <2>2
<1>. HIDE DEF shift
<1>4. ASSUME NEW p \in Point
      PROVE  Place(p) \in Addresses
  <2>1. p \in Nat /\ p < Points
    BY <1>1 DEF Point
  <2>2. p * Stride + Stride <= Points * Stride /\ Points * Stride \in Nat
    BY <1>1, <1>3, <2>1, ProductGrows
  <2>3. PICK a \in Nat, b \in Nat, c \in Nat :
          a = p * Stride /\ b = Points * Stride /\ c = shift(p)
    BY <1>2, <2>1, <2>2
  <2>4. Place(p) = a + c /\ c < Stride /\ a + Stride <= b
    BY <1>2, <2>1, <2>2, <2>3
  <2>5. Place(p) \in 0 .. b - 1
    BY <1>1, <2>4
  <2>. QED
    BY <2>3, <2>5 DEF Addresses
<1>5. ASSUME NEW p \in Point, NEW q \in Point, p < q
      PROVE  Place(p) # Place(q)
  <2>1. p \in Nat /\ q \in Nat
    BY <1>1 DEF Point
  <2>2. p * Stride + Stride <= q * Stride
    BY <1>3, <1>5, <2>1
  <2>3. PICK a \in Nat, b \in Nat, c \in Nat, d \in Nat :
          a = p * Stride /\ b = q * Stride /\ c = shift(p) /\ d = shift(q)
    BY <1>2, <2>1
  <2>4. Place(p) = a + c /\ Place(q) = b + d /\ c < Stride /\ a + Stride <= b
    BY <1>2, <2>1, <2>2, <2>3
  <2>. QED
    BY <1>1, <2>4
<1>6. 0 \in Point /\ Place(0) = 0
  BY <1>1, Remainders DEF Point, Place
<1>. QED
  BY <1>1, <1>4, <1>5, <1>6 DEF Point

--------------------------------------------------------------------------------
(* The ring. *)

Next1(i) == IF i + 1 = Points THEN 0 ELSE i + 1

\* The index that the chase has reached after k loads from index j, for two
\* rounds.
Turn(j, k) ==
  IF j + k < Points THEN j + k
  ELSE IF j + k < 2 * Points THEN j + k - Points ELSE j + k - 2 * Points

LEMMA Turns ==
  ASSUME ChaseAssumption
  PROVE  /\ Points \in Nat /\ Points >= 2
         /\ \A i \in Point : (i + 1) % Points = Next1(i) /\ Next1(i) \in Point
         /\ \A j \in Point, k \in 0 .. 2 * Points : Turn(j, k) \in Point
         /\ \A j \in Point : /\ Turn(j, 0) = j /\ Turn(j, Points) = j
                            /\ Turn(j, 2 * Points) = j
         /\ \A j \in Point, k \in 0 .. 2 * Points - 1 : Turn(j, k + 1) = Next1(Turn(j, k))
         /\ \A j, i \in Point : \E k \in 0 .. Points - 1 : Turn(j, k) = i
         /\ \A j \in Point, k, l \in 0 .. Points - 1 : Turn(j, k) = Turn(j, l) => k = l
<1>1. Points \in Nat /\ Points >= 2
  BY DEF ChaseAssumption
<1>2. ASSUME NEW i \in Point
      PROVE  (i + 1) % Points = Next1(i) /\ Next1(i) \in Point
  <2>1. i \in 0 .. Points - 1
    BY DEF Point
  <2>2. CASE i + 1 = Points
    <3>1. (i + 1) % Points = 0
      BY <1>1, <2>2, Remainders
    <3>. QED
      BY <1>1, <2>2, <3>1 DEF Next1, Point
  <2>3. CASE i + 1 # Points
    <3>1. i + 1 \in 0 .. Points - 1
      BY <1>1, <2>1, <2>3
    <3>2. (i + 1) % Points = i + 1
      <4>1. i + 1 \in Nat /\ i + 1 < Points /\ Points \in Nat \ {0}
        BY <1>1, <3>1
      <4>. QED
        BY <4>1, Below
    <3>. QED
      BY <2>3, <3>1, <3>2 DEF Next1, Point
  <2>. QED
    BY <2>2, <2>3
<1>3. \A j, i \in Point : \E k \in 0 .. Points - 1 : Turn(j, k) = i
  <2>. SUFFICES ASSUME NEW j \in Point, NEW i \in Point
       PROVE  \E k \in 0 .. Points - 1 : Turn(j, k) = i
    OBVIOUS
  <2>1. CASE j <= i
    <3>1. i - j \in 0 .. Points - 1 /\ Turn(j, i - j) = i
      BY <1>1, <2>1 DEF Turn, Point
    <3>. QED
      BY <3>1
  <2>2. CASE i < j
    <3>1. i - j + Points \in 0 .. Points - 1 /\ Turn(j, i - j + Points) = i
      BY <1>1, <2>2 DEF Turn, Point
    <3>. QED
      BY <3>1
  <2>. QED
    BY <1>1, <2>1, <2>2 DEF Point
<1>4. /\ \A j \in Point, k \in 0 .. 2 * Points : Turn(j, k) \in Point
      /\ \A j \in Point : Turn(j, 0) = j /\ Turn(j, Points) = j /\ Turn(j, 2 * Points) = j
  BY <1>1 DEF Turn, Point
<1>5. \A j \in Point, k \in 0 .. 2 * Points - 1 : Turn(j, k + 1) = Next1(Turn(j, k))
  BY <1>1 DEF Turn, Next1, Point
<1>6. \A j \in Point, k, l \in 0 .. Points - 1 : Turn(j, k) = Turn(j, l) => k = l
  BY <1>1 DEF Turn, Point
<1>. QED
  BY <1>1, <1>2, <1>3, <1>4, <1>5, <1>6

\* The shuffled points are all points, each of them once.
OrderInv ==
  /\ order \in [Point -> Point]
  /\ \A p \in Point : \E i \in Point : order[i] = p
  /\ \A i, j \in Point : order[i] = order[j] => i = j

LEMMA ShuffledOnce ==
  ASSUME ChaseAssumption, NEW o \in [Point -> Point], \A p \in Point : \E i \in Point : o[i] = p
  PROVE  \A i, j \in Point : o[i] = o[j] => i = j
<1>1. IsFiniteSet(Point)
  BY FS_Interval DEF ChaseAssumption, Point
<1>2. o \in Surjection(Point, Point)
  BY DEF Surjection
<1>3. o \in Injection(Point, Point)
  <2>1. Cardinality(Point) = Cardinality(Point)
    OBVIOUS
  <2>. QED
    BY <1>1, <1>2, <2>1, FS_SurjSameCardinalityImpliesInj
<1>. QED
  BY <1>3 DEF Injection, IsInjective

\* What is stored so far leads from each point to the next, and the chase has
\* come as far along the ring as it has made steps.
RingInv ==
  Fits =>
    /\ \A i \in 0 .. built - 1 : cell[Place(order[i])] = Place(Successor(i))
    /\ built < Points => steps = 0
    /\ \A j \in Point : order[j] = 0 =>
         /\ current = Place(order[Turn(j, steps)])
         /\ visited = {Place(order[Turn(j, k)]) : k \in 0 .. steps - 1}

IInv == TypeOK /\ OrderInv /\ RingInv

\* What a pointer holds is an address, and where they fit it is the right one.
LEMMA Offsets ==
  ASSUME ChaseAssumption
  PROVE  \A p \in Point :
           /\ Offset(p) \in Addresses
           /\ Fits => Here(p) = Place(p) /\ Offset(p) = Place(p)
<1>1. Modulus \in Nat \ {0} /\ Points * Stride \in Nat
  BY ProductGrows DEF ChaseAssumption
<1>2. PICK b \in Nat : b = Points * Stride
  BY <1>1
<1>. SUFFICES ASSUME NEW p \in Point
     PROVE  /\ Offset(p) \in Addresses
            /\ Fits => Here(p) = Place(p) /\ Offset(p) = Place(p)
  OBVIOUS
<1>3. PICK x \in 0 .. b - 1 : x = Place(p)
  BY <1>2, PlacesApart DEF Addresses
<1>4. /\ x % Modulus \in Nat /\ x % Modulus <= x
      /\ b <= Modulus => x % Modulus = x
  <2>1. x \in Nat /\ x < b
    BY <1>2
  <2>2. /\ x % Modulus \in Nat /\ x % Modulus <= x
        /\ x < Modulus => x % Modulus = x
    BY <1>1, <2>1, Below
  <2>. QED
    BY <1>1, <2>1, <2>2
<1>5. x % Modulus \in 0 .. b - 1
  BY <1>1, <1>2, <1>3, <1>4
<1>. QED
  <2>1. Offset(p) \in Addresses
    BY <1>2, <1>3, <1>5 DEF Offset, Trunc, Addresses
  <2>2. ASSUME Fits
        PROVE  Trunc(Place(p)) = Place(p)
    BY <1>2, <1>3, <1>4, <2>2 DEF Trunc, Fits
  <2>3. ASSUME Fits
        PROVE  Here(p) = Place(p) /\ Offset(p) = Place(p)
    BY <2>2, <2>3 DEF Here, Offset
  <2>. QED
    BY <2>1, <2>3

LEMMA InitIInv == Init => IInv
<1>. SUFFICES ASSUME Init PROVE IInv
  OBVIOUS
<1>1. TypeOK
  <2>1. 0 \in Addresses /\ Points \in Nat
    BY ChaseAssumption, PlacesApart DEF ChaseAssumption
  <2>. QED
    BY <2>1 DEF Init, TypeOK
<1>2. OrderInv
  BY ChaseAssumption, ShuffledOnce DEF Init, OrderInv
<1>3. RingInv
  <2>1. \A j \in Point : Turn(j, 0) = j
    BY ChaseAssumption, Turns
  <2>2. Place(0) = 0
    BY ChaseAssumption, PlacesApart
  <2>3. built = 0 /\ steps = 0 /\ current = 0 /\ visited = {}
    BY DEF Init
  <2>4. 0 .. built - 1 = {} /\ 0 .. steps - 1 = {}
    BY <2>3
  <2>5. ASSUME NEW j \in Point, order[j] = 0
        PROVE  current = Place(order[Turn(j, steps)])
    <3>1. Turn(j, steps) = j
      BY <2>1, <2>3
    <3>. QED
      BY <2>2, <2>3, <2>5, <3>1
  <2>. QED
    BY <2>3, <2>4, <2>5 DEF RingInv
<1>. QED
  BY <1>1, <1>2, <1>3 DEF IInv

LEMMA StoreIInv ==
  ASSUME IInv, Store
  PROVE  IInv'
<1>0. Points \in Nat /\ built \in 0 .. Points /\ built < Points /\ built \in Point
  <2>1. Points \in Nat /\ built \in 0 .. Points /\ built < Points
    BY ChaseAssumption DEF ChaseAssumption, IInv, TypeOK, Store
  <2>. QED
    BY <2>1 DEF Point
<1>1. /\ Points \in Nat /\ built \in 0 .. Points /\ built < Points
      /\ order \in [Point -> Point] /\ built \in Point
      /\ UNCHANGED <<kind, order, current, steps, visited>> /\ built' = built + 1
      /\ cell' = [cell EXCEPT ![Here(order[built])] = Offset(Successor(built))]
      /\ cell \in [Addresses -> Addresses]
  BY <1>0 DEF IInv, TypeOK, OrderInv, Store
<1>2. \A i \in Point : Successor(i) \in Point
  BY <1>1, ChaseAssumption, Turns DEF Successor
<1>3. TypeOK'
  <2>1. cell' \in [Addresses -> Addresses]
    BY <1>1, <1>2, ChaseAssumption, Offsets
  <2>. QED
    BY <1>1, <2>1 DEF IInv, TypeOK
<1>4. OrderInv'
  BY <1>1 DEF IInv, OrderInv
<1>5. ASSUME Fits
      PROVE  \A i \in 0 .. built : cell'[Place(order[i])] = Place(Successor(i))
  <2>1. cell' = [cell EXCEPT ![Place(order[built])] = Place(Successor(built))]
    BY <1>1, <1>2, <1>5, ChaseAssumption, Offsets
  <2>. SUFFICES ASSUME NEW i \in 0 .. built
       PROVE  cell'[Place(order[i])] = Place(Successor(i))
    OBVIOUS
  <2>2. i \in Point /\ order[i] \in Point /\ order[built] \in Point
    BY <1>1 DEF Point
  <2>3. CASE i = built
    BY <1>1, <2>1, <2>2, <2>3, ChaseAssumption, PlacesApart
  <2>4. CASE i # built
    <3>1. i \in 0 .. built - 1
      BY <1>1, <2>4
    <3>2. cell[Place(order[i])] = Place(Successor(i))
      BY <1>5, <3>1 DEF IInv, RingInv
    <3>3. order[i] # order[built]
      BY <1>1, <2>2, <2>4 DEF IInv, OrderInv
    <3>4. Place(order[i]) # Place(order[built])
      BY <2>2, <3>3, ChaseAssumption, PlacesApart
    <3>. QED
      BY <1>1, <2>1, <2>2, <3>2, <3>4, ChaseAssumption, PlacesApart
  <2>. QED
    BY <2>3, <2>4
<1>6. RingInv'
  <2>1. \A x : Place(x)' = Place(x)
    BY <1>1 DEF Place
  <2>2. \A i : Successor(i)' = Successor(i)
    BY <1>1 DEF Successor
  <2>3. 0 .. built' - 1 = 0 .. built
    BY <1>1
  <2>. QED
    BY <1>1, <1>5, <2>1, <2>2, <2>3 DEF IInv, RingInv
<1>. QED
  BY <1>3, <1>4, <1>6 DEF IInv

LEMMA LoadIInv ==
  ASSUME IInv, Load
  PROVE  IInv'
<1>1. /\ Points \in Nat /\ built = Points /\ steps \in 0 .. 2 * Points - 1
      /\ order \in [Point -> Point] /\ steps' = steps + 1
      /\ UNCHANGED <<kind, order, built, cell>>
      /\ current' = cell[current] /\ visited' = visited \cup {current}
  BY ChaseAssumption DEF ChaseAssumption, IInv, TypeOK, OrderInv, Load
<1>2. TypeOK'
  BY <1>1 DEF IInv, TypeOK
<1>3. OrderInv'
  BY <1>1 DEF IInv, OrderInv
<1>4. ASSUME Fits, NEW j \in Point, order[j] = 0
      PROVE  /\ current' = Place(order[Turn(j, steps + 1)])
             /\ visited' = {Place(order[Turn(j, k)]) : k \in 0 .. steps}
  <2>1. current = Place(order[Turn(j, steps)])
        /\ visited = {Place(order[Turn(j, k)]) : k \in 0 .. steps - 1}
    BY <1>4 DEF IInv, RingInv
  <2>2. PICK i \in Point : i = Turn(j, steps) /\ Turn(j, steps + 1) = Next1(i)
    BY <1>1, ChaseAssumption, Turns
  <2>3. i \in 0 .. built - 1
    BY <1>1 DEF Point
  <2>4. cell[Place(order[i])] = Place(order[(i + 1) % Points])
    BY <1>4, <2>3 DEF IInv, RingInv, Successor
  <2>5. (i + 1) % Points = Next1(i)
    BY ChaseAssumption, Turns
  <2>6. current' = Place(order[Turn(j, steps + 1)])
    BY <1>1, <2>1, <2>2, <2>4, <2>5
  <2>7. 0 .. steps = (0 .. steps - 1) \cup {steps}
    BY <1>1
  <2>8. visited' = {Place(order[Turn(j, k)]) : k \in 0 .. steps}
    BY <1>1, <2>1, <2>7
  <2>. QED
    BY <2>6, <2>8
<1>5. RingInv'
  <2>1. \A x : Place(x)' = Place(x)
    BY <1>1 DEF Place
  <2>2. \A i : Successor(i)' = Successor(i)
    BY <1>1 DEF Successor
  <2>3. steps' - 1 = steps
    BY <1>1
  <2>. QED
    BY <1>1, <1>4, <2>1, <2>2, <2>3 DEF IInv, RingInv
<1>. QED
  BY <1>2, <1>3, <1>5 DEF IInv

LEMMA NextIInv == IInv /\ [Next]_vars => IInv'
<1>1. IInv /\ UNCHANGED vars => IInv'
  BY DEF vars, IInv, TypeOK, OrderInv, RingInv, Place, Successor
<1>. QED
  BY <1>1, StoreIInv, LoadIInv DEF Next, ChaseOver

\* What a chase finds, for any length of the chain.
THEOREM IInvHolds == Spec => []IInv
BY InitIInv, NextIInv, PTL DEF Spec

\* Every load is from within the buffer, also where the pointers are cut off.
THEOREM TypeCorrect == Spec => []TypeOK
BY IInvHolds, PTL DEF IInv

\* The chain is one ring through all points, for every number of points, every
\* stride and every layout within the page, as long as the buffer lies within
\* what a pointer can hold.
THEOREM OneRing == Spec => []SingleRing
<1>1. IInv => SingleRing
  <2>. SUFFICES ASSUME IInv, Fits
       PROVE  /\ steps \in {Points, 2 * Points} =>
                   current = 0 /\ visited = {Place(p) : p \in Point}
              /\ steps \in 1 .. Points - 1 => current \notin visited
    BY DEF SingleRing
  <2>1. 0 \in Point /\ Place(0) = 0 /\ Points \in Nat /\ steps \in 0 .. 2 * Points
    BY ChaseAssumption, PlacesApart, Turns DEF IInv, TypeOK
  <2>2. PICK j \in Point : order[j] = 0
    BY <2>1 DEF IInv, OrderInv
  <2>3. /\ current = Place(order[Turn(j, steps)])
        /\ visited = {Place(order[Turn(j, k)]) : k \in 0 .. steps - 1}
    BY <2>2 DEF IInv, RingInv
  <2>4. ASSUME steps \in {Points, 2 * Points}
        PROVE  current = 0 /\ visited = {Place(p) : p \in Point}
    <3>1. current = 0
      <4>1. Turn(j, steps) = j
        BY <2>4, ChaseAssumption, Turns
      <4>. QED
        BY <2>1, <2>2, <2>3, <4>1
    <3>2. ASSUME NEW k \in 0 .. steps - 1
          PROVE  order[Turn(j, k)] \in Point
      <4>1. k \in 0 .. 2 * Points
        BY <2>1
      <4>2. Turn(j, k) \in Point
        BY <4>1, ChaseAssumption, Turns
      <4>. QED
        BY <4>2 DEF IInv, OrderInv
    <3>3. ASSUME NEW p \in Point
          PROVE  \E k \in 0 .. steps - 1 : order[Turn(j, k)] = p
      <4>1. PICK i \in Point : order[i] = p
        BY DEF IInv, OrderInv
      <4>2. PICK k \in 0 .. Points - 1 : Turn(j, k) = i
        BY ChaseAssumption, Turns
      <4>. QED
        BY <2>1, <2>4, <4>1, <4>2
    <3>. QED
      BY <2>3, <3>1, <3>2, <3>3
  <2>5. ASSUME steps \in 1 .. Points - 1
        PROVE  current \notin visited
    <3>. SUFFICES ASSUME NEW k \in 0 .. steps - 1, current = Place(order[Turn(j, k)])
         PROVE  FALSE
      BY <2>3
    <3>1. k \in 0 .. Points - 1 /\ steps \in 0 .. Points - 1 /\ k # steps
      BY <2>1, <2>5
    <3>2. Turn(j, k) \in Point /\ Turn(j, steps) \in Point /\ Turn(j, k) # Turn(j, steps)
      <4>1. k \in 0 .. 2 * Points /\ steps \in 0 .. 2 * Points
        BY <2>1, <3>1
      <4>2. Turn(j, k) \in Point /\ Turn(j, steps) \in Point
        BY <4>1, ChaseAssumption, Turns
      <4>3. Turn(j, k) # Turn(j, steps)
        BY <3>1, ChaseAssumption, Turns
      <4>. QED
        BY <4>2, <4>3
    <3>3. order[Turn(j, k)] # order[Turn(j, steps)]
      BY <3>2 DEF IInv, OrderInv
    <3>4. order[Turn(j, k)] \in Point /\ order[Turn(j, steps)] \in Point
      BY <3>2 DEF IInv, OrderInv
    <3>. QED
      BY <2>3, <3>3, <3>4, ChaseAssumption, PlacesApart
  <2>. QED
    BY <2>4, <2>5
<1>. QED
  BY <1>1, IInvHolds, PTL
--------------------------------------------------------------------------------
(* GeneratedCode: lists and sums. *)

IsList(s) == s \in Seq({s[i] : i \in DOMAIN s}) /\ Len(s) \in Nat /\ DOMAIN s = 1 .. Len(s)

\* A function on 1 .. n is a list of n elements.
LEMMA MakesList ==
  ASSUME NEW n \in Nat, NEW s, s = [i \in 1 .. n |-> s[i]]
  PROVE  IsList(s) /\ Len(s) = n
<1>1. s \in [1 .. n -> {s[i] : i \in DOMAIN s}]
  OBVIOUS
<1>. QED
  BY <1>1 DEF IsList

\* A sequence is a list of what it contains.
LEMMA ListOf ==
  ASSUME NEW E, NEW s \in Seq(E)
  PROVE  IsList(s)
<1>1. Len(s) \in Nat /\ DOMAIN s = 1 .. Len(s) /\ s = [i \in 1 .. Len(s) |-> s[i]]
  OBVIOUS
<1>. QED
  BY <1>1, MakesList

\* What is where when one list is put behind another.
LEMMA Concatenated ==
  ASSUME NEW s, IsList(s), NEW t, IsList(t)
  PROVE  /\ IsList(s \o t) /\ Len(s \o t) = Len(s) + Len(t)
         /\ \A k \in 1 .. Len(s) : (s \o t)[k] = s[k]
         /\ \A k \in 1 .. Len(t) : (s \o t)[Len(s) + k] = t[k]
<1>. DEFINE E == {s[i] : i \in DOMAIN s} \cup {t[i] : i \in DOMAIN t}
<1>1. s \in Seq(E) /\ t \in Seq(E) /\ Len(s) \in Nat /\ Len(t) \in Nat
  <2>1. {s[i] : i \in DOMAIN s} \subseteq E /\ {t[i] : i \in DOMAIN t} \subseteq E
    OBVIOUS
  <2>. HIDE DEF E
  <2>. QED
    BY <2>1, SeqMonotonic DEF IsList
<1>. HIDE DEF E
<1>2. /\ s \o t \in Seq(E) /\ Len(s \o t) = Len(s) + Len(t)
      /\ \A k \in 1 .. Len(s) : (s \o t)[k] = s[k]
      /\ \A k \in 1 .. Len(t) : (s \o t)[Len(s) + k] = t[k]
  <2>1. s \o t \in Seq(E) /\ Len(s \o t) = Len(s) + Len(t)
    BY <1>1, ConcatProperties
  <2>2. \A k \in 1 .. Len(s) + Len(t) :
          (s \o t)[k] = IF k <= Len(s) THEN s[k] ELSE t[k - Len(s)]
    BY <1>1, ConcatProperties
  <2>3. ASSUME NEW k \in 1 .. Len(t)
        PROVE  (s \o t)[Len(s) + k] = t[k]
    <3>1. Len(s) + k \in 1 .. Len(s) + Len(t) /\ ~(Len(s) + k <= Len(s)) /\ Len(s) + k - Len(s) = k
      BY <1>1
    <3>. QED
      BY <2>2, <3>1
  <2>4. \A k \in 1 .. Len(s) : k \in 1 .. Len(s) + Len(t) /\ k <= Len(s)
    BY <1>1
  <2>. QED
    BY <2>1, <2>2, <2>3, <2>4
<1>. QED
  BY <1>2, ListOf

\* A set of natural numbers has a least element; from it, induction.
LEMMA Least ==
  ASSUME NEW T \in SUBSET Nat, T # {}
  PROVE  \E x \in T : \A y \in T : x <= y
<1>1. PICK R : R = OpToRel(<, Nat)
  OBVIOUS
<1>2. IsWellFoundedOn(R, Nat)
  BY <1>1, NatLessThanWellFounded
<1>3. PICK x \in T : \A y \in T : ~ (<<y, x>> \in R)
  BY <1>2, WFMin
<1>4. \A y \in Nat, z \in Nat : y < z => <<y, z>> \in R
  BY <1>1 DEF OpToRel
<1>5. ASSUME NEW y \in T
      PROVE  x <= y
  <2>1. x \in Nat /\ y \in Nat
    OBVIOUS
  <2>2. ~(y < x)
    BY <1>3, <1>4, <2>1
  <2>. QED
    BY <2>1, <2>2
<1>. QED
  BY <1>5

LEMMA Induction ==
  ASSUME NEW T, 0 \in T, \A n \in Nat : n \in T => n + 1 \in T
  PROVE  Nat \subseteq T
<1>. SUFFICES ASSUME Nat \ T # {} PROVE FALSE
  OBVIOUS
<1>1. PICK x \in Nat \ T : \A y \in Nat \ T : x <= y
  BY Least
<1>2. x # 0 /\ x - 1 \in Nat
  BY <1>1
<1>3. x - 1 \in T
  BY <1>1, <1>2
<1>. QED
  BY <1>1, <1>2, <1>3

\* Packed: what is known of the ends of the instructions is where they are.
LEMMA PackedIs ==
  ASSUME NEW s, IsList(s), NEW end, end = [k \in 0 .. Len(s) |-> end[k]], end[0] = 0,
         \A k \in 1 .. Len(s) : end[k] = end[k - 1] + s[k].len
  PROVE  Packed(s) = [k \in 1 .. Len(s) |-> Put(end[k - 1], s[k])]
<1>. DEFINE n == Len(s)
            F(f) == [k \in 0 .. Len(s) |-> IF k = 0 THEN 0 ELSE f[k - 1] + s[k].len]
            offset == CHOOSE f : f = F(f)
            T == {k \in Nat : k \in 0 .. n => offset[k] = end[k]}
<1>1. n \in Nat /\ DOMAIN s = 1 .. n
  BY DEF IsList
<1>2. end = F(end)
  <2>1. \A k \in 0 .. n : k = 0 \/ k \in 1 .. n
    BY <1>1
  <2>. QED
    BY <2>1
<1>3. offset = F(offset)
  BY <1>2
<1>. HIDE DEF offset
<1>4. 0 \in T
  BY <1>1, <1>3
<1>5. ASSUME NEW k \in Nat, k \in T
      PROVE  k + 1 \in T
  <2>. SUFFICES ASSUME k + 1 \in 0 .. n PROVE offset[k + 1] = end[k + 1]
    OBVIOUS
  <2>1. k \in 0 .. n /\ k + 1 \in 1 .. n /\ k + 1 # 0 /\ (k + 1) - 1 = k
    BY <1>1
  <2>2. offset[k + 1] = offset[k] + s[k + 1].len
    BY <1>3, <2>1
  <2>3. end[k + 1] = end[k] + s[k + 1].len
    BY <2>1
  <2>. QED
    BY <1>5, <2>1, <2>2, <2>3
<1>6. \A k \in 0 .. n : offset[k] = end[k]
  <2>. HIDE DEF T
  <2>1. Nat \subseteq T
    BY <1>4, <1>5, Induction
  <2>. QED
    BY <1>1, <2>1 DEF T
<1>7. Packed(s) = [k \in DOMAIN s |-> Put(offset[k - 1], s[k])]
  BY DEF Packed, offset
<1>8. \A k \in 1 .. n : k - 1 \in 0 .. n
  BY <1>1
<1>. QED
  BY <1>1, <1>6, <1>7, <1>8

--------------------------------------------------------------------------------
(* Where the stores of the probes are. *)

End(put) == put.at + put.what.len

\* A list of stores as a probe may have it: none reaches into the next, and the
\* last one ends within the buffer.
InTurn(c, st) ==
  /\ IsList(st) /\ Room(c) \in Nat
  /\ \A k \in 1 .. Len(st) :
       st[k].at \in Nat /\ st[k].what.len \in Nat \ {0} /\ st[k].what.op # "zero"
  /\ \A k \in 1 .. Len(st) : k + 1 <= Len(st) => End(st[k]) <= st[k + 1].at
  /\ Len(st) > 0 => End(st[Len(st)]) <= Room(c)

\* Of stores in turn, none overlaps with any later one, and all lie in the buffer.
LEMMA Ascends ==
  ASSUME NEW c, NEW st, InTurn(c, st)
  PROVE  /\ \A k, l \in 1 .. Len(st) : k < l => End(st[k]) <= st[l].at
         /\ \A k \in 1 .. Len(st) : End(st[k]) <= Room(c)
<1>. DEFINE T == {d \in Nat : \A k \in 1 .. Len(st) :
                     k + d + 1 <= Len(st) => End(st[k]) <= st[k + d + 1].at}
<1>1. Len(st) \in Nat
  BY DEF InTurn, IsList
<1>2. \A k \in 1 .. Len(st) : /\ st[k].at \in Nat /\ st[k].what.len \in Nat /\ End(st[k]) \in Nat
                              /\ st[k].at <= End(st[k])
  BY DEF InTurn, End
<1>3. 0 \in T
  BY <1>1 DEF InTurn
<1>4. ASSUME NEW d \in Nat, d \in T PROVE d + 1 \in T
  <2>. SUFFICES ASSUME NEW k \in 1 .. Len(st), k + (d + 1) + 1 <= Len(st)
       PROVE  End(st[k]) <= st[k + (d + 1) + 1].at
    OBVIOUS
  <2>. DEFINE m == k + d + 1
  <2>1. m \in 1 .. Len(st) /\ m + 1 \in 1 .. Len(st) /\ m + 1 = k + (d + 1) + 1
    BY <1>1
  <2>2. End(st[k]) <= st[m].at
    BY <1>4, <2>1
  <2>. HIDE DEF m
  <2>3. End(st[m]) <= st[m + 1].at
    BY <2>1 DEF InTurn
  <2>4. End(st[k]) \in Nat /\ End(st[m]) \in Nat /\ st[m].at \in Nat /\ st[m + 1].at \in Nat
        /\ st[m].at <= End(st[m])
    BY <1>2, <2>1
  <2>5. End(st[k]) <= st[m + 1].at
    BY <2>2, <2>3, <2>4
  <2>. QED
    BY <2>1, <2>5
<1>5. Nat \subseteq T
  <2>. HIDE DEF T
  <2>. QED
    BY <1>3, <1>4, Induction
<1>6. ASSUME NEW k \in 1 .. Len(st), NEW l \in 1 .. Len(st), k < l
      PROVE  End(st[k]) <= st[l].at
  <2>1. l - k - 1 \in Nat /\ k + (l - k - 1) + 1 = l
    BY <1>1, <1>6
  <2>2. l - k - 1 \in T
    BY <1>5, <2>1
  <2>. QED
    BY <2>1, <2>2
<1>7. ASSUME NEW k \in 1 .. Len(st) PROVE End(st[k]) <= Room(c)
  <2>1. Len(st) \in 1 .. Len(st) /\ Room(c) \in Nat /\ End(st[Len(st)]) <= Room(c)
    BY <1>1 DEF InTurn
  <2>2. CASE k = Len(st)
    BY <2>1, <2>2
  <2>3. CASE k < Len(st)
    BY <1>2, <1>6, <2>1, <2>3
  <2>. QED
    BY <1>1, <2>2, <2>3
<1>. QED
  BY <1>6, <1>7

\* Code without a call: each instruction leads to the next, the last one returns.
\* What follows a conditional jump has been preceded by the one that sets the flag.
Straight(c) == c.probe \in {"jumps", "branches", "rob", "fetch"}
Plain == {"clear", "load", "add", "xor", "nop"}

InLine(c, st) ==
  /\ Len(st) > 0 /\ st[1].at = 0 /\ st[Len(st)].what = Ret(c)
  /\ \A k \in 1 .. Len(st) : k + 1 <= Len(st) =>
       \/ st[k].what.op \in Plain /\ End(st[k]) = st[k + 1].at
       \/ st[k].what.op = "jump" /\ Target(c, st[k].at, st[k].what) = st[k + 1].at
       \/ /\ st[k].what.op = "jump if zero" /\ Target(c, st[k].at, st[k].what) = st[k + 1].at
          /\ k > 1 /\ st[1].what.op = "clear"

\* What return, jump and call do, for each architecture and spacing.
LEMMA RetIs ==
  ASSUME NEW c
  PROVE  Ret(c).op = "ret" /\ Ret(c).len \in {1, 4} /\ Ret(c).len = IF X86(c) THEN 1 ELSE 4
BY DEF Ret, Ins

LEMMA JumpIs ==
  ASSUME NEW c, c.width \in Spacings
  PROVE  /\ Jump(c).op = IF c.probe = "branches" THEN "jump if zero" ELSE "jump"
         /\ Jump(c).len \in Nat \ {0} /\ Jump(c).len <= c.width
         /\ \A at \in Nat : Target(c, at, Jump(c)) = at + c.width
<1>1. Jump(c).op = IF c.probe = "branches" THEN "jump if zero" ELSE "jump"
  BY DEF Jump
<1>2. Jump(c).len = (IF X86(c) THEN 2 ELSE 4)
      /\ Jump(c).to = (IF X86(c) THEN Signed8(c.width - 2) ELSE c.width \div 4)
  BY DEF Jump
<1>3. /\ Signed8(4 - 2) = 2 /\ Signed8(8 - 2) = 6 /\ Signed8(16 - 2) = 14
      /\ Signed8(32 - 2) = 30 /\ Signed8(64 - 2) = 62
  BY DEF Signed8
<1>4. /\ 4 \div 4 = 1 /\ 8 \div 4 = 2 /\ 16 \div 4 = 4 /\ 32 \div 4 = 8 /\ 64 \div 4 = 16
  OBVIOUS
<1>5. /\ c.width = 4 \/ c.width = 8 \/ c.width = 16 \/ c.width = 32 \/ c.width = 64
      /\ c.width \in Nat /\ c.width >= 4
  BY DEF Spacings
<1>6. CASE X86(c)
  <2>1. Jump(c).len = 2 /\ Jump(c).to = c.width - 2
    BY <1>2, <1>3, <1>5, <1>6
  <2>2. \A at \in Nat : Target(c, at, Jump(c)) = at + 2 + (c.width - 2)
    BY <1>6, <2>1 DEF Target
  <2>3. \A at \in Nat : at + 2 + (c.width - 2) = at + c.width
    BY <1>5
  <2>4. Jump(c).len \in Nat \ {0} /\ Jump(c).len <= c.width
    BY <1>5, <2>1
  <2>. QED
    BY <1>1, <2>2, <2>3, <2>4
<1>7. CASE ~X86(c)
  <2>1. Jump(c).len = 4 /\ 4 * Jump(c).to = c.width
    BY <1>2, <1>4, <1>5, <1>7
  <2>2. \A at \in Nat : Target(c, at, Jump(c)) = at + 4 * Jump(c).to
    BY <1>7 DEF Target
  <2>3. Jump(c).len \in Nat \ {0} /\ Jump(c).len <= c.width
    BY <1>5, <2>1
  <2>. QED
    BY <1>1, <2>1, <2>2, <2>3
<1>. QED
  BY <1>6, <1>7

LEMMA Multiples ==
  ASSUME NEW w \in Nat, NEW n \in Nat
  PROVE  n * w \in Nat /\ (n + 1) * w = n * w + w
OBVIOUS

\* The branch code: a prefix, one branch per slot, a return.
LEMMA JumpsAre ==
  ASSUME NEW c, IsCase(c), c.probe \in {"jumps", "branches"}
  PROVE  InTurn(c, Stores(c)) /\ InLine(c, Stores(c))
           /\ Len(Stores(c)) = Len(Prefix(c)) + c.count + 1
           /\ Len(Prefix(c)) \in {0, 1}
           /\ \A k \in 1 .. Len(Stores(c)) :
                Stores(c)[k].what.op = Jump(c).op
                  <=> k \in Len(Prefix(c)) + 1 .. Len(Prefix(c)) + c.count
<1>. DEFINE p == Len(Prefix(c))
            B == PrefixBytes(c)
            n == c.count
            w == c.width
            one == [i \in 1 .. p |-> Put(0, Prefix(c)[i])]
            two == [i \in 1 .. n |-> Put(B + (i - 1) * w, Jump(c))]
            three == <<Put(B + n * w, Ret(c))>>
            st == Stores(c)
<1>1. /\ n \in Nat /\ w \in Spacings /\ w \in Nat
  BY DEF IsCase, Spacings
<1>2. /\ p \in {0, 1} /\ DOMAIN Prefix(c) = 1 .. p
      /\ p = 1 <=> c.probe = "branches"
      /\ p = 0 => B = 0
      /\ p = 1 => Prefix(c)[1].op = "clear" /\ Prefix(c)[1].len = B /\ B \in {2, 4}
  <2>1. CASE c.probe = "branches"
    <3>1. /\ Prefix(c) = <<Ins("clear", IF X86(c) THEN 2 ELSE 4)>>
          /\ B = IF X86(c) THEN 2 ELSE 4
      BY <2>1 DEF Prefix, PrefixBytes
    <3>2. /\ Len(Prefix(c)) = 1 /\ DOMAIN Prefix(c) = 1 .. 1
          /\ Prefix(c)[1] = Ins("clear", IF X86(c) THEN 2 ELSE 4)
      BY <3>1
    <3>. QED
      BY <2>1, <3>1, <3>2 DEF Ins
  <2>2. CASE c.probe # "branches"
    BY <2>2 DEF Prefix, PrefixBytes
  <2>. QED
    BY <2>1, <2>2
<1>3. st = (one \o two) \o three
  <2>1. st = Jumps(c)
    BY DEF Stores
  <2>2. Jumps(c) = [i \in DOMAIN Prefix(c) |-> Put(0, Prefix(c)[i])] \o two \o three
    BY DEF Jumps
  <2>. QED
    BY <1>2, <2>1, <2>2
<1>4. IsList(one) /\ Len(one) = p /\ IsList(two) /\ Len(two) = n /\ IsList(three) /\ Len(three) = 1
  <2>1. p \in Nat
    BY <1>2
  <2>2. IsList(one) /\ Len(one) = p
    <3>1. one = [i \in 1 .. p |-> one[i]]
      OBVIOUS
    <3>. HIDE DEF one
    <3>. QED
      BY <2>1, <3>1, MakesList
  <2>3. IsList(two) /\ Len(two) = n
    <3>1. two = [i \in 1 .. n |-> two[i]]
      OBVIOUS
    <3>. HIDE DEF two
    <3>. QED
      BY <1>1, <3>1, MakesList
  <2>4. IsList(three) /\ Len(three) = 1
    <3>1. three \in Seq({Put(B + n * w, Ret(c))}) /\ Len(three) = 1
      OBVIOUS
    <3>. HIDE DEF three
    <3>. QED
      BY <3>1, ListOf
  <2>. QED
    BY <2>2, <2>3, <2>4
<1>5. /\ \A i \in 1 .. p : one[i] = Put(0, Prefix(c)[i])
      /\ \A i \in 1 .. n : two[i] = Put(B + (i - 1) * w, Jump(c))
      /\ three[1] = Put(B + n * w, Ret(c))
  OBVIOUS
<1>. HIDE DEF one, two, three, st, p, B
<1>6. /\ IsList(st) /\ Len(st) = p + n + 1
      /\ p = 1 => st[1] = Put(0, Prefix(c)[1])
      /\ \A i \in 1 .. n : st[p + i] = Put(B + (i - 1) * w, Jump(c))
      /\ st[p + n + 1] = Put(B + n * w, Ret(c))
  <2>. DEFINE ot == one \o two
  <2>1. /\ IsList(ot) /\ Len(ot) = p + n
        /\ \A k \in 1 .. p : ot[k] = one[k]
        /\ \A k \in 1 .. n : ot[p + k] = two[k]
    <3>1. IsList(one) /\ IsList(two)
      BY <1>4
    <3>2. /\ IsList(one \o two) /\ Len(one \o two) = Len(one) + Len(two)
          /\ \A k \in 1 .. Len(one) : (one \o two)[k] = one[k]
          /\ \A k \in 1 .. Len(two) : (one \o two)[Len(one) + k] = two[k]
      BY <3>1, Concatenated
    <3>. QED
      BY <1>4, <3>2
  <2>. HIDE DEF ot
  <2>2. /\ IsList(ot \o three) /\ Len(ot \o three) = p + n + 1
        /\ \A k \in 1 .. p + n : (ot \o three)[k] = ot[k]
        /\ (ot \o three)[p + n + 1] = three[1]
    <3>1. /\ IsList(ot \o three) /\ Len(ot \o three) = Len(ot) + Len(three)
          /\ \A k \in 1 .. Len(ot) : (ot \o three)[k] = ot[k]
          /\ \A k \in 1 .. Len(three) : (ot \o three)[Len(ot) + k] = three[k]
      <4>1. IsList(ot) /\ IsList(three)
        BY <1>4, <2>1
      <4>. QED
        BY <4>1, Concatenated
    <3>2. 1 \in 1 .. Len(three)
      BY <1>4
    <3>. QED
      BY <1>4, <2>1, <3>1, <3>2
  <2>3. st = ot \o three
    BY <1>3 DEF ot
  <2>4. p = 1 => 1 \in 1 .. p + n /\ 1 \in 1 .. p
    BY <1>1
  <2>5. \A i \in 1 .. n : p + i \in 1 .. p + n
    BY <1>1, <1>2
  <2>. QED
    BY <1>5, <2>1, <2>2, <2>3, <2>4, <2>5
<1>7. \A i \in Nat : i * w \in Nat /\ (i + 1) * w = i * w + w
  BY <1>1, Multiples
<1>8. /\ B \in Nat /\ n * w \in Nat /\ 0 * w = 0
      /\ Room(c) = B + n * w + 4 /\ Room(c) \in Nat
  <2>1. Room(c) = B + n * w + 4
    BY DEF Room, B
  <2>2. B \in Nat
    BY <1>2
  <2>3. n * w \in Nat /\ 0 * w = 0
    <3>1. n * w \in Nat
      BY <1>1, Multiples
    <3>2. 0 * w = 0
      BY <1>1
    <3>. QED
      BY <3>1, <3>2
  <2>. HIDE DEF n, w
  <2>. QED
    BY <2>1, <2>2, <2>3
<1>9. \A k \in 1 .. p + n + 1 :
        \/ p = 1 /\ k = 1
        \/ \E i \in 1 .. n : k = p + i
        \/ k = p + n + 1
  <2>. TAKE k \in 1 .. p + n + 1
  <2>1. k \in 1 .. p \/ k - p \in 1 .. n \/ k = p + n + 1
    BY <1>1, <1>2
  <2>2. k - p \in 1 .. n => k = p + (k - p)
    BY <1>1, <1>2
  <2>. QED
    BY <1>2, <2>1, <2>2
<1>10. \A a, i : Put(a, i).at = a /\ Put(a, i).what = i
  BY DEF Put
<1>11. /\ Jump(c).len \in Nat \ {0} /\ Jump(c).len <= w
       /\ \A a \in Nat : Target(c, a, Jump(c)) = a + w
       /\ Jump(c).op = IF c.probe = "branches" THEN "jump if zero" ELSE "jump"
  BY <1>1, JumpIs
<1>. HIDE DEF n, w
<1>12. /\ p = 1 => st[1].at = 0 /\ st[1].what.op = "clear" /\ st[1].what.len = B /\ End(st[1]) = B
       /\ \A i \in 1 .. n :
            /\ st[p + i].at = B + (i - 1) * w /\ st[p + i].what = Jump(c)
            /\ (i - 1) * w \in Nat /\ i * w = (i - 1) * w + w
            /\ st[p + i].at \in Nat /\ End(st[p + i]) <= B + i * w
            /\ Target(c, st[p + i].at, st[p + i].what) = B + i * w
       /\ st[p + n + 1].at = B + n * w /\ st[p + n + 1].what = Ret(c)
       /\ st[p + n + 1].at \in Nat
       /\ End(st[p + n + 1]) <= Room(c)
  <2>1. p = 1 => st[1].at = 0 /\ st[1].what.op = "clear" /\ st[1].what.len = B /\ End(st[1]) = B
    BY <1>2, <1>6, <1>8, <1>10 DEF End
  <2>2. ASSUME NEW i \in 1 .. n
        PROVE  /\ st[p + i].at = B + (i - 1) * w /\ st[p + i].what = Jump(c)
               /\ (i - 1) * w \in Nat /\ i * w = (i - 1) * w + w
               /\ st[p + i].at \in Nat /\ End(st[p + i]) <= B + i * w
               /\ Target(c, st[p + i].at, st[p + i].what) = B + i * w
    <3>1. st[p + i].at = B + (i - 1) * w /\ st[p + i].what = Jump(c)
      BY <1>6, <1>10
    <3>2. i - 1 \in Nat /\ (i - 1) + 1 = i
      BY <1>1
    <3>3. (i - 1) * w \in Nat /\ i * w = (i - 1) * w + w
      BY <1>7, <3>2
    <3>4. st[p + i].at \in Nat
      BY <1>8, <3>1, <3>3
    <3>5. End(st[p + i]) = B + (i - 1) * w + Jump(c).len
      BY <3>1 DEF End
    <3>6. Target(c, st[p + i].at, st[p + i].what) = st[p + i].at + w
      BY <1>11, <3>1, <3>4
    <3>. QED
      <4>1. Jump(c).len \in Nat /\ Jump(c).len <= w
        BY <1>11
      <4>2. End(st[p + i]) <= B + i * w
        BY <1>1, <1>8, <3>3, <3>5, <4>1
      <4>3. st[p + i].at + w = B + i * w
        BY <1>1, <1>8, <3>1, <3>3
      <4>. QED
        BY <3>1, <3>3, <3>4, <3>6, <4>2, <4>3
  <2>3. /\ st[p + n + 1].at = B + n * w /\ st[p + n + 1].what = Ret(c)
        /\ st[p + n + 1].at \in Nat
        /\ End(st[p + n + 1]) <= Room(c)
    <3>1. st[p + n + 1].at = B + n * w /\ st[p + n + 1].what = Ret(c)
      BY <1>6, <1>10
    <3>2. End(st[p + n + 1]) = B + n * w + Ret(c).len /\ Ret(c).len \in {1, 4}
      BY <3>1, RetIs DEF End
    <3>. QED
      BY <1>8, <3>1, <3>2
  <2>. QED
    BY <2>1, <2>2, <2>3
<1>13. ASSUME NEW k \in 1 .. Len(st)
       PROVE  /\ st[k].at \in Nat /\ st[k].what.len \in Nat \ {0} /\ st[k].what.op # "zero"
              /\ st[k].what.op = Jump(c).op <=> k \in p + 1 .. p + n
              /\ k + 1 <= Len(st) =>
                   /\ End(st[k]) <= st[k + 1].at
                   /\ \/ st[k].what.op \in Plain /\ End(st[k]) = st[k + 1].at
                      \/ st[k].what.op = "jump" /\ Target(c, st[k].at, st[k].what) = st[k + 1].at
                      \/ /\ st[k].what.op = "jump if zero"
                         /\ Target(c, st[k].at, st[k].what) = st[k + 1].at
                         /\ k > 1 /\ st[1].what.op = "clear"
  <2>1. CASE p = 1 /\ k = 1
    <3>1. st[2].at = B
      <4>1. CASE n = 0
        <5>1. st[p + n + 1].at = B + n * w /\ n * w = 0
          BY <1>8, <1>12, <4>1
        <5>. QED
          BY <1>8, <2>1, <4>1, <5>1
      <4>2. CASE n > 0
        <5>1. 1 \in 1 .. n /\ p + 1 = 2 /\ 0 * w = 0
          BY <1>1, <2>1, <4>2
        <5>2. st[p + 1].at = B + (1 - 1) * w
          BY <1>12, <5>1
        <5>. QED
          BY <1>8, <5>1, <5>2
      <4>. QED
        BY <1>1, <4>1, <4>2
    <3>2. /\ st[k].at = 0 /\ st[k].what.op = "clear" /\ st[k].what.len = B /\ End(st[k]) = B
          /\ k \notin p + 1 .. p + n /\ B \in {2, 4} /\ k + 1 = 2
      BY <1>1, <1>2, <1>12, <2>1
    <3>3. Jump(c).op # "clear" /\ "clear" \in Plain
      BY <1>11 DEF Plain
    <3>. QED
      BY <3>1, <3>2, <3>3
  <2>2. CASE \E i \in 1 .. n : k = p + i
    <3>1. PICK i \in 1 .. n : k = p + i
      BY <2>2
    <3>2. st[k + 1].at = B + i * w
      <4>1. CASE i = n
        BY <1>1, <1>2, <1>12, <3>1, <4>1
      <4>2. CASE i < n
        <5>1. i + 1 \in 1 .. n /\ k + 1 = p + (i + 1) /\ (i + 1) - 1 = i
          BY <1>1, <1>2, <3>1, <4>2
        <5>. QED
          BY <1>12, <5>1
      <4>. QED
        BY <1>1, <4>1, <4>2
    <3>3. st[k].what = Jump(c) /\ st[k].at \in Nat /\ End(st[k]) <= B + i * w
          /\ Target(c, st[k].at, st[k].what) = B + i * w
      BY <1>12, <3>1
    <3>4. /\ c.probe = "branches" => k > 1 /\ st[1].what.op = "clear"
      BY <1>1, <1>2, <1>12, <3>1
    <3>5. k \in p + 1 .. p + n
      BY <1>1, <1>2, <3>1
    <3>. QED
      BY <1>11, <3>2, <3>3, <3>4, <3>5
  <2>3. CASE k = p + n + 1
    <3>1. st[k].what = Ret(c) /\ st[k].at \in Nat /\ ~(k + 1 <= Len(st)) /\ k \notin p + 1 .. p + n
      BY <1>1, <1>2, <1>6, <1>12, <2>3
    <3>2. st[k].what.op = "ret" /\ st[k].what.len \in {1, 4} /\ Jump(c).op # "ret"
      BY <1>11, <3>1, RetIs
    <3>. QED
      BY <3>1, <3>2
  <2>. QED
    BY <1>6, <1>9, <2>1, <2>2, <2>3
<1>14. Len(st) > 0 /\ st[1].at = 0 /\ st[Len(st)].what = Ret(c) /\ End(st[Len(st)]) <= Room(c)
  <2>1. st[Len(st)].what = Ret(c) /\ End(st[Len(st)]) <= Room(c)
    BY <1>6, <1>12
  <2>2. CASE p = 1
    BY <1>1, <1>2, <1>6, <1>12, <2>1, <2>2
  <2>3. CASE p = 0 /\ n = 0
    <3>1. st[1].at = B + 0 * w /\ 0 * w = 0
      BY <1>1, <1>12, <2>3
    <3>. QED
      BY <1>2, <1>6, <2>1, <2>3, <3>1
  <2>4. CASE p = 0 /\ n > 0
    <3>1. 1 \in 1 .. n /\ p + 1 = 1
      BY <1>1, <2>4
    <3>2. st[p + 1].at = B + (1 - 1) * w
      BY <1>12, <3>1
    <3>3. (1 - 1) * w = 0
      BY <1>1
    <3>. QED
      BY <1>1, <1>2, <1>6, <2>1, <2>4, <3>1, <3>2, <3>3
  <2>. QED
    BY <1>1, <1>2, <2>2, <2>3, <2>4
<1>15. InTurn(c, st)
  BY <1>6, <1>8, <1>13, <1>14 DEF InTurn
<1>16. InLine(c, st)
  BY <1>13, <1>14 DEF InLine
<1>. QED
  BY <1>2, <1>6, <1>13, <1>15, <1>16 DEF st, p, n

\* A row of stores and one behind it.
LEMMA RowAndLast ==
  ASSUME NEW n \in Nat, NEW row, row = [i \in 1 .. n |-> row[i]], NEW last
  PROVE  /\ IsList(row \o <<last>>) /\ Len(row \o <<last>>) = n + 1
         /\ \A i \in 1 .. n : (row \o <<last>>)[i] = row[i]
         /\ (row \o <<last>>)[n + 1] = last
<1>. DEFINE one == <<last>>
<1>1. IsList(row) /\ Len(row) = n
  BY MakesList
<1>2. one \in Seq({last}) /\ Len(one) = 1 /\ one[1] = last
  OBVIOUS
<1>. HIDE DEF one
<1>3. IsList(one)
  BY <1>2, ListOf
<1>4. /\ IsList(row \o one) /\ Len(row \o one) = Len(row) + Len(one)
      /\ \A k \in 1 .. Len(row) : (row \o one)[k] = row[k]
      /\ \A k \in 1 .. Len(one) : (row \o one)[Len(row) + k] = one[k]
  BY <1>1, <1>3, Concatenated
<1>5. 1 \in 1 .. Len(one)
  BY <1>2
<1>6. /\ IsList(row \o one) /\ Len(row \o one) = n + 1
      /\ \A i \in 1 .. n : (row \o one)[i] = row[i]
      /\ (row \o one)[n + 1] = last
  BY <1>1, <1>2, <1>4, <1>5
<1>. QED
  BY <1>6 DEF one

\* The body of the fetch kernel is a whole number of no-ops.
LEMMA Whole ==
  ASSUME NEW w \in {1, 4, 8}, NEW m \in Nat
  PROVE  /\ m - (m % w) \in Nat /\ (m - (m % w)) \div w \in Nat
         /\ ((m - (m % w)) \div w) * w = m - (m % w)
<1>1. CASE w = 1
  BY <1>1
<1>2. CASE w = 4
  BY <1>2
<1>3. CASE w = 8
  BY <1>3
<1>. QED
  BY <1>1, <1>2, <1>3

\* The fetch code: a row of no-ops, a return.
LEMMA FetchIs ==
  ASSUME NEW c, IsCase(c), c.probe = "fetch"
  PROVE  /\ InTurn(c, Stores(c)) /\ InLine(c, Stores(c))
         /\ Len(Stores(c)) = Body(c) \div c.width + 1 /\ Body(c) \div c.width \in Nat
         /\ \A k \in 1 .. Len(Stores(c)) :
              Stores(c)[k].what.op = "nop" <=> k \in 1 .. Body(c) \div c.width
<1>. DEFINE w == c.width
            n == Body(c) \div w
            row == [i \in 1 .. n |-> Put((i - 1) * w, Nop(w))]
            last == Put(Body(c), Ret(c))
            st == Stores(c)
<1>1. w \in {1, 4, 8} /\ c.count \in Nat
  BY DEF IsCase
<1>2. Body(c) \in Nat /\ n \in Nat /\ n * w = Body(c)
  BY <1>1, Whole DEF Body
<1>3. Room(c) = Body(c) + Ret(c).len
  BY DEF Room
<1>4. st = row \o <<last>>
  BY DEF Stores, Fetch
<1>5. \A i \in 1 .. n : row[i] = Put((i - 1) * w, Nop(w))
  OBVIOUS
<1>6. row = [i \in 1 .. n |-> row[i]]
  OBVIOUS
<1>. HIDE DEF row, n, w, st
<1>7. /\ IsList(st) /\ Len(st) = n + 1
      /\ \A i \in 1 .. n : st[i] = Put((i - 1) * w, Nop(w))
      /\ st[n + 1] = last
  <2>. HIDE DEF last
  <2>. QED
    BY <1>2, <1>4, <1>5, <1>6, RowAndLast
<1>8. /\ \A a, i : Put(a, i).at = a /\ Put(a, i).what = i
      /\ Nop(w).op = "nop" /\ Nop(w).len = w /\ w \in Nat \ {0}
  BY <1>1 DEF Put, Nop, Ins
<1>9. /\ st[n + 1].at = n * w /\ st[n + 1].what = Ret(c)
      /\ \A i \in 1 .. n : st[i].at = (i - 1) * w /\ st[i].what = Nop(w)
  BY <1>2, <1>7, <1>8
<1>10. \A i \in 1 .. n + 1 : st[i].at = (i - 1) * w /\ st[i].at \in Nat /\ i * w = (i - 1) * w + w
  <2>. TAKE i \in 1 .. n + 1
  <2>1. i - 1 \in Nat /\ (i - 1) + 1 = i
    BY <1>2
  <2>2. (i - 1) * w \in Nat /\ i * w = (i - 1) * w + w
    BY <1>8, <2>1, Multiples
  <2>3. i \in 1 .. n \/ i = n + 1
    BY <1>2
  <2>4. st[n + 1].at = ((n + 1) - 1) * w
    BY <1>2, <1>9
  <2>. QED
    BY <1>9, <2>2, <2>3, <2>4
<1>11. ASSUME NEW k \in 1 .. Len(st)
       PROVE  /\ st[k].at \in Nat /\ st[k].what.len \in Nat \ {0} /\ st[k].what.op # "zero"
              /\ st[k].what.op = "nop" <=> k \in 1 .. n
              /\ k + 1 <= Len(st) => st[k].what.op \in Plain /\ End(st[k]) = st[k + 1].at
  <2>1. CASE k \in 1 .. n
    <3>1. st[k].what = Nop(w) /\ st[k].at \in Nat /\ st[k].at = (k - 1) * w
      BY <1>9, <1>10, <1>7, <2>1
    <3>2. k + 1 \in 1 .. n + 1 /\ (k + 1) - 1 = k /\ k \in 1 .. n + 1
      BY <1>2, <2>1
    <3>3. st[k + 1].at = k * w /\ k * w = (k - 1) * w + w
      BY <1>10, <3>2
    <3>4. End(st[k]) = st[k + 1].at
      BY <1>8, <3>1, <3>3 DEF End
    <3>. QED
      BY <1>8, <2>1, <3>1, <3>4 DEF Plain
  <2>2. CASE k = n + 1
    <3>1. st[k].what = Ret(c) /\ st[k].at \in Nat /\ ~(k + 1 <= Len(st)) /\ k \notin 1 .. n
      BY <1>2, <1>7, <1>9, <1>10, <2>2
    <3>. QED
      BY <3>1, RetIs
  <2>. QED
    BY <1>2, <1>7, <2>1, <2>2
<1>12. /\ Len(st) > 0 /\ st[1].at = 0 /\ st[Len(st)].what = Ret(c)
       /\ End(st[Len(st)]) = Room(c) /\ Room(c) \in Nat
  <2>1. 1 \in 1 .. n + 1 /\ (1 - 1) * w = 0 /\ Ret(c).len \in Nat
    BY <1>2, <1>8, RetIs
  <2>. QED
    BY <1>2, <1>3, <1>7, <1>9, <1>10, <2>1 DEF End
<1>13. InTurn(c, st)
  <2>1. \A k \in 1 .. Len(st) : k + 1 <= Len(st) => End(st[k]) <= st[k + 1].at
    <3>. TAKE k \in 1 .. Len(st)
    <3>. HAVE k + 1 <= Len(st)
    <3>1. k + 1 \in 1 .. Len(st)
      BY <1>2, <1>7
    <3>2. End(st[k]) = st[k + 1].at /\ st[k + 1].at \in Nat
      BY <1>11, <3>1
    <3>. QED
      BY <3>2
  <2>. QED
    BY <1>7, <1>11, <1>12, <2>1 DEF InTurn
<1>14. InLine(c, st)
  BY <1>11, <1>12 DEF InLine
<1>. QED
  BY <1>2, <1>7, <1>11, <1>13, <1>14 DEF st, n, w

\* The indirect targets: a return at the start of each slot.
LEMMA TargetsAre ==
  ASSUME NEW c, IsCase(c), c.probe = "targets"
  PROVE  /\ InTurn(c, Stores(c)) /\ Len(Stores(c)) = c.count
         /\ \A k \in 1 .. c.count :
              Stores(c)[k].at = (k - 1) * TargetSlot /\ Stores(c)[k].what = Ret(c)
<1>. DEFINE n == c.count
            st == Stores(c)
<1>1. n \in Nat
  BY DEF IsCase
<1>2. st = [i \in 1 .. n |-> Put((i - 1) * 16, Ret(c))]
  BY DEF Stores, Targets, TargetSlot
<1>3. st = [i \in 1 .. n |-> st[i]]
  BY <1>2
<1>4. \A i \in 1 .. n : st[i].at = (i - 1) * 16 /\ st[i].what = Ret(c)
  BY <1>2 DEF Put
<1>5. Room(c) = n * 16
  BY DEF Room, TargetSlot
<1>. HIDE DEF n, st
<1>6. IsList(st) /\ Len(st) = n
  BY <1>1, <1>3, MakesList
<1>7. \A i \in 1 .. n : st[i].at \in Nat /\ End(st[i]) <= i * 16
  <2>. TAKE i \in 1 .. n
  <2>1. st[i].at = (i - 1) * 16 /\ st[i].what.len \in {1, 4}
    BY <1>4, RetIs
  <2>. QED
    BY <1>1, <2>1 DEF End
<1>8. \A k \in 1 .. n : k + 1 <= n => End(st[k]) <= st[k + 1].at
  <2>. TAKE k \in 1 .. n
  <2>. HAVE k + 1 <= n
  <2>1. k + 1 \in 1 .. n /\ (k + 1) - 1 = k
    BY <1>1
  <2>2. st[k + 1].at = k * 16 /\ End(st[k]) <= k * 16
    BY <1>4, <1>7, <2>1
  <2>. QED
    BY <2>2
<1>9. InTurn(c, st)
  <2>1. n > 0 => n \in 1 .. n
    BY <1>1
  <2>2. \A k \in 1 .. n : st[k].what.len \in Nat \ {0} /\ st[k].what.op # "zero"
    BY <1>4, RetIs
  <2>3. Room(c) \in Nat
    BY <1>1, <1>5
  <2>. QED
    BY <1>5, <1>6, <1>7, <1>8, <2>1, <2>2, <2>3 DEF InTurn
<1>. QED
  BY <1>4, <1>6, <1>9 DEF st, n, TargetSlot

\* The frames of the nested calls: where each of their instructions is.
FramesAt(c, st) ==
  IF X86(c)
  THEN /\ Len(st) = 2 * c.count + 1
       /\ \A i \in 0 .. c.count - 1 :
            /\ st[2 * i + 1].at = 6 * i /\ st[2 * i + 1].what = Call(c)
            /\ st[2 * i + 2].at = 6 * i + 5 /\ st[2 * i + 2].what = Ret(c)
       /\ st[2 * c.count + 1].at = 6 * c.count /\ st[2 * c.count + 1].what = Ret(c)
  ELSE /\ Len(st) = 4 * c.count + 1
       /\ \A i \in 0 .. c.count - 1 :
            /\ st[4 * i + 1].at = 16 * i /\ st[4 * i + 1].what = Ins("save", 4)
            /\ st[4 * i + 2].at = 16 * i + 4 /\ st[4 * i + 2].what = Call(c)
            /\ st[4 * i + 3].at = 16 * i + 8 /\ st[4 * i + 3].what = Ins("restore", 4)
            /\ st[4 * i + 4].at = 16 * i + 12 /\ st[4 * i + 4].what = Ret(c)
       /\ st[4 * c.count + 1].at = 16 * c.count /\ st[4 * c.count + 1].what = Ret(c)

LEMMA CallIs ==
  ASSUME NEW c
  PROVE  /\ Call(c).op = "call" /\ Call(c).len = IF X86(c) THEN 5 ELSE 4
         /\ \A a \in Nat : Target(c, a, Call(c)) = IF X86(c) THEN a + 6 ELSE a + 12
<1>1. CASE X86(c)
  BY <1>1 DEF Call, Target
<1>2. CASE ~X86(c)
  BY <1>2 DEF Call, Target
<1>. QED
  BY <1>1, <1>2

\* The nested calls: the frames one behind the other, a return behind the last.
LEMMA ReturnsAre ==
  ASSUME NEW c, IsCase(c), c.probe = "returns"
  PROVE  InTurn(c, Stores(c)) /\ FramesAt(c, Stores(c))
<1>. DEFINE n == c.count
            st == Stores(c)
            last == Put(n * ReturnSlot(c), Ret(c))
<1>1. n \in Nat
  BY DEF IsCase
<1>2. \A a, i : Put(a, i).at = a /\ Put(a, i).what = i
  BY DEF Put
<1>3. st = Returns(c) /\ Room(c) = n * ReturnSlot(c) + Ret(c).len
  BY DEF Stores, Room
<1>4. CASE X86(c)
  <2>. DEFINE row == [k \in 1 .. n * 2 |-> Frame(c, ((k - 1) \div 2) * 6)[1 + ((k - 1) % 2)]]
  <2>1. /\ ReturnSlot(c) = 6 /\ Ret(c).len = 1
        /\ \A a : Frame(c, a) = <<Put(a, Call(c)), Put(a + 5, Ret(c))>>
    BY <1>4, RetIs DEF ReturnSlot, Frame
  <2>2. \A a : Len(Frame(c, a)) = 2 /\ Frame(c, a)[1] = Put(a, Call(c))
                 /\ Frame(c, a)[2] = Put(a + 5, Ret(c))
    BY <2>1
  <2>3. st = row \o <<last>>
    BY <1>3, <2>1, <2>2 DEF Returns
  <2>4. row = [k \in 1 .. n * 2 |-> row[k]]
    OBVIOUS
  <2>5. \A i \in 0 .. n - 1 : row[2 * i + 1] = Put(6 * i, Call(c)) /\ row[2 * i + 2] = Put(6 * i + 5, Ret(c))
    <3>. TAKE i \in 0 .. n - 1
    <3>1. /\ 2 * i + 1 \in 1 .. n * 2 /\ 2 * i + 2 \in 1 .. n * 2
          /\ ((2 * i + 1) - 1) \div 2 = i /\ ((2 * i + 1) - 1) % 2 = 0
          /\ ((2 * i + 2) - 1) \div 2 = i /\ ((2 * i + 2) - 1) % 2 = 1
      BY <1>1
    <3>2. row[2 * i + 1] = Frame(c, i * 6)[1 + 0] /\ row[2 * i + 2] = Frame(c, i * 6)[1 + 1]
      BY <3>1
    <3>3. i * 6 = 6 * i
      OBVIOUS
    <3>. QED
      BY <2>2, <3>2, <3>3
  <2>. HIDE DEF row, last, st
  <2>6. /\ IsList(st) /\ Len(st) = 2 * n + 1 /\ st[2 * n + 1] = last
        /\ \A k \in 1 .. 2 * n : st[k] = row[k]
    <3>1. n * 2 \in Nat /\ n * 2 = 2 * n
      BY <1>1
    <3>. DEFINE m == n * 2
    <3>. HIDE DEF n
    <3>2. m \in Nat /\ row = [k \in 1 .. m |-> row[k]] /\ m = 2 * n
      BY <2>4, <3>1
    <3>. HIDE DEF m
    <3>3. /\ IsList(row \o <<last>>) /\ Len(row \o <<last>>) = m + 1
          /\ \A i \in 1 .. m : (row \o <<last>>)[i] = row[i]
          /\ (row \o <<last>>)[m + 1] = last
      BY <3>2, RowAndLast
    <3>. QED
      BY <2>3, <3>2, <3>3
  <2>7. last.at = 6 * n /\ last.what = Ret(c) /\ 6 * n \in Nat
    BY <1>1, <1>2, <2>1 DEF last
  <2>. HIDE DEF n
  <2>8. \A i \in 0 .. n - 1 :
          /\ st[2 * i + 1].at = 6 * i /\ st[2 * i + 1].what = Call(c)
          /\ st[2 * i + 2].at = 6 * i + 5 /\ st[2 * i + 2].what = Ret(c)
    <3>. TAKE i \in 0 .. n - 1
    <3>1. 2 * i + 1 \in 1 .. 2 * n /\ 2 * i + 2 \in 1 .. 2 * n
      BY <1>1
    <3>2. st[2 * i + 1] = row[2 * i + 1] /\ st[2 * i + 2] = row[2 * i + 2]
      BY <2>6, <3>1
    <3>. QED
      BY <1>2, <2>5, <3>2
  <2>9. FramesAt(c, st)
    BY <1>4, <2>6, <2>7, <2>8 DEF FramesAt, n
  <2>10. \A i \in 0 .. n - 1 : End(st[2 * i + 1]) = 6 * i + 5 /\ End(st[2 * i + 2]) = 6 * i + 6
    BY <1>4, <2>1, <2>8, CallIs DEF End
  <2>11. End(st[2 * n + 1]) = Room(c) /\ Room(c) \in Nat
    BY <1>1, <1>3, <2>1, <2>6, <2>7 DEF End
  <2>12. \A k \in 1 .. 2 * n + 1 :
           k = 2 * n + 1 \/ \E i \in 0 .. n - 1 : k = 2 * i + 1 \/ k = 2 * i + 2
    <3>. TAKE k \in 1 .. 2 * n + 1
    <3>. DEFINE i == (k - 1) \div 2
    <3>1. i \in Nat /\ (k = 2 * i + 1 \/ k = 2 * i + 2)
      BY <1>1
    <3>. HIDE DEF i
    <3>2. k = 2 * n + 1 \/ i \in 0 .. n - 1
      BY <1>1, <3>1
    <3>. QED
      BY <3>1, <3>2
  <2>13. ASSUME NEW k \in 1 .. Len(st)
         PROVE  /\ st[k].at \in Nat /\ st[k].what.len \in Nat \ {0} /\ st[k].what.op # "zero"
                /\ k + 1 <= Len(st) => End(st[k]) <= st[k + 1].at
    <3>1. CASE k = 2 * n + 1
      <4>1. st[k].at \in Nat /\ st[k].what = Ret(c) /\ ~(k + 1 <= Len(st))
        BY <1>1, <2>6, <2>7, <3>1
      <4>. QED
        BY <4>1, RetIs
    <3>2. ASSUME NEW i \in 0 .. n - 1, k = 2 * i + 1
          PROVE  /\ st[k].at \in Nat /\ st[k].what.len \in Nat \ {0} /\ st[k].what.op # "zero"
                 /\ k + 1 <= Len(st) => End(st[k]) <= st[k + 1].at
      <4>1. k + 1 = 2 * i + 2
        BY <3>2
      <4>2. st[k].at = 6 * i /\ st[k].what = Call(c) /\ st[k + 1].at = 6 * i + 5
        BY <2>8, <3>2, <4>1
      <4>3. End(st[k]) = 6 * i + 5
        BY <2>10, <3>2
      <4>4. Call(c).op = "call" /\ Call(c).len = 5
        BY <1>4, CallIs
      <4>. QED
        BY <1>1, <4>2, <4>3, <4>4
    <3>3. ASSUME NEW i \in 0 .. n - 1, k = 2 * i + 2
          PROVE  /\ st[k].at \in Nat /\ st[k].what.len \in Nat \ {0} /\ st[k].what.op # "zero"
                 /\ k + 1 <= Len(st) => End(st[k]) <= st[k + 1].at
      <4>1. st[k].at = 6 * i + 5 /\ st[k].what = Ret(c) /\ End(st[k]) = 6 * i + 6
        BY <2>8, <2>10, <3>3
      <4>2. st[k + 1].at = 6 * (i + 1)
        <5>1. CASE i + 1 = n
          <6>1. k + 1 = 2 * n + 1
            BY <1>1, <3>3, <5>1
          <6>. QED
            BY <2>6, <2>7, <5>1, <6>1
        <5>2. CASE i + 1 # n
          <6>1. k + 1 = 2 * (i + 1) + 1 /\ i + 1 \in 0 .. n - 1
            BY <1>1, <3>3, <5>2
          <6>. QED
            BY <2>8, <6>1
        <5>. QED
          BY <5>1, <5>2
      <4>. QED
        BY <1>1, <4>1, <4>2, RetIs
    <3>. QED
      BY <2>6, <2>12, <3>1, <3>2, <3>3
  <2>14. InTurn(c, st)
    <3>1. st[Len(st)] = st[2 * n + 1]
      BY <2>6
    <3>. QED
      BY <2>6, <2>11, <2>13, <3>1 DEF InTurn
  <2>. QED
    BY <2>9, <2>14 DEF st
<1>5. CASE ~X86(c)
  <2>. DEFINE row == [k \in 1 .. n * 4 |-> Frame(c, ((k - 1) \div 4) * 16)[1 + ((k - 1) % 4)]]
  <2>1. /\ ReturnSlot(c) = 16 /\ Ret(c).len = 4
        /\ \A a : Frame(c, a) = <<Put(a, Ins("save", 4)), Put(a + 4, Call(c)),
                                  Put(a + 8, Ins("restore", 4)), Put(a + 12, Ret(c))>>
    BY <1>5, RetIs DEF ReturnSlot, Frame
  <2>2. \A a : /\ Len(Frame(c, a)) = 4 /\ Frame(c, a)[1] = Put(a, Ins("save", 4))
               /\ Frame(c, a)[2] = Put(a + 4, Call(c))
               /\ Frame(c, a)[3] = Put(a + 8, Ins("restore", 4))
               /\ Frame(c, a)[4] = Put(a + 12, Ret(c))
    BY <2>1
  <2>3. st = row \o <<last>>
    BY <1>3, <2>1, <2>2 DEF Returns
  <2>4. row = [k \in 1 .. n * 4 |-> row[k]]
    OBVIOUS
  <2>5. \A i \in 0 .. n - 1 :
          /\ row[4 * i + 1] = Put(16 * i, Ins("save", 4))
          /\ row[4 * i + 2] = Put(16 * i + 4, Call(c))
          /\ row[4 * i + 3] = Put(16 * i + 8, Ins("restore", 4))
          /\ row[4 * i + 4] = Put(16 * i + 12, Ret(c))
    <3>. TAKE i \in 0 .. n - 1
    <3>1. /\ 4 * i + 1 \in 1 .. n * 4 /\ ((4 * i + 1) - 1) \div 4 = i /\ ((4 * i + 1) - 1) % 4 = 0
          /\ 4 * i + 2 \in 1 .. n * 4 /\ ((4 * i + 2) - 1) \div 4 = i /\ ((4 * i + 2) - 1) % 4 = 1
          /\ 4 * i + 3 \in 1 .. n * 4 /\ ((4 * i + 3) - 1) \div 4 = i /\ ((4 * i + 3) - 1) % 4 = 2
          /\ 4 * i + 4 \in 1 .. n * 4 /\ ((4 * i + 4) - 1) \div 4 = i /\ ((4 * i + 4) - 1) % 4 = 3
      BY <1>1
    <3>2. /\ row[4 * i + 1] = Frame(c, i * 16)[1 + 0] /\ row[4 * i + 2] = Frame(c, i * 16)[1 + 1]
          /\ row[4 * i + 3] = Frame(c, i * 16)[1 + 2] /\ row[4 * i + 4] = Frame(c, i * 16)[1 + 3]
      BY <3>1
    <3>3. i * 16 = 16 * i
      OBVIOUS
    <3>. QED
      BY <2>2, <3>2, <3>3
  <2>. HIDE DEF row, last, st
  <2>6. /\ IsList(st) /\ Len(st) = 4 * n + 1 /\ st[4 * n + 1] = last
        /\ \A k \in 1 .. 4 * n : st[k] = row[k]
    <3>1. n * 4 \in Nat /\ n * 4 = 4 * n
      BY <1>1
    <3>. DEFINE m == n * 4
    <3>. HIDE DEF n
    <3>2. m \in Nat /\ row = [k \in 1 .. m |-> row[k]] /\ m = 4 * n
      BY <2>4, <3>1
    <3>. HIDE DEF m
    <3>3. /\ IsList(row \o <<last>>) /\ Len(row \o <<last>>) = m + 1
          /\ \A i \in 1 .. m : (row \o <<last>>)[i] = row[i]
          /\ (row \o <<last>>)[m + 1] = last
      BY <3>2, RowAndLast
    <3>. QED
      BY <2>3, <3>2, <3>3
  <2>7. last.at = 16 * n /\ last.what = Ret(c) /\ 16 * n \in Nat
    BY <1>1, <1>2, <2>1 DEF last
  <2>. HIDE DEF n
  <2>8. \A i \in 0 .. n - 1 :
          /\ st[4 * i + 1].at = 16 * i /\ st[4 * i + 1].what = Ins("save", 4)
          /\ st[4 * i + 2].at = 16 * i + 4 /\ st[4 * i + 2].what = Call(c)
          /\ st[4 * i + 3].at = 16 * i + 8 /\ st[4 * i + 3].what = Ins("restore", 4)
          /\ st[4 * i + 4].at = 16 * i + 12 /\ st[4 * i + 4].what = Ret(c)
    <3>. TAKE i \in 0 .. n - 1
    <3>1. /\ 4 * i + 1 \in 1 .. 4 * n /\ 4 * i + 2 \in 1 .. 4 * n
          /\ 4 * i + 3 \in 1 .. 4 * n /\ 4 * i + 4 \in 1 .. 4 * n
      BY <1>1
    <3>2. /\ st[4 * i + 1] = row[4 * i + 1] /\ st[4 * i + 2] = row[4 * i + 2]
          /\ st[4 * i + 3] = row[4 * i + 3] /\ st[4 * i + 4] = row[4 * i + 4]
      BY <2>6, <3>1
    <3>. QED
      BY <1>2, <2>5, <3>2
  <2>9. FramesAt(c, st)
    BY <1>5, <2>6, <2>7, <2>8 DEF FramesAt, n
  <2>10. \A i \in 0 .. n - 1 : \A j \in 1 .. 4 :
           /\ st[4 * i + j].at = 16 * i + 4 * (j - 1) /\ st[4 * i + j].what.len = 4
           /\ st[4 * i + j].what.op # "zero"
    <3>. TAKE i \in 0 .. n - 1
    <3>1. Ret(c).op = "ret" /\ Ret(c).len = 4 /\ Call(c).op = "call" /\ Call(c).len = 4
      BY <1>5, RetIs, CallIs
    <3>2. /\ Ins("save", 4).op = "save" /\ Ins("save", 4).len = 4
          /\ Ins("restore", 4).op = "restore" /\ Ins("restore", 4).len = 4
      BY DEF Ins
    <3>3. \A j \in 1 .. 4 : j = 1 \/ j = 2 \/ j = 3 \/ j = 4
      OBVIOUS
    <3>. QED
      BY <1>1, <2>8, <3>1, <3>2, <3>3
  <2>11. End(st[4 * n + 1]) = Room(c) /\ Room(c) \in Nat
    BY <1>1, <1>3, <2>1, <2>6, <2>7 DEF End
  <2>12. \A k \in 1 .. 4 * n + 1 :
           k = 4 * n + 1 \/ \E i \in 0 .. n - 1 : \E j \in 1 .. 4 : k = 4 * i + j
    <3>. TAKE k \in 1 .. 4 * n + 1
    <3>. DEFINE i == (k - 1) \div 4
                j == 1 + ((k - 1) % 4)
    <3>1. i \in Nat /\ j \in 1 .. 4 /\ k = 4 * i + j
      BY <1>1
    <3>. HIDE DEF i, j
    <3>2. k = 4 * n + 1 \/ i \in 0 .. n - 1
      BY <1>1, <3>1
    <3>. QED
      BY <3>1, <3>2
  <2>13. ASSUME NEW k \in 1 .. Len(st)
         PROVE  /\ st[k].at \in Nat /\ st[k].what.len \in Nat \ {0} /\ st[k].what.op # "zero"
                /\ k + 1 <= Len(st) => End(st[k]) <= st[k + 1].at
    <3>1. CASE k = 4 * n + 1
      <4>1. st[k].at \in Nat /\ st[k].what = Ret(c) /\ ~(k + 1 <= Len(st))
        BY <1>1, <2>6, <2>7, <3>1
      <4>. QED
        BY <4>1, RetIs
    <3>2. ASSUME NEW i \in 0 .. n - 1, NEW j \in 1 .. 4, k = 4 * i + j
          PROVE  /\ st[k].at \in Nat /\ st[k].what.len \in Nat \ {0} /\ st[k].what.op # "zero"
                 /\ k + 1 <= Len(st) => End(st[k]) <= st[k + 1].at
      <4>1. st[k].at = 16 * i + 4 * (j - 1) /\ st[k].what.len = 4 /\ st[k].what.op # "zero"
        BY <2>10, <3>2
      <4>2. st[k + 1].at = 16 * i + 4 * j
        <5>1. CASE j < 4
          <6>1. j + 1 \in 1 .. 4 /\ k + 1 = 4 * i + (j + 1) /\ (j + 1) - 1 = j
            BY <3>2, <5>1
          <6>. QED
            BY <2>10, <6>1
        <5>2. CASE j = 4 /\ i + 1 = n
          <6>1. k + 1 = 4 * n + 1 /\ 16 * n = 16 * i + 4 * j
            BY <1>1, <3>2, <5>2
          <6>. QED
            BY <2>6, <2>7, <6>1
        <5>3. CASE j = 4 /\ i + 1 # n
          <6>1. k + 1 = 4 * (i + 1) + 1 /\ i + 1 \in 0 .. n - 1 /\ 16 * (i + 1) = 16 * i + 4 * j
            BY <1>1, <3>2, <5>3
          <6>. QED
            BY <2>8, <6>1
        <5>. QED
          BY <5>1, <5>2, <5>3
      <4>. QED
        BY <1>1, <4>1, <4>2 DEF End
    <3>. QED
      BY <2>6, <2>12, <3>1, <3>2
  <2>14. InTurn(c, st)
    <3>1. st[Len(st)] = st[4 * n + 1]
      BY <2>6
    <3>. QED
      BY <2>6, <2>11, <2>13, <3>1 DEF InTurn
  <2>. QED
    BY <2>9, <2>14 DEF st
<1>. QED
  BY <1>4, <1>5

\* A list and behind it a row of one element.
Row(t, n, x) == IsList(t) /\ Len(t) = n /\ \A k \in 1 .. n : t[k] = x

LEMMA Extended ==
  ASSUME NEW s, IsList(s), NEW n \in Nat, NEW x, NEW t, Row(t, n, x)
  PROVE  /\ IsList(s \o t) /\ Len(s \o t) = Len(s) + n
         /\ \A k \in 1 .. Len(s) : (s \o t)[k] = s[k]
         /\ \A k \in Len(s) + 1 .. Len(s) + n : (s \o t)[k] = x
<1>1. IsList(t)
  BY DEF Row
<1>2. /\ IsList(s \o t) /\ Len(s \o t) = Len(s) + Len(t)
      /\ \A k \in 1 .. Len(s) : (s \o t)[k] = s[k]
      /\ \A k \in 1 .. Len(t) : (s \o t)[Len(s) + k] = t[k]
  BY <1>1, Concatenated
<1>3. Len(t) = n /\ \A k \in 1 .. n : t[k] = x
  BY DEF Row
<1>4. ASSUME NEW k \in Len(s) + 1 .. Len(s) + n
      PROVE  (s \o t)[k] = x
  <2>1. Len(s) \in Nat
    BY DEF IsList
  <2>2. k - Len(s) \in 1 .. n /\ Len(s) + (k - Len(s)) = k
    BY <2>1
  <2>. QED
    BY <1>2, <1>3, <2>2
<1>. QED
  BY <1>2, <1>3, <1>4

LEMMA Rows ==
  ASSUME NEW n \in Nat, NEW x
  PROVE  Row([i \in 1 .. n |-> x], n, x) /\ Row(<<x>>, 1, x)
<1>. DEFINE t == [i \in 1 .. n |-> x]
            u == <<x>>
<1>1. t = [i \in 1 .. n |-> t[i]] /\ \A k \in 1 .. n : t[k] = x
  OBVIOUS
<1>2. u \in Seq({x}) /\ Len(u) = 1 /\ \A k \in 1 .. 1 : u[k] = x
  OBVIOUS
<1>. HIDE DEF t, u
<1>3. Row(t, n, x)
  BY <1>1, MakesList DEF Row
<1>4. Row(u, 1, x)
  BY <1>2, ListOf DEF Row
<1>. QED
  BY <1>3, <1>4 DEF t, u

\* The reorder-window code: the two loads are seven instructions and the fillers apart.
LEMMA TrialIs ==
  ASSUME NEW c, IsCase(c), c.probe = "rob"
  PROVE  /\ InTurn(c, Stores(c)) /\ InLine(c, Stores(c)) /\ Len(Stores(c)) = 16 + c.count
         /\ \A k \in 1 .. Len(Stores(c)) :
              /\ Stores(c)[k].what.op = "add" <=> k \in 8 .. c.count + 7
              /\ Stores(c)[k].what.op = "load" <=> k = 7 \/ k = c.count + 8
<1>. DEFINE n == c.count
            st == Stores(c)
            s1 == [i \in 1 .. 4 |-> Ins("clear", 3)]
            t2 == [i \in 1 .. 2 |-> Ins("clear", 2)]
            load == <<Ins("load", 3)>>
            t4 == [i \in 1 .. n |-> Ins("add", 4)]
            t6 == [i \in 1 .. 7 |-> Ins("xor", 3)]
            ret == <<Ret(c)>>
            s2 == s1 \o t2
            s3 == s2 \o load
            s4 == s3 \o t4
            s5 == s4 \o load
            s6 == s5 \o t6
            s7 == s6 \o ret
<1>1. n \in Nat /\ X86(c)
  BY DEF IsCase, X86
<1>2. /\ st = Packed(s7) /\ Room(c) = 128 + 4 * n
  BY DEF Stores, Trial, Room
<1>3. /\ Row(s1, 4, Ins("clear", 3)) /\ Row(t2, 2, Ins("clear", 2)) /\ Row(load, 1, Ins("load", 3))
      /\ Row(t4, n, Ins("add", 4)) /\ Row(t6, 7, Ins("xor", 3)) /\ Row(ret, 1, Ret(c))
  BY <1>1, Rows
<1>. HIDE DEF s1, t2, load, t4, t6, ret
<1>4. IsList(s1) /\ Len(s1) = 4 /\ \A k \in 1 .. 4 : s1[k] = Ins("clear", 3)
  BY <1>3 DEF Row
<1>5. /\ IsList(s2) /\ Len(s2) = 6 /\ \A k \in 1 .. 4 : s2[k] = s1[k]
      /\ \A k \in 5 .. 6 : s2[k] = Ins("clear", 2)
  <2>1. IsList(s1) /\ Row(t2, 2, Ins("clear", 2)) /\ 2 \in Nat
    BY <1>1, <1>3, <1>4
  <2>2. /\ IsList(s2) /\ Len(s2) = Len(s1) + 2
        /\ \A k \in 1 .. Len(s1) : s2[k] = s1[k]
        /\ \A k \in Len(s1) + 1 .. Len(s1) + 2 : s2[k] = Ins("clear", 2)
    BY <2>1, Extended
  <2>. HIDE DEF s2
  <2>. QED
    BY <1>1, <1>4, <2>2
<1>. HIDE DEF s2
<1>6. /\ IsList(s3) /\ Len(s3) = 7 /\ \A k \in 1 .. 6 : s3[k] = s2[k]
      /\ s3[7] = Ins("load", 3)
  <2>1. IsList(s2) /\ Row(load, 1, Ins("load", 3)) /\ 1 \in Nat
    BY <1>1, <1>3, <1>5
  <2>2. /\ IsList(s3) /\ Len(s3) = Len(s2) + 1
        /\ \A k \in 1 .. Len(s2) : s3[k] = s2[k]
        /\ \A k \in Len(s2) + 1 .. Len(s2) + 1 : s3[k] = Ins("load", 3)
    BY <2>1, Extended
  <2>. HIDE DEF s3
  <2>. QED
    BY <1>1, <1>5, <2>2
<1>. HIDE DEF s3
<1>. HIDE DEF n
<1>7. /\ IsList(s4) /\ Len(s4) = 7 + n /\ \A k \in 1 .. 7 : s4[k] = s3[k]
      /\ \A k \in 8 .. 7 + n : s4[k] = Ins("add", 4)
  <2>1. IsList(s3) /\ Row(t4, n, Ins("add", 4)) /\ n \in Nat
    BY <1>1, <1>3, <1>6
  <2>2. /\ IsList(s4) /\ Len(s4) = Len(s3) + n
        /\ \A k \in 1 .. Len(s3) : s4[k] = s3[k]
        /\ \A k \in Len(s3) + 1 .. Len(s3) + n : s4[k] = Ins("add", 4)
    BY <2>1, Extended
  <2>. HIDE DEF s4
  <2>. QED
    BY <1>1, <1>6, <2>2
<1>. HIDE DEF s4
<1>8. /\ IsList(s5) /\ Len(s5) = 8 + n /\ \A k \in 1 .. 7 + n : s5[k] = s4[k]
      /\ s5[8 + n] = Ins("load", 3)
  <2>1. IsList(s4) /\ Row(load, 1, Ins("load", 3)) /\ 1 \in Nat
    BY <1>1, <1>3, <1>7
  <2>2. /\ IsList(s5) /\ Len(s5) = Len(s4) + 1
        /\ \A k \in 1 .. Len(s4) : s5[k] = s4[k]
        /\ \A k \in Len(s4) + 1 .. Len(s4) + 1 : s5[k] = Ins("load", 3)
    BY <2>1, Extended
  <2>. HIDE DEF s5
  <2>. QED
    BY <1>1, <1>7, <2>2
<1>. HIDE DEF s5
<1>9. /\ IsList(s6) /\ Len(s6) = 15 + n /\ \A k \in 1 .. 8 + n : s6[k] = s5[k]
      /\ \A k \in 9 + n .. 15 + n : s6[k] = Ins("xor", 3)
  <2>1. IsList(s5) /\ Row(t6, 7, Ins("xor", 3)) /\ 7 \in Nat
    BY <1>1, <1>3, <1>8
  <2>2. /\ IsList(s6) /\ Len(s6) = Len(s5) + 7
        /\ \A k \in 1 .. Len(s5) : s6[k] = s5[k]
        /\ \A k \in Len(s5) + 1 .. Len(s5) + 7 : s6[k] = Ins("xor", 3)
    BY <2>1, Extended
  <2>. HIDE DEF s6
  <2>. QED
    BY <1>1, <1>8, <2>2
<1>. HIDE DEF s6
<1>10. /\ IsList(s7) /\ Len(s7) = 16 + n /\ \A k \in 1 .. 15 + n : s7[k] = s6[k]
       /\ s7[16 + n] = Ret(c)
  <2>1. IsList(s6) /\ Row(ret, 1, Ret(c)) /\ 1 \in Nat
    BY <1>1, <1>3, <1>9
  <2>2. /\ IsList(s7) /\ Len(s7) = Len(s6) + 1
        /\ \A k \in 1 .. Len(s6) : s7[k] = s6[k]
        /\ \A k \in Len(s6) + 1 .. Len(s6) + 1 : s7[k] = Ret(c)
    BY <2>1, Extended
  <2>. HIDE DEF s7
  <2>. QED
    BY <1>1, <1>9, <2>2
<1>. HIDE DEF s7
<1>11. /\ \A k \in 1 .. 4 : s7[k] = Ins("clear", 3)
       /\ \A k \in 5 .. 6 : s7[k] = Ins("clear", 2)
       /\ s7[7] = Ins("load", 3)
       /\ \A k \in 8 .. 7 + n : s7[k] = Ins("add", 4)
       /\ s7[8 + n] = Ins("load", 3)
       /\ \A k \in 9 + n .. 15 + n : s7[k] = Ins("xor", 3)
       /\ s7[16 + n] = Ret(c)
  <2>1. \A k \in 1 .. 8 + n : s7[k] = s5[k]
    BY <1>1, <1>9, <1>10
  <2>2. \A k \in 1 .. 7 + n : s7[k] = s4[k]
    BY <1>1, <1>8, <2>1
  <2>3. \A k \in 1 .. 7 : s7[k] = s3[k]
    BY <1>1, <1>7, <2>2
  <2>4. \A k \in 1 .. 6 : s7[k] = s2[k]
    BY <1>6, <2>3
  <2>5. \A k \in 1 .. 4 : s7[k] = s1[k]
    BY <1>5, <2>4
  <2>6. 8 + n \in 1 .. 8 + n /\ \A k \in 8 .. 7 + n : k \in 1 .. 7 + n
    BY <1>1
  <2>7. \A k \in 9 + n .. 15 + n : k \in 1 .. 15 + n
    BY <1>1
  <2>8. s7[8 + n] = Ins("load", 3)
    BY <1>8, <2>1, <2>6
  <2>9. \A k \in 8 .. 7 + n : s7[k] = Ins("add", 4)
    BY <1>7, <2>2, <2>6
  <2>10. \A k \in 9 + n .. 15 + n : s7[k] = Ins("xor", 3)
    BY <1>9, <1>10, <2>7
  <2>. QED
    BY <1>4, <1>5, <1>6, <1>10, <2>3, <2>4, <2>5, <2>8, <2>9, <2>10
<1>12. \A op, len : Ins(op, len).op = op /\ Ins(op, len).len = len
  BY DEF Ins
<1>13. Ret(c).op = "ret" /\ Ret(c).len = 1
  BY <1>1, RetIs
<1>. DEFINE end == [k \in 0 .. 16 + n |->
                      IF k <= 4 THEN 3 * k ELSE IF k <= 6 THEN 12 + 2 * (k - 4)
                      ELSE IF k = 7 THEN 19 ELSE IF k <= 7 + n THEN 19 + 4 * (k - 7)
                      ELSE IF k <= 15 + n THEN 22 + 4 * n + 3 * (k - 8 - n) ELSE 44 + 4 * n]
<1>14. ASSUME NEW k \in 1 .. 16 + n
       PROVE  /\ end[k] = end[k - 1] + s7[k].len /\ end[k - 1] \in Nat
              /\ s7[k].op # "zero" /\ s7[k].len \in Nat \ {0}
              /\ k < 16 + n => s7[k].op \in Plain
              /\ s7[k].op = "add" <=> k \in 8 .. n + 7
              /\ s7[k].op = "load" <=> k = 7 \/ k = n + 8
  <2>1. k \in 0 .. 16 + n /\ k - 1 \in 0 .. 16 + n
    BY <1>1
  <2>. DEFINE F(j) == IF j <= 4 THEN 3 * j ELSE IF j <= 6 THEN 12 + 2 * (j - 4)
                      ELSE IF j = 7 THEN 19 ELSE IF j <= 7 + n THEN 19 + 4 * (j - 7)
                      ELSE IF j <= 15 + n THEN 22 + 4 * n + 3 * (j - 8 - n) ELSE 44 + 4 * n
  <2>2. end[k] = F(k) /\ end[k - 1] = F(k - 1)
    BY <2>1
  <2>. HIDE DEF end
  <2>3. CASE k \in 1 .. 4
    BY <1>1, <1>11, <1>12, <2>2, <2>3 DEF Plain
  <2>4. CASE k \in 5 .. 6
    BY <1>1, <1>11, <1>12, <2>2, <2>4 DEF Plain
  <2>5. CASE k = 7
    BY <1>1, <1>11, <1>12, <2>2, <2>5 DEF Plain
  <2>6. CASE k \in 8 .. 7 + n
    BY <1>1, <1>11, <1>12, <2>2, <2>6 DEF Plain
  <2>7. CASE k = 8 + n
    BY <1>1, <1>11, <1>12, <2>2, <2>7 DEF Plain
  <2>8. CASE k \in 9 + n .. 15 + n
    BY <1>1, <1>11, <1>12, <2>2, <2>8 DEF Plain
  <2>9. CASE k = 16 + n
    BY <1>1, <1>11, <1>13, <2>2, <2>9
  <2>. QED
    BY <1>1, <2>3, <2>4, <2>5, <2>6, <2>7, <2>8, <2>9
<1>15. end = [k \in 0 .. 16 + n |-> end[k]] /\ end[0] = 0 /\ end[16 + n] = 44 + 4 * n
  BY <1>1
<1>. HIDE DEF end
<1>16. st = [k \in 1 .. 16 + n |-> Put(end[k - 1], s7[k])]
  <2>1. /\ IsList(s7) /\ end = [k \in 0 .. Len(s7) |-> end[k]] /\ end[0] = 0
        /\ \A k \in 1 .. Len(s7) : end[k] = end[k - 1] + s7[k].len
    BY <1>10, <1>14, <1>15
  <2>2. Packed(s7) = [k \in 1 .. Len(s7) |-> Put(end[k - 1], s7[k])]
    BY <2>1, PackedIs
  <2>. QED
    BY <1>2, <1>10, <2>2
<1>. HIDE DEF st
<1>17. IsList(st) /\ Len(st) = 16 + n
  <2>1. 16 + n \in Nat /\ st = [k \in 1 .. 16 + n |-> st[k]]
    BY <1>1, <1>16
  <2>. QED
    BY <2>1, MakesList
<1>18. \A k \in 1 .. 16 + n : /\ st[k].at = end[k - 1] /\ st[k].what = s7[k]
                              /\ End(st[k]) = end[k]
  BY <1>14, <1>16 DEF Put, End
<1>19. ASSUME NEW k \in 1 .. Len(st), k + 1 <= Len(st)
       PROVE  st[k].what.op \in Plain /\ End(st[k]) = st[k + 1].at /\ st[k + 1].at \in Nat
  <2>1. k \in 1 .. 16 + n /\ k + 1 \in 1 .. 16 + n /\ (k + 1) - 1 = k /\ k < 16 + n
    BY <1>1, <1>17, <1>19
  <2>2. End(st[k]) = end[k] /\ st[k].what = s7[k] /\ st[k + 1].at = end[k]
    BY <1>18, <2>1
  <2>. QED
    BY <1>14, <2>1, <2>2
<1>20. /\ Room(c) \in Nat /\ End(st[Len(st)]) <= Room(c)
       /\ st[1].at = 0 /\ st[Len(st)].what = Ret(c) /\ Len(st) > 0
  <2>1. 16 + n \in 1 .. 16 + n /\ 1 \in 1 .. 16 + n /\ 1 - 1 = 0
    BY <1>1
  <2>2. End(st[16 + n]) = 44 + 4 * n /\ st[1].at = 0 /\ st[16 + n].what = Ret(c)
    BY <1>11, <1>15, <1>18, <2>1
  <2>. QED
    BY <1>1, <1>2, <1>17, <2>2
<1>21. InTurn(c, st)
  <2>1. \A k \in 1 .. Len(st) : k + 1 <= Len(st) => End(st[k]) <= st[k + 1].at
    BY <1>19
  <2>2. \A k \in 1 .. Len(st) :
          st[k].at \in Nat /\ st[k].what.len \in Nat \ {0} /\ st[k].what.op # "zero"
    <3>. TAKE k \in 1 .. Len(st)
    <3>1. k \in 1 .. 16 + n
      BY <1>17
    <3>2. st[k].at = end[k - 1] /\ st[k].what = s7[k]
      BY <1>18, <3>1
    <3>3. end[k - 1] \in Nat /\ s7[k].op # "zero" /\ s7[k].len \in Nat \ {0}
      BY <1>14, <3>1
    <3>. QED
      BY <3>2, <3>3
  <2>. QED
    BY <1>17, <1>20, <2>1, <2>2 DEF InTurn
<1>22. InLine(c, st)
  BY <1>19, <1>20 DEF InLine
<1>23. \A k \in 1 .. Len(st) : /\ st[k].what.op = "add" <=> k \in 8 .. n + 7
                               /\ st[k].what.op = "load" <=> k = 7 \/ k = n + 8
  BY <1>14, <1>17, <1>18
<1>. QED
  BY <1>17, <1>21, <1>22, <1>23 DEF st, n

\* What every generated code has in common.
LEMMA StoresAre ==
  ASSUME NEW c, IsCase(c)
  PROVE  InTurn(c, Stores(c)) /\ (Straight(c) => InLine(c, Stores(c)))
<1>1. c.probe \in {"jumps", "branches", "returns", "targets", "rob", "fetch"}
  BY DEF IsCase
<1>. QED
  BY <1>1, JumpsAre, FetchIs, TargetsAre, ReturnsAre, TrialIs DEF Straight

--------------------------------------------------------------------------------
(* The inductive invariant. *)

\* What has been stored stays, and nothing runs before all of it is.
MemInv ==
  /\ case \in Cases /\ stage \in {"new", "emit", "sealed", "failed"}
  /\ stage = "new" => emitted = 0
  /\ stage \in {"emit", "sealed"} =>
       /\ emitted \in 0 .. Len(Stores(case)) /\ DOMAIN mem = 0 .. Room(case) - 1
       /\ \A k \in 1 .. emitted : \A j \in 0 .. Stores(case)[k].what.len - 1 :
            mem[Stores(case)[k].at + j] = [what |-> Stores(case)[k].what, byte |-> j]
  /\ stage = "sealed" => emitted = Len(Stores(case))
  /\ stage # "sealed" =>
       ip = Caller /\ called = {} /\ stack = <<>> /\ link = Caller /\ ran = <<>>

\* Straight code is about to execute its n-th instruction; it has not been called
\* (0), or it has returned.
StraightAt(n) ==
  LET st == Stores(case) IN
  /\ called = IF n = 0 THEN {} ELSE {0}
  /\ ip = IF n \in 1 .. Len(st) THEN st[n].at ELSE Caller
  /\ stack = IF n \in 1 .. Len(st) /\ X86(case) THEN <<Caller>> ELSE <<>>
  /\ X86(case) \/ link = Caller
  /\ IsList(ran) /\ Len(ran) = IF n = 0 THEN 0 ELSE n - 1
  /\ \A j \in 1 .. Len(ran) : ran[j] = st[j].what.op
  /\ n > 1 /\ st[1].what.op = "clear" => zero

StraightInv == entries = {0} /\ \E n \in 0 .. Len(Stores(case)) + 1 : StraightAt(n)

\* Where the i-th nested call returns to.
Back(i) ==
  IF i = 0 THEN Caller ELSE IF X86(case) THEN 6 * (i - 1) + 5 ELSE 16 * (i - 1) + 8

\* The last n of these are pushed.
Pushed(n) == IsList(stack) /\ Len(stack) = n /\ \A j \in 1 .. n : stack[j] = Back(n - j)

\* What a chain of calls has executed up to its j-th instruction.
ChainOp(j) ==
  IF X86(case) THEN IF j <= case.count THEN "call" ELSE "ret"
  ELSE IF j <= 2 * case.count THEN IF j % 2 = 1 THEN "save" ELSE "call"
  ELSE IF j % 2 = 1 THEN "ret" ELSE "restore"

RanUpTo(m) == IsList(ran) /\ Len(ran) = m /\ \A j \in 1 .. m : ran[j] = ChainOp(j)

\* Frame i is entered, or, where it calls, is between; is left.
Down(i) ==
  IF X86(case) THEN ip = 6 * i /\ Pushed(i + 1) /\ RanUpTo(i)
  ELSE ip = 16 * i /\ link = Back(i) /\ Pushed(i) /\ RanUpTo(2 * i)
Saved(i) == ~X86(case) /\ ip = 16 * i + 4 /\ Pushed(i + 1) /\ RanUpTo(2 * i + 1)
Restoring(i) ==
  ~X86(case) /\ ip = 16 * i + 8 /\ Pushed(i + 1) /\ RanUpTo(4 * case.count - 1 - 2 * i)
Up(i) ==
  IF X86(case) THEN ip = 6 * i + 5 /\ Pushed(i + 1) /\ RanUpTo(2 * case.count - i)
  ELSE ip = 16 * i + 12 /\ link = Back(i) /\ Pushed(i) /\ RanUpTo(4 * case.count - 2 * i)
Returned == ip = Caller /\ Pushed(0) /\ RanUpTo(IF X86(case) THEN 2 * case.count + 1 ELSE 4 * case.count + 1)

NestedInv ==
  /\ entries = {0}
  /\ \/ called = {} /\ ip = Caller /\ stack = <<>> /\ ran = <<>>
     \/ /\ called = {0}
        /\ \/ \E i \in 0 .. case.count : Down(i)
           \/ \E i \in 0 .. case.count - 1 : Saved(i) \/ Restoring(i) \/ Up(i)
           \/ Returned

\* Each target returns at once.
TargetsInv ==
  /\ \E m \in 0 .. case.count : entries = {i * TargetSlot : i \in 0 .. m - 1}
  /\ called \subseteq entries
  /\ IsList(ran) /\ \A j \in 1 .. Len(ran) : ran[j] = "ret"
  /\ ip = Caller => stack = <<>> /\ Len(ran) = Cardinality(called)
  /\ ip # Caller => /\ ip \in called /\ Len(ran) + 1 = Cardinality(called)
                    /\ stack = IF X86(case) THEN <<Caller>> ELSE <<>>
                    /\ X86(case) \/ link = Caller

FlowInv ==
  stage = "sealed" =>
    /\ Straight(case) => StraightInv
    /\ case.probe = "returns" => NestedInv
    /\ case.probe = "targets" => TargetsInv

CodeInv == MemInv /\ FlowInv

--------------------------------------------------------------------------------
(* The buffer. *)

\* The stores of a case, once, without what they are made of.
LEMMA CaseIs ==
  ASSUME case \in Cases
  PROVE  /\ IsCase(case) /\ InTurn(case, Stores(case))
         /\ Straight(case) => InLine(case, Stores(case))
BY CasesAssumption, StoresAre

LEMMA Lasting ==
  ASSUME NEW st, InTurn(case, st), NEW k \in 1 .. Len(st)
  PROVE  /\ st[k].at \in Nat /\ st[k].what.len \in Nat \ {0} /\ st[k].what.op # "zero"
         /\ Room(case) \in Nat
         /\ \A j \in 0 .. st[k].what.len - 1 : st[k].at + j \in 0 .. Room(case) - 1
         /\ \A l \in 1 .. Len(st) : k < l =>
              \A j \in 0 .. st[k].what.len - 1 : st[k].at + j < st[l].at
<1>1. /\ st[k].at \in Nat /\ st[k].what.len \in Nat \ {0} /\ st[k].what.op # "zero"
      /\ Room(case) \in Nat /\ \A l \in 1 .. Len(st) : st[l].at \in Nat
  BY DEF InTurn
<1>2. /\ \A l \in 1 .. Len(st) : k < l => st[k].at + st[k].what.len <= st[l].at
      /\ st[k].at + st[k].what.len <= Room(case)
  BY Ascends DEF End
<1>0. ASSUME NEW a \in Nat, NEW n \in Nat, NEW b \in Nat, a + n <= b, NEW j \in 0 .. n - 1
      PROVE  a + j \in 0 .. b - 1 /\ a + j < b
  BY <1>0
<1>3. ASSUME NEW j \in 0 .. st[k].what.len - 1
      PROVE  st[k].at + j \in 0 .. Room(case) - 1
  BY <1>0, <1>1, <1>2
<1>4. ASSUME NEW l \in 1 .. Len(st), k < l, NEW j \in 0 .. st[k].what.len - 1
      PROVE  st[k].at + j < st[l].at
  <2>1. st[l].at \in Nat /\ st[k].at + st[k].what.len <= st[l].at
    BY <1>1, <1>2, <1>4
  <2>. QED
    BY <1>0, <1>1, <2>1
<1>. QED
  BY <1>1, <1>3, <1>4

\* What is in the sealed buffer is what has been stored.
LEMMA SealedIs ==
  ASSUME MemInv, stage = "sealed", NEW k \in 1 .. Len(Stores(case))
  PROVE  /\ Intact(Stores(case)[k].at)
         /\ mem[Stores(case)[k].at].what = Stores(case)[k].what
         /\ Stores(case)[k].at \in Nat
<1>. DEFINE st == Stores(case)
            s == st[k]
<1>1. InTurn(case, st)
  BY CaseIs DEF MemInv
<1>2. /\ DOMAIN mem = 0 .. Room(case) - 1
      /\ \A l \in 1 .. Len(st) : \A j \in 0 .. st[l].what.len - 1 :
           mem[st[l].at + j] = [what |-> st[l].what, byte |-> j]
  BY DEF MemInv
<1>0. k \in 1 .. Len(st)
  OBVIOUS
<1>. HIDE DEF st
<1>3. /\ s.at \in Nat /\ s.what.len \in Nat \ {0} /\ s.what.op # "zero"
      /\ \A j \in 0 .. s.what.len - 1 : s.at + j \in DOMAIN mem
  BY <1>0, <1>1, <1>2, Lasting
<1>4. \A j \in 0 .. s.what.len - 1 : mem[s.at + j] = [what |-> s.what, byte |-> j]
  BY <1>0, <1>2
<1>. HIDE DEF s
<1>5. 0 \in 0 .. s.what.len - 1 /\ s.at + 0 = s.at
  BY <1>3
<1>6. mem[s.at] = [what |-> s.what, byte |-> 0] /\ s.at \in DOMAIN mem
  BY <1>3, <1>4, <1>5
<1>7. mem[s.at] # Hole
  <2>1. Hole.what.op = "zero"
    BY DEF Hole, Ins
  <2>2. mem[s.at].what.op # "zero"
    BY <1>3, <1>6
  <2>. QED
    BY <2>1, <2>2
<1>8. mem[s.at].what = s.what
  BY <1>6
<1>9. Intact(s.at)
  BY <1>3, <1>4, <1>6, <1>7, <1>8 DEF Intact
<1>. QED
  BY <1>3, <1>8, <1>9 DEF s, st

\* The invariant holds at first, and each action keeps it.
LEMMA CodeInitInv == CodeInit => CodeInv
<1>. SUFFICES ASSUME CodeInit PROVE CodeInv
  OBVIOUS
<1>. QED
  BY DEF CodeInit, CodeInv, MemInv, FlowInv

\* The mapping, all of whose bytes are written afresh.
LEMMA MapBufferInv ==
  ASSUME CodeInv, MapBuffer
  PROVE  CodeInv'
<1>1. case' = case /\ emitted' = emitted /\ UNCHANGED <<called, ip, stack, link, ran>>
  BY DEF MapBuffer, cpu
<1>2. /\ case \in Cases /\ emitted = 0
      /\ ip = Caller /\ called = {} /\ stack = <<>> /\ link = Caller /\ ran = <<>>
  BY DEF MapBuffer, CodeInv, MemInv
<1>3. InTurn(case, Stores(case))
  BY <1>2, CaseIs
<1>4. Len(Stores(case)) \in Nat
  BY <1>3 DEF InTurn, IsList
<1>5. DOMAIN Fresh(case) = 0 .. Room(case) - 1
  BY DEF Fresh
<1>6. CASE stage' = "emit" /\ mem' = Fresh(case)
  BY <1>1, <1>2, <1>4, <1>5, <1>6 DEF CodeInv, MemInv, FlowInv
<1>7. CASE stage' = "failed"
  BY <1>1, <1>2, <1>7 DEF CodeInv, MemInv, FlowInv
<1>. QED
  BY <1>6, <1>7 DEF MapBuffer

\* A store leaves the earlier ones as they are.
LEMMA EmitInv ==
  ASSUME CodeInv, Emit
  PROVE  CodeInv'
<1>. DEFINE st == Stores(case)
            m == emitted + 1
            s == st[m]
            Written == s.at .. s.at + s.what.len - 1
<1>1. /\ case' = case /\ stage = "emit" /\ stage' = "emit" /\ emitted < Len(st)
      /\ UNCHANGED <<called, ip, stack, link, ran>> /\ emitted' = m
      /\ mem' = [a \in DOMAIN mem \cup Written |->
                   IF a \in Written THEN [what |-> s.what, byte |-> a - s.at] ELSE mem[a]]
  BY DEF Emit, cpu
<1>2. /\ case \in Cases /\ emitted \in 0 .. Len(st) /\ DOMAIN mem = 0 .. Room(case) - 1
      /\ \A k \in 1 .. emitted : \A j \in 0 .. st[k].what.len - 1 :
           mem[st[k].at + j] = [what |-> st[k].what, byte |-> j]
      /\ ip = Caller /\ called = {} /\ stack = <<>> /\ link = Caller /\ ran = <<>>
  BY <1>1 DEF CodeInv, MemInv
<1>3. InTurn(case, st)
  BY <1>2, CaseIs
<1>. HIDE DEF st
<1>4. Len(st) \in Nat /\ emitted \in Nat /\ m \in 1 .. Len(st)
  <2>1. Len(st) \in Nat
    BY <1>3 DEF InTurn, IsList
  <2>. QED
    BY <1>1, <1>2, <2>1
<1>. HIDE DEF m
<1>5. /\ s.at \in Nat /\ s.what.len \in Nat \ {0}
      /\ \A j \in 0 .. s.what.len - 1 : s.at + j \in DOMAIN mem
  BY <1>2, <1>3, <1>4, Lasting
<1>. HIDE DEF s
<1>6. \A a \in Written : a \in DOMAIN mem
  <2>1. \A a \in Written : a - s.at \in 0 .. s.what.len - 1 /\ s.at + (a - s.at) = a
    BY <1>5
  <2>. QED
    BY <1>5, <2>1
<1>. HIDE DEF Written
<1>7. DOMAIN mem' = DOMAIN mem
  <2>1. DOMAIN mem \cup Written = DOMAIN mem
    BY <1>6
  <2>. QED
    BY <1>1, <2>1
<1>8. ASSUME NEW k \in 1 .. m, NEW j \in 0 .. st[k].what.len - 1
      PROVE  mem'[st[k].at + j] = [what |-> st[k].what, byte |-> j]
  <2>1. CASE k = m
    <3>1. s.at + j \in Written /\ (s.at + j) - s.at = j
      BY <1>5, <2>1 DEF Written, s
    <3>2. mem'[s.at + j] = [what |-> s.what, byte |-> j]
      BY <1>1, <3>1
    <3>. QED
      BY <2>1, <3>2 DEF s
  <2>2. CASE k # m
    <3>1. k \in 1 .. emitted /\ k \in 1 .. Len(st) /\ k < m
      BY <1>4, <2>2 DEF m
    <3>2. /\ st[k].at + j \in DOMAIN mem /\ st[k].at + j < s.at
          /\ st[k].at \in Nat /\ st[k].what.len \in Nat
      BY <1>2, <1>3, <1>4, <3>1, Lasting DEF s
    <3>3. st[k].at + j \notin Written
      BY <1>5, <3>2 DEF Written
    <3>4. mem'[st[k].at + j] = mem[st[k].at + j]
      BY <1>1, <3>2, <3>3
    <3>. QED
      BY <1>2, <3>1, <3>4
  <2>. QED
    BY <2>1, <2>2
<1>9. MemInv'
  <2>1. emitted' \in 0 .. Len(st)
    BY <1>1, <1>4
  <2>2. \A k \in 1 .. emitted' : \A j \in 0 .. st[k].what.len - 1 :
          mem'[st[k].at + j] = [what |-> st[k].what, byte |-> j]
    BY <1>1, <1>8
  <2>3. DOMAIN mem' = 0 .. Room(case) - 1
    BY <1>2, <1>7
  <2>4. Stores(case)' = st /\ Room(case)' = Room(case)
    BY <1>1 DEF st
  <2>5. stage' = "emit" /\ case' \in Cases
    BY <1>1, <1>2
  <2>6. ip' = Caller /\ called' = {} /\ stack' = <<>> /\ link' = Caller /\ ran' = <<>>
    BY <1>1, <1>2
  <2>. QED
    BY <2>1, <2>2, <2>3, <2>4, <2>5, <2>6 DEF MemInv
<1>. QED
  BY <1>1, <1>9 DEF CodeInv, FlowInv

LEMMA Singletons ==
  ASSUME NEW x
  PROVE  /\ IsList(<<x>>) /\ Len(<<x>>) = 1 /\ <<x>>[1] = x
         /\ IsList(<<>>) /\ Len(<<>>) = 0
<1>1. <<x>> \in Seq({x}) /\ Len(<<x>>) = 1 /\ <<x>>[1] = x
  OBVIOUS
<1>2. <<>> \in Seq({x}) /\ Len(<<>>) = 0
  OBVIOUS
<1>. QED
  BY <1>1, <1>2, ListOf

LEMMA PowersAre ==
  ASSUME NEW c, NEW n \in PowerSizes(1, c.count)
  PROVE  n \in 1 .. c.count
BY DEF PowerSizes

\* Targets up to the m-th.
LEMMA TargetsFinite ==
  ASSUME NEW m \in Nat
  PROVE  /\ IsFiniteSet({i * TargetSlot : i \in 0 .. m - 1})
         /\ \A e \in {i * TargetSlot : i \in 0 .. m - 1} : e \in Nat
<1>1. \A i \in 0 .. m - 1 : i * TargetSlot \in 0 .. 16 * m
  BY DEF TargetSlot
<1>2. IsFiniteSet(0 .. 16 * m)
  BY FS_Interval
<1>3. {i * TargetSlot : i \in 0 .. m - 1} \subseteq 0 .. 16 * m
  BY <1>1
<1>. QED
  BY <1>2, <1>3, FS_Subset

\* From here on the code may be called.
LEMMA SealInv ==
  ASSUME CodeInv, Seal
  PROVE  CodeInv'
<1>1. /\ case' = case /\ stage = "emit" /\ emitted = Len(Stores(case))
      /\ UNCHANGED <<called, ip, stack, link, ran, mem, emitted>>
  BY DEF Seal, cpu
<1>2. /\ case \in Cases /\ emitted \in 0 .. Len(Stores(case))
      /\ DOMAIN mem = 0 .. Room(case) - 1
      /\ \A k \in 1 .. emitted : \A j \in 0 .. Stores(case)[k].what.len - 1 :
           mem[Stores(case)[k].at + j] = [what |-> Stores(case)[k].what, byte |-> j]
      /\ ip = Caller /\ called = {} /\ stack = <<>> /\ link = Caller /\ ran = <<>>
  BY <1>1 DEF CodeInv, MemInv
<1>3. CASE stage' = "failed"
  BY <1>1, <1>2, <1>3 DEF CodeInv, MemInv, FlowInv
<1>4. CASE stage' = "sealed"
  <2>1. MemInv'
    BY <1>1, <1>2, <1>4 DEF MemInv
  <2>2. IsList(ran') /\ Len(ran') = 0 /\ called' = {} /\ ip' = Caller /\ stack' = <<>>
        /\ link' = Caller /\ ran' = <<>>
    BY <1>1, <1>2, Singletons
  <2>3. /\ case.probe # "targets" => entries' = {0}
        /\ case.probe = "targets" => \E n \in PowerSizes(1, case.count) :
                                       entries' = {i * TargetSlot : i \in 0 .. n - 1}
    BY <1>1, <1>4 DEF Seal
  <2>4. ASSUME Straight(case)
        PROVE  StraightInv'
    <3>1. case.probe # "targets"
      BY <2>4 DEF Straight
    <3>2. InTurn(case, Stores(case))
      BY <1>2, CaseIs
    <3>3. 0 \in 0 .. Len(Stores(case)') + 1 /\ Stores(case)' = Stores(case)
      BY <1>1, <3>2 DEF InTurn, IsList
    <3>4. StraightAt(0)'
      <4>1. 0 \notin 1 .. Len(Stores(case)')
        OBVIOUS
      <4>2. \A j \in 1 .. Len(ran') : FALSE
        BY <2>2
      <4>. QED
        BY <2>2, <4>1, <4>2 DEF StraightAt
    <3>. QED
      BY <2>3, <3>1, <3>3, <3>4 DEF StraightInv
  <2>5. ASSUME case.probe = "returns"
        PROVE  NestedInv'
    BY <2>2, <2>3, <2>5 DEF NestedInv
  <2>6. ASSUME case.probe = "targets"
        PROVE  TargetsInv'
    <3>1. IsCase(case)
      BY <1>2, CaseIs
    <3>2. case.count \in Nat
      BY <3>1 DEF IsCase
    <3>3. PICK n \in 1 .. case.count : entries' = {i * TargetSlot : i \in 0 .. n - 1}
      BY <2>3, <2>6, PowersAre
    <3>4. n \in 0 .. case'.count
      BY <1>1, <3>2
    <3>5. Cardinality(called') = 0
      BY <2>2, FS_EmptySet
    <3>6. \A j \in 1 .. Len(ran') : FALSE
      BY <2>2
    <3>. QED
      BY <2>2, <3>3, <3>4, <3>5, <3>6 DEF TargetsInv
  <2>. QED
    BY <1>1, <2>1, <2>4, <2>5, <2>6 DEF CodeInv, FlowInv
<1>. QED
  BY <1>3, <1>4 DEF Seal

\* A call by the kernel.
LEMMA EnterInv ==
  ASSUME CodeInv, NEW e \in entries, Enter(e)
  PROVE  CodeInv'
<1>1. /\ case' = case /\ stage = "sealed" /\ stage' = "sealed" /\ ip = Caller
      /\ e \notin called /\ called' = called \cup {e} /\ ip' = e
      /\ X86(case) => stack' = <<Caller>> /\ link' = link
      /\ ~X86(case) => link' = Caller /\ stack' = stack
      /\ UNCHANGED <<mem, emitted, entries, zero, ran>>
  BY DEF Enter
<1>2. case \in Cases /\ MemInv'
  BY <1>1 DEF CodeInv, MemInv
<1>3. /\ Straight(case) => StraightInv
      /\ case.probe = "returns" => NestedInv
      /\ case.probe = "targets" => TargetsInv
  BY <1>1 DEF CodeInv, FlowInv
<1>4. IsList(<<Caller>>) /\ Len(<<Caller>>) = 1 /\ <<Caller>>[1] = Caller
      /\ IsList(<<>>) /\ Len(<<>>) = 0
  BY Singletons
<1>5. ASSUME Straight(case)
      PROVE  StraightInv'
  <2>. DEFINE st == Stores(case)
  <2>1. PICK n \in 0 .. Len(st) + 1 : StraightAt(n)
    BY <1>3, <1>5 DEF StraightInv
  <2>2. entries = {0} /\ e = 0
    BY <1>3, <1>5 DEF StraightInv
  <2>3. n = 0
    BY <1>1, <2>1, <2>2 DEF StraightAt
  <2>4. InLine(case, st) /\ InTurn(case, st)
    BY <1>2, <1>5, CaseIs
  <2>5. st' = st
    BY <1>1
  <2>7. StraightAt(0)
    BY <2>1, <2>3
  <2>. HIDE DEF st
  <2>6. Len(st) \in Nat /\ 1 \in 1 .. Len(st) /\ 1 \in 0 .. Len(st) + 1 /\ st[1].at = 0
    <3>1. Len(st) \in Nat
      BY <2>4 DEF InTurn, IsList
    <3>2. Len(st) > 0 /\ st[1].at = 0
      BY <2>4 DEF InLine
    <3>. QED
      BY <3>1, <3>2
  <2>8. 0 \notin 1 .. Len(st)
    OBVIOUS
  <2>9. called = {} /\ stack = <<>> /\ IsList(ran) /\ Len(ran) = 0
    BY <2>7, <2>8 DEF StraightAt, st
  <2>10. /\ called' = {0} /\ ip' = st[1].at /\ stack' = (IF X86(case) THEN <<Caller>> ELSE <<>>)
         /\ (X86(case) \/ link' = Caller)
    BY <1>1, <2>2, <2>6, <2>9
  <2>11. StraightAt(1)'
    <3>1. \A j \in 1 .. Len(ran') : FALSE
      BY <1>1, <2>9
    <3>2. st' = Stores(case)' /\ ran' = ran /\ case' = case /\ ~ (1 > 1)
      BY <1>1 DEF st
    <3>. QED
      BY <2>5, <2>6, <2>9, <2>10, <3>1, <3>2 DEF StraightAt
  <2>. QED
    BY <1>1, <2>2, <2>5, <2>6, <2>11 DEF StraightInv, st
<1>6. ASSUME case.probe = "returns"
      PROVE  NestedInv'
  <2>1. entries = {0} /\ e = 0
    BY <1>3, <1>6 DEF NestedInv
  <2>2. stack = <<>> /\ ran = <<>> /\ called = {}
    BY <1>1, <1>3, <1>6, <2>1 DEF NestedInv
  <2>3. case.count \in Nat
    BY <1>2, CaseIs DEF IsCase
  <2>4. RanUpTo(0)'
    BY <1>1, <1>4, <2>2 DEF RanUpTo
  <2>5. Back(0)' = Caller
    BY DEF Back
  <2>6. Down(0)'
    <3>1. CASE X86(case)
      <4>1. stack' = <<Caller>>
        BY <1>1, <3>1
      <4>2. \A j \in 1 .. 1 : j = 1 /\ stack'[j] = Caller /\ 1 - j = 0
        BY <1>4, <4>1
      <4>3. Pushed(1)'
        BY <1>4, <2>5, <4>1, <4>2 DEF Pushed
      <4>4. ip' = 6 * 0 /\ X86(case') /\ 0 + 1 = 1
        BY <1>1, <2>1, <3>1
      <4>. QED
        BY <2>4, <4>3, <4>4 DEF Down
    <3>2. CASE ~X86(case)
      <4>1. Pushed(0)'
        BY <1>1, <1>4, <2>2, <3>2 DEF Pushed
      <4>2. ip' = 16 * 0 /\ ~X86(case') /\ link' = Caller /\ 2 * 0 = 0
        BY <1>1, <2>1, <3>2
      <4>. QED
        BY <2>4, <2>5, <4>1, <4>2 DEF Down
    <3>. QED
      BY <3>1, <3>2
  <2>7. called' = {0} /\ entries' = {0} /\ 0 \in 0 .. case'.count
    BY <1>1, <2>1, <2>2, <2>3
  <2>. QED
    BY <2>6, <2>7 DEF NestedInv
<1>7. ASSUME case.probe = "targets"
      PROVE  TargetsInv'
  <2>1. PICK m \in 0 .. case.count : entries = {i * TargetSlot : i \in 0 .. m - 1}
    BY <1>3, <1>7 DEF TargetsInv
  <2>2. case.count \in Nat /\ m \in Nat
    BY <1>2, CaseIs DEF IsCase
  <2>3. IsFiniteSet(entries) /\ e \in Nat
    BY <2>1, <2>2, TargetsFinite
  <2>4. /\ called \subseteq entries /\ stack = <<>> /\ Len(ran) = Cardinality(called)
        /\ IsList(ran) /\ \A j \in 1 .. Len(ran) : ran[j] = "ret"
    BY <1>1, <1>3, <1>7 DEF TargetsInv
  <2>5. IsFiniteSet(called)
    BY <2>3, <2>4, FS_Subset
  <2>6. Cardinality(called') = Cardinality(called) + 1
    BY <1>1, <2>5, FS_AddElement
  <2>7. ip' # Caller /\ ip' \in called' /\ called' \subseteq entries'
    BY <1>1, <2>3, <2>4 DEF Caller
  <2>8. /\ stack' = (IF X86(case') THEN <<Caller>> ELSE <<>>)
        /\ (X86(case') \/ link' = Caller)
    BY <1>1, <2>4
  <2>9. m \in 0 .. case'.count /\ entries' = {i * TargetSlot : i \in 0 .. m - 1}
    BY <1>1, <2>1
  <2>10. /\ ran' = ran /\ Len(ran') + 1 = Cardinality(called')
         /\ IsList(ran') /\ \A j \in 1 .. Len(ran') : ran'[j] = "ret"
    BY <1>1, <2>4, <2>6
  <2>. QED
    BY <2>7, <2>8, <2>9, <2>10 DEF TargetsInv
<1>. QED
  BY <1>1, <1>2, <1>5, <1>6, <1>7 DEF CodeInv, FlowInv

--------------------------------------------------------------------------------
(* Execution. *)

\* The history grows, the stack is pushed and popped.
LEMMA Appended ==
  ASSUME NEW s, IsList(s), NEW x
  PROVE  /\ IsList(Append(s, x)) /\ Len(Append(s, x)) = Len(s) + 1
         /\ \A j \in 1 .. Len(s) : Append(s, x)[j] = s[j]
         /\ Append(s, x)[Len(s) + 1] = x
<1>. DEFINE E == {s[i] : i \in DOMAIN s} \cup {x}
<1>1. s \in Seq(E) /\ Len(s) \in Nat /\ DOMAIN s = 1 .. Len(s) /\ x \in E
  <2>1. {s[i] : i \in DOMAIN s} \subseteq E
    OBVIOUS
  <2>. HIDE DEF E
  <2>2. s \in Seq(E)
    BY <2>1, SeqMonotonic DEF IsList
  <2>. QED
    BY <2>2 DEF IsList, E
<1>. HIDE DEF E
<1>2. /\ Append(s, x) \in Seq(E) /\ Len(Append(s, x)) = Len(s) + 1
      /\ \A j \in 1 .. Len(s) : Append(s, x)[j] = s[j]
      /\ Append(s, x)[Len(s) + 1] = x
  BY <1>1, AppendProperties
<1>. QED
  BY <1>2, ListOf

LEMMA PushedOn ==
  ASSUME NEW s, IsList(s), NEW x
  PROVE  /\ IsList(<<x>> \o s) /\ Len(<<x>> \o s) = Len(s) + 1
         /\ (<<x>> \o s)[1] = x
         /\ \A j \in 1 .. Len(s) : (<<x>> \o s)[j + 1] = s[j]
<1>. DEFINE one == <<x>>
<1>1. IsList(one) /\ Len(one) = 1 /\ one[1] = x /\ Len(s) \in Nat
  BY Singletons DEF IsList
<1>. HIDE DEF one
<1>2. /\ IsList(one \o s) /\ Len(one \o s) = Len(one) + Len(s)
      /\ \A k \in 1 .. Len(one) : (one \o s)[k] = one[k]
      /\ \A k \in 1 .. Len(s) : (one \o s)[Len(one) + k] = s[k]
  <2>1. IsList(one)
    BY <1>1
  <2>. QED
    BY <2>1, Concatenated
<1>3. \A k \in 1 .. Len(s) : 1 + k = k + 1
  BY <1>1
<1>4. /\ Len(one \o s) = Len(s) + 1 /\ (one \o s)[1] = x
      /\ \A k \in 1 .. Len(s) : (one \o s)[k + 1] = s[k]
  BY <1>1, <1>2, <1>3
<1>. QED
  BY <1>2, <1>4 DEF one

LEMMA TakenOff ==
  ASSUME NEW s, IsList(s), Len(s) > 0
  PROVE  /\ Head(s) = s[1]
         /\ IsList(Tail(s)) /\ Len(Tail(s)) = Len(s) - 1
         /\ \A j \in 1 .. Len(s) - 1 : Tail(s)[j] = s[j + 1]
<1>. DEFINE E == {s[i] : i \in DOMAIN s}
<1>1. s \in Seq(E) /\ Len(s) \in Nat
  BY DEF IsList
<1>. HIDE DEF E
<1>2. s # <<>>
  BY <1>1
<1>3. /\ Head(s) = s[1] /\ Tail(s) \in Seq(E) /\ Len(Tail(s)) = Len(s) - 1
      /\ \A j \in 1 .. Len(Tail(s)) : Tail(s)[j] = s[j + 1]
  BY <1>1, <1>2, HeadTailProperties
<1>. QED
  BY <1>3, ListOf

\* What is executed at the place of a store is what has been stored there.
LEMMA Executes ==
  ASSUME MemInv, Execute, stage = "sealed", NEW i,
         NEW k \in 1 .. Len(Stores(case)), ip = Stores(case)[k].at, i = Stores(case)[k].what
  PROVE  /\ UNCHANGED <<case, stage, mem, emitted, entries, called>>
         /\ i.op \in Plain =>
              /\ ip' = ip + i.len /\ stack' = stack /\ link' = link
              /\ ran' = Append(ran, i.op)
         /\ i.op = "jump" \/ (i.op = "jump if zero" /\ zero) =>
              /\ ip' = Target(case, ip, i) /\ stack' = stack /\ link' = link
              /\ ran' = Append(ran, i.op)
         /\ i.op = "call" =>
              /\ ip' = Target(case, ip, i) /\ ran' = Append(ran, "call")
              /\ IF X86(case) THEN stack' = <<ip + i.len>> \o stack /\ link' = link
                 ELSE stack' = stack /\ link' = ip + i.len
         /\ i.op = "save" =>
              /\ ip' = ip + i.len /\ stack' = <<link>> \o stack /\ link' = link
              /\ ran' = Append(ran, "save")
         /\ i.op = "restore" =>
              /\ ip' = ip + i.len /\ stack' = Tail(stack) /\ link' = Head(stack)
              /\ ran' = Append(ran, "restore")
         /\ i.op = "ret" =>
              /\ IF X86(case) THEN ip' = Head(stack) /\ stack' = Tail(stack)
                 ELSE ip' = link /\ stack' = stack
              /\ link' = link /\ ran' = Append(ran, "ret")
         /\ zero' = (zero \/ i.op = "clear")
<1>1. mem[ip].what = i
  BY SealedIs
<1>. DEFINE I == mem[ip].what
<1>2. /\ ip' = Goes(case, i)
      /\ stack' = CASE i.op = "call" /\ X86(case) -> <<ip + i.len>> \o stack
                    [] i.op = "save" -> <<link>> \o stack
                    [] i.op = "restore" \/ (i.op = "ret" /\ X86(case)) -> Tail(stack)
                    [] OTHER -> stack
      /\ link' = CASE i.op = "call" /\ ~X86(case) -> ip + i.len
                   [] i.op = "restore" -> Head(stack)
                   [] OTHER -> link
      /\ zero' = (zero \/ i.op = "clear")
      /\ ran' = Append(ran, IF i.op = "jump if zero" /\ ~zero THEN "not taken" ELSE i.op)
      /\ UNCHANGED <<case, stage, mem, emitted, entries, called>>
  BY <1>1 DEF Execute
<1>3. i.op \in Plain =>
        /\ ip' = ip + i.len /\ stack' = stack /\ link' = link
        /\ ran' = Append(ran, i.op)
  <2>. SUFFICES ASSUME i.op \in Plain
                PROVE  /\ ip' = ip + i.len /\ stack' = stack /\ link' = link
                       /\ ran' = Append(ran, i.op)
    OBVIOUS
  <2>1. i.op \notin {"jump", "jump if zero", "call", "save", "restore", "ret"}
    BY DEF Plain
  <2>. QED
    BY <1>2, <2>1 DEF Goes
<1>4. i.op = "jump" \/ (i.op = "jump if zero" /\ zero) =>
        /\ ip' = Target(case, ip, i) /\ stack' = stack /\ link' = link
        /\ ran' = Append(ran, i.op)
  BY <1>2 DEF Goes
<1>5. i.op = "call" =>
        /\ ip' = Target(case, ip, i) /\ ran' = Append(ran, "call")
        /\ IF X86(case) THEN stack' = <<ip + i.len>> \o stack /\ link' = link
           ELSE stack' = stack /\ link' = ip + i.len
  BY <1>2 DEF Goes
<1>6. i.op = "save" =>
        /\ ip' = ip + i.len /\ stack' = <<link>> \o stack /\ link' = link
        /\ ran' = Append(ran, "save")
  BY <1>2 DEF Goes
<1>7. i.op = "restore" =>
        /\ ip' = ip + i.len /\ stack' = Tail(stack) /\ link' = Head(stack)
        /\ ran' = Append(ran, "restore")
  BY <1>2 DEF Goes
<1>8. i.op = "ret" =>
        /\ IF X86(case) THEN ip' = Head(stack) /\ stack' = Tail(stack)
           ELSE ip' = link /\ stack' = stack
        /\ link' = link /\ ran' = Append(ran, "ret")
  BY <1>2 DEF Goes
<1>. QED
  BY <1>2, <1>3, <1>4, <1>5, <1>6, <1>7, <1>8

\* One more instruction of straight code.
LEMMA StraightOn ==
  ASSUME CodeInv, Execute, stage = "sealed", Straight(case)
  PROVE  StraightInv'
<1>. DEFINE st == Stores(case)
<1>1. InLine(case, st) /\ InTurn(case, st) /\ MemInv
  BY CaseIs DEF CodeInv, MemInv
<1>2. PICK n \in 0 .. Len(st) + 1 : StraightAt(n)
  BY DEF CodeInv, FlowInv, StraightInv
<1>3. entries = {0} /\ ip # Caller
  BY DEF CodeInv, FlowInv, StraightInv, Execute
<1>4. n \in 1 .. Len(st)
  BY <1>2, <1>3 DEF StraightAt
<1>5. /\ called = IF n = 0 THEN {} ELSE {0}
      /\ ip = st[n].at /\ stack = (IF X86(case) THEN <<Caller>> ELSE <<>>)
      /\ X86(case) \/ link = Caller
      /\ IsList(ran) /\ Len(ran) = IF n = 0 THEN 0 ELSE n - 1
      /\ \A j \in 1 .. Len(ran) : ran[j] = st[j].what.op
      /\ n > 1 /\ st[1].what.op = "clear" => zero
  BY <1>2, <1>4 DEF StraightAt
<1>. DEFINE i == st[n].what
<1>6. /\ UNCHANGED <<case, stage, mem, emitted, entries, called>>
      /\ i.op \in Plain =>
           /\ ip' = ip + i.len /\ stack' = stack /\ link' = link
           /\ ran' = Append(ran, i.op)
      /\ i.op = "jump" \/ (i.op = "jump if zero" /\ zero) =>
           /\ ip' = Target(case, ip, i) /\ stack' = stack /\ link' = link
           /\ ran' = Append(ran, i.op)
      /\ i.op = "ret" =>
           /\ IF X86(case) THEN ip' = Head(stack) /\ stack' = Tail(stack)
              ELSE ip' = link /\ stack' = stack
           /\ link' = link /\ ran' = Append(ran, "ret")
      /\ zero' = (zero \/ i.op = "clear")
  BY <1>1, <1>4, <1>5, Executes
<1>7. Stores(case)' = st
  BY <1>6
<1>. HIDE DEF st
<1>8. Len(st) \in Nat /\ n \in Nat /\ n # 0 /\ n + 1 \in 0 .. Len(st) + 1
  <2>1. Len(st) \in Nat
    BY <1>1 DEF InTurn, IsList
  <2>. QED
    BY <1>4, <2>1
<1>9. called = {0} /\ Len(ran) = n - 1
  BY <1>5, <1>8
<1>. HIDE DEF i
<1>10. /\ ip' = (IF n + 1 \in 1 .. Len(st) THEN st[n + 1].at ELSE Caller)
       /\ stack' = (IF n + 1 \in 1 .. Len(st) /\ X86(case) THEN <<Caller>> ELSE <<>>)
       /\ X86(case) \/ link' = Caller
       /\ ran' = Append(ran, i.op)
  <2>1. CASE n + 1 <= Len(st)
    <3>1. n + 1 \in 1 .. Len(st)
      BY <1>8, <2>1
    <3>2. \/ i.op \in Plain /\ End(st[n]) = st[n + 1].at
          \/ i.op = "jump" /\ Target(case, st[n].at, i) = st[n + 1].at
          \/ /\ i.op = "jump if zero" /\ Target(case, st[n].at, i) = st[n + 1].at
             /\ n > 1 /\ st[1].what.op = "clear"
      BY <1>1, <1>4, <2>1 DEF InLine, i
    <3>3. End(st[n]) = ip + i.len
      BY <1>5 DEF End, i
    <3>4. ip' = st[n + 1].at /\ stack' = stack /\ link' = link /\ ran' = Append(ran, i.op)
      BY <1>5, <1>6, <3>2, <3>3
    <3>. QED
      BY <1>5, <3>1, <3>4
  <2>2. CASE ~(n + 1 <= Len(st))
    <3>1. n = Len(st) /\ n + 1 \notin 1 .. Len(st)
      BY <1>4, <1>8, <2>2
    <3>2. i = Ret(case)
      BY <1>1, <3>1 DEF InLine, i
    <3>3. i.op = "ret"
      BY <3>2, RetIs
    <3>4. Head(<<Caller>>) = Caller /\ Tail(<<Caller>>) = <<>>
      OBVIOUS
    <3>5. ip' = Caller /\ stack' = <<>> /\ link' = link
      BY <1>5, <1>6, <3>3, <3>4
    <3>. QED
      BY <1>5, <1>6, <3>1, <3>3, <3>5
  <2>. QED
    BY <2>1, <2>2
<1>11. /\ IsList(ran') /\ Len(ran') = n
       /\ \A j \in 1 .. Len(ran') : ran'[j] = st[j].what.op
  <2>1. /\ IsList(ran') /\ Len(ran') = Len(ran) + 1
        /\ \A j \in 1 .. Len(ran) : ran'[j] = ran[j]
        /\ ran'[Len(ran) + 1] = i.op
    BY <1>5, <1>10, Appended
  <2>2. Len(ran) + 1 = n
    BY <1>8, <1>9
  <2>3. \A j \in 1 .. n : j \in 1 .. Len(ran) \/ j = n
    BY <1>8, <1>9
  <2>4. \A j \in 1 .. n : ran'[j] = st[j].what.op
    BY <1>5, <2>1, <2>2, <2>3 DEF i
  <2>. QED
    BY <2>1, <2>2, <2>4
<1>12. st[1].what.op = "clear" => zero'
  <2>1. CASE n = 1
    BY <1>6, <2>1 DEF i
  <2>2. CASE n # 1
    <3>1. n > 1
      BY <1>8, <2>2
    <3>. QED
      BY <1>5, <1>6, <3>1
  <2>. QED
    BY <2>1, <2>2
<1>13. StraightAt(n + 1)'
  <2>1. n + 1 # 0 /\ (n + 1) - 1 = n
    BY <1>8
  <2>2. case' = case /\ called' = {0}
    BY <1>6, <1>9
  <2>. QED
    BY <1>7, <1>10, <1>11, <1>12, <2>1, <2>2 DEF StraightAt
<1>. QED
  BY <1>3, <1>6, <1>7, <1>8, <1>13 DEF StraightInv

\* One more instruction, push or pop in a chain of calls.
LEMMA RanOn ==
  ASSUME NEW m \in Nat, RanUpTo(m), UNCHANGED case, ran' = Append(ran, ChainOp(m + 1))
  PROVE  RanUpTo(m + 1)'
<1>1. IsList(ran) /\ Len(ran) = m /\ \A j \in 1 .. m : ran[j] = ChainOp(j)
  BY DEF RanUpTo
<1>2. /\ IsList(ran') /\ Len(ran') = m + 1
      /\ \A j \in 1 .. m : ran'[j] = ran[j]
      /\ ran'[m + 1] = ChainOp(m + 1)
  BY <1>1, Appended
<1>3. \A j \in 1 .. m + 1 : j \in 1 .. m \/ j = m + 1
  OBVIOUS
<1>4. \A j \in 1 .. m + 1 : ran'[j] = ChainOp(j)
  BY <1>1, <1>2, <1>3
<1>5. ASSUME NEW j \in 1 .. m + 1
      PROVE  ran'[j] = ChainOp(j)'
  <2>1. ChainOp(j)' = ChainOp(j)
    BY DEF ChainOp
  <2>. QED
    BY <1>4, <2>1
<1>. QED
  BY <1>2, <1>5 DEF RanUpTo

LEMMA PushOn ==
  ASSUME NEW n \in Nat, Pushed(n), UNCHANGED case, stack' = <<Back(n)>> \o stack
  PROVE  Pushed(n + 1)'
<1>1. IsList(stack) /\ Len(stack) = n /\ \A j \in 1 .. n : stack[j] = Back(n - j)
  BY DEF Pushed
<1>2. /\ IsList(stack') /\ Len(stack') = n + 1 /\ stack'[1] = Back(n)
      /\ \A j \in 1 .. n : stack'[j + 1] = stack[j]
  <2>1. IsList(stack) /\ Len(stack) = n
    BY <1>1
  <2>2. /\ IsList(<<Back(n)>> \o stack) /\ Len(<<Back(n)>> \o stack) = Len(stack) + 1
        /\ (<<Back(n)>> \o stack)[1] = Back(n)
        /\ \A j \in 1 .. Len(stack) : (<<Back(n)>> \o stack)[j + 1] = stack[j]
    BY <2>1, PushedOn
  <2>. QED
    BY <2>1, <2>2
<1>3. ASSUME NEW j \in 1 .. n + 1
      PROVE  stack'[j] = Back((n + 1) - j)
  <2>1. CASE j = 1
    <3>1. (n + 1) - j = n
      BY <2>1
    <3>. QED
      BY <1>2, <2>1, <3>1
  <2>2. CASE j # 1
    <3>1. j - 1 \in 1 .. n /\ (j - 1) + 1 = j /\ n - (j - 1) = (n + 1) - j
      BY <2>2
    <3>2. stack'[(j - 1) + 1] = stack[j - 1] /\ stack[j - 1] = Back(n - (j - 1))
      BY <1>1, <1>2, <3>1
    <3>. QED
      BY <3>1, <3>2
  <2>. QED
    BY <2>1, <2>2
<1>4. ASSUME NEW j \in 1 .. n + 1
      PROVE  stack'[j] = Back((n + 1) - j)'
  BY <1>3 DEF Back
<1>. QED
  BY <1>2, <1>4 DEF Pushed

LEMMA PopOn ==
  ASSUME NEW n \in Nat, Pushed(n + 1), UNCHANGED case, stack' = Tail(stack)
  PROVE  Pushed(n)' /\ Head(stack) = Back(n)
<1>1. IsList(stack) /\ Len(stack) = n + 1 /\ \A j \in 1 .. n + 1 : stack[j] = Back((n + 1) - j)
  BY DEF Pushed
<1>2. /\ Head(stack) = stack[1] /\ IsList(stack') /\ Len(stack') = n
      /\ \A j \in 1 .. n : stack'[j] = stack[j + 1]
  <2>1. Len(stack) > 0 /\ Len(stack) - 1 = n
    BY <1>1
  <2>. QED
    BY <1>1, <2>1, TakenOff
<1>3. Head(stack) = Back(n)
  <2>1. 1 \in 1 .. n + 1 /\ (n + 1) - 1 = n
    OBVIOUS
  <2>. QED
    BY <1>1, <1>2, <2>1
<1>4. ASSUME NEW j \in 1 .. n
      PROVE  stack'[j] = Back(n - j)
  <2>1. j + 1 \in 1 .. n + 1 /\ (n + 1) - (j + 1) = n - j
    OBVIOUS
  <2>. QED
    BY <1>1, <1>2, <2>1
<1>5. ASSUME NEW j \in 1 .. n
      PROVE  stack'[j] = Back(n - j)'
  BY <1>4 DEF Back
<1>. QED
  BY <1>2, <1>3, <1>5 DEF Pushed

\* The return from the i-th frame ends the call, or is in the frame before.
LEMMA Unwound ==
  ASSUME case.count \in Nat, UNCHANGED case, entries' = {0}, called' = {0},
         NEW i \in 0 .. case.count, ip' = Back(i), Pushed(i)',
         IF X86(case) THEN RanUpTo(2 * case.count - i + 1)'
         ELSE RanUpTo(4 * case.count - 2 * i + 1)'
  PROVE  NestedInv'
<1>1. CASE i = 0
  <2>1. ip' = Caller /\ Pushed(0)'
    BY <1>1 DEF Back
  <2>2. CASE X86(case)
    <3>1. 2 * case.count - i + 1 = 2 * case.count + 1
      BY <1>1
    <3>2. RanUpTo(2 * case.count + 1)'
      BY <2>2, <3>1
    <3>3. Returned'
      BY <2>1, <2>2, <3>2 DEF Returned
    <3>. QED
      BY <3>3 DEF NestedInv
  <2>3. CASE ~X86(case)
    <3>1. 4 * case.count - 2 * i + 1 = 4 * case.count + 1
      BY <1>1
    <3>2. RanUpTo(4 * case.count + 1)'
      BY <2>3, <3>1
    <3>3. Returned'
      BY <2>1, <2>3, <3>2 DEF Returned
    <3>. QED
      BY <3>3 DEF NestedInv
  <2>. QED
    BY <2>2, <2>3
<1>2. CASE i # 0
  <2>1. i - 1 \in 0 .. case.count - 1 /\ (i - 1) + 1 = i
    BY <1>2
  <2>2. CASE X86(case)
    <3>1. 2 * case.count - i + 1 = 2 * case.count - (i - 1)
      BY <2>1
    <3>2. RanUpTo(2 * case.count - (i - 1))'
      BY <2>2, <3>1
    <3>3. ip' = 6 * (i - 1) + 5
      BY <1>2, <2>2 DEF Back
    <3>4. Pushed((i - 1) + 1)'
      BY <2>1
    <3>5. Up(i - 1)'
      BY <2>2, <3>2, <3>3, <3>4 DEF Up
    <3>. QED
      BY <2>1, <3>5 DEF NestedInv
  <2>3. CASE ~X86(case)
    <3>1. 4 * case.count - 2 * i + 1 = 4 * case.count - 1 - 2 * (i - 1)
      BY <2>1
    <3>2. RanUpTo(4 * case.count - 1 - 2 * (i - 1))'
      BY <2>3, <3>1
    <3>3. ip' = 16 * (i - 1) + 8
      BY <1>2, <2>3 DEF Back
    <3>4. Pushed((i - 1) + 1)'
      BY <2>1
    <3>5. Restoring(i - 1)'
      BY <2>3, <3>2, <3>3, <3>4 DEF Restoring
    <3>. QED
      BY <2>1, <3>5 DEF NestedInv
  <2>. QED
    BY <2>2, <2>3
<1>. QED
  BY <1>1, <1>2

\* One more instruction of the nested calls, where the stack holds the returns.
LEMMA NestedOnX86 ==
  ASSUME CodeInv, Execute, stage = "sealed", case.probe = "returns", X86(case)
  PROVE  NestedInv'
<1>. DEFINE n == case.count
            st == Stores(case)
<1>1. MemInv /\ FramesAt(case, st) /\ n \in Nat
  BY CaseIs, ReturnsAre DEF CodeInv, MemInv, IsCase
<1>2. /\ Len(st) = 2 * n + 1
      /\ \A i \in 0 .. n - 1 :
           /\ st[2 * i + 1].at = 6 * i /\ st[2 * i + 1].what = Call(case)
           /\ st[2 * i + 2].at = 6 * i + 5 /\ st[2 * i + 2].what = Ret(case)
      /\ st[2 * n + 1].at = 6 * n /\ st[2 * n + 1].what = Ret(case)
  BY <1>1 DEF FramesAt
<1>3. /\ entries = {0} /\ called = {0}
      /\ \/ \E i \in 0 .. n : Down(i)
         \/ \E i \in 0 .. n - 1 : Up(i)
  BY DEF CodeInv, FlowInv, NestedInv, Execute, Returned, Saved, Restoring
<1>4. UNCHANGED <<case, entries, called>>
  BY DEF Execute
<1>5. /\ Ret(case).op = "ret"
      /\ Call(case).op = "call" /\ Call(case).len = 5
      /\ \A a \in Nat : Target(case, a, Call(case)) = a + 6
  BY RetIs, CallIs
<1>6. ASSUME NEW i \in 0 .. n, NEW k \in 1 .. 2 * n + 1,
             ip = st[k].at, st[k].what = Ret(case),
             Pushed(i + 1), RanUpTo(2 * n - i)
      PROVE  NestedInv'
  <2>1. /\ ip' = Head(stack) /\ stack' = Tail(stack) /\ ran' = Append(ran, "ret")
    <3>1. k \in 1 .. Len(st)
      BY <1>2
    <3>. QED
      BY <1>1, <1>5, <1>6, <3>1, Executes
  <2>2. Pushed(i)' /\ ip' = Back(i)
    BY <1>1, <1>4, <1>6, <2>1, PopOn
  <2>3. RanUpTo(2 * n - i + 1)'
    <3>1. 2 * n - i \in Nat /\ ~ (2 * n - i + 1 <= n)
      BY <1>1
    <3>2. ChainOp(2 * n - i + 1) = "ret"
      BY <3>1 DEF ChainOp
    <3>3. PICK m \in Nat : m = 2 * n - i
      BY <3>1
    <3>4. RanUpTo(m) /\ ran' = Append(ran, ChainOp(m + 1)) /\ case' = case
      BY <1>4, <1>6, <2>1, <3>2, <3>3
    <3>5. RanUpTo(m + 1)'
      BY <3>4, RanOn
    <3>. QED
      BY <1>4, <3>3, <3>5
  <2>. QED
    BY <1>1, <1>3, <1>4, <2>2, <2>3, Unwound
<1>7. ASSUME NEW i \in 0 .. n, Down(i)
      PROVE  NestedInv'
  <2>1. ip = 6 * i /\ Pushed(i + 1) /\ RanUpTo(i)
    BY <1>7 DEF Down
  <2>2. CASE i = n
    <3>1. 2 * n + 1 \in 1 .. 2 * n + 1 /\ 2 * n - i = i
      BY <1>1, <2>2
    <3>2. ip = st[2 * n + 1].at /\ st[2 * n + 1].what = Ret(case)
      BY <1>2, <2>1, <2>2
    <3>3. RanUpTo(2 * n - i)
      BY <2>1, <3>1
    <3>. QED
      BY <1>6, <2>1, <3>1, <3>2, <3>3
  <2>3. CASE i # n
    <3>1. i \in 0 .. n - 1 /\ i \in Nat /\ 2 * i + 1 \in 1 .. 2 * n + 1 /\ i + 1 \in 0 .. n
      BY <1>1, <2>3
    <3>2. ip = st[2 * i + 1].at /\ st[2 * i + 1].what = Call(case) /\ ip \in Nat
      <4>1. st[2 * i + 1].at = 6 * i /\ st[2 * i + 1].what = Call(case)
        BY <1>2, <3>1
      <4>2. 6 * i \in Nat
        BY <3>1
      <4>. QED
        BY <2>1, <4>1, <4>2
    <3>3. ip' = ip + 6 /\ stack' = <<ip + 5>> \o stack /\ ran' = Append(ran, "call")
      BY <1>1, <1>2, <1>5, <3>1, <3>2, Executes
    <3>4. ip' = 6 * (i + 1) /\ ip + 5 = Back(i + 1)
      BY <2>1, <3>1, <3>3 DEF Back
    <3>5. Pushed((i + 1) + 1)'
      <4>1. stack' = <<Back(i + 1)>> \o stack /\ case' = case
        BY <1>4, <3>3, <3>4
      <4>2. i + 1 \in Nat /\ Pushed(i + 1)
        BY <2>1, <3>1
      <4>. QED
        BY <4>1, <4>2, PushOn
    <3>6. RanUpTo(i + 1)'
      <4>1. ChainOp(i + 1) = "call"
        BY <3>1, <1>1 DEF ChainOp
      <4>. QED
        BY <1>4, <2>1, <3>1, <3>3, <4>1, RanOn
    <3>7. Down(i + 1)'
      BY <1>4, <3>4, <3>5, <3>6 DEF Down
    <3>. QED
      BY <1>3, <1>4, <3>1, <3>7 DEF NestedInv
  <2>. QED
    BY <2>2, <2>3
<1>8. ASSUME NEW i \in 0 .. n - 1, Up(i)
      PROVE  NestedInv'
  <2>1. ip = 6 * i + 5 /\ Pushed(i + 1) /\ RanUpTo(2 * n - i)
    BY <1>8 DEF Up
  <2>2. i \in 0 .. n /\ 2 * i + 2 \in 1 .. 2 * n + 1
    BY <1>1
  <2>3. ip = st[2 * i + 2].at /\ st[2 * i + 2].what = Ret(case)
    BY <1>2, <2>1
  <2>. QED
    BY <1>6, <2>1, <2>2, <2>3
<1>. QED
  BY <1>3, <1>7, <1>8

\* The same where each frame saves the link register.
LEMMA NestedOnArm ==
  ASSUME CodeInv, Execute, stage = "sealed", case.probe = "returns", ~X86(case)
  PROVE  NestedInv'
<1>. DEFINE n == case.count
            st == Stores(case)
<1>1. MemInv /\ FramesAt(case, st) /\ n \in Nat
  BY CaseIs, ReturnsAre DEF CodeInv, MemInv, IsCase
<1>2. /\ Len(st) = 4 * n + 1
      /\ \A i \in 0 .. n - 1 :
           /\ st[4 * i + 1].at = 16 * i /\ st[4 * i + 1].what = Ins("save", 4)
           /\ st[4 * i + 2].at = 16 * i + 4 /\ st[4 * i + 2].what = Call(case)
           /\ st[4 * i + 3].at = 16 * i + 8 /\ st[4 * i + 3].what = Ins("restore", 4)
           /\ st[4 * i + 4].at = 16 * i + 12 /\ st[4 * i + 4].what = Ret(case)
      /\ st[4 * n + 1].at = 16 * n /\ st[4 * n + 1].what = Ret(case)
  BY <1>1 DEF FramesAt
<1>3. /\ entries = {0} /\ called = {0}
      /\ \/ \E i \in 0 .. n : Down(i)
         \/ \E i \in 0 .. n - 1 : Saved(i) \/ Restoring(i) \/ Up(i)
  BY DEF CodeInv, FlowInv, NestedInv, Execute, Returned
<1>4. UNCHANGED <<case, entries, called>>
  BY DEF Execute
<1>5. /\ Ret(case).op = "ret"
      /\ Call(case).op = "call" /\ Call(case).len = 4
      /\ \A a \in Nat : Target(case, a, Call(case)) = a + 12
      /\ Ins("save", 4).op = "save" /\ Ins("save", 4).len = 4
      /\ Ins("restore", 4).op = "restore" /\ Ins("restore", 4).len = 4
  BY RetIs, CallIs DEF Ins
<1>6. ASSUME NEW i \in 0 .. n, NEW k \in 1 .. 4 * n + 1,
             ip = st[k].at, st[k].what = Ret(case), link = Back(i),
             Pushed(i), RanUpTo(4 * n - 2 * i)
      PROVE  NestedInv'
  <2>1. /\ ip' = link /\ stack' = stack /\ ran' = Append(ran, "ret")
    <3>1. k \in 1 .. Len(st)
      BY <1>2
    <3>. QED
      BY <1>1, <1>5, <1>6, <3>1, Executes
  <2>2. Pushed(i)'
    BY <1>4, <1>6, <2>1 DEF Pushed, Back
  <2>3. RanUpTo(4 * n - 2 * i + 1)'
    <3>1. /\ 4 * n - 2 * i \in Nat /\ ~ (4 * n - 2 * i + 1 <= 2 * n)
          /\ (4 * n - 2 * i + 1) % 2 = 1
      BY <1>1
    <3>2. ChainOp(4 * n - 2 * i + 1) = "ret"
      BY <3>1 DEF ChainOp
    <3>3. PICK m \in Nat : m = 4 * n - 2 * i
      BY <3>1
    <3>4. RanUpTo(m) /\ ran' = Append(ran, ChainOp(m + 1)) /\ case' = case
      BY <1>4, <1>6, <2>1, <3>2, <3>3
    <3>5. RanUpTo(m + 1)'
      BY <3>4, RanOn
    <3>. QED
      BY <1>4, <3>3, <3>5
  <2>. QED
    BY <1>1, <1>3, <1>4, <1>6, <2>1, <2>2, <2>3, Unwound
<1>7. ASSUME NEW i \in 0 .. n, Down(i)
      PROVE  NestedInv'
  <2>1. ip = 16 * i /\ link = Back(i) /\ Pushed(i) /\ RanUpTo(2 * i)
    BY <1>7 DEF Down
  <2>2. CASE i = n
    <3>1. 4 * n + 1 \in 1 .. 4 * n + 1 /\ 4 * n - 2 * i = 2 * i
      BY <1>1, <2>2
    <3>2. ip = st[4 * n + 1].at /\ st[4 * n + 1].what = Ret(case) /\ RanUpTo(4 * n - 2 * i)
      BY <1>2, <2>1, <2>2, <3>1
    <3>. QED
      BY <1>6, <2>1, <3>1, <3>2
  <2>3. CASE i # n
    <3>1. /\ i \in 0 .. n - 1 /\ i \in Nat /\ 4 * i + 1 \in 1 .. 4 * n + 1
          /\ 2 * i \in Nat /\ 2 * i + 1 <= 2 * n /\ (2 * i + 1) % 2 = 1
      BY <1>1, <2>3
    <3>2. ip = st[4 * i + 1].at /\ st[4 * i + 1].what = Ins("save", 4) /\ ip \in Nat
      BY <1>2, <2>1, <3>1
    <3>3. ip' = ip + 4 /\ stack' = <<link>> \o stack /\ ran' = Append(ran, "save")
      <4>1. 4 * i + 1 \in 1 .. Len(st)
        BY <1>2, <3>1
      <4>. QED
        BY <1>1, <1>5, <3>2, <4>1, Executes
    <3>4. Pushed(i + 1)'
      BY <1>4, <2>1, <3>1, <3>3, PushOn
    <3>5. RanUpTo(2 * i + 1)'
      <4>1. ChainOp(2 * i + 1) = "save"
        BY <3>1 DEF ChainOp
      <4>. QED
        BY <1>4, <2>1, <3>1, <3>3, <4>1, RanOn
    <3>6. ip' = 16 * i + 4
      BY <2>1, <3>1, <3>3
    <3>7. Saved(i)'
      BY <1>4, <3>4, <3>5, <3>6 DEF Saved
    <3>. QED
      BY <1>3, <1>4, <3>1, <3>7 DEF NestedInv
  <2>. QED
    BY <2>2, <2>3
<1>8. ASSUME NEW i \in 0 .. n - 1, Saved(i)
      PROVE  NestedInv'
  <2>1. ip = 16 * i + 4 /\ Pushed(i + 1) /\ RanUpTo(2 * i + 1)
    BY <1>8 DEF Saved
  <2>2. /\ i \in Nat /\ 4 * i + 2 \in 1 .. 4 * n + 1 /\ i + 1 \in 0 .. n
        /\ 2 * i + 1 \in Nat /\ (2 * i + 1) + 1 = 2 * (i + 1) /\ 2 * (i + 1) <= 2 * n
        /\ (2 * (i + 1)) % 2 = 0
    BY <1>1
  <2>3. ip = st[4 * i + 2].at /\ st[4 * i + 2].what = Call(case) /\ ip \in Nat
    BY <1>2, <2>1, <2>2
  <2>4. ip' = ip + 12 /\ stack' = stack /\ link' = ip + 4 /\ ran' = Append(ran, "call")
    <3>1. 4 * i + 2 \in 1 .. Len(st)
      BY <1>2, <2>2
    <3>. QED
      BY <1>1, <1>5, <2>3, <3>1, Executes
  <2>5. ip' = 16 * (i + 1)
    BY <2>1, <2>2, <2>4
  <2>6. link' = Back(i + 1)'
    BY <1>4, <2>1, <2>2, <2>4 DEF Back
  <2>7. Pushed(i + 1)'
    BY <1>4, <2>1, <2>4 DEF Pushed, Back
  <2>8. RanUpTo(2 * (i + 1))'
    <3>1. ChainOp(2 * (i + 1)) = "call"
      BY <2>2 DEF ChainOp
    <3>2. RanUpTo((2 * i + 1) + 1)'
      BY <1>4, <2>1, <2>2, <2>4, <3>1, RanOn
    <3>. QED
      BY <2>2, <3>2
  <2>9. Down(i + 1)'
    BY <1>4, <2>5, <2>6, <2>7, <2>8 DEF Down
  <2>. QED
    BY <1>3, <1>4, <2>2, <2>9 DEF NestedInv
<1>9. ASSUME NEW i \in 0 .. n - 1, Restoring(i)
      PROVE  NestedInv'
  <2>1. ip = 16 * i + 8 /\ Pushed(i + 1) /\ RanUpTo(4 * n - 1 - 2 * i)
    BY <1>9 DEF Restoring
  <2>2. /\ i \in Nat /\ 4 * i + 3 \in 1 .. 4 * n + 1
        /\ 4 * n - 1 - 2 * i \in Nat /\ (4 * n - 1 - 2 * i) + 1 = 4 * n - 2 * i
        /\ ~ (4 * n - 2 * i <= 2 * n) /\ (4 * n - 2 * i) % 2 = 0
    BY <1>1
  <2>3. ip = st[4 * i + 3].at /\ st[4 * i + 3].what = Ins("restore", 4) /\ ip \in Nat
    BY <1>2, <2>1, <2>2
  <2>4. ip' = ip + 4 /\ stack' = Tail(stack) /\ link' = Head(stack)
        /\ ran' = Append(ran, "restore")
    <3>1. 4 * i + 3 \in 1 .. Len(st)
      BY <1>2, <2>2
    <3>. QED
      BY <1>1, <1>5, <2>3, <3>1, Executes
  <2>5. Pushed(i)' /\ link' = Back(i)
    BY <1>4, <2>1, <2>2, <2>4, PopOn
  <2>6. link' = Back(i)' /\ ip' = 16 * i + 12
    BY <1>4, <2>1, <2>2, <2>4, <2>5 DEF Back
  <2>7. RanUpTo(4 * n - 2 * i)'
    <3>1. ChainOp(4 * n - 2 * i) = "restore"
      BY <2>2 DEF ChainOp
    <3>2. PICK m \in Nat : m = 4 * n - 1 - 2 * i
      BY <2>2
    <3>3. m + 1 = 4 * n - 2 * i
      BY <2>2, <3>2
    <3>4. RanUpTo(m) /\ ran' = Append(ran, ChainOp(m + 1)) /\ case' = case
      BY <1>4, <2>1, <2>4, <3>1, <3>2, <3>3
    <3>5. RanUpTo(m + 1)'
      BY <3>4, RanOn
    <3>. QED
      BY <1>4, <3>3, <3>5
  <2>8. Up(i)'
    BY <1>4, <2>5, <2>6, <2>7 DEF Up
  <2>. QED
    BY <1>3, <1>4, <2>8 DEF NestedInv
<1>10. ASSUME NEW i \in 0 .. n - 1, Up(i)
       PROVE  NestedInv'
  <2>1. ip = 16 * i + 12 /\ link = Back(i) /\ Pushed(i) /\ RanUpTo(4 * n - 2 * i)
    BY <1>10 DEF Up
  <2>2. i \in 0 .. n /\ 4 * i + 4 \in 1 .. 4 * n + 1
    BY <1>1
  <2>3. ip = st[4 * i + 4].at /\ st[4 * i + 4].what = Ret(case)
    BY <1>2, <2>1
  <2>. QED
    BY <1>6, <2>1, <2>2, <2>3
<1>. QED
  BY <1>3, <1>7, <1>8, <1>9, <1>10

\* A target returns at once.
LEMMA TargetsOn ==
  ASSUME CodeInv, Execute, stage = "sealed", case.probe = "targets"
  PROVE  TargetsInv'
<1>. DEFINE st == Stores(case)
<1>1. /\ MemInv /\ case.count \in Nat /\ Len(st) = case.count
      /\ \A k \in 1 .. case.count :
           st[k].at = (k - 1) * TargetSlot /\ st[k].what = Ret(case)
  BY CaseIs, TargetsAre DEF CodeInv, MemInv, IsCase
<1>2. PICK m \in 0 .. case.count : entries = {i * TargetSlot : i \in 0 .. m - 1}
  BY DEF CodeInv, FlowInv, TargetsInv
<1>3. /\ called \subseteq entries
      /\ IsList(ran) /\ \A j \in 1 .. Len(ran) : ran[j] = "ret"
      /\ ip \in called /\ Len(ran) + 1 = Cardinality(called)
      /\ stack = IF X86(case) THEN <<Caller>> ELSE <<>>
      /\ X86(case) \/ link = Caller
  BY DEF CodeInv, FlowInv, TargetsInv, Execute
<1>4. PICK i \in 0 .. m - 1 : ip = i * TargetSlot
  BY <1>2, <1>3
<1>5. i + 1 \in 1 .. Len(st) /\ (i + 1) - 1 = i /\ i + 1 \in 1 .. case.count
  BY <1>1
<1>6. ip = st[i + 1].at /\ st[i + 1].what = Ret(case)
  BY <1>1, <1>4, <1>5
<1>7. /\ UNCHANGED <<case, entries, called>>
      /\ IF X86(case) THEN ip' = Head(stack) /\ stack' = Tail(stack)
         ELSE ip' = link /\ stack' = stack
      /\ ran' = Append(ran, "ret")
  BY <1>1, <1>5, <1>6, RetIs, Executes
<1>8. ip' = Caller /\ stack' = <<>>
  <2>1. Head(<<Caller>>) = Caller /\ Tail(<<Caller>>) = <<>>
    OBVIOUS
  <2>. QED
    BY <1>3, <1>7, <2>1
<1>9. /\ IsList(ran') /\ Len(ran') = Cardinality(called)
      /\ \A j \in 1 .. Len(ran') : ran'[j] = "ret"
  <2>1. /\ IsList(ran') /\ Len(ran') = Len(ran) + 1
        /\ \A j \in 1 .. Len(ran) : ran'[j] = ran[j]
        /\ ran'[Len(ran) + 1] = "ret"
    BY <1>3, <1>7, Appended
  <2>2. Len(ran) \in Nat
    BY <1>3 DEF IsList
  <2>3. \A j \in 1 .. Len(ran') : j \in 1 .. Len(ran) \/ j = Len(ran) + 1
    BY <2>1, <2>2
  <2>. QED
    BY <1>3, <2>1, <2>3
<1>10. m \in 0 .. case'.count /\ entries' = {k * TargetSlot : k \in 0 .. m - 1}
  BY <1>2, <1>7
<1>. QED
  BY <1>3, <1>7, <1>8, <1>9, <1>10 DEF TargetsInv

LEMMA ExecuteInv ==
  ASSUME CodeInv, Execute
  PROVE  CodeInv'
<1>1. UNCHANGED <<case, stage, mem, emitted, entries, called>>
  BY DEF Execute
<1>2. stage = "sealed"
  BY DEF CodeInv, MemInv, Execute
<1>3. MemInv'
  BY <1>1, <1>2 DEF CodeInv, MemInv
<1>4. Straight(case') => StraightInv'
  BY <1>1, <1>2, StraightOn
<1>5. case'.probe = "returns" => NestedInv'
  BY <1>1, <1>2, NestedOnX86, NestedOnArm
<1>6. case'.probe = "targets" => TargetsInv'
  BY <1>1, <1>2, TargetsOn
<1>. QED
  BY <1>3, <1>4, <1>5, <1>6 DEF CodeInv, FlowInv

\* One step of the generated code, or none.
LEMMA CodeNextInv == CodeInv /\ [CodeNext]_codeVars => CodeInv'
<1>. SUFFICES ASSUME CodeInv, [CodeNext]_codeVars PROVE CodeInv'
  OBVIOUS
<1>1. CASE MapBuffer
  BY <1>1, MapBufferInv
<1>2. CASE Emit
  BY <1>2, EmitInv
<1>3. CASE Seal
  BY <1>3, SealInv
<1>4. CASE \E e \in entries : Enter(e)
  BY <1>4, EnterInv
<1>5. CASE Execute
  BY <1>5, ExecuteInv
<1>6. CASE UNCHANGED codeVars
  <2>1. UNCHANGED <<case, stage, mem, emitted, entries, called, ip, stack, link, zero, ran>>
    BY <1>6 DEF codeVars
  <2>2. MemInv'
    BY <2>1 DEF CodeInv, MemInv
  <2>3. ASSUME stage = "sealed", Straight(case)
        PROVE  StraightInv'
    <3>1. PICK n \in 0 .. Len(Stores(case)) + 1 : StraightAt(n)
      BY <2>3 DEF CodeInv, FlowInv, StraightInv
    <3>2. StraightAt(n)'
      BY <2>1, <3>1 DEF StraightAt
    <3>3. entries' = {0} /\ n \in 0 .. Len(Stores(case)') + 1
      BY <2>1, <2>3 DEF CodeInv, FlowInv, StraightInv
    <3>. QED
      BY <3>2, <3>3 DEF StraightInv
  <2>4. ASSUME stage = "sealed", case.probe = "returns"
        PROVE  NestedInv'
    <3>1. NestedInv
      BY <2>4 DEF CodeInv, FlowInv
    <3>2. \A m : RanUpTo(m) => RanUpTo(m)'
      BY <2>1 DEF RanUpTo, ChainOp
    <3>3. \A m : Pushed(m) => Pushed(m)'
      BY <2>1 DEF Pushed, Back
    <3>4. \A m : Back(m)' = Back(m)
      BY <2>1 DEF Back
    <3>5. \A i : /\ Down(i) => Down(i)'
                 /\ Saved(i) => Saved(i)'
                 /\ Restoring(i) => Restoring(i)'
                 /\ Up(i) => Up(i)'
      BY <2>1, <3>2, <3>3, <3>4 DEF Down, Saved, Restoring, Up
    <3>6. Returned => Returned'
      BY <2>1, <3>2, <3>3 DEF Returned
    <3>. QED
      BY <2>1, <3>1, <3>5, <3>6 DEF NestedInv
  <2>5. ASSUME stage = "sealed", case.probe = "targets"
        PROVE  TargetsInv'
    <3>1. TargetsInv
      BY <2>5 DEF CodeInv, FlowInv
    <3>. QED
      BY <2>1, <3>1 DEF TargetsInv
  <2>. QED
    BY <2>1, <2>2, <2>3, <2>4, <2>5 DEF CodeInv, FlowInv
<1>. QED
  BY <1>1, <1>2, <1>3, <1>4, <1>5, <1>6 DEF CodeNext, Over

\* The inductive invariant holds for every set of cases.
THEOREM CodeInvariant == CodeSpec => []CodeInv
BY CodeInitInv, CodeNextInv, PTL DEF CodeSpec

\* No byte is stored outside the buffer, and the processor only comes upon
\* whole instructions, for every case that the probes may generate.
THEOREM CodeStaysInside == CodeSpec => []StaysInCode
<1>1. ASSUME CodeInv PROVE StaysInCode
  <2>1. stage \in {"emit", "sealed"} => DOMAIN mem = 0 .. Room(case) - 1
    BY <1>1 DEF CodeInv, MemInv
  <2>2. ASSUME ip # Caller
        PROVE  stage = "sealed" /\ Intact(ip)
    <3>. DEFINE st == Stores(case)
    <3>1. MemInv /\ stage = "sealed" /\ FlowInv /\ case \in Cases
      BY <1>1, <2>2 DEF CodeInv, MemInv
    <3>2. IsCase(case)
      BY <3>1, CaseIs
    <3>3. \E k \in 1 .. Len(st) : ip = st[k].at
      <4>1. CASE Straight(case)
        BY <2>2, <3>1, <4>1 DEF FlowInv, StraightInv, StraightAt
      <4>2. CASE case.probe = "returns" /\ X86(case)
        <5>1. /\ Len(st) = 2 * case.count + 1 /\ case.count \in Nat
              /\ \A i \in 0 .. case.count - 1 :
                   st[2 * i + 1].at = 6 * i /\ st[2 * i + 2].at = 6 * i + 5
              /\ st[2 * case.count + 1].at = 6 * case.count
          BY <3>2, <4>2, ReturnsAre DEF FramesAt, IsCase
        <5>2. \/ \E i \in 0 .. case.count : ip = 6 * i
              \/ \E i \in 0 .. case.count - 1 : ip = 6 * i + 5
          BY <2>2, <3>1, <4>2 DEF FlowInv, NestedInv, Down, Saved, Restoring, Up, Returned
        <5>3. ASSUME NEW i \in 0 .. case.count, ip = 6 * i
              PROVE  \E k \in 1 .. Len(st) : ip = st[k].at
          <6>1. 2 * i + 1 \in 1 .. Len(st) /\ (i = case.count \/ i \in 0 .. case.count - 1)
            <7>1. Len(st) = 2 * case.count + 1 /\ case.count \in Nat
              BY <5>1
            <7>. HIDE DEF st
            <7>. QED
              BY <7>1
          <6>2. ip = st[2 * i + 1].at
            BY <5>1, <5>3, <6>1
          <6>. QED
            BY <6>1, <6>2
        <5>4. ASSUME NEW i \in 0 .. case.count - 1, ip = 6 * i + 5
              PROVE  \E k \in 1 .. Len(st) : ip = st[k].at
          <6>1. 2 * i + 2 \in 1 .. Len(st)
            <7>1. Len(st) = 2 * case.count + 1 /\ case.count \in Nat
              BY <5>1
            <7>. HIDE DEF st
            <7>. QED
              BY <7>1
          <6>2. ip = st[2 * i + 2].at
            BY <5>1, <5>4
          <6>. QED
            BY <6>1, <6>2
        <5>. QED
          BY <5>2, <5>3, <5>4
      <4>3. CASE case.probe = "returns" /\ ~X86(case)
        <5>1. /\ Len(st) = 4 * case.count + 1 /\ case.count \in Nat
              /\ \A i \in 0 .. case.count - 1 :
                   /\ st[4 * i + 1].at = 16 * i /\ st[4 * i + 2].at = 16 * i + 4
                   /\ st[4 * i + 3].at = 16 * i + 8 /\ st[4 * i + 4].at = 16 * i + 12
              /\ st[4 * case.count + 1].at = 16 * case.count
          BY <3>2, <4>3, ReturnsAre DEF FramesAt, IsCase
        <5>2. \/ \E i \in 0 .. case.count : ip = 16 * i
              \/ \E i \in 0 .. case.count - 1 : ip \in {16 * i + 4, 16 * i + 8, 16 * i + 12}
          BY <2>2, <3>1, <4>3 DEF FlowInv, NestedInv, Down, Saved, Restoring, Up, Returned
        <5>3. ASSUME NEW i \in 0 .. case.count, ip = 16 * i
              PROVE  \E k \in 1 .. Len(st) : ip = st[k].at
          <6>1. 4 * i + 1 \in 1 .. Len(st) /\ (i = case.count \/ i \in 0 .. case.count - 1)
            <7>1. Len(st) = 4 * case.count + 1 /\ case.count \in Nat
              BY <5>1
            <7>. HIDE DEF st
            <7>. QED
              BY <7>1
          <6>2. ip = st[4 * i + 1].at
            BY <5>1, <5>3, <6>1
          <6>. QED
            BY <6>1, <6>2
        <5>4. ASSUME NEW i \in 0 .. case.count - 1,
                     ip \in {16 * i + 4, 16 * i + 8, 16 * i + 12}
              PROVE  \E k \in 1 .. Len(st) : ip = st[k].at
          <6>1. /\ 4 * i + 2 \in 1 .. Len(st) /\ 4 * i + 3 \in 1 .. Len(st)
                /\ 4 * i + 4 \in 1 .. Len(st)
            <7>1. Len(st) = 4 * case.count + 1 /\ case.count \in Nat
              BY <5>1
            <7>. HIDE DEF st
            <7>. QED
              BY <7>1
          <6>2. ip \in {st[4 * i + 2].at, st[4 * i + 3].at, st[4 * i + 4].at}
            BY <5>1, <5>4
          <6>. QED
            BY <6>1, <6>2
        <5>. QED
          BY <5>2, <5>3, <5>4
      <4>4. CASE case.probe = "targets"
        <5>1. /\ Len(st) = case.count /\ case.count \in Nat
              /\ \A k \in 1 .. case.count : st[k].at = (k - 1) * TargetSlot
          BY <3>2, <4>4, TargetsAre DEF IsCase
        <5>2. TargetsInv
          BY <3>1, <4>4 DEF FlowInv
        <5>3. PICK m \in 0 .. case.count : ip \in {i * TargetSlot : i \in 0 .. m - 1}
          BY <2>2, <5>2 DEF TargetsInv
        <5>4. PICK i \in 0 .. m - 1 : ip = i * TargetSlot
          BY <5>3
        <5>5. i + 1 \in 1 .. case.count /\ (i + 1) - 1 = i
          BY <5>1
        <5>. QED
          BY <5>1, <5>4, <5>5
      <4>. QED
        BY <3>2, <4>1, <4>2, <4>3, <4>4 DEF IsCase, Straight
    <3>4. PICK k \in 1 .. Len(st) : ip = st[k].at
      BY <3>3
    <3>5. Intact(st[k].at)
      BY <3>1, SealedIs
    <3>6. Intact(ip)
      BY <3>4, <3>5 DEF Intact
    <3>. QED
      BY <3>1, <3>6
  <2>. QED
    BY <2>1, <2>2 DEF StaysInCode
<1>. QED
  BY <1>1, CodeInvariant, PTL

--------------------------------------------------------------------------------
(* What has been executed when the kernel is done. *)

\* Straight code has executed each of its instructions, once.
LEMMA StraightOver ==
  ASSUME CodeInv, stage = "sealed", ip = Caller, called = entries, Straight(case)
  PROVE  /\ stack = <<>> /\ DOMAIN ran = 1 .. Len(Stores(case))
         /\ \A j \in 1 .. Len(Stores(case)) : ran[j] = Stores(case)[j].what.op
<1>. DEFINE st == Stores(case)
<1>1. entries = {0} /\ called = {0}
  BY DEF CodeInv, FlowInv, StraightInv
<1>2. PICK n \in 0 .. Len(st) + 1 : StraightAt(n)
  BY DEF CodeInv, FlowInv, StraightInv
<1>3. InTurn(case, st)
  BY CaseIs DEF CodeInv, MemInv
<1>4. /\ called = IF n = 0 THEN {} ELSE {0}
      /\ ip = IF n \in 1 .. Len(st) THEN st[n].at ELSE Caller
      /\ stack = IF n \in 1 .. Len(st) /\ X86(case) THEN <<Caller>> ELSE <<>>
      /\ IsList(ran) /\ Len(ran) = IF n = 0 THEN 0 ELSE n - 1
      /\ \A j \in 1 .. Len(ran) : ran[j] = st[j].what.op
  BY <1>2 DEF StraightAt
<1>. HIDE DEF st
<1>5. n # 0
  BY <1>1, <1>4
<1>6. n \notin 1 .. Len(st)
  <2>1. SUFFICES ASSUME n \in 1 .. Len(st) PROVE FALSE
    OBVIOUS
  <2>2. st[n].at \in Nat
    BY <1>3, <2>1 DEF InTurn
  <2>. QED
    BY <1>4, <2>1, <2>2 DEF Caller
<1>7. Len(st) \in Nat
  BY <1>3 DEF InTurn, IsList
<1>8. n - 1 = Len(st)
  BY <1>5, <1>6, <1>7
<1>9. Len(ran) = Len(st) /\ DOMAIN ran = 1 .. Len(ran)
  BY <1>4, <1>5, <1>8 DEF IsList
<1>. QED
  BY <1>4, <1>6, <1>9 DEF st

\* How many numbers an interval has, and how many of them are odd.
LEMMA IntervalSize ==
  ASSUME NEW a \in Nat, NEW n \in Nat
  PROVE  Cardinality(a + 1 .. a + n) = n
<1>1. Cardinality(a + 1 .. a + n) = IF a + 1 > a + n THEN 0 ELSE (a + n) - (a + 1) + 1
  BY FS_Interval
<1>. QED
  BY <1>1

LEMMA OddSize ==
  ASSUME NEW n \in Nat
  PROVE  Cardinality({k \in 1 .. 4 * n + 1 : k > 2 * n /\ k % 2 = 1}) = n + 1
<1>. DEFINE T == {k \in 1 .. 4 * n + 1 : k > 2 * n /\ k % 2 = 1}
            f == [t \in 0 .. n |-> 2 * n + 1 + 2 * t]
<1>1. \A t \in 0 .. n : f[t] \in T
  OBVIOUS
<1>2. \A k \in T : \E t \in 0 .. n : f[t] = k
  <2>1. TAKE k \in T
  <2>2. (k - 2 * n - 1) \div 2 \in 0 .. n /\ 2 * ((k - 2 * n - 1) \div 2) = k - 2 * n - 1
    OBVIOUS
  <2>3. f[(k - 2 * n - 1) \div 2] = k
    BY <2>2
  <2>. QED
    BY <2>2, <2>3
<1>3. \A s, t \in 0 .. n : f[s] = f[t] => s = t
  OBVIOUS
<1>4. f \in [0 .. n -> T]
  BY <1>1
<1>5. IsFiniteSet(0 .. n) /\ Cardinality(0 .. n) = n + 1
  BY FS_Interval
<1>. HIDE DEF f, T
<1>6. f \in Surjection(0 .. n, T) /\ f \in Injection(0 .. n, T)
  BY <1>2, <1>3, <1>4 DEF Surjection, Injection, IsInjective
<1>7. Cardinality(T) = Cardinality(0 .. n)
  BY <1>5, <1>6, FS_Surjection
<1>. QED
  BY <1>5, <1>7 DEF T

\* A chain of calls has left as many frames as it has entered.
LEMMA NestedOver ==
  ASSUME CodeInv, stage = "sealed", ip = Caller, called = entries, case.probe = "returns"
  PROVE  stack = <<>> /\ Times("ret") = case.count + 1
<1>. DEFINE n == case.count
<1>1. n \in Nat
  BY CaseIs DEF CodeInv, MemInv, IsCase
<1>2. Returned
  <2>1. entries = {0} /\ called = {0}
    BY DEF CodeInv, FlowInv, NestedInv
  <2>2. \A i \in 0 .. n : ~Down(i)
    BY <1>1 DEF Down, Caller
  <2>3. \A i \in 0 .. n - 1 : ~Saved(i) /\ ~Restoring(i) /\ ~Up(i)
    BY <1>1 DEF Saved, Restoring, Up, Caller
  <2>. QED
    BY <2>1, <2>2, <2>3 DEF CodeInv, FlowInv, NestedInv
<1>3. stack = <<>>
  <2>1. IsList(stack) /\ Len(stack) = 0
    BY <1>2 DEF Returned, Pushed
  <2>. QED
    BY <2>1 DEF IsList
<1>4. CASE X86(case)
  <2>1. RanUpTo(2 * n + 1)
    BY <1>2, <1>4 DEF Returned
  <2>2. DOMAIN ran = 1 .. 2 * n + 1 /\ \A j \in 1 .. 2 * n + 1 : ran[j] = ChainOp(j)
    BY <2>1 DEF RanUpTo, IsList
  <2>3. \A j \in 1 .. 2 * n + 1 : ChainOp(j) = "ret" <=> j \in n + 1 .. n + (n + 1)
    BY <1>1, <1>4 DEF ChainOp
  <2>4. {k \in DOMAIN ran : ran[k] = "ret"} = n + 1 .. n + (n + 1)
    <3>1. \A j \in n + 1 .. n + (n + 1) : j \in 1 .. 2 * n + 1
      BY <1>1
    <3>. QED
      BY <2>2, <2>3, <3>1
  <2>5. Cardinality(n + 1 .. n + (n + 1)) = n + 1
    <3>1. n + 1 \in Nat
      BY <1>1
    <3>. QED
      BY <1>1, <3>1, IntervalSize
  <2>. QED
    BY <1>3, <2>4, <2>5 DEF Times
<1>5. CASE ~X86(case)
  <2>1. RanUpTo(4 * n + 1)
    BY <1>2, <1>5 DEF Returned
  <2>2. DOMAIN ran = 1 .. 4 * n + 1 /\ \A j \in 1 .. 4 * n + 1 : ran[j] = ChainOp(j)
    BY <2>1 DEF RanUpTo, IsList
  <2>3. \A j \in 1 .. 4 * n + 1 : ChainOp(j) = "ret" <=> j > 2 * n /\ j % 2 = 1
    BY <1>1, <1>5 DEF ChainOp
  <2>4. {k \in DOMAIN ran : ran[k] = "ret"} = {k \in 1 .. 4 * n + 1 : k > 2 * n /\ k % 2 = 1}
    BY <2>2, <2>3
  <2>. QED
    BY <1>1, <1>3, <2>4, OddSize DEF Times
<1>. QED
  BY <1>4, <1>5

\* Each target that was called has returned.
LEMMA TargetsOver ==
  ASSUME CodeInv, stage = "sealed", ip = Caller, called = entries, case.probe = "targets"
  PROVE  stack = <<>> /\ Times("ret") = Cardinality(entries)
<1>1. /\ stack = <<>> /\ IsList(ran) /\ Len(ran) = Cardinality(entries)
      /\ \A j \in 1 .. Len(ran) : ran[j] = "ret"
  BY DEF CodeInv, FlowInv, TargetsInv
<1>2. Len(ran) \in Nat /\ {k \in DOMAIN ran : ran[k] = "ret"} = 1 .. Len(ran)
  BY <1>1 DEF IsList
<1>3. Cardinality(1 .. Len(ran)) = Len(ran)
  <2>1. Cardinality(0 + 1 .. 0 + Len(ran)) = Len(ran)
    BY <1>2, IntervalSize
  <2>2. 0 + 1 .. 0 + Len(ran) = 1 .. Len(ran)
    BY <1>2
  <2>. QED
    BY <2>1, <2>2
<1>. QED
  BY <1>1, <1>2, <1>3 DEF Times

\* A kernel that is done has executed what its figures are divided by, for every
\* count, spacing and architecture.
THEOREM CountsAreRun == CodeSpec => []RunsWhatIsCounted
<1>1. ASSUME CodeInv PROVE RunsWhatIsCounted
  <2>. SUFFICES ASSUME stage = "sealed", ip = Caller, called = entries
                PROVE  /\ stack = <<>>
                       /\ case.probe \in {"jumps", "branches"} =>
                            Times(Jump(case).op) = case.count
                       /\ case.probe = "returns" => Times("ret") = case.count + 1
                       /\ case.probe = "targets" => Times("ret") = Cardinality(entries)
                       /\ case.probe = "rob" =>
                            /\ Times("add") = case.count
                            /\ {k \in DOMAIN ran : ran[k] = "load"} = {7, case.count + 8}
                       /\ case.probe = "fetch" => Times("nop") = Body(case) \div case.width
                       /\ case.probe \in {"jumps", "branches", "returns", "targets", "rob", "fetch"}
    BY DEF RunsWhatIsCounted
  <2>. DEFINE st == Stores(case)
  <2>1. IsCase(case)
    BY <1>1, CaseIs DEF CodeInv, MemInv
  <2>2. case.probe \in {"jumps", "branches", "returns", "targets", "rob", "fetch"}
        /\ case.count \in Nat
    BY <2>1 DEF IsCase
  <2>3. ASSUME Straight(case)
        PROVE  /\ stack = <<>> /\ DOMAIN ran = 1 .. Len(st)
               /\ \A j \in 1 .. Len(st) : ran[j] = st[j].what.op
    BY <1>1, <2>3, StraightOver
  <2>4. ASSUME Straight(case), NEW op, NEW a \in Nat, NEW n \in Nat, a + n <= Len(st),
               \A j \in 1 .. Len(st) : st[j].what.op = op <=> j \in a + 1 .. a + n
        PROVE  Times(op) = n
    <3>1. \A j \in a + 1 .. a + n : j \in 1 .. Len(st)
      BY <2>4
    <3>2. {k \in DOMAIN ran : ran[k] = op} = a + 1 .. a + n
      BY <2>3, <2>4, <3>1
    <3>. QED
      BY <3>2, IntervalSize DEF Times
  <2>5. ASSUME case.probe \in {"jumps", "branches"}
        PROVE  stack = <<>> /\ Times(Jump(case).op) = case.count
    <3>1. Straight(case)
      BY <2>5 DEF Straight
    <3>2. /\ Len(st) = Len(Prefix(case)) + case.count + 1
          /\ Len(Prefix(case)) \in {0, 1}
          /\ \A k \in 1 .. Len(st) :
               st[k].what.op = Jump(case).op
                 <=> k \in Len(Prefix(case)) + 1 .. Len(Prefix(case)) + case.count
      BY <2>1, <2>5, JumpsAre
    <3>3. Len(Prefix(case)) \in Nat /\ Len(Prefix(case)) + case.count <= Len(st)
      BY <2>2, <3>2
    <3>. QED
      BY <2>2, <2>3, <2>4, <3>1, <3>2, <3>3
  <2>6. ASSUME case.probe = "rob"
        PROVE  /\ stack = <<>> /\ Times("add") = case.count
               /\ {k \in DOMAIN ran : ran[k] = "load"} = {7, case.count + 8}
    <3>1. Straight(case)
      BY <2>6 DEF Straight
    <3>2. /\ Len(st) = 16 + case.count
          /\ \A k \in 1 .. Len(st) :
               /\ st[k].what.op = "add" <=> k \in 8 .. case.count + 7
               /\ st[k].what.op = "load" <=> k = 7 \/ k = case.count + 8
      BY <2>1, <2>6, TrialIs
    <3>3. 7 + 1 .. 7 + case.count = 8 .. case.count + 7 /\ 7 + case.count <= Len(st)
          /\ 7 \in 1 .. Len(st) /\ case.count + 8 \in 1 .. Len(st)
      <4>1. Len(st) = 16 + case.count /\ case.count \in Nat
        BY <2>2, <3>2
      <4>. HIDE DEF st
      <4>2. 7 + 1 .. 7 + case.count = 8 .. case.count + 7
        BY <4>1
      <4>. QED
        BY <4>1, <4>2
    <3>4. Times("add") = case.count
      <4>1. \A j \in 1 .. Len(st) : st[j].what.op = "add" <=> j \in 7 + 1 .. 7 + case.count
        BY <3>2, <3>3
      <4>. QED
        BY <2>2, <2>4, <3>1, <3>3, <4>1
    <3>5. {k \in DOMAIN ran : ran[k] = "load"} = {7, case.count + 8}
      BY <2>3, <3>1, <3>2, <3>3
    <3>. QED
      BY <2>3, <3>1, <3>4, <3>5
  <2>7. ASSUME case.probe = "fetch"
        PROVE  stack = <<>> /\ Times("nop") = Body(case) \div case.width
    <3>1. Straight(case)
      BY <2>7 DEF Straight
    <3>. DEFINE n == Body(case) \div case.width
    <3>2. /\ Len(st) = n + 1 /\ n \in Nat
          /\ \A k \in 1 .. Len(st) : st[k].what.op = "nop" <=> k \in 1 .. n
      BY <2>1, <2>7, FetchIs
    <3>. HIDE DEF n
    <3>3. 0 + 1 .. 0 + n = 1 .. n /\ 0 + n <= Len(st)
      BY <3>2
    <3>4. Times("nop") = n
      BY <2>4, <3>1, <3>2, <3>3
    <3>. QED
      BY <2>3, <3>1, <3>4 DEF n
  <2>8. case.probe = "returns" => stack = <<>> /\ Times("ret") = case.count + 1
    BY <1>1, NestedOver
  <2>9. case.probe = "targets" => stack = <<>> /\ Times("ret") = Cardinality(entries)
    BY <1>1, TargetsOver
  <2>. QED
    BY <2>2, <2>5, <2>6, <2>7, <2>8, <2>9
<1>. QED
  BY <1>1, CodeInvariant, PTL
================================================================================
