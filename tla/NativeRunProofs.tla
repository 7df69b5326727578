---------------------------- MODULE NativeRunProofs ----------------------------
(***************************************************************************)
(* Proofs about NativeRun, for any machines, command lines and bounds.     *)
(***************************************************************************)
EXTENDS NativeRun, FiniteSetTheorems, SequenceTheorems, TLAPS

--------------------------------------------------------------------------------
(* Orders: InOrder lists a finite set without repetition. *)

IsOrder(S, R) ==
  /\ \A x \in S : <<x, x>> \notin R
  /\ \A x, y \in S : x # y => <<x, y>> \in R \/ <<y, x>> \in R
  /\ \A x, y, z \in S : <<x, y>> \in R /\ <<y, z>> \in R => <<x, z>> \in R

Before(S, R, x) == {y \in S : <<y, x>> \in R}

\* An element has as many before it as its place says.
LEMMA Ranks ==
  ASSUME NEW S, IsFiniteSet(S), NEW R, IsOrder(S, R)
  PROVE  LET rank == [x \in S |-> Cardinality(Before(S, R, x))]
         IN  /\ rank \in Bijection(S, 0 .. Cardinality(S) - 1)
             /\ \A x, y \in S : <<x, y>> \in R => rank[x] < rank[y]
<1>. DEFINE n == Cardinality(S)
            rank == [x \in S |-> Cardinality(Before(S, R, x))]
<1>1. n \in Nat
  BY FS_CardinalityType
<1>2. ASSUME NEW x \in S
      PROVE  IsFiniteSet(Before(S, R, x)) /\ rank[x] \in 0 .. n - 1
  <2>1. Before(S, R, x) \subseteq S \ {x}
    BY DEF Before, IsOrder
  <2>2. IsFiniteSet(S \ {x}) /\ Cardinality(S \ {x}) = n - 1
    BY FS_RemoveElement
  <2>3. IsFiniteSet(Before(S, R, x)) /\ Cardinality(Before(S, R, x)) <= n - 1
    BY <2>1, <2>2, FS_Subset
  <2>4. Cardinality(Before(S, R, x)) \in Nat
    BY <2>3, FS_CardinalityType
  <2>. QED
    BY <1>1, <2>3, <2>4
<1>3. ASSUME NEW x \in S, NEW y \in S, <<x, y>> \in R
      PROVE  rank[x] < rank[y]
  <2>1. Before(S, R, x) \cup {x} \subseteq Before(S, R, y)
    BY <1>3 DEF Before, IsOrder
  <2>2. x \notin Before(S, R, x)
    BY DEF Before, IsOrder
  <2>3. Cardinality(Before(S, R, x) \cup {x}) = rank[x] + 1
    BY <1>2, <2>2, FS_AddElement
  <2>4. Cardinality(Before(S, R, x) \cup {x}) <= rank[y]
    BY <1>2, <2>1, FS_Subset
  <2>5. rank[x] \in Nat /\ rank[y] \in Nat
    BY <1>2
  <2>. QED
    BY <2>3, <2>4, <2>5
<1>4. rank \in [S -> 0 .. n - 1]
  BY <1>2
<1>5. rank \in Injection(S, 0 .. n - 1)
  <2>1. ASSUME NEW x \in S, NEW y \in S, rank[x] = rank[y]
        PROVE  x = y
    <3>1. rank[x] \in Int /\ rank[y] \in Int
      BY <1>2
    <3>2. <<x, y>> \notin R /\ <<y, x>> \notin R
      BY <1>3, <2>1, <3>1
    <3>. QED
      BY <3>2 DEF IsOrder
  <2>. HIDE DEF rank
  <2>. QED
    BY <1>4, <2>1 DEF Injection, IsInjective
<1>6. IsFiniteSet(0 .. n - 1) /\ Cardinality(0 .. n - 1) = n
  <2>1. 0 \in Int /\ n - 1 \in Int
    BY <1>1
  <2>2. IsFiniteSet(0 .. n - 1) /\ Cardinality(0 .. n - 1) = IF 0 > n - 1 THEN 0 ELSE n - 1 - 0 + 1
    BY <2>1, FS_Interval
  <2>. QED
    BY <1>1, <2>2
<1>7. rank \in Surjection(S, 0 .. n - 1)
  <2>. HIDE DEF rank
  <2>. QED
    BY <1>5, <1>6, FS_Injection
<1>. QED
  BY <1>3, <1>5, <1>7 DEF Bijection

\* InOrder lists each element once, and lesser ones first.
LEMMA Listed ==
  ASSUME NEW S, IsFiniteSet(S), NEW R, IsOrder(S, R)
  PROVE  LET s == InOrder(S, R)
             n == Cardinality(S)
         IN  /\ n \in Nat /\ s \in [1 .. n -> S]
             /\ s \in Seq(S) /\ Len(s) = n /\ DOMAIN s = 1 .. n
             /\ \A x \in S : \E i \in 1 .. n : s[i] = x
             /\ \A i, j \in 1 .. n : i < j => <<s[i], s[j]>> \in R
<1>. DEFINE n == Cardinality(S)
            rank == [x \in S |-> Cardinality(Before(S, R, x))]
            s == InOrder(S, R)
<1>1. n \in Nat
  BY FS_CardinalityType
<1>2. /\ rank \in Bijection(S, 0 .. n - 1)
      /\ \A x, y \in S : <<x, y>> \in R => rank[x] < rank[y]
  BY Ranks
<1>3. s = [i \in 1 .. n |-> CHOOSE x \in S : Cardinality(Before(S, R, x)) = i - 1]
  BY DEF InOrder, Before
<1>. HIDE DEF rank, s
<1>4. ASSUME NEW i \in 1 .. n
      PROVE  s[i] \in S /\ rank[s[i]] = i - 1
  <2>1. i - 1 \in 0 .. n - 1
    BY <1>1
  <2>2. \E x \in S : rank[x] = i - 1
    BY <1>2, <2>1 DEF Bijection, Surjection
  <2>3. \E x \in S : Cardinality(Before(S, R, x)) = i - 1
    BY <2>2 DEF rank
  <2>4. s[i] \in S /\ Cardinality(Before(S, R, s[i])) = i - 1
    BY <1>3, <2>3
  <2>. QED
    BY <2>4 DEF rank
<1>5. s \in [1 .. n -> S]
  BY <1>3, <1>4
<1>6. s \in Seq(S) /\ Len(s) = n /\ DOMAIN s = 1 .. n
  BY <1>1, <1>5
<1>7. ASSUME NEW x \in S
      PROVE  \E i \in 1 .. n : s[i] = x
  <2>1. rank[x] \in 0 .. n - 1
    BY <1>2 DEF Bijection, Surjection
  <2>2. rank[x] + 1 \in 1 .. n
    BY <1>1, <2>1
  <2>3. rank[s[rank[x] + 1]] = rank[x] /\ s[rank[x] + 1] \in S
    BY <1>4, <2>1, <2>2
  <2>4. s[rank[x] + 1] = x
    BY <1>2, <2>3 DEF Bijection, Injection, IsInjective
  <2>. QED
    BY <2>2, <2>4
<1>8. ASSUME NEW i \in 1 .. n, NEW j \in 1 .. n, i < j
      PROVE  <<s[i], s[j]>> \in R
  <2>1. s[i] \in S /\ s[j] \in S /\ rank[s[i]] = i - 1 /\ rank[s[j]] = j - 1
    BY <1>4
  <2>2. s[i] # s[j] /\ <<s[j], s[i]>> \notin R
    BY <1>1, <1>2, <1>8, <2>1
  <2>. QED
    BY <2>1, <2>2 DEF IsOrder
<1>. QED
  BY <1>1, <1>5, <1>6, <1>7, <1>8 DEF s

LEMMA Upward ==
  ASSUME NEW S \in SUBSET Int, IsFiniteSet(S)
  PROVE  LET s == Ascending(S)
             n == Cardinality(S)
         IN  /\ n \in Nat /\ s \in [1 .. n -> S]
             /\ s \in Seq(S) /\ Len(s) = n /\ DOMAIN s = 1 .. n
             /\ \A x \in S : \E i \in 1 .. n : s[i] = x
             /\ \A i, j \in 1 .. n : i < j => s[i] < s[j]
<1>. DEFINE R == {p \in S \X S : p[1] < p[2]}
<1>1. \A x, y \in S : <<x, y>> \in R <=> x < y
  OBVIOUS
<1>2. \A x \in S : x \in Int
  OBVIOUS
<1>3. IsOrder(S, R)
  <2>1. \A x, y \in S : x # y => x < y \/ y < x
    BY <1>2
  <2>2. \A x, y, z \in S : x < y /\ y < z => x < z
    BY <1>2
  <2>3. \A x \in S : ~(x < x)
    BY <1>2
  <2>. HIDE DEF R
  <2>. QED
    BY <1>1, <2>1, <2>2, <2>3 DEF IsOrder
<1>. HIDE DEF R
<1>4. Ascending(S) = InOrder(S, R)
  BY DEF Ascending, R
<1>. DEFINE s == Ascending(S)
            n == Cardinality(S)
<1>5. /\ n \in Nat /\ s \in [1 .. n -> S]
      /\ s \in Seq(S) /\ Len(s) = n /\ DOMAIN s = 1 .. n
      /\ \A x \in S : \E i \in 1 .. n : s[i] = x
      /\ \A i, j \in 1 .. n : i < j => <<s[i], s[j]>> \in R
  BY <1>3, <1>4, Listed
<1>. HIDE DEF s
<1>6. \A i, j \in 1 .. n : i < j => s[i] < s[j]
  BY <1>1, <1>5
<1>. QED
  BY <1>5, <1>6 DEF s

--------------------------------------------------------------------------------
(* Sequences. *)

IsList(s) == s \in Seq(ToSet(s)) /\ Len(s) \in Nat /\ DOMAIN s = 1 .. Len(s)

LEMMA MakesList ==
  ASSUME NEW n \in Nat, NEW s, s = [i \in 1 .. n |-> s[i]]
  PROVE  IsList(s) /\ Len(s) = n
<1>1. s \in [1 .. n -> ToSet(s)]
  BY DEF ToSet
<1>. QED
  BY <1>1 DEF IsList

LEMMA ListOf ==
  ASSUME NEW E, NEW s \in Seq(E)
  PROVE  IsList(s) /\ \A i \in 1 .. Len(s) : s[i] \in E
<1>1. Len(s) \in Nat /\ DOMAIN s = 1 .. Len(s) /\ s = [i \in 1 .. Len(s) |-> s[i]]
  OBVIOUS
<1>. QED
  BY <1>1, MakesList

\* A concatenation has the elements of both.
LEMMA Joined ==
  ASSUME NEW s, IsList(s), NEW t, IsList(t)
  PROVE  /\ IsList(s \o t)
         /\ \A k \in 1 .. Len(s \o t) :
              \/ \E i \in 1 .. Len(s) : (s \o t)[k] = s[i]
              \/ \E i \in 1 .. Len(t) : (s \o t)[k] = t[i]
<1>. DEFINE E == ToSet(s) \cup ToSet(t)
<1>1. s \in Seq(E) /\ t \in Seq(E)
  <2>1. ToSet(s) \subseteq E /\ ToSet(t) \subseteq E
    OBVIOUS
  <2>. HIDE DEF E
  <2>. QED
    BY <2>1, SeqMonotonic DEF IsList
<1>. HIDE DEF E
<1>2. s \o t \in Seq(E) /\ Len(s \o t) = Len(s) + Len(t)
  BY <1>1, ConcatProperties
<1>3. \A k \in 1 .. Len(s) + Len(t) :
        (s \o t)[k] = IF k <= Len(s) THEN s[k] ELSE t[k - Len(s)]
  BY <1>1, ConcatProperties
<1>4. ASSUME NEW k \in 1 .. Len(s \o t)
      PROVE  \/ \E i \in 1 .. Len(s) : (s \o t)[k] = s[i]
             \/ \E i \in 1 .. Len(t) : (s \o t)[k] = t[i]
  <2>1. Len(s) \in Nat /\ Len(t) \in Nat
    BY DEF IsList
  <2>2. CASE k <= Len(s)
    BY <1>2, <1>3, <2>1, <2>2
  <2>3. CASE k > Len(s)
    <3>1. k - Len(s) \in 1 .. Len(t) /\ (s \o t)[k] = t[k - Len(s)]
      BY <1>2, <1>3, <2>1, <2>3
    <3>. QED
      BY <3>1
  <2>. QED
    BY <2>1, <2>2, <2>3
<1>. QED
  BY <1>2, <1>4, ListOf

\* What AtPlaces takes from a sequence.
LEMMA Taken ==
  ASSUME NEW s, IsList(s), NEW I \in SUBSET DOMAIN s
  PROVE  LET t == AtPlaces(s, I)
             n == Cardinality(I)
             o == Ascending(I)
         IN  /\ n \in Nat /\ IsList(t) /\ Len(t) = n
             /\ o \in [1 .. n -> I]
             /\ \A k \in 1 .. n : t[k] = s[o[k]]
             /\ \A i \in I : \E k \in 1 .. n : o[k] = i
             /\ \A j, k \in 1 .. n : j < k => o[j] < o[k]
<1>. DEFINE t == AtPlaces(s, I)
            n == Cardinality(I)
            o == Ascending(I)
<1>1. IsFiniteSet(I) /\ I \subseteq Int
  <2>1. Len(s) \in Nat /\ DOMAIN s = 1 .. Len(s)
    BY DEF IsList
  <2>2. IsFiniteSet(1 .. Len(s))
    BY <2>1, FS_Interval
  <2>. QED
    BY <2>1, <2>2, FS_Subset
<1>2. /\ n \in Nat /\ o \in [1 .. n -> I]
      /\ \A i \in I : \E k \in 1 .. n : o[k] = i
      /\ \A j, k \in 1 .. n : j < k => o[j] < o[k]
  BY <1>1, Upward
<1>3. t = [k \in 1 .. n |-> s[o[k]]]
  BY DEF AtPlaces
<1>. HIDE DEF t, n, o
<1>4. IsList(t) /\ Len(t) = n /\ \A k \in 1 .. n : t[k] = s[o[k]]
  BY <1>2, <1>3, MakesList
<1>. QED
  BY <1>2, <1>4 DEF t, n, o

\* thread_counts
LEMMA CountsUp ==
  ASSUME NEW m \in Nat
  PROVE  LET s == ThreadCounts(m)
         IN  IsList(s) /\ \A i \in 1 .. Len(s) : s[i] \in 1 .. m
<1>. DEFINE S == {n \in 1 .. m : n = m \/ \E k \in 0 .. n : n = 2 ^ k}
<1>1. IsFiniteSet(1 .. m)
  BY FS_Interval
<1>2. IsFiniteSet(S) /\ S \subseteq Int
  BY <1>1, FS_Subset
<1>3. ThreadCounts(m) = Ascending(S)
  BY DEF ThreadCounts
<1>. HIDE DEF S
<1>4. ThreadCounts(m) \in Seq(S)
  BY <1>2, <1>3, Upward
<1>5. S \subseteq 1 .. m
  BY DEF S
<1>. QED
  BY <1>4, <1>5, ListOf

--------------------------------------------------------------------------------
(* The machine. *)

Known == [cpu : Nat, socket : Nat, die : Nat, core : Nat, node : Nat, unit : Nat,
          caches : SUBSET Cache]

\* What discover_cpus leaves in `cpus'.
Found ==
  /\ cpus \in Seq(Known) /\ Len(cpus) > 0
  /\ \A i, j \in 1 .. Len(cpus) : i < j => cpus[i].cpu < cpus[j].cpu

LEMMA Discovers ==
  ASSUME NEW m, IsMachine(m)
  PROVE  LET d == Discovered(m)
         IN  /\ d \in Seq(Known) /\ Len(d) = Len(m) /\ Len(d) > 0
             /\ \A i \in 1 .. Len(m) : d[i].cpu = m[i].cpu
             /\ \A i, j \in 1 .. Len(d) : i < j => d[i].cpu < d[j].cpu
<1>. DEFINE d == Discovered(m)
            Or(x, y) == IF x = Missing THEN y ELSE x
            info(r) == [r EXCEPT !.socket = Or(r.socket, 0), !.die = Or(r.die, 0),
                                 !.core = Or(r.core, r.cpu), !.node = Or(r.node, 0)]
<1>1. m \in Seq(Cpu) /\ Len(m) \in Nat /\ Len(m) > 0
      /\ \A i, j \in 1 .. Len(m) : i < j => m[i].cpu < m[j].cpu
  BY DEF IsMachine
<1>2. d = [i \in 1 .. Len(m) |-> info(m[i])]
  BY DEF Discovered
<1>3. ASSUME NEW r \in Cpu
      PROVE  info(r) \in Known /\ info(r).cpu = r.cpu
  BY DEF Cpu, Known, Shown, Missing
<1>. HIDE DEF d, info
<1>4. \A i \in 1 .. Len(m) : m[i] \in Cpu
  BY <1>1
<1>5. \A i \in 1 .. Len(m) : d[i] \in Known /\ d[i].cpu = m[i].cpu
  BY <1>2, <1>3, <1>4
<1>6. d \in Seq(Known) /\ Len(d) = Len(m)
  BY <1>1, <1>2, <1>5
<1>. QED
  BY <1>1, <1>5, <1>6 DEF d

LEMMA HereIs ==
  ASSUME Found
  PROVE  \A i \in 1 .. Len(cpus) :
           /\ cpus[i] \in Known
           /\ Here(cpus[i].cpu) = cpus[i] /\ NodeOf(cpus[i].cpu) = cpus[i].node
<1>. SUFFICES ASSUME NEW i \in 1 .. Len(cpus)
     PROVE  /\ cpus[i] \in Known
            /\ Here(cpus[i].cpu) = cpus[i] /\ NodeOf(cpus[i].cpu) = cpus[i].node
  OBVIOUS
<1>1. \A j \in 1 .. Len(cpus) : cpus[j] \in Known /\ cpus[j].cpu \in Nat
  <2>1. \A j \in 1 .. Len(cpus) : cpus[j] \in Known
    BY DEF Found
  <2>. QED
    BY <2>1 DEF Known
<1>2. ToSet(cpus) = {cpus[j] : j \in 1 .. Len(cpus)}
  BY DEF ToSet, Found
<1>3. ASSUME NEW j \in 1 .. Len(cpus), cpus[j].cpu = cpus[i].cpu
      PROVE  j = i
  <2>1. ~(j < i) /\ ~(i < j)
    BY <1>1, <1>3 DEF Found
  <2>2. i \in Int /\ j \in Int
    BY DEF Found
  <2>. QED
    BY <2>1, <2>2
<1>4. Here(cpus[i].cpu) = cpus[i]
  BY <1>1, <1>2, <1>3 DEF Here
<1>. QED
  BY <1>1, <1>4 DEF NodeOf

LEMMA PhysicalIs ==
  ASSUME Found
  PROVE  LET P == PhysicalCpus(cpus)
         IN  /\ IsList(P) /\ Len(P) > 0
             /\ \A k \in 1 .. Len(P) : \E i \in 1 .. Len(cpus) : P[k] = cpus[i]
             /\ IsList(Physical) /\ Len(Physical) = Len(P)
             /\ \A k \in 1 .. Len(P) : Physical[k] = P[k].cpu
<1>. DEFINE P == PhysicalCpus(cpus)
            I == {i \in DOMAIN cpus : ~\E j \in 1 .. i - 1 : SameCore(cpus[j], cpus[i])}
            o == Ascending(I)
<1>1. IsList(cpus) /\ 1 \in DOMAIN cpus
  BY ListOf DEF Found
<1>2. I \in SUBSET DOMAIN cpus /\ 1 \in I
  BY <1>1
<1>3. P = AtPlaces(cpus, I)
  BY DEF PhysicalCpus
<1>. HIDE DEF P, I
<1>4. /\ Cardinality(I) \in Nat /\ IsList(P) /\ Len(P) = Cardinality(I)
      /\ o \in [1 .. Cardinality(I) -> I]
      /\ \A k \in 1 .. Cardinality(I) : P[k] = cpus[o[k]]
      /\ \A i \in I : \E k \in 1 .. Cardinality(I) : o[k] = i
  BY <1>1, <1>2, <1>3, Taken
<1>. HIDE DEF o
<1>5. Len(P) > 0
  BY <1>2, <1>4
<1>6. \A k \in 1 .. Len(P) : \E i \in 1 .. Len(cpus) : P[k] = cpus[i]
  BY <1>2, <1>4, <1>1 DEF IsList
<1>7. Physical = [k \in 1 .. Len(P) |-> P[k].cpu]
  BY DEF Physical, Numbers, P
<1>8. IsList(Physical) /\ Len(Physical) = Len(P)
        /\ \A k \in 1 .. Len(P) : Physical[k] = P[k].cpu
  BY <1>4, <1>7, MakesList
<1>. QED
  BY <1>4, <1>5, <1>6, <1>8 DEF P

LEMMA NodesAre ==
  ASSUME Found
  PROVE  /\ Cardinality(Nodes) \in Nat
         /\ \A i \in 1 .. Cardinality(Nodes) : NodeAt(i) \in Nodes
         /\ \A n \in Nodes : /\ n \in Nat /\ IsList(OnNode(n)) /\ Len(OnNode(n)) > 0
                             /\ NodeOf(FrontOf(n)) = n /\ FrontOf(n) \in Nat
                             /\ \A k \in 1 .. Len(OnNode(n)) : \E i \in 1 .. Len(Physical) :
                                  OnNode(n)[k] = Physical[i]
<1>. DEFINE P == PhysicalCpus(cpus)
<1>1. /\ IsList(P) /\ IsList(Physical) /\ Len(Physical) = Len(P)
      /\ \A k \in 1 .. Len(P) : Physical[k] = P[k].cpu
      /\ \A k \in 1 .. Len(P) : \E i \in 1 .. Len(cpus) : P[k] = cpus[i]
  BY PhysicalIs
<1>2. \A k \in 1 .. Len(P) : /\ Physical[k] \in Nat /\ P[k].node \in Nat
                             /\ NodeOf(Physical[k]) = P[k].node
  <2>. SUFFICES ASSUME NEW k \in 1 .. Len(P)
       PROVE  Physical[k] \in Nat /\ P[k].node \in Nat /\ NodeOf(Physical[k]) = P[k].node
    OBVIOUS
  <2>1. PICK i \in 1 .. Len(cpus) : P[k] = cpus[i]
    BY <1>1
  <2>2. Physical[k] = cpus[i].cpu
    BY <1>1, <2>1
  <2>3. cpus[i] \in Known /\ NodeOf(cpus[i].cpu) = cpus[i].node
    BY HereIs
  <2>. QED
    BY <2>1, <2>2, <2>3 DEF Known
<1>3. Nodes = {P[k].node : k \in 1 .. Len(P)}
  BY <1>1 DEF Nodes, ToSet, IsList
<1>. HIDE DEF P
<1>4. Nodes \subseteq Nat
  BY <1>2, <1>3
<1>5. IsFiniteSet(Nodes)
  <2>1. Len(P) \in Nat
    BY <1>1 DEF IsList
  <2>2. IsFiniteSet(1 .. Len(P))
    BY <2>1, FS_Interval
  <2>3. [k \in 1 .. Len(P) |-> P[k].node] \in Surjection(1 .. Len(P), Nodes)
    BY <1>3 DEF Surjection
  <2>. QED
    BY <2>2, <2>3, FS_Surjection
<1>6. ASSUME NEW i \in 1 .. Cardinality(Nodes)
      PROVE  NodeAt(i) \in Nodes
  <2>. DEFINE R == {p \in Nodes \X Nodes : p[1] < p[2]}
  <2>1. \A x, y \in Nodes : <<x, y>> \in R <=> x < y
    OBVIOUS
  <2>2. IsOrder(Nodes, R)
    <3>1. /\ \A x, y \in Nodes : x # y => x < y \/ y < x
          /\ \A x, y, z \in Nodes : x < y /\ y < z => x < z
          /\ \A x \in Nodes : ~(x < x)
      BY <1>4
    <3>. HIDE DEF R
    <3>. QED
      BY <2>1, <3>1 DEF IsOrder
  <2>. DEFINE rank == [x \in Nodes |-> Cardinality(Before(Nodes, R, x))]
  <2>3. rank \in Surjection(Nodes, 0 .. Cardinality(Nodes) - 1)
    BY <1>5, <2>2, Ranks DEF Bijection
  <2>4. \A x \in Nodes : Before(Nodes, R, x) = {y \in Nodes : y < x}
    BY <2>1 DEF Before
  <2>5. i - 1 \in 0 .. Cardinality(Nodes) - 1
    BY <1>5, FS_CardinalityType
  <2>6. PICK x \in Nodes : rank[x] = i - 1
    BY <2>3, <2>5 DEF Surjection
  <2>7. Cardinality({y \in Nodes : y < x}) = i - 1
    BY <2>4, <2>6
  <2>. QED
    BY <2>7 DEF NodeAt
<1>7. ASSUME NEW n \in Nodes
      PROVE  /\ IsList(OnNode(n)) /\ Len(OnNode(n)) > 0
             /\ NodeOf(FrontOf(n)) = n /\ FrontOf(n) \in Nat
             /\ \A k \in 1 .. Len(OnNode(n)) : \E i \in 1 .. Len(Physical) :
                  OnNode(n)[k] = Physical[i]
  <2>. DEFINE I == {i \in DOMAIN Physical : NodeOf(Physical[i]) = n}
              o == Ascending(I)
  <2>1. I \in SUBSET DOMAIN Physical /\ DOMAIN Physical = 1 .. Len(Physical)
    BY <1>1 DEF IsList
  <2>2. OnNode(n) = AtPlaces(Physical, I)
    BY DEF OnNode
  <2>3. PICK k \in 1 .. Len(P) : P[k].node = n
    BY <1>3
  <2>4. k \in I
    BY <1>1, <1>2, <2>1, <2>3
  <2>5. \A i \in I : i \in 1 .. Len(Physical) /\ NodeOf(Physical[i]) = n
    BY <2>1
  <2>. HIDE DEF I
  <2>6. /\ Cardinality(I) \in Nat /\ IsList(OnNode(n)) /\ Len(OnNode(n)) = Cardinality(I)
        /\ o \in [1 .. Cardinality(I) -> I]
        /\ \A j \in 1 .. Cardinality(I) : OnNode(n)[j] = Physical[o[j]]
        /\ \A i \in I : \E j \in 1 .. Cardinality(I) : o[j] = i
    BY <1>1, <2>1, <2>2, Taken
  <2>. HIDE DEF o
  <2>7. 1 \in 1 .. Cardinality(I)
    BY <2>4, <2>6
  <2>8. o[1] \in I /\ FrontOf(n) = Physical[o[1]]
    BY <2>6, <2>7 DEF FrontOf
  <2>9. \A j \in 1 .. Cardinality(I) : o[j] \in 1 .. Len(Physical)
    BY <2>5, <2>6
  <2>10. Len(OnNode(n)) > 0
    BY <2>6, <2>7
  <2>11. NodeOf(FrontOf(n)) = n /\ FrontOf(n) \in Nat
    <3>1. o[1] \in 1 .. Len(P)
      BY <1>1, <2>7, <2>9
    <3>2. Physical[o[1]] \in Nat /\ NodeOf(Physical[o[1]]) = n
      BY <1>2, <2>5, <2>8, <3>1
    <3>. QED
      BY <2>8, <3>2
  <2>12. \A j \in 1 .. Len(OnNode(n)) : \E i \in 1 .. Len(Physical) : OnNode(n)[j] = Physical[i]
    BY <2>6, <2>9
  <2>. QED
    BY <2>6, <2>10, <2>11, <2>12
<1>. QED
  BY <1>4, <1>5, <1>6, <1>7, FS_CardinalityType

LEMMA BalancedIs ==
  ASSUME Found
  PROVE  IsList(Balanced)
<1>. DEFINE P == ToSet(PhysicalCpus(cpus))
            B == NumaBalanced(cpus)
<1>1. IsFiniteSet(P)
  <2>1. IsList(PhysicalCpus(cpus))
    BY PhysicalIs
  <2>2. IsFiniteSet(1 .. Len(PhysicalCpus(cpus)))
    BY <2>1, FS_Interval DEF IsList
  <2>3. PhysicalCpus(cpus) \in Surjection(1 .. Len(PhysicalCpus(cpus)), P)
    BY <2>1 DEF Surjection, IsList, ToSet
  <2>. HIDE DEF P
  <2>. QED
    BY <2>2, <2>3, FS_Surjection
<1>2. Cardinality(P) \in Nat
  BY <1>1, FS_CardinalityType
<1>3. \E R : B = InOrder(P, R)
  BY DEF NumaBalanced
<1>4. B = [i \in 1 .. Cardinality(P) |-> B[i]]
  <2>. HIDE DEF B, P
  <2>1. PICK R : B = InOrder(P, R)
    BY <1>3
  <2>. DEFINE nth(i) == CHOOSE x \in P : Cardinality({y \in P : <<y, x>> \in R}) = i - 1
  <2>2. B = [i \in 1 .. Cardinality(P) |-> nth(i)]
    BY <2>1 DEF InOrder
  <2>. HIDE DEF nth
  <2>. QED
    BY <2>2
<1>. HIDE DEF P, B
<1>5. Len(B) = Cardinality(P)
  BY <1>2, <1>4, MakesList
<1>6. Balanced = [i \in 1 .. Cardinality(P) |-> B[i].cpu]
  BY <1>5 DEF Balanced, Numbers, B
<1>. QED
  BY <1>2, <1>6, MakesList

--------------------------------------------------------------------------------
(* Pairs of CPUs. *)

LEMMA FinitelyManyPairs ==
  ASSUME NEW s, IsList(s)
  PROVE  IsFiniteSet(PairsOf(s))
<1>1. IsFiniteSet(1 .. Len(s))
  BY FS_Interval DEF IsList
<1>2. IsFiniteSet((1 .. Len(s)) \X (1 .. Len(s)))
  BY <1>1, FS_Product
<1>3. PairsOf(s) \subseteq (1 .. Len(s)) \X (1 .. Len(s))
  BY DEF PairsOf, IsList
<1>. QED
  BY <1>2, <1>3, FS_Subset

\* Couples has the CPUs of each pair of places once.
LEMMA Coupled ==
  ASSUME NEW s, IsList(s), NEW S \in SUBSET PairsOf(s)
  PROVE  LET c == Couples(s, S)
         IN  /\ IsList(c)
             /\ \A k \in 1 .. Len(c) : \E p \in S : c[k] = <<s[p[1]], s[p[2]]>>
             /\ \A p \in S : \E k \in 1 .. Len(c) : c[k] = <<s[p[1]], s[p[2]]>>
<1>. DEFINE R == {pq \in S \X S : Visited(pq[1], pq[2])}
            n == Cardinality(S)
            o == InLoops(S)
            c == Couples(s, S)
<1>1. IsFiniteSet(S)
  BY FinitelyManyPairs, FS_Subset
<1>2. ASSUME NEW p \in S
      PROVE  p = <<p[1], p[2]>> /\ p[1] \in Int /\ p[2] \in Int
  BY DEF PairsOf, IsList
<1>3. \A p, q \in S : <<p, q>> \in R <=> Visited(p, q)
  OBVIOUS
<1>4. IsOrder(S, R)
  <2>. HIDE DEF R
  <2>1. \A p \in S : <<p, p>> \notin R
    BY <1>2, <1>3 DEF Visited
  <2>2. ASSUME NEW p \in S, NEW q \in S, p # q
        PROVE  <<p, q>> \in R \/ <<q, p>> \in R
    <3>1. p[1] # q[1] \/ p[2] # q[2]
      BY <1>2, <2>2
    <3>. QED
      BY <1>2, <1>3, <3>1 DEF Visited
  <2>3. ASSUME NEW p \in S, NEW q \in S, NEW r \in S, <<p, q>> \in R, <<q, r>> \in R
        PROVE  <<p, r>> \in R
    <3>1. Visited(p, q) /\ Visited(q, r)
      BY <1>3, <2>3
    <3>2. Visited(p, r)
      BY <1>2, <3>1 DEF Visited
    <3>. QED
      BY <1>3, <3>2
  <2>. QED
    BY <2>1, <2>2, <2>3 DEF IsOrder
<1>5. o = InOrder(S, R)
  BY DEF InLoops
<1>. HIDE DEF R
<1>6. n \in Nat /\ o \in [1 .. n -> S] /\ \A p \in S : \E k \in 1 .. n : o[k] = p
  BY <1>1, <1>4, <1>5, Listed
<1>7. c = [k \in 1 .. n |-> <<s[o[k][1]], s[o[k][2]]>>]
  BY DEF Couples
<1>. HIDE DEF n, o, c
<1>8. IsList(c) /\ Len(c) = n /\ \A k \in 1 .. n : c[k] = <<s[o[k][1]], s[o[k][2]]>>
  BY <1>6, <1>7, MakesList
<1>9. \A k \in 1 .. Len(c) : \E p \in S : c[k] = <<s[p[1]], s[p[2]]>>
  BY <1>6, <1>8
<1>10. \A p \in S : \E k \in 1 .. Len(c) : c[k] = <<s[p[1]], s[p[2]]>>
  BY <1>6, <1>8
<1>. QED
  BY <1>8, <1>9, <1>10 DEF c

LEMMA HandoffsAre ==
  ASSUME Found, NEW profile
  PROVE  IsList(HandoffPairs(profile, cpus))
<1>. DEFINE P == PhysicalCpus(cpus)
<1>1. IsList(cpus) /\ IsList(P)
  BY PhysicalIs, ListOf DEF Found
<1>2. SmtPair(cpus) \subseteq PairsOf(cpus) /\ Representatives(cpus) \subseteq PairsOf(cpus)
  BY DEF SmtPair, Representatives
<1>. HIDE DEF P
<1>3. /\ IsList(Couples(cpus, PairsOf(cpus))) /\ IsList(Couples(P, PairsOf(P)))
      /\ IsList(Couples(cpus, SmtPair(cpus))) /\ IsList(Couples(cpus, Representatives(cpus)))
  BY <1>1, <1>2, Coupled
<1>4. IsList(Couples(P, PairsOf(P)) \o Couples(cpus, SmtPair(cpus)))
  BY <1>3, Joined
<1>5. HandoffPairs(profile, cpus) =
        CASE profile = "deep" -> Couples(cpus, PairsOf(cpus))
          [] profile = "standard" -> Couples(P, PairsOf(P)) \o Couples(cpus, SmtPair(cpus))
          [] OTHER -> Couples(cpus, Representatives(cpus))
  BY DEF HandoffPairs, P
<1>6. CASE profile = "deep"
  BY <1>3, <1>5, <1>6
<1>7. CASE profile = "standard"
  BY <1>4, <1>5, <1>7
<1>8. CASE profile \notin {"deep", "standard"}
  BY <1>3, <1>5, <1>8
<1>. QED
  BY <1>6, <1>7, <1>8

--------------------------------------------------------------------------------
(* Every part of every probe puts its threads where its points say.        *)

Still(pt) == pt.fill = None /\ pt.pin = None

\* The main thread measures where it has been pinned to at the part's start.
Stays(q) == \A k \in DOMAIN q.points : Still(q.points[k]) /\ q.points[k].main = Primary

\* It is pinned for every point it measures.
Moves(q) == \A k \in DOMAIN q.points : q.points[k].main # None => q.points[k].pin = q.points[k].main

Settled(parts, i) == Stays(parts[i]) /\ parts[i].pin = Primary

\* The second part of a probe that relies on the pin of the first.
Follows(parts, i) ==
  /\ i = 2 /\ Stays(parts[2]) /\ parts[2].pin = None
  /\ Settled(parts, 1) /\ (parts[2].runs => parts[1].runs)

\* Pages that the main thread places where it measures.
Locally(q) ==
  \A k \in DOMAIN q.points :
    \/ q.points[k].memory = None
    \/ q.buffer = "each" /\ q.points[k].memory = NodeOf(Primary)

\* A buffer on a node of its own, filled by a CPU of that node.
Bound(q) ==
  /\ q.buffer = "bound"
  /\ \A k \in DOMAIN q.points : q.points[k].memory = q.points[1].memory
  /\ q.points # <<>> => q.points[1].memory \in Nat /\ q.points[1].fill # None
                          /\ NodeOf(q.points[1].fill) = q.points[1].memory

NoMemory(q) == \A k \in DOMAIN q.points : q.points[k].memory = None

PartOK(parts, i) ==
  /\ IsList(parts[i].points)
  /\ \/ (Settled(parts, i) \/ Follows(parts, i)) /\ Locally(parts[i])
     \/ Moves(parts[i]) /\ (NoMemory(parts[i]) \/ Bound(parts[i]))

PartsOK(parts) == IsList(parts) /\ \A i \in DOMAIN parts : PartOK(parts, i)

\* A sweep on the first CPU.
SoloPart(q) ==
  /\ q.pin = Primary /\ IsList(q.points)
  /\ \/ q.buffer = "each" /\ \A k \in DOMAIN q.points : q.points[k] = Local
     \/ \A k \in DOMAIN q.points : q.points[k] = Solo

LEMMA SoloPoints ==
  /\ Still(Solo) /\ Solo.main = Primary /\ Solo.memory = None
  /\ Still(Local) /\ Local.main = Primary /\ Local.memory = NodeOf(Primary)
  /\ \A pt : IsList(Times(pt)) /\ \A k \in DOMAIN Times(pt) : Times(pt)[k] = pt
<1>1. /\ Still(Solo) /\ Solo.main = Primary /\ Solo.memory = None
      /\ Still(Local) /\ Local.main = Primary /\ Local.memory = NodeOf(Primary)
  BY DEF Still, Solo, Local, ByMain, Blank
<1>2. ASSUME NEW pt
      PROVE  IsList(Times(pt)) /\ \A k \in DOMAIN Times(pt) : Times(pt)[k] = pt
  <2>1. Times(pt) = [i \in 1 .. Sweep |-> pt] /\ Sweep \in Nat
    BY RunAssumption DEF Times
  <2>2. \A i \in 1 .. Sweep : Times(pt)[i] = pt
    BY <2>1
  <2>3. Times(pt) = [i \in 1 .. Sweep |-> Times(pt)[i]]
    BY <2>1
  <2>. QED
    BY <2>1, <2>2, <2>3, MakesList
<1>. QED
  BY <1>1, <1>2

LEMMA SoloPartOK ==
  ASSUME NEW parts, NEW i, SoloPart(parts[i])
  PROVE  PartOK(parts, i) /\ Settled(parts, i)
<1>1. Stays(parts[i]) /\ Locally(parts[i])
  BY SoloPoints DEF Stays, Locally, SoloPart
<1>. QED
  BY <1>1 DEF PartOK, Settled, SoloPart

\* Points that workers measure, or the main thread behind a pin.
LEMMA MovingPartOK ==
  ASSUME NEW parts, NEW i, IsList(parts[i].points),
         \A k \in DOMAIN parts[i].points :
           LET pt == parts[i].points[k]
           IN  (pt.main = None \/ pt.pin = pt.main) /\ pt.memory = None
  PROVE  PartOK(parts, i)
BY DEF PartOK, Moves, NoMemory

LEMMA OnePart ==
  ASSUME NEW q, PartOK(<<q>>, 1)
  PROVE  PartsOK(<<q>>)
<1>1. <<q>> = [i \in 1 .. 1 |-> <<q>>[i]] /\ DOMAIN <<q>> = 1 .. 1
  OBVIOUS
<1>2. IsList(<<q>>)
  BY <1>1, MakesList
<1>. QED
  BY <1>1, <1>2 DEF PartsOK

LEMMA OneSolo ==
  ASSUME NEW runs, NEW fails, NEW buffer, NEW pts,
         (buffer = "each" /\ pts = Times(Local)) \/ pts = Times(Solo)
  PROVE  PartsOK(<<Part(runs, Primary, buffer, fails, pts)>>)
<1>. DEFINE q == Part(runs, Primary, buffer, fails, pts)
<1>1. q.pin = Primary /\ q.points = pts /\ q.buffer = buffer
  BY DEF Part
<1>2. SoloPart(<<q>>[1])
  BY <1>1, SoloPoints DEF SoloPart
<1>. HIDE DEF q
<1>. QED
  BY <1>2, SoloPartOK, OnePart DEF q

LEMMA OneMoving ==
  ASSUME NEW runs, NEW pin, NEW fails, NEW buffer, NEW pts, IsList(pts),
         \A k \in DOMAIN pts : (pts[k].main = None \/ pts[k].pin = pts[k].main)
                                 /\ pts[k].memory = None
  PROVE  PartsOK(<<Part(runs, pin, buffer, fails, pts)>>)
<1>. DEFINE q == Part(runs, pin, buffer, fails, pts)
<1>1. <<q>>[1].points = pts
  BY DEF Part
<1>. HIDE DEF q
<1>2. PartOK(<<q>>, 1)
  BY <1>1, MovingPartOK
<1>. QED
  BY <1>2, OnePart DEF q

\* What a point is made of.
LEMMA PointsAre ==
  /\ \A c : /\ ByMain(c).main = c /\ ByMain(c).workers = <<>> /\ ByMain(c).label = "none"
            /\ Still(ByMain(c)) /\ ByMain(c).memory = None
            /\ ByMain(c) \in [fill : {None}, pin : {None}, main : {c}, workers : {<<>>},
                              memory : {None}, label : {"none"}]
  /\ \A cs : /\ ByWorkers(cs).main = None /\ ByWorkers(cs).workers = cs
             /\ Still(ByWorkers(cs)) /\ ByWorkers(cs).memory = None
             /\ ByWorkers(cs) \in [fill : {None}, pin : {None}, main : {None}, workers : {cs},
                                   memory : {None}, label : {"none"}]
  /\ \A cs, label : /\ Labelled(ByWorkers(cs), label).main = None
                    /\ Labelled(ByWorkers(cs), label).workers = cs
                    /\ Labelled(ByWorkers(cs), label).memory = None
                    /\ Labelled(ByWorkers(cs), label).label = label
BY DEF ByMain, ByWorkers, Labelled, Blank, Still

LEMMA ScalesUp ==
  ASSUME Found, NEW m \in Nat
  PROVE  /\ IsList(Scaling(m))
         /\ \A k \in DOMAIN Scaling(m) :
              \E n \in 1 .. m : Scaling(m)[k] = Labelled(ByWorkers(SubSeq(Balanced, 1, n)),
                                                         "physical-cores")
<1>. DEFINE counts == ThreadCounts(m)
            pt(n) == Labelled(ByWorkers(SubSeq(Balanced, 1, n)), "physical-cores")
<1>1. IsList(counts) /\ \A i \in 1 .. Len(counts) : counts[i] \in 1 .. m
  BY CountsUp
<1>2. Scaling(m) = [k \in 1 .. Len(counts) |-> pt(counts[k])]
  BY DEF Scaling
<1>3. Len(counts) \in Nat
  BY <1>1 DEF IsList
<1>. HIDE DEF counts, pt
<1>4. DOMAIN Scaling(m) = 1 .. Len(counts)
        /\ \A k \in 1 .. Len(counts) : Scaling(m)[k] = pt(counts[k])
  BY <1>2
<1>5. IsList(Scaling(m))
  BY <1>2, <1>3, <1>4, MakesList
<1>. QED
  BY <1>1, <1>4, <1>5 DEF pt

LEMMA AtMostIs ==
  ASSUME NEW n \in Nat, NEW limit \in Nat
  PROVE  AtMost(n, limit) \in Nat /\ AtMost(n, limit) <= n
BY DEF AtMost

\* A point of several threads that pin themselves, without a buffer of main's.
Workers(pt) == pt.main = None /\ pt.memory = None

LEMMA ScalingWorkers ==
  ASSUME Found, NEW m \in Nat
  PROVE  IsList(Scaling(m)) /\ \A k \in DOMAIN Scaling(m) : Workers(Scaling(m)[k])
BY ScalesUp, PointsAre DEF Workers

LEMMA MemoryBandwidthOK ==
  ASSUME Found
  PROVE  PartsOK(MemoryBandwidthParts)
<1>. DEFINE m == IF Full THEN AtMost(Len(Physical), 8) ELSE 1
<1>1. m \in Nat
  BY PhysicalIs, AtMostIs DEF IsList
<1>2. MemoryBandwidthParts = <<Part(TRUE, None, "none", {"next"}, Scaling(m))>>
  BY DEF MemoryBandwidthParts
<1>. HIDE DEF m
<1>. QED
  BY <1>1, <1>2, ScalingWorkers, OneMoving DEF Workers

LEMMA CacheBandwidthOK ==
  PartsOK(CacheBandwidthParts)
<1>. DEFINE pts == Times(ByWorkers(<<Primary>>))
<1>1. IsList(pts) /\ \A k \in DOMAIN pts : Workers(pts[k])
  BY SoloPoints, PointsAre DEF Workers
<1>2. CacheBandwidthParts = <<Part(Full, None, "none", {"next"}, pts)>>
  BY DEF CacheBandwidthParts
<1>. HIDE DEF pts
<1>. QED
  BY <1>1, <1>2, OneMoving DEF Workers

LEMMA LoadedLatencyOK ==
  ASSUME Found
  PROVE  PartsOK(LoadedLatencyParts)
<1>. DEFINE others == AtPlaces(Balanced, {i \in DOMAIN Balanced : Balanced[i] # Balanced[1]})
            more == ThreadCounts(AtMost(Len(others), 4))
            counts == IF others = <<>> THEN <<0>> ELSE <<0>> \o more
            loaded(n) == [ByMain(Balanced[1]) EXCEPT !.pin = Balanced[1],
                                                     !.workers = SubSeq(others, 1, n)]
            pts == [k \in 1 .. Len(counts) |-> loaded(counts[k])]
<1>1. IsList(others)
  BY BalancedIs, Taken
<1>2. Len(counts) \in Nat
  <2>1. IsList(more)
    <3>1. Len(others) \in Nat
      BY <1>1 DEF IsList
    <3>. HIDE DEF others
    <3>. QED
      BY <3>1, AtMostIs, CountsUp
  <2>2. <<0>> = [i \in 1 .. 1 |-> <<0>>[i]]
    OBVIOUS
  <2>3. IsList(<<0>>)
    BY <2>2, MakesList
  <2>. HIDE DEF more
  <2>4. IsList(<<0>> \o more)
    BY <2>1, <2>3, Joined
  <2>. QED
    BY <2>3, <2>4 DEF IsList
<1>3. \A n : loaded(n).main = Balanced[1] /\ loaded(n).pin = Balanced[1] /\ loaded(n).memory = None
  BY DEF ByMain, Blank
<1>4. LoadedLatencyParts = <<Part(Full, None, "first", {"next"}, pts)>>
  BY DEF LoadedLatencyParts
<1>. HIDE DEF counts, loaded
<1>5. IsList(pts) /\ \A k \in DOMAIN pts : pts[k] = loaded(counts[k])
  <2>1. pts = [k \in 1 .. Len(counts) |-> pts[k]]
    OBVIOUS
  <2>. QED
    BY <1>2, <2>1, MakesList
<1>. HIDE DEF pts
<1>. QED
  BY <1>3, <1>4, <1>5, OneMoving

LEMMA ComputeScalingOK ==
  ASSUME Found
  PROVE  PartsOK(ComputeScalingParts)
<1>. DEFINE smt == Couples(Numbers(cpus), SmtPair(cpus))
            pair(k) == Labelled(ByWorkers(smt[k]), "smt-siblings")
            last == [k \in 1 .. Len(smt) |-> pair(k)]
            m == AtMost(Len(Physical), 4)
            pts == Scaling(m) \o last
<1>1. m \in Nat
  BY PhysicalIs, AtMostIs DEF IsList
<1>2. IsList(smt)
  <2>. DEFINE s == Numbers(cpus)
  <2>1. IsList(cpus)
    BY ListOf DEF Found
  <2>2. s = [i \in 1 .. Len(cpus) |-> cpus[i].cpu]
    BY DEF Numbers
  <2>3. IsList(s) /\ DOMAIN s = DOMAIN cpus
    BY <2>1, <2>2, MakesList DEF IsList
  <2>. HIDE DEF s
  <2>4. PairsOf(s) = PairsOf(cpus)
    BY <2>3 DEF PairsOf
  <2>5. SmtPair(cpus) \subseteq PairsOf(s)
    BY <2>4 DEF SmtPair, Representatives
  <2>. QED
    BY <2>3, <2>5, Coupled DEF s
<1>. HIDE DEF m
<1>3. IsList(Scaling(m)) /\ \A k \in DOMAIN Scaling(m) : Workers(Scaling(m)[k])
  BY <1>1, ScalingWorkers
<1>4. IsList(last) /\ \A k \in DOMAIN last : Workers(last[k])
  <2>1. \A k : Workers(pair(k))
    BY PointsAre DEF Workers
  <2>2. Len(smt) \in Nat
    BY <1>2 DEF IsList
  <2>. HIDE DEF pair, smt
  <2>3. last = [k \in 1 .. Len(smt) |-> last[k]] /\ \A k \in DOMAIN last : last[k] = pair(k)
    OBVIOUS
  <2>. QED
    BY <2>1, <2>2, <2>3, MakesList
<1>5. ComputeScalingParts = <<Part(Full, None, "none", {"throw"}, pts)>>
  BY DEF ComputeScalingParts, m
<1>. HIDE DEF last
<1>6. IsList(pts) /\ \A k \in DOMAIN pts : Workers(pts[k])
  BY <1>3, <1>4, Joined DEF IsList
<1>. HIDE DEF pts
<1>. QED
  BY <1>5, <1>6, OneMoving DEF Workers

LEMMA CoreLatencyOK ==
  ASSUME Found
  PROVE  PartsOK(CoreLatencyParts)
<1>. DEFINE pairs == HandoffPairs(command.profile, cpus)
            handoff(p) == Labelled(ByWorkers(<<p[1].cpu, p[2].cpu>>), CpuRelation(p[1], p[2]))
            pts == [k \in 1 .. Len(pairs) |-> handoff(pairs[k])]
<1>1. IsList(pairs)
  BY HandoffsAre
<1>2. \A p : Workers(handoff(p))
  BY PointsAre DEF Workers
<1>3. CoreLatencyParts = <<Part(Len(cpus) > 1, None, "none", {"throw"}, pts)>>
  BY DEF CoreLatencyParts
<1>. HIDE DEF pairs, handoff
<1>4. IsList(pts) /\ \A k \in DOMAIN pts : pts[k] = handoff(pairs[k])
  <2>1. pts = [k \in 1 .. Len(pairs) |-> pts[k]] /\ Len(pairs) \in Nat
    BY <1>1 DEF IsList
  <2>. QED
    BY <2>1, MakesList
<1>. HIDE DEF pts
<1>. QED
  BY <1>2, <1>3, <1>4, OneMoving DEF Workers

LEMMA EmptyList == IsList(<<>>)
<1>1. <<>> = [i \in 1 .. 0 |-> <<>>[i]]
  OBVIOUS
<1>. QED
  BY <1>1, MakesList

LEMMA FalseSharingOK ==
  PartsOK(FalseSharingParts)
<1>. DEFINE two == Times(ByWorkers(<<Physical[1], Physical[2]>>))
            pts == IF Len(Physical) = 1 THEN <<>> ELSE two
            runs == Full /\ Len(Physical) > 1
<1>1. IsList(two) /\ \A k \in DOMAIN two : Workers(two[k])
  BY SoloPoints, PointsAre DEF Workers
<1>2. FalseSharingParts = <<Part(runs, None, "none", {"throw"}, pts)>>
  BY DEF FalseSharingParts
<1>. HIDE DEF two, runs
<1>3. IsList(pts) /\ \A k \in DOMAIN pts : Workers(pts[k])
  BY <1>1, EmptyList
<1>. HIDE DEF pts
<1>. QED
  BY <1>2, <1>3, OneMoving DEF Workers

LEMMA PagePolicyOK ==
  PartsOK(PagePolicyParts)
<1>. DEFINE q == Part(Full, Primary, "each", {"leave"}, <<Local>>)
            r == Part(Full, None, "each", {"leave"}, <<Local>>)
            parts == <<q, r>>
<1>1. <<Local>> = [i \in 1 .. 1 |-> <<Local>>[i]] /\ \A k \in DOMAIN <<Local>> : <<Local>>[k] = Local
  OBVIOUS
<1>2. IsList(<<Local>>)
  BY <1>1, MakesList
<1>3. q.pin = Primary /\ q.points = <<Local>> /\ q.buffer = "each" /\ q.runs = Full
  BY DEF Part
<1>4. r.pin = None /\ r.points = <<Local>> /\ r.buffer = "each" /\ r.runs = Full
  BY DEF Part
<1>5. PagePolicyParts = parts
  BY DEF PagePolicyParts
<1>. HIDE DEF q, r
<1>6. parts = [i \in 1 .. 2 |-> parts[i]] /\ parts[1] = q /\ parts[2] = r /\ DOMAIN parts = {1, 2}
  OBVIOUS
<1>7. IsList(parts)
  BY <1>6, MakesList
<1>. HIDE DEF parts
<1>8. PartOK(parts, 1) /\ Settled(parts, 1)
  BY <1>1, <1>2, <1>3, <1>6, SoloPartOK DEF SoloPart
<1>9. Stays(parts[2]) /\ Locally(parts[2])
  BY <1>1, <1>4, <1>6, SoloPoints DEF Stays, Locally
<1>10. PartOK(parts, 2)
  BY <1>2, <1>3, <1>4, <1>6, <1>8, <1>9 DEF PartOK, Follows
<1>. QED
  BY <1>5, <1>6, <1>7, <1>8, <1>10 DEF PartsOK

LEMMA BranchStructuresOK ==
  PartsOK(BranchStructuresParts)
<1>. DEFINE parts == BranchStructuresParts
<1>1. parts = [i \in 1 .. 4 |-> parts[i]] /\ DOMAIN parts = 1 .. 4
  BY DEF BranchStructuresParts
<1>2. \A i \in 1 .. 4 : parts[i].pin = Primary /\ parts[i].points = Times(Solo)
  BY DEF BranchStructuresParts, Part
<1>. HIDE DEF parts
<1>3. IsList(parts)
  BY <1>1, MakesList
<1>4. \A i \in 1 .. 4 : SoloPart(parts[i])
  BY <1>2, SoloPoints DEF SoloPart
<1>5. \A i \in 1 .. 4 : PartOK(parts, i)
  BY <1>4, SoloPartOK
<1>. QED
  BY <1>1, <1>3, <1>5 DEF PartsOK, parts

LEMMA OsOverheadsOK ==
  PartsOK(OsOverheadsParts)
<1>. DEFINE handoff == Labelled([Solo EXCEPT !.pin = Primary, !.workers = <<cpus[2].cpu>>],
                                CpuRelation(cpus[1], cpus[2]))
            last == IF Len(cpus) = 1 THEN <<>> ELSE <<handoff>>
            parts == OsOverheadsParts
<1>1. /\ parts = [i \in 1 .. 3 |-> parts[i]] /\ DOMAIN parts = {1, 2, 3}
      /\ parts[1] = Part(TRUE, Primary, "none", {}, <<Solo>>)
      /\ parts[2] = Part(TRUE, None, "each", {"next"}, <<Local>>)
      /\ parts[3] = Part(Len(cpus) > 1, None, "none", {"leave", "throw", "quiet"}, last)
  BY DEF OsOverheadsParts
<1>. HIDE DEF parts
<1>2. IsList(parts)
  BY <1>1, MakesList
<1>3. \A pt : /\ <<pt>> = [i \in 1 .. 1 |-> <<pt>>[i]]
              /\ \A k \in DOMAIN <<pt>> : <<pt>>[k] = pt
  OBVIOUS
<1>4. \A pt : IsList(<<pt>>)
  BY <1>3, MakesList
<1>5. PartOK(parts, 1) /\ Settled(parts, 1) /\ parts[1].runs
  <2>1. parts[1].pin = Primary /\ parts[1].points = <<Solo>> /\ parts[1].runs
    BY <1>1 DEF Part
  <2>2. IsList(<<Solo>>) /\ \A k \in DOMAIN <<Solo>> : <<Solo>>[k] = Solo
    BY <1>3, <1>4
  <2>3. SoloPart(parts[1])
    BY <2>1, <2>2 DEF SoloPart
  <2>. QED
    BY <2>1, <2>3, SoloPartOK
<1>6. PartOK(parts, 2)
  <2>1. parts[2].pin = None /\ parts[2].points = <<Local>> /\ parts[2].buffer = "each"
    BY <1>1 DEF Part
  <2>2. Stays(parts[2]) /\ Locally(parts[2])
    BY <1>3, <2>1, SoloPoints DEF Stays, Locally
  <2>. QED
    BY <1>4, <1>5, <2>1, <2>2 DEF PartOK, Follows
<1>7. PartOK(parts, 3)
  <2>1. parts[3].points = last
    BY <1>1 DEF Part
  <2>2. handoff.pin = handoff.main /\ handoff.memory = None
    BY DEF Solo, ByMain, Blank, Labelled
  <2>. HIDE DEF handoff
  <2>3. IsList(last) /\ \A k \in DOMAIN last : last[k] = handoff
    BY <1>3, <1>4, EmptyList
  <2>. HIDE DEF last
  <2>. QED
    BY <2>1, <2>2, <2>3, MovingPartOK
<1>. QED
  BY <1>1, <1>2, <1>5, <1>6, <1>7 DEF PartsOK, parts

LEMMA NumaPointsAre ==
  ASSUME Found, NEW n \in Nodes
  PROVE  LET pts == NumaPoints(n)
         IN  /\ IsList(pts) /\ 1 \in DOMAIN pts
             /\ pts[1].fill = FrontOf(n)
             /\ \A k \in DOMAIN pts : /\ pts[k].memory = n
                                      /\ pts[k].main # None => pts[k].pin = pts[k].main
<1>. DEFINE c == Cardinality(Nodes)
            d(k) == NodeAt((k + 1) \div 2)
            readers(k) == SubSeq(OnNode(d(k)), 1, AtMost(Len(OnNode(d(k))), 4))
            chase(k) == [ByMain(FrontOf(d(k))) EXCEPT !.fill = FrontOf(n), !.pin = FrontOf(d(k)),
                                                      !.memory = n]
            read(k) == [ByWorkers(readers(k)) EXCEPT !.pin = FrontOf(n), !.memory = n]
            pt(k) == IF k % 2 = 1 THEN chase(k) ELSE read(k)
            pts == NumaPoints(n)
<1>1. c \in Nat /\ c > 0
  <2>1. c \in Nat
    BY NodesAre
  <2>2. IsFiniteSet(Nodes)
    <3>1. IsList(PhysicalCpus(cpus))
      BY PhysicalIs
    <3>2. IsFiniteSet(1 .. Len(PhysicalCpus(cpus)))
      BY <3>1, FS_Interval DEF IsList
    <3>. DEFINE node == [k \in 1 .. Len(PhysicalCpus(cpus)) |-> PhysicalCpus(cpus)[k].node]
    <3>3. node \in Surjection(1 .. Len(PhysicalCpus(cpus)), Nodes)
      BY <3>1 DEF Surjection, Nodes, ToSet, IsList
    <3>. HIDE DEF node
    <3>. QED
      BY <3>2, <3>3, FS_Surjection
  <2>3. c # 0
    BY <2>2, FS_EmptySet
  <2>. QED
    BY <2>1, <2>3
<1>2. pts = [k \in 1 .. 2 * c |-> pt(k)]
  BY DEF NumaPoints
<1>3. \A k : chase(k).fill = FrontOf(n) /\ chase(k).main = chase(k).pin /\ chase(k).memory = n
  BY DEF ByMain, Blank
<1>4. \A k : read(k).main = None /\ read(k).memory = n
  BY DEF ByWorkers, Blank
<1>. HIDE DEF c, chase, read
<1>5. \A k : pt(k).memory = n /\ (pt(k).main # None => pt(k).pin = pt(k).main)
  BY <1>3, <1>4
<1>6. pt(1).fill = FrontOf(n)
  BY <1>3
<1>. HIDE DEF pt
<1>7. 2 * c \in Nat /\ 1 \in 1 .. 2 * c
  BY <1>1
<1>8. DOMAIN pts = 1 .. 2 * c /\ (\A k \in 1 .. 2 * c : pts[k] = pt(k))
        /\ pts = [k \in 1 .. 2 * c |-> pts[k]]
  BY <1>2
<1>. HIDE DEF pts
<1>9. IsList(pts)
  BY <1>7, <1>8, MakesList
<1>. QED
  BY <1>5, <1>6, <1>7, <1>8, <1>9 DEF pts

LEMMA NumaOK ==
  ASSUME Found
  PROVE  PartsOK(NumaParts)
<1>. DEFINE c == Cardinality(Nodes)
            parts == NumaParts
            pts(i) == NumaPoints(NodeAt(i))
<1>1. c \in Nat /\ \A i \in 1 .. c : NodeAt(i) \in Nodes
  BY NodesAre
<1>2. parts = [i \in 1 .. c |-> Part(Full, None, "bound", {"next"}, pts(i))]
  BY DEF NumaParts
<1>3. DOMAIN parts = 1 .. c /\ parts = [i \in 1 .. c |-> parts[i]]
        /\ \A i \in 1 .. c : parts[i] = Part(Full, None, "bound", {"next"}, pts(i))
  BY <1>2
<1>. HIDE DEF c, parts
<1>4. IsList(parts)
  BY <1>1, <1>3, MakesList
<1>5. ASSUME NEW i \in 1 .. c
      PROVE  PartOK(parts, i)
  <2>. DEFINE n == NodeAt(i)
  <2>1. n \in Nodes
    BY <1>1
  <2>2. parts[i].points = pts(i) /\ parts[i].buffer = "bound"
    BY <1>3 DEF Part
  <2>3. /\ IsList(pts(i)) /\ 1 \in DOMAIN pts(i)
        /\ pts(i)[1].fill = FrontOf(n)
        /\ \A k \in DOMAIN pts(i) : /\ pts(i)[k].memory = n
                                    /\ pts(i)[k].main # None => pts(i)[k].pin = pts(i)[k].main
    BY <2>1, NumaPointsAre
  <2>4. n \in Nat /\ NodeOf(FrontOf(n)) = n /\ FrontOf(n) \in Nat
    BY <2>1, NodesAre
  <2>. HIDE DEF pts, n
  <2>5. Moves(parts[i])
    BY <2>2, <2>3 DEF Moves
  <2>6. Bound(parts[i])
    BY <2>2, <2>3, <2>4 DEF Bound, None
  <2>. QED
    BY <2>2, <2>3, <2>5, <2>6 DEF PartOK
<1>. QED
  BY <1>3, <1>4, <1>5 DEF PartsOK, parts

LEMMA ProbesOK ==
  ASSUME Found, NEW p \in ToSet(Registry)
  PROVE  PartsOK(Parts(p))
<1>1. p \in {"timer", "cache-latency", "tlb", "memory-bandwidth", "cache-bandwidth",
             "stride-prefetch", "memory-parallelism", "page-policy",
             "loaded-memory-latency", "store-forwarding", "instruction-fetch",
             "pipeline", "compute-scaling", "branch-predictor", "branch-structures",
             "core-latency", "false-sharing", "numa", "rob", "os-overheads"}
  BY DEF ToSet, Registry
<1>2. CASE p \in {"timer", "store-forwarding", "instruction-fetch", "pipeline", "branch-predictor"}
  <2>1. /\ p = "timer" => Parts(p) = TimerParts
        /\ p = "store-forwarding" => Parts(p) = StoreForwardingParts
        /\ p = "instruction-fetch" => Parts(p) = InstructionFetchParts
        /\ p = "pipeline" => Parts(p) = PipelineParts
        /\ p = "branch-predictor" => Parts(p) = BranchPredictorParts
    BY DEF Parts
  <2>2. /\ PartsOK(TimerParts) /\ PartsOK(StoreForwardingParts) /\ PartsOK(InstructionFetchParts)
        /\ PartsOK(PipelineParts) /\ PartsOK(BranchPredictorParts)
    BY OneSolo DEF TimerParts, StoreForwardingParts, InstructionFetchParts, PipelineParts,
                   BranchPredictorParts
  <2>. QED
    BY <1>2, <2>1, <2>2
<1>3. CASE p \in {"cache-latency", "tlb", "stride-prefetch", "memory-parallelism", "rob"}
  <2>1. /\ p = "cache-latency" => Parts(p) = CacheLatencyParts
        /\ p = "tlb" => Parts(p) = TlbParts
        /\ p = "stride-prefetch" => Parts(p) = StridePrefetchParts
        /\ p = "memory-parallelism" => Parts(p) = MemoryParallelismParts
        /\ p = "rob" => Parts(p) = RobParts
    BY DEF Parts
  <2>2. /\ PartsOK(CacheLatencyParts) /\ PartsOK(TlbParts) /\ PartsOK(StridePrefetchParts)
        /\ PartsOK(MemoryParallelismParts) /\ PartsOK(RobParts)
    BY OneSolo DEF CacheLatencyParts, TlbParts, StridePrefetchParts, MemoryParallelismParts, RobParts
  <2>. QED
    BY <1>3, <2>1, <2>2
<1>4. CASE p \in {"memory-bandwidth", "cache-bandwidth", "loaded-memory-latency", "compute-scaling",
                  "core-latency", "false-sharing"}
  <2>1. /\ p = "memory-bandwidth" => Parts(p) = MemoryBandwidthParts
        /\ p = "cache-bandwidth" => Parts(p) = CacheBandwidthParts
        /\ p = "loaded-memory-latency" => Parts(p) = LoadedLatencyParts
        /\ p = "compute-scaling" => Parts(p) = ComputeScalingParts
        /\ p = "core-latency" => Parts(p) = CoreLatencyParts
        /\ p = "false-sharing" => Parts(p) = FalseSharingParts
    BY DEF Parts
  <2>. QED
    BY <1>4, <2>1, MemoryBandwidthOK, CacheBandwidthOK, LoadedLatencyOK, ComputeScalingOK,
       CoreLatencyOK, FalseSharingOK
<1>5. CASE p \in {"page-policy", "branch-structures", "os-overheads", "numa"}
  <2>1. /\ p = "page-policy" => Parts(p) = PagePolicyParts
        /\ p = "branch-structures" => Parts(p) = BranchStructuresParts
        /\ p = "os-overheads" => Parts(p) = OsOverheadsParts
        /\ p = "numa" => Parts(p) = NumaParts
    BY DEF Parts
  <2>. QED
    BY <1>5, <2>1, PagePolicyOK, BranchStructuresOK, OsOverheadsOK, NumaOK
<1>. QED
  BY <1>1, <1>2, <1>3, <1>4, <1>5

--------------------------------------------------------------------------------
(* The inductive invariant. *)

\* What a run is given, and the plan it makes of it.
PlanInv ==
  /\ IsMachine(machine) /\ command.only \in Seq(STRING)
  /\ command.profile \in {"smoke", "quick", "standard", "deep"}
  /\ at \in Nat \ {0} /\ part \in Nat \ {0} /\ point \in Nat
  /\ IsList(plan) /\ (Len(plan) = at \/ Len(plan) + 1 = at)
  /\ phase = "parse" => at = 1 /\ plan = <<>> /\ observations = {}
  /\ Len(plan) < at => part = 1 /\ point = 0
  /\ phase = "probe" =>
       /\ Found
       /\ IsList(selected) /\ ToSet(selected) \subseteq ToSet(Registry)
       /\ Len(plan) <= Len(selected)
       /\ \A k \in DOMAIN plan : PartsOK(plan[k])
       /\ point > 0 => part \in DOMAIN TheParts

\* Where the main thread is, unless a pin of this probe was refused.
PlaceInv ==
  phase = "probe" /\ Len(plan) = at /\ TheProbe \notin refused /\ part \in DOMAIN TheParts =>
    /\ point > 0 /\ (Settled(TheParts, part) \/ Follows(TheParts, part)) => affinity = {Primary}
    /\ point = 0 /\ part = 2 /\ Settled(TheParts, 1) /\ TheParts[1].runs => affinity = {Primary}

\* Where the buffer of the part is.
HomeInv ==
  phase = "probe" /\ Len(plan) = at /\ TheProbe \notin refused /\ part \in DOMAIN TheParts
    /\ point > 0 =>
    /\ ThePart.buffer = "each" => home = None
    /\ Bound(ThePart) /\ point \in DOMAIN ThePart.points =>
         /\ home \in {ThePart.points[1].memory, None}
         /\ point > 1 => home = ThePart.points[1].memory

\* Point q of part i of the k-th probe is behind the run.
Behind(k, i, q) == k < at \/ (k = at /\ i < part) \/ (k = at /\ i = part /\ q < point)

Exempt(k, i) ==
  \/ ~plan[k][i].runs \/ "quiet" \in plan[k][i].fails
  \/ \E j \in 1 .. i : <<selected[k], j>> \in warnings

There(k, i, q) == \E o \in observations : o.probe = selected[k] /\ o.part = i /\ o.point = q

\* What lies behind the run has been observed or is exempt.
AccountInv ==
  phase = "probe" \/ stdout = "document" =>
    /\ \A p \in IF Requested = {} THEN ToSet(Registry) ELSE Requested :
         \E k \in DOMAIN selected : selected[k] = p
    /\ \A k \in DOMAIN plan : \A i \in DOMAIN plan[k] : \A q \in DOMAIN plan[k][i].points :
         Behind(k, i, q) => Exempt(k, i) \/ There(k, i, q)
    /\ \A k \in DOMAIN plan : IsList(plan[k]) /\ \A i \in DOMAIN plan[k] : IsList(plan[k][i].points)

OutputInv ==
  /\ phase \in {"parse", "probe", "exited"}
  /\ phase # "exited" => stdout = "nothing"
  /\ phase = "exited" /\ exit = 0 => stdout = "document" \/ command.wants = "help"
  /\ stdout = "document" => /\ phase = "exited" /\ exit = 0
                            /\ \A k \in DOMAIN selected : k \in DOMAIN plan /\ k < at

IInv ==
  /\ PlanInv /\ PlaceInv /\ HomeInv /\ AccountInv /\ OutputInv
  /\ RunsWhereLabelled /\ MemoryWhereLabelled

LEMMA Appended ==
  ASSUME NEW s, IsList(s), NEW e
  PROVE  LET t == Append(s, e)
         IN  /\ IsList(t) /\ Len(t) = Len(s) + 1 /\ t[Len(s) + 1] = e
             /\ \A k \in 1 .. Len(s) : t[k] = s[k]
<1>. DEFINE E == ToSet(s) \cup {e}
            t == Append(s, e)
<1>1. s \in Seq(E)
  <2>1. ToSet(s) \subseteq E
    OBVIOUS
  <2>. HIDE DEF E
  <2>. QED
    BY <2>1, SeqMonotonic DEF IsList
<1>2. e \in E
  OBVIOUS
<1>. HIDE DEF E
<1>3. t \in Seq(E) /\ Len(t) = Len(s) + 1 /\ t[Len(s) + 1] = e
        /\ \A k \in 1 .. Len(s) : t[k] = s[k]
  BY <1>1, <1>2, AppendProperties
<1>. HIDE DEF t
<1>4. IsList(t)
  BY <1>3, ListOf
<1>. QED
  BY <1>3, <1>4 DEF t

LEMMA RegistryIs ==
  /\ IsList(Registry)
  /\ \A i, j \in DOMAIN Registry : Registry[i] = Registry[j] => i = j
<1>1. Registry = [i \in 1 .. 20 |-> Registry[i]]
  BY DEF Registry
<1>2. \A i, j \in DOMAIN Registry : Registry[i] = Registry[j] => i = j
  BY DEF Registry
<1>. QED
  BY <1>1, <1>2, MakesList

\* A selection that passes the check has every probe that was asked for.
LEMMA Selects ==
  ASSUME command.only \in Seq(STRING), ~Unknown
  PROVE  /\ IsList(Selection) /\ ToSet(Selection) \subseteq ToSet(Registry)
         /\ \A p \in IF Requested = {} THEN ToSet(Registry) ELSE Requested :
              \E k \in DOMAIN Selection : Selection[k] = p
<1>. DEFINE I == {i \in DOMAIN Registry : Requested = {} \/ Registry[i] \in Requested}
            n == Cardinality(I)
            o == Ascending(I)
<1>1. Selection = AtPlaces(Registry, I)
  BY DEF Selection
<1>2. /\ n \in Nat /\ IsList(Selection) /\ Len(Selection) = n
      /\ o \in [1 .. n -> I]
      /\ \A k \in 1 .. n : Selection[k] = Registry[o[k]]
      /\ \A i \in I : \E k \in 1 .. n : o[k] = i
  <2>1. I \in SUBSET DOMAIN Registry
    OBVIOUS
  <2>. HIDE DEF I
  <2>. QED
    BY <1>1, <2>1, RegistryIs, Taken
<1>. HIDE DEF o
<1>3. DOMAIN Selection = 1 .. n
  BY <1>2 DEF IsList
<1>4. ToSet(Selection) \subseteq ToSet(Registry)
  BY <1>2, <1>3 DEF ToSet
<1>5. \A p : (\E i \in I : Registry[i] = p) => \E k \in DOMAIN Selection : Selection[k] = p
  <2>. SUFFICES ASSUME NEW i \in I PROVE \E k \in DOMAIN Selection : Selection[k] = Registry[i]
    OBVIOUS
  <2>. HIDE DEF I, n
  <2>1. PICK k \in 1 .. n : o[k] = i
    BY <1>2
  <2>. QED
    BY <1>2, <1>3, <2>1
<1>6. CASE Requested = {}
  BY <1>2, <1>4, <1>5, <1>6 DEF ToSet
<1>7. CASE Requested # {}
  <2>. DEFINE f == [i \in I |-> Registry[i]]
  <2>1. IsFiniteSet(I)
    <3>1. Len(Registry) \in Nat /\ DOMAIN Registry = 1 .. Len(Registry)
      BY RegistryIs DEF IsList
    <3>2. IsFiniteSet(1 .. Len(Registry))
      BY <3>1, FS_Interval
    <3>. QED
      BY <3>1, <3>2, FS_Subset
  <2>2. IsFiniteSet(Requested)
    <3>1. Len(command.only) \in Nat /\ DOMAIN command.only = 1 .. Len(command.only)
      OBVIOUS
    <3>2. IsFiniteSet(1 .. Len(command.only))
      BY <3>1, FS_Interval
    <3>3. [i \in 1 .. Len(command.only) |-> command.only[i]]
            \in Surjection(1 .. Len(command.only), Requested)
      BY <3>1 DEF Surjection, Requested, ToSet
    <3>. QED
      BY <3>2, <3>3, FS_Surjection
  <2>3. Cardinality(Requested) = Cardinality(I)
    BY <1>2, <1>7 DEF Unknown
  <2>4. f \in Injection(I, Requested)
    <3>1. f \in [I -> Requested]
      BY <1>7
    <3>2. \A i, j \in I : f[i] = f[j] => i = j
      BY RegistryIs
    <3>. HIDE DEF f, I
    <3>. QED
      BY <3>1, <3>2 DEF Injection, IsInjective
  <2>5. f \in Surjection(I, Requested)
    <3>. HIDE DEF f, I
    <3>. QED
      BY <2>1, <2>2, <2>3, <2>4, FS_Injection
  <2>6. \A p \in Requested : \E i \in I : Registry[i] = p
    BY <2>5 DEF Surjection
  <2>. QED
    BY <1>2, <1>4, <1>5, <1>7, <2>6
<1>. QED
  BY <1>6, <1>7

\* What the probes see of the machine does not change under them.
LEMMA CpusStay ==
  ASSUME UNCHANGED cpus
  PROVE  /\ Found' <=> Found
         /\ Primary' = Primary
         /\ \A c : NodeOf(c)' = NodeOf(c)
         /\ \A parts, i : Settled(parts, i)' <=> Settled(parts, i)
         /\ \A parts, i : Follows(parts, i)' <=> Follows(parts, i)
         /\ \A q : Bound(q)' <=> Bound(q)
         /\ \A parts : PartsOK(parts)' <=> PartsOK(parts)
<1>1. Found' <=> Found
  BY DEF Found
<1>2. Primary' = Primary /\ \A c : NodeOf(c)' = NodeOf(c)
  BY DEF Primary, NodeOf, Here
<1>3. \A parts, i : Settled(parts, i)' <=> Settled(parts, i)
  BY <1>2 DEF Settled, Stays, Still
<1>4. \A parts, i : Follows(parts, i)' <=> Follows(parts, i)
  BY <1>2, <1>3 DEF Follows, Stays, Still
<1>5. \A q : Bound(q)' <=> Bound(q)
  BY <1>2 DEF Bound
<1>6. \A q : Locally(q)' <=> Locally(q)
  BY <1>2 DEF Locally
<1>7. \A parts, i : PartOK(parts, i)' <=> PartOK(parts, i)
  BY <1>3, <1>4, <1>5, <1>6 DEF PartOK, Moves, NoMemory
<1>8. \A parts : PartsOK(parts)' <=> PartsOK(parts)
  BY <1>7 DEF PartsOK
<1>. QED
  BY <1>1, <1>2, <1>3, <1>4, <1>5, <1>8

LEMMA Starts == Init => IInv
<1>. SUFFICES ASSUME Init
     PROVE  IInv
  OBVIOUS
<1>1. PICK c \in Cases : command = c.command /\ machine = c.machine /\ build = c.build
  BY DEF Init
<1>2. IsMachine(machine) /\ command.only \in Seq(STRING)
        /\ command.profile \in {"smoke", "quick", "standard", "deep"}
  BY <1>1, RunAssumption
<1>3. /\ phase = "parse" /\ plan = <<>> /\ at = 1 /\ part = 1 /\ point = 0
      /\ observations = {} /\ stdout = "nothing"
  BY DEF Init
<1>4. IsList(plan) /\ Len(plan) + 1 = at
  BY <1>3, EmptyList
<1>. QED
  BY <1>2, <1>3, <1>4 DEF IInv, PlanInv, PlaceInv, HomeInv, AccountInv, OutputInv,
     RunsWhereLabelled, MemoryWhereLabelled

Exits ==
  BadArguments \/ HelpOrList \/ UnsupportedBuild \/ UnknownProbe \/ FailureUncaught \/ Aborted
    \/ EmitJson

\* What the steps behind the selection have in common.
LEMMA InAPart ==
  ASSUME IInv, phase = "probe", Len(plan) = at
  PROVE  /\ Found /\ at \in DOMAIN plan /\ PartsOK(TheParts)
         /\ IsList(TheParts) /\ Len(TheParts) \in Nat /\ DOMAIN TheParts = 1 .. Len(TheParts)
         /\ \A i \in DOMAIN TheParts :
              PartOK(TheParts, i) /\ IsList(TheParts[i].points)
         /\ Primary \in Nat /\ Primary # None
<1>1. Found /\ at \in DOMAIN plan /\ PartsOK(TheParts)
  BY DEF IInv, PlanInv, IsList, TheParts
<1>2. cpus[1] \in Known
  BY <1>1 DEF Found
<1>3. Primary \in Nat /\ Primary # None
  BY <1>2 DEF Primary, Known, None
<1>. QED
  BY <1>1, <1>3 DEF PartsOK, PartOK, IsList

LEMMA PlanStep ==
  ASSUME IInv, [Next]_vars
  PROVE  PlanInv'
<1>1. PlanInv
  BY DEF IInv
<1>2. ASSUME UNCHANGED <<given, setting, selected>>,
             phase' = "exited" \/ (phase = "probe" /\ phase' = "probe"),
             at' \in Nat \ {0}, part' \in Nat \ {0}, point' \in Nat,
             Len(plan) = at' \/ Len(plan) + 1 = at',
             Len(plan) < at' => part' = 1 /\ point' = 0,
             phase' = "probe" /\ point' > 0 => part' \in DOMAIN plan[at']
      PROVE  PlanInv'
  <2>1. UNCHANGED <<command, machine, cpus, plan, selected>>
    BY <1>2 DEF given, setting
  <2>2. (Found' <=> Found) /\ \A parts : PartsOK(parts)' <=> PartsOK(parts)
    BY <2>1, CpusStay
  <2>3. IsMachine(machine)' /\ IsList(plan)' /\ (IsList(selected) => IsList(selected)')
    BY <1>1, <2>1 DEF PlanInv
  <2>. QED
    BY <1>1, <1>2, <2>1, <2>2, <2>3 DEF PlanInv, TheParts
<1>3. CASE Exits
  BY <1>1, <1>2, <1>3 DEF PlanInv, Exits, BadArguments, HelpOrList, UnsupportedBuild,
     UnknownProbe, FailureUncaught, Aborted, EmitJson, Fails, Leaves, position
<1>4. CASE Select
  <2>1. /\ phase' = "probe" /\ selected' = Selection /\ cpus' = Discovered(machine)
        /\ UNCHANGED <<command, machine, at, part, point, plan>>
    BY <1>4 DEF Select, given
  <2>2. phase = "parse" /\ at = 1 /\ plan = <<>> /\ part = 1 /\ point = 0
    BY <1>1, <1>4 DEF Select, Runs, PlanInv
  <2>3. Found'
    BY <1>1, <2>1, Discovers DEF PlanInv, Found
  <2>4. IsList(selected)' /\ ToSet(selected)' \subseteq ToSet(Registry)
    BY <1>1, <1>4, <2>1, Selects DEF PlanInv, Select
  <2>5. Len(plan)' <= Len(selected)' /\ DOMAIN plan' = {}
    BY <2>1, <2>2, <2>4 DEF IsList
  <2>6. IsMachine(machine)' /\ IsList(plan)'
    BY <1>1, <2>1 DEF PlanInv
  <2>. QED
    BY <1>1, <2>1, <2>2, <2>3, <2>4, <2>5, <2>6 DEF PlanInv
<1>5. CASE StartProbe
  <2>1. /\ phase = "probe" /\ at <= Len(selected) /\ Len(plan) < at
        /\ plan' = Append(plan, Parts(TheProbe))
        /\ UNCHANGED <<command, machine, cpus, phase, selected, at, part, point>>
    BY <1>5 DEF StartProbe, Probing, given, position
  <2>2. Len(plan) + 1 = at /\ IsList(plan) /\ Found /\ part = 1 /\ point = 0
          /\ IsList(selected) /\ ToSet(selected) \subseteq ToSet(Registry)
    BY <1>1, <2>1 DEF PlanInv
  <2>3. TheProbe \in ToSet(Registry)
    <3>1. at \in DOMAIN selected
      <4>1. Len(plan) \in Nat /\ Len(selected) \in Nat /\ DOMAIN selected = 1 .. Len(selected)
        BY <2>2 DEF IsList
      <4>2. at \in Nat /\ 1 <= at /\ at <= Len(selected)
        BY <2>1, <2>2, <4>1
      <4>. QED
        BY <4>1, <4>2
    <3>2. TheProbe \in ToSet(selected)
      BY <3>1 DEF TheProbe, ToSet
    <3>. QED
      BY <2>2, <3>2
  <2>4. PartsOK(Parts(TheProbe))
    BY <2>2, <2>3, ProbesOK
  <2>5. /\ IsList(plan') /\ Len(plan') = Len(plan) + 1 /\ plan'[Len(plan) + 1] = Parts(TheProbe)
        /\ \A k \in 1 .. Len(plan) : plan'[k] = plan[k]
    BY <2>1, <2>2, Appended
  <2>6. ASSUME NEW k \in DOMAIN plan'
        PROVE  PartsOK(plan'[k])
    <3>1. DOMAIN plan = 1 .. Len(plan) /\ DOMAIN plan' = 1 .. Len(plan) + 1 /\ Len(plan) \in Nat
      BY <2>2, <2>5 DEF IsList
    <3>2. CASE k \in 1 .. Len(plan)
      BY <1>1, <2>1, <2>5, <3>1, <3>2 DEF PlanInv
    <3>3. CASE k = Len(plan) + 1
      BY <2>4, <2>5, <3>3
    <3>. QED
      BY <3>1, <3>2, <3>3
  <2>7. Found' /\ \A parts : PartsOK(parts)' <=> PartsOK(parts)
    BY <2>1, <2>2, CpusStay
  <2>8. IsMachine(machine)' /\ IsList(plan)' /\ IsList(selected)'
    BY <1>1, <2>1, <2>2, <2>5 DEF PlanInv
  <2>. QED
    BY <1>1, <2>1, <2>2, <2>5, <2>6, <2>7, <2>8 DEF PlanInv
<1>6. CASE EnterPart \/ SkipPart \/ Measure \/ LeavePart \/ NextProbe
             \/ FailureCaught \/ FailureEndsProbe \/ FailureUnsaid
  <2>1. Running /\ phase = "probe" /\ Len(plan) = at
    BY <1>6 DEF EnterPart, SkipPart, Measure, LeavePart, NextProbe, FailureCaught,
       FailureEndsProbe, FailureUnsaid, Fails, Running, Probing
  <2>2. Len(TheParts) \in Nat /\ DOMAIN TheParts = 1 .. Len(TheParts)
    BY <2>1, InAPart
  <2>3. at \in Nat \ {0} /\ part \in Nat \ {0} /\ point \in Nat
          /\ (point > 0 => part \in DOMAIN TheParts)
    BY <1>1, <2>1 DEF PlanInv
  <2>4. UNCHANGED <<given, setting, phase, selected>>
    BY <1>6 DEF EnterPart, SkipPart, Measure, LeavePart, NextProbe, FailureCaught,
       FailureEndsProbe, FailureUnsaid
  <2>5. /\ at' \in Nat \ {0} /\ part' \in Nat \ {0} /\ point' \in Nat
        /\ Len(plan) = at' \/ Len(plan) + 1 = at'
        /\ Len(plan) < at' => part' = 1 /\ point' = 0
        /\ point' > 0 => at' = at /\ part' \in DOMAIN TheParts
    BY <1>6, <2>1, <2>2, <2>3 DEF EnterPart, SkipPart, Measure, LeavePart, NextProbe,
       FailureCaught, FailureEndsProbe, FailureUnsaid, Fails
  <2>. QED
    BY <1>2, <2>1, <2>4, <2>5 DEF TheParts
<1>7. CASE UNCHANGED vars \/ Exited
  <2>1. UNCHANGED <<command, machine, cpus, plan, selected, phase, at, part, point, observations>>
    BY <1>7 DEF Exited, vars, given, position, setting
  <2>2. (Found' <=> Found) /\ \A parts : PartsOK(parts)' <=> PartsOK(parts)
    BY <2>1, CpusStay
  <2>3. IsMachine(machine)' /\ IsList(plan)' /\ (IsList(selected) => IsList(selected)')
    BY <1>1, <2>1 DEF PlanInv
  <2>. QED
    BY <1>1, <2>1, <2>2, <2>3 DEF PlanInv, TheParts
<1>. QED
  BY <1>3, <1>4, <1>5, <1>6, <1>7 DEF Next, Exits

\* What one point leaves behind: an observation that says the truth unless a pin
\* was refused, the main thread and the buffer.
LEMMA Measures ==
  ASSUME IInv, Measure
  PROVE  /\ phase = "probe" /\ Len(plan) = at /\ point > 0 /\ part \in DOMAIN TheParts
         /\ point \in DOMAIN ThePart.points
         /\ UNCHANGED <<selected, at, part, plan, cpus, phase, warnings, stdout, exit, given>>
         /\ point' = point + 1 /\ refused \subseteq refused'
         /\ \E o : /\ observations' = observations \cup {o}
                   /\ o.probe = TheProbe /\ o.part = part /\ o.point = point
                   /\ o.cpus = Threads(ThePart.points[point])
                   /\ o.workers = ThePart.points[point].workers
                   /\ o.label = ThePart.points[point].label
                   /\ \/ TheProbe \in refused'
                      \/ o.ran = o.cpus /\ (o.memory # None => o.placed = o.memory)
         /\ \/ TheProbe \in refused'
            \/ /\ Settled(TheParts, part) \/ Follows(TheParts, part) => affinity' = {Primary}
               /\ ThePart.buffer = "each" => home' = None
               /\ Bound(ThePart) => home' = ThePart.points[1].memory
<1>1. /\ phase = "probe" /\ Len(plan) = at /\ point > 0 /\ point <= Len(ThePart.points)
      /\ UNCHANGED <<selected, at, part, plan, cpus, phase, warnings, stdout, exit, given>>
      /\ point' = point + 1
  BY DEF Measure, Running, Probing, setting
<1>2. /\ PartOK(TheParts, part) /\ part \in DOMAIN TheParts /\ point \in DOMAIN ThePart.points
      /\ point \in Nat /\ Primary # None
  <2>1. point \in Nat /\ part \in DOMAIN TheParts
    BY <1>1 DEF IInv, PlanInv
  <2>2. PartOK(TheParts, part) /\ IsList(ThePart.points) /\ Primary # None
    BY <1>1, <2>1, InAPart DEF ThePart
  <2>. QED
    BY <1>1, <2>1, <2>2 DEF IsList
<1>. DEFINE pt == ThePart.points[point]
            filling(no) == Pin(pt.fill, affinity, <<"fill", 0>> \in no)
            running(no) == Pin(pt.pin, filling(no), <<"pin", 0>> \in no)
            inherited(no) == IF pt.main = None THEN running(no) ELSE filling(no)
            lost(no) == {i \in DOMAIN pt.workers : <<"worker", i>> \in no}
            pinned(no) == {pt.workers[i] : i \in DOMAIN pt.workers \ lost(no)}
            placed(f) == IF home # None THEN home ELSE NodeOf(f)
            ran(no, r, s) == pinned(no) \cup (IF lost(no) = {} THEN {} ELSE {s})
                               \cup (IF pt.main = None THEN {} ELSE {r})
            seen(no, f, r, s) ==
              [probe |-> TheProbe, part |-> part, point |-> point,
               cpus |-> Threads(pt), workers |-> pt.workers, label |-> pt.label,
               ran |-> ran(no, r, s), memory |-> pt.memory,
               placed |-> IF pt.memory = None THEN None ELSE placed(f)]
<1>3. PICK no \in Refusals(PinsOf(pt)) :
        /\ Refuse(no, TheProbe)
        /\ affinity' = running(no)
        /\ \E f \in filling(no), r \in running(no), s \in inherited(no) :
             /\ home' = IF ThePart.buffer = "bound" THEN placed(f) ELSE home
             /\ observations' = observations \cup {seen(no, f, r, s)}
  BY DEF Measure
<1>4. PICK f \in filling(no), r \in running(no), s \in inherited(no) :
        /\ home' = IF ThePart.buffer = "bound" THEN placed(f) ELSE home
        /\ observations' = observations \cup {seen(no, f, r, s)}
  BY <1>3
<1>5. refused \subseteq refused' /\ (no # {} => TheProbe \in refused')
  BY <1>3 DEF Refuse
<1>. DEFINE o == seen(no, f, r, s)
<1>6. /\ o.probe = TheProbe /\ o.part = part /\ o.point = point /\ o.cpus = Threads(pt)
      /\ o.workers = pt.workers /\ o.label = pt.label
      /\ o.ran = ran(no, r, s) /\ o.memory = pt.memory
      /\ o.placed = IF pt.memory = None THEN None ELSE placed(f)
  OBVIOUS
<1>7. ASSUME no = {}, TheProbe \notin refused
      PROVE  /\ o.ran = o.cpus /\ (o.memory # None => o.placed = o.memory)
             /\ Settled(TheParts, part) \/ Follows(TheParts, part) => affinity' = {Primary}
             /\ ThePart.buffer = "each" => home' = None
             /\ Bound(ThePart) => home' = ThePart.points[1].memory
  <2>1. /\ filling(no) = IF pt.fill = None THEN affinity ELSE {pt.fill}
        /\ running(no) = IF pt.pin = None THEN filling(no) ELSE {pt.pin}
    BY <1>7 DEF Pin
  <2>2. ran(no, r, s) = ToSet(pt.workers) \cup (IF pt.main = None THEN {} ELSE {r})
    BY <1>7 DEF ToSet
  <2>3. PlaceInv /\ HomeInv
    BY DEF IInv
  <2>4. ASSUME Settled(TheParts, part) \/ Follows(TheParts, part)
        PROVE  /\ affinity = {Primary} /\ pt.fill = None /\ pt.pin = None /\ pt.main = Primary
               /\ filling(no) = {Primary} /\ running(no) = {Primary}
    <3>1. affinity = {Primary}
      BY <1>1, <1>2, <1>7, <2>3, <2>4 DEF PlaceInv
    <3>2. Stays(ThePart)
      BY <2>4 DEF Settled, Follows, ThePart
    <3>3. pt.fill = None /\ pt.pin = None /\ pt.main = Primary
      BY <1>2, <3>2 DEF Stays, Still
    <3>. QED
      BY <2>1, <3>1, <3>3
  <2>5. ASSUME Moves(ThePart), pt.main # None
        PROVE  running(no) = {pt.main}
    BY <1>2, <2>1, <2>5 DEF Moves
  <2>6. pt.main # None => r = pt.main
    BY <1>2, <2>4, <2>5 DEF PartOK, ThePart
  <2>7. o.ran = o.cpus
    BY <1>6, <2>2, <2>6 DEF Threads
  <2>8. /\ ThePart.buffer = "each" => home = None
        /\ Bound(ThePart) => /\ home \in {ThePart.points[1].memory, None}
                             /\ point > 1 => home = ThePart.points[1].memory
    BY <1>1, <1>2, <1>7, <2>3 DEF HomeInv
  <2>9. ASSUME Bound(ThePart)
        PROVE  placed(f) = ThePart.points[1].memory
    <3>1. /\ ThePart.points[1].memory \in Nat /\ ThePart.points[1].fill # None
          /\ NodeOf(ThePart.points[1].fill) = ThePart.points[1].memory
      BY <1>2, <2>9 DEF Bound
    <3>2. CASE point > 1
      BY <2>8, <2>9, <3>1, <3>2 DEF None
    <3>3. CASE point = 1
      BY <2>1, <2>8, <2>9, <3>1, <3>3 DEF None
    <3>. QED
      BY <1>1, <1>2, <3>2, <3>3
  <2>10. ASSUME pt.memory # None
         PROVE  placed(f) = pt.memory
    <3>1. CASE (Settled(TheParts, part) \/ Follows(TheParts, part)) /\ Locally(ThePart)
      BY <1>2, <2>4, <2>8, <2>10, <3>1 DEF Locally
    <3>2. CASE NoMemory(ThePart)
      BY <1>2, <2>10, <3>2 DEF NoMemory
    <3>3. CASE Bound(ThePart)
      BY <1>2, <2>9, <3>3 DEF Bound
    <3>. QED
      BY <1>2, <3>1, <3>2, <3>3 DEF PartOK, ThePart
  <2>11. Bound(ThePart) => home' = ThePart.points[1].memory
    BY <1>4, <2>9 DEF Bound
  <2>12. ThePart.buffer = "each" => home' = None
    BY <1>4, <2>8
  <2>13. Settled(TheParts, part) \/ Follows(TheParts, part) => affinity' = {Primary}
    BY <1>3, <2>4
  <2>. QED
    BY <1>6, <2>7, <2>10, <2>11, <2>12, <2>13
<1>. HIDE DEF o
<1>. QED
  BY <1>1, <1>2, <1>4, <1>5, <1>6, <1>7 DEF o

LEMMA PlaceStep ==
  ASSUME IInv, [Next]_vars
  PROVE  PlaceInv'
<1>1. PlanInv /\ PlaceInv
  BY DEF IInv
<1>2. CASE Exits
  BY <1>2 DEF PlaceInv, Exits, BadArguments, HelpOrList, UnsupportedBuild,
     UnknownProbe, FailureUncaught, Aborted, EmitJson, Fails, Leaves
<1>3. CASE Select
  BY <1>1, <1>3, EmptyList DEF Select, Runs, PlanInv, PlaceInv, IsList
<1>4. CASE StartProbe
  BY <1>1, <1>4 DEF StartProbe, Probing, PlanInv, PlaceInv, position
<1>5. CASE NextProbe
  BY <1>1, <1>5 DEF NextProbe, Running, PlanInv, PlaceInv, setting
\* Inside a probe: what is left to show of the next state.
<1>6. ASSUME UNCHANGED <<plan, cpus, selected, at>>,
             TheProbe \notin refused' /\ part' \in DOMAIN TheParts =>
               /\ point' > 0 /\ (Settled(TheParts, part') \/ Follows(TheParts, part'))
                    => affinity' = {Primary}
               /\ point' = 0 /\ part' = 2 /\ Settled(TheParts, 1) /\ TheParts[1].runs
                    => affinity' = {Primary}
      PROVE  PlaceInv'
  <2>1. /\ Primary' = Primary
        /\ \A parts, i : Settled(parts, i)' <=> Settled(parts, i)
        /\ \A parts, i : Follows(parts, i)' <=> Follows(parts, i)
    BY <1>6, CpusStay
  <2>2. TheProbe' = TheProbe /\ TheParts' = TheParts
    BY <1>6 DEF TheProbe, TheParts
  <2>. QED
    BY <1>6, <2>1, <2>2 DEF PlaceInv
<1>7. CASE EnterPart
  <2>1. /\ phase = "probe" /\ Len(plan) = at /\ point = 0 /\ point' = 1 /\ ThePart.runs
        /\ UNCHANGED <<plan, cpus, selected, at, part>>
    BY <1>7 DEF EnterPart, Running, Probing, setting
  <2>2. PICK no \in Refusals({ThePart.pin} \ {None}) :
          Refuse(no, TheProbe) /\ affinity' = Pin(ThePart.pin, affinity, no # {})
    BY <1>7 DEF EnterPart
  <2>3. ASSUME TheProbe \notin refused', part \in DOMAIN TheParts,
               Settled(TheParts, part) \/ Follows(TheParts, part)
        PROVE  affinity' = {Primary}
    <3>1. no = {} /\ TheProbe \notin refused
      BY <2>2, <2>3 DEF Refuse
    <3>2. affinity' = IF ThePart.pin = None THEN affinity ELSE {ThePart.pin}
      BY <2>2, <3>1 DEF Pin
    <3>3. Primary # None
      BY <2>1, InAPart
    <3>4. CASE Settled(TheParts, part)
      BY <3>2, <3>3, <3>4 DEF Settled, ThePart
    <3>5. CASE Follows(TheParts, part)
      BY <1>1, <2>1, <2>3, <3>1, <3>2, <3>5 DEF Follows, ThePart, PlaceInv
    <3>. QED
      BY <2>3, <3>4, <3>5
  <2>. QED
    BY <1>6, <2>1, <2>3
<1>8. CASE SkipPart
  <2>1. /\ phase = "probe" /\ Len(plan) = at /\ point = 0 /\ point' = 0
        /\ part' = part + 1 /\ part \in Nat /\ ~TheParts[part].runs
        /\ UNCHANGED <<plan, cpus, selected, at>>
    BY <1>1, <1>8 DEF SkipPart, Running, Probing, setting, PlanInv, ThePart
  <2>2. part' = 2 => part = 1
    BY <2>1
  <2>. QED
    BY <1>6, <2>1, <2>2
<1>9. CASE Measure
  <2>1. /\ point' = point + 1 /\ point > 0 /\ point \in Nat
        /\ UNCHANGED <<plan, cpus, selected, at, part>>
        /\ \/ TheProbe \in refused'
           \/ Settled(TheParts, part) \/ Follows(TheParts, part) => affinity' = {Primary}
    BY <1>1, <1>9, Measures DEF PlanInv
  <2>. QED
    BY <1>6, <2>1
<1>10. CASE LeavePart \/ FailureCaught \/ FailureUnsaid
  <2>1. /\ phase = "probe" /\ Len(plan) = at /\ point > 0 /\ point' = 0
        /\ part' = part + 1 /\ part \in Nat /\ part \in DOMAIN TheParts
        /\ UNCHANGED <<plan, cpus, selected, at, affinity, refused>>
    BY <1>1, <1>10 DEF LeavePart, FailureCaught, FailureUnsaid, Fails, Running, Probing,
       setting, PlanInv, histories
  <2>2. part' = 2 => part = 1
    BY <2>1
  <2>. QED
    BY <1>1, <1>6, <2>1, <2>2 DEF PlaceInv
<1>11. CASE FailureEndsProbe
  <2>1. /\ phase = "probe" /\ Len(plan) = at /\ part' = Len(TheParts) + 1
        /\ UNCHANGED <<plan, cpus, selected, at>>
    BY <1>11 DEF FailureEndsProbe, Fails, Running, Probing, setting
  <2>2. Len(TheParts) \in Nat /\ DOMAIN TheParts = 1 .. Len(TheParts)
    BY <2>1, InAPart
  <2>3. part' \notin DOMAIN TheParts
    BY <2>1, <2>2
  <2>. QED
    BY <1>6, <2>1, <2>3
<1>12. CASE UNCHANGED vars \/ Exited
  <2>1. UNCHANGED <<plan, cpus, selected, at, part, point, affinity, refused, phase>>
    BY <1>12 DEF Exited, vars, setting, position, histories
  <2>2. /\ Primary' = Primary
        /\ \A parts, i : Settled(parts, i)' <=> Settled(parts, i)
        /\ \A parts, i : Follows(parts, i)' <=> Follows(parts, i)
    BY <2>1, CpusStay
  <2>3. TheProbe' = TheProbe /\ TheParts' = TheParts
    BY <2>1 DEF TheProbe, TheParts
  <2>. QED
    BY <1>1, <2>1, <2>2, <2>3 DEF PlaceInv
<1>. QED
  BY <1>2, <1>3, <1>4, <1>5, <1>7, <1>8, <1>9, <1>10, <1>11, <1>12 DEF Next, Exits

LEMMA HomeStep ==
  ASSUME IInv, [Next]_vars
  PROVE  HomeInv'
<1>1. PlanInv /\ HomeInv
  BY DEF IInv
<1>2. CASE Exits
  BY <1>2 DEF HomeInv, Exits, BadArguments, HelpOrList, UnsupportedBuild,
     UnknownProbe, FailureUncaught, Aborted, EmitJson, Fails, Leaves
\* Before a part there is nothing to show.
<1>3. CASE Select \/ StartProbe
  <2>1. point' = 0
    BY <1>1, <1>3 DEF Select, StartProbe, Runs, Probing, PlanInv, position
  <2>. QED
    BY <2>1 DEF HomeInv
<1>4. CASE SkipPart \/ NextProbe \/ LeavePart \/ FailureCaught \/ FailureEndsProbe \/ FailureUnsaid
  <2>1. point' = 0
    BY <1>4 DEF SkipPart, NextProbe, LeavePart, FailureCaught, FailureEndsProbe, FailureUnsaid
  <2>. QED
    BY <2>1 DEF HomeInv
<1>5. ASSUME UNCHANGED <<plan, cpus, selected, at, part>>
      PROVE  /\ TheProbe' = TheProbe /\ TheParts' = TheParts /\ ThePart' = ThePart
             /\ \A q : Bound(q)' <=> Bound(q)
  BY <1>5, CpusStay DEF TheProbe, TheParts, ThePart
<1>6. CASE EnterPart
  <2>1. /\ point' = 1 /\ UNCHANGED <<plan, cpus, selected, at, part>>
        /\ ThePart.buffer = "each" => home' = None
        /\ ThePart.buffer = "bound" => home' \in {ThePart.points[1].memory, None}
    BY <1>6 DEF EnterPart, setting
  <2>. QED
    BY <1>5, <2>1 DEF HomeInv, Bound
<1>7. CASE Measure
  <2>1. /\ UNCHANGED <<plan, cpus, selected, at, part>>
        /\ \/ TheProbe \in refused'
           \/ /\ ThePart.buffer = "each" => home' = None
              /\ Bound(ThePart) => home' = ThePart.points[1].memory
    BY <1>7, Measures
  <2>. QED
    BY <1>5, <2>1 DEF HomeInv
<1>8. CASE UNCHANGED vars \/ Exited
  <2>1. UNCHANGED <<plan, cpus, selected, at, part, point, home, refused, phase>>
    BY <1>8 DEF Exited, vars, setting, position, histories
  <2>. QED
    BY <1>1, <1>5, <2>1 DEF HomeInv
<1>. QED
  BY <1>2, <1>3, <1>4, <1>6, <1>7, <1>8 DEF Next, Exits

LEMMA LabelStep ==
  ASSUME IInv, [Next]_vars
  PROVE  RunsWhereLabelled' /\ MemoryWhereLabelled'
<1>1. RunsWhereLabelled /\ MemoryWhereLabelled
  BY DEF IInv
<1>2. CASE Measure
  <2>1. refused \subseteq refused'
    BY <1>2, Measures
  <2>2. PICK o : /\ observations' = observations \cup {o} /\ o.probe = TheProbe
                 /\ \/ TheProbe \in refused'
                    \/ o.ran = o.cpus /\ (o.memory # None => o.placed = o.memory)
    BY <1>2, Measures
  <2>. QED
    BY <1>1, <2>1, <2>2 DEF RunsWhereLabelled, MemoryWhereLabelled
<1>3. ASSUME UNCHANGED observations, refused \subseteq refused'
      PROVE  RunsWhereLabelled' /\ MemoryWhereLabelled'
  BY <1>1, <1>3 DEF RunsWhereLabelled, MemoryWhereLabelled
<1>4. CASE Select \/ EnterPart
  BY <1>3, <1>4 DEF Select, EnterPart, Refuse
<1>5. CASE Exits \/ StartProbe \/ SkipPart \/ LeavePart \/ NextProbe \/ FailureCaught
             \/ FailureEndsProbe \/ FailureUnsaid
  BY <1>3, <1>5 DEF Exits, BadArguments, HelpOrList, UnsupportedBuild, UnknownProbe,
     FailureUncaught, Aborted, EmitJson, StartProbe, SkipPart, LeavePart, NextProbe,
     FailureCaught, FailureEndsProbe, FailureUnsaid, Fails, histories
<1>6. CASE UNCHANGED vars \/ Exited
  BY <1>3, <1>6 DEF Exited, vars, histories
<1>. QED
  BY <1>2, <1>4, <1>5, <1>6 DEF Next, Exits

\* The account of a state in which nothing has become due that is not accounted for.
LEMMA AccountKept ==
  ASSUME IInv, phase = "probe",
         UNCHANGED <<command, selected, plan>>,
         warnings \subseteq warnings', observations \subseteq observations',
         \A k \in DOMAIN plan : \A i \in DOMAIN plan[k] : \A q \in DOMAIN plan[k][i].points :
           Behind(k, i, q)' => Behind(k, i, q) \/ Exempt(k, i)' \/ There(k, i, q)'
  PROVE  AccountInv'
<1>1. AccountInv
  BY DEF IInv
<1>2. ASSUME NEW k \in DOMAIN plan, NEW i \in DOMAIN plan[k]
      PROVE  /\ Exempt(k, i) => Exempt(k, i)'
             /\ \A q : There(k, i, q) => There(k, i, q)'
  BY DEF Exempt, There
<1>3. Requested' = Requested
  BY DEF Requested
<1>. QED
  BY <1>1, <1>2, <1>3 DEF AccountInv

LEMMA AccountStep ==
  ASSUME IInv, [Next]_vars
  PROVE  AccountInv'
<1>1. PlanInv /\ AccountInv /\ OutputInv
  BY DEF IInv
<1>2. CASE BadArguments \/ HelpOrList \/ UnsupportedBuild \/ UnknownProbe \/ FailureUncaught
             \/ Aborted
  BY <1>1, <1>2 DEF BadArguments, HelpOrList, UnsupportedBuild, UnknownProbe,
     FailureUncaught, Aborted, Fails, Leaves, Runs, Running, Probing, OutputInv, AccountInv
<1>3. CASE EmitJson
  BY <1>1, <1>3, AccountKept DEF EmitJson, Leaves, given, position, setting, Behind
<1>4. CASE Select
  <2>1. /\ plan' = <<>> /\ selected' = Selection /\ UNCHANGED command /\ ~Unknown
        /\ command.only \in Seq(STRING)
    BY <1>1, <1>4 DEF Select, Runs, PlanInv, given
  <2>2. DOMAIN plan' = {}
    BY <2>1
  <2>3. Requested' = Requested
    BY <2>1 DEF Requested
  <2>. QED
    BY <2>1, <2>2, <2>3, Selects DEF AccountInv
<1>5. CASE StartProbe
  <2>1. /\ phase = "probe" /\ plan' = Append(plan, Parts(TheProbe))
        /\ Len(plan) + 1 = at /\ IsList(plan) /\ part = 1 /\ point = 0
        /\ UNCHANGED <<command, selected, at, part, point, warnings, observations>>
    BY <1>1, <1>5 DEF StartProbe, Probing, PlanInv, position, given
  <2>2. /\ IsList(plan') /\ Len(plan') = Len(plan) + 1
        /\ \A k \in 1 .. Len(plan) : plan'[k] = plan[k]
    BY <2>1, Appended
  <2>3. DOMAIN plan = 1 .. Len(plan) /\ DOMAIN plan' = 1 .. Len(plan) + 1 /\ Len(plan) \in Nat
    BY <2>1, <2>2 DEF IsList
  <2>4. PlanInv' /\ phase' = "probe"
    BY <1>5, <2>1, PlanStep DEF StartProbe
  <2>5. \A k \in DOMAIN plan' : IsList(plan'[k]) /\ \A i \in DOMAIN plan'[k] : IsList(plan'[k][i].points)
    BY <2>4 DEF PlanInv, PartsOK, PartOK
  <2>6. Requested' = Requested
    BY <2>1 DEF Requested
  <2>7. ASSUME NEW k \in DOMAIN plan', NEW i \in DOMAIN plan'[k],
               NEW q \in DOMAIN plan'[k][i].points, Behind(k, i, q)'
        PROVE  Exempt(k, i)' \/ There(k, i, q)'
    <3>1. i \in Nat \ {0} /\ q \in Nat \ {0}
      BY <2>5 DEF IsList
    <3>2. k < at
      BY <2>1, <2>7, <3>1 DEF Behind
    <3>3. k \in DOMAIN plan /\ plan'[k] = plan[k]
      BY <2>1, <2>2, <2>3, <3>2
    <3>4. Exempt(k, i) \/ There(k, i, q)
      BY <1>1, <2>1, <3>2, <3>3 DEF AccountInv, Behind
    <3>. QED
      BY <2>1, <3>3, <3>4 DEF Exempt, There
  <2>. QED
    BY <1>1, <2>1, <2>5, <2>6, <2>7 DEF AccountInv
<1>6. CASE EnterPart \/ SkipPart \/ Measure \/ LeavePart \/ NextProbe
             \/ FailureCaught \/ FailureEndsProbe \/ FailureUnsaid
  <2>1. /\ phase = "probe" /\ Len(plan) = at /\ at \in Nat /\ part \in Nat /\ point \in Nat
        /\ UNCHANGED <<command, selected, plan, phase>>
        /\ observations \subseteq observations' /\ warnings \subseteq warnings'
    BY <1>1, <1>6 DEF EnterPart, SkipPart, Measure, LeavePart, NextProbe, FailureCaught,
       FailureEndsProbe, FailureUnsaid, Fails, Warn, Running, Probing, PlanInv, given, setting
  <2>2. \A k \in DOMAIN plan : k \in Nat /\ k <= at
    BY <1>1, <2>1 DEF PlanInv, IsList
  <2>3. \A k \in DOMAIN plan : \A i \in DOMAIN plan[k] :
          /\ i \in Nat \ {0} /\ i <= Len(plan[k])
          /\ \A q \in DOMAIN plan[k][i].points :
               q \in Nat \ {0} /\ q <= Len(plan[k][i].points)
    BY <1>1, <2>1 DEF AccountInv, IsList
  <2>4. SUFFICES ASSUME NEW k \in DOMAIN plan, NEW i \in DOMAIN plan[k],
                        NEW q \in DOMAIN plan[k][i].points,
                        Behind(k, i, q)', ~Behind(k, i, q)
                 PROVE  Exempt(k, i)' \/ There(k, i, q)'
    BY <2>1, AccountKept
  <2>5. k \in Nat /\ k <= at /\ i \in Nat \ {0} /\ i <= Len(plan[k])
          /\ q \in Nat \ {0} /\ q <= Len(plan[k][i].points)
    BY <2>2, <2>3
  <2>6. CASE EnterPart
    BY <2>1, <2>4, <2>5, <2>6 DEF EnterPart, Behind
  <2>7. CASE SkipPart
    <3>1. k = at /\ i = part /\ ~plan[k][i].runs
      BY <2>1, <2>4, <2>5, <2>7 DEF SkipPart, Behind, ThePart, TheParts
    <3>. QED
      BY <2>1, <3>1 DEF Exempt
  <2>8. CASE Measure
    <3>1. k = at /\ i = part /\ q = point
      BY <2>1, <2>4, <2>5, <2>8 DEF Measure, Behind
    <3>2. PICK o : /\ observations' = observations \cup {o}
                   /\ o.probe = TheProbe /\ o.part = part /\ o.point = point
      BY <2>8, Measures
    <3>. QED
      BY <2>1, <3>1, <3>2 DEF There, TheProbe
  <2>9. CASE LeavePart
    <3>1. point > Len(plan[at][part].points) /\ at' = at /\ part' = part + 1 /\ point' = 0
      BY <2>9 DEF LeavePart, ThePart, TheParts
    <3>2. k = at /\ i = part /\ ~(q < point)
      BY <2>1, <2>4, <2>5, <3>1 DEF Behind
    <3>3. Len(plan[k][i].points) \in Nat
      BY <1>1, <2>1 DEF AccountInv, IsList
    <3>. QED
      BY <2>1, <2>5, <3>1, <3>2, <3>3
  <2>10. CASE NextProbe
    <3>1. point = 0 /\ part > Len(plan[at]) /\ at' = at + 1 /\ part' = 1 /\ point' = 0
      BY <2>10 DEF NextProbe, TheParts
    <3>2. k = at /\ ~(i < part)
      BY <2>1, <2>4, <2>5, <3>1 DEF Behind
    <3>3. Len(plan[k]) \in Nat
      BY <1>1, <2>1 DEF AccountInv, IsList
    <3>. QED
      BY <2>1, <2>5, <3>1, <3>2, <3>3
  <2>11. CASE FailureCaught
    <3>1. k = at /\ i = part
      BY <2>1, <2>4, <2>5, <2>11 DEF FailureCaught, Behind
    <3>2. <<selected[k], i>> \in warnings' /\ i \in 1 .. i
      BY <2>5, <2>11, <3>1 DEF FailureCaught, Warn, TheProbe
    <3>. QED
      BY <2>1, <3>2 DEF Exempt
  <2>12. CASE FailureEndsProbe
    <3>1. k = at /\ part <= i /\ at' = at
      BY <2>1, <2>4, <2>5, <2>12 DEF FailureEndsProbe, Behind
    <3>2. part \in 1 .. i
      BY <1>1, <2>1, <2>5, <3>1 DEF PlanInv
    <3>3. <<selected[k], part>> \in warnings'
      BY <2>12, <3>1 DEF FailureEndsProbe, Warn, TheProbe
    <3>. QED
      BY <2>1, <3>2, <3>3 DEF Exempt
  <2>13. CASE FailureUnsaid
    <3>1. k = at /\ i = part /\ "quiet" \in plan[k][i].fails
      BY <2>1, <2>4, <2>5, <2>13 DEF FailureUnsaid, Fails, Behind, ThePart, TheParts
    <3>. QED
      BY <2>1, <3>1 DEF Exempt
  <2>. QED
    BY <1>6, <2>6, <2>7, <2>8, <2>9, <2>10, <2>11, <2>12, <2>13
<1>7. CASE UNCHANGED vars \/ Exited
  BY <1>1, <1>7 DEF Exited, vars, given, setting, position, AccountInv, Requested, Behind,
     Exempt, There
<1>. QED
  BY <1>2, <1>3, <1>4, <1>5, <1>6, <1>7 DEF Next

LEMMA OutputStep ==
  ASSUME IInv, [Next]_vars
  PROVE  OutputInv'
<1>1. PlanInv /\ OutputInv
  BY DEF IInv
<1>2. CASE BadArguments \/ HelpOrList \/ UnsupportedBuild \/ UnknownProbe \/ FailureUncaught
             \/ Aborted
  BY <1>1, <1>2 DEF BadArguments, HelpOrList, UnsupportedBuild, UnknownProbe,
     FailureUncaught, Aborted, Fails, Leaves, Runs, Running, Probing, OutputInv, given
<1>3. CASE EmitJson
  <2>1. /\ phase = "probe" /\ at > Len(selected) /\ stdout' = "document" /\ phase' = "exited"
        /\ exit' = 0 /\ UNCHANGED <<plan, at, selected>>
    BY <1>3 DEF EmitJson, Leaves, position, setting
  <2>2. Len(selected) \in Nat /\ Len(plan) \in Nat /\ at \in Nat
    BY <1>1, <2>1 DEF PlanInv, IsList
  <2>3. Len(plan) = at \/ Len(plan) + 1 = at
    BY <1>1 DEF PlanInv
  <2>4. ASSUME NEW k \in DOMAIN selected
        PROVE  k \in DOMAIN plan /\ k < at
    <3>1. k \in 1 .. Len(selected) /\ DOMAIN plan = 1 .. Len(plan)
      BY <1>1, <2>1 DEF PlanInv, IsList
    <3>2. k \in 1 .. Len(plan) /\ k < at
      <4>. DEFINE l == Len(plan)
                  m == Len(selected)
      <4>1. at > m
        BY <2>1
      <4>. HIDE DEF l, m
      <4>2. l \in Nat /\ m \in Nat /\ at \in Nat /\ (l = at \/ l + 1 = at) /\ k \in 1 .. m
        BY <2>2, <2>3, <3>1 DEF l, m
      <4>3. k \in 1 .. l /\ k < at
        BY <4>1, <4>2
      <4>. QED
        BY <4>3 DEF l
    <3>. QED
      BY <3>1, <3>2
  <2>. QED
    BY <2>1, <2>4 DEF OutputInv
<1>4. CASE Select \/ StartProbe \/ EnterPart \/ SkipPart \/ Measure \/ LeavePart \/ NextProbe
             \/ FailureCaught \/ FailureEndsProbe \/ FailureUnsaid
  <2>1. /\ phase \in {"parse", "probe"} /\ phase' = "probe" /\ UNCHANGED stdout
    BY <1>4 DEF Select, StartProbe, EnterPart, SkipPart, Measure, LeavePart, NextProbe,
       FailureCaught, FailureEndsProbe, FailureUnsaid, Fails, Runs, Running, Probing
  <2>. QED
    BY <1>1, <2>1 DEF OutputInv
<1>5. CASE UNCHANGED vars \/ Exited
  BY <1>1, <1>5 DEF Exited, vars, given, setting, position, OutputInv
<1>. QED
  BY <1>2, <1>3, <1>4, <1>5 DEF Next

--------------------------------------------------------------------------------
(* The cores, in the order in which they are dealt out. *)

LEMMA LeastOf ==
  ASSUME NEW S \in SUBSET Int, IsFiniteSet(S), S # {}
  PROVE  \E x \in S : \A y \in S : x <= y
<1>. DEFINE s == Ascending(S)
            n == Cardinality(S)
<1>1. /\ n \in Nat /\ s \in [1 .. n -> S]
      /\ \A x \in S : \E i \in 1 .. n : s[i] = x
      /\ \A i, j \in 1 .. n : i < j => s[i] < s[j]
  BY Upward
<1>. HIDE DEF s, n
<1>2. 1 \in 1 .. n
  <2>1. PICK x \in S : TRUE
    OBVIOUS
  <2>2. PICK i \in 1 .. n : s[i] = x
    BY <1>1
  <2>. QED
    BY <1>1, <2>2
<1>3. ASSUME NEW y \in S PROVE s[1] <= y
  <2>1. PICK i \in 1 .. n : s[i] = y
    BY <1>1
  <2>2. i = 1 \/ s[1] < s[i]
    BY <1>1, <1>2
  <2>3. s[1] \in Int /\ y \in Int
    BY <1>1, <1>2
  <2>. QED
    BY <2>1, <2>2, <2>3
<1>. QED
  BY <1>1, <1>2, <1>3

LEMMA SameNumber ==
  ASSUME NEW S, IsFiniteSet(S), NEW T, NEW f \in [S -> T],
         \A t \in T : \E x \in S : f[x] = t,
         \A x, y \in S : f[x] = f[y] => x = y
  PROVE  IsFiniteSet(T) /\ Cardinality(T) = Cardinality(S)
<1>1. f \in Bijection(S, T)
  BY DEF Bijection, Injection, IsInjective, Surjection
<1>. QED
  BY <1>1, FS_Bijection DEF ExistsBijection

--------------------------------------------------------------------------------
Cores == ToSet(PhysicalCpus(cpus))

LEMMA CoresAre ==
  ASSUME Found
  PROVE  /\ IsFiniteSet(Cores) /\ Cores \subseteq ToSet(cpus) /\ cpus[1] \in Cores
         /\ \A r \in ToSet(cpus) : \E p \in Cores : SameCore(p, r)
         /\ \A p, q \in Cores : SameCore(p, q) => p = q
         /\ ToSet(Physical) = {p.cpu : p \in Cores} /\ Len(Physical) = Cardinality(Cores)
<1>. DEFINE P == PhysicalCpus(cpus)
            I == {i \in DOMAIN cpus : ~\E j \in 1 .. i - 1 : SameCore(cpus[j], cpus[i])}
            o == Ascending(I)
<1>1. IsList(cpus) /\ 1 \in DOMAIN cpus /\ DOMAIN cpus = 1 .. Len(cpus) /\ Len(cpus) \in Nat
  BY ListOf DEF Found
<1>2. I \in SUBSET DOMAIN cpus /\ 1 \in I
  BY <1>1
<1>3. P = AtPlaces(cpus, I)
  BY DEF PhysicalCpus
<1>4. \A i, j \in I : SameCore(cpus[i], cpus[j]) => i = j
  <2>1. \A a, b : SameCore(a, b) => SameCore(b, a)
    BY DEF SameCore
  <2>2. \A i, j \in I : i < j => ~SameCore(cpus[i], cpus[j])
    <3>1. \A i, j \in I : i < j => i \in 1 .. j - 1
      BY <1>1
    <3>. QED
      BY <3>1
  <2>3. \A i, j \in I : i < j \/ j < i \/ i = j
    BY <1>1
  <2>. QED
    BY <2>1, <2>2, <2>3
<1>5. ASSUME NEW i \in DOMAIN cpus PROVE \E j \in I : SameCore(cpus[j], cpus[i])
  <2>. DEFINE S == {j \in DOMAIN cpus : SameCore(cpus[j], cpus[i])}
  <2>1. i \in S
    BY DEF SameCore
  <2>2. S \in SUBSET Int /\ IsFiniteSet(S)
    <3>1. IsFiniteSet(1 .. Len(cpus))
      BY <1>1, FS_Interval
    <3>. QED
      BY <1>1, <3>1, FS_Subset
  <2>3. \A j \in S : j \in DOMAIN cpus /\ SameCore(cpus[j], cpus[i])
    OBVIOUS
  <2>4. \A j \in DOMAIN cpus : SameCore(cpus[j], cpus[i]) => j \in S
    OBVIOUS
  <2>. HIDE DEF S
  <2>5. PICK j \in S : \A k \in S : j <= k
    BY <2>1, <2>2, LeastOf
  <2>6. ASSUME NEW k \in 1 .. j - 1, SameCore(cpus[k], cpus[j]) PROVE FALSE
    <3>1. k \in DOMAIN cpus /\ k < j
      BY <1>1, <2>3
    <3>2. SameCore(cpus[k], cpus[i])
      BY <2>3, <2>6 DEF SameCore
    <3>. QED
      BY <2>2, <2>4, <2>5, <3>1, <3>2
  <2>. QED
    BY <2>3, <2>6
<1>. HIDE DEF P, I
<1>6. /\ Cardinality(I) \in Nat /\ IsList(P) /\ Len(P) = Cardinality(I)
      /\ o \in [1 .. Cardinality(I) -> I]
      /\ \A k \in 1 .. Cardinality(I) : P[k] = cpus[o[k]]
      /\ \A i \in I : \E k \in 1 .. Cardinality(I) : o[k] = i
  BY <1>1, <1>2, <1>3, Taken
<1>. HIDE DEF o
<1>7. Cores = {cpus[i] : i \in I}
  <2>1. Cores = {P[k] : k \in 1 .. Len(P)}
    BY <1>6 DEF Cores, P, ToSet, IsList
  <2>2. \A k \in 1 .. Len(P) : o[k] \in I /\ P[k] = cpus[o[k]]
    BY <1>6
  <2>3. \A i \in I : \E k \in 1 .. Len(P) : P[k] = cpus[i]
    BY <1>6
  <2>. QED
    BY <2>1, <2>2, <2>3
<1>8. IsFiniteSet(Cores)
  <2>1. IsFiniteSet(1 .. Len(P))
    BY <1>6, FS_Interval
  <2>2. P \in Surjection(1 .. Len(P), Cores)
    BY <1>6 DEF Surjection, IsList, ToSet, Cores, P
  <2>. QED
    BY <2>1, <2>2, FS_Surjection
<1>9. ToSet(Physical) = {p.cpu : p \in Cores}
  <2>1. /\ IsList(Physical) /\ Len(Physical) = Len(P)
        /\ \A k \in 1 .. Len(P) : Physical[k] = P[k].cpu
    BY PhysicalIs DEF P
  <2>2. Cores = {P[k] : k \in 1 .. Len(P)}
    BY <1>6 DEF Cores, P, ToSet, IsList
  <2>3. ToSet(Physical) = {Physical[k] : k \in 1 .. Len(P)}
    BY <2>1 DEF ToSet, IsList
  <2>. QED
    BY <2>1, <2>2, <2>3
<1>10. ToSet(cpus) = {cpus[i] : i \in DOMAIN cpus}
  BY DEF ToSet
<1>11. \A r \in ToSet(cpus) : \E p \in Cores : SameCore(p, r)
  BY <1>5, <1>7, <1>10
<1>12. \A p, q \in Cores : SameCore(p, q) => p = q
  BY <1>4, <1>7
<1>13. Len(Physical) = Cardinality(Cores)
  <2>. DEFINE f == [i \in I |-> cpus[i]]
  <2>1. IsFiniteSet(I)
    <3>1. IsFiniteSet(1 .. Len(cpus))
      BY <1>1, FS_Interval
    <3>. QED
      BY <1>1, <1>2, <3>1, FS_Subset
  <2>2. f \in [I -> Cores] /\ \A p \in Cores : \E i \in I : f[i] = p
    BY <1>7
  <2>3. \A i, j \in I : f[i] = f[j] => i = j
    <3>1. \A a : SameCore(a, a)
      BY DEF SameCore
    <3>. QED
      BY <1>4, <3>1
  <2>. HIDE DEF f
  <2>4. Cardinality(Cores) = Cardinality(I)
    BY <2>1, <2>2, <2>3, SameNumber
  <2>5. Len(Physical) = Len(P)
    BY PhysicalIs DEF P
  <2>. QED
    BY <1>6, <2>4, <2>5
<1>. QED
  BY <1>2, <1>7, <1>8, <1>9, <1>10, <1>11, <1>12, <1>13

\* A number is the number of one CPU.
LEMMA CpusApart ==
  ASSUME Found
  PROVE  \A a, b \in ToSet(cpus) :
           /\ a \in Known /\ Here(a.cpu) = a /\ NodeOf(a.cpu) = a.node
           /\ a.cpu = b.cpu => a = b
<1>1. IsList(cpus)
  BY ListOf DEF Found
<1>2. ToSet(cpus) = {cpus[i] : i \in 1 .. Len(cpus)}
  BY <1>1 DEF ToSet, IsList
<1>3. \A a \in ToSet(cpus) : a \in Known /\ Here(a.cpu) = a /\ NodeOf(a.cpu) = a.node
  BY <1>2, HereIs
<1>. QED
  BY <1>3

Round(a) == Cardinality({s \in Cores : s.node = a.node /\ s.cpu < a.cpu})
Earlier(a, b) == Round(a) < Round(b) \/ (Round(a) = Round(b) /\ a.node < b.node)

\* The round in which a core is dealt out is that of no other core of its node.
LEMMA RoundsAre ==
  ASSUME Found
  PROVE  /\ \A a \in Cores : Round(a) \in Nat /\ a.node \in Nat /\ a.cpu \in Nat
         /\ \A a, b \in Cores : a.node = b.node /\ a.cpu < b.cpu => Round(a) < Round(b)
         /\ \A a, b \in Cores : a.node = b.node /\ a # b => Round(a) # Round(b)
<1>1. IsFiniteSet(Cores) /\ Cores \subseteq ToSet(cpus)
  BY CoresAre
<1>2. \A a \in Cores : a.node \in Nat /\ a.cpu \in Nat
  BY <1>1, CpusApart DEF Known
<1>. DEFINE S(a) == {s \in Cores : s.node = a.node /\ s.cpu < a.cpu}
<1>3. ASSUME NEW a \in Cores PROVE IsFiniteSet(S(a)) /\ Cardinality(S(a)) \in Nat
  <2>1. IsFiniteSet(S(a))
    BY <1>1, FS_Subset
  <2>. QED
    BY <2>1, FS_CardinalityType
<1>4. ASSUME NEW a \in Cores, NEW b \in Cores, a.node = b.node, a.cpu < b.cpu
      PROVE  Round(a) < Round(b)
  <2>1. S(a) \cup {a} \in SUBSET S(b) /\ a \notin S(a)
    BY <1>2, <1>4
  <2>2. IsFiniteSet(S(a)) /\ Cardinality(S(a)) \in Nat
        /\ IsFiniteSet(S(b)) /\ Cardinality(S(b)) \in Nat
        /\ Round(a) = Cardinality(S(a)) /\ Round(b) = Cardinality(S(b))
    BY <1>3 DEF Round
  <2>. HIDE DEF S
  <2>3. Cardinality(S(a) \cup {a}) = Cardinality(S(a)) + 1
    BY <2>1, <2>2, FS_AddElement
  <2>4. Cardinality(S(a) \cup {a}) <= Cardinality(S(b))
    BY <2>1, <2>2, FS_Subset
  <2>. QED
    BY <2>2, <2>3, <2>4
<1>5. \A a \in Cores : Round(a) \in Nat
  BY <1>3 DEF Round
<1>6. ASSUME NEW a \in Cores, NEW b \in Cores, a.node = b.node, a # b
      PROVE  Round(a) # Round(b)
  <2>1. a.cpu # b.cpu
    BY <1>1, <1>6, CpusApart
  <2>2. a.cpu < b.cpu \/ b.cpu < a.cpu
    BY <1>2, <2>1
  <2>3. Round(a) < Round(b) \/ Round(b) < Round(a)
    BY <1>4, <1>6, <2>2
  <2>. QED
    BY <1>5, <2>3
<1>. QED
  BY <1>2, <1>4, <1>5, <1>6

\* The balanced cores are all cores, in the order of their rounds.
LEMMA BalancedCores ==
  ASSUME Found
  PROVE  LET N == Cardinality(Cores)
             B == NumaBalanced(cpus)
         IN  /\ N \in Nat /\ IsList(Balanced) /\ Len(Balanced) = N
             /\ B \in [1 .. N -> Cores] /\ \A p \in Cores : \E i \in 1 .. N : B[i] = p
             /\ \A i \in 1 .. N : Balanced[i] = B[i].cpu
             /\ \A i, j \in 1 .. N : i < j => Earlier(B[i], B[j])
<1>. DEFINE N == Cardinality(Cores)
            B == NumaBalanced(cpus)
            R == {p \in Cores \X Cores : Earlier(p[1], p[2])}
<1>1. IsFiniteSet(Cores) /\ N \in Nat
  BY CoresAre, FS_CardinalityType
<1>2. \A x, y \in Cores : <<x, y>> \in R <=> Earlier(x, y)
  OBVIOUS
<1>3. B = InOrder(Cores, R)
  <2>. DEFINE round == [r \in Cores |-> Round(r)]
              before(a, b) == round[a] < round[b] \/ (round[a] = round[b] /\ a.node < b.node)
  <2>1. B = InOrder(Cores, {p \in Cores \X Cores : before(p[1], p[2])})
    BY DEF NumaBalanced, Cores, Round
  <2>2. {p \in Cores \X Cores : before(p[1], p[2])} = R
    BY DEF Earlier
  <2>. QED
    BY <2>1, <2>2
<1>. HIDE DEF B, R
<1>4. IsOrder(Cores, R)
  <2>1. \A x \in Cores : Round(x) \in Nat /\ x.node \in Nat
    BY RoundsAre
  <2>2. \A x \in Cores : ~Earlier(x, x)
    BY <2>1 DEF Earlier
  <2>3. \A x, y \in Cores : x # y => Earlier(x, y) \/ Earlier(y, x)
    <3>1. \A x, y \in Cores : x # y => Round(x) # Round(y) \/ x.node # y.node
      BY RoundsAre
    <3>. QED
      BY <2>1, <3>1 DEF Earlier
  <2>4. \A x, y, z \in Cores : Earlier(x, y) /\ Earlier(y, z) => Earlier(x, z)
    BY <2>1 DEF Earlier
  <2>. QED
    BY <1>2, <2>2, <2>3, <2>4 DEF IsOrder
<1>5. /\ B \in [1 .. N -> Cores] /\ B \in Seq(Cores) /\ Len(B) = N
      /\ \A p \in Cores : \E i \in 1 .. N : B[i] = p
      /\ \A i, j \in 1 .. N : i < j => <<B[i], B[j]>> \in R
  BY <1>1, <1>3, <1>4, Listed
<1>6. \A i, j \in 1 .. N : i < j => Earlier(B[i], B[j])
  BY <1>2, <1>5
<1>7. Balanced = [i \in 1 .. N |-> B[i].cpu]
  BY <1>5 DEF Balanced, Numbers, B
<1>8. IsList(Balanced) /\ Len(Balanced) = N
  BY <1>1, <1>7, MakesList
<1>. QED
  BY <1>1, <1>5, <1>6, <1>7, <1>8 DEF B

On(S, k) == {p \in S : p.node = k}

\* The first n of the balanced cores: no node has two more of them than another
\* that has cores left.
LEMMA Dealt ==
  ASSUME Found, NEW D \in SUBSET Cores,
         \A q \in D, p \in Cores \ D : Earlier(q, p),
         NEW m, NEW l, On(D, m) # On(Cores, m)
  PROVE  Cardinality(On(D, l)) <= Cardinality(On(D, m)) + 1
<1>1. IsFiniteSet(Cores) /\ IsFiniteSet(D) /\ IsFiniteSet(On(D, m)) /\ IsFiniteSet(On(D, l))
  <2>1. IsFiniteSet(Cores)
    BY CoresAre
  <2>2. On(D, m) \in SUBSET Cores /\ On(D, l) \in SUBSET Cores
    BY DEF On
  <2>. QED
    BY <2>1, <2>2, FS_Subset
<1>2. \A a \in Cores : Round(a) \in Nat /\ a.node \in Nat /\ a.cpu \in Nat
  BY RoundsAre
<1>3. PICK p \in Cores \ D : p.node = m /\ \A s \in Cores \ D : s.node = m => p.cpu <= s.cpu
  <2>. DEFINE L == {s \in Cores : s.node = m /\ s \notin D}
              T == {s.cpu : s \in L}
  <2>1. L # {}
    BY DEF On
  <2>2. IsFiniteSet(L)
    BY <1>1, FS_Subset
  <2>3. IsFiniteSet(T) /\ T \in SUBSET Int /\ T # {}
    <3>1. [s \in L |-> s.cpu] \in Surjection(L, T)
      BY DEF Surjection
    <3>2. IsFiniteSet(T)
      BY <2>2, <3>1, FS_Surjection
    <3>. QED
      BY <1>2, <2>1, <3>2
  <2>. HIDE DEF T
  <2>4. PICK x \in T : \A y \in T : x <= y
    BY <2>3, LeastOf
  <2>5. PICK p \in L : x = p.cpu
    BY <2>4 DEF T
  <2>6. \A s \in L : s.cpu \in T
    BY DEF T
  <2>. QED
    BY <2>4, <2>5, <2>6
<1>4. Round(p) <= Cardinality(On(D, m))
  <2>. DEFINE F == {s \in Cores : s.node = p.node /\ s.cpu < p.cpu}
  <2>1. F \in SUBSET On(D, m)
    <3>1. ASSUME NEW s \in F PROVE s \in D
      <4>1. s \in Cores /\ s.node = m /\ ~(p.cpu <= s.cpu)
        BY <1>2, <1>3
      <4>. QED
        BY <1>3, <4>1
    <3>. QED
      BY <1>3, <3>1 DEF On
  <2>2. Round(p) = Cardinality(F)
    BY DEF Round
  <2>. HIDE DEF F
  <2>. QED
    BY <1>1, <2>1, <2>2, FS_Subset
<1>5. \A q \in D : Round(q) <= Round(p)
  <2>1. \A q \in D : Earlier(q, p)
    BY <1>3
  <2>. QED
    BY <1>2, <2>1 DEF Earlier
<1>6. Cardinality(On(D, l)) <= Round(p) + 1
  <2>. DEFINE f == [q \in On(D, l) |-> Round(q)]
              Z == 0 .. Round(p)
  <2>1. \A q \in On(D, l) : q \in D /\ q \in Cores /\ q.node = l
    BY DEF On
  <2>2. Round(p) \in Nat
    BY <1>2
  <2>3. f \in [On(D, l) -> Z]
    BY <1>2, <1>5, <2>1, <2>2
  <2>4. \A a, b \in On(D, l) : f[a] = f[b] => a = b
    BY <2>1, RoundsAre
  <2>5. IsFiniteSet(Z) /\ Cardinality(Z) = Round(p) + 1
    BY <2>2, FS_Interval
  <2>. HIDE DEF f, Z
  <2>6. f \in Injection(On(D, l), Z)
    BY <2>3, <2>4 DEF Injection, IsInjective
  <2>. QED
    BY <2>5, <2>6, FS_Injection
<1>7. Cardinality(On(D, l)) \in Nat /\ Cardinality(On(D, m)) \in Nat /\ Round(p) \in Nat
  BY <1>1, <1>2, FS_CardinalityType
<1>. QED
  BY <1>4, <1>6, <1>7

\* The CPUs of a node among some of the cores, by number, and its cores as they are.
LEMMA SharesAre ==
  ASSUME Found, CoresTold, SiblingsTold, SharingTold,
         NEW D \in SUBSET Cores, NEW k
  PROVE  /\ Cardinality({c \in {p.cpu : p \in D} : NodeOf(c) = k}) = Cardinality(On(D, k))
         /\ Cardinality({r.unit : r \in {r \in ToSet(cpus) : r.node = k}})
              = Cardinality(On(Cores, k))
<1>1. IsFiniteSet(Cores) /\ Cores \subseteq ToSet(cpus)
  BY CoresAre
<1>2. On(D, k) \in SUBSET Cores /\ On(Cores, k) \in SUBSET Cores
  BY DEF On
<1>3. IsFiniteSet(On(D, k)) /\ IsFiniteSet(On(Cores, k))
  BY <1>1, <1>2, FS_Subset
<1>4. \A p \in Cores : NodeOf(p.cpu) = p.node
  BY <1>1, CpusApart
<1>5. Cardinality({c \in {p.cpu : p \in D} : NodeOf(c) = k}) = Cardinality(On(D, k))
  <2>. DEFINE f == [p \in On(D, k) |-> p.cpu]
              T == {c \in {p.cpu : p \in D} : NodeOf(c) = k}
  <2>1. \A p \in On(D, k) : p.cpu \in T
    BY <1>4 DEF On
  <2>2. \A c \in T : \E p \in On(D, k) : c = p.cpu
    BY <1>4 DEF On
  <2>3. \A p, q \in On(D, k) : p.cpu = q.cpu => p = q
    BY <1>1, <1>2, CpusApart
  <2>. HIDE DEF T
  <2>4. f \in [On(D, k) -> T] /\ \A c \in T : \E p \in On(D, k) : f[p] = c
    BY <2>1, <2>2
  <2>5. \A p, q \in On(D, k) : f[p] = f[q] => p = q
    BY <2>3
  <2>. HIDE DEF f
  <2>. QED
    BY <1>3, <2>4, <2>5, SameNumber DEF T
<1>6. Cardinality({r.unit : r \in {r \in ToSet(cpus) : r.node = k}}) = Cardinality(On(Cores, k))
  <2>. DEFINE f == [p \in On(Cores, k) |-> p.unit]
              T == {r.unit : r \in {r \in ToSet(cpus) : r.node = k}}
  <2>1. \A p \in On(Cores, k) : p \in Cores /\ p \in ToSet(cpus) /\ p.node = k
    BY <1>1 DEF On
  <2>2. ASSUME NEW u \in T PROVE \E p \in On(Cores, k) : p.unit = u
    <3>1. PICK r \in ToSet(cpus) : r.node = k /\ r.unit = u
      OBVIOUS
    <3>2. PICK p \in Cores : SameCore(p, r)
      BY CoresAre
    <3>3. p.node = k /\ p.unit = u
      BY <1>1, <3>1, <3>2 DEF SharingTold, CoresTold
    <3>. QED
      BY <3>3 DEF On
  <2>3. \A p, q \in On(Cores, k) : p.unit = q.unit => p = q
    BY <2>1, CoresAre DEF SiblingsTold
  <2>4. \A p \in On(Cores, k) : p.unit \in T
    BY <2>1
  <2>. HIDE DEF T
  <2>5. f \in [On(Cores, k) -> T] /\ \A u \in T : \E p \in On(Cores, k) : f[p] = u
    BY <2>2, <2>4
  <2>6. \A p, q \in On(Cores, k) : f[p] = f[q] => p = q
    BY <2>3
  <2>. HIDE DEF f
  <2>. QED
    BY <1>3, <2>5, <2>6, SameNumber DEF T
<1>. QED
  BY <1>5, <1>6

\* The first n of a list.
LEMMA PrefixIs ==
  ASSUME NEW s, IsList(s), NEW n \in 0 .. Len(s)
  PROVE  LET t == SubSeq(s, 1, n)
         IN  Len(t) = n /\ ToSet(t) = {s[i] : i \in 1 .. n} /\ ToSet(t) \subseteq ToSet(s)
<1>. DEFINE E == ToSet(s)
            t == SubSeq(s, 1, n)
<1>1. s \in Seq(E) /\ Len(s) \in Nat /\ DOMAIN s = 1 .. Len(s)
  BY DEF IsList
<1>2. E = {s[i] : i \in 1 .. Len(s)}
  BY <1>1 DEF ToSet
<1>. HIDE DEF E
<1>3. t = [i \in 1 .. n |-> s[i]] /\ Len(t) = n
  BY <1>1
<1>. HIDE DEF t
<1>4. DOMAIN t = 1 .. n /\ \A i \in 1 .. n : t[i] = s[i]
  BY <1>3
<1>5. ToSet(t) = {s[i] : i \in 1 .. n}
  BY <1>4 DEF ToSet
<1>6. \A i \in 1 .. n : i \in 1 .. Len(s)
  BY <1>1
<1>. QED
  BY <1>2, <1>3, <1>5, <1>6 DEF t, E

\* What a point of n threads runs on: n cores, dealt out evenly, all of them in
\* the end.
LEMMA FirstCores ==
  ASSUME Found, NEW n \in 1 .. Len(Balanced)
  PROVE  LET C == ToSet(SubSeq(Balanced, 1, n))
         IN  /\ Len(SubSeq(Balanced, 1, n)) = n /\ Cardinality(C) = n
             /\ C \subseteq ToSet(Physical) /\ (n = Len(Balanced) => C = ToSet(Physical))
             /\ \E D \in SUBSET Cores : /\ C = {p.cpu : p \in D}
                                        /\ \A q \in D, p \in Cores \ D : Earlier(q, p)
<1>. DEFINE N == Cardinality(Cores)
            B == NumaBalanced(cpus)
            C == ToSet(SubSeq(Balanced, 1, n))
            D == {B[i] : i \in 1 .. n}
<1>1. /\ N \in Nat /\ IsList(Balanced) /\ Len(Balanced) = N
      /\ B \in [1 .. N -> Cores] /\ \A p \in Cores : \E i \in 1 .. N : B[i] = p
      /\ \A i \in 1 .. N : Balanced[i] = B[i].cpu
      /\ \A i, j \in 1 .. N : i < j => Earlier(B[i], B[j])
  BY BalancedCores
<1>. HIDE DEF N, B
<1>2. n \in 1 .. N /\ n \in 0 .. Len(Balanced) /\ \A i \in 1 .. n : i \in 1 .. N
  BY <1>1
<1>3. Len(SubSeq(Balanced, 1, n)) = n /\ C = {Balanced[i] : i \in 1 .. n}
  BY <1>1, <1>2, PrefixIs
<1>. HIDE DEF C
<1>4. C = {B[i].cpu : i \in 1 .. n}
  BY <1>1, <1>2, <1>3
<1>5. D \in SUBSET Cores /\ C = {p.cpu : p \in D}
  BY <1>1, <1>2, <1>4
<1>6. ASSUME NEW q \in D, NEW p \in Cores \ D PROVE Earlier(q, p)
  <2>1. PICK i \in 1 .. n : q = B[i]
    OBVIOUS
  <2>2. PICK j \in 1 .. N : p = B[j]
    BY <1>1
  <2>3. j \notin 1 .. n
    BY <1>6, <2>2
  <2>4. i < j /\ i \in 1 .. N
    BY <1>1, <1>2, <2>1, <2>2, <2>3
  <2>. QED
    BY <1>1, <2>1, <2>2, <2>4
<1>7. ToSet(Physical) = {p.cpu : p \in Cores}
  BY CoresAre
<1>8. C \subseteq ToSet(Physical)
  BY <1>5, <1>7
<1>9. ASSUME n = Len(Balanced) PROVE C = ToSet(Physical)
  <2>1. D = Cores
    BY <1>1, <1>5, <1>9
  <2>. QED
    BY <1>5, <1>7, <2>1
<1>10. Cardinality(C) = n
  <2>. DEFINE f == [i \in 1 .. n |-> B[i].cpu]
  <2>1. \A x \in Cores : ~Earlier(x, x)
    BY RoundsAre DEF Earlier
  <2>2. \A p, q \in Cores : p.cpu = q.cpu => p = q
    BY CoresAre, CpusApart
  <2>3. ASSUME NEW i \in 1 .. n, NEW j \in 1 .. n, i < j PROVE B[i].cpu # B[j].cpu
    <3>1. Earlier(B[i], B[j]) /\ B[i] \in Cores /\ B[j] \in Cores
      BY <1>1, <1>2, <2>3
    <3>. QED
      BY <2>1, <2>2, <3>1
  <2>4. \A i, j \in 1 .. n : i < j \/ j < i \/ i = j
    OBVIOUS
  <2>5. \A i, j \in 1 .. n : f[i] = f[j] => i = j
    BY <2>3, <2>4
  <2>6. f \in [1 .. n -> C] /\ \A c \in C : \E i \in 1 .. n : f[i] = c
    BY <1>4
  <2>7. IsFiniteSet(1 .. n) /\ Cardinality(1 .. n) = n
    BY FS_Interval
  <2>. HIDE DEF f
  <2>. QED
    BY <2>5, <2>6, <2>7, SameNumber
<1>. HIDE DEF D
<1>. QED
  BY <1>3, <1>5, <1>6, <1>8, <1>9, <1>10 DEF C

--------------------------------------------------------------------------------
(* Every point of every probe puts its threads on the cores its label says. *)

OnCores(pt) ==
  /\ pt.label \in {"none", "physical-cores"} => Threads(pt) \subseteq ToSet(Physical)
  /\ pt.label = "physical-cores" =>
       pt.main = None /\ \E n \in 1 .. Len(Balanced) : pt.workers = SubSeq(Balanced, 1, n)
  /\ pt.label = "smt-siblings" =>
       /\ pt.main = None
       /\ \E a, b \in ToSet(cpus) : SameCore(a, b) /\ pt.workers = <<a.cpu, b.cpu>>

AllOnCores(parts) == \A i \in DOMAIN parts : \A q \in DOMAIN parts[i].points : OnCores(parts[i].points[q])

LEMMA OneOnCores ==
  ASSUME NEW runs, NEW pin, NEW fails, NEW buffer, NEW pts, \A k \in DOMAIN pts : OnCores(pts[k])
  PROVE  AllOnCores(<<Part(runs, pin, buffer, fails, pts)>>)
<1>. DEFINE q == Part(runs, pin, buffer, fails, pts)
<1>1. q.points = pts
  BY DEF Part
<1>2. DOMAIN <<q>> = {1} /\ <<q>>[1] = q
  OBVIOUS
<1>. HIDE DEF q
<1>. QED
  BY <1>1, <1>2 DEF AllOnCores, q

\* The first core is the first CPU's.
LEMMA PrimaryIsCore ==
  ASSUME Found
  PROVE  Primary \in ToSet(Physical)
<1>1. cpus[1] \in Cores /\ ToSet(Physical) = {p.cpu : p \in Cores}
  BY CoresAre
<1>. QED
  BY <1>1 DEF Primary

LEMMA SoloOnCores ==
  ASSUME Found
  PROVE  /\ OnCores(Solo) /\ OnCores(Local)
         /\ \A k \in DOMAIN Times(Solo) : OnCores(Times(Solo)[k])
         /\ \A k \in DOMAIN Times(Local) : OnCores(Times(Local)[k])
<1>1. /\ Solo.workers = <<>> /\ Solo.main = Primary /\ Solo.label = "none"
      /\ Local.workers = <<>> /\ Local.main = Primary /\ Local.label = "none"
  BY DEF Solo, Local, ByMain, Blank
<1>2. ToSet(<<>>) = {}
  BY DEF ToSet
<1>3. Threads(Solo) \subseteq {Primary} /\ Threads(Local) \subseteq {Primary}
  BY <1>1, <1>2 DEF Threads
<1>4. OnCores(Solo) /\ OnCores(Local)
  BY <1>1, <1>3, PrimaryIsCore DEF OnCores
<1>. QED
  BY <1>4, SoloPoints

\* The cores of a node, and one of the balanced ones.
LEMMA PlacesAre ==
  ASSUME Found
  PROVE  /\ IsList(Balanced) /\ ToSet(Balanced) = ToSet(Physical) /\ Len(Balanced) = Len(Physical)
         /\ Balanced[1] \in ToSet(Physical)
         /\ IsList(Physical) /\ Len(Physical) > 0
         /\ \A k \in 1 .. Len(Physical) : Physical[k] \in ToSet(Physical)
         /\ \A n \in Nodes : /\ IsList(OnNode(n)) /\ Len(OnNode(n)) > 0
                             /\ ToSet(OnNode(n)) \subseteq ToSet(Physical)
                             /\ FrontOf(n) \in ToSet(Physical)
<1>1. IsList(Physical) /\ Len(Physical) > 0
  BY PhysicalIs
<1>2. \A k \in 1 .. Len(Physical) : Physical[k] \in ToSet(Physical)
  BY <1>1 DEF ToSet, IsList
<1>3. ASSUME NEW n \in Nodes
      PROVE  /\ IsList(OnNode(n)) /\ Len(OnNode(n)) > 0
             /\ ToSet(OnNode(n)) \subseteq ToSet(Physical)
             /\ FrontOf(n) \in ToSet(Physical)
  <2>1. /\ IsList(OnNode(n)) /\ Len(OnNode(n)) > 0
        /\ \A k \in 1 .. Len(OnNode(n)) : \E i \in 1 .. Len(Physical) : OnNode(n)[k] = Physical[i]
    BY NodesAre
  <2>2. ToSet(OnNode(n)) = {OnNode(n)[k] : k \in 1 .. Len(OnNode(n))}
    BY <2>1 DEF ToSet, IsList
  <2>3. 1 \in 1 .. Len(OnNode(n))
    BY <2>1 DEF IsList
  <2>. QED
    BY <1>2, <2>1, <2>2, <2>3 DEF FrontOf
<1>. DEFINE N == Cardinality(Cores)
            B == NumaBalanced(cpus)
<1>4. /\ N \in Nat /\ IsList(Balanced) /\ Len(Balanced) = N
      /\ B \in [1 .. N -> Cores] /\ \A p \in Cores : \E i \in 1 .. N : B[i] = p
      /\ \A i \in 1 .. N : Balanced[i] = B[i].cpu
  BY BalancedCores
<1>5. ToSet(Physical) = {p.cpu : p \in Cores} /\ Len(Physical) = N
  BY CoresAre
<1>. HIDE DEF N, B
<1>6. ToSet(Balanced) = {Balanced[i] : i \in 1 .. N}
  BY <1>4 DEF ToSet, IsList
<1>7. ToSet(Balanced) = ToSet(Physical)
  BY <1>4, <1>5, <1>6
<1>8. Balanced[1] \in ToSet(Physical)
  <2>1. 1 \in 1 .. N
    BY <1>1, <1>4, <1>5
  <2>. QED
    BY <1>6, <1>7, <2>1
<1>. QED
  BY <1>1, <1>2, <1>3, <1>4, <1>5, <1>7, <1>8

LEMMA LabelledIs ==
  ASSUME NEW cs, NEW label
  PROVE  LET pt == Labelled(ByWorkers(cs), label)
         IN  pt.main = None /\ pt.workers = cs /\ pt.label = label
BY DEF ByWorkers, Labelled, Blank

LEMMA ScalingOnCores ==
  ASSUME Found, NEW m \in Nat, m <= Len(Physical)
  PROVE  \A k \in DOMAIN Scaling(m) : OnCores(Scaling(m)[k])
<1>. DEFINE pt(n) == Labelled(ByWorkers(SubSeq(Balanced, 1, n)), "physical-cores")
<1>1. \A k \in DOMAIN Scaling(m) : \E n \in 1 .. m : Scaling(m)[k] = pt(n)
  BY ScalesUp
<1>2. \A n : pt(n).main = None /\ pt(n).workers = SubSeq(Balanced, 1, n)
               /\ pt(n).label = "physical-cores"
  BY LabelledIs
<1>. HIDE DEF pt
<1>3. ASSUME NEW n \in 1 .. m PROVE OnCores(pt(n))
  <2>1. n \in 1 .. Len(Balanced)
    BY PlacesAre DEF IsList
  <2>2. Threads(pt(n)) \subseteq ToSet(Physical)
    BY <1>2, <2>1, FirstCores DEF Threads
  <2>. QED
    BY <1>2, <2>1, <2>2 DEF OnCores
<1>. QED
  BY <1>1, <1>3

LEMMA RelationsAre ==
  ASSUME NEW a, NEW b
  PROVE  CpuRelation(a, b) \in {"smt-sibling", "same-llc-different-core", "cross-llc-same-numa",
                                "cross-numa-same-socket", "cross-socket"}
<1>1. CASE SameCore(a, b)
  BY <1>1 DEF CpuRelation
<1>2. CASE ~SameCore(a, b) /\ a.node = b.node
  BY <1>2 DEF CpuRelation
<1>3. CASE ~SameCore(a, b) /\ a.node # b.node
  BY <1>3 DEF CpuRelation
<1>. QED
  BY <1>1, <1>2, <1>3

\* Points of which no more is known than that their threads are on the cores, and
\* those that say how their CPUs are to each other.
LEMMA PlainOnCores ==
  ASSUME NEW pt, pt.label = "none", Threads(pt) \subseteq ToSet(Physical)
  PROVE  OnCores(pt)
BY DEF OnCores

LEMMA RelatedOnCores ==
  ASSUME NEW pt, NEW a, NEW b, pt.label = CpuRelation(a, b)
  PROVE  OnCores(pt)
<1>1. pt.label \notin {"none", "physical-cores", "smt-siblings"}
  BY RelationsAre
<1>. QED
  BY <1>1 DEF OnCores

LEMMA BandwidthOnCores ==
  ASSUME Found
  PROVE  AllOnCores(MemoryBandwidthParts)
<1>. DEFINE m == IF Full THEN AtMost(Len(Physical), 8) ELSE 1
<1>1. m \in Nat /\ m <= Len(Physical)
  <2>1. Len(Physical) \in Nat /\ 1 <= Len(Physical)
    BY PlacesAre DEF IsList
  <2>2. AtMost(Len(Physical), 8) \in Nat /\ AtMost(Len(Physical), 8) <= Len(Physical)
    BY <2>1, AtMostIs
  <2>. QED
    BY <2>1, <2>2
<1>2. MemoryBandwidthParts = <<Part(TRUE, None, "none", {"next"}, Scaling(m))>>
  BY DEF MemoryBandwidthParts
<1>. HIDE DEF m
<1>. QED
  BY <1>1, <1>2, ScalingOnCores, OneOnCores

LEMMA CacheBandwidthOnCores ==
  ASSUME Found
  PROVE  AllOnCores(CacheBandwidthParts)
<1>. DEFINE pt == ByWorkers(<<Primary>>)
<1>1. pt.label = "none" /\ pt.main = None /\ pt.workers = <<Primary>>
  BY DEF ByWorkers, Blank
<1>2. ToSet(<<Primary>>) = {Primary}
  BY DEF ToSet
<1>3. CacheBandwidthParts = <<Part(Full, None, "none", {"next"}, Times(pt))>>
  BY DEF CacheBandwidthParts
<1>. HIDE DEF pt
<1>4. Threads(pt) \subseteq ToSet(Physical)
  BY <1>1, <1>2, PrimaryIsCore DEF Threads
<1>5. OnCores(pt)
  BY <1>1, <1>4, PlainOnCores
<1>6. \A k \in DOMAIN Times(pt) : Times(pt)[k] = pt
  BY SoloPoints
<1>. QED
  BY <1>3, <1>5, <1>6, OneOnCores

LEMMA FalseSharingOnCores ==
  ASSUME Found
  PROVE  AllOnCores(FalseSharingParts)
<1>. DEFINE pt == ByWorkers(<<Physical[1], Physical[2]>>)
            pts == IF Len(Physical) = 1 THEN <<>> ELSE Times(pt)
            runs == Full /\ Len(Physical) > 1
<1>1. FalseSharingParts = <<Part(runs, None, "none", {"throw"}, pts)>>
  BY DEF FalseSharingParts
<1>2. pt.label = "none" /\ pt.main = None /\ pt.workers = <<Physical[1], Physical[2]>>
  BY DEF ByWorkers, Blank
<1>3. ToSet(<<Physical[1], Physical[2]>>) = {Physical[1], Physical[2]}
  BY DEF ToSet
<1>4. \A k \in DOMAIN Times(pt) : Times(pt)[k] = pt
  BY SoloPoints
<1>. HIDE DEF pt, runs
<1>5. ASSUME Len(Physical) # 1 PROVE OnCores(pt)
  <2>1. 1 \in 1 .. Len(Physical) /\ 2 \in 1 .. Len(Physical)
    BY <1>5, PlacesAre DEF IsList
  <2>2. Physical[1] \in ToSet(Physical) /\ Physical[2] \in ToSet(Physical)
    BY <2>1, PlacesAre
  <2>3. Threads(pt) \subseteq ToSet(Physical)
    BY <1>2, <1>3, <2>2 DEF Threads
  <2>. QED
    BY <1>2, <2>3, PlainOnCores
<1>6. \A k \in DOMAIN pts : OnCores(pts[k])
  BY <1>4, <1>5
<1>. HIDE DEF pts
<1>. QED
  BY <1>1, <1>6, OneOnCores

LEMMA LoadedLatencyOnCores ==
  ASSUME Found
  PROVE  AllOnCores(LoadedLatencyParts)
<1>. DEFINE others == AtPlaces(Balanced, {i \in DOMAIN Balanced : Balanced[i] # Balanced[1]})
            more == ThreadCounts(AtMost(Len(others), 4))
            counts == IF others = <<>> THEN <<0>> ELSE <<0>> \o more
            loaded(n) == [ByMain(Balanced[1]) EXCEPT !.pin = Balanced[1],
                                                     !.workers = SubSeq(others, 1, n)]
            pts == [k \in 1 .. Len(counts) |-> loaded(counts[k])]
<1>1. IsList(others) /\ ToSet(others) \subseteq ToSet(Physical)
  <2>. DEFINE I == {i \in DOMAIN Balanced : Balanced[i] # Balanced[1]}
              o == Ascending(I)
  <2>1. IsList(Balanced) /\ ToSet(Balanced) = ToSet(Physical) /\ I \in SUBSET DOMAIN Balanced
    BY PlacesAre
  <2>. HIDE DEF I
  <2>2. /\ IsList(others) /\ Len(others) = Cardinality(I) /\ o \in [1 .. Cardinality(I) -> I]
        /\ \A k \in 1 .. Cardinality(I) : others[k] = Balanced[o[k]]
    BY <2>1, Taken DEF I
  <2>. HIDE DEF others, o
  <2>3. ToSet(others) = {others[k] : k \in 1 .. Cardinality(I)}
    BY <2>2 DEF ToSet, IsList
  <2>4. \A i \in I : Balanced[i] \in ToSet(Balanced)
    BY <2>1 DEF ToSet
  <2>. QED
    BY <2>1, <2>2, <2>3, <2>4
<1>2. \A k \in 1 .. Len(counts) : counts[k] \in 0 .. Len(others)
  <2>1. Len(others) \in Nat
    BY <1>1 DEF IsList
  <2>. HIDE DEF others
  <2>2. AtMost(Len(others), 4) \in Nat /\ AtMost(Len(others), 4) <= Len(others)
    BY <2>1, AtMostIs
  <2>3. IsList(more) /\ \A i \in 1 .. Len(more) : more[i] \in 1 .. AtMost(Len(others), 4)
    BY <2>2, CountsUp
  <2>4. <<0>> = [i \in 1 .. 1 |-> <<0>>[i]] /\ Len(<<0>>) = 1 /\ <<0>>[1] = 0
    OBVIOUS
  <2>5. IsList(<<0>>)
    BY <2>4, MakesList
  <2>. HIDE DEF more
  <2>6. \A k \in 1 .. Len(<<0>> \o more) :
          \/ \E i \in 1 .. Len(<<0>>) : (<<0>> \o more)[k] = <<0>>[i]
          \/ \E i \in 1 .. Len(more) : (<<0>> \o more)[k] = more[i]
    BY <2>3, <2>5, Joined
  <2>7. \A i \in 1 .. Len(<<0>>) : <<0>>[i] \in 0 .. Len(others)
    BY <2>1, <2>4
  <2>8. \A i \in 1 .. Len(more) : more[i] \in 0 .. Len(others)
    BY <2>1, <2>2, <2>3
  <2>9. \A k \in 1 .. Len(<<0>> \o more) : (<<0>> \o more)[k] \in 0 .. Len(others)
    BY <2>6, <2>7, <2>8
  <2>. QED
    BY <2>7, <2>9
<1>3. \A n : loaded(n).main = Balanced[1] /\ loaded(n).workers = SubSeq(others, 1, n)
               /\ loaded(n).label = "none"
  BY DEF ByMain, Blank
<1>4. LoadedLatencyParts = <<Part(Full, None, "first", {"next"}, pts)>>
  BY DEF LoadedLatencyParts
<1>. HIDE DEF counts, loaded, others
<1>5. ASSUME NEW n \in 0 .. Len(others) PROVE OnCores(loaded(n))
  <2>1. ToSet(SubSeq(others, 1, n)) \subseteq ToSet(others)
    BY <1>1, PrefixIs
  <2>2. Threads(loaded(n)) \subseteq ToSet(Physical)
    BY <1>1, <1>3, <2>1, PlacesAre DEF Threads
  <2>. QED
    BY <1>3, <2>2, PlainOnCores
<1>6. \A k \in DOMAIN pts : OnCores(pts[k])
  BY <1>2, <1>5
<1>. HIDE DEF pts
<1>. QED
  BY <1>4, <1>6, OneOnCores

\* Couples of the numbers.
LEMMA NumbersAre ==
  ASSUME Found
  PROVE  /\ IsList(Numbers(cpus)) /\ PairsOf(Numbers(cpus)) = PairsOf(cpus)
         /\ Len(Numbers(cpus)) = Len(cpus)
         /\ \A i \in 1 .. Len(cpus) : Numbers(cpus)[i] = cpus[i].cpu
         /\ SmtPair(cpus) \subseteq PairsOf(cpus) /\ Representatives(cpus) \subseteq PairsOf(cpus)
<1>. DEFINE s == Numbers(cpus)
<1>1. IsList(cpus)
  BY ListOf DEF Found
<1>2. s = [i \in 1 .. Len(cpus) |-> cpus[i].cpu]
  BY DEF Numbers
<1>3. IsList(s) /\ DOMAIN s = DOMAIN cpus /\ Len(s) = Len(cpus)
        /\ \A i \in 1 .. Len(cpus) : s[i] = cpus[i].cpu
  BY <1>1, <1>2, MakesList DEF IsList
<1>. HIDE DEF s
<1>4. PairsOf(s) = PairsOf(cpus)
  BY <1>3 DEF PairsOf
<1>5. SmtPair(cpus) \subseteq PairsOf(cpus) /\ Representatives(cpus) \subseteq PairsOf(cpus)
  BY DEF SmtPair, Representatives
<1>. QED
  BY <1>3, <1>4, <1>5 DEF s

LEMMA ComputeScalingOnCores ==
  ASSUME Found
  PROVE  AllOnCores(ComputeScalingParts)
<1>. DEFINE s == Numbers(cpus)
            smt == Couples(s, SmtPair(cpus))
            pair(w) == Labelled(ByWorkers(w), "smt-siblings")
            last == [k \in 1 .. Len(smt) |-> pair(smt[k])]
            m == AtMost(Len(Physical), 4)
            pts == Scaling(m) \o last
<1>1. m \in Nat /\ m <= Len(Physical)
  BY PhysicalIs, AtMostIs DEF IsList
<1>2. /\ IsList(smt)
      /\ \A k \in 1 .. Len(smt) : \E p \in SmtPair(cpus) : smt[k] = <<s[p[1]], s[p[2]]>>
  BY NumbersAre, Coupled
<1>3. ComputeScalingParts = <<Part(Full, None, "none", {"throw"}, pts)>>
  BY DEF ComputeScalingParts, s
<1>4. \A w : pair(w).main = None /\ pair(w).workers = w /\ pair(w).label = "smt-siblings"
  BY LabelledIs
<1>5. IsList(last) /\ Len(last) = Len(smt) /\ \A k \in 1 .. Len(smt) : last[k] = pair(smt[k])
  <2>1. last = [k \in 1 .. Len(smt) |-> last[k]] /\ \A k \in 1 .. Len(smt) : last[k] = pair(smt[k])
    OBVIOUS
  <2>2. Len(smt) \in Nat
    BY <1>2 DEF IsList
  <2>. QED
    BY <2>1, <2>2, MakesList
<1>. HIDE DEF smt, pair, last, m
<1>6. ASSUME NEW k \in 1 .. Len(smt) PROVE OnCores(last[k])
  <2>1. PICK p \in SmtPair(cpus) : smt[k] = <<s[p[1]], s[p[2]]>>
    BY <1>2
  <2>2. p[1] \in 1 .. Len(cpus) /\ p[2] \in 1 .. Len(cpus)
    <3>1. p \in PairsOf(cpus) /\ IsList(cpus)
      BY NumbersAre, ListOf DEF Found
    <3>. QED
      BY <3>1 DEF PairsOf, IsList
  <2>3. SameCore(cpus[p[1]], cpus[p[2]])
    <3>1. CpuRelation(cpus[p[1]], cpus[p[2]]) = "smt-sibling"
      BY DEF SmtPair, RelationOf
    <3>2. \A a, b : CpuRelation(a, b) = "smt-sibling" => SameCore(a, b)
      <4>. SUFFICES ASSUME NEW a, NEW b, ~SameCore(a, b) PROVE CpuRelation(a, b) # "smt-sibling"
        OBVIOUS
      <4>1. CASE a.node = b.node
        BY <4>1 DEF CpuRelation
      <4>2. CASE a.node # b.node
        BY <4>2 DEF CpuRelation
      <4>. QED
        BY <4>1, <4>2
    <3>. QED
      BY <3>1, <3>2
  <2>4. cpus[p[1]] \in ToSet(cpus) /\ cpus[p[2]] \in ToSet(cpus)
    BY <2>2 DEF ToSet, Found
  <2>5. smt[k] = <<cpus[p[1]].cpu, cpus[p[2]].cpu>>
    BY <2>1, <2>2, NumbersAre
  <2>6. last[k].main = None /\ last[k].workers = smt[k] /\ last[k].label = "smt-siblings"
    BY <1>4, <1>5
  <2>. QED
    BY <2>3, <2>4, <2>5, <2>6 DEF OnCores
<1>7. IsList(Scaling(m)) /\ \A k \in DOMAIN Scaling(m) : OnCores(Scaling(m)[k])
  BY <1>1, ScalingWorkers, ScalingOnCores
<1>8. \A k \in DOMAIN pts : OnCores(pts[k])
  <2>1. IsList(pts)
        /\ \A k \in 1 .. Len(pts) :
              \/ \E i \in 1 .. Len(Scaling(m)) : pts[k] = Scaling(m)[i]
              \/ \E i \in 1 .. Len(last) : pts[k] = last[i]
    <3>1. IsList(Scaling(m)) /\ IsList(last)
      BY <1>5, <1>7
    <3>. QED
      BY <3>1, Joined
  <2>. HIDE DEF pts
  <2>. QED
    BY <1>5, <1>6, <1>7, <2>1 DEF IsList
<1>. HIDE DEF pts
<1>. QED
  BY <1>3, <1>8, OneOnCores

LEMMA PagePolicyOnCores ==
  ASSUME Found
  PROVE  AllOnCores(PagePolicyParts)
<1>1. DOMAIN PagePolicyParts = {1, 2} /\ \A i \in {1, 2} : PagePolicyParts[i].points = <<Local>>
  BY DEF PagePolicyParts, Part
<1>2. \A k \in DOMAIN <<Local>> : <<Local>>[k] = Local
  OBVIOUS
<1>. QED
  BY <1>1, <1>2, SoloOnCores DEF AllOnCores

LEMMA BranchStructuresOnCores ==
  ASSUME Found
  PROVE  AllOnCores(BranchStructuresParts)
<1>1. /\ DOMAIN BranchStructuresParts = 1 .. 4
      /\ \A i \in 1 .. 4 : BranchStructuresParts[i].points = Times(Solo)
  BY DEF BranchStructuresParts, Part
<1>. QED
  BY <1>1, SoloOnCores DEF AllOnCores

LEMMA OsOverheadsOnCores ==
  ASSUME Found
  PROVE  AllOnCores(OsOverheadsParts)
<1>. DEFINE handoff == Labelled([Solo EXCEPT !.pin = Primary, !.workers = <<cpus[2].cpu>>],
                                CpuRelation(cpus[1], cpus[2]))
            last == IF Len(cpus) = 1 THEN <<>> ELSE <<handoff>>
            parts == OsOverheadsParts
<1>1. /\ DOMAIN parts = {1, 2, 3}
      /\ parts[1].points = <<Solo>> /\ parts[2].points = <<Local>> /\ parts[3].points = last
  BY DEF OsOverheadsParts, Part
<1>2. handoff.label = CpuRelation(cpus[1], cpus[2])
  BY DEF Solo, ByMain, Blank, Labelled
<1>3. \A pt : \A k \in DOMAIN <<pt>> : <<pt>>[k] = pt
  OBVIOUS
<1>. HIDE DEF handoff, parts
<1>4. OnCores(handoff)
  BY <1>2, RelatedOnCores
<1>5. \A k \in DOMAIN last : OnCores(last[k])
  BY <1>3, <1>4
<1>. HIDE DEF last
<1>. QED
  BY <1>1, <1>3, <1>5, SoloOnCores DEF AllOnCores, parts

LEMMA NumaOnCores ==
  ASSUME Found
  PROVE  AllOnCores(NumaParts)
<1>. DEFINE c == Cardinality(Nodes)
<1>1. c \in Nat /\ \A i \in 1 .. c : NodeAt(i) \in Nodes
  BY NodesAre
<1>2. DOMAIN NumaParts = 1 .. c /\ \A i \in 1 .. c : NumaParts[i].points = NumaPoints(NodeAt(i))
  BY DEF NumaParts, Part
<1>3. ASSUME NEW n \in Nodes, NEW k \in DOMAIN NumaPoints(n) PROVE OnCores(NumaPoints(n)[k])
  <2>. DEFINE d == NodeAt((k + 1) \div 2)
              limit == AtMost(Len(OnNode(d)), 4)
              readers == SubSeq(OnNode(d), 1, limit)
              chase == [ByMain(FrontOf(d)) EXCEPT !.fill = FrontOf(n), !.pin = FrontOf(d),
                                                  !.memory = n]
              read == [ByWorkers(readers) EXCEPT !.pin = FrontOf(n), !.memory = n]
  <2>1. k \in 1 .. 2 * c /\ NumaPoints(n)[k] = IF k % 2 = 1 THEN chase ELSE read
    BY DEF NumaPoints
  <2>2. d \in Nodes
    <3>1. (k + 1) \div 2 \in 1 .. c
      <4>. HIDE DEF c
      <4>. QED
        BY <1>1, <2>1
    <3>. QED
      BY <1>1, <3>1
  <2>. HIDE DEF d
  <2>3. /\ IsList(OnNode(d)) /\ Len(OnNode(d)) \in Nat
        /\ ToSet(OnNode(d)) \subseteq ToSet(Physical) /\ FrontOf(d) \in ToSet(Physical)
    BY <2>2, PlacesAre DEF IsList
  <2>4. limit \in 0 .. Len(OnNode(d))
    <3>1. limit \in Nat /\ limit <= Len(OnNode(d))
      BY <2>3, AtMostIs
    <3>. HIDE DEF limit
    <3>. QED
      BY <2>3, <3>1
  <2>. HIDE DEF limit
  <2>5. ToSet(readers) \subseteq ToSet(Physical)
    BY <2>3, <2>4, PrefixIs
  <2>6. chase.label = "none" /\ chase.main = FrontOf(d) /\ chase.workers = <<>>
    BY DEF ByMain, Blank
  <2>7. read.label = "none" /\ read.main = None /\ read.workers = readers
    BY DEF ByWorkers, Blank
  <2>8. ToSet(<<>>) = {}
    BY DEF ToSet
  <2>. HIDE DEF readers, chase, read
  <2>9. OnCores(chase) /\ OnCores(read)
    BY <2>3, <2>5, <2>6, <2>7, <2>8, PlainOnCores DEF Threads
  <2>. QED
    BY <2>1, <2>9
<1>. QED
  BY <1>1, <1>2, <1>3 DEF AllOnCores

--------------------------------------------------------------------------------
(* What the run needs to know of its plan. *)

\* The last count is the maximum.
LEMMA CountsToMaximum ==
  ASSUME NEW m \in Nat \ {0}
  PROVE  LET s == ThreadCounts(m) IN IsList(s) /\ Len(s) > 0 /\ s[Len(s)] = m
<1>. DEFINE S == {n \in 1 .. m : n = m \/ \E k \in 0 .. n : n = 2 ^ k}
            s == ThreadCounts(m)
            n == Cardinality(S)
<1>1. IsFiniteSet(1 .. m)
  BY FS_Interval
<1>2. IsFiniteSet(S) /\ S \subseteq Int /\ m \in S /\ \A x \in S : x <= m
  BY <1>1, FS_Subset
<1>3. s = Ascending(S)
  BY DEF ThreadCounts
<1>. HIDE DEF S, s
<1>4. /\ n \in Nat /\ s \in [1 .. n -> S] /\ s \in Seq(S) /\ Len(s) = n
      /\ \A x \in S : \E i \in 1 .. n : s[i] = x
      /\ \A i, j \in 1 .. n : i < j => s[i] < s[j]
  BY <1>2, <1>3, Upward
<1>5. PICK i \in 1 .. n : s[i] = m
  BY <1>2, <1>4
<1>. HIDE DEF n
<1>6. i = n
  <2>1. n \in 1 .. n /\ s[n] <= m /\ s[n] \in Int
    <3>1. n \in 1 .. n
      BY <1>4, <1>5
    <3>2. s[n] \in S
      BY <1>4, <3>1
    <3>. QED
      BY <1>2, <3>1, <3>2
  <2>2. i < n => s[i] < s[n]
    BY <1>4, <2>1
  <2>. QED
    BY <1>5, <2>1, <2>2
<1>7. IsList(s)
  BY <1>4, ListOf
<1>. QED
  BY <1>4, <1>5, <1>6, <1>7 DEF s

\* The full sweep ends with a thread on every core.
LEMMA SweepEnds ==
  ASSUME Found, command.profile \in {"standard", "deep"}
  PROVE  LET pts == MemoryBandwidthParts[1].points
         IN  Len(pts) \in DOMAIN pts /\ Threads(pts[Len(pts)]) = ToSet(Physical)
<1>. DEFINE m == Len(Physical)
            counts == ThreadCounts(m)
            pt(n) == Labelled(ByWorkers(SubSeq(Balanced, 1, n)), "physical-cores")
            pts == [k \in 1 .. Len(counts) |-> pt(counts[k])]
<1>1. m \in Nat \ {0} /\ m = Len(Balanced)
  BY PlacesAre DEF IsList
<1>2. MemoryBandwidthParts[1].points = pts
  <2>1. (IF Full THEN AtMost(Len(Physical), 8) ELSE 1) = m
    BY DEF Full, AtMost
  <2>2. MemoryBandwidthParts = <<Part(TRUE, None, "none", {"next"}, Scaling(m))>>
    BY <2>1 DEF MemoryBandwidthParts
  <2>3. Scaling(m) = pts
    BY DEF Scaling
  <2>. HIDE DEF pts, m
  <2>. QED
    BY <2>2, <2>3 DEF Part
<1>3. \A n : pt(n).main = None /\ pt(n).workers = SubSeq(Balanced, 1, n)
               /\ pt(n).label = "physical-cores"
  BY LabelledIs
<1>. HIDE DEF pt, m
<1>4. IsList(counts) /\ Len(counts) > 0 /\ counts[Len(counts)] = m
  BY <1>1, CountsToMaximum
<1>. HIDE DEF counts
<1>5. Len(pts) = Len(counts) /\ Len(counts) \in DOMAIN pts /\ pts[Len(counts)] = pt(m)
  <2>1. Len(counts) \in Nat /\ Len(counts) \in 1 .. Len(counts)
    BY <1>4 DEF IsList
  <2>2. pts = [k \in 1 .. Len(counts) |-> pts[k]] /\ DOMAIN pts = 1 .. Len(counts)
          /\ pts[Len(counts)] = pt(counts[Len(counts)])
    BY <2>1
  <2>. HIDE DEF pts
  <2>3. Len(pts) = Len(counts)
    BY <2>1, <2>2, MakesList
  <2>. QED
    BY <1>4, <2>1, <2>2, <2>3
<1>6. Threads(pt(m)) = ToSet(Physical)
  <2>1. m \in 1 .. Len(Balanced)
    BY <1>1
  <2>2. ToSet(SubSeq(Balanced, 1, m)) = ToSet(Physical)
    BY <1>1, <2>1, FirstCores
  <2>. QED
    BY <1>3, <2>2 DEF Threads
<1>. HIDE DEF pts
<1>. QED
  BY <1>2, <1>5, <1>6

\* What the core-to-core probe measures.
ForHandoffs(parts) ==
  LET pairs == HandoffPairs(command.profile, cpus)
  IN  /\ IsList(parts) /\ Len(parts) = 1
      /\ parts[1].runs = (Len(cpus) > 1) /\ parts[1].fails = {"throw"}
      /\ IsList(parts[1].points) /\ Len(parts[1].points) = Len(pairs)
      /\ \A k \in 1 .. Len(pairs) :
           /\ parts[1].points[k].workers = <<pairs[k][1].cpu, pairs[k][2].cpu>>
           /\ parts[1].points[k].label = CpuRelation(pairs[k][1], pairs[k][2])

LEMMA Handoffs ==
  ASSUME Found
  PROVE  ForHandoffs(CoreLatencyParts) /\ AllOnCores(CoreLatencyParts)
<1>. DEFINE pairs == HandoffPairs(command.profile, cpus)
            handoff(p) == Labelled(ByWorkers(<<p[1].cpu, p[2].cpu>>), CpuRelation(p[1], p[2]))
            pts == [k \in 1 .. Len(pairs) |-> handoff(pairs[k])]
            parts == CoreLatencyParts
<1>1. Len(pairs) \in Nat
  BY HandoffsAre DEF IsList
<1>2. \A p : handoff(p).workers = <<p[1].cpu, p[2].cpu>> /\ handoff(p).label = CpuRelation(p[1], p[2])
  BY LabelledIs
<1>3. parts = <<Part(Len(cpus) > 1, None, "none", {"throw"}, pts)>>
  BY DEF CoreLatencyParts
<1>. HIDE DEF pairs, handoff
<1>4. IsList(pts) /\ Len(pts) = Len(pairs) /\ \A k \in 1 .. Len(pairs) : pts[k] = handoff(pairs[k])
  <2>1. pts = [k \in 1 .. Len(pairs) |-> pts[k]] /\ \A k \in 1 .. Len(pairs) : pts[k] = handoff(pairs[k])
    OBVIOUS
  <2>. QED
    BY <1>1, <2>1, MakesList
<1>5. \A p : OnCores(handoff(p))
  BY <1>2, RelatedOnCores
<1>. HIDE DEF pts
<1>6. \A k \in DOMAIN pts : OnCores(pts[k])
  BY <1>4, <1>5 DEF IsList
<1>7. AllOnCores(parts)
  BY <1>3, <1>6, OneOnCores
<1>8. IsList(parts) /\ Len(parts) = 1 /\ parts[1] = Part(Len(cpus) > 1, None, "none", {"throw"}, pts)
  <2>1. parts = [i \in 1 .. 1 |-> parts[i]] /\ parts[1] = Part(Len(cpus) > 1, None, "none", {"throw"}, pts)
    BY <1>3
  <2>. HIDE DEF parts
  <2>. QED
    BY <2>1, MakesList
<1>9. parts[1].runs = (Len(cpus) > 1) /\ parts[1].fails = {"throw"} /\ parts[1].points = pts
  BY <1>8 DEF Part
<1>. HIDE DEF parts
<1>10. ForHandoffs(parts)
  BY <1>2, <1>4, <1>8, <1>9 DEF ForHandoffs, pairs
<1>. QED
  BY <1>7, <1>10 DEF parts

Chosen(p, parts) ==
  /\ AllOnCores(parts)
  /\ p = "memory-bandwidth" => parts = MemoryBandwidthParts
  /\ p = "core-latency" => ForHandoffs(parts)

LEMMA ProbesAreChosen ==
  ASSUME Found, NEW p \in ToSet(Registry)
  PROVE  Chosen(p, Parts(p))
<1>1. p \in {"timer", "cache-latency", "tlb", "memory-bandwidth", "cache-bandwidth",
             "stride-prefetch", "memory-parallelism", "page-policy",
             "loaded-memory-latency", "store-forwarding", "instruction-fetch",
             "pipeline", "compute-scaling", "branch-predictor", "branch-structures",
             "core-latency", "false-sharing", "numa", "rob", "os-overheads"}
  BY DEF ToSet, Registry
<1>2. CASE p \in {"timer", "store-forwarding", "instruction-fetch", "pipeline", "branch-predictor"}
  <2>1. /\ p = "timer" => Parts(p) = TimerParts
        /\ p = "store-forwarding" => Parts(p) = StoreForwardingParts
        /\ p = "instruction-fetch" => Parts(p) = InstructionFetchParts
        /\ p = "pipeline" => Parts(p) = PipelineParts
        /\ p = "branch-predictor" => Parts(p) = BranchPredictorParts
    BY DEF Parts
  <2>2. \A runs, pin, buffer, fails : AllOnCores(<<Part(runs, pin, buffer, fails, Times(Solo))>>)
    BY SoloOnCores, OneOnCores
  <2>3. /\ AllOnCores(TimerParts) /\ AllOnCores(StoreForwardingParts)
        /\ AllOnCores(InstructionFetchParts) /\ AllOnCores(PipelineParts)
        /\ AllOnCores(BranchPredictorParts)
    BY <2>2 DEF TimerParts, StoreForwardingParts, InstructionFetchParts, PipelineParts,
                BranchPredictorParts
  <2>. QED
    BY <1>2, <2>1, <2>3 DEF Chosen
<1>3. CASE p \in {"cache-latency", "tlb", "stride-prefetch", "memory-parallelism", "rob"}
  <2>1. /\ p = "cache-latency" => Parts(p) = CacheLatencyParts
        /\ p = "tlb" => Parts(p) = TlbParts
        /\ p = "stride-prefetch" => Parts(p) = StridePrefetchParts
        /\ p = "memory-parallelism" => Parts(p) = MemoryParallelismParts
        /\ p = "rob" => Parts(p) = RobParts
    BY DEF Parts
  <2>2. \A runs, pin, buffer, fails : AllOnCores(<<Part(runs, pin, buffer, fails, Times(Local))>>)
    BY SoloOnCores, OneOnCores
  <2>3. /\ AllOnCores(CacheLatencyParts) /\ AllOnCores(TlbParts) /\ AllOnCores(StridePrefetchParts)
        /\ AllOnCores(MemoryParallelismParts) /\ AllOnCores(RobParts)
    BY <2>2 DEF CacheLatencyParts, TlbParts, StridePrefetchParts, MemoryParallelismParts, RobParts
  <2>. QED
    BY <1>3, <2>1, <2>3 DEF Chosen
<1>4. CASE p \in {"memory-bandwidth", "cache-bandwidth", "loaded-memory-latency", "compute-scaling",
                  "core-latency", "false-sharing"}
  <2>1. /\ p = "memory-bandwidth" => Parts(p) = MemoryBandwidthParts
        /\ p = "cache-bandwidth" => Parts(p) = CacheBandwidthParts
        /\ p = "loaded-memory-latency" => Parts(p) = LoadedLatencyParts
        /\ p = "compute-scaling" => Parts(p) = ComputeScalingParts
        /\ p = "core-latency" => Parts(p) = CoreLatencyParts
        /\ p = "false-sharing" => Parts(p) = FalseSharingParts
    BY DEF Parts
  <2>. QED
    BY <1>4, <2>1, BandwidthOnCores, CacheBandwidthOnCores, LoadedLatencyOnCores,
       ComputeScalingOnCores, Handoffs, FalseSharingOnCores DEF Chosen
<1>5. CASE p \in {"page-policy", "branch-structures", "os-overheads", "numa"}
  <2>1. /\ p = "page-policy" => Parts(p) = PagePolicyParts
        /\ p = "branch-structures" => Parts(p) = BranchStructuresParts
        /\ p = "os-overheads" => Parts(p) = OsOverheadsParts
        /\ p = "numa" => Parts(p) = NumaParts
    BY DEF Parts
  <2>. QED
    BY <1>5, <2>1, PagePolicyOnCores, BranchStructuresOnCores, OsOverheadsOnCores, NumaOnCores
       DEF Chosen
<1>. QED
  BY <1>1, <1>2, <1>3, <1>4, <1>5

\* The choice stays what it is while the CPUs and the profile do.
LEMMA ChoiceStays ==
  ASSUME UNCHANGED <<cpus, command>>
  PROVE  \A p, parts : Chosen(p, parts)' <=> Chosen(p, parts)
<1>1. Physical' = Physical /\ Balanced' = Balanced
  BY DEF Physical, Balanced
<1>2. \A pt : OnCores(pt)' <=> OnCores(pt)
  BY <1>1 DEF OnCores
<1>3. \A parts : AllOnCores(parts)' <=> AllOnCores(parts)
  BY <1>2 DEF AllOnCores
<1>4. Full' = Full /\ \A n, limit : AtMost(n, limit)' = AtMost(n, limit)
  BY DEF Full, AtMost
<1>5. \A m : Scaling(m)' = Scaling(m)
  BY <1>1 DEF Scaling
<1>6. MemoryBandwidthParts' = MemoryBandwidthParts
  BY <1>1, <1>4, <1>5 DEF MemoryBandwidthParts
<1>7. \A parts : ForHandoffs(parts)' <=> ForHandoffs(parts)
  BY DEF ForHandoffs
<1>. QED
  BY <1>3, <1>6, <1>7 DEF Chosen

--------------------------------------------------------------------------------
(* Where the observations and the warnings of a run come from. *)

SeenAt(o, k, i, q) ==
  /\ o.probe = selected[k] /\ o.part = i /\ o.point = q
  /\ o.cpus = Threads(plan[k][i].points[q])
  /\ o.workers = plan[k][i].points[q].workers /\ o.label = plan[k][i].points[q].label

Seen(o) ==
  \E k \in DOMAIN plan : \E i \in DOMAIN plan[k] : \E q \in DOMAIN plan[k][i].points :
    SeenAt(o, k, i, q)

Warned(w) ==
  \E k \in DOMAIN plan : \E i \in DOMAIN plan[k] :
    w = <<selected[k], i>> /\ ("next" \in plan[k][i].fails \/ "leave" \in plan[k][i].fails)

OriginInv ==
  /\ phase = "parse" => warnings = {}
  /\ phase = "probe" \/ stdout = "document" =>
       /\ Found /\ IsList(plan)
       /\ \A k \in DOMAIN plan : Chosen(selected[k], plan[k])
       /\ \A o \in observations : Seen(o)
       /\ \A w \in warnings : Warned(w)

\* A step that leaves the plan alone.
LEMMA OriginKept ==
  ASSUME OriginInv, phase = "probe", phase' # "parse", UNCHANGED <<command, cpus, selected, plan>>,
         \A o \in observations' : o \in observations \/ Seen(o),
         \A w \in warnings' : w \in warnings \/ Warned(w)
  PROVE  OriginInv'
<1>1. (Found' <=> Found) /\ \A p, parts : Chosen(p, parts)' <=> Chosen(p, parts)
  BY CpusStay, ChoiceStays
<1>2. /\ Found /\ IsList(plan)
      /\ \A k \in DOMAIN plan : Chosen(selected[k], plan[k])
      /\ \A o \in observations : Seen(o)
      /\ \A w \in warnings : Warned(w)
  BY DEF OriginInv
<1>3. \A o : Seen(o)' <=> Seen(o)
  BY DEF Seen, SeenAt, Threads
<1>4. \A w : Warned(w)' <=> Warned(w)
  BY DEF Warned
<1>5. IsList(plan)' /\ \A k \in DOMAIN plan' : Chosen(selected[k], plan[k])'
  BY <1>1, <1>2
<1>6. (\A o \in observations' : Seen(o)') /\ (\A w \in warnings' : Warned(w)')
  BY <1>2, <1>3, <1>4
<1>. QED
  BY <1>1, <1>2, <1>5, <1>6 DEF OriginInv

LEMMA OriginStep ==
  ASSUME IInv, OriginInv, [Next]_vars
  PROVE  OriginInv'
<1>1. PlanInv /\ OutputInv
  BY DEF IInv
<1>2. CASE BadArguments \/ HelpOrList \/ UnsupportedBuild \/ UnknownProbe \/ FailureUncaught
             \/ Aborted
  BY <1>1, <1>2 DEF BadArguments, HelpOrList, UnsupportedBuild, UnknownProbe, FailureUncaught,
     Aborted, Fails, Leaves, Runs, Running, Probing, OutputInv, OriginInv
<1>3. CASE EmitJson
  BY <1>3, OriginKept DEF EmitJson, Leaves, given, position, setting
<1>4. CASE Select
  <2>1. /\ phase = "parse" /\ plan = <<>> /\ observations = {} /\ warnings = {}
        /\ UNCHANGED <<plan, observations, warnings>> /\ phase' = "probe"
    BY <1>1, <1>4 DEF Select, Runs, PlanInv, OriginInv
  <2>2. PlanInv'
    BY PlanStep
  <2>3. Found' /\ IsList(plan)' /\ DOMAIN plan' = {}
    BY <2>1, <2>2 DEF PlanInv
  <2>. QED
    BY <2>1, <2>3 DEF OriginInv
<1>5. CASE StartProbe
  <2>1. /\ phase = "probe" /\ at <= Len(selected) /\ Len(plan) < at
        /\ plan' = Append(plan, Parts(TheProbe))
        /\ UNCHANGED <<command, cpus, phase, selected, at, observations, warnings>>
    BY <1>5 DEF StartProbe, Probing, given, position
  <2>2. Len(plan) + 1 = at /\ IsList(plan) /\ Found
          /\ IsList(selected) /\ ToSet(selected) \subseteq ToSet(Registry)
    BY <1>1, <2>1 DEF PlanInv
  <2>3. TheProbe \in ToSet(Registry)
    <3>1. at \in DOMAIN selected
      <4>1. Len(plan) \in Nat /\ Len(selected) \in Nat /\ DOMAIN selected = 1 .. Len(selected)
        BY <2>2 DEF IsList
      <4>2. at \in Nat /\ 1 <= at /\ at <= Len(selected)
        BY <2>1, <2>2, <4>1
      <4>. QED
        BY <4>1, <4>2
    <3>2. TheProbe \in ToSet(selected)
      BY <3>1 DEF TheProbe, ToSet
    <3>. QED
      BY <2>2, <3>2
  <2>4. Chosen(selected[at], Parts(TheProbe))
    BY <2>2, <2>3, ProbesAreChosen DEF TheProbe
  <2>5. /\ IsList(plan') /\ Len(plan') = Len(plan) + 1 /\ plan'[Len(plan) + 1] = Parts(TheProbe)
        /\ \A k \in 1 .. Len(plan) : plan'[k] = plan[k]
    BY <2>1, <2>2, Appended
  <2>6. /\ DOMAIN plan = 1 .. Len(plan) /\ DOMAIN plan' = 1 .. Len(plan) + 1 /\ Len(plan) \in Nat
        /\ \A k \in DOMAIN plan : k \in DOMAIN plan' /\ plan'[k] = plan[k]
    BY <2>2, <2>5 DEF IsList
  <2>7. Found' /\ \A p, parts : Chosen(p, parts)' <=> Chosen(p, parts)
    BY <2>1, <2>2, CpusStay, ChoiceStays
  <2>8. ASSUME NEW k \in DOMAIN plan' PROVE Chosen(selected[k], plan[k])'
    <3>1. CASE k \in 1 .. Len(plan)
      <4>1. Chosen(selected[k], plan[k])
        BY <2>1, <2>6, <3>1 DEF OriginInv
      <4>. QED
        BY <2>1, <2>5, <2>7, <3>1, <4>1
    <3>2. CASE k = Len(plan) + 1
      BY <2>1, <2>2, <2>4, <2>5, <2>7, <3>2
    <3>. QED
      BY <2>6, <3>1, <3>2
  <2>9. ASSUME NEW o \in observations PROVE Seen(o)'
    <3>1. Seen(o)
      BY <2>1 DEF OriginInv
    <3>2. PICK k, i, q : /\ k \in DOMAIN plan /\ i \in DOMAIN plan[k]
                         /\ q \in DOMAIN plan[k][i].points /\ SeenAt(o, k, i, q)
      BY <3>1 DEF Seen
    <3>3. k \in DOMAIN plan' /\ plan'[k] = plan[k]
      BY <2>6, <3>2
    <3>4. SeenAt(o, k, i, q)'
      BY <2>1, <3>2, <3>3 DEF SeenAt, Threads
    <3>. QED
      BY <3>2, <3>3, <3>4 DEF Seen
  <2>10. ASSUME NEW w \in warnings PROVE Warned(w)'
    <3>1. Warned(w)
      BY <2>1 DEF OriginInv
    <3>. QED
      BY <2>1, <2>6, <3>1 DEF Warned
  <2>. QED
    BY <2>1, <2>5, <2>7, <2>8, <2>9, <2>10 DEF OriginInv
<1>6. CASE EnterPart \/ SkipPart \/ LeavePart \/ NextProbe \/ FailureUnsaid
  <2>1. /\ phase = "probe" /\ phase' = "probe"
        /\ UNCHANGED <<command, cpus, selected, plan, observations, warnings>>
    BY <1>6 DEF EnterPart, SkipPart, LeavePart, NextProbe, FailureUnsaid, Fails, Running, Probing,
       given, setting
  <2>. QED
    BY <2>1, OriginKept
<1>7. CASE Measure
  <2>1. /\ phase = "probe" /\ Len(plan) = at /\ part \in DOMAIN TheParts
        /\ point \in DOMAIN ThePart.points
        /\ UNCHANGED <<selected, plan, cpus, phase, warnings, given>>
    BY <1>7, Measures
  <2>2. PICK o : /\ observations' = observations \cup {o}
                 /\ o.probe = TheProbe /\ o.part = part /\ o.point = point
                 /\ o.cpus = Threads(ThePart.points[point])
                 /\ o.workers = ThePart.points[point].workers
                 /\ o.label = ThePart.points[point].label
    BY <1>7, Measures
  <2>3. at \in DOMAIN plan
    BY <2>1, InAPart
  <2>4. SeenAt(o, at, part, point)
    BY <2>2 DEF SeenAt, TheProbe, ThePart, TheParts
  <2>5. Seen(o)
    BY <2>1, <2>3, <2>4 DEF Seen, ThePart, TheParts
  <2>6. UNCHANGED command
    BY <2>1 DEF given
  <2>. QED
    BY <2>1, <2>2, <2>5, <2>6, OriginKept
<1>8. CASE FailureCaught \/ FailureEndsProbe
  <2>1. /\ phase = "probe" /\ phase' = "probe" /\ Len(plan) = at /\ point > 0
        /\ UNCHANGED <<command, cpus, selected, plan, observations>>
        /\ "next" \in ThePart.fails \/ "leave" \in ThePart.fails
        /\ warnings' = warnings \cup {<<TheProbe, part>>}
    BY <1>8 DEF FailureCaught, FailureEndsProbe, Fails, Warn, Running, Probing, given, setting
  <2>2. at \in DOMAIN plan /\ part \in DOMAIN TheParts
    BY <1>1, <2>1, InAPart DEF PlanInv
  <2>3. Warned(<<TheProbe, part>>)
    BY <2>1, <2>2 DEF Warned, TheProbe, ThePart, TheParts
  <2>. QED
    BY <2>1, <2>3, OriginKept
<1>9. CASE UNCHANGED vars \/ Exited
  <2>1. UNCHANGED <<command, cpus, selected, plan, phase, stdout, observations, warnings>>
    BY <1>9 DEF Exited, vars, given, position, setting
  <2>2. (Found' <=> Found) /\ \A p, parts : Chosen(p, parts)' <=> Chosen(p, parts)
    BY <2>1, CpusStay, ChoiceStays
  <2>3. (\A o : Seen(o)' <=> Seen(o)) /\ (\A w : Warned(w)' <=> Warned(w))
    BY <2>1 DEF Seen, SeenAt, Threads, Warned
  <2>4. (IsList(plan) => IsList(plan)')
          /\ ((\A k \in DOMAIN plan : Chosen(selected[k], plan[k]))
                => \A k \in DOMAIN plan' : Chosen(selected[k], plan[k])')
    BY <2>1, <2>2
  <2>. QED
    BY <2>1, <2>2, <2>3, <2>4 DEF OriginInv
<1>. QED
  BY <1>2, <1>3, <1>4, <1>5, <1>6, <1>7, <1>8, <1>9 DEF Next

--------------------------------------------------------------------------------
(* How the threads of a point are spread. *)

\* The cores that some CPUs are on.
LEMMA UnitsAre ==
  ASSUME Found, NEW D \in SUBSET ToSet(cpus)
  PROVE  {Unit(c) : c \in {p.cpu : p \in D}} = {p.unit : p \in D}
<1>1. \A p \in D : Unit(p.cpu) = p.unit
  BY CpusApart DEF Unit
<1>. QED
  BY <1>1

\* What the document says of a point of several threads is so.
LEMMA SharesAreEven ==
  ASSUME Found, NEW pt, OnCores(pt)
  PROVE  LET C == Threads(pt)
             share(n) == Cardinality({c \in C : NodeOf(c) = n})
             cores(n) == Cardinality({r.unit : r \in {r \in ToSet(cpus) : r.node = n}})
         IN  /\ pt.label \in {"none", "physical-cores"} /\ SiblingsTold =>
                  \A c, d \in C : c # d => Unit(c) # Unit(d)
             /\ pt.label = "physical-cores" => Cardinality(C) = Len(pt.workers)
             /\ CoresTold /\ SiblingsTold /\ SharingTold =>
                  /\ pt.label = "smt-siblings" => Cardinality({Unit(c) : c \in C}) = 1
                  /\ pt.label = "physical-cores" =>
                       \A m, n \in Nodes : share(m) < share(n) - 1 => share(m) = cores(m)
<1>. DEFINE C == Threads(pt)
            share(n) == Cardinality({c \in C : NodeOf(c) = n})
            cores(n) == Cardinality({r.unit : r \in {r \in ToSet(cpus) : r.node = n}})
<1>1. /\ IsFiniteSet(Cores) /\ Cores \subseteq ToSet(cpus)
      /\ ToSet(Physical) = {p.cpu : p \in Cores}
      /\ \A p, q \in Cores : SameCore(p, q) => p = q
  BY CoresAre
<1>2. ASSUME pt.label \in {"none", "physical-cores"}, SiblingsTold,
             NEW c \in C, NEW d \in C, c # d
      PROVE  Unit(c) # Unit(d)
  <2>1. C \subseteq ToSet(Physical)
    BY <1>2 DEF OnCores
  <2>2. PICK p \in Cores : c = p.cpu
    BY <1>1, <2>1
  <2>3. PICK r \in Cores : d = r.cpu
    BY <1>1, <2>1
  <2>4. Unit(c) = p.unit /\ Unit(d) = r.unit /\ p \in ToSet(cpus) /\ r \in ToSet(cpus)
    BY <1>1, <2>2, <2>3, CpusApart DEF Unit
  <2>5. p.unit = r.unit => SameCore(p, r)
    BY <1>2, <2>4 DEF SiblingsTold
  <2>. QED
    BY <1>1, <1>2, <2>2, <2>3, <2>4, <2>5
<1>3. ASSUME pt.label = "physical-cores"
      PROVE  /\ Cardinality(C) = Len(pt.workers)
             /\ \E D \in SUBSET Cores : /\ C = {p.cpu : p \in D}
                                        /\ \A q \in D, p \in Cores \ D : Earlier(q, p)
  <2>1. pt.main = None
    BY <1>3 DEF OnCores
  <2>2. PICK n \in 1 .. Len(Balanced) : pt.workers = SubSeq(Balanced, 1, n)
    BY <1>3 DEF OnCores
  <2>3. C = ToSet(SubSeq(Balanced, 1, n))
    BY <2>1, <2>2 DEF Threads
  <2>. HIDE DEF C
  <2>. QED
    BY <2>2, <2>3, FirstCores
<1>4. ASSUME pt.label = "smt-siblings", CoresTold
      PROVE  Cardinality({Unit(c) : c \in C}) = 1
  <2>1. pt.main = None
    BY <1>4 DEF OnCores
  <2>2. PICK a \in ToSet(cpus), b \in ToSet(cpus) :
          SameCore(a, b) /\ pt.workers = <<a.cpu, b.cpu>>
    BY <1>4 DEF OnCores
  <2>3. ToSet(<<a.cpu, b.cpu>>) = {a.cpu, b.cpu}
    BY DEF ToSet
  <2>4. C = {a.cpu, b.cpu}
    BY <2>1, <2>2, <2>3 DEF Threads
  <2>. HIDE DEF C
  <2>5. Unit(a.cpu) = a.unit /\ Unit(b.cpu) = b.unit
    BY CpusApart DEF Unit
  <2>6. a.unit = b.unit
    BY <1>4, <2>2 DEF CoresTold
  <2>7. {Unit(c) : c \in C} = {a.unit}
    BY <2>4, <2>5, <2>6
  <2>. QED
    BY <2>7, FS_Singleton
<1>5. ASSUME CoresTold, SiblingsTold, SharingTold, pt.label = "physical-cores",
             NEW m, NEW n, share(m) < share(n) - 1
      PROVE  share(m) = cores(m)
  <2>1. PICK D \in SUBSET Cores : /\ C = {p.cpu : p \in D}
                                  /\ \A q \in D, p \in Cores \ D : Earlier(q, p)
    BY <1>3, <1>5
  <2>2. /\ share(m) = Cardinality(On(D, m)) /\ share(n) = Cardinality(On(D, n))
        /\ cores(m) = Cardinality(On(Cores, m))
    BY <1>5, <2>1, SharesAre
  <2>3. On(D, m) # On(Cores, m) => Cardinality(On(D, n)) <= Cardinality(On(D, m)) + 1
    BY <2>1, Dealt
  <2>4. Cardinality(On(D, n)) \in Nat /\ Cardinality(On(D, m)) \in Nat
    <3>1. IsFiniteSet(On(D, n)) /\ IsFiniteSet(On(D, m))
      <4>1. On(D, n) \in SUBSET Cores /\ On(D, m) \in SUBSET Cores
        BY DEF On
      <4>. QED
        BY <1>1, <4>1, FS_Subset
    <3>. QED
      BY <3>1, FS_CardinalityType
  <2>. HIDE DEF share, cores
  <2>. QED
    BY <1>5, <2>2, <2>3, <2>4
<1>. HIDE DEF share, cores, C
<1>6. pt.label \in {"none", "physical-cores"} /\ SiblingsTold =>
        \A c, d \in C : c # d => Unit(c) # Unit(d)
  BY <1>2
<1>7. CoresTold /\ SiblingsTold /\ SharingTold /\ pt.label = "physical-cores" =>
        \A m, n \in Nodes : share(m) < share(n) - 1 => share(m) = cores(m)
  BY <1>5
<1>. QED
  BY <1>3, <1>4, <1>6, <1>7 DEF share, cores, C

--------------------------------------------------------------------------------
(* The paths between two CPUs. *)

LEMMA JoinedHas ==
  ASSUME NEW s, IsList(s), NEW t, IsList(t)
  PROVE  /\ \A i \in 1 .. Len(s) : \E k \in 1 .. Len(s \o t) : (s \o t)[k] = s[i]
         /\ \A i \in 1 .. Len(t) : \E k \in 1 .. Len(s \o t) : (s \o t)[k] = t[i]
<1>. DEFINE E == ToSet(s) \cup ToSet(t)
            st == s \o t
<1>1. s \in Seq(E) /\ t \in Seq(E)
  <2>1. ToSet(s) \subseteq E /\ ToSet(t) \subseteq E
    OBVIOUS
  <2>. HIDE DEF E
  <2>. QED
    BY <2>1, SeqMonotonic DEF IsList
<1>. HIDE DEF E
<1>2. Len(st) = Len(s) + Len(t) /\ Len(s) \in Nat /\ Len(t) \in Nat
  BY <1>1, ConcatProperties
<1>3. \A k \in 1 .. Len(s) + Len(t) : st[k] = IF k <= Len(s) THEN s[k] ELSE t[k - Len(s)]
  BY <1>1, ConcatProperties
<1>. HIDE DEF st
<1>4. ASSUME NEW i \in 1 .. Len(s) PROVE i \in 1 .. Len(st) /\ st[i] = s[i]
  BY <1>2, <1>3
<1>5. ASSUME NEW i \in 1 .. Len(t) PROVE Len(s) + i \in 1 .. Len(st) /\ st[Len(s) + i] = t[i]
  <2>1. Len(s) + i \in 1 .. Len(s) + Len(t) /\ ~(Len(s) + i <= Len(s)) /\ (Len(s) + i) - Len(s) = i
    BY <1>2
  <2>. QED
    BY <1>2, <1>3, <2>1
<1>. QED
  BY <1>4, <1>5 DEF st

\* The cores are listed by the number of their first CPU.
LEMMA CoresAscend ==
  ASSUME Found
  PROVE  LET P == PhysicalCpus(cpus)
         IN  /\ IsList(P) /\ ToSet(P) \subseteq ToSet(cpus) /\ DOMAIN P = 1 .. Len(P)
             /\ \A j, k \in 1 .. Len(P) : j < k => P[j].cpu < P[k].cpu
<1>. DEFINE P == PhysicalCpus(cpus)
            I == {i \in DOMAIN cpus : ~\E j \in 1 .. i - 1 : SameCore(cpus[j], cpus[i])}
            o == Ascending(I)
<1>1. IsList(cpus) /\ DOMAIN cpus = 1 .. Len(cpus)
  BY ListOf DEF Found
<1>2. I \in SUBSET DOMAIN cpus
  OBVIOUS
<1>3. P = AtPlaces(cpus, I)
  BY DEF PhysicalCpus
<1>. HIDE DEF P, I
<1>4. /\ Cardinality(I) \in Nat /\ IsList(P) /\ Len(P) = Cardinality(I)
      /\ o \in [1 .. Cardinality(I) -> I]
      /\ \A k \in 1 .. Cardinality(I) : P[k] = cpus[o[k]]
      /\ \A j, k \in 1 .. Cardinality(I) : j < k => o[j] < o[k]
  BY <1>1, <1>2, <1>3, Taken
<1>. HIDE DEF o
<1>5. ASSUME NEW j \in 1 .. Len(P), NEW k \in 1 .. Len(P), j < k
      PROVE  P[j].cpu < P[k].cpu
  <2>1. o[j] \in 1 .. Len(cpus) /\ o[k] \in 1 .. Len(cpus) /\ o[j] < o[k]
    BY <1>1, <1>2, <1>4, <1>5
  <2>. QED
    BY <1>4, <2>1 DEF Found
<1>6. ToSet(P) \subseteq ToSet(cpus)
  <2>1. Cores \subseteq ToSet(cpus)
    BY CoresAre
  <2>. QED
    BY <2>1 DEF Cores, P
<1>7. DOMAIN P = 1 .. Len(P)
  BY <1>4 DEF IsList
<1>. QED
  BY <1>4, <1>5, <1>6, <1>7 DEF P

LEMMA PlacesOf ==
  ASSUME NEW n \in Nat, NEW S \in SUBSET (1 .. n)
  PROVE  S \in SUBSET Int /\ IsFiniteSet(S)
<1>1. IsFiniteSet(1 .. n)
  BY FS_Interval
<1>2. IsFiniteSet(S)
  BY <1>1, FS_Subset
<1>3. 1 .. n \subseteq Int
  OBVIOUS
<1>. QED
  BY <1>2, <1>3

\* A relation that two CPUs have is that of one of the representatives.
LEMMA Represented ==
  ASSUME Found, NEW p \in PairsOf(cpus)
  PROVE  \E q \in Representatives(cpus) : RelationOf(cpus, q) = RelationOf(cpus, p)
<1>. DEFINE r == RelationOf(cpus, p)
            S == {q \in PairsOf(cpus) : RelationOf(cpus, q) = r}
            F == {q[1] : q \in S}
<1>1. IsList(cpus) /\ DOMAIN cpus = 1 .. Len(cpus) /\ Len(cpus) \in Nat
  BY ListOf DEF Found
<1>2. \A q \in PairsOf(cpus) : /\ q[1] \in 1 .. Len(cpus) /\ q[2] \in 1 .. Len(cpus)
                               /\ q = <<q[1], q[2]>>
  BY <1>1 DEF PairsOf
<1>3. p \in S /\ \A q : q \in S <=> q \in PairsOf(cpus) /\ RelationOf(cpus, q) = r
  OBVIOUS
<1>. HIDE DEF S, r
<1>4. \A q \in S : q[1] \in F
  OBVIOUS
<1>5. \A x \in F : \E q \in S : x = q[1]
  OBVIOUS
<1>. HIDE DEF F
<1>6. F \in SUBSET (1 .. Len(cpus)) /\ F # {}
  BY <1>2, <1>3, <1>4, <1>5
<1>7. F \in SUBSET Int /\ IsFiniteSet(F)
  BY <1>1, <1>6, PlacesOf
<1>8. PICK i \in F : \A y \in F : i <= y
  BY <1>6, <1>7, LeastOf
<1>. DEFINE G == {q[2] : q \in {q \in S : q[1] = i}}
<1>9. \A q \in S : q[1] = i => q[2] \in G
  OBVIOUS
<1>10. \A x \in G : \E q \in S : q[1] = i /\ x = q[2]
  OBVIOUS
<1>. HIDE DEF G
<1>11. G \in SUBSET (1 .. Len(cpus)) /\ G # {}
  BY <1>2, <1>3, <1>5, <1>8, <1>9, <1>10
<1>12. G \in SUBSET Int /\ IsFiniteSet(G)
  BY <1>1, <1>11, PlacesOf
<1>13. PICK j \in G : \A y \in G : j <= y
  BY <1>11, <1>12, LeastOf
<1>14. PICK q \in S : q[1] = i /\ q[2] = j
  BY <1>10, <1>13
<1>15. ASSUME NEW t \in PairsOf(cpus), Visited(t, q), RelationOf(cpus, t) = r
       PROVE  FALSE
  <2>1. t \in S /\ t[1] \in Int /\ t[2] \in Int /\ i \in Int /\ j \in Int
    BY <1>1, <1>2, <1>3, <1>7, <1>12, <1>15
  <2>2. i <= t[1] /\ (t[1] = i => j <= t[2])
    BY <1>4, <1>8, <1>9, <1>13, <2>1
  <2>. QED
    BY <1>14, <1>15, <2>1, <2>2 DEF Visited
<1>16. q \in PairsOf(cpus) /\ RelationOf(cpus, q) = r
  BY <1>3
<1>17. q \in Representatives(cpus)
  BY <1>15, <1>16 DEF Representatives
<1>. QED
  BY <1>16, <1>17 DEF r

\* How two CPUs are to each other is how their cores are.
LEMMA RelationOfCores ==
  ASSUME SharingTold,
         NEW a \in ToSet(cpus), NEW b \in ToSet(cpus), ~SameCore(a, b),
         NEW p \in ToSet(cpus), NEW r \in ToSet(cpus), SameCore(p, a), SameCore(r, b)
  PROVE  CpuRelation(p, r) = CpuRelation(a, b) /\ CpuRelation(r, p) = CpuRelation(a, b)
<1>1. ~SameCore(p, r) /\ ~SameCore(r, p) /\ p.socket = a.socket /\ r.socket = b.socket
  BY DEF SameCore
<1>2. /\ p.node = a.node /\ LlcSiblings(p) = LlcSiblings(a)
      /\ r.node = b.node /\ LlcSiblings(r) = LlcSiblings(b)
  BY DEF SharingTold
<1>3. \A x, y \in ToSet(cpus) : y.cpu \in LlcSiblings(x) <=> x.cpu \in LlcSiblings(y)
  BY DEF SharingTold
<1>4. /\ r.cpu \in LlcSiblings(p) <=> b.cpu \in LlcSiblings(a)
      /\ p.cpu \in LlcSiblings(r) <=> b.cpu \in LlcSiblings(a)
  BY <1>2, <1>3
<1>5. CASE a.node = b.node
  <2>1. CpuRelation(a, b) =
          IF b.cpu \in LlcSiblings(a) THEN "same-llc-different-core" ELSE "cross-llc-same-numa"
    BY <1>5 DEF CpuRelation
  <2>2. CpuRelation(p, r) =
          IF r.cpu \in LlcSiblings(p) THEN "same-llc-different-core" ELSE "cross-llc-same-numa"
    BY <1>1, <1>2, <1>5 DEF CpuRelation
  <2>3. CpuRelation(r, p) =
          IF p.cpu \in LlcSiblings(r) THEN "same-llc-different-core" ELSE "cross-llc-same-numa"
    BY <1>1, <1>2, <1>5 DEF CpuRelation
  <2>. QED
    BY <1>4, <2>1, <2>2, <2>3
<1>6. CASE a.node # b.node
  <2>1. CpuRelation(a, b) = IF a.socket = b.socket THEN "cross-numa-same-socket" ELSE "cross-socket"
    BY <1>6 DEF CpuRelation
  <2>2. CpuRelation(p, r) = IF p.socket = r.socket THEN "cross-numa-same-socket" ELSE "cross-socket"
    BY <1>1, <1>2, <1>6 DEF CpuRelation
  <2>3. CpuRelation(r, p) = IF r.socket = p.socket THEN "cross-numa-same-socket" ELSE "cross-socket"
    BY <1>1, <1>2, <1>6 DEF CpuRelation
  <2>. QED
    BY <1>1, <2>1, <2>2, <2>3
<1>. QED
  BY <1>5, <1>6

\* The pairs of a profile.
LEMMA PairsAre ==
  ASSUME Found, NEW profile
  PROVE  LET pairs == HandoffPairs(profile, cpus)
         IN  /\ IsList(pairs)
             /\ \A k \in 1 .. Len(pairs) :
                  /\ pairs[k][1] \in ToSet(cpus) /\ pairs[k][2] \in ToSet(cpus)
                  /\ pairs[k][1].cpu < pairs[k][2].cpu
<1>. DEFINE P == PhysicalCpus(cpus)
            In(w) == w[1] \in ToSet(cpus) /\ w[2] \in ToSet(cpus) /\ w[1].cpu < w[2].cpu
            all == Couples(cpus, PairsOf(cpus))
            some == Couples(cpus, Representatives(cpus))
            smt == Couples(cpus, SmtPair(cpus))
            cores == Couples(P, PairsOf(P))
<1>1. IsList(cpus) /\ DOMAIN cpus = 1 .. Len(cpus)
  BY ListOf DEF Found
<1>2. IsList(P) /\ ToSet(P) \subseteq ToSet(cpus) /\ DOMAIN P = 1 .. Len(P)
        /\ \A j, k \in 1 .. Len(P) : j < k => P[j].cpu < P[k].cpu
  BY CoresAscend
<1>3. ASSUME NEW p \in PairsOf(cpus) PROVE In(<<cpus[p[1]], cpus[p[2]]>>)
  <2>1. p[1] \in 1 .. Len(cpus) /\ p[2] \in 1 .. Len(cpus) /\ p[1] < p[2]
    BY <1>1 DEF PairsOf
  <2>2. cpus[p[1]].cpu < cpus[p[2]].cpu
    BY <2>1 DEF Found
  <2>3. cpus[p[1]] \in ToSet(cpus) /\ cpus[p[2]] \in ToSet(cpus)
    BY <1>1, <2>1 DEF ToSet
  <2>. QED
    BY <2>2, <2>3
<1>. HIDE DEF P
<1>4. ASSUME NEW p \in PairsOf(P) PROVE In(<<P[p[1]], P[p[2]]>>)
  <2>1. p[1] \in 1 .. Len(P) /\ p[2] \in 1 .. Len(P) /\ p[1] < p[2]
    BY <1>2 DEF PairsOf
  <2>2. P[p[1]].cpu < P[p[2]].cpu
    BY <1>2, <2>1
  <2>3. P[p[1]] \in ToSet(P) /\ P[p[2]] \in ToSet(P)
    BY <1>2, <2>1 DEF ToSet
  <2>. QED
    BY <1>2, <2>2, <2>3
<1>. HIDE DEF In
<1>5. SmtPair(cpus) \subseteq PairsOf(cpus) /\ Representatives(cpus) \subseteq PairsOf(cpus)
  BY NumbersAre
<1>6. IsList(all) /\ \A k \in 1 .. Len(all) : In(all[k])
  <2>1. IsList(all) /\ \A k \in 1 .. Len(all) :
          \E p \in PairsOf(cpus) : all[k] = <<cpus[p[1]], cpus[p[2]]>>
    BY <1>1, Coupled
  <2>. HIDE DEF all
  <2>. QED
    BY <1>3, <2>1
<1>7. IsList(some) /\ \A k \in 1 .. Len(some) : In(some[k])
  <2>1. IsList(some) /\ \A k \in 1 .. Len(some) :
          \E p \in Representatives(cpus) : some[k] = <<cpus[p[1]], cpus[p[2]]>>
    <3>1. IsList(cpus) /\ Representatives(cpus) \in SUBSET PairsOf(cpus)
      BY <1>1, <1>5
    <3>. QED
      BY <3>1, Coupled
  <2>. HIDE DEF some
  <2>. QED
    BY <1>3, <1>5, <2>1
<1>8. IsList(smt) /\ \A k \in 1 .. Len(smt) : In(smt[k])
  <2>1. IsList(smt) /\ \A k \in 1 .. Len(smt) :
          \E p \in SmtPair(cpus) : smt[k] = <<cpus[p[1]], cpus[p[2]]>>
    <3>1. IsList(cpus) /\ SmtPair(cpus) \in SUBSET PairsOf(cpus)
      BY <1>1, <1>5
    <3>. QED
      BY <3>1, Coupled
  <2>. HIDE DEF smt
  <2>. QED
    BY <1>3, <1>5, <2>1
<1>9. IsList(cores) /\ \A k \in 1 .. Len(cores) : In(cores[k])
  <2>1. IsList(cores) /\ \A k \in 1 .. Len(cores) :
          \E p \in PairsOf(P) : cores[k] = <<P[p[1]], P[p[2]]>>
    <3>1. IsList(P) /\ PairsOf(P) \in SUBSET PairsOf(P)
      BY <1>2
    <3>. QED
      BY <3>1, Coupled
  <2>. HIDE DEF cores
  <2>. QED
    BY <1>4, <2>1
<1>10. HandoffPairs(profile, cpus) =
         CASE profile = "deep" -> all [] profile = "standard" -> cores \o smt [] OTHER -> some
  BY DEF HandoffPairs, P
<1>. HIDE DEF all, some, smt, cores
<1>11. IsList(cores \o smt) /\ \A k \in 1 .. Len(cores \o smt) : In((cores \o smt)[k])
  <2>1. /\ IsList(cores \o smt)
        /\ \A k \in 1 .. Len(cores \o smt) :
             \/ \E i \in 1 .. Len(cores) : (cores \o smt)[k] = cores[i]
             \/ \E i \in 1 .. Len(smt) : (cores \o smt)[k] = smt[i]
    <3>1. IsList(cores) /\ IsList(smt)
      BY <1>8, <1>9
    <3>. QED
      BY <3>1, Joined
  <2>. QED
    BY <1>8, <1>9, <2>1
<1>. DEFINE pairs == HandoffPairs(profile, cpus)
<1>12. IsList(pairs) /\ \A k \in 1 .. Len(pairs) : In(pairs[k])
  <2>1. CASE profile = "deep"
    BY <1>6, <1>10, <2>1
  <2>2. CASE profile = "standard"
    BY <1>10, <1>11, <2>2
  <2>3. CASE profile \notin {"deep", "standard"}
    BY <1>7, <1>10, <2>3
  <2>. QED
    BY <2>1, <2>2, <2>3
<1>. QED
  BY <1>12 DEF In

\* They show every relation that two CPUs have.
LEMMA PairsCover ==
  ASSUME Found, SharingTold, NEW profile,
         NEW a \in ToSet(cpus), NEW b \in ToSet(cpus), a.cpu < b.cpu
  PROVE  LET pairs == HandoffPairs(profile, cpus)
         IN  \E k \in 1 .. Len(pairs) : CpuRelation(pairs[k][1], pairs[k][2]) = CpuRelation(a, b)
<1>. DEFINE P == PhysicalCpus(cpus)
            Has(s) == \E k \in 1 .. Len(s) : CpuRelation(s[k][1], s[k][2]) = CpuRelation(a, b)
            all == Couples(cpus, PairsOf(cpus))
            some == Couples(cpus, Representatives(cpus))
            smt == Couples(cpus, SmtPair(cpus))
            cores == Couples(P, PairsOf(P))
<1>1. IsList(cpus) /\ DOMAIN cpus = 1 .. Len(cpus) /\ Len(cpus) \in Nat
  BY ListOf DEF Found
<1>2. PICK p \in PairsOf(cpus) : cpus[p[1]] = a /\ cpus[p[2]] = b
  <2>1. PICK i \in 1 .. Len(cpus), j \in 1 .. Len(cpus) : cpus[i] = a /\ cpus[j] = b
    BY <1>1 DEF ToSet
  <2>2. a.cpu \in Nat /\ b.cpu \in Nat
    BY CpusApart DEF Known
  <2>3. i < j
    <3>1. j < i => b.cpu < a.cpu
      BY <2>1 DEF Found
    <3>2. i # j
      BY <2>1, <2>2
    <3>. QED
      BY <2>2, <3>1, <3>2
  <2>4. <<i, j>> \in PairsOf(cpus)
    BY <1>1, <2>3 DEF PairsOf
  <2>. QED
    BY <2>1, <2>4
<1>3. PICK q \in Representatives(cpus) : RelationOf(cpus, q) = CpuRelation(a, b)
  <2>1. RelationOf(cpus, p) = CpuRelation(a, b)
    BY <1>2 DEF RelationOf
  <2>. QED
    BY <2>1, Represented
<1>4. SmtPair(cpus) \subseteq PairsOf(cpus) /\ Representatives(cpus) \subseteq PairsOf(cpus)
  BY NumbersAre
<1>5. Has(all)
  <2>1. \E k \in 1 .. Len(all) : all[k] = <<cpus[p[1]], cpus[p[2]]>>
    <3>1. IsList(cpus) /\ PairsOf(cpus) \in SUBSET PairsOf(cpus)
      BY <1>1
    <3>. QED
      BY <3>1, Coupled
  <2>. HIDE DEF all
  <2>. QED
    BY <1>2, <2>1
<1>6. CpuRelation(cpus[q[1]], cpus[q[2]]) = CpuRelation(a, b)
  BY <1>3 DEF RelationOf
<1>7. Has(some)
  <2>1. \E k \in 1 .. Len(some) : some[k] = <<cpus[q[1]], cpus[q[2]]>>
    <3>1. IsList(cpus) /\ Representatives(cpus) \in SUBSET PairsOf(cpus)
      BY <1>1, <1>4
    <3>. QED
      BY <3>1, Coupled
  <2>. HIDE DEF some
  <2>. QED
    BY <1>6, <2>1
<1>8. IsList(P) /\ IsList(smt) /\ IsList(cores)
  <2>1. IsList(P)
    BY CoresAscend
  <2>. HIDE DEF P
  <2>. QED
    BY <1>1, <1>4, <2>1, Coupled
<1>9. Has(smt) \/ Has(cores)
  <2>1. CASE SameCore(a, b)
    <3>1. q \in SmtPair(cpus)
      BY <1>3, <2>1 DEF SmtPair, CpuRelation
    <3>2. \E k \in 1 .. Len(smt) : smt[k] = <<cpus[q[1]], cpus[q[2]]>>
      <4>1. IsList(cpus) /\ SmtPair(cpus) \in SUBSET PairsOf(cpus)
        BY <1>1, <1>4
      <4>. QED
        BY <3>1, <4>1, Coupled
    <3>. HIDE DEF smt
    <3>. QED
      BY <1>6, <3>2
  <2>2. CASE ~SameCore(a, b)
    <3>1. PICK c \in Cores, r \in Cores : SameCore(c, a) /\ SameCore(r, b)
      BY CoresAre
    <3>2. IsList(P) /\ DOMAIN P = 1 .. Len(P) /\ Len(P) \in Nat
      BY CoresAscend DEF IsList
    <3>3. PICK j \in 1 .. Len(P), k \in 1 .. Len(P) : P[j] = c /\ P[k] = r
      BY <3>2 DEF Cores, ToSet
    <3>4. j # k
      BY <2>2, <3>1, <3>3 DEF SameCore
    <3>5. c \in ToSet(cpus) /\ r \in ToSet(cpus)
      BY CoresAre
    <3>6. CpuRelation(c, r) = CpuRelation(a, b) /\ CpuRelation(r, c) = CpuRelation(a, b)
      BY <2>2, <3>1, <3>5, RelationOfCores
    <3>. HIDE DEF P
    <3>7. PICK t \in PairsOf(P) : CpuRelation(P[t[1]], P[t[2]]) = CpuRelation(a, b)
      <4>1. CASE j < k
        <5>1. <<j, k>> \in PairsOf(P)
          BY <3>2, <4>1 DEF PairsOf
        <5>. QED
          BY <3>3, <3>6, <5>1
      <4>2. CASE k < j
        <5>1. <<k, j>> \in PairsOf(P)
          BY <3>2, <4>2 DEF PairsOf
        <5>. QED
          BY <3>3, <3>6, <5>1
      <4>. QED
        BY <3>2, <3>4, <4>1, <4>2
    <3>8. \E l \in 1 .. Len(cores) : cores[l] = <<P[t[1]], P[t[2]]>>
      <4>1. IsList(P) /\ PairsOf(P) \in SUBSET PairsOf(P)
        BY <3>2
      <4>. QED
        BY <4>1, Coupled
    <3>. HIDE DEF cores
    <3>. QED
      BY <3>7, <3>8
  <2>. QED
    BY <2>1, <2>2
<1>10. HandoffPairs(profile, cpus) =
         CASE profile = "deep" -> all [] profile = "standard" -> cores \o smt [] OTHER -> some
  BY DEF HandoffPairs
<1>. HIDE DEF all, some, smt, cores
<1>11. Has(cores \o smt)
  <2>1. /\ \A i \in 1 .. Len(cores) : \E k \in 1 .. Len(cores \o smt) : (cores \o smt)[k] = cores[i]
        /\ \A i \in 1 .. Len(smt) : \E k \in 1 .. Len(cores \o smt) : (cores \o smt)[k] = smt[i]
    <3>1. IsList(cores) /\ IsList(smt)
      BY <1>8
    <3>2. \A i \in 1 .. Len(cores) : \E k \in 1 .. Len(cores \o smt) : (cores \o smt)[k] = cores[i]
      BY <3>1, JoinedHas
    <3>3. \A i \in 1 .. Len(smt) : \E k \in 1 .. Len(cores \o smt) : (cores \o smt)[k] = smt[i]
      BY <3>1, JoinedHas
    <3>. QED
      BY <3>2, <3>3
  <2>2. ASSUME Has(cores) PROVE Has(cores \o smt)
    <3>1. PICK i \in 1 .. Len(cores) : CpuRelation(cores[i][1], cores[i][2]) = CpuRelation(a, b)
      BY <2>2
    <3>2. PICK k \in 1 .. Len(cores \o smt) : (cores \o smt)[k] = cores[i]
      BY <2>1
    <3>. QED
      BY <3>1, <3>2
  <2>3. ASSUME Has(smt) PROVE Has(cores \o smt)
    <3>1. PICK i \in 1 .. Len(smt) : CpuRelation(smt[i][1], smt[i][2]) = CpuRelation(a, b)
      BY <2>3
    <3>2. PICK k \in 1 .. Len(cores \o smt) : (cores \o smt)[k] = smt[i]
      BY <2>1
    <3>. QED
      BY <3>1, <3>2
  <2>. QED
    BY <1>9, <2>2, <2>3
<1>. DEFINE pairs == HandoffPairs(profile, cpus)
<1>12. Has(pairs)
  <2>1. CASE profile = "deep"
    BY <1>5, <1>10, <2>1
  <2>2. CASE profile = "standard"
    BY <1>10, <1>11, <2>2
  <2>3. CASE profile \notin {"deep", "standard"}
    BY <1>7, <1>10, <2>3
  <2>. QED
    BY <2>1, <2>2, <2>3
<1>. QED
  BY <1>12

\* What a core-to-core observation says, and that no pair is without one.
LEMMA HandoffsSeen ==
  ASSUME IInv, OriginInv, stdout = "document",
         NEW o \in observations, o.probe = "core-latency"
  PROVE  LET pairs == HandoffPairs(command.profile, cpus)
         IN  \E q \in 1 .. Len(pairs) :
               /\ o.point = q /\ o.workers = <<pairs[q][1].cpu, pairs[q][2].cpu>>
               /\ o.label = CpuRelation(pairs[q][1], pairs[q][2])
<1>1. Seen(o) /\ \A k \in DOMAIN plan : Chosen(selected[k], plan[k])
  BY DEF OriginInv
<1>2. PICK k, i, q : /\ k \in DOMAIN plan /\ i \in DOMAIN plan[k]
                     /\ q \in DOMAIN plan[k][i].points /\ SeenAt(o, k, i, q)
  BY <1>1 DEF Seen
<1>3. ForHandoffs(plan[k])
  BY <1>1, <1>2 DEF SeenAt, Chosen
<1>4. i = 1
  BY <1>2, <1>3 DEF ForHandoffs, IsList
<1>5. q \in 1 .. Len(HandoffPairs(command.profile, cpus))
  BY <1>2, <1>3, <1>4 DEF ForHandoffs, IsList
<1>. QED
  BY <1>2, <1>3, <1>4, <1>5 DEF SeenAt, ForHandoffs

LEMMA HandoffsThere ==
  ASSUME IInv, OriginInv, stdout = "document", "core-latency" \in ToSet(selected),
         NEW q \in 1 .. Len(HandoffPairs(command.profile, cpus)), Len(cpus) > 1
  PROVE  \E o \in observations : o.probe = "core-latency" /\ o.point = q
<1>1. AccountInv /\ OutputInv
  BY DEF IInv
<1>2. \A k \in DOMAIN plan : Chosen(selected[k], plan[k])
  BY DEF OriginInv
<1>3. PICK k \in DOMAIN selected : selected[k] = "core-latency"
  BY DEF ToSet
<1>4. k \in DOMAIN plan /\ k < at
  BY <1>1, <1>3 DEF OutputInv
<1>5. ForHandoffs(plan[k])
  BY <1>2, <1>3, <1>4 DEF Chosen
<1>6. 1 \in DOMAIN plan[k] /\ q \in DOMAIN plan[k][1].points
        /\ plan[k][1].runs /\ plan[k][1].fails = {"throw"}
  <2>1. /\ 1 \in DOMAIN plan[k] /\ q \in DOMAIN plan[k][1].points
        /\ plan[k][1].fails = {"throw"}
    BY <1>5 DEF ForHandoffs, IsList
  <2>2. plan[k][1].runs = (Len(cpus) > 1)
    BY <1>5 DEF ForHandoffs
  <2>3. plan[k][1].runs
    BY <2>2
  <2>. QED
    BY <2>1, <2>3
<1>7. <<"core-latency", 1>> \notin warnings
  <2>1. SUFFICES ASSUME Warned(<<"core-latency", 1>>) PROVE FALSE
    BY DEF OriginInv
  <2>2. PICK l, i : /\ l \in DOMAIN plan /\ i \in DOMAIN plan[l]
                    /\ <<"core-latency", 1>> = <<selected[l], i>>
                    /\ "next" \in plan[l][i].fails \/ "leave" \in plan[l][i].fails
    BY <2>1 DEF Warned
  <2>3. selected[l] = "core-latency" /\ i = 1
    BY <2>2
  <2>4. plan[l][i].fails = {"throw"}
    BY <1>2, <2>2, <2>3 DEF Chosen, ForHandoffs
  <2>. QED
    BY <2>2, <2>4
<1>8. ~Exempt(k, 1)
  <2>1. \A j \in 1 .. 1 : j = 1
    OBVIOUS
  <2>. QED
    BY <1>3, <1>6, <1>7, <2>1 DEF Exempt
<1>9. There(k, 1, q)
  BY <1>1, <1>4, <1>6, <1>8 DEF AccountInv, Behind
<1>. QED
  BY <1>3, <1>9 DEF There

--------------------------------------------------------------------------------
(* What holds of every run. *)

\* The invariant that the theorems below follow from: the plan of a run, where
\* its main thread and its buffer are, what is accounted for, what is printed.
THEOREM RunInvariant == Spec => []IInv
<1>1. Init => IInv
  BY Starts
<1>2. IInv /\ [Next]_vars => IInv'
  BY PlanStep, PlaceStep, HomeStep, AccountStep, OutputStep, LabelStep DEF IInv
<1>. QED
  BY <1>1, <1>2, PTL DEF Spec

\* Everything in a run comes from a point of its plan.
THEOREM RunHasOrigin == Spec => [](IInv /\ OriginInv)
<1>1. Init => IInv /\ OriginInv
  <2>1. Init => OriginInv
    BY DEF Init, OriginInv
  <2>. QED
    BY <2>1, Starts
<1>2. (IInv /\ OriginInv) /\ [Next]_vars => (IInv /\ OriginInv)'
  <2>1. IInv /\ [Next]_vars => IInv'
    BY PlanStep, PlaceStep, HomeStep, AccountStep, OutputStep, LabelStep DEF IInv
  <2>. QED
    BY <2>1, OriginStep
<1>. QED
  BY <1>1, <1>2, PTL DEF Spec

\* On any machine and in any order of the probes, every result of a probe that was
\* refused no pin comes from the CPUs it is labelled with, whichever pins others
\* were refused: no probe relies on where the one before it has left the main
\* thread.  Of a probe that was refused a pin itself nothing is said.
THEOREM LabelsAreTrue == Spec => []RunsWhereLabelled
<1>1. IInv => RunsWhereLabelled
  BY DEF IInv
<1>. QED
  BY <1>1, RunInvariant, PTL

\* The same of memory: where a probe was refused no pin, first touch and mbind
\* place the pages on the node that the result names, or on that of the measuring
\* CPU.
THEOREM MemoryIsWhereLabelled == Spec => []MemoryWhereLabelled
<1>1. IInv => MemoryWhereLabelled
  BY DEF IInv
<1>. QED
  BY <1>1, RunInvariant, PTL

\* A run that succeeds has printed the document, and every point of every probe
\* that was asked for is in it, was skipped by the profile or is spoken of by a
\* warning.
THEOREM SuccessIsComplete == Spec => []DocumentIsComplete
<1>1. ASSUME IInv
      PROVE  DocumentIsComplete
  <2>1. PlanInv /\ AccountInv /\ OutputInv
    BY <1>1 DEF IInv
  <2>2. stdout = "document" => exit = 0
    BY <2>1 DEF OutputInv
  <2>3. phase = "exited" /\ exit = 0 /\ command.wants = "run" => stdout = "document"
    BY <2>1 DEF OutputInv
  <2>4. ASSUME phase = "exited", exit = 0, command.wants = "run",
               NEW p \in IF Requested = {} THEN ToSet(Registry) ELSE Requested
        PROVE  \E k \in DOMAIN selected :
                 LET parts == plan[k]
                     said(i) == \E j \in 1 .. i : <<p, j>> \in warnings
                     there == {<<o.part, o.point>> : o \in {o \in observations : o.probe = p}}
                 IN  /\ selected[k] = p
                     /\ \A i \in 1 .. Len(parts) :
                          parts[i].runs /\ "quiet" \notin parts[i].fails /\ ~said(i)
                            => {i} \X (1 .. Len(parts[i].points)) \subseteq there
    <3>1. stdout = "document"
      BY <2>3, <2>4
    <3>2. PICK k \in DOMAIN selected : selected[k] = p
      BY <2>1, <2>4, <3>1 DEF AccountInv
    <3>3. k \in DOMAIN plan /\ k < at
      BY <2>1, <3>1, <3>2 DEF OutputInv
    <3>. DEFINE there == {<<o.part, o.point>> : o \in {o \in observations : o.probe = p}}
    <3>4. ASSUME NEW i \in 1 .. Len(plan[k]), plan[k][i].runs, "quiet" \notin plan[k][i].fails,
                 ~\E j \in 1 .. i : <<p, j>> \in warnings,
                 NEW q \in 1 .. Len(plan[k][i].points)
          PROVE  <<i, q>> \in there
      <4>1. i \in DOMAIN plan[k] /\ q \in DOMAIN plan[k][i].points
        BY <2>1, <3>1, <3>3, <3>4 DEF AccountInv, IsList
      <4>2. ~Exempt(k, i)
        BY <3>2, <3>4 DEF Exempt
      <4>3. There(k, i, q)
        BY <2>1, <3>1, <3>3, <4>1, <4>2 DEF AccountInv, Behind
      <4>. QED
        BY <3>2, <4>3 DEF There
    <3>5. ASSUME NEW i \in 1 .. Len(plan[k]), plan[k][i].runs, "quiet" \notin plan[k][i].fails,
                 ~\E j \in 1 .. i : <<p, j>> \in warnings
          PROVE  {i} \X (1 .. Len(plan[k][i].points)) \subseteq there
      <4>. HIDE DEF there
      <4>1. ASSUME NEW q \in 1 .. Len(plan[k][i].points) PROVE <<i, q>> \in there
        BY <3>4, <3>5
      <4>. QED
        BY <4>1
    <3>. QED
      BY <3>2, <3>5
  <2>. QED
    BY <2>2, <2>3, <2>4 DEF DocumentIsComplete
<1>. QED
  BY <1>1, RunInvariant, PTL

\* On any machine whose sysfs tells its cores apart: no two threads that are said
\* to be on cores of their own share one, a scaling point takes its cores in
\* turn from the nodes, and the last of the full sweep has one on every core.
THEOREM CoresAreTheirOwn == Spec => []ThreadsOnOwnCores
<1>1. ASSUME IInv, OriginInv
      PROVE  ThreadsOnOwnCores
  <2>. SUFFICES ASSUME stdout = "document", NEW o \in observations
       PROVE  LET share(n) == Cardinality({c \in o.cpus : NodeOf(c) = n})
                  cores(n) == Cardinality({r.unit : r \in {r \in ToSet(cpus) : r.node = n}})
              IN  /\ o.label \in {"none", "physical-cores"} /\ SiblingsTold =>
                       \A c, d \in o.cpus : c # d => Unit(c) # Unit(d)
                  /\ o.label = "physical-cores" => Cardinality(o.cpus) = Len(o.workers)
                  /\ CoresTold /\ SiblingsTold /\ SharingTold =>
                       /\ o.label = "smt-siblings" => Cardinality({Unit(c) : c \in o.cpus}) = 1
                       /\ o.label = "physical-cores" =>
                            \A m, n \in Nodes : share(m) < share(n) - 1 => share(m) = cores(m)
                       /\ o.probe = "memory-bandwidth" /\ command.profile \in {"standard", "deep"}
                            /\ o.point = Len(MemoryBandwidthParts[1].points) =>
                            {Unit(c) : c \in o.cpus} = Units
    BY DEF ThreadsOnOwnCores
  <2>1. /\ Found /\ \A k \in DOMAIN plan : Chosen(selected[k], plan[k])
        /\ Seen(o)
    BY <1>1 DEF OriginInv
  <2>2. PICK k, i, q : /\ k \in DOMAIN plan /\ i \in DOMAIN plan[k]
                       /\ q \in DOMAIN plan[k][i].points /\ SeenAt(o, k, i, q)
    BY <2>1 DEF Seen
  <2>. DEFINE pt == plan[k][i].points[q]
  <2>3. /\ o.probe = selected[k] /\ o.part = i /\ o.point = q
        /\ o.cpus = Threads(pt) /\ o.workers = pt.workers /\ o.label = pt.label
    BY <2>2 DEF SeenAt
  <2>4. OnCores(pt)
    BY <2>1, <2>2 DEF Chosen, AllOnCores
  <2>5. ASSUME CoresTold, o.probe = "memory-bandwidth", command.profile \in {"standard", "deep"},
               o.point = Len(MemoryBandwidthParts[1].points)
        PROVE  {Unit(c) : c \in o.cpus} = Units
    <3>1. plan[k] = MemoryBandwidthParts
      BY <2>1, <2>2, <2>3, <2>5 DEF Chosen
    <3>2. DOMAIN MemoryBandwidthParts = {1}
      BY DEF MemoryBandwidthParts
    <3>3. o.cpus = ToSet(Physical)
      BY <2>1, <2>2, <2>3, <2>5, <3>1, <3>2, SweepEnds
    <3>4. /\ Cores \subseteq ToSet(cpus) /\ ToSet(Physical) = {p.cpu : p \in Cores}
          /\ \A r \in ToSet(cpus) : \E p \in Cores : SameCore(p, r)
      BY <2>1, CoresAre
    <3>5. {Unit(c) : c \in o.cpus} = {p.unit : p \in Cores}
      BY <2>1, <3>3, <3>4, UnitsAre
    <3>6. \A r \in ToSet(cpus) : \E p \in Cores : p.unit = r.unit
      BY <2>5, <3>4 DEF CoresTold
    <3>. QED
      BY <3>4, <3>5, <3>6 DEF Units
  <2>. HIDE DEF pt
  <2>. QED
    BY <2>1, <2>3, <2>4, <2>5, SharesAreEven
<1>. QED
  BY <1>1, RunHasOrigin, PTL

\* On any machine whose sysfs tells its cores apart, and in every profile: a run
\* that ends well has a core-to-core latency for each kind of path there is
\* between two of its CPUs, and every one is called what it is.
THEOREM PathsAreAllCovered == Spec => []PathsAreCovered
<1>1. ASSUME IInv, OriginInv
      PROVE  PathsAreCovered
  <2>. SUFFICES ASSUME stdout = "document", "core-latency" \in ToSet(selected),
                       CoresTold, SiblingsTold, SharingTold
       PROVE  LET measured == {o \in observations : o.probe = "core-latency"}
                  pairs == {p \in ToSet(cpus) \X ToSet(cpus) : p[1].cpu < p[2].cpu}
              IN  /\ \A o \in measured :
                       o.label = TrueRelation(Here(o.workers[1]), Here(o.workers[2]))
                  /\ {o.label : o \in measured} = {TrueRelation(p[1], p[2]) : p \in pairs}
    BY DEF PathsAreCovered
  <2>. DEFINE measured == {o \in observations : o.probe = "core-latency"}
              paths == {p \in ToSet(cpus) \X ToSet(cpus) : p[1].cpu < p[2].cpu}
              pairs == HandoffPairs(command.profile, cpus)
  <2>1. Found
    BY <1>1 DEF OriginInv
  <2>2. ASSUME NEW a \in ToSet(cpus), NEW b \in ToSet(cpus)
        PROVE  TrueRelation(a, b) = CpuRelation(a, b)
    <3>1. CASE a.unit = b.unit
      <4>1. SameCore(a, b)
        BY <3>1 DEF SiblingsTold
      <4>. QED
        BY <3>1, <4>1 DEF TrueRelation, CpuRelation
    <3>2. CASE a.unit # b.unit
      BY <3>2 DEF TrueRelation
    <3>. QED
      BY <3>1, <3>2
  <2>3. \A q \in 1 .. Len(pairs) :
          /\ pairs[q][1] \in ToSet(cpus) /\ pairs[q][2] \in ToSet(cpus)
          /\ pairs[q][1].cpu < pairs[q][2].cpu
    BY <2>1, PairsAre
  <2>4. \A o \in measured : \E q \in 1 .. Len(pairs) :
          /\ o.point = q /\ o.workers = <<pairs[q][1].cpu, pairs[q][2].cpu>>
          /\ o.label = CpuRelation(pairs[q][1], pairs[q][2])
    BY <1>1, HandoffsSeen
  <2>5. ASSUME NEW a \in ToSet(cpus), NEW b \in ToSet(cpus), a.cpu < b.cpu
        PROVE  \E q \in 1 .. Len(pairs) : CpuRelation(pairs[q][1], pairs[q][2]) = CpuRelation(a, b)
    BY <2>1, <2>5, PairsCover
  <2>6. ASSUME NEW a \in ToSet(cpus), NEW b \in ToSet(cpus), a.cpu < b.cpu
        PROVE  Len(cpus) > 1
    <3>1. IsList(cpus)
      BY <2>1, ListOf DEF Found
    <3>2. PICK i \in 1 .. Len(cpus), j \in 1 .. Len(cpus) : cpus[i] = a /\ cpus[j] = b
      BY <3>1 DEF ToSet, IsList
    <3>3. a.cpu \in Nat /\ b.cpu \in Nat
      BY <2>1, CpusApart DEF Known
    <3>4. i # j
      BY <2>6, <3>2, <3>3
    <3>. QED
      BY <3>1, <3>2, <3>4 DEF IsList
  <2>7. ASSUME NEW q \in 1 .. Len(pairs)
        PROVE  \E o \in measured : o.point = q
    <3>1. Len(cpus) > 1
      BY <2>3, <2>6
    <3>2. \E o \in observations : o.probe = "core-latency" /\ o.point = q
      BY <1>1, <3>1, HandoffsThere
    <3>. QED
      BY <3>2
  <2>. HIDE DEF measured, pairs
  <2>8. ASSUME NEW o \in measured
        PROVE  /\ o.label = TrueRelation(Here(o.workers[1]), Here(o.workers[2]))
               /\ \E p \in paths : o.label = TrueRelation(p[1], p[2])
    <3>1. PICK q \in 1 .. Len(pairs) :
            /\ o.point = q /\ o.workers = <<pairs[q][1].cpu, pairs[q][2].cpu>>
            /\ o.label = CpuRelation(pairs[q][1], pairs[q][2])
      BY <2>4
    <3>2. PICK a \in ToSet(cpus), b \in ToSet(cpus) :
            a = pairs[q][1] /\ b = pairs[q][2] /\ a.cpu < b.cpu
      BY <2>3
    <3>3. o.label = TrueRelation(a, b) /\ o.workers[1] = a.cpu /\ o.workers[2] = b.cpu
      BY <2>2, <3>1, <3>2
    <3>4. Here(a.cpu) = a /\ Here(b.cpu) = b
      BY <2>1, CpusApart
    <3>5. <<a, b>> \in paths
      BY <3>2
    <3>. QED
      BY <3>3, <3>4, <3>5
  <2>9. ASSUME NEW p \in paths
        PROVE  \E o \in measured : o.label = TrueRelation(p[1], p[2])
    <3>1. PICK a \in ToSet(cpus), b \in ToSet(cpus) : p = <<a, b>> /\ a.cpu < b.cpu
      OBVIOUS
    <3>2. PICK q \in 1 .. Len(pairs) : CpuRelation(pairs[q][1], pairs[q][2]) = CpuRelation(a, b)
      BY <2>5, <3>1
    <3>3. PICK o \in measured : o.point = q
      BY <2>7
    <3>4. PICK r \in 1 .. Len(pairs) : o.point = r /\ o.label = CpuRelation(pairs[r][1], pairs[r][2])
      BY <2>4
    <3>. QED
      BY <2>2, <3>1, <3>2, <3>3, <3>4
  <2>. HIDE DEF paths
  <2>10. {o.label : o \in measured} = {TrueRelation(p[1], p[2]) : p \in paths}
    BY <2>8, <2>9
  <2>. QED
    BY <2>8, <2>10 DEF measured, paths
<1>. QED
  BY <1>1, RunHasOrigin, PTL
================================================================================
