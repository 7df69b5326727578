---------------------------- MODULE WorkspaceProofs ----------------------------
(***************************************************************************)
(* Proofs about Workspace, for any reports, tasks, limit and session       *)
(* histories.                                                              *)
(***************************************************************************)
EXTENDS Workspace, Integers, WellFoundedInduction, SequenceTheorems, TLAPS

--------------------------------------------------------------------------------
(* Induction and recursion over the natural numbers, for sets and functions. *)

LEMMA Least ==
  ASSUME NEW T \in SUBSET Nat, T # {}
  PROVE  \E x \in T : \A y \in T : x <= y
<1>1. PICK R : R = OpToRel(<, Nat)
  OBVIOUS
<1>2. IsWellFoundedOn(R, Nat)
  BY <1>1, NatLessThanWellFounded
<1>3. PICK x \in T : \A y \in T : ~ (<<y, x>> \in R)
  BY <1>2, WFMin
<1>4. \A y \in Nat, z \in Nat : y < z => <<y, z>> \in R
  BY <1>1 DEF OpToRel
<1>5. ASSUME NEW y \in T
      PROVE  x <= y
  <2>1. x \in Nat /\ y \in Nat
    OBVIOUS
  <2>2. ~(y < x)
    BY <1>3, <1>4, <2>1
  <2>. QED
    BY <2>1, <2>2
<1>. QED
  BY <1>5

LEMMA Induction ==
  ASSUME NEW T, 0 \in T, \A n \in Nat : n \in T => n + 1 \in T
  PROVE  Nat \subseteq T
<1>. SUFFICES ASSUME Nat \ T # {} PROVE FALSE
  OBVIOUS
<1>1. PICK x \in Nat \ T : \A y \in Nat \ T : x <= y
  BY Least
<1>2. x # 0 /\ x - 1 \in Nat
  BY <1>1
<1>3. x - 1 \in T
  BY <1>1, <1>2
<1>. QED
  BY <1>1, <1>2, <1>3

\* A function is given by its first value and the step from each to the next.
Defined(X, a, m, step) ==
  \E f \in [0 .. m -> X] : f[0] = a /\ \A n \in 1 .. m : f[n] = step[<<n, f[n - 1]>>]

LEMMA Recursion ==
  ASSUME NEW X, NEW a \in X, NEW m \in Nat, NEW step \in [(1 .. m) \X X -> X]
  PROVE  Defined(X, a, m, step)
<1>. DEFINE Upto(k, f) ==
       f \in [0 .. k -> X] /\ f[0] = a /\ \A n \in 1 .. k : f[n] = step[<<n, f[n - 1]>>]
     T == {k \in Nat : k <= m => \E f : Upto(k, f)}
<1>1. 0 \in T
  <2>1. Upto(0, [i \in 0 .. 0 |-> a])
    OBVIOUS
  <2>. QED
    BY <2>1
<1>2. ASSUME NEW k \in Nat, k \in T
      PROVE  k + 1 \in T
  <2>. SUFFICES ASSUME k + 1 <= m
       PROVE  \E f : Upto(k + 1, f)
    OBVIOUS
  <2>1. PICK f : Upto(k, f)
    BY <1>2
  <2>. DEFINE g == [n \in 0 .. k + 1 |-> IF n = k + 1 THEN step[<<n, f[k]>>] ELSE f[n]]
  <2>2. f[k] \in X /\ k + 1 \in 1 .. m
    BY <2>1
  <2>3. step[<<k + 1, f[k]>>] \in X
    BY <2>2
  <2>4. \A n \in 0 .. k : f[n] \in X /\ n \in 0 .. k + 1 /\ n # k + 1
    BY <2>1
  <2>5. \A n \in 0 .. k + 1 : n = k + 1 \/ n \in 0 .. k
    OBVIOUS
  <2>6. g \in [0 .. k + 1 -> X]
    BY <2>3, <2>4, <2>5
  <2>7. \A n \in 0 .. k : g[n] = f[n]
    BY <2>4
  <2>8. g[k + 1] = step[<<k + 1, g[k]>>]
    BY <2>7
  <2>9. ASSUME NEW n \in 1 .. k + 1
        PROVE  g[n] = step[<<n, g[n - 1]>>]
    <3>1. CASE n = k + 1
      BY <2>8, <3>1
    <3>2. CASE n # k + 1
      <4>1. n \in 1 .. k /\ n \in 0 .. k /\ n - 1 \in 0 .. k
        BY <3>2
      <4>. QED
        BY <2>1, <2>7, <4>1
    <3>. QED
      BY <3>1, <3>2
  <2>10. g[0] = a
    BY <2>1, <2>7
  <2>. HIDE DEF g
  <2>. QED
    BY <2>6, <2>9, <2>10
<1>3. m \in T
  <2>. HIDE DEF T
  <2>. QED
    BY <1>1, <1>2, Induction
<1>. QED
  BY <1>3 DEF Defined

--------------------------------------------------------------------------------
(* What the operators on sequences return. *)

LEMMA Appended ==
  ASSUME NEW E, NEW s \in Seq(E), NEW e \in E
  PROVE  Append(s, e) \in Seq(E) /\ ToSet(Append(s, e)) = ToSet(s) \cup {e}
<1>1. Append(s, e) \in Seq(E) /\ Len(Append(s, e)) = Len(s) + 1 /\ Len(s) \in Nat
  OBVIOUS
<1>2. /\ \A n \in 1 .. Len(s) : Append(s, e)[n] = s[n]
      /\ Append(s, e)[Len(s) + 1] = e
  OBVIOUS
<1>3. DOMAIN Append(s, e) = DOMAIN s \cup {Len(s) + 1} /\ DOMAIN s = 1 .. Len(s)
  BY <1>1
<1>. QED
  BY <1>1, <1>2, <1>3 DEF ToSet

LEMMA SetAdd ==
  ASSUME NEW E, NEW s \in Seq(E), NEW e \in E
  PROVE  Added(s, e) \in Seq(E) /\ ToSet(Added(s, e)) = ToSet(s) \cup {e}
BY Appended DEF Added

KeptStep(kept, ids, S, n) ==
  IF n = 0 THEN <<>>
  ELSE IF ids[n] \in S THEN Append(kept[n - 1], ids[n]) ELSE kept[n - 1]

LEMMA Filtered ==
  ASSUME NEW E, NEW ids \in Seq(E), NEW S
  PROVE  Kept(ids, S) \in Seq(E) /\ ToSet(Kept(ids, S)) = ToSet(ids) \cap S
<1>. DEFINE m == Len(ids)
            kept == CHOOSE k : k = [n \in 0 .. m |-> KeptStep(k, ids, S, n)]
<1>1. m \in Nat /\ \A n \in 1 .. m : ids[n] \in E
  OBVIOUS
<1>2. kept = [n \in 0 .. m |-> KeptStep(kept, ids, S, n)]
  <2>. DEFINE step == [p \in (1 .. m) \X Seq(E) |->
                         IF ids[p[1]] \in S THEN Append(p[2], ids[p[1]]) ELSE p[2]]
  <2>1. step \in [(1 .. m) \X Seq(E) -> Seq(E)]
    BY <1>1, Appended
  <2>2. PICK f \in [0 .. m -> Seq(E)] :
          f[0] = <<>> /\ \A n \in 1 .. m : f[n] = step[<<n, f[n - 1]>>]
    <3>. HIDE DEF step, m
    <3>1. <<>> \in Seq(E)
      OBVIOUS
    <3>2. Defined(Seq(E), <<>>, m, step)
      BY <1>1, <2>1, <3>1, Recursion
    <3>. QED
      BY <3>2 DEF Defined
  <2>3. ASSUME NEW n \in 0 .. m
        PROVE  f[n] = KeptStep(f, ids, S, n)
    <3>1. CASE n = 0
      BY <2>2, <3>1 DEF KeptStep
    <3>2. CASE n # 0
      <4>1. n \in 1 .. m /\ n - 1 \in 0 .. m
        BY <1>1, <3>2
      <4>2. f[n - 1] \in Seq(E)
        BY <4>1
      <4>. QED
        BY <2>2, <3>2, <4>1, <4>2 DEF KeptStep
    <3>. QED
      BY <3>1, <3>2
  <2>4. f = [n \in 0 .. m |-> KeptStep(f, ids, S, n)]
    BY <2>3
  <2>. QED
    BY <2>4, Zenon
<1>3. Kept(ids, S) = kept[m]
  BY DEF Kept, KeptStep
<1>. HIDE DEF kept
<1>. DEFINE Before(n) == {ids[i] : i \in 1 .. n}
            T == {n \in Nat : n <= m => /\ kept[n] \in Seq(E)
                                        /\ ToSet(kept[n]) = Before(n) \cap S}
<1>4. 0 \in T
  <2>1. kept[0] = <<>>
    BY <1>1, <1>2 DEF KeptStep
  <2>2. Before(0) = {} /\ <<>> \in Seq(E) /\ ToSet(<<>>) = {}
    BY DEF ToSet
  <2>. QED
    BY <2>1, <2>2
<1>5. ASSUME NEW n \in Nat, n \in T
      PROVE  n + 1 \in T
  <2>. SUFFICES ASSUME n + 1 <= m
       PROVE  kept[n + 1] \in Seq(E) /\ ToSet(kept[n + 1]) = Before(n + 1) \cap S
    OBVIOUS
  <2>1. kept[n] \in Seq(E) /\ ToSet(kept[n]) = Before(n) \cap S
    BY <1>1, <1>5
  <2>2. kept[n + 1] = IF ids[n + 1] \in S THEN Append(kept[n], ids[n + 1]) ELSE kept[n]
    <3>1. n + 1 \in 0 .. m /\ n + 1 # 0 /\ (n + 1) - 1 = n
      BY <1>1
    <3>. QED
      BY <1>2, <3>1 DEF KeptStep
  <2>3. Before(n + 1) = Before(n) \cup {ids[n + 1]}
    <3>1. 1 .. n + 1 = (1 .. n) \cup {n + 1}
      OBVIOUS
    <3>. QED
      BY <3>1
  <2>4. ids[n + 1] \in E
    BY <1>1
  <2>. HIDE DEF Before
  <2>. QED
    BY <2>1, <2>2, <2>3, <2>4, Appended
<1>6. m \in T
  <2>. HIDE DEF T
  <2>. QED
    BY <1>1, <1>4, <1>5, Induction
<1>7. Before(m) = ToSet(ids)
  BY DEF ToSet
<1>. QED
  BY <1>1, <1>3, <1>6, <1>7

LEMMA SetAddAll ==
  ASSUME NEW E, NEW set \in Seq(E), NEW ids \in Seq(E)
  PROVE  AddAll(set, ids) \in Seq(E) /\ ToSet(AddAll(set, ids)) = ToSet(set) \cup ToSet(ids)
<1>. DEFINE m == Len(ids)
            Step(f, n) == IF n = 0 THEN set ELSE Added(f[n - 1], ids[n])
            sets == CHOOSE f : f = [n \in 0 .. m |-> Step(f, n)]
<1>1. m \in Nat /\ \A n \in 1 .. m : ids[n] \in E
  OBVIOUS
<1>2. sets = [n \in 0 .. m |-> Step(sets, n)]
  <2>. DEFINE step == [p \in (1 .. m) \X Seq(E) |-> Added(p[2], ids[p[1]])]
  <2>1. step \in [(1 .. m) \X Seq(E) -> Seq(E)]
    BY <1>1, SetAdd
  <2>2. PICK f \in [0 .. m -> Seq(E)] :
          f[0] = set /\ \A n \in 1 .. m : f[n] = step[<<n, f[n - 1]>>]
    <3>. HIDE DEF step, m
    <3>2. Defined(Seq(E), set, m, step)
      BY <1>1, <2>1, Recursion
    <3>. QED
      BY <3>2 DEF Defined
  <2>3. ASSUME NEW n \in 0 .. m
        PROVE  f[n] = Step(f, n)
    <3>1. CASE n = 0
      BY <2>2, <3>1
    <3>2. CASE n # 0
      <4>1. n \in 1 .. m /\ n - 1 \in 0 .. m
        BY <1>1, <3>2
      <4>2. f[n - 1] \in Seq(E)
        BY <4>1
      <4>. QED
        BY <2>2, <3>2, <4>1, <4>2
    <3>. QED
      BY <3>1, <3>2
  <2>4. f = [n \in 0 .. m |-> Step(f, n)]
    BY <2>3
  <2>. HIDE DEF Step
  <2>. QED
    BY <2>4, Zenon
<1>3. AddAll(set, ids) = sets[m]
  BY DEF AddAll
<1>. HIDE DEF sets
<1>. DEFINE Before(n) == {ids[i] : i \in 1 .. n}
            T == {n \in Nat : n <= m => /\ sets[n] \in Seq(E)
                                        /\ ToSet(sets[n]) = ToSet(set) \cup Before(n)}
<1>4. 0 \in T
  <2>1. sets[0] = set /\ Before(0) = {}
    BY <1>1, <1>2
  <2>. HIDE DEF Before
  <2>. QED
    BY <2>1
<1>5. ASSUME NEW n \in Nat, n \in T
      PROVE  n + 1 \in T
  <2>. SUFFICES ASSUME n + 1 <= m
       PROVE  /\ sets[n + 1] \in Seq(E)
              /\ ToSet(sets[n + 1]) = ToSet(set) \cup Before(n + 1)
    OBVIOUS
  <2>1. sets[n] \in Seq(E) /\ ToSet(sets[n]) = ToSet(set) \cup Before(n)
    BY <1>1, <1>5
  <2>2. sets[n + 1] = Added(sets[n], ids[n + 1])
    <3>1. n + 1 \in 0 .. m /\ n + 1 # 0 /\ (n + 1) - 1 = n
      BY <1>1
    <3>. QED
      BY <1>2, <3>1
  <2>3. Before(n + 1) = Before(n) \cup {ids[n + 1]}
    <3>1. 1 .. n + 1 = (1 .. n) \cup {n + 1}
      OBVIOUS
    <3>. QED
      BY <3>1
  <2>4. ids[n + 1] \in E
    BY <1>1
  <2>. HIDE DEF Before
  <2>. QED
    BY <2>1, <2>2, <2>3, <2>4, SetAdd
<1>6. m \in T
  <2>. HIDE DEF T
  <2>. QED
    BY <1>1, <1>4, <1>5, Induction
<1>7. Before(m) = ToSet(ids)
  BY DEF ToSet
<1>. QED
  BY <1>1, <1>3, <1>6, <1>7

LEMMA FirstIsIn ==
  ASSUME WorkspaceAssumption, NEW S \in SUBSET Ids, S # {}
  PROVE  First(S) \in S
<1>1. \E i \in S : \A j \in S : i <= j
  BY Least DEF WorkspaceAssumption
<1>. QED
  BY <1>1 DEF First

--------------------------------------------------------------------------------
(* The inductive invariant. *)

\* While the page shows the spinner, a task is there that will replace it, or
\* one has failed.
SpinnerInv ==
  view = Loading => SomeFailed \/ \E t \in Tasks : task[t].stage = "loading"

\* What a task waits for is all that its reports lack.
JobsInv ==
  \A t \in Tasks : task[t].stage = "loading" =>
    /\ ToSet(task[t].ids) \subseteq reports \cup task[t].pending
    /\ Len(task[t].ids) \in 1 .. Limit

\* No task is there that will render the rows.
Settled ==
  \A t \in Tasks : /\ task[t].stage # "listing"
                   /\ task[t].stage = "loading" => task[t].op = "open"

\* The rows are what they should be, or a task will render them.
RowsInv == Settled /\ ~SomeFailed => rows = Rendered(catalog, selected, query)

IInv == TypeOK /\ SpinnerInv /\ JobsInv /\ RowsInv /\ ViewIsLoaded

LEMMA JobKinds ==
  /\ Unused \in Job /\ Listing \in Job /\ [Unused EXCEPT !.stage = "done"] \in Job
  /\ Listing.stage = "listing" /\ [Unused EXCEPT !.stage = "done"].stage = "done"
<1>1. <<>> \in Seq(Ids)
  OBVIOUS
<1>2. Unused \in Job
  BY <1>1 DEF Unused, Job
<1>3. /\ Unused.stage = "unused" /\ Unused.op = "none" /\ Unused.ids = <<>>
      /\ Unused.pending = {}
  BY DEF Unused
<1>4. /\ [Unused EXCEPT !.stage = "done"] \in Job
      /\ [Unused EXCEPT !.stage = "done"].stage = "done"
  BY <1>2 DEF Job
<1>5. Listing \in Job /\ Listing.stage = "listing"
  BY <1>2 DEF Job, Listing
<1>. QED
  BY <1>2, <1>4, <1>5

LEMMA InitIInv == Init => IInv
<1>. SUFFICES ASSUME Init PROVE IInv
  OBVIOUS
<1>1. /\ Startup \in Tasks /\ Ids \in Queries /\ Contents \subseteq SUBSET Ids
      /\ Sessions \subseteq Seq(Seq(Ids))
  BY WorkspaceAssumption DEF WorkspaceAssumption
<1>2. \A t \in Tasks : task[t] = IF t = Startup THEN Listing ELSE Unused
  BY DEF Init
<1>3. <<>> \in Seq(Ids) /\ Unused \in Job /\ Listing \in Job /\ Listing.stage = "listing"
      /\ Unused.stage = "unused"
  BY JobKinds DEF Unused
<1>4. TypeOK
  <2>1. task \in [Tasks -> Job]
    BY <1>3 DEF Init
  <2>2. view \in [kind : {"blank", "loading", "empty", "broken", "reports"}, ids : Seq(Ids)]
    BY <1>3 DEF Init, Blank
  <2>3. rows \in [shown : SUBSET Ids, ticked : SUBSET Ids] /\ rows.ticked \subseteq rows.shown
    BY DEF Init
  <2>4. visits \in Seq(Seq(Ids)) /\ at \in DOMAIN visits
    BY <1>1 DEF Init
  <2>5. server \subseteq Ids /\ catalog \subseteq Ids /\ reports \subseteq Ids
        /\ selected \in Seq(Ids) /\ routeIds \in Seq(Ids) /\ query \in Queries
    BY <1>1, <1>3 DEF Init
  <2>. QED
    BY <2>1, <2>2, <2>3, <2>4, <2>5 DEF TypeOK
<1>5. SpinnerInv /\ ViewIsLoaded
  BY DEF Init, SpinnerInv, ViewIsLoaded, Blank, Loading
<1>6. JobsInv
  BY <1>2, <1>3 DEF JobsInv
<1>7. RowsInv
  BY <1>1, <1>2, <1>3 DEF RowsInv, Settled
<1>. QED
  BY <1>4, <1>5, <1>6, <1>7 DEF IInv

\* A task ends: the others are what they were.
LEMMA TaskEnds ==
  ASSUME TypeOK, NEW t \in Tasks, Done(t)
  PROVE  /\ task' \in [Tasks -> Job]
         /\ task'[t].stage = "done"
         /\ \A u \in Tasks : u # t => task'[u] = task[u]
<1>1. [Unused EXCEPT !.stage = "done"] \in Job /\ [Unused EXCEPT !.stage = "done"].stage = "done"
  BY JobKinds
<1>2. task \in [Tasks -> Job]
  BY DEF TypeOK
<1>. QED
  BY <1>1, <1>2 DEF Done

\* The page is rendered.
LEMMA FinishIInv ==
  ASSUME IInv, NEW t \in Tasks, NEW op, NEW known \in Seq(Ids), NEW list \in SUBSET Ids,
         NEW chosen \in Seq(Ids), NEW here \in DOMAIN visits,
         Finish(op, known, list, chosen, here), Done(t),
         task[t].stage # "failed",
         reports \subseteq reports', reports' \subseteq Ids, ToSet(known) \subseteq reports',
         Len(known) \in 1 .. Limit, op = "auto" => list # {},
         UNCHANGED <<server, query>>, catalog' = list, selected' = chosen,
         op = "open" => /\ catalog' = catalog /\ selected' = selected
                        /\ \/ task[t].stage = "unused"
                           \/ task[t].stage = "loading" /\ task[t].op = "open"
  PROVE  IInv'
<1>1. /\ task' \in [Tasks -> Job] /\ task'[t].stage = "done"
      /\ \A u \in Tasks : u # t => task'[u] = task[u]
  BY TaskEnds DEF IInv
<1>2. routeIds' = known /\ view' = Report(known)
      /\ Route(op, known, list, here) /\ Epilogue(op, list, chosen)
  BY DEF Finish
<1>3. visits' \in Seq(Seq(Ids)) /\ at' \in DOMAIN visits'
  <2>1. visits \in Seq(Seq(Ids)) /\ here \in 1 .. Len(visits)
    BY DEF IInv, TypeOK
  <2>2. CASE op \in {"open", "compare"}
    <3>1. SubSeq(visits, 1, here) \in Seq(Seq(Ids)) /\ Len(SubSeq(visits, 1, here)) = here
      BY <2>1
    <3>2. visits' = Append(SubSeq(visits, 1, here), known) /\ at' = here + 1
      BY <1>2, <2>2 DEF Route
    <3>. QED
      BY <2>1, <3>1, <3>2
  <2>3. CASE op \notin {"open", "compare"}
    <3>1. CASE op = "auto"
      <4>1. First(list) \in Ids
        BY <3>1, FirstIsIn, WorkspaceAssumption
      <4>2. <<First(list)>> \in Seq(Ids)
        BY <4>1
      <4>3. at' = here /\ visits' = [visits EXCEPT ![here] = <<First(list)>>]
        BY <1>2, <3>1 DEF Route
      <4>. QED
        BY <2>1, <4>2, <4>3
    <3>2. CASE op # "auto"
      BY <1>2, <2>1, <2>3, <3>2 DEF Route
    <3>. QED
      BY <3>1, <3>2
  <2>. QED
    BY <2>2, <2>3
<1>4. rows' \in [shown : SUBSET Ids, ticked : SUBSET Ids] /\ rows'.ticked \subseteq rows'.shown
  BY <1>2 DEF Epilogue, Rendered, IInv, TypeOK
<1>5. view' \in [kind : {"blank", "loading", "empty", "broken", "reports"}, ids : Seq(Ids)]
      /\ view'.kind = "reports" /\ view'.ids = known
  BY <1>2 DEF Report
<1>6. TypeOK'
  BY <1>1, <1>2, <1>3, <1>4, <1>5 DEF IInv, TypeOK
<1>7. SpinnerInv'
  BY <1>5 DEF SpinnerInv, Loading
<1>8. JobsInv'
  BY <1>1 DEF IInv, JobsInv
<1>9. RowsInv'
  <2>1. CASE op = "open"
    <3>1. rows' = rows
      BY <1>2, <2>1 DEF Epilogue
    <3>2. ASSUME Settled', ~SomeFailed'
          PROVE  Settled /\ ~SomeFailed
      BY <1>1, <2>1, <3>2 DEF Settled, SomeFailed
    <3>. QED
      BY <2>1, <3>1, <3>2 DEF IInv, RowsInv, Rendered
  <2>2. CASE op # "open"
    BY <1>2, <2>2 DEF Epilogue, RowsInv, Rendered
  <2>. QED
    BY <2>1, <2>2
<1>10. ViewIsLoaded'
  BY <1>5 DEF ViewIsLoaded
<1>. QED
  BY <1>6, <1>7, <1>8, <1>9, <1>10 DEF IInv

\* showReports: nothing to show, or loading begins, or all is there.
LEMMA ShowIInv ==
  ASSUME IInv, NEW t \in Tasks, NEW op \in {"open", "compare", "popstate", "route", "auto"},
         NEW ids \in Seq(Ids), NEW list \in SUBSET Ids, NEW chosen \in Seq(Ids),
         NEW here \in DOMAIN visits,
         ShowReports(t, op, ids, list, chosen, here),
         task[t].stage \in {"unused", "listing"},
         UNCHANGED <<server, reports, query>>, catalog' = list, selected' = chosen,
         op = "open" =>
           catalog' = catalog /\ selected' = selected /\ task[t].stage = "unused"
  PROVE  IInv'
<1>. DEFINE known == Kept(ids, list)
            missing == ToSet(known) \ reports
<1>1. /\ known \in Seq(Ids) /\ ToSet(known) \subseteq Ids /\ Len(known) \in Nat
      /\ ToSet(known) \subseteq list
  <2>1. known \in Seq(Ids) /\ ToSet(known) = ToSet(ids) \cap list
    BY Filtered
  <2>. QED
    BY <2>1
<1>2. Limit \in Nat \ {0}
  BY WorkspaceAssumption DEF WorkspaceAssumption
<1>. HIDE DEF known
<1>4. ~Refused(known) => Len(known) \in 1 .. Limit
  BY <1>1, <1>2 DEF Refused
<1>5. CASE /\ Refused(known)
           /\ view' = IF known = <<>> THEN Empty ELSE view
           /\ at' = here
           /\ Epilogue(op, list, chosen)
           /\ Done(t)
           /\ UNCHANGED <<routeIds, visits>>
  <2>1. /\ task' \in [Tasks -> Job] /\ task'[t].stage = "done"
        /\ \A u \in Tasks : u # t => task'[u] = task[u]
    BY <1>5, TaskEnds DEF IInv
  <2>2. rows' \in [shown : SUBSET Ids, ticked : SUBSET Ids] /\ rows'.ticked \subseteq rows'.shown
    BY <1>5 DEF Epilogue, Rendered, IInv, TypeOK
  <2>3. Empty \in [kind : {"blank", "loading", "empty", "broken", "reports"}, ids : Seq(Ids)]
        /\ Empty.kind = "empty" /\ Loading.kind = "loading"
    <3>1. <<>> \in Seq(Ids)
      OBVIOUS
    <3>. QED
      BY <3>1 DEF Empty, Loading
  <2>4. TypeOK'
    BY <1>5, <2>1, <2>2, <2>3 DEF IInv, TypeOK
  <2>5. SpinnerInv'
    <3>. SUFFICES ASSUME view' = Loading, ~SomeFailed'
         PROVE  \E u \in Tasks : task'[u].stage = "loading"
      BY DEF SpinnerInv
    <3>1. view = Loading
      BY <1>5, <2>3
    <3>2. ~SomeFailed
      BY <2>1 DEF SomeFailed
    <3>. QED
      BY <2>1, <3>1, <3>2 DEF IInv, SpinnerInv
  <2>6. JobsInv'
    BY <2>1 DEF IInv, JobsInv
  <2>7. RowsInv'
    <3>1. CASE op = "open"
      <4>1. rows' = rows
        BY <1>5, <3>1 DEF Epilogue
      <4>2. ASSUME Settled', ~SomeFailed'
            PROVE  Settled /\ ~SomeFailed
        BY <2>1, <3>1, <4>2 DEF Settled, SomeFailed
      <4>. QED
        BY <3>1, <4>1, <4>2 DEF IInv, RowsInv, Rendered
    <3>2. CASE op # "open"
      BY <1>5, <3>2 DEF Epilogue, RowsInv, Rendered
    <3>. QED
      BY <3>1, <3>2
  <2>8. ViewIsLoaded'
    BY <1>5, <2>3 DEF IInv, ViewIsLoaded
  <2>. QED
    BY <2>4, <2>5, <2>6, <2>7, <2>8 DEF IInv
<1>6. CASE /\ ~Refused(known) /\ missing # {}
           /\ view' = Loading
           /\ at' = here
           /\ task' = [task EXCEPT ![t] =
                [stage |-> "loading", op |-> op, ids |-> known, pending |-> missing]]
           /\ UNCHANGED <<routeIds, visits, rows>>
  <2>. DEFINE job == [stage |-> "loading", op |-> op, ids |-> known, pending |-> missing]
  <2>1. job \in Job /\ job.stage = "loading" /\ job.op = op /\ job.ids = known /\ job.pending = missing
    BY <1>1 DEF Job
  <2>. HIDE DEF job
  <2>2. /\ task' \in [Tasks -> Job] /\ task'[t] = job
        /\ \A u \in Tasks : u # t => task'[u] = task[u]
    <3>1. task' = [task EXCEPT ![t] = job] /\ task \in [Tasks -> Job]
      BY <1>6 DEF job, IInv, TypeOK
    <3>. QED
      BY <2>1, <3>1
  <2>3. Loading \in [kind : {"blank", "loading", "empty", "broken", "reports"}, ids : Seq(Ids)]
        /\ Loading.kind = "loading"
    <3>1. <<>> \in Seq(Ids)
      OBVIOUS
    <3>. QED
      BY <3>1 DEF Loading
  <2>4. TypeOK'
    BY <1>6, <2>2, <2>3 DEF IInv, TypeOK
  <2>5. SpinnerInv'
    BY <2>1, <2>2 DEF SpinnerInv
  <2>6. JobsInv'
    BY <1>4, <1>6, <2>1, <2>2 DEF IInv, JobsInv
  <2>7. RowsInv'
    <3>1. CASE op = "open"
      <4>1. ASSUME Settled', ~SomeFailed'
            PROVE  Settled /\ ~SomeFailed
        BY <2>1, <2>2, <3>1, <4>1 DEF Settled, SomeFailed
      <4>. QED
        BY <1>6, <3>1, <4>1 DEF IInv, RowsInv, Rendered
    <3>2. CASE op # "open"
      BY <2>1, <2>2, <3>2 DEF RowsInv, Settled
    <3>. QED
      BY <3>1, <3>2
  <2>8. ViewIsLoaded'
    BY <1>6, <2>3 DEF ViewIsLoaded
  <2>. QED
    BY <2>4, <2>5, <2>6, <2>7, <2>8 DEF IInv
<1>7. CASE /\ ~Refused(known) /\ missing = {}
           /\ Finish(op, known, list, chosen, here)
           /\ Done(t)
  <2>1. ToSet(known) \subseteq reports' /\ reports \subseteq reports' /\ reports' \subseteq Ids
    BY <1>7 DEF IInv, TypeOK
  <2>2. task[t].stage # "failed"
    OBVIOUS
  <2>3. list # {}
    <3>1. known[1] \in ToSet(known)
      BY <1>1, <1>4, <1>7 DEF ToSet
    <3>. QED
      BY <1>1, <3>1
  <2>. QED
    BY <1>1, <1>4, <1>7, <2>1, <2>2, <2>3, FinishIInv
<1>. QED
  BY <1>5, <1>6, <1>7 DEF ShowReports, known

--------------------------------------------------------------------------------
(* The steps. *)

LEMMA OpenIInv ==
  ASSUME IInv, NEW t \in Tasks, NEW i \in Ids, Open(t, i)
  PROVE  IInv'
<1>1. /\ task[t].stage = "unused" /\ ShowReports(t, "open", <<i>>, catalog, selected, at)
      /\ UNCHANGED <<server, catalog, selected, reports, query>>
  BY DEF Open, Fresh
<1>2. /\ <<i>> \in Seq(Ids) /\ catalog \in SUBSET Ids /\ selected \in Seq(Ids)
      /\ at \in DOMAIN visits
  BY DEF IInv, TypeOK
<1>. QED
  BY <1>1, <1>2, ShowIInv

LEMMA CompareIInv ==
  ASSUME IInv, NEW t \in Tasks, Compare(t)
  PROVE  IInv'
<1>1. /\ task[t].stage = "unused" /\ ShowReports(t, "compare", selected, catalog, selected, at)
      /\ UNCHANGED <<server, catalog, selected, reports, query>>
  BY DEF Compare, Fresh
<1>2. catalog \in SUBSET Ids /\ selected \in Seq(Ids) /\ at \in DOMAIN visits
  BY DEF IInv, TypeOK
<1>. QED
  BY <1>1, <1>2, ShowIInv

LEMMA PopStateIInv ==
  ASSUME IInv, NEW t \in Tasks, NEW to \in DOMAIN visits, PopState(t, to)
  PROVE  IInv'
<1>1. /\ task[t].stage = "unused"
      /\ ShowReports(t, "popstate", visits[to], catalog, selected, to)
      /\ UNCHANGED <<server, catalog, selected, reports, query>>
  BY DEF PopState, Fresh
<1>2. catalog \in SUBSET Ids /\ selected \in Seq(Ids) /\ visits[to] \in Seq(Ids)
  BY DEF IInv, TypeOK
<1>. QED
  BY <1>1, <1>2, ShowIInv

LEMMA RefreshIInv ==
  ASSUME IInv, NEW t \in Tasks, Refresh(t)
  PROVE  IInv'
<1>1. /\ task' \in [Tasks -> Job] /\ task'[t].stage = "listing" /\ task[t].stage = "unused"
      /\ \A u \in Tasks : u # t => task'[u] = task[u]
  BY JobKinds DEF Refresh, Fresh, IInv, TypeOK
<1>2. UNCHANGED <<server, catalog, selected, reports, routeIds, visits, at, view, query, rows>>
  BY DEF Refresh
<1>3. TypeOK'
  BY <1>1, <1>2 DEF IInv, TypeOK
<1>4. SpinnerInv'
  <2>. SUFFICES ASSUME view' = Loading, ~SomeFailed'
       PROVE  \E u \in Tasks : task'[u].stage = "loading"
    BY DEF SpinnerInv
  <2>1. ~SomeFailed
    BY <1>1 DEF SomeFailed
  <2>. QED
    BY <1>1, <1>2, <2>1 DEF IInv, SpinnerInv
<1>5. JobsInv'
  BY <1>1, <1>2 DEF IInv, JobsInv
<1>6. RowsInv'
  BY <1>1 DEF RowsInv, Settled
<1>7. ViewIsLoaded'
  BY <1>2 DEF IInv, ViewIsLoaded
<1>. QED
  BY <1>3, <1>4, <1>5, <1>6, <1>7 DEF IInv

\* What leaves the tasks and the page alone disturbs only the rows.
LEMMA QuietIInv ==
  ASSUME IInv, TypeOK', RowsInv', UNCHANGED <<task, view, reports>>
  PROVE  IInv'
BY DEF IInv, SpinnerInv, SomeFailed, JobsInv, ViewIsLoaded

LEMMA SearchIInv ==
  ASSUME IInv, NEW text \in Queries, Search(text)
  PROVE  IInv'
<1>1. /\ query' = text /\ rows' = Rendered(catalog, selected, text)
      /\ UNCHANGED <<server, catalog, selected, reports, routeIds, visits, at, view, task>>
  BY DEF Search
<1>2. rows' \in [shown : SUBSET Ids, ticked : SUBSET Ids] /\ rows'.ticked \subseteq rows'.shown
  BY <1>1 DEF Rendered, IInv, TypeOK
<1>3. TypeOK'
  BY <1>1, <1>2 DEF IInv, TypeOK
<1>4. RowsInv'
  BY <1>1 DEF RowsInv, Rendered
<1>. QED
  BY <1>1, <1>3, <1>4, QuietIInv

LEMMA TickIInv ==
  ASSUME IInv, NEW i \in Ids, Tick(i)
  PROVE  IInv'
<1>1. /\ i \in rows.shown /\ selected' = Added(selected, i)
      /\ rows' = [rows EXCEPT !.ticked = @ \cup {i}]
      /\ UNCHANGED <<server, catalog, reports, routeIds, visits, at, view, query, task>>
  BY DEF Tick
<1>2. selected' \in Seq(Ids) /\ ToSet(selected') = ToSet(selected) \cup {i}
  <2>1. selected \in Seq(Ids)
    BY DEF IInv, TypeOK
  <2>2. /\ Added(selected, i) \in Seq(Ids)
        /\ ToSet(Added(selected, i)) = ToSet(selected) \cup {i}
    BY <2>1, SetAdd
  <2>. QED
    BY <1>1, <2>2
<1>3. /\ rows' \in [shown : SUBSET Ids, ticked : SUBSET Ids] /\ rows'.ticked \subseteq rows'.shown
      /\ rows'.shown = rows.shown /\ rows'.ticked = rows.ticked \cup {i}
      /\ rows' = [shown |-> rows.shown, ticked |-> rows.ticked \cup {i}]
  BY <1>1 DEF IInv, TypeOK
<1>4. TypeOK'
  BY <1>1, <1>2, <1>3 DEF IInv, TypeOK
<1>5. RowsInv'
  <2>. SUFFICES ASSUME Settled', ~SomeFailed'
       PROVE  rows' = Rendered(catalog', selected', query')
    BY DEF RowsInv, Rendered
  <2>1. rows = Rendered(catalog, selected, query)
    BY <1>1 DEF Settled, SomeFailed, IInv, RowsInv
  <2>2. /\ rows.shown = catalog \cap query
        /\ rows.ticked = catalog \cap query \cap ToSet(selected)
    BY <2>1 DEF Rendered
  <2>3. rows.ticked \cup {i} = catalog \cap query \cap ToSet(selected')
    BY <1>1, <1>2, <2>2
  <2>. QED
    BY <1>1, <1>3, <2>2, <2>3 DEF Rendered
<1>. QED
  BY <1>1, <1>4, <1>5, QuietIInv

LEMMA UntickIInv ==
  ASSUME IInv, NEW i \in Ids, Untick(i)
  PROVE  IInv'
<1>1. /\ selected' = Kept(selected, Ids \ {i})
      /\ rows' = [rows EXCEPT !.ticked = @ \ {i}]
      /\ UNCHANGED <<server, catalog, reports, routeIds, visits, at, view, query, task>>
  BY DEF Untick
<1>2. selected' \in Seq(Ids) /\ ToSet(selected') = ToSet(selected) \cap (Ids \ {i})
  BY <1>1, Filtered DEF IInv, TypeOK
<1>3. /\ rows' \in [shown : SUBSET Ids, ticked : SUBSET Ids] /\ rows'.ticked \subseteq rows'.shown
      /\ rows' = [shown |-> rows.shown, ticked |-> rows.ticked \ {i}]
  BY <1>1 DEF IInv, TypeOK
<1>4. TypeOK'
  BY <1>1, <1>2, <1>3 DEF IInv, TypeOK
<1>5. RowsInv'
  <2>. SUFFICES ASSUME Settled', ~SomeFailed'
       PROVE  rows' = Rendered(catalog', selected', query')
    BY DEF RowsInv, Rendered
  <2>1. rows = Rendered(catalog, selected, query)
    BY <1>1 DEF Settled, SomeFailed, IInv, RowsInv
  <2>2. /\ rows.shown = catalog \cap query
        /\ rows.ticked = catalog \cap query \cap ToSet(selected)
    BY <2>1 DEF Rendered
  <2>3. rows.ticked \ {i} = catalog \cap query \cap ToSet(selected')
    <3>1. catalog \subseteq Ids
      BY DEF IInv, TypeOK
    <3>. QED
      BY <1>2, <2>2, <3>1
  <2>. QED
    BY <1>1, <1>3, <2>2, <2>3 DEF Rendered
<1>. QED
  BY <1>1, <1>4, <1>5, QuietIInv

LEMMA ChangeIInv ==
  ASSUME IInv, NEW now \in Contents, Change(now)
  PROVE  IInv'
<1>1. /\ server' = now
      /\ UNCHANGED <<catalog, selected, reports, routeIds, visits, at, view, query, rows, task>>
  BY DEF Change
<1>2. TypeOK'
  <2>1. now \subseteq Ids
    BY WorkspaceAssumption DEF WorkspaceAssumption
  <2>. QED
    BY <1>1, <2>1 DEF IInv, TypeOK
<1>3. RowsInv'
  BY <1>1 DEF IInv, RowsInv, Settled, SomeFailed, Rendered
<1>. QED
  BY <1>1, <1>2, <1>3, QuietIInv

LEMMA CatalogIInv ==
  ASSUME IInv, NEW t \in Tasks, CatalogArrives(t)
  PROVE  IInv'
<1>. DEFINE route == Kept(IF t = Startup THEN Url ELSE routeIds, server)
            pick == First(server)
<1>1. task[t].stage = "listing" /\ catalog' = server /\ UNCHANGED <<server, reports, query>>
  BY DEF CatalogArrives
<1>2. /\ server \in SUBSET Ids /\ selected \in Seq(Ids) /\ at \in DOMAIN visits
      /\ routeIds \in Seq(Ids) /\ Url \in Seq(Ids)
  BY DEF IInv, TypeOK, Url
<1>3. route \in Seq(Ids) /\ AddAll(selected, route) \in Seq(Ids)
  <2>1. route \in Seq(Ids)
    BY <1>2, Filtered
  <2>. HIDE DEF route
  <2>. QED
    BY <1>2, <2>1, SetAddAll
<1>4. server # {} => <<pick>> \in Seq(Ids) /\ Added(selected, pick) \in Seq(Ids)
  <2>1. server # {} => pick \in Ids
    BY <1>2, WorkspaceAssumption, FirstIsIn
  <2>. HIDE DEF pick
  <2>. QED
    BY <1>2, <2>1, SetAdd
<1>. HIDE DEF route, pick
<1>5. CASE /\ selected' = AddAll(selected, route)
           /\ ShowReports(t, "route", route, server, AddAll(selected, route), at)
  BY <1>1, <1>2, <1>3, <1>5, ShowIInv
<1>6. CASE /\ server # {}
           /\ selected' = Added(selected, pick)
           /\ ShowReports(t, "auto", <<pick>>, server, Added(selected, pick), at)
  BY <1>1, <1>2, <1>4, <1>6, ShowIInv
<1>7. CASE /\ rows' = Rendered(server, selected, query)
           /\ Done(t)
           /\ UNCHANGED <<selected, routeIds, visits, at, view>>
  <2>1. /\ task' \in [Tasks -> Job] /\ task'[t].stage = "done"
        /\ \A u \in Tasks : u # t => task'[u] = task[u]
    BY <1>7, TaskEnds DEF IInv
  <2>2. rows' \in [shown : SUBSET Ids, ticked : SUBSET Ids] /\ rows'.ticked \subseteq rows'.shown
    BY <1>2, <1>7 DEF Rendered
  <2>3. TypeOK'
    BY <1>1, <1>2, <1>7, <2>1, <2>2 DEF IInv, TypeOK
  <2>4. SpinnerInv'
    <3>. SUFFICES ASSUME view' = Loading, ~SomeFailed'
         PROVE  \E u \in Tasks : task'[u].stage = "loading"
      BY DEF SpinnerInv
    <3>1. ~SomeFailed
      BY <1>1, <2>1 DEF SomeFailed
    <3>. QED
      BY <1>1, <1>7, <2>1, <3>1 DEF IInv, SpinnerInv
  <2>5. JobsInv'
    BY <1>1, <2>1 DEF IInv, JobsInv
  <2>6. RowsInv'
    BY <1>1, <1>7 DEF RowsInv, Rendered
  <2>7. ViewIsLoaded'
    BY <1>1, <1>7 DEF IInv, ViewIsLoaded
  <2>. QED
    BY <2>3, <2>4, <2>5, <2>6, <2>7 DEF IInv
<1>. QED
  BY <1>5, <1>6, <1>7 DEF CatalogArrives, route, pick

\* A task lets go of a report without an end or a failure of its own.
LEMMA WaitIInv ==
  ASSUME IInv, NEW t \in Tasks, NEW i \in Ids,
         reports' = reports \cup {i},
         task' = [task EXCEPT ![t].pending = @ \ {i}],
         UNCHANGED <<server, catalog, selected, query, routeIds, visits, at, view, rows>>
  PROVE  IInv'
<1>1. task \in [Tasks -> Job]
  BY DEF IInv, TypeOK
<1>2. \A u \in Tasks : u # t => task'[u] = task[u]
  BY <1>1
<1>3. task'[t] = [task[t] EXCEPT !.pending = @ \ {i}]
  BY <1>1
<1>4. /\ task'[t] \in Job /\ task'[t].stage = task[t].stage /\ task'[t].op = task[t].op
      /\ task'[t].ids = task[t].ids /\ task'[t].pending = task[t].pending \ {i}
  <2>1. task[t] \in Job
    BY <1>1
  <2>. QED
    BY <1>3, <2>1 DEF Job
<1>5. task' \in [Tasks -> Job]
  <2>1. DOMAIN task' = Tasks /\ task' = [u \in Tasks |-> task'[u]]
    BY <1>1
  <2>2. \A u \in Tasks : task'[u] \in Job
    BY <1>1, <1>2, <1>4
  <2>. QED
    BY <2>1, <2>2
<1>6. \A u \in Tasks : task'[u].stage = task[u].stage /\ task'[u].op = task[u].op
  BY <1>2, <1>4
<1>7. TypeOK'
  BY <1>5 DEF IInv, TypeOK
<1>8. SpinnerInv'
  BY <1>6 DEF IInv, SpinnerInv, SomeFailed
<1>9. JobsInv'
  BY <1>2, <1>4 DEF IInv, JobsInv
<1>10. RowsInv'
  BY <1>6 DEF IInv, RowsInv, Settled, SomeFailed, Rendered
<1>11. ViewIsLoaded'
  BY DEF IInv, ViewIsLoaded
<1>. QED
  BY <1>7, <1>8, <1>9, <1>10, <1>11 DEF IInv

\* The last report is there and the one for the URL is not: the task has failed.
LEMMA FirstIsGoneIInv ==
  ASSUME IInv, NEW t \in Tasks, NEW known \in Seq(Ids), FirstIsGone(t, known),
         reports \subseteq reports', reports' \subseteq Ids, ToSet(known) \subseteq reports',
         Len(known) \in 1 .. Limit,
         UNCHANGED <<server, catalog, selected, query>>
  PROVE  IInv'
<1>. DEFINE job == [Unused EXCEPT !.stage = "failed"]
<1>1. job \in Job /\ job.stage = "failed"
  BY JobKinds DEF Job
<1>2. task \in [Tasks -> Job] /\ task' = [task EXCEPT ![t] = job]
  BY DEF FirstIsGone, IInv, TypeOK
<1>. HIDE DEF job
<1>3. /\ task' \in [Tasks -> Job] /\ task'[t] = job
      /\ \A u \in Tasks : u # t => task'[u] = task[u]
  BY <1>1, <1>2
<1>4. /\ view' = IF t = Startup THEN Broken ELSE Report(known)
      /\ routeIds' = known /\ UNCHANGED <<visits, at, rows>>
  BY DEF FirstIsGone
<1>5. /\ view' \in [kind : {"blank", "loading", "empty", "broken", "reports"}, ids : Seq(Ids)]
      /\ view'.kind = "reports" => view'.ids = known
  <2>1. <<>> \in Seq(Ids)
    OBVIOUS
  <2>. QED
    BY <1>4, <2>1 DEF Broken, Report
<1>6. SomeFailed'
  BY <1>1, <1>3 DEF SomeFailed
<1>7. TypeOK'
  BY <1>3, <1>4, <1>5 DEF IInv, TypeOK
<1>8. JobsInv'
  BY <1>1, <1>3 DEF IInv, JobsInv
<1>9. ViewIsLoaded'
  BY <1>5 DEF ViewIsLoaded
<1>. QED
  BY <1>6, <1>7, <1>8, <1>9 DEF IInv, SpinnerInv, RowsInv

LEMMA ReportIInv ==
  ASSUME IInv, NEW t \in Tasks, NEW i \in Ids, ReportArrives(t, i)
  PROVE  IInv'
<1>1. /\ reports' = reports \cup {i} /\ i \in task[t].pending
      /\ UNCHANGED <<server, catalog, selected, query>>
  BY DEF ReportArrives
<1>2. task[t].ids \in Seq(Ids) /\ catalog \in SUBSET Ids /\ selected \in Seq(Ids)
      /\ at \in DOMAIN visits
  BY DEF IInv, TypeOK, Job
<1>3. reports \subseteq reports' /\ reports' \subseteq Ids
  BY <1>1 DEF IInv, TypeOK
<1>4. CASE /\ task[t].stage = "loading" /\ task[t].pending = {i}
  <2>1. ToSet(task[t].ids) \subseteq reports' /\ Len(task[t].ids) \in 1 .. Limit
    BY <1>1, <1>4 DEF IInv, JobsInv
  <2>2. CASE /\ ~(task[t].op = "auto" /\ catalog = {})
             /\ Finish(task[t].op, task[t].ids, catalog, selected, at)
             /\ Done(t)
    <3>1. task[t].stage # "failed"
      BY <1>4
    <3>. QED
      BY <1>1, <1>2, <1>3, <1>4, <2>1, <2>2, <3>1, FinishIInv
  <2>3. CASE FirstIsGone(t, task[t].ids)
    BY <1>1, <1>2, <1>3, <2>1, <2>3, FirstIsGoneIInv
  <2>. QED
    BY <1>4, <2>2, <2>3 DEF ReportArrives
<1>5. CASE /\ task' = [task EXCEPT ![t].pending = @ \ {i}]
           /\ UNCHANGED <<routeIds, visits, at, view, rows>>
  BY <1>1, <1>5, WaitIInv
<1>. QED
  BY <1>4, <1>5 DEF ReportArrives

LEMMA FailsIInv ==
  ASSUME IInv, NEW t \in Tasks, NEW rest \in SUBSET Ids, Fails(t, rest)
  PROVE  IInv'
<1>1. task \in [Tasks -> Job]
  BY DEF IInv, TypeOK
<1>2. task' = [task EXCEPT ![t] = [@ EXCEPT !.stage = "failed", !.pending = rest]]
  BY <1>1 DEF Fails
<1>3. task'[t] = [task[t] EXCEPT !.stage = "failed", !.pending = rest]
      /\ \A u \in Tasks : u # t => task'[u] = task[u]
  BY <1>1, <1>2
<1>4. task'[t] \in Job /\ task'[t].stage = "failed"
  <2>1. task[t] \in Job
    BY <1>1
  <2>. QED
    BY <1>3, <2>1 DEF Job
<1>5. task' \in [Tasks -> Job]
  <2>1. task' = [u \in Tasks |-> task'[u]]
    BY <1>1, <1>2
  <2>2. \A u \in Tasks : task'[u] \in Job
    BY <1>1, <1>3, <1>4
  <2>. QED
    BY <2>1, <2>2
<1>6. /\ view' = IF t = Startup THEN Broken ELSE view
      /\ UNCHANGED <<server, catalog, selected, reports, routeIds, visits, at, query, rows>>
  BY DEF Fails
<1>7. Broken \in [kind : {"blank", "loading", "empty", "broken", "reports"}, ids : Seq(Ids)]
      /\ Broken.kind = "broken"
  <2>1. <<>> \in Seq(Ids)
    OBVIOUS
  <2>. QED
    BY <2>1 DEF Broken
<1>8. SomeFailed'
  BY <1>4 DEF SomeFailed
<1>9. TypeOK'
  BY <1>5, <1>6, <1>7 DEF IInv, TypeOK
<1>10. JobsInv'
  BY <1>3, <1>4, <1>6 DEF IInv, JobsInv
<1>11. ViewIsLoaded'
  BY <1>6, <1>7 DEF IInv, ViewIsLoaded
<1>. QED
  BY <1>8, <1>9, <1>10, <1>11 DEF IInv, SpinnerInv, RowsInv

LEMMA AnswerIInv ==
  ASSUME IInv, NEW t \in Tasks, Answer(t)
  PROVE  IInv'
<1>1. task[t].pending \subseteq Ids
  BY DEF IInv, TypeOK, Job
<1>2. CASE ListingFails(t)
  BY <1>2, FailsIInv DEF ListingFails
<1>3. ASSUME NEW i \in Ids, LoadingFails(t, i)
      PROVE  IInv'
  <2>1. task[t].pending \ {i} \in SUBSET Ids
    BY <1>1
  <2>. QED
    BY <1>3, <2>1, FailsIInv DEF LoadingFails
<1>. QED
  BY <1>2, <1>3, CatalogIInv, ReportIInv DEF Answer

LEMMA NextIInv == IInv /\ [Next]_vars => IInv'
<1>1. ASSUME IInv, User
      PROVE  IInv'
  BY <1>1, OpenIInv, CompareIInv, RefreshIInv, PopStateIInv, SearchIInv, TickIInv, UntickIInv
     DEF User
<1>2. ASSUME IInv, UNCHANGED vars
      PROVE  IInv'
  <2>1. TypeOK'
    BY <1>2 DEF vars, IInv, TypeOK
  <2>2. RowsInv'
    BY <1>2 DEF vars, IInv, RowsInv, Settled, SomeFailed, Rendered
  <2>. QED
    BY <1>2, <2>1, <2>2, QuietIInv DEF vars
<1>. QED
  BY <1>1, <1>2, ChangeIInv, AnswerIInv DEF Next

--------------------------------------------------------------------------------
(* What the workspace promises. *)

\* The inductive invariant holds for any number of reports and tasks, any limit
\* and any session history.
THEOREM IInvHolds == Spec => []IInv
BY InitIInv, NextIInv, PTL DEF Spec

\* Selection, route and history stay lists of reports that the URL position is
\* in, whatever the answers and the clicks.
THEOREM TypeCorrect == Spec => []TypeOK
BY IInvHolds, PTL DEF IInv

\* The last task that ends leaves a page behind: the spinner outlives the tasks
\* only where one of them has failed.
THEOREM SpinnerIsReplaced == Spec => []NoStuckSpinner
<1>1. IInv => NoStuckSpinner
  BY DEF IInv, SpinnerInv, NoStuckSpinner, AtRest
<1>. QED
  BY <1>1, IInvHolds, PTL

\* At rest the ticks are the selection, although it is changed while answers
\* are on their way and not every task renders the rows when it ends.
THEOREM TicksAreTheSelection == Spec => []RowsShowSelection
<1>1. IInv => RowsShowSelection
  BY DEF IInv, RowsInv, Settled, RowsShowSelection, AtRest
<1>. QED
  BY <1>1, IInvHolds, PTL

\* The page holds reports that are loaded, as many as a comparison takes.
THEOREM PageIsLoaded == Spec => []ViewIsLoaded
BY IInvHolds, PTL DEF IInv
================================================================================
