------------------------- MODULE ReportRepositoryProofs -------------------------
(***************************************************************************)
(* Proofs about ReportRepository: for any number of requests and reports,  *)
(* whatever is written and deleted while they run, and however coarse the  *)
(* clock that stamps the files.                                            *)
(***************************************************************************)
EXTENDS ReportRepository, TLAPS

--------------------------------------------------------------------------------
Asked == {"next", "lookup", "read", "store", "load"}
Listing == {"next", "lookup", "read", "store"}

Seen(p, g, st) == [path |-> p, gen |-> g, stamp |-> st.stamp, size |-> st.size] \in stamped
Holds(p, g) == file[p] # Absent /\ file[p].gen = g

\* What a file is, stat has been able to show; a generation has been used.
FilesInv ==
  /\ \A p \in Paths : file[p] # Absent =>
       file[p].gen \in written /\ Seen(p, file[p].gen, StatOf(p))
  /\ \A a \in stamped : a.gen \in written

\* Of a summary that is stored under a stat: the file was as the stat says, with
\* the content that was then read or with one that has gone since.
EntryOK(p, st, g) ==
  /\ g \in written
  /\ Holds(p, g) => Full(p)
  /\ \E f \in written : Seen(p, f, st) /\ (f = g \/ ~Holds(p, f))

CacheInv == \A p \in DOMAIN cache : EntryOK(p, cache[p], cache[p].gen)

\* Where a request is in its walk, and that it lists a path once.
WalkOK(r) ==
  /\ pc[r] = "idle" => want[r] = NoPath /\ listed[r] = {}
  /\ pc[r] \in Listing => want[r] = NoPath
  /\ pc[r] = "load" => want[r] \in Paths
  /\ pc[r] \in {"lookup", "read", "store"} => at[r] \in Paths \ todo[r]
  /\ \A x, y \in listed[r] : x.path = y.path => x = y
  /\ pc[r] \in Listing => \A x \in listed[r] : x.path \notin todo[r]
  /\ pc[r] \in {"lookup", "read"} => \A x \in listed[r] : x.path # at[r]

\* A stat stands for a state of the file; what has been read goes with it.
StatOK(r) ==
  /\ pc[r] \in {"lookup", "read"} => \E f \in written : Seen(at[r], f, stat[r])
  /\ pc[r] = "store" =>
       \E x \in listed[r] : x.path = at[r] /\ EntryOK(at[r], stat[r], x.gen)

\* The histories say what they are meant to say.
DuringOK(r) == \A p \in Paths : pc[r] \in Asked /\ Full(p) => Content(p) \in during[r]

ListedOK(r) == \A x \in listed[r] : x \in during[r] \/ Indistinguishable(x.path)

SteadyOK(r) ==
  \A p \in steady[r] :
    /\ pc[r] \in Asked => Full(p) /\ Shape(file[p].gen) = "report"
    /\ pc[r] \in Listing =>
         \/ p \in todo[r]
         \/ pc[r] \in {"lookup", "read"} /\ at[r] = p
         \/ \E x \in listed[r] : x.path = p

WalkInv == \A r \in Requests : WalkOK(r)
StatInv == \A r \in Requests : StatOK(r)
DuringInv == \A r \in Requests : DuringOK(r)
ListedInv == \A r \in Requests : ListedOK(r)
SteadyInv == \A r \in Requests : SteadyOK(r)

\* Taking a summary out of the cache is as good as having read the file, also
\* when the summary is yet to be stored.
HitOK(r, g) ==
  \/ [path |-> at[r], gen |-> g] \in during[r]
  \/ Indistinct(at[r], stat[r].stamp, stat[r].size)

Pending(q, p, st) == {x \in listed[q] : pc[q] = "store" /\ at[q] = p /\ x.path = p /\ stat[q] = st}

HitInv ==
  \A r \in Requests : pc[r] = "lookup" =>
    /\ Fresh(r) => HitOK(r, cache[at[r]].gen)
    /\ \A q \in Requests : \A x \in Pending(q, at[r], stat[r]) : HitOK(r, x.gen)

IInv ==
  /\ TypeOK /\ FilesInv /\ CacheInv /\ WalkInv /\ StatInv /\ HitInv
  /\ DuringInv /\ ListedInv /\ SteadyInv

--------------------------------------------------------------------------------
(* The outside world. *)

LEMMA InitIInv == Init => IInv
<1>. SUFFICES ASSUME Init PROVE IInv
  OBVIOUS
<1>1. TypeOK
  <2>1. DOMAIN cache = {} /\ pc \in [Requests -> Stages]
    BY DEF Init, Stages
  <2>2. stat \in [Requests -> [stamp : Nat, size : Nat]]
    BY DEF Init
  <2>3. file \in [Paths -> {Absent} \cup
                  [state : {"partial", "full"}, gen : Generations, stamp : Nat]]
    BY DEF Init
  <2>. QED
    BY <2>1, <2>2, <2>3 DEF Init, TypeOK
<1>2. FilesInv /\ CacheInv
  BY DEF Init, FilesInv, CacheInv
<1>3. WalkInv /\ StatInv /\ HitInv
  BY DEF Init, WalkInv, WalkOK, StatInv, StatOK, HitInv, Fresh, Pending, Listing
<1>4. DuringInv /\ ListedInv /\ SteadyInv
  BY DEF Init, DuringInv, DuringOK, ListedInv, ListedOK, SteadyInv, SteadyOK, Asked
<1>. QED
  BY <1>1, <1>2, <1>3, <1>4 DEF IInv

\* What becomes of a file: it goes, it is written anew, or it is completed.
Moves(p) ==
  \/ file'[p] = Absent
  \/ /\ file'[p] # Absent /\ file'[p].state = "partial" /\ file'[p].gen \notin written
  \/ /\ file[p] # Absent /\ file'[p] # Absent
     /\ file'[p].state = "full" /\ file'[p].gen = file[p].gen

\* A step of the world: one file moves, stat can show what it becomes, and the
\* requests at work have had a chance to see it.
FileStep(p) ==
  /\ \A q \in Paths : q # p => file'[q] = file[q]
  /\ Moves(p)
  /\ file'[p] # Absent => file'[p].gen \in written' /\ Seen(p, file[p].gen, StatOf(p))'
  /\ file'[p] # Absent /\ file'[p].state = "full" =>
       \A r \in Requests : pc[r] \in Asked => [path |-> p, gen |-> file'[p].gen] \in during'[r]
  /\ written \subseteq written' /\ stamped \subseteq stamped'
  /\ \A a \in stamped' : a.path = p \/ a \in stamped
  /\ \A a \in stamped' : a.gen \in written'
  /\ \A r \in Requests : during[r] \subseteq during'[r] /\ steady'[r] = steady[r] \ {p}
  /\ UNCHANGED <<tick, cache, pc, want, todo, at, stat, active, listed, reply>>
  /\ TypeOK'

LEMMA BecomesTypes ==
  ASSUME TypeOK, NEW p \in Paths, NEW f, Becomes(p, f), written' \subseteq Generations,
         f \in {Absent} \cup [state : {"partial", "full"}, gen : Generations, stamp : Nat]
  PROVE  TypeOK'
<1>. USE RepositoryAssumption
<1>1. file' \in [Paths -> {Absent} \cup
                 [state : {"partial", "full"}, gen : Generations, stamp : Nat]]
  BY DEF TypeOK, Becomes
<1>2. f # Absent => f \in [state : {"partial", "full"}, gen : Generations, stamp : Nat]
  OBVIOUS
<1>3. stamped' \subseteq [path : Paths, gen : Generations, stamp : Nat, size : Nat]
  BY <1>2 DEF TypeOK, Becomes
<1>4. during' \in [Requests -> SUBSET [path : Paths, gen : Generations]]
  BY <1>2 DEF TypeOK, Becomes, Absent
<1>5. steady' \in [Requests -> SUBSET Paths]
  BY DEF TypeOK, Becomes
<1>. QED
  BY <1>1, <1>3, <1>4, <1>5 DEF TypeOK, Becomes, local

\* What Becomes shows of a file is what stat and the requests see of it.
LEMMA BecomesShows ==
  ASSUME TypeOK, NEW p \in Paths, NEW f, Becomes(p, f),
         f \in {Absent} \cup [state : {"partial", "full"}, gen : Generations, stamp : Nat]
  PROVE  /\ file'[p] = f /\ \A q \in Paths : q # p => file'[q] = file[q]
         /\ f # Absent => Seen(p, f.gen, StatOf(p))'
         /\ f # Absent /\ f.state = "full" =>
              \A r \in Requests : pc[r] \in Asked => [path |-> p, gen |-> f.gen] \in during'[r]
         /\ stamped \subseteq stamped'
         /\ \A a \in stamped' : a \in stamped \/ (f # Absent /\ a.path = p /\ a.gen = f.gen)
         /\ \A r \in Requests : during[r] \subseteq during'[r] /\ steady'[r] = steady[r] \ {p}
         /\ UNCHANGED <<tick, cache, pc, want, todo, at, stat, active, listed, reply>>
<1>1. file'[p] = f /\ \A q \in Paths : q # p => file'[q] = file[q]
  BY DEF TypeOK, Becomes
<1>2. f # Absent => Seen(p, f.gen, StatOf(p))'
  BY <1>1 DEF Becomes, Seen, StatOf, Full
<1>3. stamped \subseteq stamped'
      /\ \A a \in stamped' : a \in stamped \/ (f # Absent /\ a.path = p /\ a.gen = f.gen)
  BY DEF Becomes
<1>4. ASSUME NEW r \in Requests
      PROVE  /\ during[r] \subseteq during'[r] /\ steady'[r] = steady[r] \ {p}
             /\ f # Absent /\ f.state = "full" /\ pc[r] \in Asked =>
                  [path |-> p, gen |-> f.gen] \in during'[r]
  BY DEF Becomes, Asked
<1>. QED
  BY <1>1, <1>2, <1>3, <1>4 DEF Becomes, local

LEMMA WorldIsFileStep ==
  ASSUME IInv, NEW p \in Paths,
         FinishWrite(p) \/ Remove(p) \/ \E g \in Generations : Truncate(p, g)
  PROVE  FileStep(p)
<1>0. TypeOK /\ FilesInv
  BY DEF IInv
<1>1. ASSUME NEW f, Becomes(p, f), written \subseteq written', written' \subseteq Generations,
             f \in {Absent} \cup [state : {"partial", "full"}, gen : Generations, stamp : Nat],
             f # Absent => f.gen \in written',
             \/ f = Absent
             \/ f # Absent /\ f.state = "partial" /\ f.gen \notin written
             \/ f # Absent /\ f.state = "full" /\ file[p] # Absent /\ f.gen = file[p].gen
      PROVE  FileStep(p)
  <2>1. Moves(p)
    BY <1>0, <1>1, BecomesShows DEF Moves
  <2>2. \A a \in stamped' : a \in stamped \/ (f # Absent /\ a.path = p /\ a.gen = f.gen)
    BY <1>0, <1>1, BecomesShows
  <2>3. \A a \in stamped' : a.gen \in written' /\ (a.path = p \/ a \in stamped)
    BY <1>0, <1>1, <2>2 DEF FilesInv
  <2>4. TypeOK'
    BY <1>0, <1>1, BecomesTypes
  <2>5. file'[p] = f /\ (f # Absent => Seen(p, file[p].gen, StatOf(p))')
    BY <1>0, <1>1, BecomesShows DEF Seen
  <2>. QED
    BY <1>0, <1>1, <2>1, <2>3, <2>4, <2>5, BecomesShows DEF FileStep
<1>2. CASE FinishWrite(p)
  <2>. DEFINE f == [file[p] EXCEPT !.state = "full", !.stamp = tick]
  <2>1. file[p] # Absent /\ file[p].gen \in written
        /\ file[p] \in [state : {"partial", "full"}, gen : Generations, stamp : Nat]
    BY <1>0, <1>2 DEF FinishWrite, TypeOK, FilesInv, Absent
  <2>2. /\ f \in [state : {"partial", "full"}, gen : Generations, stamp : Nat]
        /\ f.state = "full" /\ f.gen = file[p].gen /\ f # Absent
    BY <1>0, <2>1 DEF TypeOK, Absent
  <2>3. Becomes(p, f) /\ written' = written
    BY <1>2 DEF FinishWrite
  <2>. HIDE DEF f
  <2>. QED
    BY <1>0, <1>1, <2>1, <2>2, <2>3 DEF TypeOK
<1>3. CASE Remove(p)
  BY <1>0, <1>1, <1>3 DEF Remove, TypeOK
<1>4. ASSUME NEW g \in Generations, Truncate(p, g)
      PROVE  FileStep(p)
  <2>. DEFINE f == [state |-> "partial", gen |-> g, stamp |-> tick]
  <2>1. /\ f \in [state : {"partial", "full"}, gen : Generations, stamp : Nat]
        /\ f.state = "partial" /\ f.gen = g /\ f # Absent
    BY <1>0 DEF TypeOK, Absent
  <2>2. Becomes(p, f) /\ g \notin written /\ written' = written \cup {g}
    BY <1>4 DEF Truncate
  <2>. HIDE DEF f
  <2>. QED
    BY <1>0, <1>1, <2>1, <2>2 DEF TypeOK
<1>. QED
  BY <1>2, <1>3, <1>4

\* What has once been stored stays good: a generation that has gone does not
\* come back, and a complete one is not opened for writing again.
LEMMA EntryKept ==
  ASSUME IInv, NEW p \in Paths, FileStep(p),
         NEW q \in Paths, NEW st, NEW g, EntryOK(q, st, g)
  PROVE  EntryOK(q, st, g)'
<1>1. \A f \in written : Holds(q, f)' => Holds(q, f) /\ (Full(q) => Full(q)')
  <2>1. CASE q = p
    BY <2>1 DEF FileStep, Moves, Holds, Full
  <2>2. CASE q # p
    BY <2>2 DEF FileStep, Holds, Full
  <2>. QED
    BY <2>1, <2>2
<1>2. g \in written' /\ (Holds(q, g)' => Full(q)')
  BY <1>1 DEF EntryOK, FileStep
<1>3. PICK f \in written : Seen(q, f, st) /\ (f = g \/ ~Holds(q, f))
  BY DEF EntryOK
<1>4. f \in written' /\ Seen(q, f, st)' /\ (f = g \/ ~Holds(q, f)')
  BY <1>1, <1>3 DEF FileStep, Seen
<1>. QED
  BY <1>2, <1>4 DEF EntryOK

LEMMA IndistinctKept ==
  ASSUME stamped \subseteq stamped'
  PROVE  \A p, s, z : (Indistinct(p, s, z) => Indistinct(p, s, z)')
                      /\ (Indistinguishable(p) => Indistinguishable(p)')
BY DEF Indistinct, Indistinguishable

LEMMA FileStepInv ==
  ASSUME IInv, NEW p \in Paths, FileStep(p)
  PROVE  IInv'
<1>0. TypeOK /\ TypeOK' /\ stamped \subseteq stamped' /\ written \subseteq written'
  BY DEF IInv, FileStep
<1>1. FilesInv'
  <2>1. ASSUME NEW q \in Paths, file'[q] # Absent
        PROVE  file'[q].gen \in written' /\ Seen(q, file[q].gen, StatOf(q))'
    <3>1. CASE q = p
      BY <2>1, <3>1 DEF FileStep
    <3>2. CASE q # p
      BY <2>1, <3>2 DEF FileStep, IInv, FilesInv, Seen, StatOf, Full
    <3>. QED
      BY <3>1, <3>2
  <2>. QED
    BY <2>1 DEF FilesInv, FileStep
<1>2. CacheInv'
  <2>. SUFFICES ASSUME NEW q \in DOMAIN cache PROVE EntryOK(q, cache[q], cache[q].gen)'
    BY DEF FileStep, CacheInv
  <2>1. q \in Paths /\ cache' = cache /\ EntryOK(q, cache[q], cache[q].gen)
    BY <1>0 DEF FileStep, IInv, CacheInv, TypeOK
  <2>2. PICK st, g : st = cache[q] /\ g = cache[q].gen
    OBVIOUS
  <2>3. EntryOK(q, st, g)'
    BY <2>1, <2>2, EntryKept
  <2>. QED
    BY <2>1, <2>2, <2>3
<1>3. WalkInv'
  BY DEF FileStep, IInv, WalkInv, WalkOK
<1>4. StatInv'
  <2>. SUFFICES ASSUME NEW r \in Requests
       PROVE  /\ pc[r] \in {"lookup", "read"} => \E f \in written' : Seen(at[r], f, stat[r])'
              /\ pc[r] = "store" =>
                   \E x \in listed[r] : x.path = at[r] /\ EntryOK(at[r], stat[r], x.gen)'
    BY DEF FileStep, StatInv, StatOK
  <2>1. PICK a, st : a = at[r] /\ st = stat[r]
    OBVIOUS
  <2>2. pc[r] \in {"lookup", "read"} => \E f \in written' : Seen(a, f, st)'
    BY <1>0, <2>1 DEF IInv, StatInv, StatOK, Seen
  <2>3. ASSUME pc[r] = "store"
        PROVE  \E x \in listed[r] : x.path = a /\ EntryOK(a, st, x.gen)'
    BY <2>1, <2>3, EntryKept DEF IInv, StatInv, StatOK, WalkInv, WalkOK
  <2>. QED
    BY <2>1, <2>2, <2>3 DEF FileStep
<1>5. HitInv'
  <2>1. \A r \in Requests : \A g : HitOK(r, g) => HitOK(r, g)'
    BY <1>0, IndistinctKept DEF FileStep, HitOK
  <2>. QED
    BY <2>1 DEF FileStep, IInv, HitInv, Fresh, Pending
<1>6. DuringInv'
  <2>. SUFFICES ASSUME NEW r \in Requests, NEW q \in Paths, pc[r] \in Asked, Full(q)'
       PROVE  [path |-> q, gen |-> file'[q].gen] \in during'[r]
    BY DEF FileStep, DuringInv, DuringOK, Content
  <2>1. CASE q = p
    BY <2>1 DEF FileStep, Full, Absent
  <2>2. CASE q # p
    BY <2>2 DEF FileStep, Full, IInv, DuringInv, DuringOK, Content
  <2>. QED
    BY <2>1, <2>2
<1>7. ListedInv'
  BY <1>0, IndistinctKept DEF FileStep, IInv, ListedInv, ListedOK
<1>8. SteadyInv'
  BY <1>0 DEF FileStep, IInv, SteadyInv, SteadyOK, Full, TypeOK
<1>. QED
  BY <1>0, <1>1, <1>2, <1>3, <1>4, <1>5, <1>6, <1>7, <1>8 DEF IInv

LEMMA TickInv ==
  ASSUME IInv, Tick
  PROVE  IInv'
<1>1. TypeOK'
  BY DEF Tick, IInv, TypeOK, local, history
<1>2. \A p \in Paths : \A st, g : EntryOK(p, st, g)' = EntryOK(p, st, g)
  BY DEF Tick, EntryOK, Holds, Seen, Full, history
<1>5. FilesInv' /\ CacheInv' /\ StatInv'
  <2>1. FilesInv'
    BY DEF Tick, IInv, FilesInv, Seen, StatOf, Full, history
  <2>2. CacheInv'
    BY <1>2 DEF Tick, IInv, TypeOK, CacheInv
  <2>3. StatInv'
    BY <1>2 DEF Tick, IInv, WalkInv, WalkOK, StatInv, StatOK, Seen, local, history
  <2>. QED
    BY <2>1, <2>2, <2>3
<1>3. WalkInv' /\ DuringInv' /\ SteadyInv'
  BY DEF Tick, IInv, WalkInv, WalkOK, DuringInv, DuringOK, SteadyInv, SteadyOK, Content, Full, local, history
<1>4. HitInv' /\ ListedInv'
  BY DEF Tick, IInv, HitInv, Fresh, Pending, ListedInv, ListedOK, HitOK, Indistinct, Indistinguishable, local, history
<1>. QED
  BY <1>1, <1>3, <1>4, <1>5 DEF IInv

--------------------------------------------------------------------------------
(* The requests. *)

\* A step of one request leaves the files and the other requests alone.
Others(r) ==
  /\ UNCHANGED <<file, written, tick, stamped>>
  /\ \A q \in Requests : q # r =>
       /\ pc'[q] = pc[q] /\ want'[q] = want[q] /\ todo'[q] = todo[q] /\ at'[q] = at[q]
       /\ stat'[q] = stat[q] /\ listed'[q] = listed[q]
       /\ during'[q] = during[q] /\ steady'[q] = steady[q]

\* What the request itself has to see to.
Own(r) == WalkOK(r) /\ StatOK(r) /\ DuringOK(r) /\ ListedOK(r) /\ SteadyOK(r)

LEMMA RequestStep ==
  ASSUME IInv, NEW r \in Requests, Others(r), TypeOK', CacheInv', HitInv', Own(r)'
  PROVE  IInv'
<1>1. FilesInv'
  BY DEF Others, IInv, FilesInv, Seen, StatOf, Full
<1>2. ASSUME NEW q \in Requests, q # r
      PROVE  Own(q)'
  <2>1. WalkOK(q)'
    BY <1>2 DEF Others, IInv, WalkInv, WalkOK
  <2>2. PICK a, st : a = at[q] /\ st = stat[q]
    OBVIOUS
  <2>3. StatOK(q) /\ at'[q] = a /\ stat'[q] = st /\ pc'[q] = pc[q] /\ listed'[q] = listed[q]
    BY <1>2, <2>2 DEF Others, IInv, StatInv
  <2>4. /\ \A f : Seen(a, f, st)' = Seen(a, f, st)
        /\ \A g : EntryOK(a, st, g)' = EntryOK(a, st, g)
    BY DEF Others, Seen, EntryOK, Holds, Full
  <2>5. StatOK(q)'
    BY <2>2, <2>3, <2>4 DEF StatOK, Others
  <2>6. DuringOK(q)' /\ SteadyOK(q)'
    BY <1>2 DEF Others, IInv, DuringInv, DuringOK, SteadyInv, SteadyOK, Full, Content
  <2>7. ListedOK(q)'
    BY <1>2 DEF Others, IInv, ListedInv, ListedOK, Indistinguishable, Indistinct
  <2>. QED
    BY <2>1, <2>5, <2>6, <2>7 DEF Own
<1>3. \A q \in Requests : Own(q)'
  BY <1>2
<1>. QED
  BY <1>1, <1>3 DEF IInv, Own, WalkInv, StatInv, DuringInv, ListedInv, SteadyInv

\* The requests that only pass on what they hold.
LEMMA CacheKept ==
  ASSUME IInv, NEW r \in Requests, Others(r), DOMAIN cache' \subseteq DOMAIN cache,
         \A p \in DOMAIN cache' : cache'[p] = cache[p]
  PROVE  /\ CacheInv'
         /\ pc'[r] \notin {"lookup", "store"} => HitInv'
<1>1. ASSUME NEW p \in DOMAIN cache'
      PROVE  EntryOK(p, cache[p], cache[p].gen)'
  <2>1. PICK st : st = cache[p]
    OBVIOUS
  <2>2. EntryOK(p, st, st.gen) /\ cache'[p] = st
    BY <2>1 DEF IInv, CacheInv
  <2>3. EntryOK(p, st, st.gen)'
    BY <2>2 DEF Others, EntryOK, Seen, Holds, Full
  <2>. QED
    BY <2>2, <2>3
<1>2. ASSUME pc'[r] \notin {"lookup", "store"}, NEW q \in Requests, pc'[q] = "lookup"
      PROVE  /\ Fresh(q)' => HitOK(q, cache[at[q]].gen)'
             /\ \A u \in Requests : \A x \in Pending(u, at[q], stat[q])' : HitOK(q, x.gen)'
  <2>1. q # r /\ pc[q] = "lookup" /\ at'[q] = at[q] /\ stat'[q] = stat[q]
    BY <1>2 DEF Others
  <2>2. \A g : HitOK(q, g)' = HitOK(q, g)
    BY <2>1 DEF Others, HitOK, Indistinct
  <2>3. Fresh(q)' => HitOK(q, cache[at[q]].gen)'
    BY <2>1, <2>2 DEF IInv, HitInv, Fresh
  <2>4. ASSUME NEW u \in Requests, NEW x \in Pending(u, at[q], stat[q])'
        PROVE  HitOK(q, x.gen)'
    <3>1. u # r
      BY <1>2, <2>4 DEF Pending
    <3>2. x \in Pending(u, at[q], stat[q])
      BY <2>1, <2>4, <3>1 DEF Pending, Others
    <3>. QED
      BY <2>1, <2>2, <3>2 DEF IInv, HitInv
  <2>. QED
    BY <2>3, <2>4
<1>. QED
  BY <1>1, <1>2 DEF CacheInv, HitInv

\* A request arrives: it has seen what is there, and has all of it to visit.
LEMMA ArriveInv ==
  ASSUME IInv, NEW r \in Requests,
         ListRequest(r) \/ \E p \in Paths : DetailRequest(r, p)
  PROVE  IInv'
<1>0. TypeOK /\ pc[r] = "idle" /\ want[r] = NoPath /\ listed[r] = {}
  BY DEF IInv, WalkInv, WalkOK, ListRequest, DetailRequest, Arrive
<1>1. /\ todo' = [todo EXCEPT ![r] = Existing]
      /\ during' = [during EXCEPT ![r] = Complete] /\ steady' = [steady EXCEPT ![r] = Sound]
      /\ UNCHANGED <<file, written, tick, cache, at, stat, active, listed, reply, stamped>>
  BY DEF ListRequest, DetailRequest, Arrive, files
<1>2. \/ want' = want /\ pc' = [pc EXCEPT ![r] = "next"]
      \/ \E p \in Paths : /\ want' = [want EXCEPT ![r] = p]
                          /\ \/ pc' = [pc EXCEPT ![r] = "load"]
                             \/ pc' = [pc EXCEPT ![r] = "done"]
  BY DEF ListRequest, DetailRequest
<1>3. /\ want' \in [Requests -> Paths \cup {NoPath}]
      /\ pc' \in [Requests -> Stages]
      /\ \A q \in Requests : q # r => pc'[q] = pc[q] /\ want'[q] = want[q]
      /\ \/ pc'[r] = "next" /\ want'[r] = NoPath
         \/ pc'[r] \in {"load", "done"} /\ want'[r] \in Paths
  <2>1. PICK stage \in {"next", "load", "done"}, p \in Paths \cup {NoPath} :
          /\ pc' = [pc EXCEPT ![r] = stage]
          /\ IF stage = "next" THEN want' = want ELSE p \in Paths /\ want' = [want EXCEPT ![r] = p]
    BY <1>2
  <2>. QED
    BY <1>0, <2>1 DEF TypeOK, Stages
<1>4. /\ Existing \subseteq Paths /\ Sound \subseteq Paths
      /\ Complete \subseteq [path : Paths, gen : Generations]
      /\ \A p \in Sound : p \in Existing /\ Full(p) /\ Shape(file[p].gen) = "report"
      /\ \A p \in Paths : Full(p) => Content(p) \in Complete
  BY <1>0 DEF TypeOK, Existing, Sound, Complete, Content, Full, Absent
<1>5. /\ todo' \in [Requests -> SUBSET Paths] /\ steady' \in [Requests -> SUBSET Paths]
      /\ during' \in [Requests -> SUBSET [path : Paths, gen : Generations]]
      /\ todo'[r] = Existing /\ during'[r] = Complete /\ steady'[r] = Sound
  BY <1>0, <1>1, <1>4 DEF TypeOK
<1>6. Others(r)
  BY <1>0, <1>1, <1>3 DEF Others, TypeOK
<1>7. TypeOK'
  BY <1>0, <1>1, <1>3, <1>5 DEF TypeOK
<1>8. CacheInv' /\ HitInv'
  BY <1>1, <1>3, <1>6, CacheKept
<1>9. WalkOK(r)' /\ StatOK(r)' /\ ListedOK(r)'
  BY <1>0, <1>1, <1>3 DEF WalkOK, StatOK, ListedOK, Listing
<1>10. DuringOK(r)' /\ SteadyOK(r)'
  BY <1>1, <1>3, <1>4, <1>5 DEF DuringOK, SteadyOK, Content, Full, Listing
<1>. QED
  BY <1>6, <1>7, <1>8, <1>9, <1>10, RequestStep DEF Own

\* The steps that change only where a request is: the lookup that fails, the
\* read that fails and the one that ends the request.
LEMMA PassInv ==
  ASSUME IInv, NEW r \in Requests, LookupMiss(r) \/ ReadFails(r) \/ ReadWrongShape(r)
  PROVE  IInv'
<1>0. TypeOK /\ Own(r)
  BY DEF IInv, Own, WalkInv, StatInv, DuringInv, ListedInv, SteadyInv
<1>1. /\ pc[r] \in {"lookup", "read"}
      /\ UNCHANGED <<file, written, tick, cache, want, todo, at, stat, active, listed,
                     reply, stamped, during, steady>>
  BY DEF LookupMiss, ReadFails, ReadWrongShape, files, local, history
<1>2. \/ pc' = [pc EXCEPT ![r] = "read"]
      \/ pc' = [pc EXCEPT ![r] = "next"] /\ ~Full(at[r])
      \/ pc' = [pc EXCEPT ![r] = "aborted"]
  BY DEF LookupMiss, ReadFails, ReadWrongShape
<1>3. /\ pc' \in [Requests -> Stages]
      /\ \A q \in Requests : q # r => pc'[q] = pc[q]
      /\ pc'[r] \in {"read", "next", "aborted"} /\ (pc'[r] = "next" => ~Full(at[r]))
  <2>1. PICK stage \in {"read", "next", "aborted"} :
          pc' = [pc EXCEPT ![r] = stage] /\ (stage = "next" => ~Full(at[r]))
    BY <1>2
  <2>. QED
    BY <1>0, <2>1 DEF TypeOK, Stages
<1>4. Others(r) /\ TypeOK'
  BY <1>0, <1>1, <1>3 DEF Others, TypeOK
<1>5. CacheInv' /\ HitInv'
  BY <1>1, <1>3, <1>4, CacheKept
<1>6. WalkOK(r)' /\ DuringOK(r)' /\ SteadyOK(r)'
  BY <1>0, <1>1, <1>3
  DEF Own, WalkOK, DuringOK, SteadyOK, Listing, Asked, Full, Content
<1>7. StatOK(r)' /\ ListedOK(r)'
  BY <1>0, <1>1, <1>3 DEF Own, StatOK, ListedOK, Seen, Indistinguishable, Indistinct
<1>. QED
  BY <1>4, <1>5, <1>6, <1>7, RequestStep DEF Own

\* A summary stored under the very stat that a request has just made is as good
\* as the file: it is of the content that was there, or stat cannot tell.
LEMMA StoredIsAsGood ==
  ASSUME IInv, NEW p \in Paths, file[p] # Absent, NEW st, NEW g, EntryOK(p, st, g),
         st.stamp = StatOf(p).stamp, st.size = StatOf(p).size,
         NEW r \in Requests, pc[r] \in Asked
  PROVE  [path |-> p, gen |-> g] \in during[r] \/ Indistinct(p, st.stamp, st.size)
<1>1. PICK f \in written : Seen(p, f, st) /\ (f = g \/ ~Holds(p, f))
  BY DEF EntryOK
<1>2. Seen(p, file[p].gen, StatOf(p))
  BY DEF IInv, FilesInv
<1>3. CASE f = file[p].gen
  <2>1. f = g /\ Full(p)
    BY <1>1, <1>3 DEF EntryOK, Holds
  <2>. QED
    BY <1>3, <2>1 DEF IInv, DuringInv, DuringOK, Content
<1>4. CASE f # file[p].gen
  <2>1. PICK a \in stamped, b \in stamped :
          /\ a = [path |-> p, gen |-> f, stamp |-> st.stamp, size |-> st.size]
          /\ b = [path |-> p, gen |-> file[p].gen, stamp |-> st.stamp, size |-> st.size]
    BY <1>1, <1>2 DEF Seen
  <2>. QED
    BY <1>4, <2>1 DEF Indistinct
<1>. QED
  BY <1>3, <1>4

LEMMA StatInvariant ==
  ASSUME IInv, NEW r \in Requests, NEW p \in Paths, Stat(r, p)
  PROVE  IInv'
<1>0. TypeOK /\ Own(r) /\ pc[r] = "next" /\ p \in todo[r]
  BY DEF Stat, IInv, Own, WalkInv, StatInv, DuringInv, ListedInv, SteadyInv
<1>1. /\ todo' = [todo EXCEPT ![r] = @ \ {p}]
      /\ UNCHANGED <<file, written, tick, cache, want, listed, reply, stamped, during, steady>>
  BY DEF Stat, files, history
<1>2. todo' \in [Requests -> SUBSET Paths] /\ todo'[r] = todo[r] \ {p}
  BY <1>0, <1>1 DEF TypeOK
<1>3. CASE file[p] = Absent
  <2>1. UNCHANGED <<pc, at, stat, active>>
    BY <1>3 DEF Stat
  <2>2. Others(r) /\ TypeOK'
    BY <1>0, <1>1, <1>2, <2>1 DEF Others, TypeOK
  <2>3. CacheInv' /\ HitInv'
    BY <1>0, <1>1, <2>1, <2>2, CacheKept
  <2>4. WalkOK(r)' /\ DuringOK(r)' /\ SteadyOK(r)'
    BY <1>0, <1>1, <1>2, <1>3, <2>1
    DEF Own, WalkOK, DuringOK, SteadyOK, Listing, Asked, Full, Content, Absent
  <2>5. StatOK(r)' /\ ListedOK(r)'
    BY <1>0, <1>1, <2>1 DEF Own, StatOK, ListedOK, Indistinguishable, Indistinct
  <2>. QED
    BY <2>2, <2>3, <2>4, <2>5, RequestStep DEF Own
<1>4. CASE file[p] # Absent
  <2>1. /\ stat' = [stat EXCEPT ![r] = StatOf(p)] /\ active' = [active EXCEPT ![r] = @ \cup {p}]
        /\ at' = [at EXCEPT ![r] = p] /\ pc' = [pc EXCEPT ![r] = "lookup"]
    BY <1>4 DEF Stat
  <2>2. StatOf(p) \in [stamp : Nat, size : Nat]
    BY <1>0, <1>4, RepositoryAssumption DEF TypeOK, StatOf, Full, Absent
  <2>3. /\ pc' \in [Requests -> Stages] /\ pc'[r] = "lookup"
        /\ at' \in [Requests -> Paths \cup {NoPath}] /\ at'[r] = p
        /\ stat' \in [Requests -> [stamp : Nat, size : Nat]] /\ stat'[r] = StatOf(p)
        /\ active' \in [Requests -> SUBSET Paths]
        /\ \A q \in Requests : q # r =>
             pc'[q] = pc[q] /\ at'[q] = at[q] /\ stat'[q] = stat[q]
    BY <1>0, <2>1, <2>2 DEF TypeOK, Stages
  <2>4. Others(r) /\ TypeOK'
    BY <1>0, <1>1, <1>2, <2>3 DEF Others, TypeOK
  <2>5. CacheInv'
    BY <1>1, <2>4, CacheKept
  <2>6. PICK st : st = StatOf(p)
    OBVIOUS
  <2>7. \A g : EntryOK(p, st, g) => HitOK(r, g)'
    <3>. SUFFICES ASSUME NEW g, EntryOK(p, st, g) PROVE HitOK(r, g)'
      OBVIOUS
    <3>1. [path |-> p, gen |-> g] \in during[r] \/ Indistinct(p, st.stamp, st.size)
      BY <1>0, <1>4, <2>6, StoredIsAsGood DEF Asked
    <3>. QED
      BY <1>1, <2>3, <2>6, <3>1 DEF HitOK, Indistinct
  <2>8. HitInv'
    <3>. SUFFICES ASSUME NEW q \in Requests, pc'[q] = "lookup"
         PROVE  /\ Fresh(q)' => HitOK(q, cache[at[q]].gen)'
                /\ \A u \in Requests : \A x \in Pending(u, at[q], stat[q])' : HitOK(q, x.gen)'
      BY DEF HitInv
    <3>1. \A u \in Requests : Pending(u, at[q], stat[q])'
                                = {x \in listed[u] : pc[u] = "store" /\ at[u] = at'[q] /\ x.path = at'[q]
                                                     /\ stat[u] = stat'[q]}
      BY <1>0, <1>1, <2>3 DEF Pending
    <3>2. CASE q # r
      <4>1. at'[q] = at[q] /\ stat'[q] = stat[q] /\ pc[q] = "lookup"
        BY <2>3, <3>2
      <4>2. \A g : HitOK(q, g)' = HitOK(q, g)
        BY <1>1, <4>1 DEF HitOK, Indistinct
      <4>. QED
        BY <1>1, <3>1, <4>1, <4>2 DEF IInv, HitInv, Fresh, Pending
    <3>3. CASE q = r
      <4>1. ASSUME Fresh(r)'
            PROVE  HitOK(r, cache[at[r]].gen)'
        <5>1. p \in DOMAIN cache /\ cache[p].stamp = st.stamp /\ cache[p].size = st.size
          BY <1>1, <2>3, <2>6, <4>1 DEF Fresh
        <5>2. EntryOK(p, cache[p], cache[p].gen)
          BY <5>1 DEF IInv, CacheInv
        <5>3. EntryOK(p, st, cache[p].gen)
          BY <5>1, <5>2 DEF EntryOK, Seen
        <5>. QED
          BY <1>1, <2>3, <2>7, <5>3
      <4>2. ASSUME NEW u \in Requests, NEW x \in listed[u],
                   pc[u] = "store", at[u] = p, x.path = p, stat[u] = st
            PROVE  HitOK(r, x.gen)'
        <5>1. PICK y \in listed[u] : y.path = at[u] /\ EntryOK(at[u], stat[u], y.gen)
          BY <4>2 DEF IInv, StatInv, StatOK
        <5>2. y = x
          BY <4>2, <5>1 DEF IInv, WalkInv, WalkOK
        <5>. QED
          BY <2>7, <4>2, <5>1, <5>2
      <4>. QED
        BY <2>3, <2>6, <3>1, <3>3, <4>1, <4>2
    <3>. QED
      BY <3>2, <3>3
  <2>9. WalkOK(r)' /\ DuringOK(r)' /\ SteadyOK(r)'
    BY <1>0, <1>1, <1>2, <2>3
    DEF Own, WalkOK, DuringOK, SteadyOK, Listing, Asked, Full, Content
  <2>10. StatOK(r)' /\ ListedOK(r)'
    <3>1. file[p].gen \in written /\ Seen(p, file[p].gen, StatOf(p))
      BY <1>4 DEF IInv, FilesInv
    <3>2. \E f \in written' : Seen(at[r], f, stat[r])'
      BY <1>1, <2>3, <3>1 DEF Seen
    <3>. QED
      BY <1>0, <1>1, <2>3, <3>2 DEF Own, StatOK, ListedOK, Indistinguishable, Indistinct
  <2>. QED
    BY <2>4, <2>5, <2>8, <2>9, <2>10, RequestStep DEF Own
<1>. QED
  BY <1>3, <1>4

LEMMA LookupHitInv ==
  ASSUME IInv, NEW r \in Requests, LookupHit(r)
  PROVE  IInv'
<1>0. TypeOK /\ Own(r) /\ pc[r] = "lookup" /\ Fresh(r)
  BY DEF LookupHit, IInv, Own, WalkInv, StatInv, DuringInv, ListedInv, SteadyInv
<1>1. PICK item : item = [path |-> at[r], gen |-> cache[at[r]].gen]
  OBVIOUS
<1>2. /\ listed' = [listed EXCEPT ![r] = @ \cup {item}] /\ pc' = [pc EXCEPT ![r] = "next"]
      /\ UNCHANGED <<file, written, tick, cache, want, todo, at, stat, active, reply,
                     stamped, during, steady>>
  BY <1>1 DEF LookupHit, files, history
<1>3. /\ item \in [path : Paths, gen : Generations] /\ item.path = at[r]
      /\ item \in during[r] \/ Indistinguishable(at[r])
  <2>1. at[r] \in Paths /\ cache[at[r]].gen \in Generations
    BY <1>0 DEF Own, WalkOK, Fresh, TypeOK
  <2>2. HitOK(r, cache[at[r]].gen)
    BY <1>0 DEF IInv, HitInv
  <2>3. HitOK(r, cache[at[r]].gen) => item \in during[r] \/ Indistinguishable(at[r])
    BY <1>1 DEF HitOK, Indistinct, Indistinguishable
  <2>. QED
    BY <1>1, <2>1, <2>2, <2>3
<1>4. /\ pc' \in [Requests -> Stages] /\ pc'[r] = "next"
      /\ \A q \in Requests : q # r => pc'[q] = pc[q] /\ listed'[q] = listed[q]
      /\ listed' \in [Requests -> SUBSET [path : Paths, gen : Generations]]
      /\ listed'[r] = listed[r] \cup {item}
  BY <1>0, <1>2, <1>3 DEF TypeOK, Stages
<1>5. Others(r) /\ TypeOK'
  BY <1>0, <1>2, <1>4 DEF Others, TypeOK
<1>6. CacheInv' /\ HitInv'
  BY <1>2, <1>4, <1>5, CacheKept
<1>7. WalkOK(r)' /\ DuringOK(r)'
  BY <1>0, <1>2, <1>3, <1>4 DEF Own, WalkOK, DuringOK, Listing, Asked, Full, Content
<1>8. StatOK(r)' /\ ListedOK(r)'
  BY <1>0, <1>2, <1>3, <1>4 DEF Own, StatOK, ListedOK, Indistinguishable, Indistinct
<1>9. SteadyOK(r)'
  BY <1>0, <1>2, <1>3, <1>4 DEF Own, SteadyOK, Listing, Asked, Full
<1>. QED
  BY <1>5, <1>6, <1>7, <1>8, <1>9, RequestStep DEF Own

LEMMA ReadReportInv ==
  ASSUME IInv, NEW r \in Requests, ReadReport(r)
  PROVE  IInv'
<1>0. TypeOK /\ Own(r) /\ pc[r] = "read" /\ Full(at[r]) /\ at[r] \in Paths
  BY DEF ReadReport, IInv, Own, WalkInv, WalkOK, StatInv, DuringInv, ListedInv, SteadyInv
<1>1. PICK item, p, st : item = Content(p) /\ p = at[r] /\ st = stat[r]
  OBVIOUS
<1>2. /\ listed' = [listed EXCEPT ![r] = @ \cup {item}] /\ pc' = [pc EXCEPT ![r] = "store"]
      /\ UNCHANGED <<file, written, tick, cache, want, todo, at, stat, active, reply,
                     stamped, during, steady>>
  BY <1>1 DEF ReadReport, files, history
<1>3. /\ file[p] # Absent /\ item.path = p /\ item.gen = file[p].gen
      /\ item \in [path : Paths, gen : Generations]
      /\ item \in during[r]
  BY <1>0, <1>1 DEF TypeOK, Full, Content, Absent, Own, DuringOK, Asked
<1>4. /\ pc' \in [Requests -> Stages] /\ pc'[r] = "store"
      /\ \A q \in Requests : q # r => pc'[q] = pc[q] /\ listed'[q] = listed[q]
      /\ listed' \in [Requests -> SUBSET [path : Paths, gen : Generations]]
      /\ listed'[r] = listed[r] \cup {item}
  BY <1>0, <1>2, <1>3 DEF TypeOK, Stages
<1>5. Others(r) /\ TypeOK'
  BY <1>0, <1>2, <1>4 DEF Others, TypeOK
<1>6. CacheInv'
  BY <1>2, <1>5, CacheKept
<1>7. WalkOK(r)' /\ DuringOK(r)'
  BY <1>0, <1>1, <1>2, <1>3, <1>4 DEF Own, WalkOK, DuringOK, Listing, Asked, Full, Content
<1>8. EntryOK(p, st, item.gen)'
  <2>1. PICK f \in written : Seen(p, f, st)
    BY <1>0, <1>1 DEF Own, StatOK
  <2>2. item.gen \in written /\ Full(p)
    BY <1>0, <1>1, <1>3 DEF IInv, FilesInv
  <2>3. f = item.gen \/ ~Holds(p, f)
    BY <1>3 DEF Holds
  <2>4. EntryOK(p, st, item.gen)
    BY <2>1, <2>2, <2>3 DEF EntryOK
  <2>. QED
    BY <1>2, <2>4 DEF EntryOK, Seen, Holds, Full
<1>9. StatOK(r)' /\ ListedOK(r)'
  <2>1. \E x \in listed'[r] : x.path = at'[r] /\ EntryOK(at[r], stat[r], x.gen)'
    BY <1>1, <1>2, <1>3, <1>4, <1>8
  <2>. QED
    BY <1>0, <1>2, <1>3, <1>4, <2>1 DEF Own, StatOK, ListedOK, Indistinguishable, Indistinct
<1>10. SteadyOK(r)'
  BY <1>0, <1>1, <1>2, <1>3, <1>4 DEF Own, SteadyOK, Listing, Asked, Full
<1>11. HitInv'
  <2>. SUFFICES ASSUME NEW q \in Requests, pc'[q] = "lookup"
       PROVE  /\ Fresh(q)' => HitOK(q, cache[at[q]].gen)'
              /\ \A u \in Requests : \A x \in Pending(u, at[q], stat[q])' : HitOK(q, x.gen)'
    BY DEF HitInv
  <2>1. pc[q] = "lookup" /\ \A g : HitOK(q, g)' = HitOK(q, g)
    BY <1>2, <1>4 DEF HitOK, Indistinct
  <2>2. Fresh(q)' => HitOK(q, cache[at[q]].gen)'
    BY <1>2, <2>1 DEF IInv, HitInv, Fresh
  <2>3. ASSUME NEW u \in Requests, NEW x \in Pending(u, at[q], stat[q])'
        PROVE  HitOK(q, x.gen)'
    <3>1. CASE u # r
      <4>1. x \in Pending(u, at[q], stat[q])
        BY <1>2, <1>4, <2>3, <3>1 DEF Pending
      <4>. QED
        BY <2>1, <4>1 DEF IInv, HitInv
    <3>2. CASE u = r
      <4>1. x.path = p /\ x \in listed[r] \cup {item} /\ at[q] = p
        BY <1>1, <1>2, <1>4, <2>3, <3>2 DEF Pending
      <4>2. x = item
        BY <1>0, <1>1, <4>1 DEF Own, WalkOK
      <4>3. Content(p) \in during[q]
        BY <1>0, <1>1, <2>1 DEF IInv, DuringInv, DuringOK, Asked
      <4>. QED
        BY <1>1, <1>2, <4>1, <4>2, <4>3 DEF HitOK, Content
    <3>. QED
      BY <3>1, <3>2
  <2>. QED
    BY <2>2, <2>3
<1>. QED
  BY <1>5, <1>6, <1>7, <1>9, <1>10, <1>11, RequestStep DEF Own

\* The entry takes over what the request had pending.
LEMMA StoreInv ==
  ASSUME IInv, NEW r \in Requests, Store(r)
  PROVE  IInv'
<1>0. TypeOK /\ Own(r) /\ pc[r] = "store" /\ at[r] \in Paths
  BY DEF Store, IInv, Own, WalkInv, WalkOK, StatInv, DuringInv, ListedInv, SteadyInv
<1>1. PICK p, st, item : /\ p = at[r] /\ st = stat[r]
                         /\ item \in listed[r] /\ item.path = p /\ EntryOK(p, st, item.gen)
  BY <1>0 DEF Own, StatOK
<1>2. (CHOOSE i \in listed[r] : i.path = at[r]) = item
  BY <1>0, <1>1 DEF Own, WalkOK
<1>3. PICK e : e = [stamp |-> st.stamp, size |-> st.size, gen |-> item.gen]
  OBVIOUS
<1>4. /\ cache' = [q \in DOMAIN cache \cup {p} |-> IF q = p THEN e ELSE cache[q]]
      /\ pc' = [pc EXCEPT ![r] = "next"]
      /\ UNCHANGED <<file, written, tick, want, todo, at, stat, active, listed, reply,
                     stamped, during, steady>>
  BY <1>1, <1>2, <1>3 DEF Store, CacheEntry, files, local, history
<1>5. /\ pc' \in [Requests -> Stages] /\ pc'[r] = "next"
      /\ \A q \in Requests : q # r => pc'[q] = pc[q]
      /\ st.stamp \in Nat /\ st.size \in Nat /\ item.gen \in Generations
  BY <1>0, <1>1, <1>4 DEF TypeOK, Stages
<1>6. /\ DOMAIN cache' = DOMAIN cache \cup {p} /\ cache'[p] = e
      /\ \A q \in DOMAIN cache : q # p => cache'[q] = cache[q]
      /\ e.stamp = st.stamp /\ e.size = st.size /\ e.gen = item.gen
      /\ e \in [stamp : Nat, size : Nat, gen : Generations]
  BY <1>3, <1>4, <1>5
<1>7. Others(r) /\ TypeOK'
  BY <1>0, <1>1, <1>4, <1>5, <1>6 DEF Others, TypeOK
<1>8. CacheInv'
  <2>. SUFFICES ASSUME NEW q \in DOMAIN cache' PROVE EntryOK(q, cache[q], cache[q].gen)'
    BY DEF CacheInv
  <2>1. PICK en : en = cache'[q]
    OBVIOUS
  <2>2. EntryOK(q, en, en.gen)
    <3>1. CASE q = p
      BY <1>1, <1>6, <2>1, <3>1 DEF EntryOK, Seen
    <3>2. CASE q # p
      BY <1>6, <2>1, <3>2 DEF IInv, CacheInv
    <3>. QED
      BY <3>1, <3>2
  <2>3. EntryOK(q, en, en.gen)'
    BY <1>4, <2>2 DEF EntryOK, Seen, Holds, Full
  <2>. QED
    BY <2>1, <2>3
<1>9. HitInv'
  <2>. SUFFICES ASSUME NEW q \in Requests, pc'[q] = "lookup"
       PROVE  /\ Fresh(q)' => HitOK(q, cache[at[q]].gen)'
              /\ \A u \in Requests : \A x \in Pending(u, at[q], stat[q])' : HitOK(q, x.gen)'
    BY DEF HitInv
  <2>1. q # r /\ pc[q] = "lookup" /\ \A g : HitOK(q, g)' = HitOK(q, g)
    BY <1>4, <1>5 DEF HitOK, Indistinct
  <2>2. \A u \in Requests : Pending(u, at[q], stat[q])' \subseteq Pending(u, at[q], stat[q])
    BY <1>4, <1>5 DEF Pending
  <2>3. ASSUME Fresh(q)'
        PROVE  HitOK(q, cache[at[q]].gen)'
    <3>1. CASE at[q] # p
      BY <1>4, <1>6, <2>1, <2>3, <3>1 DEF IInv, HitInv, Fresh
    <3>2. CASE at[q] = p
      <4>1. stat[q] = st
        <5>1. stat[q].stamp = st.stamp /\ stat[q].size = st.size
          BY <1>4, <1>6, <2>3, <3>2 DEF Fresh
        <5>2. stat[q] \in [stamp : Nat, size : Nat] /\ st \in [stamp : Nat, size : Nat]
          BY <1>0, <1>1 DEF TypeOK
        <5>. QED
          BY <5>1, <5>2
      <4>2. item \in Pending(r, at[q], stat[q])
        BY <1>0, <1>1, <3>2, <4>1 DEF Pending
      <4>. QED
        BY <1>4, <1>6, <2>1, <3>2, <4>2 DEF IInv, HitInv
    <3>. QED
      BY <3>1, <3>2
  <2>. QED
    BY <2>1, <2>2, <2>3 DEF IInv, HitInv
<1>10. WalkOK(r)' /\ DuringOK(r)' /\ SteadyOK(r)'
  BY <1>0, <1>4, <1>5 DEF Own, WalkOK, DuringOK, SteadyOK, Listing, Asked, Full, Content
<1>11. StatOK(r)' /\ ListedOK(r)'
  BY <1>0, <1>4, <1>5 DEF Own, StatOK, ListedOK, Indistinguishable, Indistinct
<1>. QED
  BY <1>7, <1>8, <1>9, <1>10, <1>11, RequestStep DEF Own

\* The steps that answer.
LEMMA ReplyInv ==
  ASSUME IInv, NEW r \in Requests, EvictAndReply(r) \/ Load(r)
  PROVE  IInv'
<1>0. TypeOK /\ Own(r) /\ pc[r] \in {"next", "load"} /\ (pc[r] = "load" => want[r] \in Paths)
  BY DEF EvictAndReply, Load, IInv, Own, WalkInv, WalkOK, StatInv, DuringInv, ListedInv, SteadyInv
<1>1. /\ pc' = [pc EXCEPT ![r] = "done"]
      /\ UNCHANGED <<file, written, tick, want, todo, at, stat, active, listed,
                     stamped, during, steady>>
  BY DEF EvictAndReply, Load, files, local, history
<1>2. /\ DOMAIN cache' \subseteq DOMAIN cache
      /\ \A p \in DOMAIN cache' : cache'[p] = cache[p]
  BY DEF EvictAndReply, Load
<1>3. reply' \in [Requests -> SUBSET [path : Paths, gen : Generations]]
  <2>1. CASE EvictAndReply(r)
    BY <1>0, <2>1 DEF EvictAndReply, TypeOK
  <2>2. CASE Load(r)
    <3>1. Full(want[r]) => Content(want[r]) \in [path : Paths, gen : Generations]
      BY <1>0, <2>2 DEF Load, TypeOK, Full, Content, Absent
    <3>. QED
      BY <1>0, <2>2, <3>1 DEF Load, TypeOK
  <2>. QED
    BY <2>1, <2>2
<1>4. /\ pc' \in [Requests -> Stages] /\ pc'[r] = "done"
      /\ \A q \in Requests : q # r => pc'[q] = pc[q]
  BY <1>0, <1>1 DEF TypeOK, Stages
<1>5. Others(r) /\ TypeOK'
  BY <1>0, <1>1, <1>2, <1>3, <1>4 DEF Others, TypeOK
<1>6. CacheInv' /\ HitInv'
  BY <1>2, <1>4, <1>5, CacheKept
<1>7. WalkOK(r)' /\ DuringOK(r)' /\ SteadyOK(r)'
  BY <1>0, <1>1, <1>4 DEF Own, WalkOK, DuringOK, SteadyOK, Listing, Asked
<1>8. StatOK(r)' /\ ListedOK(r)'
  BY <1>0, <1>1, <1>4 DEF Own, StatOK, ListedOK, Indistinguishable, Indistinct
<1>. QED
  BY <1>5, <1>6, <1>7, <1>8, RequestStep DEF Own

LEMMA NextIInv == IInv /\ [Next]_vars => IInv'
<1>. SUFFICES ASSUME IInv, [Next]_vars PROVE IInv'
  OBVIOUS
<1>1. CASE World
  BY <1>1, WorldIsFileStep, FileStepInv, TickInv DEF World
<1>2. ASSUME NEW r \in Requests,
             ListRequest(r) \/ Handle(r) \/ \E p \in Paths : DetailRequest(r, p)
      PROVE  IInv'
  BY <1>2, ArriveInv, PassInv, StatInvariant, LookupHitInv, ReadReportInv, StoreInv, ReplyInv
  DEF Handle
<1>3. CASE UNCHANGED vars
  <2>1. TypeOK' /\ FilesInv'
    BY <1>3 DEF vars, IInv, TypeOK, FilesInv, Seen, StatOf, Full
  <2>2. \A p \in Paths : \A st, g : EntryOK(p, st, g)' = EntryOK(p, st, g)
    BY <1>3 DEF vars, EntryOK, Holds, Seen, Full
  <2>3. CacheInv' /\ StatInv'
    <3>1. CacheInv'
      BY <1>3, <2>2 DEF vars, IInv, TypeOK, CacheInv
    <3>2. ASSUME NEW r \in Requests
          PROVE  StatOK(r)'
      BY <1>3, <2>2 DEF vars, IInv, StatInv, StatOK, WalkInv, WalkOK, Seen
    <3>. QED
      BY <3>1, <3>2 DEF StatInv
  <2>4. WalkInv' /\ DuringInv' /\ SteadyInv'
    BY <1>3 DEF vars, IInv, WalkInv, WalkOK, DuringInv, DuringOK, SteadyInv, SteadyOK, Full, Content
  <2>5. HitInv' /\ ListedInv'
    BY <1>3 DEF vars, IInv, HitInv, HitOK, Fresh, Pending, ListedInv, ListedOK,
                Indistinguishable, Indistinct
  <2>. QED
    BY <2>1, <2>3, <2>4, <2>5 DEF IInv
<1>. QED
  BY <1>1, <1>2, <1>3 DEF Next

--------------------------------------------------------------------------------
\* The inductive invariant holds for any requests, files and contents.
THEOREM IInvHolds == Spec => []IInv
BY InitIInv, NextIInv, PTL DEF Spec

\* The cache, the requests and the files keep their types, whatever is written
\* while a request runs.
THEOREM TypeCorrect == Spec => []TypeOK
BY IInvHolds, PTL DEF IInv

\* A cache entry that passes the freshness test describes the file as it is,
\* unless the file was written twice within one tick of the clock with one size.
THEOREM CacheStaysFaithful == Spec => []CacheIsFaithful
<1>1. IInv => CacheIsFaithful
  <2>. SUFFICES ASSUME IInv, NEW p \in DOMAIN cache, Full(p),
                       cache[p].stamp = file[p].stamp, cache[p].size = Size(file[p].gen),
                       cache[p].gen # file[p].gen
       PROVE  Indistinct(p, cache[p].stamp, cache[p].size)
    BY DEF CacheIsFaithful
  <2>1. p \in Paths /\ file[p] # Absent
    BY DEF IInv, TypeOK, Full, Absent
  <2>2. PICK f \in written : Seen(p, f, cache[p]) /\ (f = cache[p].gen \/ ~Holds(p, f))
    BY DEF IInv, CacheInv, EntryOK
  <2>3. f # file[p].gen
    BY <2>1, <2>2 DEF Holds
  <2>4. Seen(p, file[p].gen, cache[p])
    BY <2>1 DEF IInv, FilesInv, Seen, StatOf
  <2>. QED
    BY <2>2, <2>3, <2>4 DEF Seen, Indistinct
<1>. QED
  BY <1>1, IInvHolds, PTL

--------------------------------------------------------------------------------
(* The repository implements the catalog. *)

LEMMA PhaseIs ==
  ASSUME NEW r \in Requests, pc[r] \in Stages
  PROVE  /\ Phase(r) = "idle" <=> pc[r] = "idle"
         /\ Phase(r) = "asked" <=> pc[r] \in Asked
         /\ pc[r] \in Asked => Phase(r) = "asked"
         /\ pc[r] = "done" => Phase(r) = "answered"
         /\ pc[r] = "aborted" => Phase(r) = "broken"
BY DEF Phase, Stages, Asked

LEMMA InitMaps == Init => Catalog!Init
<1>. SUFFICES ASSUME Init PROVE Catalog!Init
  OBVIOUS
<1>1. \A p \in Paths : ~Full(p) /\ ~Indistinguishable(p)
  BY DEF Init, Full, Absent, Indistinguishable
<1>2. \A r \in Requests : Phase(r) = "idle" /\ want[r] = NoPath
  BY DEF Init, Phase
<1>. QED
  BY <1>1, <1>2 DEF Init, Catalog!Init

\* What a step of the world is in the catalog: somebody disturbs one place.
LEMMA DisturbMaps ==
  ASSUME IInv, NEW p \in Paths, NEW f, Becomes(p, f), FileStep(p),
         f \in {Absent} \cup [state : {"partial", "full"}, gen : Generations, stamp : Nat],
         NEW gs, gs = IF f.state = "full" THEN {f.gen} ELSE {}
  PROVE  Catalog!Disturb(p, gs)
<1>0. TypeOK /\ file'[p] = f /\ \A q \in Paths : q # p => file'[q] = file[q]
  BY BecomesShows DEF IInv
<1>1. ASSUME NEW q \in Paths
      PROVE  (IF Full(q)' THEN {file'[q].gen} ELSE {})
               = IF q = p THEN gs ELSE IF Full(q) THEN {file[q].gen} ELSE {}
  BY <1>0 DEF Full
<1>2. ASSUME NEW q \in Paths
      PROVE  /\ Indistinguishable(q) => Indistinguishable(q)'
             /\ q # p /\ Indistinguishable(q)' => Indistinguishable(q)
  BY DEF FileStep, Indistinguishable, Indistinct
<1>3. ASSUME NEW r \in Requests
      PROVE  during'[r] = during[r] \cup (IF Phase(r) = "asked" THEN {[path |-> p, gen |-> g] : g \in gs}
                                          ELSE {})
  <2>1. Phase(r) = "asked" <=> pc[r] \in Asked
    BY <1>0, PhaseIs DEF TypeOK
  <2>2. pc[r] \in Asked <=> pc[r] \notin {"idle", "done", "aborted"}
    BY <1>0 DEF TypeOK, Asked, Stages
  <2>. QED
    BY <2>1, <2>2 DEF Becomes, Absent
<1>4. UNCHANGED <<pc, want, reply>> /\ during' = [r \in Requests |-> during'[r]]
      /\ steady' = [r \in Requests |-> steady[r] \ {p}]
  BY DEF Becomes, local
<1>5. \A r \in Requests : Phase(r)' = Phase(r)
  BY <1>4 DEF Phase
<1>6. [q \in Paths |-> IF Full(q)' THEN {file'[q].gen} ELSE {}]
        = [[q \in Paths |-> IF Full(q) THEN {file[q].gen} ELSE {}] EXCEPT ![p] = gs]
  BY <1>1
<1>7. /\ {q \in Paths : Indistinguishable(q)} \subseteq {q \in Paths : Indistinguishable(q)'}
      /\ {q \in Paths : Indistinguishable(q)'} \subseteq {q \in Paths : Indistinguishable(q)} \cup {p}
  BY <1>2
<1>8. during' = [r \in Requests |-> during[r] \cup
                  (IF [q \in Requests |-> Phase(q)][r] = "asked"
                   THEN {[path |-> p, gen |-> g] : g \in gs} ELSE {})]
  BY <1>3, <1>4
<1>. QED
  BY <1>4, <1>5, <1>6, <1>7, <1>8 DEF Catalog!Disturb

LEMMA WorldMaps ==
  ASSUME IInv, World
  PROVE  Catalog!Next \/ UNCHANGED Catalog!vars
<1>0. TypeOK /\ FilesInv
  BY DEF IInv
<1>1. CASE Tick
  <2>1. UNCHANGED <<file, pc, want, reply, stamped, during, steady>>
    BY <1>1 DEF Tick, local, history
  <2>. QED
    BY <2>1 DEF Catalog!vars, Full, Phase, Indistinguishable, Indistinct
<1>2. ASSUME NEW p \in Paths, FinishWrite(p)
      PROVE  Catalog!Next
  <2>. DEFINE f == [file[p] EXCEPT !.state = "full", !.stamp = tick]
  <2>1. file[p] \in [state : {"partial", "full"}, gen : Generations, stamp : Nat]
    BY <1>0, <1>2 DEF FinishWrite, TypeOK, Absent
  <2>2. /\ f \in [state : {"partial", "full"}, gen : Generations, stamp : Nat]
        /\ f.state = "full" /\ f.gen \in Generations
    BY <1>0, <2>1 DEF TypeOK
  <2>3. Becomes(p, f) /\ FileStep(p)
    BY <1>2, WorldIsFileStep DEF FinishWrite
  <2>. HIDE DEF f
  <2>4. PICK g \in Generations : g = f.gen
    BY <2>2
  <2>5. Catalog!Disturb(p, {g})
    BY <2>2, <2>3, <2>4, DisturbMaps
  <2>. QED
    BY <2>5 DEF Catalog!Next
<1>3. ASSUME NEW p \in Paths, Remove(p)
      PROVE  Catalog!Next
  <2>1. Becomes(p, Absent) /\ FileStep(p) /\ Absent.state # "full"
    BY <1>3, WorldIsFileStep DEF Remove, Absent
  <2>2. Catalog!Disturb(p, {})
    BY <2>1, DisturbMaps
  <2>3. file[p].gen \in Generations
    BY <1>0, <1>3 DEF Remove, TypeOK
  <2>. QED
    BY <2>2, <2>3 DEF Catalog!Next
<1>4. ASSUME NEW p \in Paths, NEW g \in Generations, Truncate(p, g)
      PROVE  Catalog!Next
  <2>. DEFINE f == [state |-> "partial", gen |-> g, stamp |-> tick]
  <2>1. /\ f \in [state : {"partial", "full"}, gen : Generations, stamp : Nat]
        /\ f.state # "full"
    BY <1>0 DEF TypeOK
  <2>2. Becomes(p, f) /\ FileStep(p)
    BY <1>4, WorldIsFileStep DEF Truncate
  <2>. HIDE DEF f
  <2>3. Catalog!Disturb(p, {})
    BY <2>1, <2>2, DisturbMaps
  <2>. QED
    BY <2>3 DEF Catalog!Next
<1>. QED
  BY <1>1, <1>2, <1>3, <1>4 DEF World

LEMMA ArriveMaps ==
  ASSUME IInv, NEW r \in Requests,
         ListRequest(r) \/ \E p \in Paths : DetailRequest(r, p)
  PROVE  Catalog!Next
<1>0. TypeOK /\ pc[r] = "idle" /\ want[r] = NoPath
  BY DEF IInv, WalkInv, WalkOK, ListRequest, DetailRequest, Arrive
<1>1. /\ during' = [during EXCEPT ![r] = Complete] /\ steady' = [steady EXCEPT ![r] = Sound]
      /\ UNCHANGED <<file, reply, stamped>>
  BY DEF ListRequest, DetailRequest, Arrive, files
<1>2. Complete = Catalog!Shown /\ Sound = Catalog!Valid
  <2>1. Complete = Catalog!Shown
    BY DEF Complete, Content, Catalog!Shown
  <2>2. Sound = Catalog!Valid
    BY DEF Sound, Catalog!Valid
  <2>. QED
    BY <2>1, <2>2
<1>3. ASSUME NEW ps, NEW w \in Paths \cup {NoPath}, want' = [want EXCEPT ![r] = w],
             ps = IF w = NoPath THEN Paths ELSE {w}
      PROVE  [q \in Requests |-> IF want'[q] = NoPath THEN Paths ELSE {want'[q]}]
               = [[q \in Requests |-> IF want[q] = NoPath THEN Paths ELSE {want[q]}]
                     EXCEPT ![r] = ps]
  BY <1>0, <1>3 DEF TypeOK
<1>4. ASSUME NEW stage \in {"next", "load", "done"}, pc' = [pc EXCEPT ![r] = stage]
      PROVE  [q \in Requests |-> Phase(q)']
               = [[q \in Requests |-> Phase(q)] EXCEPT ![r] = IF stage = "done" THEN "answered" ELSE "asked"]
  <2>1. pc'[r] = stage /\ \A q \in Requests : q # r => pc'[q] = pc[q]
    BY <1>0, <1>4 DEF TypeOK
  <2>2. Phase(r)' = IF stage = "done" THEN "answered" ELSE "asked"
    BY <2>1 DEF Phase
  <2>3. \A q \in Requests : q # r => Phase(q)' = Phase(q)
    BY <2>1 DEF Phase
  <2>. QED
    BY <2>2, <2>3
<1>5. Phase(r) = "idle"
  BY <1>0 DEF Phase
<1>6. UNCHANGED <<[p \in Paths |-> IF Full(p) THEN {file[p].gen} ELSE {}],
                 {p \in Paths : Indistinguishable(p)}, reply>>
  BY <1>1 DEF Full, Indistinguishable, Indistinct
<1>7. ASSUME NEW ps, NEW w \in Paths \cup {NoPath}, want' = [want EXCEPT ![r] = w],
             ps = IF w = NoPath THEN Paths ELSE {w},
             \/ pc' = [pc EXCEPT ![r] = "next"] \/ pc' = [pc EXCEPT ![r] = "load"]
             \/ pc' = [pc EXCEPT ![r] = "done"] /\ ps \cap Sound = {}
      PROVE  Catalog!Ask(r, ps)
  <2>1. [q \in Requests |-> IF want[q] = NoPath THEN Paths ELSE {want[q]}]'
          = [[q \in Requests |-> IF want[q] = NoPath THEN Paths ELSE {want[q]}] EXCEPT ![r] = ps]
    BY <1>3, <1>7
  <2>2. \/ [q \in Requests |-> Phase(q)]' = [[q \in Requests |-> Phase(q)] EXCEPT ![r] = "asked"]
        \/ /\ ps \cap Catalog!Valid = {}
           /\ [q \in Requests |-> Phase(q)]'
                = [[q \in Requests |-> Phase(q)] EXCEPT ![r] = "answered"]
    BY <1>2, <1>4, <1>7
  <2>. QED
    BY <1>1, <1>2, <1>5, <1>6, <2>1, <2>2 DEF Catalog!Ask
<1>8. CASE ListRequest(r)
  <2>1. want' = [want EXCEPT ![r] = NoPath] /\ pc' = [pc EXCEPT ![r] = "next"]
    BY <1>0, <1>8 DEF ListRequest, TypeOK
  <2>2. Catalog!Ask(r, Paths)
    BY <1>7, <2>1
  <2>. QED
    BY <2>2 DEF Catalog!Next
<1>9. ASSUME NEW p \in Paths, DetailRequest(r, p)
      PROVE  Catalog!Next
  <2>1. want' = [want EXCEPT ![r] = p] /\ p # NoPath
    BY <1>9, RepositoryAssumption DEF DetailRequest
  <2>2. CASE p \in Existing
    <3>1. pc' = [pc EXCEPT ![r] = "load"]
      BY <1>9, <2>2 DEF DetailRequest
    <3>2. Catalog!Ask(r, {p})
      BY <1>7, <2>1, <3>1
    <3>. QED
      BY <3>2 DEF Catalog!Next
  <2>3. CASE p \notin Existing
    <3>1. pc' = [pc EXCEPT ![r] = "done"]
      BY <1>9, <2>3 DEF DetailRequest
    <3>2. {p} \cap Sound = {}
      BY <2>3 DEF Existing, Sound, Full, Absent
    <3>3. Catalog!Ask(r, {p})
      BY <1>7, <2>1, <3>1, <3>2
    <3>. QED
      BY <3>3 DEF Catalog!Next
  <2>. QED
    BY <2>2, <2>3
<1>. QED
  BY <1>8, <1>9

\* The answer shows each report once, as it was or as stat could not tell from
\* how it was, and leaves out none that stayed.
LEMMA AnswerMaps ==
  ASSUME IInv, NEW r \in Requests, EvictAndReply(r) \/ Load(r)
  PROVE  Catalog!Next
<1>. DEFINE ps == IF want[r] = NoPath THEN Paths ELSE {want[r]}
<1>0. TypeOK /\ Own(r) /\ pc[r] \in {"next", "load"}
  BY DEF EvictAndReply, Load, IInv, Own, WalkInv, StatInv, DuringInv, ListedInv, SteadyInv
<1>1. /\ pc' = [pc EXCEPT ![r] = "done"]
      /\ UNCHANGED <<file, want, stamped, during, steady>>
  BY DEF EvictAndReply, Load, files, local, history
<1>2. PICK a : /\ reply' = [reply EXCEPT ![r] = a]
               /\ \A x, y \in a : x.path = y.path => x = y
               /\ \A x \in a : x \in [path : Paths, gen : Generations] /\ x.path \in ps
                               /\ (x \in during[r] \/ Indistinguishable(x.path))
               /\ \A p \in steady[r] : p \in ps => \E x \in a : x.path = p
  <2>1. CASE EvictAndReply(r)
    <3>1. pc[r] = "next" /\ todo[r] = {} /\ reply' = [reply EXCEPT ![r] = listed[r]]
      BY <2>1 DEF EvictAndReply
    <3>2. ps = Paths /\ \A x, y \in listed[r] : x.path = y.path => x = y
      BY <1>0, <3>1 DEF Own, WalkOK, Listing
    <3>3. ASSUME NEW x \in listed[r]
          PROVE  /\ x \in [path : Paths, gen : Generations] /\ x.path \in Paths
                 /\ x \in during[r] \/ Indistinguishable(x.path)
      BY <1>0 DEF Own, ListedOK, TypeOK
    <3>4. \A p \in steady[r] : \E x \in listed[r] : x.path = p
      BY <1>0, <3>1 DEF Own, SteadyOK, Listing
    <3>. QED
      BY <3>1, <3>2, <3>3, <3>4
  <2>2. CASE Load(r)
    <3>. DEFINE p == want[r]
    <3>1. p \in Paths /\ ps = {p}
      BY <1>0, <2>2, RepositoryAssumption DEF Load, Own, WalkOK
    <3>2. CASE Full(p) /\ Shape(file[p].gen) # "array"
      <4>1. reply' = [reply EXCEPT ![r] = {Content(p)}]
        BY <2>2, <3>2 DEF Load
      <4>2. Content(p) \in during[r] /\ Content(p).path = p
        BY <1>0, <2>2, <3>1, <3>2 DEF Load, Own, DuringOK, Asked, Content
      <4>3. during[r] \subseteq [path : Paths, gen : Generations]
        BY <1>0 DEF TypeOK
      <4>4. PICK x : x = Content(p) /\ x.path = p /\ x \in during[r]
        BY <4>2
      <4>5. reply' = [reply EXCEPT ![r] = {x}]
        BY <4>1, <4>4
      <4>. QED
        BY <3>1, <4>3, <4>4, <4>5
    <3>3. CASE ~(Full(p) /\ Shape(file[p].gen) # "array")
      <4>1. reply' = [reply EXCEPT ![r] = {}]
        BY <2>2, <3>3 DEF Load
      <4>2. p \notin steady[r]
        BY <1>0, <2>2, <3>3 DEF Load, Own, SteadyOK, Asked
      <4>3. \A q \in steady[r] : q \notin ps
        BY <3>1, <4>2
      <4>4. PICK a : a = {}
        OBVIOUS
      <4>5. reply' = [reply EXCEPT ![r] = a] /\ \A x : x \notin a
        BY <4>1, <4>4
      <4>. HIDE DEF p, ps
      <4>. QED
        BY <4>3, <4>5
    <3>. QED
      BY <3>2, <3>3
  <2>. QED
    BY <2>1, <2>2
<1>3. reply'[r] = a
  BY <1>0, <1>2 DEF TypeOK
<1>4. Phase(r) = "asked"
  BY <1>0, PhaseIs DEF TypeOK, Stages, Asked
<1>5. [q \in Requests |-> Phase(q)'] = [[q \in Requests |-> Phase(q)] EXCEPT ![r] = "answered"]
  <2>1. pc'[r] = "done" /\ \A q \in Requests : q # r => pc'[q] = pc[q]
    BY <1>0, <1>1 DEF TypeOK
  <2>2. Phase(r)' = "answered" /\ \A q \in Requests : q # r => Phase(q)' = Phase(q)
    BY <2>1 DEF Phase
  <2>. QED
    BY <2>2
<1>6. UNCHANGED <<[p \in Paths |-> IF Full(p) THEN {file[p].gen} ELSE {}],
                 {p \in Paths : Indistinguishable(p)},
                 [q \in Requests |-> IF want[q] = NoPath THEN Paths ELSE {want[q]}]>>
  BY <1>1 DEF Full, Indistinguishable, Indistinct
<1>7. \A x \in a : x.path \in ps /\ (x \in during[r] \/ x.path \in {p \in Paths : Indistinguishable(p)})
  BY <1>2
<1>8. steady[r] \cap ps \subseteq {x.path : x \in a}
  BY <1>2
<1>9. ps = [q \in Requests |-> IF want[q] = NoPath THEN Paths ELSE {want[q]}][r]
  OBVIOUS
<1>. HIDE DEF ps
<1>10. Catalog!Answer(r, a)
  BY <1>1, <1>2, <1>4, <1>5, <1>6, <1>7, <1>8, <1>9 DEF Catalog!Answer
<1>. QED
  BY <1>3, <1>10 DEF Catalog!Next

LEMMA BreakMaps ==
  ASSUME IInv, NEW r \in Requests, ReadWrongShape(r)
  PROVE  Catalog!Next
<1>0. TypeOK /\ Own(r) /\ pc[r] = "read"
  BY DEF ReadWrongShape, IInv, Own, WalkInv, StatInv, DuringInv, ListedInv, SteadyInv
<1>1. /\ pc' = [pc EXCEPT ![r] = "aborted"]
      /\ UNCHANGED <<file, want, reply, stamped, during, steady>>
  BY DEF ReadWrongShape, files, local, history
<1>2. \E x \in during[r] : Shape(x.gen) # "report"
  <2>1. Content(at[r]) \in during[r]
    BY <1>0 DEF ReadWrongShape, Own, WalkOK, DuringOK, Asked
  <2>2. Shape(Content(at[r]).gen) # "report"
    BY DEF ReadWrongShape, Content
  <2>. QED
    BY <2>1, <2>2
<1>3. Phase(r) = "asked"
  BY <1>0, PhaseIs DEF TypeOK, Stages, Asked
<1>4. [q \in Requests |-> Phase(q)'] = [[q \in Requests |-> Phase(q)] EXCEPT ![r] = "broken"]
  <2>1. pc'[r] = "aborted" /\ \A q \in Requests : q # r => pc'[q] = pc[q]
    BY <1>0, <1>1 DEF TypeOK
  <2>2. Phase(r)' = "broken" /\ \A q \in Requests : q # r => Phase(q)' = Phase(q)
    BY <2>1 DEF Phase
  <2>. QED
    BY <2>2
<1>5. UNCHANGED <<[p \in Paths |-> IF Full(p) THEN {file[p].gen} ELSE {}],
                 {p \in Paths : Indistinguishable(p)},
                 [q \in Requests |-> IF want[q] = NoPath THEN Paths ELSE {want[q]}]>>
  BY <1>1 DEF Full, Indistinguishable, Indistinct
<1>6. Catalog!Break(r)
  BY <1>1, <1>2, <1>3, <1>4, <1>5 DEF Catalog!Break
<1>. QED
  BY <1>6 DEF Catalog!Next

\* The rest of a request's walk is invisible.
LEMMA WalkMaps ==
  ASSUME IInv, NEW r \in Requests,
         \/ \E p \in Paths : Stat(r, p)
         \/ LookupHit(r) \/ LookupMiss(r) \/ ReadFails(r) \/ ReadReport(r) \/ Store(r)
  PROVE  UNCHANGED Catalog!vars
<1>0. TypeOK
  BY DEF IInv
<1>1. UNCHANGED <<file, want, reply, stamped, during, steady>>
  BY DEF Stat, LookupHit, LookupMiss, ReadFails, ReadReport, Store, files, local, history
<1>2. pc[r] \in Asked /\ \E stage \in Asked : pc' = [pc EXCEPT ![r] = stage]
  <2>1. CASE \E p \in Paths : Stat(r, p)
    BY <1>0, <2>1 DEF Stat, Asked, TypeOK
  <2>2. CASE LookupHit(r) \/ LookupMiss(r) \/ ReadFails(r) \/ ReadReport(r) \/ Store(r)
    BY <2>2 DEF LookupHit, LookupMiss, ReadFails, ReadReport, Store, Asked
  <2>. QED
    BY <2>1, <2>2
<1>3. ASSUME NEW q \in Requests
      PROVE  Phase(q)' = Phase(q)
  <2>1. pc'[q] = pc[q] \/ (pc[q] \in Asked /\ pc'[q] \in Asked)
    BY <1>0, <1>2 DEF TypeOK
  <2>. QED
    BY <2>1 DEF Phase, Asked
<1>. QED
  BY <1>1, <1>3 DEF Catalog!vars, Full, Indistinguishable, Indistinct

\* The repository implements the catalog.
THEOREM CatalogImplemented == Spec => ImplementsCatalog
<1>1. IInv /\ [Next]_vars => [Catalog!Next]_(Catalog!vars)
  <2>. SUFFICES ASSUME IInv, [Next]_vars
       PROVE  Catalog!Next \/ UNCHANGED Catalog!vars
    OBVIOUS
  <2>1. CASE World
    BY <2>1, WorldMaps
  <2>2. ASSUME NEW r \in Requests,
               ListRequest(r) \/ Handle(r) \/ \E p \in Paths : DetailRequest(r, p)
        PROVE  Catalog!Next \/ UNCHANGED Catalog!vars
    BY <2>2, ArriveMaps, AnswerMaps, BreakMaps, WalkMaps DEF Handle
  <2>3. CASE UNCHANGED vars
    BY <2>3 DEF vars, Catalog!vars, Phase, Full, Indistinguishable, Indistinct
  <2>. QED
    BY <2>1, <2>2, <2>3 DEF Next
<1>. QED
  BY <1>1, InitMaps, IInvHolds, PTL DEF Spec, ImplementsCatalog, Catalog!Spec
================================================================================
