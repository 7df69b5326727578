----------------------------- MODULE FigureProofs -----------------------------
(***************************************************************************)
(* Proofs about what may become a figure of a report: the counters, the    *)
(* bandwidths and the knees of curves, each for any values of its          *)
(* constants.  The three specifications have no variable in common.        *)
(***************************************************************************)
EXTENDS PerfCounters, DramSummary, CurveKnees, FiniteSetTheorems, TLAPS

--------------------------------------------------------------------------------
(* PerfCounters: what a group has behind it. *)

Idle(g) == ~started[g] /\ ~enabled[g] /\ ~covered[g] /\ ~counts[g]
Unavailable(g) == fds[g] = 0 /\ ~leader[g]

Fresh(g) == Unavailable(g) /\ ~error[g] /\ Idle(g)

\* The constructor is at work on it.
Opening(g) ==
  /\ Fresh(g) \/ (fds[g] = 1 /\ leader[g])
  /\ ~error[g] /\ Idle(g)

Opened(g) ==
  /\ (Available(g) /\ ~error[g]) \/ (Unavailable(g) /\ error[g])
  /\ Idle(g)

\* start has returned: the group counts, or it has left an error.
StartTried(g) ==
  /\ ~covered[g] /\ ~counts[g]
  /\ \/ Available(g) /\ started[g] /\ enabled[g] /\ ~error[g]
     \/ error[g] /\ ~started[g] /\ ~enabled[g]

\* The function has run: the group was counting all the time, or it has an error.
Ran(g) ==
  /\ ~counts[g]
  /\ \/ Available(g) /\ started[g] /\ covered[g] /\ ~error[g]
     \/ error[g] /\ ~started[g]

\* stop has returned: the group has counts of all of it, or an error.
Read(g) == (counts[g] /\ covered[g] /\ ~error[g]) \/ (error[g] /\ ~counts[g])

Released(g) == fds[g] = 0 /\ ~enabled[g]

\* The groups on either side of the one in turn.
ProgressInv ==
  \A i \in DOMAIN Groups :
    LET g == Groups[i] IN
    /\ stage = "open" =>
         (i < k => Opened(g)) /\ (i = k => Opening(g)) /\ (i > k => Fresh(g))
    /\ stage = "start" => (i < k => StartTried(g)) /\ (i >= k => Opened(g))
    /\ stage = "run" => StartTried(g)
    /\ stage = "stop" => (i <= k => Ran(g)) /\ (i > k => Read(g))
    /\ stage \in {"report", "close", "done"} => Read(g)
    /\ stage = "close" => (i > k => Released(g))
    /\ stage = "done" => Released(g)

\* Nobody touches a group that the user has not asked for.
OthersInv ==
  \A g \in Kinds : (\A i \in DOMAIN Groups : Groups[i] # g) => Fresh(g)

PublishedInv ==
  /\ stage \in {"open", "start", "run", "stop", "report"} => published = {}
  /\ \A g \in published : counts[g] /\ \E i \in DOMAIN Groups : Groups[i] = g
  /\ stage \in {"close", "done"} => \A g \in OwnFigures : counts[g] => g \in perf.zero \cup published

IInv == TypeOK /\ ProgressInv /\ OthersInv /\ PublishedInv

--------------------------------------------------------------------------------
\* The groups of a user are up to three different ones, and only measure_kernel
\* has more than one.
LEMMA GroupsOfUser ==
  ASSUME user \in Users
  PROVE  /\ DOMAIN Groups = 1 .. Len(Groups) /\ Len(Groups) \in 1 .. 3
         /\ \A i \in DOMAIN Groups : Groups[i] \in Kinds
         /\ \A i, j \in DOMAIN Groups : Groups[i] = Groups[j] => i = j
         /\ user \notin KernelUsers => Len(Groups) = 1
<1>1. CASE user \in KernelUsers
  <2>1. Groups = <<"core", "branch", "cache">>
    BY <1>1 DEF Groups, KernelUsers
  <2>2. /\ Len(Groups) = 3 /\ DOMAIN Groups = 1 .. 3
        /\ Groups[1] = "core" /\ Groups[2] = "branch" /\ Groups[3] = "cache"
    BY <2>1
  <2>. QED
    BY <1>1, <2>2 DEF Kinds
<1>2. CASE user = "probe-branch"
  BY <1>2 DEF Groups, Kinds, KernelUsers
<1>3. CASE user = "probe-cache"
  BY <1>3 DEF Groups, Kinds, KernelUsers
<1>4. CASE user \notin KernelUsers /\ user # "probe-branch" /\ user # "probe-cache"
  BY <1>4 DEF Groups, Kinds
<1>. QED
  BY <1>1, <1>2, <1>3, <1>4

LEMMA SameGroups == user' = user => Groups' = Groups /\ OwnFigures' = OwnFigures
BY DEF Groups, OwnFigures

\* A figure of one group is of a group that its user has.
LEMMA OwnFiguresAre ==
  ASSUME user \in Users
  PROVE  /\ user \in ProbeUsers => OwnFigures = {}
         /\ \A g \in OwnFigures : \E i \in DOMAIN Groups : Groups[i] = g
<1>1. CASE user \in KernelUsers
  <2>1. /\ DOMAIN Groups = 1 .. 3
        /\ Groups[1] = "core" /\ Groups[2] = "branch" /\ Groups[3] = "cache"
    BY <1>1 DEF Groups, KernelUsers
  <2>2. OwnFigures \subseteq {"core", "branch"}
    BY <1>1 DEF OwnFigures, KernelUsers
  <2>. QED
    BY <1>1, <2>1, <2>2 DEF KernelUsers, ProbeUsers
<1>2. CASE user = "compute-scaling"
  BY <1>2 DEF OwnFigures, Groups, KernelUsers, ProbeUsers
<1>3. CASE user \in ProbeUsers
  BY <1>3 DEF OwnFigures, ProbeUsers
<1>. QED
  BY <1>1, <1>2, <1>3, UsersAssumption DEF AllUsers

LEMMA InitIInv == Init => IInv
<1>. SUFFICES ASSUME Init PROVE IInv
  OBVIOUS
<1>. USE GroupsOfUser DEF Init
<1>1. TypeOK
  BY DEF TypeOK, None
<1>2. \A g \in Kinds : Fresh(g)
  BY DEF Fresh, Unavailable, Idle, None
<1>3. ProgressInv
  BY <1>2 DEF ProgressInv, Opening, Fresh
<1>4. OthersInv /\ PublishedInv
  BY <1>2 DEF OthersInv, PublishedInv
<1>. QED
  BY <1>1, <1>3, <1>4 DEF IInv

\* Nothing that the kernel or PerfGroup holds of a group changes.
Kept(g) ==
  /\ fds'[g] = fds[g] /\ leader'[g] = leader[g]
  /\ started'[g] = started[g] /\ error'[g] = error[g]
  /\ enabled'[g] = enabled[g] /\ covered'[g] = covered[g] /\ counts'[g] = counts[g]

LEMMA KeptIsKept ==
  ASSUME NEW g, Kept(g)
  PROVE  /\ Fresh(g)' = Fresh(g) /\ Opening(g)' = Opening(g) /\ Opened(g)' = Opened(g)
         /\ StartTried(g)' = StartTried(g) /\ Ran(g)' = Ran(g)
         /\ Read(g)' = Read(g) /\ Released(g)' = Released(g)
BY DEF Kept, Fresh, Opening, Opened, StartTried, Ran, Read, Released, Idle,
       Unavailable, Available

\* A step that deals with the group in turn keeps the other groups.
TurnOnly == \A g \in Kinds : g # Group => Kept(g)

LEMMA OthersKept ==
  ASSUME IInv, user' = user, TurnOnly
  PROVE  /\ \A i \in DOMAIN Groups : i # k => Kept(Groups[i])
         /\ OthersInv'
<1>. USE GroupsOfUser, SameGroups DEF IInv, TypeOK
<1>1. \A i \in DOMAIN Groups : i # k => Kept(Groups[i])
  BY DEF TurnOnly, Group
<1>2. ASSUME NEW g \in Kinds, \A i \in DOMAIN Groups : Groups[i] # g
      PROVE  Fresh(g)'
  <2>1. Fresh(g) /\ g # Group
    BY <1>2 DEF OthersInv, Group
  <2>. QED
    BY <2>1, KeptIsKept DEF TurnOnly
<1>3. OthersInv'
  BY <1>2 DEF OthersInv
<1>. QED
  BY <1>1, <1>3

\* The constructor of a group, event by event.
LEMMA OpenStep ==
  ASSUME IInv, OpenEvent \/ OpenFails
  PROVE  IInv'
<1>1. /\ stage = "open" /\ k \in DOMAIN Groups /\ Group \in Kinds /\ Opening(Group)
      /\ Groups' = Groups /\ TypeOK /\ ProgressInv
  BY GroupsOfUser, SameGroups DEF OpenEvent, OpenFails, IInv, TypeOK, ProgressInv, Group
<1>2. TurnOnly
  BY <1>1 DEF OpenEvent, OpenFails, TurnOnly, Kept, TypeOK
<1>3. OthersInv' /\ \A i \in DOMAIN Groups : i # k => Kept(Groups[i])
  BY <1>2, OthersKept DEF OpenEvent, OpenFails
<1>4. /\ DOMAIN Groups = 1 .. Len(Groups) /\ Len(Groups) \in 1 .. 3
      /\ PublishedInv
  BY GroupsOfUser DEF IInv, TypeOK
<1>5. CASE OpenEvent /\ fds[Group] # 1
  <2>1. k' = k /\ stage' = stage /\ Opening(Group)'
    BY <1>1, <1>5 DEF OpenEvent, TypeOK, Opening, Fresh, Idle, Unavailable, Group
  <2>2. TypeOK'
    BY <1>1, <1>5, <2>1 DEF OpenEvent, TypeOK
  <2>3. ProgressInv'
    BY <1>1, <1>3, <1>4, <2>1, KeptIsKept DEF ProgressInv, Group
  <2>. QED
    BY <1>1, <1>3, <1>4, <1>5, <2>1, <2>2, <2>3 DEF OpenEvent, PublishedInv, IInv
<1>6. CASE (OpenEvent /\ fds[Group] = 1) \/ OpenFails
  <2>1. Up("start")
    BY <1>6, Zenon DEF OpenEvent, OpenFails
  <2>2. PICK g \in Kinds : g = Group
    BY <1>1
  <2>3. Opened(g)'
    <3>1. CASE OpenEvent /\ fds[g] = 1
      <4>1. fds'[g] = 2 /\ leader'[g] /\ error'[g] = error[g] /\ ~error[g] /\ Idle(g)
        BY <1>1, <2>2, <3>1 DEF OpenEvent, TypeOK, Opening
      <4>2. started' = started /\ enabled' = enabled /\ covered' = covered /\ counts' = counts
        BY <3>1 DEF OpenEvent
      <4>. QED
        BY <4>1, <4>2 DEF Opened, Idle, Available
    <3>2. CASE OpenFails
      BY <1>1, <2>2, <3>2 DEF OpenFails, TypeOK, Opening, Opened, Fresh, Idle,
                      Unavailable, Available
    <3>. QED
      BY <1>6, <2>2, <3>1, <3>2
  <2>4. TypeOK'
    <3>1. k' \in DOMAIN Groups' /\ stage' \in {"open", "start"}
      BY <1>1, <1>4, <2>1 DEF Up
    <3>2. CASE OpenEvent /\ fds[Group] = 1
      BY <1>1, <3>1, <3>2 DEF OpenEvent, TypeOK
    <3>3. CASE OpenFails
      BY <1>1, <3>1, <3>3 DEF OpenFails, TypeOK
    <3>. QED
      BY <1>6, <3>2, <3>3
  <2>5. ASSUME NEW i \in DOMAIN Groups
        PROVE  /\ i < k => Opened(Groups[i])'
               /\ i = k => Opened(Groups[i])'
               /\ i > k => Fresh(Groups[i])'
    BY <1>1, <1>3, <1>4, <2>2, <2>3, KeptIsKept DEF ProgressInv, Group
  <2>6. ProgressInv'
    BY <1>1, <1>4, <2>1, <2>5 DEF ProgressInv, Up, Opening, Fresh
  <2>. QED
    BY <1>1, <1>3, <1>4, <1>6, <2>1, <2>4, <2>6
    DEF OpenEvent, OpenFails, PublishedInv, Up, IInv
<1>. QED
  BY <1>5, <1>6

\* start of a group: it counts, or it has left an error, and a probe of main,
\* which has no other group, gives up.
LEMMA StartStep ==
  ASSUME IInv, StartSkipped \/ Start \/ StartFails
  PROVE  IInv'
<1>1. /\ stage = "start" /\ k \in DOMAIN Groups /\ Group \in Kinds /\ Opened(Group)
      /\ Groups' = Groups /\ TypeOK /\ ProgressInv
  BY GroupsOfUser, SameGroups
  DEF StartSkipped, Start, StartFails, IInv, TypeOK, ProgressInv, Group
<1>2. TurnOnly
  BY <1>1 DEF StartSkipped, Start, StartFails, TurnOnly, Kept, TypeOK
<1>3. OthersInv' /\ \A i \in DOMAIN Groups : i # k => Kept(Groups[i])
  BY <1>2, OthersKept DEF StartSkipped, Start, StartFails
<1>4. /\ DOMAIN Groups = 1 .. Len(Groups) /\ Len(Groups) \in 1 .. 3
      /\ user \in ProbeUsers => Len(Groups) = 1
      /\ published' = {}
  BY GroupsOfUser
  DEF IInv, TypeOK, PublishedInv, KernelUsers, ProbeUsers, StartSkipped, Start, StartFails
<1>5. PICK g \in Kinds : g = Group
  BY <1>1
<1>6. StartTried(g)'
  <2>1. CASE StartSkipped
    BY <1>1, <1>5, <2>1 DEF StartSkipped, Opened, StartTried, Idle, Unavailable, Available
  <2>2. CASE Start
    BY <1>1, <1>5, <2>2 DEF Start, TypeOK, Opened, StartTried, Idle, Unavailable, Available
  <2>3. CASE StartFails
    BY <1>1, <1>5, <2>3 DEF StartFails, TypeOK, Opened, StartTried, Idle, Unavailable, Available
  <2>. QED
    BY <2>1, <2>2, <2>3
<1>7. \/ Up("run")
      \/ user \in ProbeUsers /\ LastOf("close") /\ error'[g]
  <2>1. CASE StartSkipped
    <3>1. error[g] /\ error' = error
      BY <1>1, <1>5, <2>1 DEF StartSkipped, Opened
    <3>. QED
      BY <2>1, <3>1, Zenon DEF StartSkipped
  <2>2. CASE Start
    BY <2>2, Zenon DEF Start
  <2>3. CASE StartFails
    <3>1. error'[g]
      BY <1>1, <1>5, <2>3 DEF StartFails, TypeOK
    <3>. QED
      BY <2>3, <3>1, Zenon DEF StartFails
  <2>. QED
    BY <2>1, <2>2, <2>3
<1>8. k' \in DOMAIN Groups' /\ stage' \in {"start", "run", "close"}
  BY <1>1, <1>4, <1>7 DEF Up, LastOf
<1>9. TypeOK'
  <2>1. CASE StartSkipped
    BY <1>1, <1>8, <2>1 DEF StartSkipped, TypeOK
  <2>2. CASE Start
    BY <1>1, <1>8, <2>2 DEF Start, TypeOK
  <2>3. CASE StartFails
    BY <1>1, <1>8, <2>3 DEF StartFails, TypeOK
  <2>. QED
    BY <2>1, <2>2, <2>3
<1>10. ASSUME NEW i \in DOMAIN Groups
       PROVE  (i <= k => StartTried(Groups[i])') /\ (i > k => Opened(Groups[i])')
  BY <1>1, <1>3, <1>4, <1>5, <1>6, KeptIsKept DEF ProgressInv, Group
<1>11. CASE Up("run")
  <2>1. ProgressInv'
    BY <1>1, <1>4, <1>10, <1>11 DEF ProgressInv, Up
  <2>2. stage' \in {"start", "run"}
    BY <1>1, <1>11 DEF Up
  <2>. QED
    BY <1>3, <1>4, <1>9, <2>1, <2>2 DEF PublishedInv, IInv
<1>12. CASE user \in ProbeUsers /\ LastOf("close") /\ error'[g]
  <2>1. k = 1 /\ DOMAIN Groups = {1} /\ g = Groups[1] /\ k' = 1 /\ stage' = "close"
    BY <1>1, <1>4, <1>5, <1>12 DEF LastOf, Group
  <2>2. Read(g)'
    BY <1>6, <1>12 DEF StartTried, Read
  <2>3. ProgressInv'
    BY <1>1, <2>1, <2>2 DEF ProgressInv
  <2>4. OwnFigures' = {}
    BY <1>12, OwnFiguresAre, SameGroups DEF IInv, TypeOK, StartSkipped, Start, StartFails
  <2>. QED
    BY <1>3, <1>4, <1>9, <2>3, <2>4 DEF PublishedInv, IInv
<1>. QED
  BY <1>7, <1>11, <1>12

\* The measured function runs: what is counting counts all of it.
LEMMA RunStep ==
  ASSUME IInv, Run
  PROVE  IInv'
<1>1. /\ stage = "run" /\ Groups' = Groups /\ TypeOK /\ published' = {}
      /\ \A i \in DOMAIN Groups : StartTried(Groups[i])
  BY SameGroups DEF Run, IInv, TypeOK, ProgressInv, PublishedInv
<1>2. /\ DOMAIN Groups = 1 .. Len(Groups) /\ Len(Groups) \in 1 .. 3
      /\ \A i \in DOMAIN Groups : Groups[i] \in Kinds
  BY GroupsOfUser DEF IInv, TypeOK
<1>3. k' = Len(Groups) /\ stage' = "stop"
  BY DEF Run, LastOf
<1>4. TypeOK'
  BY <1>1, <1>2, <1>3 DEF Run, TypeOK
<1>5. ASSUME NEW i \in DOMAIN Groups
      PROVE  Ran(Groups[i])'
  <2>1. PICK g \in Kinds : g = Groups[i]
    BY <1>2
  <2>2. StartTried(g) /\ covered'[g] = enabled[g]
    BY <1>1, <2>1 DEF Run
  <2>3. Ran(g)'
    BY <2>2 DEF Run, StartTried, Ran, Available
  <2>. QED
    BY <1>1, <2>1, <2>3
<1>6. ProgressInv'
  BY <1>1, <1>2, <1>3, <1>5 DEF ProgressInv
<1>7. ASSUME NEW g \in Kinds, \A i \in DOMAIN Groups : Groups[i] # g
      PROVE  Fresh(g)'
  BY <1>7 DEF Run, IInv, OthersInv, Fresh, Idle, Unavailable
<1>8. OthersInv'
  BY <1>1, <1>7 DEF OthersInv
<1>. QED
  BY <1>1, <1>3, <1>4, <1>6, <1>8 DEF IInv, PublishedInv

\* stop of a group: its counts have been read, or it has left an error.
LEMMA StopStep ==
  ASSUME IInv, StopSkipped \/ Stop \/ StopFails
  PROVE  IInv'
<1>1. /\ stage = "stop" /\ k \in DOMAIN Groups /\ Group \in Kinds /\ Ran(Group)
      /\ Groups' = Groups /\ TypeOK /\ ProgressInv /\ published' = {}
  BY GroupsOfUser, SameGroups
  DEF StopSkipped, Stop, StopFails, IInv, TypeOK, ProgressInv, PublishedInv, Group
<1>2. TurnOnly
  <2>1. CASE StopSkipped
    BY <2>1 DEF StopSkipped, TurnOnly, Kept
  <2>2. CASE Stop
    BY <1>1, <2>2 DEF Stop, TurnOnly, Kept, TypeOK
  <2>3. CASE StopFails
    BY <1>1, <2>3 DEF StopFails, TurnOnly, Kept, TypeOK
  <2>. QED
    BY <2>1, <2>2, <2>3
<1>3. OthersInv' /\ \A i \in DOMAIN Groups : i # k => Kept(Groups[i])
  BY <1>2, OthersKept DEF StopSkipped, Stop, StopFails
<1>4. DOMAIN Groups = 1 .. Len(Groups) /\ Len(Groups) \in 1 .. 3
  BY GroupsOfUser DEF IInv, TypeOK
<1>5. PICK g \in Kinds : g = Group
  BY <1>1
<1>6. Read(g)'
  <2>1. CASE StopSkipped
    BY <1>1, <1>5, <2>1 DEF StopSkipped, Ran, Read
  <2>2. CASE Stop
    BY <1>1, <1>5, <2>2 DEF Stop, TypeOK, Ran, Read
  <2>3. CASE StopFails
    BY <1>1, <1>5, <2>3 DEF StopFails, TypeOK, Ran, Read
  <2>. QED
    BY <2>1, <2>2, <2>3
<1>7. Down("report")
  BY DEF StopSkipped, Stop, StopFails
<1>8. TypeOK'
  <2>1. k' \in DOMAIN Groups' /\ stage' \in {"stop", "report"}
    BY <1>1, <1>4, <1>7 DEF Down
  <2>2. CASE StopSkipped
    BY <1>1, <2>1, <2>2 DEF StopSkipped, TypeOK
  <2>3. CASE Stop
    BY <1>1, <2>1, <2>3 DEF Stop, TypeOK
  <2>4. CASE StopFails
    BY <1>1, <2>1, <2>4 DEF StopFails, TypeOK
  <2>. QED
    BY <2>2, <2>3, <2>4
<1>9. ASSUME NEW i \in DOMAIN Groups
      PROVE  (i >= k => Read(Groups[i])') /\ (i < k => Ran(Groups[i])')
  BY <1>1, <1>3, <1>4, <1>5, <1>6, KeptIsKept DEF ProgressInv, Group
<1>10. ProgressInv'
  BY <1>1, <1>4, <1>7, <1>9 DEF ProgressInv, Down
<1>11. stage' \in {"stop", "report"}
  BY <1>1, <1>7 DEF Down
<1>. QED
  BY <1>1, <1>3, <1>8, <1>10, <1>11 DEF IInv, PublishedInv

\* What a user publishes stands on a group of its own that has been read.
LEMMA FiguresAreCounted ==
  ASSUME TypeOK, NEW zero \in SUBSET Kinds, NEW g \in Figures(Merged(zero))
  PROVE  g \in Kinds /\ counts[g] /\ \E i \in DOMAIN Groups : Groups[i] = g
<1>1. CASE user \in KernelUsers
  <2>1. /\ DOMAIN Groups = 1 .. 3
        /\ Groups[1] = "core" /\ Groups[2] = "branch" /\ Groups[3] = "cache"
    BY <1>1 DEF Groups, KernelUsers
  <2>2. g \in {"core", "branch", "cache"} /\ counts[g]
    BY <1>1, <2>1 DEF Figures, Merged, KernelUsers
  <2>. QED
    BY <2>1, <2>2 DEF Kinds
<1>2. CASE user = "compute-scaling"
  <2>1. DOMAIN Groups = 1 .. 1 /\ Groups[1] = "core"
    BY <1>2 DEF Groups, KernelUsers
  <2>2. g = "core" /\ counts[g]
    BY <1>2, <2>1 DEF Figures, Merged
  <2>. QED
    BY <2>1, <2>2 DEF Kinds
<1>3. user \in KernelUsers \cup {"compute-scaling"}
  BY UsersAssumption DEF TypeOK, Figures, AllUsers, ProbeUsers, KernelUsers
<1>. QED
  BY <1>1, <1>2, <1>3

\* What a user has counted of a group of its own it publishes, unless the divisor
\* is zero.
LEMMA CountedIsFigure ==
  ASSUME NEW zero \in SUBSET Kinds, user \in Users, NEW g \in OwnFigures, counts[g]
  PROVE  g \in zero \cup Figures(Merged(zero))
<1>1. CASE user \in KernelUsers
  <2>1. Groups[1] = "core"
    BY <1>1 DEF Groups, KernelUsers
  <2>2. user \in {"pipeline", "instruction-fetch", "branch-structures"}
    BY <1>1 DEF OwnFigures, KernelUsers
  <2>. QED
    BY <2>1, <2>2 DEF OwnFigures, Figures, Merged
<1>2. CASE user = "compute-scaling"
  BY <1>2 DEF OwnFigures, Figures, Merged, Groups, KernelUsers
<1>3. user \notin ProbeUsers
  BY OwnFiguresAre
<1>. QED
  BY <1>1, <1>2, <1>3, UsersAssumption DEF AllUsers

LEMMA ReportStep ==
  ASSUME IInv, ReportCounts
  PROVE  IInv'
<1>1. /\ stage = "report" /\ Groups' = Groups /\ TypeOK /\ ProgressInv
      /\ k' = Len(Groups) /\ stage' = "close"
  BY SameGroups DEF ReportCounts, LastOf, IInv
<1>2. DOMAIN Groups = 1 .. Len(Groups) /\ Len(Groups) \in 1 .. 3
  BY GroupsOfUser DEF IInv, TypeOK
<1>3. PICK zero \in SUBSET Kinds : perf' = Merged(zero) /\ published' = Figures(Merged(zero))
  BY DEF ReportCounts
<1>4. published' \subseteq Kinds /\ PublishedInv'
  <2>1. \A g \in published' : g \in Kinds /\ counts[g] /\ \E i \in DOMAIN Groups : Groups[i] = g
    BY <1>1, <1>3, FiguresAreCounted
  <2>2. \A g \in OwnFigures : counts[g] => g \in perf'.zero \cup published'
    BY <1>1, <1>3, CountedIsFigure DEF TypeOK, Merged
  <2>3. OwnFigures' = OwnFigures /\ counts' = counts
    BY SameGroups DEF ReportCounts
  <2>. QED
    BY <1>1, <2>1, <2>2, <2>3 DEF PublishedInv
<1>5. TypeOK'
  BY <1>1, <1>2, <1>4 DEF ReportCounts, TypeOK
<1>6. \A g \in Kinds : Kept(g)
  BY DEF ReportCounts, Kept
<1>7. ProgressInv'
  BY <1>1, <1>2 DEF ReportCounts, ProgressInv, Read
<1>8. OthersInv'
  BY <1>1, <1>6, KeptIsKept DEF IInv, OthersInv
<1>. QED
  BY <1>4, <1>5, <1>7, <1>8 DEF IInv

LEMMA CloseStep ==
  ASSUME IInv, Close
  PROVE  IInv'
<1>1. /\ stage = "close" /\ k \in DOMAIN Groups /\ Group \in Kinds
      /\ Groups' = Groups /\ TypeOK /\ ProgressInv /\ PublishedInv
  BY GroupsOfUser, SameGroups DEF Close, IInv, TypeOK, Group
<1>2. TurnOnly
  BY <1>1 DEF Close, TurnOnly, Kept, TypeOK
<1>3. OthersInv' /\ \A i \in DOMAIN Groups : i # k => Kept(Groups[i])
  BY <1>2, OthersKept DEF Close
<1>4. /\ DOMAIN Groups = 1 .. Len(Groups) /\ Len(Groups) \in 1 .. 3
      /\ \A i \in DOMAIN Groups : Groups[i] \in Kinds
  BY GroupsOfUser DEF IInv, TypeOK
<1>5. Down("done")
  BY DEF Close
<1>6. TypeOK'
  <2>1. k' \in DOMAIN Groups' /\ stage' \in {"close", "done"}
    BY <1>1, <1>4, <1>5 DEF Down
  <2>. QED
    BY <1>1, <2>1 DEF Close, TypeOK
<1>7. \A g \in Kinds : g = Group => Released(g)'
  BY <1>1 DEF Close, TypeOK, Released
<1>8. ASSUME NEW i \in DOMAIN Groups
      PROVE  Read(Groups[i])' /\ (i >= k => Released(Groups[i])')
  <2>1. Read(Groups[i])'
    BY <1>1 DEF Close, ProgressInv, Read
  <2>2. i >= k => Released(Groups[i])'
    BY <1>1, <1>3, <1>4, <1>7, KeptIsKept DEF ProgressInv, Group
  <2>. QED
    BY <2>1, <2>2
<1>9. ProgressInv'
  BY <1>1, <1>4, <1>5, <1>8 DEF ProgressInv, Down
<1>10. PublishedInv'
  BY <1>1, <1>5, SameGroups DEF Close, PublishedInv, Down
<1>. QED
  BY <1>3, <1>6, <1>9, <1>10 DEF IInv

LEMMA NextIInv == IInv /\ [Next]_vars => IInv'
<1>. SUFFICES ASSUME IInv, [Next]_vars PROVE IInv'
  OBVIOUS
<1>1. CASE UNCHANGED vars
  <2>1. Groups' = Groups /\ \A g \in Kinds : Kept(g)
    BY <1>1, SameGroups DEF vars, Kept
  <2>2. TypeOK'
    BY <1>1, <2>1 DEF vars, IInv, TypeOK
  <2>3. \A i \in DOMAIN Groups : Kept(Groups[i])
    BY <2>1, GroupsOfUser DEF IInv, TypeOK
  <2>4. ProgressInv'
    BY <1>1, <2>1, <2>3, KeptIsKept DEF vars, IInv, ProgressInv
  <2>5. OthersInv'
    BY <2>1, KeptIsKept DEF IInv, OthersInv
  <2>6. PublishedInv'
    BY <1>1, <2>1, SameGroups DEF vars, IInv, PublishedInv
  <2>. QED
    BY <2>2, <2>4, <2>5, <2>6 DEF IInv
<1>2. CASE Finished
  BY <1>1, <1>2 DEF Finished
<1>. QED
  BY <1>1, <1>2, OpenStep, StartStep, RunStep, StopStep, ReportStep, CloseStep DEF Next

--------------------------------------------------------------------------------
\* The inductive invariant holds for every user of the counters, whichever
\* system calls fail.
THEOREM IInvHolds == Spec => []IInv
BY InitIInv, NextIInv, PTL DEF Spec

\* The variables keep their types, whichever calls fail.
THEOREM TypeCorrect == Spec => []TypeOK
BY IInvHolds, PTL DEF IInv

\* For every user and every combination of failing calls, the destructors leave
\* no descriptor of a PerfGroup open and no group counting.
THEOREM NothingLeaks == Spec => []NoDescriptorLeak
<1>1. IInv => NoDescriptorLeak
  BY DEF IInv, ProgressInv, OthersInv, Fresh, Unavailable, Idle, Released, NoDescriptorLeak
<1>. QED
  BY <1>1, IInvHolds, PTL

\* What record_kernel and its like report comes from groups that counted the
\* whole kernel and in which no call failed.
THEOREM FiguresAreWhole == Spec => []FiguresCoverKernel
<1>1. IInv => FiguresCoverKernel
  <2>. SUFFICES ASSUME IInv, NEW g \in published
       PROVE  covered[g] /\ counts[g] /\ ~error[g]
    BY DEF FiguresCoverKernel
  <2>1. PICK i \in DOMAIN Groups : Groups[i] = g /\ counts[g]
    BY DEF IInv, PublishedInv
  <2>2. stage \in {"close", "done"}
    BY DEF IInv, TypeOK, PublishedInv
  <2>. QED
    BY <2>1, <2>2 DEF IInv, ProgressInv, Read
<1>. QED
  BY <1>1, IInvHolds, PTL

\* Whatever calls fail for the other groups, a figure that a probe makes of one
\* group is missing only after a failure of that group or where its divisor
\* counted nothing.
THEOREM FailuresStayInTheirGroup == Spec => []OwnFiguresSurvive
<1>1. IInv => OwnFiguresSurvive
  <2>. SUFFICES ASSUME IInv, stage \in {"close", "done"}, NEW g \in OwnFigures
       PROVE  error[g] \/ g \in perf.zero \/ g \in published
    BY DEF OwnFiguresSurvive
  <2>1. PICK i \in DOMAIN Groups : Groups[i] = g
    BY OwnFiguresAre DEF IInv, TypeOK
  <2>2. Read(g)
    BY <2>1 DEF IInv, ProgressInv
  <2>. QED
    BY <2>2 DEF IInv, PublishedInv, Read
<1>. QED
  BY <1>1, IInvHolds, PTL

--------------------------------------------------------------------------------
(* DramSummary *)

LEMMA LimitsAre ==
  \A a, b \in Nat : /\ Larger(a, b) \in Nat /\ Larger(a, b) >= a /\ Larger(a, b) >= b
                    /\ Larger(a, b) \in {a, b}
                    /\ Smaller(a, b) \in Nat /\ Smaller(a, b) <= a /\ Smaller(a, b) <= b
  BY DEF Larger, Smaller

\* What a run of the probe is given.
GivenInv ==
  /\ suite \in {"stream", "numa"} /\ explicit \in BOOLEAN /\ request \in Nat
  /\ layout \in Layouts /\ available \in Nat /\ multiple \in Nat /\ told \in BOOLEAN

LEMMA CachesAre ==
  ASSUME GivenInv
  PROVE  /\ Aggregate \in Nat /\ (Aggregate = 0 \/ Aggregate >= layout.all)
         /\ \A n \in Nodes :
              NodeLlc(n) \in Nat /\ (NodeLlc(n) = 0 \/ NodeLlc(n) >= layout.reach[n])
  BY SysfsAssumption DEF GivenInv, Aggregate, NodeLlc

\* The array is no larger than its share of what is free, unless it is as small
\* as can be.
LEMMA ArrayFits ==
  ASSUME GivenInv
  PROVE  /\ ArrayBytes \in Nat /\ ArrayBytes >= 1
         /\ available > 0 /\ ArrayBytes > 1 => Share * ArrayBytes <= available
<1>1. SizingCache \in Nat
  <2>1. NodeLlc(0) \in Nat /\ NodeLlc(1) \in Nat /\ Aggregate \in Nat
    BY CachesAre DEF Nodes
  <2>. QED
    BY <2>1, LimitsAre DEF SizingCache, LargestNode
<1>2. Desired \in Nat
  <2>1. 4 * SizingCache \in Nat /\ request \in Nat /\ BaseBytes \in Nat
    BY <1>1, SizingAssumption DEF GivenInv
  <2>. QED
    BY <2>1, LimitsAre DEF Desired, GivenInv
<1>3. Safe \in Nat /\ Cap \in Nat /\ Share \in {3, 6}
        /\ (available > 0 => Share * Safe <= available)
  BY SizingAssumption DEF Safe, Share, GivenInv
<1>. DEFINE top == IF explicit THEN Safe ELSE Smaller(Cap, Safe)
<1>4. top \in Nat /\ top <= Safe
  BY <1>3, LimitsAre
<1>. HIDE DEF top
<1>5. Smaller(Desired, top) \in Nat /\ Smaller(Desired, top) <= Safe
  BY <1>2, <1>3, <1>4, LimitsAre
<1>6. ArrayBytes = Larger(1, Smaller(Desired, top))
  BY DEF ArrayBytes, Floor, top
<1>7. ArrayBytes \in Nat /\ ArrayBytes >= 1 /\ (ArrayBytes > 1 => ArrayBytes <= Safe)
  <2>1. ASSUME NEW small \in Nat, small <= Safe
        PROVE  /\ Larger(1, small) \in Nat /\ Larger(1, small) >= 1
               /\ Larger(1, small) > 1 => Larger(1, small) <= Safe
    BY <1>3, <2>1 DEF Larger
  <2>. DEFINE least == Smaller(Desired, top)
  <2>2. least \in Nat /\ least <= Safe /\ ArrayBytes = Larger(1, least)
    BY <1>5, <1>6
  <2>. HIDE DEF least
  <2>. QED
    BY <2>1, <2>2
<1>8. available \in Nat
  BY DEF GivenInv
<1>. QED
  BY <1>3, <1>7, <1>8

\* What a point says of the caches of the CPUs that have measured it.
PointOK(p) ==
  /\ p.op \in {"read", "write", "copy", "triad"}
  /\ p.threads \in (IF suite = "stream" THEN {1, 2} ELSE Nodes)
  /\ p.cache = (IF suite = "stream" THEN Aggregate ELSE NodeLlc(p.threads))
  /\ p.workingSet \in Nat
  /\ p.exceeds => p.cache > 0 /\ p.workingSet >= multiple * p.cache
  /\ suite = "numa" => p.local \in BOOLEAN /\ p.op = "read"

SummaryInv ==
  /\ GivenInv
  /\ phase \in {"size", "measure", "infer", "done"}
  /\ phase = "size" => points = {} /\ bytes = 0
  /\ phase # "size" => bytes = ArrayBytes
  /\ \A p \in points : PointOK(p)
  /\ phase # "done" => summary = <<>>
  /\ phase = "done" => /\ summary = IF suite = "stream" THEN StreamFigures ELSE NumaFigures
                       /\ Validation \subseteq warnings

LEMMA SummaryInitInv == SummaryInit => SummaryInv
  BY SizingAssumption DEF SummaryInit, SummaryInv, GivenInv

\* As long as the machine stays what it is, so do the sizes computed from it.
LEMMA MachineStays ==
  ASSUME UNCHANGED machine
  PROVE  /\ GivenInv' <=> GivenInv
         /\ ArrayBytes' = ArrayBytes
         /\ \A p : PointOK(p)' <=> PointOK(p)
<1>1. UNCHANGED <<suite, explicit, request, layout, available, multiple, told, bound, limit>>
  BY DEF machine
<1>2. Aggregate' = Aggregate /\ \A n : NodeLlc(n)' = NodeLlc(n)
  BY <1>1 DEF Aggregate, NodeLlc
<1>3. SizingCache' = SizingCache
  BY <1>1, <1>2 DEF SizingCache, LargestNode
<1>4. Desired' = Desired /\ Safe' = Safe
  BY <1>1, <1>3 DEF Desired, Safe, Share
<1>5. ArrayBytes' = ArrayBytes
  BY <1>1, <1>4 DEF ArrayBytes
<1>. QED
  BY <1>1, <1>2, <1>5 DEF GivenInv, PointOK

\* A step of the probe, of the inference, or none, keeps the invariant.
LEMMA SummaryStep == SummaryInv /\ [SummaryNext]_summaryVars => SummaryInv'
<1>. SUFFICES ASSUME SummaryInv, [SummaryNext]_summaryVars PROVE SummaryInv'
  OBVIOUS
<1>1. UNCHANGED machine
  BY DEF SummaryNext, SizeArray, MeasureStream, MeasureNuma, ProbeEnds, Infer, Done, summaryVars
<1>2. GivenInv /\ GivenInv' /\ ArrayBytes' = ArrayBytes /\ \A p : PointOK(p)' <=> PointOK(p)
  BY <1>1, MachineStays DEF SummaryInv
<1>3. suite' = suite
  BY <1>1 DEF machine
<1>4. ASSUME \E p : points' = points \cup {p} /\ PointOK(p),
             phase = "measure", UNCHANGED <<phase, bytes, warnings, summary>>
      PROVE  SummaryInv'
  BY <1>2, <1>4 DEF SummaryInv
<1>5. CASE SizeArray
  BY <1>2, <1>5 DEF SizeArray, SummaryInv
<1>6. ASSUME NEW op \in Operations, NEW threads \in {1, 2}, MeasureStream(op, threads)
      PROVE  SummaryInv'
  <2>1. PICK rate \in Rates : points' = points \cup
          {[op |-> op, threads |-> threads, local |-> TRUE,
            workingSet |-> bytes * Arrays(op), cache |-> Aggregate,
            exceeds |-> ExceedsLlc(bytes * Arrays(op), Aggregate),
            confidence |-> IF ExceedsLlc(bytes * Arrays(op), Aggregate) THEN "high" ELSE "low",
            rate |-> rate]}
    BY <1>6 DEF MeasureStream
  <2>2. op \in {"read", "write", "copy", "triad"} /\ suite = "stream" /\ phase = "measure"
    BY <1>6, SizingAssumption DEF MeasureStream
  <2>3. bytes \in Nat /\ Arrays(op) \in 1 .. 3
    BY <1>2, <2>2, ArrayFits DEF SummaryInv, Arrays
  <2>4. bytes * Arrays(op) \in Nat
    BY <2>3
  <2>. QED
    <3>. DEFINE workingSet == bytes * Arrays(op)
                point == [op |-> op, threads |-> threads, local |-> TRUE,
                          workingSet |-> workingSet, cache |-> Aggregate,
                          exceeds |-> ExceedsLlc(workingSet, Aggregate),
                          confidence |-> IF ExceedsLlc(workingSet, Aggregate) THEN "high" ELSE "low",
                          rate |-> rate]
    <3>1. workingSet \in Nat /\ points' = points \cup {point}
      BY <2>1, <2>4
    <3>. HIDE DEF workingSet
    <3>2. PointOK(point)
      BY <2>2, <3>1 DEF PointOK, ExceedsLlc
    <3>. QED
      BY <1>4, <1>6, <2>2, <3>1, <3>2 DEF MeasureStream
<1>7. ASSUME NEW reader \in Nodes, MeasureNuma(reader) PROVE SummaryInv'
  <2>1. PICK rate \in Rates : points' = points \cup
          {[op |-> "read", threads |-> reader, local |-> reader = 0,
            workingSet |-> bytes, cache |-> NodeLlc(reader),
            exceeds |-> ExceedsLlc(bytes, NodeLlc(reader)),
            confidence |-> IF ~ExceedsLlc(bytes, NodeLlc(reader)) THEN "low"
                           ELSE IF bound THEN "high" ELSE "medium",
            rate |-> rate]}
    BY <1>7 DEF MeasureNuma
  <2>2. suite = "numa" /\ phase = "measure" /\ bytes \in Nat
    BY <1>2, <1>7, ArrayFits DEF MeasureNuma, SummaryInv
  <2>. QED
    <3>. DEFINE point == [op |-> "read", threads |-> reader, local |-> reader = 0,
                          workingSet |-> bytes, cache |-> NodeLlc(reader),
                          exceeds |-> ExceedsLlc(bytes, NodeLlc(reader)),
                          confidence |-> IF ~ExceedsLlc(bytes, NodeLlc(reader)) THEN "low"
                                         ELSE IF bound THEN "high" ELSE "medium",
                          rate |-> rate]
    <3>1. PointOK(point)
      BY <2>2 DEF PointOK, ExceedsLlc
    <3>. QED
      BY <1>4, <1>7, <2>1, <2>2, <3>1 DEF MeasureNuma
<1>8. CASE ProbeEnds
  BY <1>2, <1>8 DEF ProbeEnds, SummaryInv
<1>9. ASSUME UNCHANGED machine, UNCHANGED points
      PROVE  /\ StreamFigures' = StreamFigures /\ NumaFigures' = NumaFigures
             /\ Validation' = Validation
  BY <1>9 DEF StreamFigures, NumaFigures, Validation, machine, ReadPoints, NumaBandwidth,
     AboveLimit, Unverified, Rejected, Of, Above, Qualified, Best, OneCore
<1>10. CASE Infer
  <2>1. UNCHANGED points /\ phase = "infer" /\ phase' = "done"
    BY <1>10 DEF Infer
  <2>2. /\ summary' = IF suite' = "stream" THEN StreamFigures' ELSE NumaFigures'
        /\ Validation' \subseteq warnings'
    BY <1>1, <1>3, <1>9, <1>10, <2>1 DEF Infer
  <2>. QED
    BY <1>2, <1>10, <2>1, <2>2 DEF Infer, SummaryInv
<1>11. CASE UNCHANGED summaryVars
  <2>1. UNCHANGED <<phase, bytes, points, warnings, summary>>
    BY <1>11 DEF summaryVars
  <2>. QED
    BY <1>1, <1>2, <1>3, <1>9, <2>1 DEF SummaryInv
<1>. QED
  BY <1>5, <1>6, <1>7, <1>8, <1>10, <1>11 DEF SummaryNext, Done

\* Of what a bandwidth probe measures and the runner makes of it, the sizes, the
\* points and the figures are always what the machine and the points say.
THEOREM SummaryInvariant == SummarySpec => []SummaryInv
<1>. QED
  BY SummaryInitInv, SummaryStep, PTL DEF SummarySpec

\* Every figure is made of points that the check of the labels lets through.
LEMMA FiguresAreQualified ==
  ASSUME SummaryInv
  PROVE  SummaryFigures \subseteq Qualified(points)
<1>1. \A items : Best(items) \subseteq items /\ OneCore(items) \subseteq items
  BY DEF Best, OneCore
<1>2. \A op : Of(op) \subseteq points
  BY DEF Of
<1>3. \A s, t : s \subseteq t => Qualified(s) \subseteq Qualified(t)
  BY DEF Qualified
<1>4. ReadPoints \subseteq Qualified(points) /\ \A op : Qualified(Of(op)) \subseteq Qualified(points)
  BY <1>2, <1>3 DEF ReadPoints
<1>5. \A f \in DOMAIN StreamFigures : StreamFigures[f] \subseteq Qualified(points)
  BY <1>1, <1>4 DEF StreamFigures
<1>6. \A f \in DOMAIN NumaFigures : NumaFigures[f] \subseteq Qualified(points)
  BY DEF NumaFigures, NumaBandwidth
<1>7. CASE phase = "done"
  BY <1>5, <1>6, <1>7 DEF SummaryInv, SummaryFigures
<1>8. CASE phase # "done"
  BY <1>8 DEF SummaryInv, SummaryFigures
<1>. QED
  BY <1>7, <1>8

\* On every machine of two nodes whose sysfs tells no less of its caches than
\* there is, no figure comes from a working set below four times those caches,
\* where the points bear their sizes or the binary's own label means four.
THEOREM FiguresAreOfMemory == SummarySpec => []SummaryIsBeyondCaches
<1>1. SummaryInv => SummaryIsBeyondCaches
  <2>. SUFFICES ASSUME SummaryInv, told \/ multiple >= 4, NEW p \in SummaryFigures
       PROVE  p.workingSet >= 4 * (IF suite = "stream" THEN layout.all ELSE layout.reach[p.threads])
    BY DEF SummaryIsBeyondCaches
  <2>1. p \in points /\ p.exceeds /\ (told => p.workingSet >= 4 * p.cache)
    BY FiguresAreQualified DEF Qualified
  <2>2. PointOK(p) /\ GivenInv
    BY <2>1 DEF SummaryInv
  <2>3. p.cache > 0 /\ p.workingSet \in Nat /\ p.workingSet >= multiple * p.cache
    BY <2>1, <2>2 DEF PointOK
  <2>4. p.cache \in Nat
    BY <2>2, CachesAre DEF PointOK
  <2>5. p.workingSet >= 4 * p.cache
    <3>1. CASE told
      BY <2>1, <3>1
    <3>2. CASE ~told
      <4>1. ASSUME NEW c \in Nat, NEW m \in Nat, m >= 4 PROVE m * c >= 4 * c
        <5>1. m = 4 + (m - 4) /\ m - 4 \in Nat
          BY <4>1
        <5>2. (m - 4) * c >= 0
          BY <5>1
        <5>. QED
          BY <5>1, <5>2
      <4>2. multiple \in Nat /\ multiple >= 4
        BY <2>2, <3>2 DEF GivenInv
      <4>. QED
        BY <2>3, <2>4, <4>1, <4>2
    <3>. QED
      BY <3>1, <3>2
  <2>6. CASE suite = "stream"
    <3>1. p.cache = Aggregate /\ Aggregate \in Nat /\ Aggregate >= layout.all /\ layout.all \in Nat
      BY <2>2, <2>3, <2>6, CachesAre, SizingAssumption DEF PointOK, GivenInv
    <3>. QED
      BY <2>5, <2>3, <2>6, <3>1
  <2>7. CASE suite # "stream"
    <3>1. p.threads \in Nodes /\ p.cache = NodeLlc(p.threads)
      BY <2>2, <2>7 DEF PointOK
    <3>2. p.cache \in Nat /\ p.cache >= layout.reach[p.threads]
      BY <2>2, <2>3, <3>1, CachesAre
    <3>3. layout.reach[p.threads] \in Nat
      BY <2>2, <3>1, SizingAssumption DEF GivenInv, Nodes
    <3>. QED
      BY <2>5, <2>3, <2>7, <3>2, <3>3
  <2>. QED
    BY <2>6, <2>7
<1>. QED
  BY <1>1, SummaryInvariant, PTL

\* Whatever is free, whatever was asked for and whatever kernel runs, the arrays
\* that run_stream maps leave the memory that LeavesMemoryFree says.
THEOREM MemoryStaysFree == SummarySpec => []LeavesMemoryFree
<1>1. SummaryInv => LeavesMemoryFree
  <2>. SUFFICES ASSUME SummaryInv, available > 0
       PROVE  IF suite = "stream"
              THEN \A p \in points : bytes > 2 * p.threads => 2 * Mapped(p.op, p.threads) <= available
              ELSE bytes > Floor => 3 * bytes <= available
    BY DEF LeavesMemoryFree
  <2>1. GivenInv /\ available \in Nat
    BY DEF SummaryInv, GivenInv
  <2>2. CASE phase = "size"
    BY <2>2 DEF SummaryInv, Floor
  <2>3. CASE phase # "size"
    <3>1. bytes \in Nat /\ bytes >= 1 /\ (bytes > 1 => Share * bytes <= available)
      BY <2>1, <2>3, ArrayFits DEF SummaryInv
    <3>2. CASE suite = "stream"
      <4>. SUFFICES ASSUME NEW p \in points, bytes > 2 * p.threads
           PROVE  2 * Mapped(p.op, p.threads) <= available
        BY <3>2
      <4>1. p.threads \in {1, 2} /\ p.op \in {"read", "write", "copy", "triad"}
        BY <3>2 DEF SummaryInv, PointOK
      <4>2. Larger(2 * p.threads, bytes) = bytes /\ bytes > 1
        BY <3>1, <4>1 DEF Larger
      <4>3. Arrays(p.op) \in 1 .. 3
        BY <4>1 DEF Arrays
      <4>4. 6 * bytes <= available
        BY <3>1, <3>2, <4>2 DEF Share
      <4>5. Mapped(p.op, p.threads) = Arrays(p.op) * bytes
        BY <4>2 DEF Mapped
      <4>6. Arrays(p.op) * bytes <= 3 * bytes /\ Arrays(p.op) * bytes \in Nat
        <5>1. Arrays(p.op) = 1 \/ Arrays(p.op) = 2 \/ Arrays(p.op) = 3
          BY <4>3
        <5>. QED
          BY <5>1, <3>1
      <4>. QED
        BY <2>1, <3>1, <4>4, <4>5, <4>6
    <3>3. CASE suite # "stream"
      BY <3>1, <3>3 DEF Floor, Share
    <3>. QED
      BY <3>2, <3>3
  <2>. QED
    BY <2>2, <2>3
<1>. QED
  BY <1>1, SummaryInvariant, PTL

\* No read point is left out of the figures it belongs to in silence.
THEOREM ExclusionsAreTold == SummarySpec => []ExclusionIsSaid
<1>1. SummaryInv => ExclusionIsSaid
  <2>. SUFFICES ASSUME SummaryInv, phase = "done", NEW p \in Of("read"),
                       p \notin (IF suite = "stream" THEN ReadPoints ELSE SummaryFigures)
       PROVE  warnings \cap {"above-limit", "points-unverified", "numa-rejected"} # {}
    BY DEF ExclusionIsSaid
  <2>1. Validation \subseteq warnings /\ p \in points
    BY DEF SummaryInv, Of
  <2>2. CASE suite = "stream"
    <3>1. p \in Unverified \/ (p \in AboveLimit /\ limit > 0)
      BY <2>2 DEF ReadPoints, Unverified, AboveLimit, Above, Qualified
    <3>. QED
      BY <2>1, <2>2, <3>1 DEF Validation
  <2>3. CASE suite # "stream"
    <3>1. p.local \in BOOLEAN /\ summary = NumaFigures
      BY <2>1, <2>3 DEF SummaryInv, GivenInv, PointOK
    <3>2. NumaBandwidth \subseteq SummaryFigures
      <4>1. ASSUME NEW q \in NumaBandwidth
            PROVE  q \in NumaFigures.local_payload \/ q \in NumaFigures.interconnect_payload
        BY DEF NumaFigures
      <4>. QED
        BY <3>1, <4>1 DEF SummaryFigures, NumaFigures
    <3>3. p \in Rejected
      BY <2>1, <2>3, <3>2 DEF Rejected
    <3>. QED
      BY <2>1, <2>3, <3>3 DEF Validation
  <2>. QED
    BY <2>2, <2>3
<1>. QED
  BY <1>1, SummaryInvariant, PTL

--------------------------------------------------------------------------------
(* CurveKnees *)

\* What has been read is what the detectors make of the curve.
CurveInv ==
  /\ curve \in Seq(Nat)
  /\ whole => found = Detect(curve)

\* At every moment of a measurement the curve consists of sizes, and what is
\* found is what the detectors make of it.
THEOREM CurveInvariant == CurveSpec => []CurveInv
<1>1. CurveInit => CurveInv
  BY DEF CurveInit, CurveInv
<1>2. CurveInv /\ [CurveNext]_curveVars => CurveInv'
  <2>. SUFFICES ASSUME CurveInv, [CurveNext]_curveVars PROVE CurveInv'
    OBVIOUS
  <2>1. ASSUME NEW v \in Values, AddPoint(v) PROVE CurveInv'
    <3>1. v \in Nat
      BY CurveAssumption
    <3>. QED
      BY <2>1, <3>1 DEF AddPoint, CurveInv
  <2>2. CASE ReadCurve
    BY <2>2 DEF ReadCurve, CurveInv
  <2>3. CASE UNCHANGED curveVars
    BY <2>3 DEF curveVars, CurveInv
  <2>. QED
    BY <2>1, <2>2, <2>3 DEF CurveNext, CurveRead
<1>. QED
  BY <1>1, <1>2, PTL DEF CurveSpec

\* The first of a set of places is any place of it that none precedes.
LEMMA FirstIs ==
  ASSUME NEW S \in SUBSET Nat, NEW x \in S, \A y \in S : x <= y
  PROVE  FirstOf(S) = x
<1>1. Lowest(S) \in S /\ \A y \in S : Lowest(S) <= y
  BY DEF Lowest
<1>2. Lowest(S) <= x /\ x <= Lowest(S) /\ Lowest(S) \in Nat /\ x \in Nat
  BY <1>1
<1>. QED
  BY <1>2 DEF FirstOf

LEMMA FirstOfNone == FirstOf({}) = 0
  BY DEF FirstOf

\* The best of the first three points is one of them, and so is their median.
LEMMA BestOfThree ==
  ASSUME NEW x \in Nat, NEW y \in Nat, NEW z \in Nat
  PROVE  Highest({x, y, z}) \in {x, y, z}
<1>1. \E w \in {x, y, z} : w >= x /\ w >= y /\ w >= z
  OBVIOUS
<1>2. \E w \in {x, y, z} : \A v \in {x, y, z} : w >= v
  BY <1>1
<1>. QED
  BY <1>2 DEF Highest

LEMMA TwoAreTwo ==
  ASSUME NEW S \in SUBSET (1 .. 3), NEW x \in S, NEW y \in S, x # y
  PROVE  Cardinality(S) >= 2
<1>1. IsFiniteSet(1 .. 3)
  <2>1. 1 \in Int /\ 3 \in Int
    OBVIOUS
  <2>. QED
    BY <2>1, FS_Interval
<1>2. IsFiniteSet(S) /\ Cardinality(S) \in Nat
  <2>. DEFINE all == 1 .. 3
  <2>1. IsFiniteSet(all) /\ S \in SUBSET all
    BY <1>1
  <2>. HIDE DEF all
  <2>2. IsFiniteSet(S)
    BY <2>1, FS_Subset
  <2>. QED
    BY <2>2, FS_CardinalityType
<1>3. Cardinality({x, y}) = 2 /\ IsFiniteSet({x, y})
  <2>1. {x, y} = {x} \cup {y}
    OBVIOUS
  <2>2. Cardinality({x}) = 1 /\ IsFiniteSet({x})
    BY FS_Singleton
  <2>3. Cardinality({x} \cup {y}) = Cardinality({x}) + 1 /\ IsFiniteSet({x} \cup {y})
    BY <2>2, FS_AddElement
  <2>. QED
    BY <2>1, <2>2, <2>3
<1>4. {x, y} \subseteq S
  OBVIOUS
<1>5. Cardinality({x, y}) <= Cardinality(S)
  BY <1>2, <1>4, FS_Subset
<1>. QED
  BY <1>2, <1>3, <1>5

LEMMA MedianIsOfThem ==
  ASSUME NEW c \in Seq(Nat), Len(c) >= 3
  PROVE  MedianOf3(c) \in {c[1], c[2], c[3]}
<1>1. c[1] \in Nat /\ c[2] \in Nat /\ c[3] \in Nat
  OBVIOUS
<1>2. \E p, q, r \in 1 .. 3 : p # q /\ p # r /\ c[q] <= c[p] /\ c[p] <= c[r]
  <2>1. \A x, y, z \in 1 .. 3 :
          x # y /\ y # z /\ x # z /\ c[x] <= c[y] /\ c[y] <= c[z] =>
            \E p, q, r \in 1 .. 3 : p # q /\ p # r /\ c[q] <= c[p] /\ c[p] <= c[r]
    OBVIOUS
  <2>2. \/ (c[1] <= c[2] /\ c[2] <= c[3]) \/ (c[3] <= c[2] /\ c[2] <= c[1])
        \/ (c[2] <= c[1] /\ c[1] <= c[3]) \/ (c[3] <= c[1] /\ c[1] <= c[2])
        \/ (c[1] <= c[3] /\ c[3] <= c[2]) \/ (c[2] <= c[3] /\ c[3] <= c[1])
    BY <1>1
  <2>3. 1 \in 1 .. 3 /\ 2 \in 1 .. 3 /\ 3 \in 1 .. 3 /\ 1 # 2 /\ 2 # 3 /\ 1 # 3
    OBVIOUS
  <2>. QED
    BY <2>1, <2>2, <2>3
<1>3. PICK p, q, r \in 1 .. 3 : p # q /\ p # r /\ c[q] <= c[p] /\ c[p] <= c[r]
  BY <1>2
<1>4. c[p] \in {c[1], c[2], c[3]} /\ c[p] <= c[p]
  BY <1>1
<1>5. Cardinality({i \in 1 .. 3 : c[i] <= c[p]}) >= 2
  <2>. DEFINE S == {i \in 1 .. 3 : c[i] <= c[p]}
  <2>1. S \in SUBSET (1 .. 3) /\ p \in S /\ q \in S
    BY <1>3, <1>4
  <2>. QED
    BY <1>3, <2>1, TwoAreTwo
<1>6. Cardinality({i \in 1 .. 3 : c[i] >= c[p]}) >= 2
  <2>. DEFINE S == {i \in 1 .. 3 : c[i] >= c[p]}
  <2>1. S \in SUBSET (1 .. 3) /\ p \in S /\ r \in S
    BY <1>1, <1>3, <1>4
  <2>. QED
    BY <1>3, <2>1, TwoAreTwo
<1>. QED
  BY <1>4, <1>5, <1>6 DEF MedianOf3

\* What Detect finds, by field.
LEMMA DetectFinds ==
  ASSUME NEW c
  PROVE  /\ Detect(c).tlb = SustainedKnees(c, 135) /\ Detect(c).cache = AllKnees(c, 145)
         /\ Detect(c).rob = RobKnee(c) /\ Detect(c).fetch = FetchKnee(c)
         /\ Detect(c).stride = StrideKnee(c) /\ Detect(c).line = LineKnee(c)
         /\ \A b \in DOMAIN Detect(c).branch :
              \E percent \in {120, 125, 130} : Detect(c).branch[b] = PressureKnee(c, percent)
  BY DEF Detect

\* What is not above each of four values by the ratio is not above their mean.
LEMMA NotAboveTheMean ==
  ASSUME NEW v \in Nat, NEW a1 \in Nat, NEW a2 \in Nat, NEW a3 \in Nat, NEW a4 \in Nat,
         100 * v <= 135 * a1, 100 * v <= 135 * a2, 100 * v <= 135 * a3, 100 * v <= 135 * a4
  PROVE  ~(400 * v > 135 * (a1 + a2 + a3 + a4))
  OBVIOUS

--------------------------------------------------------------------------------
\* A rise of at most two neighbours: no three points behind any foot are above it
\* by the ratio, nor three points above the mean of the first four.
THEOREM SpikesAreNoKnees == CurveSpec => []SpikesAreRejected
<1>1. CurveInv => SpikesAreRejected
  <2>. SUFFICES ASSUME CurveInv, whole, NEW i \in Index,
                       NEW spike, spike = {i, i + 1} \cap Index,
                       \A s \in spike, b \in Index \ spike : curve[s] >= curve[b],
                       FlatBut(spike, 135)
       PROVE  found.tlb = {} /\ (i > 4 => found.rob = 0)
    BY DEF SpikesAreRejected
  <2>1. /\ Len(curve) \in Nat /\ Index = 1 .. Len(curve) /\ \A x \in Index : curve[x] \in Nat
        /\ i \in 1 .. Len(curve)
    BY DEF CurveInv, Index
  <2>2. found.tlb = SustainedKnees(curve, 135) /\ found.rob = RobKnee(curve)
    BY DetectFinds DEF CurveInv
  <2>3. \A x, y \in Index \ spike : 100 * curve[x] <= 135 * curve[y]
    BY <2>1 DEF FlatBut, Exceeds
  <2>4. ASSUME NEW x \in Nat, x \in Index, x + 2 \in Index
        PROVE  \E y \in x .. x + 2 : y \in Index \ spike
    BY <2>1, <2>4
  <2>5. SustainedKnees(curve, 135) = {}
    <3>. SUFFICES ASSUME NEW m \in SustainedKnees(curve, 135) PROVE FALSE
      OBVIOUS
    <3>1. /\ m \in 2 .. Len(curve) /\ m + 2 <= Len(curve) /\ curve[m - 1] > 0
          /\ \A j \in m .. m + 2 : 100 * curve[j] > 135 * curve[m - 1]
      BY <2>1 DEF SustainedKnees, Exceeds
    <3>2. m - 1 \in Index /\ m \in Nat /\ m \in Index /\ m + 2 \in Index /\ curve[m - 1] \in Nat
      BY <2>1, <3>1
    <3>3. PICK y \in m .. m + 2 : y \in Index \ spike
      BY <2>4, <3>2
    <3>4. 100 * curve[y] > 135 * curve[m - 1] /\ curve[y] \in Nat
      BY <2>1, <3>1, <3>3
    <3>5. CASE m - 1 \notin spike
      BY <2>3, <3>2, <3>3, <3>4, <3>5
    <3>6. CASE m - 1 \in spike
      <4>1. curve[m - 1] >= curve[y]
        BY <3>3, <3>6
      <4>. QED
        BY <3>2, <3>4, <4>1
    <3>. QED
      BY <3>5, <3>6
  <2>6. ASSUME i > 4 PROVE RobKnee(curve) = 0
    <3>. DEFINE total == curve[1] + curve[2] + curve[3] + curve[4]
                above(v) == 400 * v > 135 * total /\ 4 * v > total + 4 * Noise
                S == {x \in 5 .. Len(curve) : x + 2 <= Len(curve) /\ \A j \in x .. x + 2 : above(curve[j])}
    <3>1. S = {}
      <4>. SUFFICES ASSUME NEW x, x \in S PROVE FALSE
        OBVIOUS
      <4>1. /\ x \in Nat /\ x \in Index /\ x + 2 \in Index
            /\ \A y \in x .. x + 2 :
                 400 * curve[y] > 135 * (curve[1] + curve[2] + curve[3] + curve[4])
        BY <2>1
      <4>. HIDE DEF S
      <4>2. PICK y \in x .. x + 2 : y \in Index \ spike
        BY <2>4, <4>1
      <4>3. 400 * curve[y] > 135 * (curve[1] + curve[2] + curve[3] + curve[4])
        BY <4>1, <4>2
      <4>4. \A q \in 1 .. 4 : q \in Index \ spike
        BY <2>1, <2>6
      <4>5. 1 \in 1 .. 4 /\ 2 \in 1 .. 4 /\ 3 \in 1 .. 4 /\ 4 \in 1 .. 4
        OBVIOUS
      <4>6. /\ curve[y] \in Nat
            /\ curve[1] \in Nat /\ curve[2] \in Nat /\ curve[3] \in Nat /\ curve[4] \in Nat
            /\ 100 * curve[y] <= 135 * curve[1] /\ 100 * curve[y] <= 135 * curve[2]
            /\ 100 * curve[y] <= 135 * curve[3] /\ 100 * curve[y] <= 135 * curve[4]
        BY <2>1, <2>3, <4>2, <4>4, <4>5
      <4>. QED
        BY <4>3, <4>6, NotAboveTheMean
    <3>2. RobKnee(curve) = FirstOf(S)
      BY DEF RobKnee
    <3>. QED
      BY <3>1, <3>2, FirstOfNone
  <2>. QED
    BY <2>2, <2>5, <2>6
<1>. QED
  BY <1>1, CurveInvariant, PTL

--------------------------------------------------------------------------------
\* The values of a curve with one level before place s and another from there on.
StepCurve(c, s, a, b) ==
  /\ c \in Seq(Nat) /\ s \in 2 .. Len(c) - 2 /\ a \in Nat /\ b \in Nat
  /\ \A i \in 1 .. Len(c) : c[i] = IF i < s THEN a ELSE b

LEMMA StepCurveIs ==
  ASSUME CurveInv, NEW s \in 2 .. Len(curve) - 2, StepAt(s)
  PROVE  StepCurve(curve, s, curve[1], curve[s])
<1>1. /\ Len(curve) \in Nat /\ s \in Nat /\ \A i \in 1 .. Len(curve) : curve[i] \in Nat
      /\ 1 \in 1 .. Len(curve) /\ 1 \in 1 .. s - 1 /\ s \in 1 .. Len(curve)
  BY DEF CurveInv
<1>2. ASSUME NEW i \in 1 .. Len(curve) PROVE curve[i] = IF i < s THEN curve[1] ELSE curve[s]
  <2>1. CASE i < s
    <3>1. i \in 1 .. s - 1
      BY <1>1, <2>1
    <3>. QED
      BY <1>1, <2>1, <3>1 DEF StepAt
  <2>2. CASE ~(i < s)
    <3>1. i \in s .. Len(curve)
      BY <1>1, <2>2
    <3>. QED
      BY <2>2, <3>1 DEF StepAt
  <2>. QED
    BY <2>1, <2>2
<1>. QED
  BY <1>1, <1>2 DEF StepCurve, CurveInv

\* The median of three equal values.
LEMMA MedianOfEqual ==
  ASSUME NEW c \in Seq(Nat), Len(c) >= 3, NEW a, c[1] = a, c[2] = a, c[3] = a
  PROVE  MedianOf3(c) = a
  BY MedianIsOfThem

\* A latency that rises by half at s and stays there.
LEMMA RiseIsFound ==
  ASSUME NEW c, NEW s, NEW a, NEW b, StepCurve(c, s, a, b), a > 0, 100 * b > 145 * a
  PROVE  /\ SustainedKnees(c, 135) = {s} /\ AllKnees(c, 145) = {s} /\ LineKnee(c) = s
         /\ StrideKnee(c) = 0 /\ FetchKnee(c) = 0
         /\ s > 3 => \A percent \in {120, 125, 130} : PressureKnee(c, percent) = s
         /\ s > 4 /\ b > a + Noise => RobKnee(c) = s
<1>1. /\ Len(c) \in Nat /\ s \in Nat /\ s >= 2 /\ s + 2 <= Len(c) /\ a \in Nat /\ b \in Nat
      /\ c \in Seq(Nat)
      /\ \A i \in 1 .. Len(c) : i < s => c[i] = a
      /\ \A i \in 1 .. Len(c) : i >= s => c[i] = b
  BY DEF StepCurve
<1>2. \A i \in 1 .. Len(c) : c[i] = a \/ c[i] = b
  BY <1>1
<1>3. SustainedKnees(c, 135) = {s}
  <2>1. s \in SustainedKnees(c, 135)
    <3>1. c[s - 1] = a /\ \A j \in s .. s + 2 : c[j] = b
      BY <1>1
    <3>2. 100 * b > 135 * a /\ s \in 2 .. Len(c)
      BY <1>1
    <3>3. \A j \in s .. s + 2 : Exceeds(c[j], c[s - 1], 135)
      BY <3>1, <3>2 DEF Exceeds
    <3>. QED
      BY <1>1, <3>1, <3>2, <3>3 DEF SustainedKnees
  <2>2. ASSUME NEW m \in SustainedKnees(c, 135) PROVE m = s
    <3>1. m \in 2 .. Len(c) /\ 100 * c[m] > 135 * c[m - 1]
      BY <1>1 DEF SustainedKnees, Exceeds
    <3>2. m < s => c[m] = a /\ c[m - 1] = a
      BY <1>1, <3>1
    <3>3. m > s => c[m] = b /\ c[m - 1] = b
      BY <1>1, <3>1
    <3>4. ~(100 * a > 135 * a) /\ ~(100 * b > 135 * b)
      BY <1>1
    <3>5. ~(m < s) /\ ~(m > s)
      BY <3>1, <3>2, <3>3, <3>4
    <3>6. m \in Nat /\ s \in Nat
      BY <1>1, <3>1
    <3>. QED
      BY <3>5, <3>6
  <2>. QED
    BY <2>1, <2>2
<1>4. AllKnees(c, 145) = {s}
  <2>1. s \in AllKnees(c, 145)
    <3>1. c[s - 1] = a /\ c[s] = b
      BY <1>1
    <3>2. s \in 2 .. Len(c) /\ 100 * c[s] > 145 * c[s - 1]
      BY <1>1, <3>1
    <3>. QED
      BY <3>2 DEF AllKnees, Exceeds
  <2>2. ASSUME NEW m \in AllKnees(c, 145) PROVE m = s
    <3>1. m \in 2 .. Len(c) /\ 100 * c[m] > 145 * c[m - 1]
      BY DEF AllKnees, Exceeds
    <3>2. m < s => c[m] = a /\ c[m - 1] = a
      BY <1>1, <3>1
    <3>3. m > s => c[m] = b /\ c[m - 1] = b
      BY <1>1, <3>1
    <3>4. ~(100 * a > 145 * a) /\ ~(100 * b > 145 * b)
      BY <1>1
    <3>5. ~(m < s) /\ ~(m > s)
      BY <3>1, <3>2, <3>3, <3>4
    <3>6. m \in Nat /\ s \in Nat
      BY <1>1, <3>1
    <3>. QED
      BY <3>5, <3>6
  <2>. QED
    BY <2>1, <2>2
<1>5. LineKnee(c) = s
  <2>. DEFINE S == {i \in 1 .. Len(c) : \A j \in 1 .. Len(c) : 100 * c[i] >= 75 * c[j]}
  <2>1. s \in S
    <3>1. s \in 1 .. Len(c) /\ c[s] = b /\ 100 * b >= 75 * a /\ 100 * b >= 75 * b
      BY <1>1
    <3>. QED
      BY <1>2, <3>1
  <2>2. ASSUME NEW i \in S PROVE s <= i
    <3>1. s \in 1 .. Len(c) /\ c[s] = b /\ i \in 1 .. Len(c) /\ 100 * c[i] >= 75 * c[s]
      BY <1>1
    <3>2. i < s => c[i] = a
      BY <1>1, <3>1
    <3>3. ~(100 * a >= 75 * b)
      BY <1>1
    <3>. QED
      BY <1>1, <3>1, <3>2, <3>3
  <2>3. S \in SUBSET Nat
    BY <1>1
  <2>4. LineKnee(c) = FirstOf(S)
    BY DEF LineKnee
  <2>. HIDE DEF S
  <2>. QED
    BY <2>4, FirstIs, <2>3, <2>1, <2>2
<1>6. StrideKnee(c) = 0
  <2>1. ASSUME NEW i \in 1 .. Len(c) PROVE ~(100 * c[i] < 50 * c[1])
    <3>1. c[1] = a /\ (c[i] = a \/ c[i] = b)
      BY <1>1, <1>2
    <3>2. ~(100 * a < 50 * a) /\ ~(100 * b < 50 * a)
      BY <1>1
    <3>. QED
      BY <3>1, <3>2
  <2>2. {i \in 1 .. Len(c) : 100 * c[i] < 50 * c[1]} = {}
    BY <2>1
  <2>. QED
    BY <2>2, FirstOfNone DEF StrideKnee
<1>7. FetchKnee(c) = 0
  <2>1. ASSUME NEW i \in 4 .. Len(c) PROVE ~(100 * c[i] < 70 * Highest({c[1], c[2], c[3]}))
    <3>1. Len(c) \in Nat /\ i \in Nat /\ i >= 4 /\ i <= Len(c)
      BY <1>1
    <3>2. /\ i \in 1 .. Len(c)
          /\ 1 \in 1 .. Len(c) /\ 2 \in 1 .. Len(c) /\ 3 \in 1 .. Len(c)
      BY <3>1
    <3>3. \A j \in 1 .. Len(c) : c[j] \in Nat
      BY <1>1, <1>2
    <3>4. \E j \in {1, 2, 3} : Highest({c[1], c[2], c[3]}) = c[j]
      <4>1. Highest({c[1], c[2], c[3]}) \in {c[1], c[2], c[3]}
        BY <3>2, <3>3, BestOfThree
      <4>. QED
        BY <4>1
    <3>5. PICK j \in {1, 2, 3} : Highest({c[1], c[2], c[3]}) = c[j]
      BY <3>4
    <3>6. j \in Nat /\ j < i /\ j \in 1 .. Len(c)
      BY <3>1, <3>2
    <3>7. c[i] = a => c[j] = a
      <4>1. i < s => j < s
        BY <1>1, <3>1, <3>6
      <4>2. c[i] = a => i < s
        <5>1. a # b
          BY <1>1
        <5>. QED
          BY <1>1, <3>1, <3>2, <5>1
      <4>. QED
        BY <1>1, <3>6, <4>1, <4>2
    <3>8. (c[i] = a /\ c[j] = a) \/ (c[i] = b /\ (c[j] = a \/ c[j] = b))
      BY <1>2, <3>2, <3>6, <3>7
    <3>9. 100 * c[i] >= 70 * c[j] /\ c[i] \in Nat /\ c[j] \in Nat
      <4>1. 100 * a >= 70 * a /\ 100 * b >= 70 * b /\ 100 * b >= 70 * a
        BY <1>1
      <4>. QED
        BY <1>1, <3>8, <4>1
    <3>. QED
      BY <3>5, <3>9
  <2>2. {i \in 4 .. Len(c) : 100 * c[i] < 70 * Highest({c[1], c[2], c[3]})} = {}
    BY <2>1
  <2>. QED
    BY <2>2, FirstOfNone DEF FetchKnee
<1>8. ASSUME s > 3, NEW percent \in {120, 125, 130} PROVE PressureKnee(c, percent) = s
  <2>. DEFINE S == {i \in 4 .. Len(c) : MedianOf3(c) > 0 /\ Exceeds(c[i], MedianOf3(c), percent)}
  <2>1. Len(c) >= 3 /\ c[1] = a /\ c[2] = a /\ c[3] = a
    BY <1>1, <1>8
  <2>2. MedianOf3(c) = a
    BY <1>1, <2>1, MedianOfEqual
  <2>3. s \in S
    <3>1. s \in 4 .. Len(c) /\ c[s] = b
      BY <1>1, <1>8
    <3>2. 100 * b > percent * a
      BY <1>1, <1>8
    <3>. QED
      BY <2>2, <3>1, <3>2 DEF Exceeds
  <2>4. ASSUME NEW i \in S PROVE s <= i
    <3>1. i \in 4 .. Len(c) /\ 100 * c[i] > percent * a /\ i \in 1 .. Len(c)
      BY <2>2 DEF Exceeds
    <3>2. ~(100 * a > percent * a)
      BY <1>1, <1>8
    <3>3. i < s => c[i] = a
      BY <1>1, <3>1
    <3>4. ~(i < s)
      BY <3>1, <3>2, <3>3
    <3>5. i \in Nat /\ s \in Nat
      BY <1>1, <3>1
    <3>. QED
      BY <3>4, <3>5
  <2>5. S \in SUBSET Nat
    BY <1>1
  <2>6. PressureKnee(c, percent) = FirstOf(S)
    BY <1>1, <2>1 DEF PressureKnee
  <2>. HIDE DEF S
  <2>. QED
    BY <2>3, <2>4, <2>5, <2>6, FirstIs
<1>9. ASSUME s > 4, b > a + Noise PROVE RobKnee(c) = s
  <2>. DEFINE S == {i \in 5 .. Len(c) : i + 2 <= Len(c) /\ \A j \in i .. i + 2 :
                      /\ 400 * c[j] > 135 * (c[1] + c[2] + c[3] + c[4])
                      /\ 4 * c[j] > c[1] + c[2] + c[3] + c[4] + 4 * Noise}
  <2>1. c[1] = a /\ c[2] = a /\ c[3] = a /\ c[4] = a
    BY <1>1, <1>9
  <2>2. s \in S
    <3>1. s \in 5 .. Len(c) /\ \A j \in s .. s + 2 : c[j] = b
      BY <1>1, <1>9
    <3>2. 400 * b > 135 * (a + a + a + a) /\ 4 * b > a + a + a + a + 4 * Noise
      BY <1>1, <1>9, CurveAssumption
    <3>3. \A j \in s .. s + 2 :
             /\ 400 * c[j] > 135 * (c[1] + c[2] + c[3] + c[4])
             /\ 4 * c[j] > c[1] + c[2] + c[3] + c[4] + 4 * Noise
      BY <2>1, <3>1, <3>2
    <3>. QED
      BY <1>1, <3>1, <3>3
  <2>3. ASSUME NEW i \in S PROVE s <= i
    <3>1. i \in 5 .. Len(c) /\ i \in i .. i + 2
      BY <1>1
    <3>2. 400 * c[i] > 135 * (a + a + a + a) /\ i \in 1 .. Len(c)
      BY <1>1, <2>1, <3>1
    <3>3. ~(400 * a > 135 * (a + a + a + a))
      BY <1>1
    <3>4. i < s => c[i] = a
      BY <1>1, <3>2
    <3>5. ~(i < s)
      BY <3>2, <3>3, <3>4
    <3>6. i \in Nat /\ s \in Nat
      BY <1>1, <3>2
    <3>. QED
      BY <3>5, <3>6
  <2>4. S \in SUBSET Nat
    BY <1>1
  <2>5. RobKnee(c) = FirstOf(S)
    BY DEF RobKnee
  <2>. HIDE DEF S
  <2>. QED
    BY <2>5, FirstIs, <2>4, <2>2, <2>3
<1>. QED
  BY <1>3, <1>4, <1>5, <1>6, <1>7, <1>8, <1>9

\* A rate that falls below half at s and stays there.
LEMMA FallIsFound ==
  ASSUME NEW c, NEW s, NEW a, NEW b, StepCurve(c, s, a, b), 100 * b < 50 * a
  PROVE  /\ SustainedKnees(c, 135) = {} /\ AllKnees(c, 145) = {} /\ RobKnee(c) = 0
         /\ LineKnee(c) = 1 /\ StrideKnee(c) = s
         /\ \A percent \in {120, 125, 130} : PressureKnee(c, percent) = 0
         /\ s > 3 => FetchKnee(c) = s
<1>1. /\ Len(c) \in Nat /\ s \in Nat /\ s >= 2 /\ s + 2 <= Len(c) /\ a \in Nat /\ b \in Nat
      /\ c \in Seq(Nat) /\ b < a
      /\ \A i \in 1 .. Len(c) : i < s => c[i] = a
      /\ \A i \in 1 .. Len(c) : i >= s => c[i] = b
  BY DEF StepCurve
<1>2. \A i \in 1 .. Len(c) : c[i] = a \/ c[i] = b
  BY <1>1
<1>3. \A i \in 1 .. Len(c) : c[i] \in Nat /\ c[i] <= a /\ b <= c[i]
  BY <1>1, <1>2
<1>4. ASSUME NEW i \in 1 .. Len(c), NEW j \in 1 .. Len(c), i <= j
      PROVE  c[j] <= c[i]
  <2>1. CASE i < s
    BY <1>1, <1>3, <1>4, <2>1
  <2>2. CASE ~(i < s)
    <3>1. i >= s /\ j >= s
      BY <1>1, <1>4, <2>2
    <3>2. c[i] = b /\ c[j] = b
      BY <1>1, <3>1
    <3>. QED
      BY <1>1, <3>2
  <2>. QED
    BY <2>1, <2>2
<1>5. ASSUME NEW m \in 2 .. Len(c) PROVE c[m] <= c[m - 1] /\ c[m] \in Nat /\ c[m - 1] \in Nat
  <2>1. m \in 1 .. Len(c) /\ m - 1 \in 1 .. Len(c) /\ m - 1 <= m
    BY <1>1
  <2>. QED
    BY <1>3, <1>4, <2>1
<1>6. SustainedKnees(c, 135) = {}
  <2>1. ASSUME NEW m \in SustainedKnees(c, 135) PROVE FALSE
    <3>1. m \in 2 .. Len(c) /\ 100 * c[m] > 135 * c[m - 1]
      BY <1>1 DEF SustainedKnees, Exceeds
    <3>2. c[m] <= c[m - 1] /\ c[m] \in Nat /\ c[m - 1] \in Nat
      BY <1>5, <3>1
    <3>. QED
      BY <3>1, <3>2
  <2>. QED
    BY <2>1
<1>7. AllKnees(c, 145) = {}
  <2>1. ASSUME NEW m \in AllKnees(c, 145) PROVE FALSE
    <3>1. m \in 2 .. Len(c) /\ 100 * c[m] > 145 * c[m - 1]
      BY DEF AllKnees, Exceeds
    <3>2. c[m] <= c[m - 1] /\ c[m] \in Nat /\ c[m - 1] \in Nat
      BY <1>5, <3>1
    <3>. QED
      BY <3>1, <3>2
  <2>. QED
    BY <2>1
<1>8. RobKnee(c) = 0
  <2>. DEFINE S == {i \in 5 .. Len(c) : i + 2 <= Len(c) /\ \A j \in i .. i + 2 :
                      /\ 400 * c[j] > 135 * (c[1] + c[2] + c[3] + c[4])
                      /\ 4 * c[j] > c[1] + c[2] + c[3] + c[4] + 4 * Noise}
  <2>1. ASSUME NEW i, i \in S PROVE FALSE
    <3>1. i \in 5 .. Len(c) /\ i \in i .. i + 2
      BY <1>1, <2>1
    <3>2. 400 * c[i] > 135 * (c[1] + c[2] + c[3] + c[4])
      BY <2>1, <3>1
    <3>. HIDE DEF S
    <3>3. /\ i \in Nat /\ i \in 1 .. Len(c) /\ 1 \in 1 .. Len(c) /\ 2 \in 1 .. Len(c)
          /\ 3 \in 1 .. Len(c) /\ 4 \in 1 .. Len(c) /\ 1 <= i /\ 2 <= i /\ 3 <= i /\ 4 <= i
      BY <1>1, <3>1
    <3>4. /\ c[i] \in Nat /\ c[1] \in Nat /\ c[2] \in Nat /\ c[3] \in Nat /\ c[4] \in Nat
          /\ c[i] <= c[1] /\ c[i] <= c[2] /\ c[i] <= c[3] /\ c[i] <= c[4]
      BY <1>3, <1>4, <3>3
    <3>5. /\ 100 * c[i] <= 135 * c[1] /\ 100 * c[i] <= 135 * c[2]
          /\ 100 * c[i] <= 135 * c[3] /\ 100 * c[i] <= 135 * c[4]
      BY <3>4
    <3>. QED
      BY <3>2, <3>4, <3>5, NotAboveTheMean
  <2>2. S = {}
    BY <2>1
  <2>3. RobKnee(c) = FirstOf(S)
    BY DEF RobKnee
  <2>. QED
    BY <2>2, <2>3, FirstOfNone
<1>9. LineKnee(c) = 1
  <2>. DEFINE S == {i \in 1 .. Len(c) : \A j \in 1 .. Len(c) : 100 * c[i] >= 75 * c[j]}
  <2>1. 1 \in S
    <3>1. 1 \in 1 .. Len(c) /\ c[1] = a
      BY <1>1
    <3>2. 100 * a >= 75 * a /\ 100 * a >= 75 * b
      BY <1>1
    <3>. QED
      BY <1>2, <3>1, <3>2
  <2>2. S \in SUBSET Nat /\ \A i \in S : 1 <= i
    BY <1>1
  <2>3. LineKnee(c) = FirstOf(S)
    BY DEF LineKnee
  <2>. HIDE DEF S
  <2>. QED
    BY <2>3, FirstIs, <2>2, <2>1
<1>10. StrideKnee(c) = s
  <2>. DEFINE S == {i \in 1 .. Len(c) : 100 * c[i] < 50 * c[1]}
  <2>1. c[1] = a /\ s \in 1 .. Len(c) /\ c[s] = b
    BY <1>1
  <2>2. s \in S
    BY <1>1, <2>1
  <2>3. ASSUME NEW i \in S PROVE s <= i
    <3>1. i \in 1 .. Len(c) /\ 100 * c[i] < 50 * a
      BY <2>1
    <3>2. i < s => c[i] = a
      BY <1>1, <3>1
    <3>3. ~(100 * a < 50 * a)
      BY <1>1
    <3>4. ~(i < s) /\ i \in Nat /\ s \in Nat
      BY <1>1, <3>1, <3>2, <3>3
    <3>. QED
      BY <3>4
  <2>4. S \in SUBSET Nat
    BY <1>1
  <2>5. StrideKnee(c) = FirstOf(S)
    BY DEF StrideKnee
  <2>. HIDE DEF S
  <2>. QED
    BY <2>5, FirstIs, <2>4, <2>2, <2>3
<1>11. ASSUME NEW i \in 4 .. Len(c)
       PROVE  \A j \in {1, 2, 3} : c[i] <= c[j] /\ c[i] \in Nat /\ c[j] \in Nat
  <2>1. i \in 1 .. Len(c) /\ \A j \in {1, 2, 3} : j \in 1 .. Len(c) /\ j <= i
    BY <1>1
  <2>. QED
    BY <1>3, <1>4, <2>1
<1>12. ASSUME NEW percent \in {120, 125, 130} PROVE PressureKnee(c, percent) = 0
  <2>1. Len(c) >= 3
    BY <1>1
  <2>2. ASSUME NEW i \in 4 .. Len(c) PROVE ~Exceeds(c[i], MedianOf3(c), percent)
    <3>1. PICK j \in {1, 2, 3} : MedianOf3(c) = c[j]
      <4>1. MedianOf3(c) \in {c[1], c[2], c[3]}
        BY <1>1, <2>1, MedianIsOfThem
      <4>. QED
        BY <4>1
    <3>2. c[i] <= c[j] /\ c[i] \in Nat /\ c[j] \in Nat
      BY <1>11
    <3>. QED
      BY <3>1, <3>2 DEF Exceeds
  <2>3. {i \in 4 .. Len(c) : MedianOf3(c) > 0 /\ Exceeds(c[i], MedianOf3(c), percent)} = {}
    BY <2>2
  <2>. QED
    BY <1>1, <2>1, <2>3, FirstOfNone DEF PressureKnee
<1>13. ASSUME s > 3 PROVE FetchKnee(c) = s
  <2>. DEFINE S == {i \in 4 .. Len(c) : 100 * c[i] < 70 * Highest({c[1], c[2], c[3]})}
  <2>1. c[1] = a /\ c[2] = a /\ c[3] = a /\ s \in 4 .. Len(c) /\ c[s] = b
    BY <1>1, <1>13
  <2>2. Highest({c[1], c[2], c[3]}) = a
    BY <1>1, <2>1, BestOfThree
  <2>3. s \in S
    BY <1>1, <2>1, <2>2
  <2>4. ASSUME NEW i \in S PROVE s <= i
    <3>1. i \in 4 .. Len(c) /\ 100 * c[i] < 70 * a
      BY <2>2
    <3>2. i \in 1 .. Len(c)
      BY <1>1, <3>1
    <3>3. i < s => c[i] = a
      BY <1>1, <3>2
    <3>4. ~(100 * a < 70 * a)
      BY <1>1
    <3>5. ~(i < s)
      BY <3>1, <3>3, <3>4
    <3>6. i \in Nat /\ s \in Nat
      BY <1>1, <3>2
    <3>. QED
      BY <3>5, <3>6
  <2>5. S \in SUBSET Nat
    BY <1>1
  <2>6. FetchKnee(c) = FirstOf(S)
    BY DEF FetchKnee
  <2>. HIDE DEF S
  <2>. QED
    BY <2>3, <2>4, <2>5, <2>6, FirstIs
<1>. QED
  BY <1>6, <1>7, <1>8, <1>9, <1>10, <1>12, <1>13

\* Every detector finds a clean rise or a clean fall where it is, or nothing
\* where it looks for the other, at whatever place and of whatever height.
THEOREM StepsAreKnees == CurveSpec => []StepsAreFound
<1>1. CurveInv => StepsAreFound
  <2>. SUFFICES ASSUME CurveInv, whole, NEW s \in 2 .. Len(curve) - 2, StepAt(s)
       PROVE  /\ curve[1] > 0 /\ Exceeds(curve[s], curve[1], 145) =>
                   /\ found.tlb = {s} /\ found.cache = {s} /\ found.line = s
                   /\ found.stride = 0 /\ found.fetch = 0
                   /\ s > 3 => \A b \in DOMAIN found.branch : found.branch[b] = s
                   /\ s > 4 /\ curve[s] > curve[1] + Noise => found.rob = s
              /\ 100 * curve[s] < 50 * curve[1] =>
                   /\ found.tlb = {} /\ found.cache = {} /\ found.rob = 0 /\ found.line = 1
                   /\ \A b \in DOMAIN found.branch : found.branch[b] = 0
                   /\ found.stride = s
                   /\ s > 3 => found.fetch = s
    BY DEF StepsAreFound
  <2>1. StepCurve(curve, s, curve[1], curve[s])
    BY StepCurveIs
  <2>2. /\ found.tlb = SustainedKnees(curve, 135) /\ found.cache = AllKnees(curve, 145)
        /\ found.rob = RobKnee(curve) /\ found.fetch = FetchKnee(curve)
        /\ found.stride = StrideKnee(curve) /\ found.line = LineKnee(curve)
        /\ \A b \in DOMAIN found.branch :
             \E percent \in {120, 125, 130} : found.branch[b] = PressureKnee(curve, percent)
    BY DetectFinds DEF CurveInv
  <2>3. ASSUME curve[1] > 0, 100 * curve[s] > 145 * curve[1]
        PROVE  /\ found.tlb = {s} /\ found.cache = {s} /\ found.line = s
               /\ found.stride = 0 /\ found.fetch = 0
               /\ s > 3 => \A b \in DOMAIN found.branch : found.branch[b] = s
               /\ s > 4 /\ curve[s] > curve[1] + Noise => found.rob = s
    BY <2>1, <2>2, <2>3, RiseIsFound
  <2>4. ASSUME 100 * curve[s] < 50 * curve[1]
        PROVE  /\ found.tlb = {} /\ found.cache = {} /\ found.rob = 0 /\ found.line = 1
               /\ \A b \in DOMAIN found.branch : found.branch[b] = 0
               /\ found.stride = s
               /\ s > 3 => found.fetch = s
    BY <2>1, <2>2, <2>4, FallIsFound
  <2>. QED
    BY <2>3, <2>4 DEF Exceeds
<1>. QED
  BY <1>1, CurveInvariant, PTL
===============================================================================
