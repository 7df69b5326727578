--------------------------- MODULE LiveReportsProofs ---------------------------
(***************************************************************************)
(* Proofs about ReportRun, for any number of runs and directories, and     *)
(* about LiveReports, which implements it.                                 *)
(***************************************************************************)
EXTENDS LiveReports, TLAPS

USE DEF Absent

--------------------------------------------------------------------------------
(* Runs alone. *)

Writing == {"open", "inside"}
BeforeWriting == {"idle", "start", "build", "discover", "mkdir", "native", "infer"}

\* Where a run is tells what it can have written.
StageInv ==
  \A r \in Runs :
    /\ pc[r] # "ended" => exit[r] = "none"
    /\ pc[r] \in BeforeWriting => nth[r] = 1
    /\ before[r] \subseteq {q \in Runs : pc[q] = "ended"}
    /\ r \notin before[r]

\* Whose file it is has been in its directory.
OwnerInv ==
  \A d \in Dirs, f \in FileNames :
    disk[d][f] # Absent => out[disk[d][f].run] = d /\ pc[disk[d][f].run] # "idle"

\* Only files that a run is through with are complete.
AheadInv ==
  \A r \in Runs, i \in 1 .. 4 :
    FullBy(out[r], DataFiles[i], r) => i < nth[r] \/ exit[r] = "ok"

\* And these are complete as long as nobody else has used the directory.
BehindInv ==
  \A r \in Runs, i \in 1 .. 4 :
    /\ LastAlone(r)
    /\ i < nth[r] \/ exit[r] = "ok"
    => FullBy(out[r], DataFiles[i], r)

RunInv == TypeOK /\ StageInv /\ OwnerInv /\ AheadInv /\ BehindInv

LEMMA FilesOfARun ==
  /\ \A i \in 1 .. 4 : DataFiles[i] \in FileNames /\ DataFiles[i] \notin Notes
  /\ \A i, j \in 1 .. 4 : DataFiles[i] = DataFiles[j] => i = j
  /\ DataFiles[1] = "native-raw.json" /\ DataFiles[2] = "report.json"
  /\ Notes \subseteq FileNames
BY DEF DataFiles, FileNames, Notes

LEMMA InitRunInv == Init => RunInv
<1>. SUFFICES ASSUME Init PROVE RunInv
  OBVIOUS
<1>1. TypeOK
  BY DEF Init, TypeOK, Stages
<1>2. StageInv
  BY DEF Init, StageInv, BeforeWriting
<1>3. OwnerInv /\ AheadInv
  BY FilesOfARun DEF Init, OwnerInv, AheadInv, FullBy
<1>4. BehindInv
  BY DEF Init, BehindInv
<1>. QED
  BY <1>1, <1>2, <1>3, <1>4 DEF RunInv

\* A run that is not the one that moves keeps the directory to itself only if
\* the one that moves is in another directory, or touches none.
LEMMA StillAlone ==
  ASSUME RunInv, NEW r \in Runs, NEW q \in Runs, q # r,
         before'[r] = before[r], out' = out, LastAlone(r)',
         pc' = [pc EXCEPT ![q] = pc'[q]], pc'[q] # "idle"
  PROVE  LastAlone(r) /\ (out[q] = out[r] => pc[q] = "ended")
<1>1. \A p \in Runs : pc[p] # "idle" => pc'[p] # "idle"
  BY DEF RunInv, TypeOK
<1>2. LastAlone(r)
  BY <1>1 DEF LastAlone
<1>3. ASSUME out[q] = out[r] PROVE pc[q] = "ended"
  BY <1>3 DEF LastAlone, RunInv, StageInv
<1>. QED
  BY <1>2, <1>3

\* A step of a run that completes no file: it goes on, or ends without success.
Quiet(r) ==
  /\ pc[r] \notin {"idle", "ended"}
  /\ \E stage \in Stages \ {"idle"} :
       /\ pc' = [pc EXCEPT ![r] = stage]
       /\ stage \in BeforeWriting => pc[r] \in BeforeWriting
       /\ stage \in Writing => stage = "open" /\ pc[r] = "infer"
       /\ \/ stage # "ended" /\ exit' = exit
          \/ stage = "ended" /\ \E how \in {"error", "traceback", "killed"} :
                                  exit' = [exit EXCEPT ![r] = how]
  /\ UNCHANGED <<nth, out, before>>

LEMMA StepsAreQuiet ==
  ASSUME NEW r \in Runs,
         \/ Reject(r) \/ Accept(r) \/ Built(r) \/ BuildFails(r) \/ Discover(r)
         \/ MakeDirectory(r) \/ DirectoryFails(r) \/ NativeSucceeds(r)
         \/ InferRaises(r) \/ Inferred(r) \/ WriteFails(r) \/ Kill(r)
  PROVE  Quiet(r) /\ disk' = disk
<1>. USE DEF Writing
<1>1. CASE Reject(r) \/ BuildFails(r) \/ DirectoryFails(r) \/ InferRaises(r)
           \/ WriteFails(r) \/ Kill(r)
  BY <1>1 DEF Quiet, Stages, BeforeWriting, End, Reject, BuildFails, DirectoryFails,
              InferRaises, WriteFails, Kill
<1>2. CASE Accept(r) \/ Built(r) \/ Discover(r) \/ MakeDirectory(r)
           \/ NativeSucceeds(r) \/ Inferred(r)
  BY <1>2 DEF Quiet, Stages, BeforeWriting, Goto, Accept, Built, Discover, MakeDirectory,
              NativeSucceeds, Inferred
<1>. QED
  BY <1>1, <1>2

\* What a quiet step leaves of the invariant, whatever it notes on the disk.
LEMMA QuietStep ==
  ASSUME RunInv, NEW r \in Runs, Quiet(r),
         \A d \in Dirs, i \in 1 .. 4 : disk'[d][DataFiles[i]] = disk[d][DataFiles[i]]
  PROVE  /\ pc' \in [Runs -> Stages]
         /\ exit' \in [Runs -> {"none", "ok", "error", "traceback", "killed"}]
         /\ \A q \in Runs : (pc'[q] = "idle") = (pc[q] = "idle")
         /\ StageInv' /\ AheadInv' /\ BehindInv'
<1>1. PICK stage \in Stages \ {"idle"} :
         /\ pc' = [pc EXCEPT ![r] = stage]
         /\ stage \in BeforeWriting => pc[r] \in BeforeWriting
         /\ \/ stage # "ended" /\ exit' = exit
            \/ stage = "ended" /\ \E how \in {"error", "traceback", "killed"} :
                                    exit' = [exit EXCEPT ![r] = how]
  BY DEF Quiet
<1>2. pc[r] \notin {"idle", "ended"} /\ nth' = nth /\ out' = out /\ before' = before
  BY DEF Quiet
<1>3. pc' \in [Runs -> Stages] /\ \A q \in Runs : (pc'[q] = "idle") = (pc[q] = "idle")
  BY <1>1, <1>2 DEF RunInv, TypeOK
<1>4. /\ exit' \in [Runs -> {"none", "ok", "error", "traceback", "killed"}]
      /\ \A q \in Runs : exit'[q] = "ok" <=> exit[q] = "ok"
  <2>1. exit \in [Runs -> {"none", "ok", "error", "traceback", "killed"}] /\ exit[r] = "none"
    BY <1>2 DEF RunInv, TypeOK, StageInv
  <2>2. ASSUME NEW how \in {"error", "traceback", "killed"}, exit' = [exit EXCEPT ![r] = how]
        PROVE  /\ exit' \in [Runs -> {"none", "ok", "error", "traceback", "killed"}]
               /\ \A q \in Runs : exit'[q] = "ok" <=> exit[q] = "ok"
    BY <2>1, <2>2
  <2>. QED
    BY <1>1, <2>1, <2>2
<1>5. StageInv'
  BY <1>1, <1>2 DEF RunInv, TypeOK, StageInv
<1>6. \A q \in Runs, i \in 1 .. 4 :
        FullBy(out[q], DataFiles[i], q)' <=> FullBy(out[q], DataFiles[i], q)
  BY <1>2 DEF RunInv, TypeOK, FullBy
<1>7. AheadInv'
  BY <1>2, <1>4, <1>6 DEF RunInv, AheadInv
<1>8. \A q \in Runs : LastAlone(q)' = LastAlone(q)
  BY <1>2, <1>3 DEF LastAlone
<1>9. BehindInv'
  BY <1>2, <1>4, <1>6, <1>8 DEF RunInv, BehindInv
<1>. QED
  BY <1>3, <1>4, <1>5, <1>7, <1>9

LEMMA QuietInv ==
  ASSUME RunInv, NEW r \in Runs, Quiet(r), disk' = disk
  PROVE  RunInv'
<1>1. TypeOK'
  BY QuietStep DEF RunInv, TypeOK, Quiet
<1>2. OwnerInv'
  BY QuietStep DEF RunInv, TypeOK, OwnerInv, Quiet
<1>. QED
  BY <1>1, <1>2, QuietStep DEF RunInv

\* A failed native run may leave a note.
LEMMA NativeFailsQuietly ==
  ASSUME RunInv, NEW r \in Runs, NEW note \in Notes, NativeFails(r, note)
  PROVE  /\ Quiet(r) /\ OwnerInv' /\ TypeOK'
         /\ \A d \in Dirs, i \in 1 .. 4 : disk'[d][DataFiles[i]] = disk[d][DataFiles[i]]
<1>1. Quiet(r)
  BY DEF NativeFails, Quiet, End, Stages, BeforeWriting, Writing
<1>2. disk' = disk \/ \E state \in {"full", "partial"} : Put(r, note, state)
  BY DEF NativeFails
<1>3. note \in FileNames /\ \A i \in 1 .. 4 : DataFiles[i] \in FileNames /\ DataFiles[i] # note
  BY FilesOfARun
<1>4. ASSUME NEW state \in {"full", "partial"}, Put(r, note, state)
      PROVE  /\ disk' \in [Dirs -> [FileNames ->
                   {Absent} \cup [state : {"partial", "full"}, run : Runs]]]
             /\ disk'[out[r]][note] = [state |-> state, run |-> r]
             /\ \A d \in Dirs, g \in FileNames :
                  d # out[r] \/ g # note => disk'[d][g] = disk[d][g]
  <2>1. TypeOK
    BY DEF RunInv
  <2>. QED
    BY <1>3, <1>4, <2>1 DEF Put, TypeOK
<1>5. \A d \in Dirs, i \in 1 .. 4 : disk'[d][DataFiles[i]] = disk[d][DataFiles[i]]
  BY <1>2, <1>3, <1>4
<1>6. /\ \A q \in Runs : (pc'[q] = "idle") = (pc[q] = "idle")
      /\ pc[r] # "idle" /\ out' = out /\ nth' = nth /\ before' = before
  BY <1>1, <1>5, QuietStep DEF Quiet
<1>7. /\ disk' \in [Dirs -> [FileNames ->
            {Absent} \cup [state : {"partial", "full"}, run : Runs]]]
      /\ \A d \in Dirs, g \in FileNames :
           disk'[d][g] # disk[d][g] => d = out[r] /\ disk'[d][g].run = r
  BY <1>2, <1>4 DEF RunInv, TypeOK
<1>8. TypeOK'
  BY <1>1, <1>5, <1>6, <1>7, QuietStep DEF RunInv, TypeOK
<1>9. OwnerInv'
  BY <1>6, <1>7 DEF RunInv, TypeOK, OwnerInv
<1>. QED
  BY <1>1, <1>5, <1>8, <1>9

\* A step that writes one of the four files.
Writes(r) ==
  /\ pc[r] \in Writing
  /\ \E stage \in Writing \cup {"ended"}, state \in {"partial", "full"} :
       /\ pc' = [pc EXCEPT ![r] = stage]
       /\ Put(r, DataFiles[nth[r]], state)
       /\ CASE pc[r] = "open" -> /\ stage = "inside" /\ state = "partial"
                                 /\ nth' = nth /\ exit' = exit
            [] pc[r] = "inside" /\ nth[r] < 4 ->
                 /\ stage = "open" /\ state = "full"
                 /\ nth' = [nth EXCEPT ![r] = @ + 1] /\ exit' = exit
            [] OTHER -> /\ nth[r] = 4 /\ stage = "ended" /\ state = "full"
                        /\ nth' = nth /\ exit' = [exit EXCEPT ![r] = "ok"]
  /\ UNCHANGED <<out, before>>

LEMMA FilesAreWritten ==
  ASSUME NEW r \in Runs, OpenFile(r) \/ CloseFile(r) \/ CloseLastFile(r)
  PROVE  Writes(r)
<1>1. CASE OpenFile(r)
  BY <1>1 DEF OpenFile, Goto, Writes, Writing
<1>2. CASE CloseFile(r)
  BY <1>2 DEF CloseFile, Writes, Writing
<1>3. CASE CloseLastFile(r)
  BY <1>3 DEF CloseLastFile, End, Writes, Writing
<1>. QED
  BY <1>1, <1>2, <1>3

LEMMA WritesInv ==
  ASSUME RunInv, NEW r \in Runs, Writes(r)
  PROVE  RunInv'
<1>1. PICK stage \in Writing \cup {"ended"}, state \in {"partial", "full"} :
       /\ pc' = [pc EXCEPT ![r] = stage]
       /\ Put(r, DataFiles[nth[r]], state)
       /\ CASE pc[r] = "open" -> /\ stage = "inside" /\ state = "partial"
                                 /\ nth' = nth /\ exit' = exit
            [] pc[r] = "inside" /\ nth[r] < 4 ->
                 /\ stage = "open" /\ state = "full"
                 /\ nth' = [nth EXCEPT ![r] = @ + 1] /\ exit' = exit
            [] OTHER -> /\ nth[r] = 4 /\ stage = "ended" /\ state = "full"
                        /\ nth' = nth /\ exit' = [exit EXCEPT ![r] = "ok"]
  BY DEF Writes
<1>2. /\ pc[r] \in Writing /\ out' = out /\ before' = before
      /\ pc \in [Runs -> Stages] /\ nth \in [Runs -> 1 .. 4] /\ out \in [Runs -> Dirs]
      /\ exit \in [Runs -> {"none", "ok", "error", "traceback", "killed"}]
      /\ exit[r] = "none" /\ before \in [Runs -> SUBSET Runs]
  BY DEF Writes, Writing, RunInv, TypeOK, StageInv
<1>3. PICK n \in 1 .. 4 : n = nth[r] /\ DataFiles[n] \in FileNames
  BY <1>2, FilesOfARun
<1>4. /\ disk' \in [Dirs -> [FileNames ->
            {Absent} \cup [state : {"partial", "full"}, run : Runs]]]
      /\ disk'[out[r]][DataFiles[n]] = [state |-> state, run |-> r]
      /\ \A d \in Dirs, g \in FileNames :
           d # out[r] \/ g # DataFiles[n] => disk'[d][g] = disk[d][g]
  BY <1>1, <1>3 DEF Put, RunInv, TypeOK
<1>5. /\ nth' \in [Runs -> 1 .. 4] /\ \A q \in Runs : q # r => nth'[q] = nth[q]
      /\ exit' \in [Runs -> {"none", "ok", "error", "traceback", "killed"}]
      /\ \A q \in Runs : q # r => exit'[q] = exit[q]
      /\ n <= nth'[r] /\ nth'[r] <= n + 1
      /\ state = "full" <=> n < nth'[r] \/ exit'[r] = "ok"
      /\ exit'[r] = "ok" => n = 4
      /\ exit'[r] = "none" \/ stage = "ended"
  <2>1. CASE pc[r] = "open"
    BY <1>1, <1>2, <1>3, <2>1
  <2>2. CASE pc[r] = "inside" /\ n < 4
    BY <1>1, <1>2, <1>3, <2>2
  <2>3. CASE pc[r] = "inside" /\ n = 4
    <3>1. /\ stage = "ended" /\ state = "full"
          /\ nth' = nth /\ exit' = [exit EXCEPT ![r] = "ok"]
      BY <1>1, <1>3, <2>3
    <3>2. exit' \in [Runs -> {"none", "ok", "error", "traceback", "killed"}]
      BY <1>2, <3>1
    <3>3. exit'[r] = "ok" /\ \A q \in Runs : q # r => exit'[q] = exit[q]
      BY <1>2, <3>1
    <3>4. nth' \in [Runs -> 1 .. 4] /\ nth'[r] = n /\ n = 4
          /\ \A q \in Runs : q # r => nth'[q] = nth[q]
      BY <1>2, <1>3, <2>3, <3>1
    <3>. QED
      BY <3>1, <3>2, <3>3, <3>4
  <2>. QED
    BY <1>2, <1>3, <2>1, <2>2, <2>3 DEF Writing
<1>6. /\ pc' \in [Runs -> Stages] /\ \A q \in Runs : (pc'[q] = "idle") = (pc[q] = "idle")
      /\ \A q \in Runs : pc[q] = "ended" => pc'[q] = "ended"
      /\ pc'[r] = stage /\ \A q \in Runs : q # r => pc'[q] = pc[q]
  BY <1>1, <1>2 DEF Stages, Writing
<1>7. TypeOK'
  BY <1>2, <1>4, <1>5, <1>6 DEF TypeOK
<1>8. StageInv'
  BY <1>2, <1>5, <1>6 DEF RunInv, StageInv, Writing, BeforeWriting
<1>9. OwnerInv'
  <2>. SUFFICES ASSUME NEW d \in Dirs, NEW f \in FileNames, disk'[d][f] # Absent
       PROVE  out[disk'[d][f].run] = d /\ pc'[disk'[d][f].run] # "idle"
    BY <1>2 DEF OwnerInv
  <2>1. CASE d = out[r] /\ f = DataFiles[n]
    BY <1>2, <1>4, <1>6, <2>1 DEF Writing
  <2>2. CASE d # out[r] \/ f # DataFiles[n]
    <3>1. disk'[d][f] = disk[d][f]
      BY <1>4, <2>2
    <3>2. disk[d][f].run \in Runs
      BY <3>1 DEF RunInv, TypeOK
    <3>. QED
      BY <1>6, <3>1, <3>2 DEF RunInv, OwnerInv
  <2>. QED
    BY <2>1, <2>2
<1>10. AheadInv'
  <2>. SUFFICES ASSUME NEW q \in Runs, NEW i \in 1 .. 4,
                       disk'[out[q]][DataFiles[i]] = [state |-> "full", run |-> q]
       PROVE  i < nth'[q] \/ exit'[q] = "ok"
    BY <1>2 DEF AheadInv, FullBy
  <2>1. CASE out[q] = out[r] /\ i = n
    BY <1>4, <1>5, <2>1
  <2>2. CASE out[q] # out[r] \/ i # n
    <3>1. disk'[out[q]][DataFiles[i]] = disk[out[q]][DataFiles[i]]
      BY <1>2, <1>3, <1>4, <2>2, FilesOfARun
    <3>2. i < nth[q] \/ exit[q] = "ok"
      BY <3>1 DEF RunInv, AheadInv, FullBy
    <3>. QED
      BY <1>2, <1>3, <1>5, <3>2
  <2>. QED
    BY <2>1, <2>2
<1>11. BehindInv'
  <2>. SUFFICES ASSUME NEW q \in Runs, NEW i \in 1 .. 4, LastAlone(q)',
                       i < nth'[q] \/ exit'[q] = "ok"
       PROVE  disk'[out[q]][DataFiles[i]] = [state |-> "full", run |-> q]
    BY <1>2 DEF BehindInv, FullBy
  <2>1. LastAlone(q)
    BY <1>2, <1>6 DEF LastAlone
  <2>2. CASE q # r
    <3>1. out[q] # out[r]
      BY <1>2, <2>1, <2>2 DEF LastAlone, RunInv, StageInv, Writing
    <3>2. FullBy(out[q], DataFiles[i], q)
      BY <1>5, <2>1, <2>2 DEF RunInv, BehindInv
    <3>. QED
      BY <1>2, <1>4, <3>1, <3>2, FilesOfARun DEF FullBy
  <2>3. CASE q = r /\ i # n
    <3>1. i < nth[r]
      BY <1>2, <1>3, <1>5, <2>3
    <3>2. FullBy(out[r], DataFiles[i], r)
      BY <2>1, <2>3, <3>1 DEF RunInv, BehindInv
    <3>. QED
      BY <1>2, <1>3, <1>4, <2>3, <3>2, FilesOfARun DEF FullBy
  <2>4. CASE q = r /\ i = n
    BY <1>4, <1>5, <2>4
  <2>. QED
    BY <2>2, <2>3, <2>4
<1>. QED
  BY <1>7, <1>8, <1>9, <1>10, <1>11 DEF RunInv

LEMMA LaunchInv ==
  ASSUME RunInv, NEW r \in Runs, Launch(r)
  PROVE  RunInv'
<1>1. /\ pc[r] = "idle" /\ pc' = [pc EXCEPT ![r] = "start"] /\ pc \in [Runs -> Stages]
      /\ nth[r] = 1 /\ exit[r] = "none"
      /\ UNCHANGED <<nth, exit, out, disk>>
  BY DEF Launch, RunInv, TypeOK, StageInv, BeforeWriting
<1>2. /\ before' \in [Runs -> SUBSET Runs]
      /\ before'[r] = {q \in Runs : pc[q] = "ended"}
      /\ \A q \in Runs : q # r => before'[q] = before[q]
  BY DEF Launch, RunInv, TypeOK
<1>3. /\ pc' \in [Runs -> Stages] /\ pc'[r] = "start"
      /\ \A q \in Runs : q # r => pc'[q] = pc[q]
  BY <1>1 DEF Stages
<1>4. TypeOK'
  BY <1>1, <1>2, <1>3 DEF RunInv, TypeOK
<1>5. StageInv'
  BY <1>1, <1>2, <1>3 DEF RunInv, StageInv, BeforeWriting
<1>6. OwnerInv'
  BY <1>1, <1>3 DEF RunInv, TypeOK, OwnerInv
<1>7. AheadInv'
  BY <1>1 DEF RunInv, AheadInv, FullBy
<1>8. \A q \in Runs : LastAlone(q)' => q = r \/ LastAlone(q)
  BY <1>1, <1>2, <1>3 DEF LastAlone
<1>9. BehindInv'
  BY <1>1, <1>8 DEF RunInv, TypeOK, BehindInv, FullBy
<1>. QED
  BY <1>4, <1>5, <1>6, <1>7, <1>9 DEF RunInv

LEMMA NextRunInv == RunInv /\ [Next]_vars => RunInv'
<1>. SUFFICES ASSUME RunInv, [Next]_vars PROVE RunInv'
  OBVIOUS
<1>1. ASSUME NEW r \in Runs, Step(r) \/ Kill(r)
      PROVE  RunInv'
  <2>1. ASSUME NEW note \in Notes, NativeFails(r, note)
        PROVE  RunInv'
    BY <2>1, NativeFailsQuietly, QuietStep DEF RunInv
  <2>2. CASE OpenFile(r) \/ CloseFile(r) \/ CloseLastFile(r)
    BY <2>2, FilesAreWritten, WritesInv
  <2>3. CASE \/ Reject(r) \/ Accept(r) \/ Built(r) \/ BuildFails(r) \/ Discover(r)
             \/ MakeDirectory(r) \/ DirectoryFails(r) \/ NativeSucceeds(r)
             \/ InferRaises(r) \/ Inferred(r) \/ WriteFails(r) \/ Kill(r)
    BY <2>3, StepsAreQuiet, QuietInv
  <2>. QED
    BY <1>1, <2>1, <2>2, <2>3 DEF Step
<1>2. CASE UNCHANGED vars
  BY <1>2 DEF vars, RunInv, TypeOK, StageInv, OwnerInv, AheadInv, BehindInv, FullBy, LastAlone
<1>. QED
  BY <1>1, <1>2, LaunchInv DEF Next

LEMMA RunInvHolds == Spec => []RunInv
BY InitRunInv, NextRunInv, PTL DEF Spec

\* The raw file is complete before the report is opened, and nobody else is there.
LEMMA RawIsBeside == RunInv => RawBesideReport
<1>. SUFFICES ASSUME RunInv, NEW r \in Runs,
                     FullBy(out[r], "report.json", r), LastAlone(r)
     PROVE  FullBy(out[r], "native-raw.json", r)
  BY DEF RawBesideReport
<1>1. 2 < nth[r] \/ exit[r] = "ok"
  BY FilesOfARun DEF RunInv, AheadInv
<1>2. nth[r] \in 1 .. 4
  BY DEF RunInv, TypeOK
<1>3. FullBy(out[r], DataFiles[1], r)
  BY <1>1, <1>2 DEF RunInv, BehindInv
<1>. QED
  BY <1>3, FilesOfARun

LEMMA SuccessIsWhole == RunInv => SuccessIsComplete
BY DEF RunInv, BehindInv, SuccessIsComplete

\* What ends before it writes has written notes only.
LEMMA FailureWritesNothing ==
  RunInv /\ [Next]_vars =>
    \A r \in Runs : pc[r] \in {"start", "build", "discover", "mkdir", "native", "infer"}
      /\ pc'[r] = "ended"
      => \A d \in Dirs, i \in 1 .. 4 : disk'[d][DataFiles[i]] = disk[d][DataFiles[i]]
<1>. SUFFICES ASSUME RunInv, [Next]_vars, NEW r \in Runs, pc'[r] = "ended",
                     pc[r] \in {"start", "build", "discover", "mkdir", "native", "infer"}
     PROVE  \A d \in Dirs, i \in 1 .. 4 : disk'[d][DataFiles[i]] = disk[d][DataFiles[i]]
  OBVIOUS
<1>1. PICK q \in Runs : Launch(q) \/ Step(q) \/ Kill(q)
  BY DEF Next, vars
<1>2. CASE OpenFile(q) \/ CloseFile(q) \/ CloseLastFile(q)
  <2>1. pc[q] \in Writing /\ \E stage : pc' = [pc EXCEPT ![q] = stage]
    BY <1>2, FilesAreWritten DEF Writes
  <2>2. q = r
    BY <2>1 DEF RunInv, TypeOK
  <2>. QED
    BY <2>1, <2>2 DEF Writing
<1>3. CASE \E note \in Notes : NativeFails(q, note)
  BY <1>3, NativeFailsQuietly
<1>4. CASE \/ Reject(q) \/ Accept(q) \/ Built(q) \/ BuildFails(q) \/ Discover(q)
           \/ MakeDirectory(q) \/ DirectoryFails(q) \/ NativeSucceeds(q)
           \/ InferRaises(q) \/ Inferred(q) \/ WriteFails(q) \/ Kill(q)
  BY <1>4, StepsAreQuiet
<1>5. CASE Launch(q)
  BY <1>5 DEF Launch
<1>. QED
  BY <1>1, <1>2, <1>3, <1>4, <1>5 DEF Step

LEMMA RunsKeepEarlierReports == Spec => FailureKeepsEarlierReport
BY FailureWritesNothing, RunInvHolds, PTL DEF Spec, FailureKeepsEarlierReport

--------------------------------------------------------------------------------
(* The report a run is at. *)

Report(d) == disk[d]["report.json"]

\* Whoever is inside a file of a directory that nobody else uses finds it as he
\* opened it.
OpenedInv ==
  \A r \in Runs :
    pc[r] = "inside" /\ LastAlone(r) =>
      disk[out[r]][DataFiles[nth[r]]] = [state |-> "partial", run |-> r]

Move(r) == Launch(r) \/ Step(r) \/ Kill(r)

LEMMA KindsOfMoves ==
  ASSUME RunInv, NEW r \in Runs, Move(r)
  PROVE  /\ out' = out
         /\ \/ Launch(r)
            \/ Quiet(r) /\ \A d \in Dirs, i \in 1 .. 4 :
                             disk'[d][DataFiles[i]] = disk[d][DataFiles[i]]
            \/ Writes(r)
<1>1. CASE \E note \in Notes : NativeFails(r, note)
  BY <1>1, NativeFailsQuietly DEF Quiet
<1>2. CASE OpenFile(r) \/ CloseFile(r) \/ CloseLastFile(r)
  BY <1>2, FilesAreWritten DEF Writes
<1>3. CASE \/ Reject(r) \/ Accept(r) \/ Built(r) \/ BuildFails(r) \/ Discover(r)
           \/ MakeDirectory(r) \/ DirectoryFails(r) \/ NativeSucceeds(r)
           \/ InferRaises(r) \/ Inferred(r) \/ WriteFails(r) \/ Kill(r)
  BY <1>3, StepsAreQuiet DEF Quiet
<1>4. CASE Launch(r)
  BY <1>4 DEF Launch
<1>. QED
  BY <1>1, <1>2, <1>3, <1>4 DEF Move, Step

\* Nobody comes to have a directory to himself but by being launched.
LEMMA AloneBefore ==
  ASSUME RunInv, NEW r \in Runs, Move(r), NEW q \in Runs, LastAlone(q)'
  PROVE  /\ LastAlone(q) \/ (q = r /\ pc[q] = "idle")
         /\ Writes(r) /\ q # r => out[q] # out[r]
<1>1. CASE Launch(r)
  <2>1. /\ pc[r] = "idle" /\ out' = out
        /\ \A p \in Runs : p # r => pc'[p] = pc[p] /\ before'[p] = before[p]
        /\ pc'[r] = "start"
    BY <1>1 DEF Launch, RunInv, TypeOK
  <2>2. ASSUME q # r
        PROVE  LastAlone(q)
    BY <2>1, <2>2 DEF LastAlone
  <2>. QED
    BY <2>1, <2>2 DEF Writes, Writing
<1>2. CASE Quiet(r) \/ Writes(r)
  <2>1. /\ out' = out /\ before' = before /\ pc[r] # "idle"
        /\ \A p \in Runs : (pc'[p] = "idle") = (pc[p] = "idle")
    BY <1>2 DEF Quiet, Writes, Writing, RunInv, TypeOK
  <2>2. LastAlone(q)
    BY <2>1 DEF LastAlone
  <2>3. ASSUME Writes(r), q # r, out[q] = out[r]
        PROVE  FALSE
    BY <2>2, <2>3 DEF LastAlone, RunInv, StageInv, Writes, Writing
  <2>. QED
    BY <2>2, <2>3
<1>. QED
  BY <1>1, <1>2, KindsOfMoves

LEMMA InitOpened == Init => OpenedInv
BY DEF Init, OpenedInv

LEMMA MoveOpened ==
  ASSUME RunInv, OpenedInv, NEW r \in Runs, Move(r)
  PROVE  OpenedInv'
<1>. SUFFICES ASSUME NEW q \in Runs, pc'[q] = "inside", LastAlone(q)'
     PROVE  disk'[out[q]][DataFiles[nth'[q]]] = [state |-> "partial", run |-> q]
  BY KindsOfMoves DEF OpenedInv
<1>1. /\ out[q] \in Dirs /\ nth[q] \in 1 .. 4 /\ out' = out
      /\ pc \in [Runs -> Stages] /\ nth \in [Runs -> 1 .. 4]
  BY KindsOfMoves DEF RunInv, TypeOK
<1>2. CASE Launch(r)
  <2>1. disk' = disk /\ nth' = nth /\ pc[r] = "idle" /\ pc' = [pc EXCEPT ![r] = "start"]
    BY <1>2 DEF Launch
  <2>2. q # r /\ pc[q] = "inside" /\ LastAlone(q)
    BY <1>1, <2>1, AloneBefore
  <2>. QED
    BY <1>1, <2>1, <2>2 DEF OpenedInv
<1>3. CASE Quiet(r) /\ \A d \in Dirs, i \in 1 .. 4 :
                         disk'[d][DataFiles[i]] = disk[d][DataFiles[i]]
  <2>1. nth' = nth /\ q # r /\ pc[q] = "inside" /\ pc[r] # "idle"
    BY <1>1, <1>3 DEF Quiet, Writing
  <2>2. LastAlone(q)
    BY <2>1, AloneBefore
  <2>. QED
    BY <1>1, <1>3, <2>1, <2>2 DEF OpenedInv
<1>4. CASE Writes(r)
  <2>1. PICK stage \in Writing \cup {"ended"}, state \in {"partial", "full"} :
          /\ pc' = [pc EXCEPT ![r] = stage]
          /\ Put(r, DataFiles[nth[r]], state)
          /\ stage = "inside" => state = "partial" /\ nth' = nth
          /\ \A p \in Runs : p # r => nth'[p] = nth[p]
    BY <1>1, <1>4 DEF Writes
  <2>2. PICK n \in 1 .. 4 : n = nth[r]
    BY <1>1
  <2>3. /\ disk'[out[r]][DataFiles[n]] = [state |-> state, run |-> r]
        /\ \A d \in Dirs, g \in FileNames : d # out[r] => disk'[d][g] = disk[d][g]
    BY <2>1, <2>2, FilesOfARun DEF Put, RunInv, TypeOK
  <2>4. CASE q = r
    BY <1>1, <2>1, <2>2, <2>3, <2>4
  <2>5. CASE q # r
    <3>1. pc[q] = "inside" /\ nth'[q] = nth[q] /\ LastAlone(q) /\ out[q] # out[r]
      BY <1>1, <1>4, <2>1, <2>5, AloneBefore
    <3>. QED
      BY <1>1, <2>3, <3>1, FilesOfARun DEF OpenedInv
  <2>. QED
    BY <2>4, <2>5
<1>. QED
  BY <1>2, <1>3, <1>4, KindsOfMoves

--------------------------------------------------------------------------------
(* What the server knows of the report of a run that has its directory to      *)
(* itself.                                                                     *)

Busy == {"next", "lookup", "read", "store"}

ServerTypes ==
  /\ stamp \in [Dirs -> Nat] /\ tick \in Nat
  /\ serving \in [Requests -> Busy \cup {"idle", "done"}]
  /\ at \in [Requests -> Dirs \cup {"no path"}]
  /\ stat \in [Requests -> [stamp : Nat, size : Nat]]
  /\ todo \in [Requests -> SUBSET Dirs] /\ steady \in [Requests -> SUBSET Dirs]
  /\ listed \in [Requests -> SUBSET [path : Dirs, gen : Runs]]
  /\ reply \in [Requests -> SUBSET [path : Dirs, gen : Runs]]
  /\ DOMAIN cache \subseteq Dirs
  /\ \A d \in DOMAIN cache : cache[d] \in [stamp : Nat, size : Nat, gen : Runs]

\* The clock has moved since the directory was last written by another run.
NewerInv ==
  /\ \A d \in Dirs : stamp[d] <= tick
  /\ \A r \in Runs :
       /\ pc[r] \in {"infer", "open"} \/ (pc[r] = "inside" /\ nth[r] = 1)
       /\ nth[r] <= 2 /\ LastAlone(r)
       => stamp[out[r]] < tick

\* The report of d is that of a run that has had d to itself.
OwnedBy(d, r) ==
  /\ out[r] = d /\ LastAlone(r)
  /\ Report(d) # Absent /\ Report(d).run = r

\* A stamp and a size that a stat of d can have returned: no file newer than
\* the one there is, and a half written one is empty.
Seen(d, s) ==
  /\ s.stamp <= stamp[d]
  /\ \A r \in Runs :
       OwnedBy(d, r) /\ Report(d).state = "partial" /\ s.stamp = stamp[d] => s.size = 0

\* A summary that may be taken for that of d whenever they agree.
Told(d, s, g) ==
  \A r \in Runs :
    OwnedBy(d, r) /\ Report(d).state = "full" /\ s.stamp = stamp[d] /\ s.size = 1 => g = r

SightInv ==
  /\ \A d \in DOMAIN cache : Seen(d, cache[d]) /\ Told(d, cache[d], cache[d].gen)
  /\ \A q \in Requests :
       /\ serving[q] \in {"lookup", "read", "store"} => Seen(at[q], stat[q])
       /\ serving[q] = "store" =>
            \A x \in listed[q] : x.path = at[q] => Told(at[q], stat[q], x.gen)

\* A request goes through the directories one by one, each of them once.
VisitInv ==
  \A q \in Requests :
    /\ serving[q] = "idle" => listed[q] = {}
    /\ serving[q] \in {"lookup", "read", "store"} => at[q] \in Dirs \ todo[q]
    /\ serving[q] = "store" => \E x \in listed[q] : x.path = at[q]
    /\ \A x, y \in listed[q] : x.path = y.path => x = y
    /\ \A x \in listed[q] :
         x.path \notin todo[q] /\ (serving[q] \in {"lookup", "read"} => x.path # at[q])

\* What has stood still while the request runs is as the request has seen it.
StillInv ==
  \A q \in Requests :
    /\ \A d \in steady[q] : Report(d).state = "full"
    /\ serving[q] \in {"lookup", "read"} /\ at[q] \in steady[q] =>
         stat[q].stamp = stamp[at[q]] /\ stat[q].size = 1

Whole(r) == FullBy(out[r], "report.json", r) /\ LastAlone(r)

\* A report that has stood still is yet to come, or at hand, or in the list.
ShownInv ==
  \A q \in Requests, r \in Runs :
    serving[q] # "idle" /\ out[r] \in steady[q] /\ Whole(r)
    => \/ serving[q] \in Busy /\ out[r] \in todo[q]
       \/ serving[q] \in {"lookup", "read"} /\ out[r] = at[q]
       \/ serving[q] \in Busy /\ [path |-> out[r], gen |-> r] \in listed[q]
       \/ serving[q] = "done" /\ [path |-> out[r], gen |-> r] \in reply[q]

ServerInv == ServerTypes /\ NewerInv /\ SightInv /\ VisitInv /\ StillInv /\ ShownInv

\* What a move of a run does to what the server sees: nothing, or it writes the
\* report of its directory, which stands still no longer.
Rewrites(r) ==
  /\ Writes(r) /\ nth[r] = 2
  /\ stamp' = [stamp EXCEPT ![out[r]] = tick]
  /\ \A q \in Requests : out[r] \notin steady'[q]
  /\ \/ Report(out[r])' = [state |-> "partial", run |-> r] /\ pc[r] = "open"
     \/ Report(out[r])' = [state |-> "full", run |-> r] /\ pc[r] = "inside"

SeenMove(r) ==
  /\ Move(r)
  /\ UNCHANGED <<serving, cache, todo, at, stat, listed, reply>>
  /\ tick' = tick \/ (tick' = tick + 1 /\ stamp' = stamp)
  /\ pc'[r] = "infer" => tick' = tick + 1
  /\ steady' \in [Requests -> SUBSET Dirs]
  /\ \A q \in Requests : steady'[q] \subseteq steady[q]
  /\ \A d \in Dirs : Report(d)' = Report(d) \/ d = out[r]
  /\ \/ Report(out[r])' = Report(out[r]) /\ stamp' = stamp
     \/ Rewrites(r)

LEMMA MovesAreSeen ==
  ASSUME RunInv, ServerTypes, NEW r \in Runs, Write(r) \/ Measured(r) \/ Other(r)
  PROVE  SeenMove(r)
<1>1. /\ out[r] \in Dirs /\ nth[r] \in 1 .. 4 /\ out' = out /\ tick \in Nat
      /\ steady \in [Requests -> SUBSET Dirs]
      /\ DataFiles[2] = "report.json" /\ "report.json" \in FileNames
      /\ \A i \in 1 .. 4 : DataFiles[i] = "report.json" => i = 2
  <2>1. Move(r)
    BY DEF Write, Measured, Other, Move, Step
  <2>2. 2 \in 1 .. 4
    OBVIOUS
  <2>. QED
    BY <2>1, <2>2, KindsOfMoves, FilesOfARun DEF RunInv, TypeOK, ServerTypes
<1>2. CASE Measured(r)
  BY <1>1, <1>2 DEF Measured, NativeSucceeds, Goto, SeenMove, Move, Step, Report, server
<1>3. CASE Other(r)
  <2>1. Move(r) /\ UNCHANGED <<clock, server>> /\ pc'[r] # "infer"
    <3>1. Move(r) /\ UNCHANGED <<clock, server>>
      BY <1>3 DEF Other, Move, Step
    <3>2. \E stage \in Stages \ {"infer"} : pc' = [pc EXCEPT ![r] = stage]
      BY <1>3 DEF Other, Launch, Reject, Accept, Built, BuildFails, Discover, MakeDirectory,
         DirectoryFails, NativeFails, InferRaises, Inferred, WriteFails, Kill, Goto, End, Stages
    <3>3. pc \in [Runs -> Stages]
      BY DEF RunInv, TypeOK
    <3>. QED
      BY <3>1, <3>2, <3>3
  <2>2. \A d \in Dirs : Report(d)' = Report(d)
    <3>1. CASE \E note \in Notes : NativeFails(r, note)
      BY <1>1, <3>1, NativeFailsQuietly DEF Report
    <3>2. CASE ~\E note \in Notes : NativeFails(r, note)
      BY <1>3, <3>2, StepsAreQuiet DEF Other, Launch, Report
    <3>. QED
      BY <3>1, <3>2
  <2>. QED
    BY <1>1, <2>1, <2>2 DEF SeenMove, clock, server
<1>4. CASE Write(r)
  <2>1. Writes(r) /\ Move(r) /\ tick' = tick
    BY <1>4, FilesAreWritten DEF Write, Move, Step
  <2>2. PICK state \in {"partial", "full"} :
          /\ Put(r, DataFiles[nth[r]], state)
          /\ (state = "partial" /\ pc[r] = "open") \/ (state = "full" /\ pc[r] = "inside")
    BY <2>1 DEF Writes, Writing
  <2>3. PICK n \in 1 .. 4 : n = nth[r] /\ DataFiles[n] \in FileNames
    BY <1>1, FilesOfARun
  <2>4. /\ \A d \in Dirs : d # out[r] => Report(d)' = Report(d)
        /\ n # 2 => Report(out[r])' = Report(out[r])
        /\ n = 2 => Report(out[r])' = [state |-> state, run |-> r]
    BY <1>1, <2>2, <2>3 DEF Put, Report, RunInv, TypeOK
  <2>5. pc'[r] # "infer"
    BY <2>1 DEF Writes, Writing, RunInv, TypeOK
  <2>6. CASE Report(out[r])' = Report(out[r])
    <3>1. UNCHANGED <<stamp, server>>
      BY <1>1, <1>4, <2>6 DEF Write, Stamped, SeenByServer, Report
    <3>. QED
      BY <1>1, <2>1, <2>4, <2>5, <2>6, <3>1 DEF SeenMove, server
  <2>7. CASE Report(out[r])' # Report(out[r])
    <3>1. stamp' = [stamp EXCEPT ![out[r]] = tick] /\ Server!Becomes(out[r], ReportAt(out[r])')
      BY <1>1, <1>4, <2>7 DEF Write, Stamped, SeenByServer, Report
    <3>2. /\ steady' = [q \in Requests |-> steady[q] \ {out[r]}]
          /\ UNCHANGED <<serving, cache, todo, at, stat, listed, reply>>
      BY <3>1 DEF Server!Becomes, Server!local
    <3>3. /\ steady' \in [Requests -> SUBSET Dirs]
          /\ \A q \in Requests : steady'[q] \subseteq steady[q] /\ out[r] \notin steady'[q]
      BY <1>1, <3>2
    <3>4. Rewrites(r)
      BY <2>1, <2>2, <2>3, <2>4, <2>7, <3>1, <3>3 DEF Rewrites
    <3>. QED
      BY <1>1, <2>1, <2>4, <2>5, <3>2, <3>3, <3>4 DEF SeenMove
  <2>. QED
    BY <2>6, <2>7
<1>. QED
  BY <1>2, <1>3, <1>4

\* A report that stays has the owner it had.
LEMMA OwnedBefore ==
  ASSUME RunInv, NEW r \in Runs, SeenMove(r), NEW d \in Dirs, NEW q \in Runs,
         Report(d)' = Report(d), OwnedBy(d, q)'
  PROVE  OwnedBy(d, q)
<1>1. out' = out /\ pc[q] # "idle"
  BY KindsOfMoves, FilesOfARun DEF SeenMove, OwnedBy, Report, RunInv, OwnerInv
<1>2. LastAlone(q)
  BY <1>1, AloneBefore DEF SeenMove, OwnedBy
<1>. QED
  BY <1>1, <1>2 DEF OwnedBy

\* When the report is written anew, what was seen of the old one is older, or
\* was empty.
LEMMA SightKept ==
  ASSUME RunInv, OpenedInv, ServerTypes, NewerInv, NEW r \in Runs, SeenMove(r),
         NEW d \in Dirs, NEW s \in [stamp : Nat, size : Nat], Seen(d, s), NEW g
  PROVE  /\ s.stamp <= stamp'[d]
         /\ \A q \in Runs : OwnedBy(d, q)' /\ s.stamp = stamp'[d] =>
              /\ Report(d)'.state = "partial" => s.size = 0
              /\ Report(d)'.state = "full" /\ s.size = 1 /\ Told(d, s, g) => g = q
<1>1. /\ stamp \in [Dirs -> Nat] /\ tick \in Nat /\ stamp[d] <= tick /\ s.stamp <= stamp[d]
      /\ s.stamp \in Nat /\ s.size \in Nat /\ stamp[d] \in Nat /\ out[r] \in Dirs
      /\ DataFiles[2] = "report.json"
  BY FilesOfARun DEF ServerTypes, NewerInv, Seen, RunInv, TypeOK
<1>2. CASE Report(d)' = Report(d) /\ stamp'[d] = stamp[d]
  BY <1>1, <1>2, OwnedBefore DEF Seen, Told
<1>3. CASE d = out[r] /\ Rewrites(r)
  <2>1. stamp'[d] = tick /\ Report(d)'.run = r /\ nth[r] = 2 /\ pc[r] # "idle" /\ out' = out
    BY <1>1, <1>3 DEF Rewrites, Writes, Writing
  <2>2. ASSUME NEW q \in Runs, OwnedBy(d, q)'
        PROVE  q = r /\ LastAlone(r)
    BY <2>1, <2>2, AloneBefore DEF OwnedBy, SeenMove
  <2>3. CASE pc[r] = "open"
    <3>1. LastAlone(r) => stamp[d] < tick
      BY <1>3, <2>1, <2>3 DEF NewerInv
    <3>. QED
      BY <1>1, <2>1, <2>2, <3>1
  <2>4. CASE pc[r] = "inside" /\ Report(d)' = [state |-> "full", run |-> r]
    <3>1. LastAlone(r) => Report(d) = [state |-> "partial", run |-> r]
      BY <1>1, <1>3, <2>1, <2>4 DEF OpenedInv, Report
    <3>2. LastAlone(r) => OwnedBy(d, r) /\ Report(d).state = "partial"
      BY <1>3, <3>1 DEF OwnedBy
    <3>3. s.stamp = tick => s.stamp = stamp[d]
      BY <1>1
    <3>. QED
      BY <1>1, <2>1, <2>2, <2>4, <3>2, <3>3 DEF Seen
  <2>5. pc[r] = "open" \/ (pc[r] = "inside" /\ Report(d)' = [state |-> "full", run |-> r])
    BY <1>3, <2>1 DEF Rewrites, Report
  <2>. QED
    BY <2>3, <2>4, <2>5
<1>4. \/ Report(d)' = Report(d) /\ stamp'[d] = stamp[d]
      \/ d = out[r] /\ Rewrites(r)
  <2>1. out' = out
    BY KindsOfMoves DEF SeenMove
  <2>. QED
    BY <1>1, <2>1 DEF SeenMove, Rewrites, Report
<1>. QED
  BY <1>2, <1>3, <1>4

\* A run writes its report only after it has measured for a tick.
LEMMA MoveNewer ==
  ASSUME RunInv, ServerTypes, NewerInv, NEW r \in Runs, SeenMove(r)
  PROVE  NewerInv'
<1>1. /\ stamp \in [Dirs -> Nat] /\ tick \in Nat /\ out \in [Runs -> Dirs] /\ out' = out
      /\ pc \in [Runs -> Stages] /\ nth \in [Runs -> 1 .. 4]
  BY KindsOfMoves DEF SeenMove, RunInv, TypeOK, ServerTypes
<1>2. /\ \A d \in Dirs : stamp'[d] <= tick'
  BY <1>1 DEF SeenMove, Rewrites, NewerInv
<1>. SUFFICES ASSUME NEW q \in Runs, LastAlone(q)', nth'[q] <= 2,
                     pc'[q] \in {"infer", "open"} \/ (pc'[q] = "inside" /\ nth'[q] = 1)
     PROVE  stamp'[out[q]] < tick'
  BY <1>1, <1>2 DEF NewerInv
<1>3. stamp[out[q]] \in Nat /\ stamp[out[q]] <= tick
  BY <1>1 DEF NewerInv
<1>4. CASE tick' = tick + 1 /\ stamp' = stamp
  BY <1>1, <1>3, <1>4
<1>5. CASE tick' = tick
  <2>1. pc'[r] # "infer" /\ Move(r)
    BY <1>1, <1>5 DEF SeenMove
  <2>2. CASE q # r
    <3>1. pc'[q] = pc[q] /\ nth'[q] = nth[q]
      BY <1>1, <2>1, <2>2, KindsOfMoves DEF Launch, Quiet, Writes
    <3>2. LastAlone(q) /\ (Writes(r) => out[q] # out[r])
      BY <2>1, <2>2, AloneBefore
    <3>3. stamp[out[q]] < tick
      BY <3>1, <3>2 DEF NewerInv
    <3>4. stamp'[out[q]] = stamp[out[q]]
      BY <1>1, <3>2 DEF SeenMove, Rewrites
    <3>. QED
      BY <1>5, <3>3, <3>4
  <2>3. CASE q = r
    <3>1. /\ pc[r] \in {"infer", "open"} \/ (pc[r] = "inside" /\ nth[r] = 1)
          /\ nth[r] <= 2 /\ (pc[r] = "open" => nth[r] = 1)
      <4>1. CASE Launch(r)
        BY <1>1, <2>3, <4>1 DEF Launch
      <4>2. CASE Quiet(r)
        <5>1. nth' = nth /\ pc'[r] = "open" /\ pc[r] = "infer"
          BY <1>1, <2>1, <2>3, <4>2 DEF Quiet, Writing
        <5>. QED
          BY <2>3, <5>1
      <4>3. CASE Writes(r)
        BY <1>1, <2>3, <4>3 DEF Writes, Writing
      <4>. QED
        BY <2>1, <4>1, <4>2, <4>3, KindsOfMoves
    <3>2. LastAlone(r)
      BY <2>1, <2>3, <3>1, AloneBefore
    <3>3. stamp[out[r]] < tick
      BY <3>1, <3>2 DEF NewerInv
    <3>4. ~Rewrites(r)
      BY <1>1, <2>3, <3>1 DEF Rewrites
    <3>. QED
      BY <1>5, <2>3, <3>3, <3>4 DEF SeenMove
  <2>. QED
    BY <2>2, <2>3
<1>. QED
  BY <1>4, <1>5 DEF SeenMove

LEMMA MoveServer ==
  ASSUME RunInv, OpenedInv, ServerInv, NEW r \in Runs, SeenMove(r)
  PROVE  ServerInv'
<1>1. /\ UNCHANGED <<serving, cache, todo, at, stat, listed, reply>> /\ out' = out
      /\ steady' \in [Requests -> SUBSET Dirs]
      /\ \A q \in Requests : steady'[q] \subseteq steady[q]
      /\ ServerTypes /\ NewerInv /\ out \in [Runs -> Dirs]
  BY KindsOfMoves DEF SeenMove, ServerInv, RunInv, TypeOK
<1>2. /\ stamp' = stamp \/ (stamp' = [stamp EXCEPT ![out[r]] = tick] /\ Rewrites(r))
      /\ tick' = tick \/ tick' = tick + 1
      /\ stamp \in [Dirs -> Nat] /\ tick \in Nat /\ out[r] \in Dirs
      /\ \A d \in Dirs : Report(d)' = Report(d) \/ (d = out[r] /\ Rewrites(r))
  BY <1>1 DEF SeenMove, ServerTypes, Rewrites, Report
<1>types. ServerTypes'
  <2>1. stamp' \in [Dirs -> Nat] /\ tick' \in Nat
    BY <1>2
  <2>. QED
    BY <1>1, <2>1 DEF ServerTypes
<1>3. NewerInv' /\ VisitInv'
  BY <1>1, MoveNewer DEF ServerInv, VisitInv
<1>4. ASSUME NEW d \in Dirs, NEW q \in Requests, d \in steady'[q]
      PROVE  d \in steady[q] /\ Report(d)' = Report(d) /\ stamp'[d] = stamp[d]
  <2>1. ~(d = out[r] /\ Rewrites(r))
    BY <1>4 DEF Rewrites
  <2>. QED
    BY <1>1, <1>2, <1>4, <2>1
<1>5. ASSUME NEW d \in DOMAIN cache
      PROVE  Seen(d, cache[d])' /\ Told(d, cache[d], cache[d].gen)'
  <2>1. PICK e \in [stamp : Nat, size : Nat, gen : Runs] : e = cache[d]
    BY <1>1 DEF ServerTypes
  <2>2. PICK s \in [stamp : Nat, size : Nat] : s.stamp = e.stamp /\ s.size = e.size
    <3>. WITNESS [stamp |-> e.stamp, size |-> e.size] \in [stamp : Nat, size : Nat]
    <3>. QED
      OBVIOUS
  <2>3. d \in Dirs /\ Seen(d, s) /\ Told(d, s, e.gen) /\ cache' = cache
    BY <1>1, <2>1, <2>2 DEF ServerInv, SightInv, ServerTypes, Seen, Told
  <2>4. /\ s.stamp <= stamp'[d]
        /\ \A q \in Runs : OwnedBy(d, q)' /\ s.stamp = stamp'[d] =>
             /\ Report(d)'.state = "partial" => s.size = 0
             /\ Report(d)'.state = "full" /\ s.size = 1 /\ Told(d, s, e.gen) => e.gen = q
    BY <1>1, <2>3, SightKept
  <2>. QED
    BY <2>1, <2>2, <2>3, <2>4 DEF Seen, Told
<1>6. ASSUME NEW q \in Requests, serving[q] \in {"lookup", "read", "store"}
      PROVE  /\ Seen(at[q], stat[q])'
             /\ serving[q] = "store" =>
                  \A x \in listed[q] : x.path = at[q] => Told(at[q], stat[q], x.gen)'
  <2>1. PICK d \in Dirs, s \in [stamp : Nat, size : Nat] : d = at[q] /\ s = stat[q]
    BY <1>1, <1>6 DEF ServerInv, ServerTypes, VisitInv
  <2>2. Seen(d, s) /\ at' = at /\ stat' = stat
    BY <1>1, <1>6, <2>1 DEF ServerInv, SightInv
  <2>3. Seen(at[q], stat[q])'
    BY <1>1, <2>1, <2>2, SightKept DEF Seen
  <2>4. ASSUME serving[q] = "store", NEW x \in listed[q], x.path = at[q]
        PROVE  Told(at[q], stat[q], x.gen)'
    <3>1. Told(d, s, x.gen)
      BY <2>1, <2>4 DEF ServerInv, SightInv
    <3>2. \A p \in Runs : OwnedBy(d, p)' /\ s.stamp = stamp'[d] =>
            (Report(d)'.state = "full" /\ s.size = 1 /\ Told(d, s, x.gen) => x.gen = p)
      BY <1>1, <2>2, SightKept
    <3>. QED
      BY <2>1, <2>2, <3>1, <3>2 DEF Told
  <2>. QED
    BY <2>3, <2>4
<1>7. SightInv'
  BY <1>1, <1>5, <1>6 DEF SightInv
<1>8. StillInv'
  <2>1. \A q \in Requests : steady[q] \subseteq Dirs /\ steady'[q] \subseteq Dirs
    BY <1>1 DEF ServerTypes
  <2>. QED
    BY <1>1, <1>4, <2>1 DEF ServerInv, StillInv
<1>9. ShownInv'
  <2>. SUFFICES ASSUME NEW q \in Requests, NEW p \in Runs, serving[q] # "idle",
                       out[p] \in steady'[q], Whole(p)'
       PROVE  out[p] \in steady[q] /\ Whole(p)
    BY <1>1 DEF ServerInv, ShownInv
  <2>1. PICK d \in Dirs : d = out[p]
    BY <1>1
  <2>2. d \in steady[q] /\ Report(d)' = Report(d)
    BY <1>4, <2>1
  <2>3. OwnedBy(d, p)'
    BY <1>1, <2>1 DEF OwnedBy, Whole, FullBy, Report
  <2>4. OwnedBy(d, p)
    BY <2>2, <2>3, OwnedBefore
  <2>. QED
    BY <1>1, <2>1, <2>2, <2>4 DEF OwnedBy, Whole, FullBy, Report
<1>. QED
  BY <1>types, <1>3, <1>7, <1>8, <1>9 DEF ServerInv

--------------------------------------------------------------------------------
(* The steps of the server. *)

Existing == {d \in Dirs : Report(d) # Absent}
Readable == {d \in Dirs : Report(d).state = "full"}
Stated(d) == [stamp |-> stamp[d], size |-> IF Report(d).state = "full" THEN 1 ELSE 0]

\* The directory as the server sees it.
LEMMA AsServed ==
  ASSUME RunInv
  PROVE  /\ Server!Existing = Existing /\ Server!Sound = Readable
         /\ Readable \subseteq Existing
         /\ \A d \in Existing :
              /\ Report(d).run \in Runs /\ Report(d).state \in {"partial", "full"}
              /\ Server!Full(d) <=> d \in Readable
              /\ Server!StatOf(d) = Stated(d)
              /\ Server!Content(d) = [path |-> d, gen |-> Report(d).run]
         /\ \A d \in Dirs \ Existing : ~Server!Full(d)
<1>1. ASSUME NEW d \in Dirs
      PROVE  Report(d) \in {Absent} \cup [state : {"partial", "full"}, run : Runs]
  BY <1>1, FilesOfARun DEF Report, RunInv, TypeOK
<1>2. ASSUME NEW d \in Dirs
      PROVE  /\ Report(d) = Absent => ReportAt(d) = Server!Absent
             /\ Report(d) # Absent => ReportAt(d) = [state |-> Report(d).state,
                                           gen |-> Report(d).run, stamp |-> stamp[d]]
  BY <1>2 DEF Report, ReportAt, Server!Absent
<1>3. \A d \in Dirs : Server!Full(d) <=> d \in Readable
  BY <1>1, <1>2 DEF Server!Full, Readable, Server!Absent
<1>4. Server!Existing = Existing
  BY <1>1, <1>2 DEF Server!Existing, Existing, Server!Absent
<1>5. Server!Sound = Readable
  BY <1>3 DEF Server!Sound, Readable
<1>6. Readable \subseteq Existing
  BY DEF Readable, Existing
<1>7. ASSUME NEW d \in Existing
      PROVE  /\ Report(d).run \in Runs /\ Report(d).state \in {"partial", "full"}
             /\ Server!StatOf(d) = Stated(d)
             /\ Server!Content(d) = [path |-> d, gen |-> Report(d).run]
  BY <1>1, <1>2, <1>3 DEF Server!StatOf, Server!Content, Stated, Existing, Readable
<1>. QED
  BY <1>3, <1>4, <1>5, <1>6, <1>7 DEF Existing

\* The steps of a request, in these terms.
Asks(q) ==
  /\ serving[q] = "idle" /\ serving' = [serving EXCEPT ![q] = "next"]
  /\ todo' = [todo EXCEPT ![q] = Existing]
  /\ steady' = [steady EXCEPT ![q] = Readable]
  /\ UNCHANGED <<cache, at, stat, listed, reply>>

Passes(q) ==
  /\ serving[q] = "next"
  /\ \E d \in todo[q] \ Existing : todo' = [todo EXCEPT ![q] = @ \ {d}]
  /\ UNCHANGED <<serving, cache, at, stat, listed, reply, steady>>

Stats(q) ==
  /\ serving[q] = "next" /\ serving' = [serving EXCEPT ![q] = "lookup"]
  /\ \E d \in todo[q] \cap Existing :
       /\ todo' = [todo EXCEPT ![q] = @ \ {d}]
       /\ at' = [at EXCEPT ![q] = d] /\ stat' = [stat EXCEPT ![q] = Stated(d)]
  /\ UNCHANGED <<cache, listed, reply, steady>>

Hits(q) ==
  /\ serving[q] = "lookup" /\ serving' = [serving EXCEPT ![q] = "next"]
  /\ at[q] \in DOMAIN cache
  /\ cache[at[q]].stamp = stat[q].stamp /\ cache[at[q]].size = stat[q].size
  /\ listed' = [listed EXCEPT ![q] = @ \cup {[path |-> at[q], gen |-> cache[at[q]].gen]}]
  /\ UNCHANGED <<cache, todo, at, stat, reply, steady>>

Misses(q) ==
  /\ \/ serving[q] = "lookup" /\ serving' = [serving EXCEPT ![q] = "read"]
     \/ /\ serving[q] = "read" /\ serving' = [serving EXCEPT ![q] = "next"]
        /\ at[q] \notin Readable
  /\ UNCHANGED <<cache, todo, at, stat, listed, reply, steady>>

Reads(q) ==
  /\ serving[q] = "read" /\ serving' = [serving EXCEPT ![q] = "store"]
  /\ at[q] \in Readable
  /\ listed' = [listed EXCEPT ![q] = @ \cup {[path |-> at[q], gen |-> Report(at[q]).run]}]
  /\ UNCHANGED <<cache, todo, at, stat, reply, steady>>

Stores(q) ==
  /\ serving[q] = "store" /\ serving' = [serving EXCEPT ![q] = "next"]
  /\ \E x \in listed[q] :
       /\ x.path = at[q]
       /\ cache' = [d \in DOMAIN cache \cup {at[q]} |->
                     IF d = at[q]
                     THEN [stamp |-> stat[q].stamp, size |-> stat[q].size, gen |-> x.gen]
                     ELSE cache[d]]
  /\ UNCHANGED <<todo, at, stat, listed, reply, steady>>

Answers(q) ==
  /\ serving[q] = "next" /\ todo[q] = {} /\ serving' = [serving EXCEPT ![q] = "done"]
  /\ \E D \in SUBSET DOMAIN cache : cache' = [d \in D |-> cache[d]]
  /\ reply' = [reply EXCEPT ![q] = listed[q]]
  /\ UNCHANGED <<todo, at, stat, listed, steady>>

LEMMA StepsOfARequest ==
  ASSUME RunInv, ServerTypes, VisitInv, NEW q \in Requests, Serve(q)
  PROVE  /\ UNCHANGED <<vars, clock>>
         /\ \/ Asks(q) \/ Passes(q) \/ Stats(q) \/ Hits(q)
            \/ Misses(q) \/ Reads(q) \/ Stores(q) \/ Answers(q)
<1>. SUFFICES \/ Asks(q) \/ Passes(q) \/ Stats(q) \/ Hits(q)
              \/ Misses(q) \/ Reads(q) \/ Stores(q) \/ Answers(q)
  BY DEF Serve
<1>1. /\ serving \in [Requests -> Busy \cup {"idle", "done"}]
      /\ serving[q] \in {"lookup", "read", "store"} => at[q] \in Dirs
      /\ todo[q] \subseteq Dirs
  BY DEF ServerTypes, VisitInv
<1>2. CASE Server!ListRequest(q)
  BY <1>2, AsServed DEF Server!ListRequest, Server!Arrive, Asks
<1>3. ASSUME NEW d \in Dirs, Server!Stat(q, d)
      PROVE  Passes(q) \/ Stats(q)
  BY <1>3, AsServed DEF Server!Stat, Server!Existing, Server!history, Passes, Stats
<1>4. CASE Server!LookupHit(q)
  BY <1>4 DEF Server!LookupHit, Server!Fresh, Server!history, Hits
<1>5. CASE Server!LookupMiss(q)
  BY <1>5 DEF Server!LookupMiss, Server!local, Server!history, Misses
<1>6. CASE Server!ReadFails(q)
  BY <1>1, <1>6, AsServed DEF Server!ReadFails, Server!local, Server!history, Misses, Existing
<1>7. ~Server!ReadWrongShape(q)
  BY DEF Server!ReadWrongShape
<1>8. CASE Server!ReadReport(q)
  BY <1>1, <1>8, AsServed DEF Server!ReadReport, Server!history, Reads
<1>9. CASE Server!Store(q)
  <2>1. PICK x : x = CHOOSE i \in listed[q] : i.path = at[q]
    OBVIOUS
  <2>2. x \in listed[q] /\ x.path = at[q]
    BY <1>9, <2>1 DEF Server!Store, VisitInv
  <2>3. Server!CacheEntry(q) = [stamp |-> stat[q].stamp, size |-> stat[q].size, gen |-> x.gen]
    BY <2>1 DEF Server!CacheEntry
  <2>. QED
    BY <1>9, <2>2, <2>3 DEF Server!Store, Server!local, Server!history, Stores
<1>10. CASE Server!EvictAndReply(q)
  BY <1>10 DEF Server!EvictAndReply, Server!local, Server!history, Answers
<1>11. ~Server!Load(q)
  BY <1>1 DEF Server!Load, Busy
<1>. QED
  BY <1>2, <1>3, <1>4, <1>5, <1>6, <1>7, <1>8, <1>9, <1>10, <1>11 DEF Serve, Server!Handle

LEMMA SameSight ==
  ASSUME UNCHANGED <<vars, clock>>
  PROVE  /\ NewerInv' <=> NewerInv
         /\ \A d : Report(d)' = Report(d)
         /\ \A d, s : Seen(d, s)' <=> Seen(d, s)
         /\ \A d, s, g : Told(d, s, g)' <=> Told(d, s, g)
         /\ \A r : Whole(r)' <=> Whole(r)
         /\ stamp' = stamp /\ tick' = tick /\ out' = out
<1>1. /\ stamp' = stamp /\ tick' = tick /\ out' = out /\ pc' = pc /\ nth' = nth
      /\ before' = before /\ disk' = disk
  BY DEF vars, clock
<1>2. /\ \A r : LastAlone(r)' <=> LastAlone(r)
      /\ \A d : Report(d)' = Report(d)
  BY <1>1 DEF LastAlone, Report
<1>3. \A d, r : OwnedBy(d, r)' <=> OwnedBy(d, r)
  BY <1>1, <1>2 DEF OwnedBy
<1>. QED
  BY <1>1, <1>2, <1>3 DEF NewerInv, Seen, Told, Whole, FullBy

\* What stat returns and what a reader finds is what is there.
LEMMA FreshSight ==
  ASSUME RunInv, ServerTypes
  PROVE  /\ \A d \in Existing : Seen(d, Stated(d)) /\ Stated(d) \in [stamp : Nat, size : Nat]
         /\ \A d, s : Told(d, s, Report(d).run)
         /\ \A r \in Runs : Whole(r) => /\ out[r] \in Readable /\ out[r] \in Existing
                                       /\ OwnedBy(out[r], r) /\ Report(out[r]).run = r
<1>1. ASSUME NEW d \in Existing
      PROVE  Seen(d, Stated(d)) /\ Stated(d) \in [stamp : Nat, size : Nat]
  <2>1. stamp[d] \in Nat
    BY <1>1 DEF Existing, ServerTypes
  <2>. QED
    BY <2>1 DEF Seen, Stated
<1>2. \A d, s : Told(d, s, Report(d).run)
  BY DEF Told, OwnedBy
<1>3. ASSUME NEW r \in Runs, Whole(r)
      PROVE  /\ out[r] \in Readable /\ out[r] \in Existing
             /\ OwnedBy(out[r], r) /\ Report(out[r]).run = r
  <2>1. out[r] \in Dirs /\ Report(out[r]) = [state |-> "full", run |-> r] /\ LastAlone(r)
    BY <1>3 DEF Whole, FullBy, Report, RunInv, TypeOK
  <2>. QED
    BY <2>1 DEF Readable, Existing, OwnedBy
<1>. QED
  BY <1>1, <1>2, <1>3

\* A request begins: all that is complete is still to be visited.
LEMMA AsksServer ==
  ASSUME RunInv, ServerInv, NEW q \in Requests, UNCHANGED <<vars, clock>>, Asks(q)
  PROVE  ServerInv'
<1>1. /\ serving \in [Requests -> Busy \cup {"idle", "done"}] /\ serving[q] = "idle"
      /\ serving' = [serving EXCEPT ![q] = "next"]
      /\ todo \in [Requests -> SUBSET Dirs] /\ todo' = [todo EXCEPT ![q] = Existing]
      /\ steady \in [Requests -> SUBSET Dirs] /\ steady' = [steady EXCEPT ![q] = Readable]
      /\ UNCHANGED <<cache, at, stat, listed, reply>>
      /\ Existing \subseteq Dirs /\ Readable \subseteq Dirs
  BY DEF Asks, ServerInv, ServerTypes, Existing, Readable
<1>2. /\ serving' \in [Requests -> Busy \cup {"idle", "done"}]
      /\ todo' \in [Requests -> SUBSET Dirs] /\ steady' \in [Requests -> SUBSET Dirs]
  BY <1>1 DEF Busy
<1>3. ServerTypes' /\ NewerInv'
  BY <1>1, <1>2, SameSight DEF ServerInv, ServerTypes
<1>4. SightInv'
  BY <1>1, SameSight DEF ServerInv, SightInv
<1>5. VisitInv'
  BY <1>1 DEF ServerInv, VisitInv
<1>6. StillInv'
  BY <1>1, SameSight DEF ServerInv, StillInv, Readable
<1>7. ShownInv'
  BY <1>1, SameSight, FreshSight DEF ServerInv, ShownInv, Busy
<1>. QED
  BY <1>3, <1>4, <1>5, <1>6, <1>7 DEF ServerInv

\* A directory whose report is gone is passed over.
LEMMA PassesServer ==
  ASSUME RunInv, ServerInv, NEW q \in Requests, UNCHANGED <<vars, clock>>, Passes(q)
  PROVE  ServerInv'
<1>1. PICK d \in todo[q] \ Existing :
        /\ serving[q] = "next" /\ todo' = [todo EXCEPT ![q] = @ \ {d}]
        /\ todo \in [Requests -> SUBSET Dirs]
        /\ UNCHANGED <<serving, cache, at, stat, listed, reply, steady>>
  BY DEF Passes, ServerInv, ServerTypes
<1>2. /\ todo' \in [Requests -> SUBSET Dirs]
      /\ \A p \in Requests : todo'[p] \subseteq todo[p]
      /\ \A p \in Requests, e \in Dirs : e \in todo[p] => e \in todo'[p] \/ e = d
  BY <1>1
<1>3. ServerTypes' /\ NewerInv'
  BY <1>1, <1>2, SameSight DEF ServerInv, ServerTypes
<1>4. SightInv' /\ StillInv'
  BY <1>1, SameSight DEF ServerInv, SightInv, StillInv
<1>5. VisitInv'
  BY <1>1, <1>2 DEF ServerInv, VisitInv
<1>6. ShownInv'
  BY <1>1, <1>2, SameSight, FreshSight DEF ServerInv, ShownInv
<1>. QED
  BY <1>3, <1>4, <1>5, <1>6 DEF ServerInv

LEMMA StatsServer ==
  ASSUME RunInv, ServerInv, NEW q \in Requests, UNCHANGED <<vars, clock>>, Stats(q)
  PROVE  ServerInv'
<1>1. PICK d \in todo[q] \cap Existing :
        /\ serving[q] = "next" /\ serving' = [serving EXCEPT ![q] = "lookup"]
        /\ todo' = [todo EXCEPT ![q] = @ \ {d}]
        /\ at' = [at EXCEPT ![q] = d] /\ stat' = [stat EXCEPT ![q] = Stated(d)]
        /\ UNCHANGED <<cache, listed, reply, steady>>
  BY DEF Stats
<1>2. /\ serving \in [Requests -> Busy \cup {"idle", "done"}]
      /\ todo \in [Requests -> SUBSET Dirs] /\ at \in [Requests -> Dirs \cup {"no path"}]
      /\ stat \in [Requests -> [stamp : Nat, size : Nat]]
      /\ d \in Dirs /\ Seen(d, Stated(d)) /\ Stated(d) \in [stamp : Nat, size : Nat]
  BY <1>1, FreshSight DEF ServerInv, ServerTypes, Existing
<1>3. ServerTypes' /\ NewerInv'
  <2>1. /\ serving' \in [Requests -> Busy \cup {"idle", "done"}]
        /\ todo' \in [Requests -> SUBSET Dirs] /\ at' \in [Requests -> Dirs \cup {"no path"}]
        /\ stat' \in [Requests -> [stamp : Nat, size : Nat]]
    BY <1>1, <1>2 DEF Busy
  <2>. QED
    BY <1>1, <2>1, SameSight DEF ServerInv, ServerTypes
<1>4. /\ serving'[q] = "lookup" /\ todo'[q] = todo[q] \ {d} /\ at'[q] = d /\ stat'[q] = Stated(d)
      /\ \A p \in Requests : p # q => /\ serving'[p] = serving[p] /\ todo'[p] = todo[p]
                                     /\ at'[p] = at[p] /\ stat'[p] = stat[p]
      /\ serving[q] = "next" /\ d \in todo[q] /\ d \in Dirs /\ Seen(d, Stated(d))
      /\ UNCHANGED <<cache, listed, reply, steady>>
  BY <1>1, <1>2
<1>5. SightInv'
  BY <1>4, SameSight DEF ServerInv, SightInv
<1>6. VisitInv'
  BY <1>4 DEF ServerInv, VisitInv
<1>7. StillInv'
  <2>1. d \in steady[q] => stat'[q].stamp = stamp'[d] /\ stat'[q].size = 1
    BY <1>4, SameSight DEF ServerInv, StillInv, Stated
  <2>. QED
    BY <1>4, <2>1, SameSight DEF ServerInv, StillInv
<1>8. ShownInv'
  <2>. SUFFICES ASSUME NEW p \in Requests, NEW r \in Runs, serving'[p] # "idle",
                       out[r] \in steady[p], Whole(r)
       PROVE  \/ serving'[p] \in Busy /\ out[r] \in todo'[p]
              \/ serving'[p] \in {"lookup", "read"} /\ out[r] = at'[p]
              \/ serving'[p] \in Busy /\ [path |-> out[r], gen |-> r] \in listed[p]
              \/ serving'[p] = "done" /\ [path |-> out[r], gen |-> r] \in reply[p]
    BY <1>4, SameSight DEF ShownInv
  <2>1. CASE p = q
    BY <1>4, <2>1 DEF ServerInv, ShownInv, Busy
  <2>2. CASE p # q
    BY <1>4, <2>2 DEF ServerInv, ShownInv
  <2>. QED
    BY <2>1, <2>2
<1>. QED
  BY <1>3, <1>5, <1>6, <1>7, <1>8 DEF ServerInv

\* The summary of the directory a request is at joins its list.
Adds(q, g) ==
  /\ serving[q] \in {"lookup", "read"} /\ g \in Runs
  /\ listed' = [listed EXCEPT ![q] = @ \cup {[path |-> at[q], gen |-> g]}]
  /\ \/ serving' = [serving EXCEPT ![q] = "next"]
     \/ serving' = [serving EXCEPT ![q] = "store"] /\ Told(at[q], stat[q], g)
  /\ \A r \in Runs : Whole(r) /\ at[q] \in steady[q] /\ out[r] = at[q] => g = r
  /\ UNCHANGED <<cache, todo, at, stat, reply, steady>>

LEMMA AddsServer ==
  ASSUME RunInv, ServerInv, NEW q \in Requests, UNCHANGED <<vars, clock>>,
         NEW g, Adds(q, g)
  PROVE  ServerInv'
<1>1. PICK d \in Dirs, stage \in {"next", "store"}, x \in [path : Dirs, gen : Runs] :
        /\ d = at[q] /\ x.path = d /\ x.gen = g /\ x = [path |-> d, gen |-> g]
        /\ serving[q] \in {"lookup", "read"} /\ serving' = [serving EXCEPT ![q] = stage]
        /\ listed' = [listed EXCEPT ![q] = @ \cup {x}]
        /\ stage = "store" => Told(d, stat[q], g)
        /\ \A r \in Runs : Whole(r) /\ d \in steady[q] /\ out[r] = d => g = r
        /\ UNCHANGED <<cache, todo, at, stat, reply, steady>>
  <2>1. at[q] \in Dirs /\ g \in Runs
    BY DEF Adds, ServerInv, VisitInv
  <2>2. [path |-> at[q], gen |-> g] \in [path : Dirs, gen : Runs]
    BY <2>1
  <2>3. PICK stage \in {"next", "store"} :
          /\ serving' = [serving EXCEPT ![q] = stage]
          /\ stage = "store" => Told(at[q], stat[q], g)
    BY DEF Adds
  <2>. QED
    BY <2>1, <2>2, <2>3 DEF Adds
<1>2. /\ serving \in [Requests -> Busy \cup {"idle", "done"}]
      /\ listed \in [Requests -> SUBSET [path : Dirs, gen : Runs]]
  BY DEF ServerInv, ServerTypes
<1>3. ServerTypes' /\ NewerInv'
  <2>1. /\ serving' \in [Requests -> Busy \cup {"idle", "done"}]
        /\ listed' \in [Requests -> SUBSET [path : Dirs, gen : Runs]]
    BY <1>1, <1>2 DEF Busy
  <2>. QED
    BY <1>1, <2>1, SameSight DEF ServerInv, ServerTypes
<1>4. /\ serving'[q] = stage /\ listed'[q] = listed[q] \cup {x}
      /\ \A p \in Requests : p # q => serving'[p] = serving[p] /\ listed'[p] = listed[p]
      /\ d = at[q] /\ x.path = d /\ x.gen = g /\ serving[q] \in {"lookup", "read"}
      /\ stage = "store" => Told(d, stat[q], g)
      /\ UNCHANGED <<cache, todo, at, stat, reply, steady>>
  BY <1>1, <1>2
<1>5. d \notin todo[q] /\ \A y \in listed[q] : y.path # d
  BY <1>4 DEF ServerInv, VisitInv
<1>6. SightInv'
  <2>1. stage = "store" =>
          /\ Seen(at[q], stat[q])'
          /\ \A y \in listed'[q] : y.path = at'[q] => Told(at[q], stat[q], y.gen)'
    BY <1>4, <1>5, SameSight DEF ServerInv, SightInv
  <2>2. stage \in {"next", "store"}
    OBVIOUS
  <2>. QED
    BY <1>4, <2>1, <2>2, SameSight DEF ServerInv, SightInv
<1>7. VisitInv'
  <2>. SUFFICES ASSUME NEW p \in Requests
       PROVE  /\ serving'[p] = "idle" => listed'[p] = {}
              /\ serving'[p] \in {"lookup", "read", "store"} => at[p] \in Dirs \ todo[p]
              /\ serving'[p] = "store" => \E y \in listed'[p] : y.path = at[p]
              /\ \A y, z \in listed'[p] : y.path = z.path => y = z
              /\ \A y \in listed'[p] :
                   /\ y.path \notin todo[p]
                   /\ serving'[p] \in {"lookup", "read"} => y.path # at[p]
    BY <1>4 DEF VisitInv
  <2>1. CASE p = q
    <3>1. \A y, z \in listed[q] : y.path = z.path => y = z
      BY DEF ServerInv, VisitInv
    <3>2. \A y, z \in listed'[q] : y.path = z.path => y = z
      BY <1>4, <1>5, <3>1
    <3>3. \A y \in listed'[q] : y.path \notin todo[q]
      BY <1>4, <1>5 DEF ServerInv, VisitInv
    <3>. QED
      BY <1>4, <1>5, <2>1, <3>2, <3>3
  <2>2. CASE p # q
    BY <1>4, <2>2 DEF ServerInv, VisitInv
  <2>. QED
    BY <2>1, <2>2
<1>8. StillInv'
  BY <1>4, SameSight DEF ServerInv, StillInv
<1>9. ShownInv'
  <2>. SUFFICES ASSUME NEW p \in Requests, NEW r \in Runs, serving'[p] # "idle",
                       out[r] \in steady[p], Whole(r)
       PROVE  \/ serving'[p] \in Busy /\ out[r] \in todo[p]
              \/ serving'[p] \in {"lookup", "read"} /\ out[r] = at[p]
              \/ serving'[p] \in Busy /\ [path |-> out[r], gen |-> r] \in listed'[p]
              \/ serving'[p] = "done" /\ [path |-> out[r], gen |-> r] \in reply[p]
    BY <1>4, SameSight DEF ShownInv
  <2>1. CASE p = q
    <3>1. serving'[p] \in Busy
      BY <1>4, <2>1 DEF Busy
    <3>2. out[r] = d => [path |-> out[r], gen |-> r] \in listed'[p]
      BY <1>1, <1>4, <2>1
    <3>. QED
      BY <1>4, <2>1, <3>1, <3>2 DEF ServerInv, ShownInv
  <2>2. CASE p # q
    BY <1>4, <2>2 DEF ServerInv, ShownInv
  <2>. QED
    BY <2>1, <2>2
<1>. QED
  BY <1>3, <1>6, <1>7, <1>8, <1>9 DEF ServerInv

\* A cached summary that agrees with the stat, and one that is read, are those
\* of the run the report is by.
LEMMA HitsAndReadsAdd ==
  ASSUME RunInv, ServerInv, NEW q \in Requests, Hits(q) \/ Reads(q)
  PROVE  \E g : Adds(q, g)
<1>1. at[q] \in Dirs /\ Seen(at[q], stat[q])
  BY DEF Hits, Reads, ServerInv, VisitInv, SightInv
<1>2. CASE Hits(q)
  <2>1. cache[at[q]].gen \in Runs /\ Told(at[q], cache[at[q]], cache[at[q]].gen)
    BY <1>2 DEF Hits, ServerInv, ServerTypes, SightInv
  <2>2. ASSUME NEW r \in Runs, Whole(r), at[q] \in steady[q], out[r] = at[q]
        PROVE  cache[at[q]].gen = r
    <3>1. OwnedBy(at[q], r) /\ Report(at[q]).state = "full"
      BY <2>2, FreshSight DEF ServerInv, Readable
    <3>2. cache[at[q]].stamp = stamp[at[q]] /\ cache[at[q]].size = 1
      BY <1>2, <2>2 DEF Hits, ServerInv, StillInv
    <3>. QED
      BY <2>1, <3>1, <3>2 DEF Told
  <2>. QED
    BY <1>2, <2>1, <2>2 DEF Hits, Adds
<1>3. CASE Reads(q)
  <2>1. Report(at[q]).run \in Runs /\ Told(at[q], stat[q], Report(at[q]).run)
    BY <1>3, AsServed, FreshSight DEF Reads, ServerInv
  <2>2. ASSUME NEW r \in Runs, Whole(r), out[r] = at[q]
        PROVE  Report(at[q]).run = r
    BY <2>2, FreshSight DEF ServerInv
  <2>. QED
    BY <1>3, <2>1, <2>2 DEF Reads, Adds
<1>. QED
  BY <1>2, <1>3

LEMMA MissesServer ==
  ASSUME RunInv, ServerInv, NEW q \in Requests, UNCHANGED <<vars, clock>>, Misses(q)
  PROVE  ServerInv'
<1>1. PICK stage \in {"read", "next"} :
        /\ serving' = [serving EXCEPT ![q] = stage]
        /\ stage = "read" => serving[q] = "lookup"
        /\ stage = "next" => serving[q] = "read" /\ at[q] \notin Readable
        /\ UNCHANGED <<cache, todo, at, stat, listed, reply, steady>>
  BY DEF Misses
<1>2. serving \in [Requests -> Busy \cup {"idle", "done"}]
  BY DEF ServerInv, ServerTypes
<1>3. ServerTypes' /\ NewerInv'
  <2>1. serving' \in [Requests -> Busy \cup {"idle", "done"}]
    BY <1>1, <1>2 DEF Busy
  <2>. QED
    BY <1>1, <2>1, SameSight DEF ServerInv, ServerTypes
<1>4. /\ serving'[q] = stage /\ \A p \in Requests : p # q => serving'[p] = serving[p]
      /\ stage \in {"read", "next"} /\ serving[q] \in {"lookup", "read"}
      /\ stage = "read" => serving[q] = "lookup"
      /\ stage = "next" => at[q] \notin Readable
      /\ UNCHANGED <<cache, todo, at, stat, listed, reply, steady>>
  BY <1>1, <1>2
<1>5. SightInv'
  BY <1>4, SameSight DEF ServerInv, SightInv
<1>6. VisitInv'
  BY <1>4 DEF ServerInv, VisitInv
<1>7. StillInv'
  BY <1>4, SameSight DEF ServerInv, StillInv
<1>8. ShownInv'
  <2>. SUFFICES ASSUME NEW p \in Requests, NEW r \in Runs, serving'[p] # "idle",
                       out[r] \in steady[p], Whole(r)
       PROVE  \/ serving'[p] \in Busy /\ out[r] \in todo[p]
              \/ serving'[p] \in {"lookup", "read"} /\ out[r] = at[p]
              \/ serving'[p] \in Busy /\ [path |-> out[r], gen |-> r] \in listed[p]
              \/ serving'[p] = "done" /\ [path |-> out[r], gen |-> r] \in reply[p]
    BY <1>4, SameSight DEF ShownInv
  <2>1. CASE p = q
    <3>1. stage = "next" => out[r] # at[q]
      BY <1>4, FreshSight DEF ServerInv
    <3>. QED
      BY <1>4, <2>1, <3>1 DEF ServerInv, ShownInv, Busy
  <2>2. CASE p # q
    BY <1>4, <2>2 DEF ServerInv, ShownInv
  <2>. QED
    BY <2>1, <2>2
<1>. QED
  BY <1>3, <1>5, <1>6, <1>7, <1>8 DEF ServerInv

\* What goes into the cache was seen, and told of what was seen.
LEMMA StoresServer ==
  ASSUME RunInv, ServerInv, NEW q \in Requests, UNCHANGED <<vars, clock>>, Stores(q)
  PROVE  ServerInv'
<1>1. PICK x \in listed[q], e \in [stamp : Nat, size : Nat, gen : Runs] :
        /\ x.path = at[q] /\ e = [stamp |-> stat[q].stamp, size |-> stat[q].size, gen |-> x.gen]
        /\ cache' = [d \in DOMAIN cache \cup {at[q]} |-> IF d = at[q] THEN e ELSE cache[d]]
  <2>1. PICK x \in listed[q] :
          /\ x.path = at[q]
          /\ cache' = [d \in DOMAIN cache \cup {at[q]} |->
               IF d = at[q]
               THEN [stamp |-> stat[q].stamp, size |-> stat[q].size, gen |-> x.gen]
               ELSE cache[d]]
    BY DEF Stores
  <2>2. x.gen \in Runs /\ stat[q] \in [stamp : Nat, size : Nat]
    <3>1. /\ listed \in [Requests -> SUBSET [path : Dirs, gen : Runs]]
          /\ stat \in [Requests -> [stamp : Nat, size : Nat]]
      BY DEF ServerInv, ServerTypes
    <3>2. x \in [path : Dirs, gen : Runs]
      BY <3>1
    <3>. QED
      BY <3>1, <3>2
  <2>3. [stamp |-> stat[q].stamp, size |-> stat[q].size, gen |-> x.gen]
          \in [stamp : Nat, size : Nat, gen : Runs]
    BY <2>2
  <2>. QED
    BY <2>1, <2>3
<1>2. PICK d \in Dirs : d = at[q]
  BY DEF Stores, ServerInv, VisitInv
<1>3. /\ DOMAIN cache' = DOMAIN cache \cup {d} /\ cache'[d] = e
      /\ \A c \in DOMAIN cache : c # d => cache'[c] = cache[c]
      /\ serving[q] = "store" /\ serving' = [serving EXCEPT ![q] = "next"]
      /\ serving \in [Requests -> Busy \cup {"idle", "done"}]
      /\ UNCHANGED <<todo, at, stat, listed, reply, steady>>
  BY <1>1, <1>2 DEF Stores, ServerInv, ServerTypes
<1>4. ServerTypes' /\ NewerInv'
  <2>1. serving' \in [Requests -> Busy \cup {"idle", "done"}]
    BY <1>3 DEF Busy
  <2>2. DOMAIN cache' \subseteq Dirs
        /\ \A c \in DOMAIN cache' : cache'[c] \in [stamp : Nat, size : Nat, gen : Runs]
    BY <1>3 DEF ServerInv, ServerTypes
  <2>. QED
    BY <1>3, <2>1, <2>2, SameSight DEF ServerInv, ServerTypes
<1>5. /\ serving'[q] = "next" /\ \A p \in Requests : p # q => serving'[p] = serving[p]
  BY <1>3
<1>6. SightInv'
  <2>1. Seen(d, e) /\ Told(d, e, e.gen)
    <3>1. Seen(d, stat[q]) /\ Told(d, stat[q], x.gen)
      BY <1>1, <1>2, <1>3 DEF ServerInv, SightInv
    <3>2. e.stamp = stat[q].stamp /\ e.size = stat[q].size /\ e.gen = x.gen
      BY <1>1
    <3>. QED
      BY <3>1, <3>2 DEF Seen, Told
  <2>2. \A c \in DOMAIN cache : Seen(c, cache[c]) /\ Told(c, cache[c], cache[c].gen)
    BY DEF ServerInv, SightInv
  <2>3. \A c \in DOMAIN cache' : Seen(c, cache'[c]) /\ Told(c, cache'[c], cache'[c].gen)
    BY <1>3, <2>1, <2>2
  <2>4. \A c \in DOMAIN cache' : Seen(c, cache[c])' /\ Told(c, cache[c], cache[c].gen)'
    BY <2>3, SameSight
  <2>. QED
    BY <1>3, <1>5, <2>4, SameSight DEF ServerInv, SightInv
<1>7. VisitInv'
  BY <1>3, <1>5 DEF ServerInv, VisitInv
<1>8. StillInv'
  BY <1>3, <1>5, SameSight DEF ServerInv, StillInv
<1>9. ShownInv'
  BY <1>3, <1>5, SameSight DEF ServerInv, ShownInv, Busy
<1>. QED
  BY <1>4, <1>6, <1>7, <1>8, <1>9 DEF ServerInv

LEMMA AnswersServer ==
  ASSUME RunInv, ServerInv, NEW q \in Requests, UNCHANGED <<vars, clock>>, Answers(q)
  PROVE  ServerInv'
<1>1. /\ serving[q] = "next" /\ todo[q] = {}
      /\ serving' = [serving EXCEPT ![q] = "done"]
      /\ reply' = [reply EXCEPT ![q] = listed[q]]
      /\ serving \in [Requests -> Busy \cup {"idle", "done"}]
      /\ reply \in [Requests -> SUBSET [path : Dirs, gen : Runs]]
      /\ listed[q] \in SUBSET [path : Dirs, gen : Runs]
      /\ UNCHANGED <<todo, at, stat, listed, steady>>
  BY DEF Answers, ServerInv, ServerTypes
<1>2. DOMAIN cache' \subseteq DOMAIN cache /\ \A d \in DOMAIN cache' : cache'[d] = cache[d]
  BY DEF Answers
<1>3. ServerTypes' /\ NewerInv'
  <2>1. /\ serving' \in [Requests -> Busy \cup {"idle", "done"}]
        /\ reply' \in [Requests -> SUBSET [path : Dirs, gen : Runs]]
    BY <1>1
  <2>. QED
    BY <1>1, <1>2, <2>1, SameSight DEF ServerInv, ServerTypes
<1>4. /\ serving'[q] = "done" /\ reply'[q] = listed[q]
      /\ \A p \in Requests : p # q => serving'[p] = serving[p] /\ reply'[p] = reply[p]
      /\ serving[q] = "next" /\ todo[q] = {}
      /\ UNCHANGED <<todo, at, stat, listed, steady>>
  BY <1>1
<1>5. SightInv'
  <2>1. \A d \in DOMAIN cache' : Seen(d, cache[d])' /\ Told(d, cache[d], cache[d].gen)'
    BY <1>2, SameSight DEF ServerInv, SightInv
  <2>. QED
    BY <1>4, <2>1, SameSight DEF ServerInv, SightInv
<1>6. VisitInv'
  BY <1>4 DEF ServerInv, VisitInv
<1>7. StillInv'
  BY <1>4, SameSight DEF ServerInv, StillInv
<1>8. ShownInv'
  BY <1>4, SameSight DEF ServerInv, ShownInv, Busy
<1>. QED
  BY <1>3, <1>5, <1>6, <1>7, <1>8 DEF ServerInv

LEMMA ServeServer ==
  ASSUME RunInv, ServerInv, NEW q \in Requests, Serve(q)
  PROVE  ServerInv'
<1>1. /\ UNCHANGED <<vars, clock>>
      /\ \/ Asks(q) \/ Passes(q) \/ Stats(q) \/ Hits(q)
         \/ Misses(q) \/ Reads(q) \/ Stores(q) \/ Answers(q)
  BY StepsOfARequest DEF ServerInv
<1>2. CASE Asks(q) \/ Passes(q) \/ Stats(q)
  BY <1>1, <1>2, AsksServer, PassesServer, StatsServer
<1>3. CASE Hits(q) \/ Reads(q)
  BY <1>1, <1>3, HitsAndReadsAdd, AddsServer
<1>4. CASE Misses(q) \/ Stores(q) \/ Answers(q)
  BY <1>1, <1>4, MissesServer, StoresServer, AnswersServer
<1>. QED
  BY <1>1, <1>2, <1>3, <1>4

--------------------------------------------------------------------------------
(* All together. *)

LiveInv == RunInv /\ OpenedInv /\ ServerInv

LEMMA InitLiveInv == LiveInit => LiveInv
<1>. SUFFICES ASSUME LiveInit PROVE LiveInv
  OBVIOUS
<1>1. RunInv /\ OpenedInv
  BY InitRunInv, InitOpened DEF LiveInit
<1>2. /\ Init /\ stamp = [d \in Dirs |-> 0] /\ tick = 0 /\ cache = <<>>
      /\ serving = [q \in Requests |-> "idle"] /\ at = [q \in Requests |-> "no path"]
      /\ stat = [q \in Requests |-> [stamp |-> 0, size |-> 0]]
      /\ todo = [q \in Requests |-> {}] /\ steady = [q \in Requests |-> {}]
      /\ listed = [q \in Requests |-> {}] /\ reply = [q \in Requests |-> {}]
  BY DEF LiveInit, Server!Init, Server!NoPath
<1>3. DOMAIN cache = {}
  <2>1. cache = <<>>
    BY <1>2
  <2>. QED
    BY <2>1
<1>4. ServerTypes
  <2>1. /\ stamp \in [Dirs -> Nat] /\ tick \in Nat
        /\ serving \in [Requests -> Busy \cup {"idle", "done"}]
        /\ at \in [Requests -> Dirs \cup {"no path"}]
    BY <1>2
  <2>2. stat \in [Requests -> [stamp : Nat, size : Nat]]
    BY <1>2
  <2>3. /\ todo \in [Requests -> SUBSET Dirs] /\ steady \in [Requests -> SUBSET Dirs]
        /\ listed \in [Requests -> SUBSET [path : Dirs, gen : Runs]]
        /\ reply \in [Requests -> SUBSET [path : Dirs, gen : Runs]]
    BY <1>2
  <2>. QED
    BY <1>3, <2>1, <2>2, <2>3 DEF ServerTypes
<1>5. NewerInv
  <2>1. \A r \in Runs : pc[r] = "idle"
    BY <1>2 DEF Init
  <2>2. \A d \in Dirs : stamp[d] <= tick
    <3>1. stamp = [d \in Dirs |-> 0] /\ tick = 0
      BY <1>2
    <3>. QED
      BY <3>1
  <2>. QED
    BY <2>1, <2>2 DEF NewerInv
<1>6. SightInv /\ VisitInv /\ StillInv /\ ShownInv
  <2>1. \A q \in Requests : serving[q] = "idle" /\ steady[q] = {} /\ listed[q] = {}
    BY <1>2
  <2>. QED
    BY <1>3, <2>1 DEF SightInv, VisitInv, StillInv, ShownInv
<1>. QED
  BY <1>1, <1>4, <1>5, <1>6 DEF LiveInv, ServerInv

LEMMA NextLiveInv == LiveInv /\ [LiveNext]_<<vars, clock, server>> => LiveInv'
<1>. SUFFICES ASSUME LiveInv, [LiveNext]_<<vars, clock, server>> PROVE LiveInv'
  OBVIOUS
<1>1. ASSUME NEW r \in Runs, Write(r) \/ Measured(r) \/ Other(r)
      PROVE  LiveInv'
  <2>1. SeenMove(r) /\ Move(r)
    BY <1>1, MovesAreSeen DEF LiveInv, ServerInv, SeenMove
  <2>2. RunInv'
    BY <2>1, NextRunInv DEF LiveInv, Move, Next
  <2>. QED
    BY <2>1, <2>2, MoveOpened, MoveServer DEF LiveInv
<1>2. ASSUME NEW q \in Requests, Serve(q)
      PROVE  LiveInv'
  <2>1. UNCHANGED vars
    BY <1>2 DEF Serve
  <2>2. RunInv' /\ OpenedInv'
    BY <2>1, NextRunInv DEF LiveInv, vars, OpenedInv, LastAlone
  <2>. QED
    BY <1>2, <2>2, ServeServer DEF LiveInv
<1>3. CASE UNCHANGED <<vars, clock, server>>
  <2>1. UNCHANGED <<vars, clock>>
        /\ UNCHANGED <<serving, cache, todo, at, stat, listed, reply, steady>>
    BY <1>3 DEF server
  <2>2. RunInv' /\ OpenedInv'
    BY <2>1, NextRunInv DEF LiveInv, vars, OpenedInv, LastAlone
  <2>3. ServerTypes' /\ NewerInv' /\ VisitInv'
    BY <2>1, SameSight DEF LiveInv, ServerInv, ServerTypes, VisitInv
  <2>4. SightInv'
    BY <2>1, SameSight DEF LiveInv, ServerInv, SightInv
  <2>5. StillInv' /\ ShownInv'
    BY <2>1, SameSight DEF LiveInv, ServerInv, StillInv, ShownInv
  <2>. QED
    BY <2>2, <2>3, <2>4, <2>5 DEF LiveInv, ServerInv
<1>. QED
  BY <1>1, <1>2, <1>3 DEF LiveNext

--------------------------------------------------------------------------------
(* Runs under the eyes of the server. *)

\* What the server adds to the runs takes nothing from them: LiveReports
\* implements ReportRun, so that all that holds of the runs holds here.
THEOREM LiveRunsAreRuns == LiveSpec => Spec
<1>1. LiveInit => Init
  BY DEF LiveInit
<1>2. [LiveNext]_<<vars, clock, server>> => [Next]_vars
  <2>1. ASSUME NEW r \in Runs, Write(r) \/ Measured(r) \/ Other(r)
        PROVE  Next
    BY <2>1 DEF Write, Measured, Other, Next, Step
  <2>2. ASSUME NEW q \in Requests, Serve(q)
        PROVE  UNCHANGED vars
    BY <2>2 DEF Serve
  <2>. QED
    BY <2>1, <2>2 DEF LiveNext
<1>. QED
  BY <1>1, <1>2, PTL DEF LiveSpec, Spec

\* Whoever finds a complete report.json of the last run finds the raw output it
\* was made from beside it, for any number of runs, killed at any point.
THEOREM RawIsAlwaysBeside == LiveSpec => []RawBesideReport
BY LiveRunsAreRuns, RunInvHolds, RawIsBeside, PTL

\* Status 0 stands for four complete files.
THEOREM SuccessIsAlwaysComplete == LiveSpec => []SuccessIsComplete
BY LiveRunsAreRuns, RunInvHolds, SuccessIsWhole, PTL

\* A run that infers nothing leaves the report of an earlier one as it was.
THEOREM FailuresKeepReports == LiveSpec => FailureKeepsEarlierReport
BY LiveRunsAreRuns, RunsKeepEarlierReports, PTL

\* The catalog shows the run that was the last and the only one to use its
\* directory, whatever the cache holds of earlier runs, for any number of runs
\* and requests.
THEOREM LastRunIsAlwaysShown == LiveSpec => []LastRunIsShown
<1>1. LiveInv => LastRunIsShown
  BY DEF LiveInv, ServerInv, ShownInv, Whole, LastRunIsShown, Busy
<1>. QED
  BY <1>1, InitLiveInv, NextLiveInv, PTL DEF LiveSpec
================================================================================
