-------------------------------- MODULE ReportRun --------------------------------
(***************************************************************************)
(* system_decap/runner.py and the `run' command of cli.py: runs of the     *)
(* suite, each a process of its own, that end by writing four files into   *)
(* an output directory.  The default directory carries a time stamp of one *)
(* second and mkdir accepts an existing directory, so runs may share one,  *)
(* one after the other or at the same time.  A run may be killed anywhere, *)
(* and any write may fail and leave a truncated file.                      *)
(***************************************************************************)
EXTENDS Naturals, FiniteSets

CONSTANTS
  Runs,       \* processes
  Dirs        \* output directories

VARIABLES
  pc,         \* where each run is
  nth,        \* the data file it writes, or writes next
  exit,       \* how it ended
  out,        \* its output directory: --output, or host and second
  disk,       \* disk[d][f]: the file f of directory d
  before      \* history: the runs that had ended when this one started

vars == <<pc, nth, exit, out, disk, before>>

\* Mutant: the report is written before the raw output.
DataFiles_ReportFirst == <<"report.json", "native-raw.json", "observations.csv", "lscpu.txt">>

\* The files in the order in which execute writes them.
DataFiles == <<"native-raw.json", "report.json", "observations.csv", "lscpu.txt">>
Notes == {"native-failed-output.txt", "native-invalid-output.txt"}
FileNames == {DataFiles[i] : i \in 1 .. 4} \cup Notes

Absent == [state |-> "absent"]
FullBy(d, f, r) == disk[d][f] = [state |-> "full", run |-> r]

Stages == {"idle", "start", "build", "discover", "mkdir", "native", "infer",
           "open", "inside", "ended"}

Init ==
  /\ pc = [r \in Runs |-> "idle"]
  /\ nth = [r \in Runs |-> 1]
  /\ exit = [r \in Runs |-> "none"]
  /\ out \in [Runs -> Dirs]
  /\ disk = [d \in Dirs |-> [f \in FileNames |-> Absent]]
  /\ before = [r \in Runs |-> {}]

Goto(r, stage) == pc' = [pc EXCEPT ![r] = stage] /\ UNCHANGED <<nth, exit, out, before>>
End(r, how) ==
  /\ pc' = [pc EXCEPT ![r] = "ended"]
  /\ exit' = [exit EXCEPT ![r] = how]
  /\ UNCHANGED <<nth, out, before>>
Put(r, f, state) == disk' = [disk EXCEPT ![out[r]][f] = [state |-> state, run |-> r]]

--------------------------------------------------------------------------------
Launch(r) ==
  /\ pc[r] = "idle"
  /\ pc' = [pc EXCEPT ![r] = "start"]
  /\ before' = [before EXCEPT ![r] = {q \in Runs : pc[q] = "ended"}]
  /\ UNCHANGED <<nth, exit, out, disk>>

\* Not Linux, not a known architecture, half an override: an error message.
Reject(r) == pc[r] = "start" /\ End(r, "error") /\ UNCHANGED disk
Accept(r) == pc[r] = "start" /\ Goto(r, "build") /\ UNCHANGED disk

\* --skip-build with a binary in place, or a build that succeeds.
Built(r) == pc[r] = "build" /\ Goto(r, "discover") /\ UNCHANGED disk

\* No cmake or no binary: reported.  A compiler error is a CalledProcessError,
\* which `main' does not catch: a traceback.
BuildFails(r) ==
  /\ pc[r] = "build"
  /\ End(r, "error") \/ End(r, "traceback")
  /\ UNCHANGED disk

Discover(r) == pc[r] = "discover" /\ Goto(r, "mkdir") /\ UNCHANGED disk

\* mkdir(exist_ok=True): the files of an earlier run stay where they are.
MakeDirectory(r) == pc[r] = "mkdir" /\ Goto(r, "native") /\ UNCHANGED disk
DirectoryFails(r) == pc[r] = "mkdir" /\ End(r, "error") /\ UNCHANGED disk

NativeSucceeds(r) == pc[r] = "native" /\ Goto(r, "infer") /\ UNCHANGED disk

\* Mutant: a failed run clears the report of its directory.
NativeFails_Clears(r, note) ==
  /\ pc[r] = "native"
  /\ disk' = [disk EXCEPT ![out[r]]["report.json"] = Absent]
  /\ End(r, "error")

\* A nonzero status, or output that is no JSON, is kept in a note if the note
\* can be written; a binary that cannot be started leaves none.
NativeFails(r, note) ==
  /\ pc[r] = "native"
  /\ \/ Put(r, note, "full")
     \/ Put(r, note, "partial")
     \/ UNCHANGED disk
  /\ End(r, "error")

\* infer raises what `main' does not catch; nothing has been written yet.
InferRaises(r) == pc[r] = "infer" /\ End(r, "traceback") /\ UNCHANGED disk
Inferred(r) == pc[r] = "infer" /\ Goto(r, "open") /\ UNCHANGED disk

\* open("w") truncates whatever was there.
OpenFile(r) ==
  /\ pc[r] = "open"
  /\ Put(r, DataFiles[nth[r]], "partial")
  /\ Goto(r, "inside")

CloseFile(r) ==
  /\ pc[r] = "inside" /\ nth[r] < 4
  /\ Put(r, DataFiles[nth[r]], "full")
  /\ nth' = [nth EXCEPT ![r] = @ + 1]
  /\ pc' = [pc EXCEPT ![r] = "open"]
  /\ UNCHANGED <<exit, out, before>>

CloseLastFile(r) ==
  /\ pc[r] = "inside" /\ nth[r] = 4
  /\ Put(r, DataFiles[4], "full")
  /\ End(r, "ok")

\* Mutant: a failed write is ignored.
WriteFails_Ignored(r) == pc[r] \in {"open", "inside"} /\ End(r, "ok") /\ UNCHANGED disk

\* The disk is full, or the directory is gone: OSError, the file as it is.
WriteFails(r) == pc[r] \in {"open", "inside"} /\ End(r, "error") /\ UNCHANGED disk

\* The process is killed; what it has written stays.
Kill(r) ==
  /\ pc[r] \notin {"idle", "ended"}
  /\ End(r, "killed")
  /\ UNCHANGED disk

--------------------------------------------------------------------------------
Step(r) ==
  \/ Reject(r) \/ Accept(r) \/ Built(r) \/ BuildFails(r) \/ Discover(r)
  \/ MakeDirectory(r) \/ DirectoryFails(r)
  \/ NativeSucceeds(r) \/ (\E note \in Notes : NativeFails(r, note))
  \/ InferRaises(r) \/ Inferred(r)
  \/ OpenFile(r) \/ CloseFile(r) \/ CloseLastFile(r) \/ WriteFails(r)

Next == \E r \in Runs : Launch(r) \/ Step(r) \/ Kill(r)

Spec == Init /\ [][Next]_vars

--------------------------------------------------------------------------------
TypeOK ==
  /\ pc \in [Runs -> Stages] /\ nth \in [Runs -> 1 .. 4]
  /\ exit \in [Runs -> {"none", "ok", "error", "traceback", "killed"}]
  /\ out \in [Runs -> Dirs] /\ before \in [Runs -> SUBSET Runs]
  /\ disk \in [Dirs -> [FileNames ->
                {Absent} \cup [state : {"partial", "full"}, run : Runs]]]

\* Every other run that has used r's directory had ended before r started.
LastAlone(r) ==
  \A q \in Runs \ {r} : out[q] = out[r] /\ pc[q] # "idle" => q \in before[r]

\* Whoever can read a complete report.json finds the raw output it was made
\* from beside it, even when the run is killed or the disk fills up: the raw
\* file is complete before the report is opened.
RawBesideReport ==
  \A r \in Runs :
    FullBy(out[r], "report.json", r) /\ LastAlone(r) => FullBy(out[r], "native-raw.json", r)

\* Status 0 stands for four complete files of this run, whatever an earlier
\* run has left in the directory.
SuccessIsComplete ==
  \A r \in Runs : exit[r] = "ok" /\ LastAlone(r) =>
    \A i \in 1 .. 4 : FullBy(out[r], DataFiles[i], r)

\* A run that ends without inferring anything leaves the report of an earlier
\* run in the directory as it was: complete, and next to its own raw output.
FailureKeepsEarlierReport ==
  [][\A r \in Runs : pc[r] \in {"start", "build", "discover", "mkdir", "native", "infer"}
       /\ pc'[r] = "ended"
       => \A d \in Dirs, i \in 1 .. 4 : disk'[d][DataFiles[i]] = disk[d][DataFiles[i]]]_vars
================================================================================
