------------------------------ MODULE LiveReports ------------------------------
(***************************************************************************)
(* Runs and the report server over one results directory: runner.py writes *)
(* the report.json files that server.py stats, reads and caches, with no   *)
(* lock between the processes.  The server's file system is the disk of    *)
(* the runs: a step that changes a report.json is a step of the server's   *)
(* outside world.                                                          *)
(*                                                                         *)
(* The clock that stamps files is as slow as it may be: it moves while the *)
(* native binary measures, which takes seconds, and at no other time.      *)
(***************************************************************************)
EXTENDS ReportRun

CONSTANTS Requests   \* catalog requests of browsers

VARIABLES
  stamp,      \* stamp[d]: when the report.json of d was last written
  tick,       \* the clock of the file system
  serving,    \* where each request is
  cache, todo, at, stat, active, listed, reply,     \* as in ReportRepository
  stamped, during, steady                           \* its history

clock == <<stamp, tick>>
server == <<serving, cache, todo, at, stat, active, listed, reply, stamped, during, steady>>

\* The report.json of a directory as stat and open show it.
ReportAt(d) ==
  LET f == disk[d]["report.json"] IN
  IF f = Absent THEN Absent ELSE [state |-> f.state, gen |-> f.run, stamp |-> stamp[d]]

Server == INSTANCE ReportRepository WITH
  Paths <- Dirs, Generations <- Runs, MaxTick <- Cardinality(Runs),
  Shape <- LAMBDA r : "report", Size <- LAMBDA r : 1,
  file <- [d \in Dirs |-> ReportAt(d)], written <- {}, pc <- serving,
  want <- [q \in Requests |-> "no path"]

LiveInit ==
  /\ Init
  /\ stamp = [d \in Dirs |-> 0] /\ tick = 0
  /\ Server!Init

--------------------------------------------------------------------------------
(* A run writes, and the server's directory changes under it. *)

Stamped(r) ==
  stamp' = IF disk'[out[r]]["report.json"] = disk[out[r]]["report.json"] THEN stamp
           ELSE [stamp EXCEPT ![out[r]] = tick]

SeenByServer(r) ==
  IF disk'[out[r]]["report.json"] = disk[out[r]]["report.json"]
  THEN UNCHANGED server
  ELSE Server!Becomes(out[r], ReportAt(out[r])')

Write(r) ==
  /\ OpenFile(r) \/ CloseFile(r) \/ CloseLastFile(r)
  /\ Stamped(r)
  /\ UNCHANGED tick
  /\ SeenByServer(r)

Measured(r) ==
  /\ NativeSucceeds(r)
  /\ tick' = tick + 1
  /\ UNCHANGED <<stamp, server>>

Other(r) ==
  /\ \/ Launch(r) \/ Kill(r)
     \/ Reject(r) \/ Accept(r) \/ Built(r) \/ BuildFails(r) \/ Discover(r)
     \/ MakeDirectory(r) \/ DirectoryFails(r)
     \/ \E note \in Notes : NativeFails(r, note)
     \/ InferRaises(r) \/ Inferred(r) \/ WriteFails(r)
  /\ UNCHANGED <<clock, server>>

Serve(q) ==
  /\ UNCHANGED <<vars, clock>>
  /\ Server!ListRequest(q) \/ Server!Handle(q)

LiveNext ==
  \/ \E r \in Runs : Write(r) \/ Measured(r) \/ Other(r)
  \/ \E q \in Requests : Serve(q)

LiveSpec == LiveInit /\ [][LiveNext]_<<vars, clock, server>>

--------------------------------------------------------------------------------
\* The catalog shows the run that was the last and the only one to use its
\* directory: no summary of an earlier run in the same directory is served for
\* it out of the cache, although stat is all that tells the two files apart.
\* This is where the coarse clock of the repository's contract is discharged:
\* a run measures, for longer than a tick, before it writes.
LastRunIsShown ==
  \A q \in Requests, r \in Runs :
    /\ serving[q] = "done" /\ out[r] \in steady[q]
    /\ FullBy(out[r], "report.json", r) /\ LastAlone(r)
    => [path |-> out[r], gen |-> r] \in reply[q]
================================================================================
