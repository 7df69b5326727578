---------------------------- MODULE ReportRepository ----------------------------
(***************************************************************************)
(* system_decap/server.py: the report repository behind the browser        *)
(* workbench.  Every HTTP request runs in a thread of its own; the threads *)
(* share the catalog cache under a lock, and read files that other         *)
(* processes (a run, a user) write and delete at any time.                 *)
(*                                                                         *)
(* A file has a content, named by a generation, once it is completely      *)
(* written; until then it does not parse.  Its stamp and its size are what *)
(* stat returns.  The clock that stamps files is coarse: two writes may    *)
(* fall into one tick.                                                     *)
(***************************************************************************)
EXTENDS Naturals, FiniteSets

CONSTANTS
  Paths,       \* directories below the root that may hold a report.json
  Requests,    \* HTTP requests
  Generations, \* the contents that are ever written, each of them once
  Shape(_),    \* "report", "bare" (an object whose system is none), "array"
  Size(_),     \* bytes of the content
  MaxTick      \* bound: ticks of the file system's clock

NoPath == "no path"

ASSUME RepositoryAssumption ==
  /\ NoPath \notin Paths
  /\ IsFiniteSet(Paths) /\ IsFiniteSet(Requests) /\ IsFiniteSet(Generations)
  /\ \A g \in Generations : Shape(g) \in {"report", "bare", "array"} /\ Size(g) \in Nat \ {0}
  /\ MaxTick \in Nat

VARIABLES
  file,       \* file[p]: the report.json of a path
  written,    \* generations already used
  tick,       \* the clock of the file system
  cache,      \* _catalog_cache: path -> stamp, size and summary
  pc,         \* where each request is
  want,       \* the report a detail request asks for
  todo,       \* the paths of _paths() not yet visited
  at,         \* the path a request is working on
  stat,       \* what its stat of that path returned
  active,     \* active_paths
  listed,     \* reports: the summaries collected so far
  reply,      \* the body of the response
  stamped,    \* history: every state a file was in, as stat shows it
  during,     \* history: complete contents present since the request began
  steady      \* history: valid reports untouched since the request began

files == <<file, written, tick>>
local == <<want, todo, at, stat, active, listed>>
history == <<stamped, during, steady>>
vars == <<file, written, tick, cache, pc, want, todo, at, stat, active, listed,
          reply, stamped, during, steady>>

Absent == [state |-> "absent"]
Full(p) == file[p].state = "full"
StatOf(p) == [stamp |-> file[p].stamp,
              size |-> IF Full(p) THEN Size(file[p].gen) ELSE 0]
Content(p) == [path |-> p, gen |-> file[p].gen]
Complete == {Content(p) : p \in {q \in Paths : Full(q)}}
Sound == {p \in Paths : Full(p) /\ Shape(file[p].gen) = "report"}

Init ==
  /\ file = [p \in Paths |-> Absent]
  /\ written = {} /\ tick = 0
  /\ cache = <<>>
  /\ pc = [r \in Requests |-> "idle"]
  /\ want = [r \in Requests |-> NoPath]
  /\ todo = [r \in Requests |-> {}]
  /\ at = [r \in Requests |-> NoPath]
  /\ stat = [r \in Requests |-> [stamp |-> 0, size |-> 0]]
  /\ active = [r \in Requests |-> {}]
  /\ listed = [r \in Requests |-> {}]
  /\ reply = [r \in Requests |-> {}]
  /\ stamped = {}
  /\ during = [r \in Requests |-> {}]
  /\ steady = [r \in Requests |-> {}]

--------------------------------------------------------------------------------
(* The outside world: runs that write reports, users who delete them. *)

\* The file of a path becomes f, whoever writes it.
Becomes(p, f) ==
  /\ file' = [file EXCEPT ![p] = f]
  /\ stamped' = IF f = Absent THEN stamped
                ELSE stamped \cup {[path |-> p, gen |-> f.gen, stamp |-> f.stamp,
                                   size |-> IF f.state = "full" THEN Size(f.gen) ELSE 0]}
  /\ during' = [r \in Requests |->
       IF f = Absent \/ f.state = "partial" \/ pc[r] \in {"idle", "done", "aborted"}
       THEN during[r] ELSE during[r] \cup {[path |-> p, gen |-> f.gen]}]
  /\ steady' = [r \in Requests |-> steady[r] \ {p}]
  /\ UNCHANGED <<tick, cache, pc, local, reply>>

\* open("w") truncates a report or creates it.
Truncate(p, g) ==
  /\ g \notin written
  /\ written' = written \cup {g}
  /\ Becomes(p, [state |-> "partial", gen |-> g, stamp |-> tick])

\* The last byte of the text reaches the file.
FinishWrite(p) ==
  /\ file[p].state = "partial"
  /\ Becomes(p, [file[p] EXCEPT !.state = "full", !.stamp = tick])
  /\ UNCHANGED written

Remove(p) ==
  /\ file[p] # Absent
  /\ Becomes(p, Absent)
  /\ UNCHANGED written

Tick ==
  /\ tick < MaxTick
  /\ tick' = tick + 1
  /\ UNCHANGED <<file, written, cache, pc, local, reply, history>>

--------------------------------------------------------------------------------
(* do_GET: a request arrives and _paths() walks the root. *)

Existing == {p \in Paths : file[p] # Absent}

Arrive(r) ==
  /\ pc[r] = "idle"
  /\ todo' = [todo EXCEPT ![r] = Existing]
  /\ during' = [during EXCEPT ![r] = Complete]
  /\ steady' = [steady EXCEPT ![r] = Sound]

ListRequest(r) ==
  /\ Arrive(r)
  /\ pc' = [pc EXCEPT ![r] = "next"]
  /\ UNCHANGED <<files, cache, want, at, stat, active, listed, reply, stamped>>

\* load_report looks for the path with the requested id.
DetailRequest(r, p) ==
  /\ Arrive(r)
  /\ want' = [want EXCEPT ![r] = p]
  /\ pc' = [pc EXCEPT ![r] = IF p \in Existing THEN "load" ELSE "done"]
  /\ UNCHANGED <<files, cache, at, stat, active, listed, reply, stamped>>

--------------------------------------------------------------------------------
(* list_reports. *)

\* resolve and stat one path; a path that is gone is skipped.
Stat(r, p) ==
  /\ pc[r] = "next" /\ p \in todo[r]
  /\ todo' = [todo EXCEPT ![r] = @ \ {p}]
  /\ IF file[p] = Absent
     THEN UNCHANGED <<pc, at, stat, active>>
     ELSE /\ stat' = [stat EXCEPT ![r] = StatOf(p)]
          /\ active' = [active EXCEPT ![r] = @ \cup {p}]
          /\ at' = [at EXCEPT ![r] = p]
          /\ pc' = [pc EXCEPT ![r] = "lookup"]
  /\ UNCHANGED <<files, cache, want, listed, reply, history>>

\* Mutant: a cached path is taken to be fresh.
Fresh_Cached(r) == at[r] \in DOMAIN cache
Fresh(r) ==
  /\ at[r] \in DOMAIN cache
  /\ cache[at[r]].stamp = stat[r].stamp
  /\ cache[at[r]].size = stat[r].size

\* The cached summary is used when stamp and size agree with the stat.
LookupHit(r) ==
  /\ pc[r] = "lookup" /\ Fresh(r)
  /\ listed' = [listed EXCEPT ![r] = @ \cup {[path |-> at[r], gen |-> cache[at[r]].gen]}]
  /\ pc' = [pc EXCEPT ![r] = "next"]
  /\ UNCHANGED <<files, cache, want, todo, at, stat, active, reply, history>>

LookupMiss(r) ==
  /\ pc[r] = "lookup" /\ ~Fresh(r)
  /\ pc' = [pc EXCEPT ![r] = "read"]
  /\ UNCHANGED <<files, cache, local, reply, history>>

\* Gone or half written: OSError or ValueError, the path is skipped.
ReadFails(r) ==
  /\ pc[r] = "read" /\ ~Full(at[r])
  /\ pc' = [pc EXCEPT ![r] = "next"]
  /\ UNCHANGED <<files, cache, local, reply, history>>

\* Valid JSON without the attributes of a report: AttributeError is not among
\* the exceptions the loop skips, so the whole request ends here.
ReadWrongShape(r) ==
  /\ pc[r] = "read" /\ Full(at[r])
  /\ Shape(file[at[r]].gen) # "report"
  /\ pc' = [pc EXCEPT ![r] = "aborted"]
  /\ UNCHANGED <<files, cache, local, reply, history>>

ReadReport(r) ==
  /\ pc[r] = "read" /\ Full(at[r])
  /\ Shape(file[at[r]].gen) = "report"
  /\ listed' = [listed EXCEPT ![r] = @ \cup {Content(at[r])}]
  /\ pc' = [pc EXCEPT ![r] = "store"]
  /\ UNCHANGED <<files, cache, want, todo, at, stat, active, reply, history>>

\* Mutant: the entry is stamped with a stat made after the read.
CacheEntry_StatLater(r) ==
  LET item == CHOOSE i \in listed[r] : i.path = at[r]
      now == IF file[at[r]] = Absent THEN stat[r] ELSE StatOf(at[r])
  IN  [stamp |-> now.stamp, size |-> now.size, gen |-> item.gen]

\* The summary just read is cached under the stat made before the read.
CacheEntry(r) ==
  LET item == CHOOSE i \in listed[r] : i.path = at[r]
  IN  [stamp |-> stat[r].stamp, size |-> stat[r].size, gen |-> item.gen]

Store(r) ==
  /\ pc[r] = "store"
  /\ cache' = [p \in DOMAIN cache \cup {at[r]} |->
                 IF p = at[r] THEN CacheEntry(r) ELSE cache[p]]
  /\ pc' = [pc EXCEPT ![r] = "next"]
  /\ UNCHANGED <<files, local, reply, history>>

\* Mutant: the answer is made of what the shared cache holds by now.
EvictAndReply_FromCache(r) ==
  /\ pc[r] = "next" /\ todo[r] = {}
  /\ cache' = [p \in DOMAIN cache \cap active[r] |-> cache[p]]
  /\ reply' = [reply EXCEPT ![r] =
       {[path |-> p, gen |-> cache[p].gen] : p \in DOMAIN cache \cap active[r]}]
  /\ pc' = [pc EXCEPT ![r] = "done"]
  /\ UNCHANGED <<files, local, history>>

\* Entries of paths this request did not see are dropped; the list is sorted.
EvictAndReply(r) ==
  /\ pc[r] = "next" /\ todo[r] = {}
  /\ cache' = [p \in DOMAIN cache \cap active[r] |-> cache[p]]
  /\ reply' = [reply EXCEPT ![r] = listed[r]]
  /\ pc' = [pc EXCEPT ![r] = "done"]
  /\ UNCHANGED <<files, local, history>>

--------------------------------------------------------------------------------
(* load_report: the file is read; what is not an object becomes a 404. *)

Load(r) ==
  /\ pc[r] = "load"
  /\ LET p == want[r] IN
     reply' = [reply EXCEPT ![r] =
       IF Full(p) /\ Shape(file[p].gen) # "array" THEN {Content(p)} ELSE {}]
  /\ pc' = [pc EXCEPT ![r] = "done"]
  /\ UNCHANGED <<files, cache, local, history>>

--------------------------------------------------------------------------------
World ==
  \/ \E p \in Paths : FinishWrite(p) \/ Remove(p)
  \/ \E p \in Paths, g \in Generations : Truncate(p, g)
  \/ Tick

Handle(r) ==
  \/ \E p \in Paths : Stat(r, p)
  \/ LookupHit(r) \/ LookupMiss(r)
  \/ ReadFails(r) \/ ReadWrongShape(r) \/ ReadReport(r)
  \/ Store(r) \/ EvictAndReply(r) \/ Load(r)

Next ==
  \/ World
  \/ \E r \in Requests : ListRequest(r) \/ Handle(r)
  \/ \E r \in Requests, p \in Paths : DetailRequest(r, p)

Spec == Init /\ [][Next]_vars

--------------------------------------------------------------------------------
Stages == {"idle", "next", "lookup", "read", "store", "load", "done", "aborted"}

TypeOK ==
  /\ file \in [Paths -> {Absent} \cup
                [state : {"partial", "full"}, gen : Generations, stamp : Nat]]
  /\ written \subseteq Generations /\ tick \in Nat
  /\ DOMAIN cache \subseteq Paths
  /\ \A p \in DOMAIN cache : cache[p] \in [stamp : Nat, size : Nat, gen : Generations]
  /\ pc \in [Requests -> Stages]
  /\ want \in [Requests -> Paths \cup {NoPath}] /\ at \in [Requests -> Paths \cup {NoPath}]
  /\ stat \in [Requests -> [stamp : Nat, size : Nat]]
  /\ todo \in [Requests -> SUBSET Paths] /\ active \in [Requests -> SUBSET Paths]
  /\ listed \in [Requests -> SUBSET [path : Paths, gen : Generations]]
  /\ reply \in [Requests -> SUBSET [path : Paths, gen : Generations]]
  /\ stamped \subseteq [path : Paths, gen : Generations, stamp : Nat, size : Nat]
  /\ during \in [Requests -> SUBSET [path : Paths, gen : Generations]]
  /\ steady \in [Requests -> SUBSET Paths]

\* Two states of one file that stat cannot tell apart although their contents
\* differ: the same tick, the same size.  The one case the cache cannot see.
Indistinct(p, stamp, size) ==
  \E a, b \in stamped :
    /\ a.path = p /\ b.path = p /\ a.gen # b.gen
    /\ a.stamp = stamp /\ b.stamp = stamp /\ a.size = size /\ b.size = size

Indistinguishable(p) ==
  \E a \in stamped : a.path = p /\ Indistinct(p, a.stamp, a.size)

\* A cache entry that passes the freshness test describes the file as it is,
\* whatever was written between the stat, the read and the store.
CacheIsFaithful ==
  \A p \in DOMAIN cache :
    /\ Full(p)
    /\ cache[p].stamp = file[p].stamp
    /\ cache[p].size = Size(file[p].gen)
    => \/ cache[p].gen = file[p].gen
       \/ Indistinct(p, cache[p].stamp, cache[p].size)

\* What a browser may rely on, with a request's first step to the answer taken
\* for the request.
Phase(r) == CASE pc[r] = "idle" -> "idle"
              [] pc[r] \in {"next", "lookup", "read", "store", "load"} -> "asked"
              [] pc[r] = "done" -> "answered"
              [] pc[r] = "aborted" -> "broken"
Catalog == INSTANCE ReportCatalog WITH
  contents <- [p \in Paths |-> IF Full(p) THEN {file[p].gen} ELSE {}],
  blurred <- {p \in Paths : Indistinguishable(p)},
  phase <- [r \in Requests |-> Phase(r)],
  asks <- [r \in Requests |-> IF want[r] = NoPath THEN Paths ELSE {want[r]}],
  answer <- reply

\* The repository implements the catalog, although it reads files one after
\* the other while they change and takes summaries out of a cache that other
\* requests fill and empty: an answer shows of each report at most one content,
\* one that the file had while the request ran, and leaves out no valid report
\* that nobody has touched meanwhile.
ImplementsCatalog == Catalog!Spec
================================================================================
