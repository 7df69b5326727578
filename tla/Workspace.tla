-------------------------------- MODULE Workspace --------------------------------
(***************************************************************************)
(* system_decap/web/app.js: the report workspace in the browser.  Clicks,  *)
(* the back button and the refresh button each start a task; a task runs   *)
(* until it awaits an answer of the server, and while it waits the user    *)
(* goes on clicking and other tasks are answered.  All of them write the   *)
(* same catalog, selection, report cache, route, URL and page.             *)
(***************************************************************************)
EXTENDS Naturals, FiniteSets, Sequences, SequencesExt

CONSTANTS
  Ids,        \* report ids, numbered as the catalog sorts them
  Contents,   \* the reports the server may have at a time, as sets of ids
  Tasks,      \* bound: tasks the user starts
  Startup,    \* the task that runs when the page is loaded
  Limit,      \* reports one comparison takes: 8
  Queries,    \* the search texts, as the sets of reports they match
  Sessions    \* session histories the page may be loaded in: sequences of
              \* URLs, each of them the sequence of the ids it names

ASSUME WorkspaceAssumption ==
  /\ Ids \subseteq Nat /\ IsFiniteSet(Ids) /\ Contents \subseteq SUBSET Ids
  /\ Startup \in Tasks /\ IsFiniteSet(Tasks)
  /\ Limit \in Nat \ {0}
  /\ Ids \in Queries /\ Queries \subseteq SUBSET Ids
  /\ Sessions \subseteq Seq(Seq(Ids))

VARIABLES
  server,     \* reports the server has
  catalog,    \* state.catalog
  selected,   \* state.selected, in the order of insertion
  reports,    \* state.reports: the reports loaded so far
  routeIds,   \* state.routeIds
  visits, at, \* the session history, and the entry that is the URL
  view,       \* what #app shows
  query,      \* what the search box lets through
  rows,       \* the rendered catalog: its rows, and those with a tick
  task        \* task[t]: what it does, how far it is, what it waits for

vars == <<server, catalog, selected, reports, routeIds, visits, at, view,
          query, rows, task>>

Blank == [kind |-> "blank", ids |-> <<>>]
Loading == [kind |-> "loading", ids |-> <<>>]
Empty == [kind |-> "empty", ids |-> <<>>]
Broken == [kind |-> "broken", ids |-> <<>>]
Report(ids) == [kind |-> "reports", ids |-> ids]

Unused == [stage |-> "unused", op |-> "none", ids |-> <<>>, pending |-> {}]
Listing == [Unused EXCEPT !.stage = "listing"]

Url == visits[at]
First(S) == CHOOSE i \in S : \A j \in S : i <= j

\* Set.add keeps the place of what is already in the set.
Added(set, i) == IF i \in ToSet(set) THEN set ELSE Append(set, i)

\* Those of a list that are in S, in its order: filter, and Set.delete.
Kept(ids, S) ==
  LET kept[n \in 0 .. Len(ids)] ==
        IF n = 0 THEN <<>>
        ELSE IF ids[n] \in S THEN Append(kept[n - 1], ids[n]) ELSE kept[n - 1]
  IN  kept[Len(ids)]

AddAll(set, ids) ==
  LET sets[n \in 0 .. Len(ids)] == IF n = 0 THEN set ELSE Added(sets[n - 1], ids[n])
  IN  sets[Len(ids)]

Rendered(list, chosen, text) ==
  [shown |-> list \cap text, ticked |-> list \cap text \cap ToSet(chosen)]

Init ==
  /\ server \in Contents
  /\ catalog = {} /\ selected = <<>> /\ reports = {} /\ routeIds = <<>>
  /\ visits \in Sessions /\ at \in DOMAIN visits
  /\ view = Blank
  /\ query = Ids
  /\ rows = [shown |-> {}, ticked |-> {}]
  /\ task = [t \in Tasks |-> IF t = Startup THEN Listing ELSE Unused]

--------------------------------------------------------------------------------
(* showReports, up to its await and from there on.  `list', `chosen' and     *)
(* `here' are the catalog, the selection and the history position it sees.  *)

Done(t) == task' = [task EXCEPT ![t] = [Unused EXCEPT !.stage = "done"]]

\* Mutant: nobody renders the catalog again.
Epilogue_Never(op, list, chosen) == rows' = rows

\* What the callers do when showReports is over: all but a click on a report's
\* title render the catalog again.
Epilogue(op, list, chosen) ==
  rows' = IF op = "open" THEN rows ELSE Rendered(list, chosen, query)

\* The URL: pushed by clicks, replaced when the first report was picked, by the
\* one that is the first by then.
Route(op, known, list, here) ==
  IF op \in {"open", "compare"}
  THEN /\ visits' = Append(SubSeq(visits, 1, here), known)
       /\ at' = here + 1
  ELSE /\ visits' = IF op = "auto" THEN [visits EXCEPT ![here] = <<First(list)>>] ELSE visits
       /\ at' = here

\* Mutant: the spinner is not replaced.
Finish_NoView(op, known, list, chosen, here) ==
  /\ routeIds' = known
  /\ view' = view
  /\ Route(op, known, list, here)
  /\ Epilogue(op, list, chosen)

\* After the await: every report is there.  Whoever finishes last wins.
Finish(op, known, list, chosen, here) ==
  /\ routeIds' = known
  /\ view' = Report(known)
  /\ Route(op, known, list, here)
  /\ Epilogue(op, list, chosen)

\* The same where the first report was picked and the catalog has none by then:
\* there is nothing to write into the URL, and the exception ends the task.
FirstIsGone(t, known) ==
  /\ routeIds' = known
  /\ view' = IF t = Startup THEN Broken ELSE Report(known)
  /\ task' = [task EXCEPT ![t] = [Unused EXCEPT !.stage = "failed"]]
  /\ UNCHANGED <<visits, at, rows>>

\* Mutant: only the checkboxes know the limit.
Refused_Unlimited(known) == known = <<>>

\* Nothing to show, or more than a comparison takes.
Refused(known) == known = <<>> \/ Len(known) > Limit

\* The part before the await.  With every report in the cache nothing can come
\* between the two parts.
ShowReports(t, op, ids, list, chosen, here) ==
  LET known == Kept(ids, list)
      missing == ToSet(known) \ reports
      refused == Refused(known)
  IN
  \/ /\ refused
     /\ view' = IF known = <<>> THEN Empty ELSE view
     /\ at' = here
     /\ Epilogue(op, list, chosen)
     /\ Done(t)
     /\ UNCHANGED <<routeIds, visits>>
  \/ /\ ~refused /\ missing # {}
     /\ view' = Loading
     /\ at' = here
     /\ task' = [task EXCEPT ![t] =
          [stage |-> "loading", op |-> op, ids |-> known, pending |-> missing]]
     /\ UNCHANGED <<routeIds, visits, rows>>
  \/ /\ ~refused /\ missing = {}
     /\ Finish(op, known, list, chosen, here)
     /\ Done(t)

--------------------------------------------------------------------------------
(* The user. *)

Fresh(t) == task[t].stage = "unused"

Open(t, i) ==
  /\ Fresh(t) /\ i \in rows.shown
  /\ ShowReports(t, "open", <<i>>, catalog, selected, at)
  /\ UNCHANGED <<server, catalog, selected, reports, query>>

\* The button is enabled only with a selection.
Compare(t) ==
  /\ Fresh(t) /\ selected # <<>>
  /\ ShowReports(t, "compare", selected, catalog, selected, at)
  /\ UNCHANGED <<server, catalog, selected, reports, query>>

\* Back and forward change the URL before the handler runs.
PopState(t, to) ==
  /\ Fresh(t) /\ to \in {at - 1, at + 1} \cap DOMAIN visits
  /\ ShowReports(t, "popstate", visits[to], catalog, selected, to)
  /\ UNCHANGED <<server, catalog, selected, reports, query>>

Refresh(t) ==
  /\ Fresh(t)
  /\ task' = [task EXCEPT ![t] = Listing]
  /\ UNCHANGED <<server, catalog, selected, reports, routeIds, visits, at, view,
                 query, rows>>

Search(text) ==
  /\ query' = text
  /\ rows' = Rendered(catalog, selected, text)
  /\ UNCHANGED <<server, catalog, selected, reports, routeIds, visits, at, view, task>>

\* The checkbox of a row; a tick beyond the limit is taken back at once.
Tick(i) ==
  /\ i \in rows.shown \ rows.ticked /\ Len(selected) < Limit
  /\ selected' = Added(selected, i)
  /\ rows' = [rows EXCEPT !.ticked = @ \cup {i}]
  /\ UNCHANGED <<server, catalog, reports, routeIds, visits, at, view, query, task>>

Untick(i) ==
  /\ i \in rows.ticked
  /\ selected' = Kept(selected, Ids \ {i})
  /\ rows' = [rows EXCEPT !.ticked = @ \ {i}]
  /\ UNCHANGED <<server, catalog, reports, routeIds, visits, at, view, query, task>>

--------------------------------------------------------------------------------
(* The server answers, or does not. *)

\* Reports appear in the repository, or are removed from it.
Change(now) ==
  /\ now # server /\ server' = now
  /\ UNCHANGED <<catalog, selected, reports, routeIds, visits, at, view, query,
                 rows, task>>

\* refreshCatalog after its fetch: the route is read from the URL by the task
\* that runs at the start, and kept by the others.
CatalogArrives(t) ==
  /\ task[t].stage = "listing"
  /\ LET route == Kept(IF t = Startup THEN Url ELSE routeIds, server)
         pick == First(server)
     IN \/ /\ route # <<>>
           /\ selected' = AddAll(selected, route)
           /\ ShowReports(t, "route", route, server, AddAll(selected, route), at)
        \/ /\ route = <<>> /\ server # {} /\ routeIds = <<>>
           /\ selected' = Added(selected, pick)
           /\ ShowReports(t, "auto", <<pick>>, server, Added(selected, pick), at)
        \/ /\ route = <<>> /\ (server = {} \/ routeIds # <<>>)
           /\ rows' = Rendered(server, selected, query)
           /\ Done(t)
           /\ UNCHANGED <<selected, routeIds, visits, at, view>>
  /\ catalog' = server
  /\ UNCHANGED <<server, reports, query>>

\* One report arrives; the last one a task waits for lets it go on.  A task
\* that has failed still fills the cache.
ReportArrives(t, i) ==
  LET job == task[t]
      last == job.stage = "loading" /\ job.pending = {i}
      gone == job.op = "auto" /\ catalog = {}
  IN
  /\ i \in job.pending /\ i \in server
  /\ reports' = reports \cup {i}
  /\ \/ /\ last /\ ~gone
        /\ Finish(job.op, job.ids, catalog, selected, at)
        /\ Done(t)
     \/ /\ last /\ gone
        /\ FirstIsGone(t, job.ids)
     \/ /\ ~last
        /\ task' = [task EXCEPT ![t].pending = @ \ {i}]
        /\ UNCHANGED <<routeIds, visits, at, view, rows>>
  /\ UNCHANGED <<server, catalog, selected, query>>

\* The first failure ends a task with a message; the one that runs at the start
\* also replaces the page.  The row list stays as it is.
Fails(t, rest) ==
  /\ view' = IF t = Startup THEN Broken ELSE view
  /\ task' = [task EXCEPT ![t].stage = "failed", ![t].pending = rest]
  /\ UNCHANGED <<server, catalog, selected, reports, routeIds, visits, at, query, rows>>

ListingFails(t) == task[t].stage = "listing" /\ Fails(t, {})
LoadingFails(t, i) ==
  /\ task[t].stage = "loading" /\ i \in task[t].pending
  /\ Fails(t, task[t].pending \ {i})

--------------------------------------------------------------------------------
Answer(t) ==
  \/ CatalogArrives(t) \/ ListingFails(t)
  \/ \E i \in Ids : ReportArrives(t, i) \/ LoadingFails(t, i)

User ==
  \/ \E t \in Tasks :
       \/ \E i \in Ids : Open(t, i)
       \/ Compare(t) \/ Refresh(t)
       \/ \E to \in DOMAIN visits : PopState(t, to)
  \/ \E text \in Queries : Search(text)
  \/ \E i \in Ids : Tick(i) \/ Untick(i)

Next ==
  \/ User
  \/ \E now \in Contents : Change(now)
  \/ \E t \in Tasks : Answer(t)

Spec == Init /\ [][Next]_vars

--------------------------------------------------------------------------------
Job == [stage : {"unused", "listing", "loading", "done", "failed"},
        op : {"none", "open", "compare", "popstate", "route", "auto"},
        ids : Seq(Ids), pending : SUBSET Ids]

AtRest == \A t \in Tasks : task[t].stage \notin {"listing", "loading"}
SomeFailed == \E t \in Tasks : task[t].stage = "failed"

TypeOK ==
  /\ server \subseteq Ids /\ catalog \subseteq Ids /\ reports \subseteq Ids
  /\ selected \in Seq(Ids) /\ routeIds \in Seq(Ids)
  /\ visits \in Seq(Seq(Ids)) /\ at \in DOMAIN visits
  /\ view \in [kind : {"blank", "loading", "empty", "broken", "reports"}, ids : Seq(Ids)]
  /\ query \in Queries
  /\ rows \in [shown : SUBSET Ids, ticked : SUBSET Ids] /\ rows.ticked \subseteq rows.shown
  /\ task \in [Tasks -> Job]

\* The spinner stays on the page only when some task has failed: however the
\* tasks overlap, the last one that ends leaves a page behind.
NoStuckSpinner == AtRest /\ view = Loading => SomeFailed

\* Unless a task has failed, the ticks on the page are the selection once
\* everything is answered, whatever was ticked, searched or refreshed meanwhile.
RowsShowSelection == AtRest /\ ~SomeFailed => rows = Rendered(catalog, selected, query)

\* A report on the page has been loaded completely, and a comparison never
\* holds more reports than the limit, wherever its ids came from.
ViewIsLoaded ==
  view.kind = "reports" => /\ ToSet(view.ids) \subseteq reports
                           /\ Len(view.ids) \in 1 .. Limit

\* README.md:76: the choice is written into the URL, so that it can be
\* bookmarked or shared: at rest the URL names the reports on the page.
UrlNamesView ==
  AtRest /\ ~SomeFailed /\ view.kind = "reports" => Kept(Url, catalog) = view.ids
================================================================================
