----------------------------- MODULE Workspace -----------------------------
(***************************************************************************)
(* What people keep about tenders: bookmarks of their own, saved searches, *)
(* the workflow of each tender that they share, and its history.  A saved  *)
(* search belongs to whoever saved it last under its id.  A handler writes *)
(* rows one by one; the home page counts what a person keeps and caches    *)
(* the result, in one slot for everybody.                                  *)
(***************************************************************************)
EXTENDS Absent

CONSTANTS
  Person,
  Notice,    \* the tenders that they work on
  Search,    \* ids of saved searches: a form may carry any, and an empty one gets a new one
  Status,    \* the forms of a workflow; an empty one, "reset", is always possible
  Post       \* requests that change something

VARIABLES
  bookmarks, \* bookmark_records of each person
  searches,  \* saved_search_records: the owner of each row, if there is the row
  workflow,  \* workflow_records: the form that was saved last
  history,   \* workflow_events: the newest of each tender
  call,      \* what a request has still to do, and the tender whose event is next
  homeCache, \* the person it was computed for, and what was counted
  crossed,   \* history: whether a request was under way then that changes what was counted
  unsure     \* history: tenders whose events were lost or overlapped

people == <<bookmarks, searches, workflow, history, call, homeCache, crossed, unsure>>

Act == {"bookmark", "remove", "search", "forget", "reset"} \cup Status
Call == [by : Person, act : Act, todo : SUBSET (Notice \cup Search), event : Notice \cup {None}]
Summary == [by : Person, bookmarks : SUBSET Notice, searches : SUBSET Search]

ASSUME WorkspaceAssumption == None \notin Notice \cup Call \cup Person

WorkspaceInit ==
  /\ bookmarks = [p \in Person |-> {}] /\ searches = [s \in Search |-> None]
  /\ workflow = [t \in Notice |-> None] /\ history = [t \in Notice |-> None]
  /\ call = [r \in Post |-> None]
  /\ homeCache = None /\ crossed = "no" /\ unsure = {}

\* Mutant: the middleware leaves the slot alone.
ArriveUnnoticed(r, p, act, todo) ==
  /\ call[r] = None
  /\ call' = [call EXCEPT ![r] = [by |-> p, act |-> act, todo |-> todo, event |-> None]]
  /\ UNCHANGED <<bookmarks, searches, workflow, history, homeCache, crossed, unsure>>

\* The slot is emptied before the handler of any request runs.
Arrive(r, p, act, todo) ==
  /\ call[r] = None
  /\ call' = [call EXCEPT ![r] = [by |-> p, act |-> act, todo |-> todo, event |-> None]]
  /\ homeCache' = None
  /\ UNCHANGED <<bookmarks, searches, workflow, history, crossed, unsure>>

\* The handlers; the first saves a bookmark whether or not there is one.
ToggleBookmark(r, p, t) == Arrive(r, p, "bookmark", {t})
RemoveBookmark(r, p, t) == Arrive(r, p, "remove", {t})
SavedSearches(r, p, s) == Arrive(r, p, "search", {s})
DeleteSavedSearch(r, p, s) == Arrive(r, p, "forget", {s})
UpdateWorkflow(r, p, t, form) == Arrive(r, p, form, {t})
ResetWorkflow(r, p, t) == Arrive(r, p, "reset", {t})

\* The selected tenders one by one, up to the first error.
BulkTenders(r, p, selected) ==
  \E act \in {"bookmark"} \cup Status : Arrive(r, p, act, selected)

Awaited(t) == \E r \in Post : call[r] # None /\ call[r].event = t

Ready(r, t) == call[r] # None /\ call[r].event = None /\ t \in call[r].todo

\* UpsertBookmark, DeleteBookmark
WriteBookmark(r, t) ==
  LET p == call[r].by IN
  /\ Ready(r, t) /\ call[r].act \in {"bookmark", "remove"}
  /\ bookmarks' = [bookmarks EXCEPT ![p] = IF call[r].act = "remove" THEN @ \ {t} ELSE @ \cup {t}]
  /\ call' = [call EXCEPT ![r].todo = @ \ {t}]
  /\ UNCHANGED <<searches, workflow, history, homeCache, crossed, unsure>>

\* UpsertSavedSearch replaces the row of that id, its owner included, whoever
\* that is; DeleteSavedSearch deletes a row of the person only.
WriteSearch(r, s) ==
  LET p == call[r].by IN
  /\ Ready(r, s)
  /\ \/ call[r].act = "search" /\ searches' = [searches EXCEPT ![s] = p]
     \/ call[r].act = "forget" /\ searches' = [searches EXCEPT ![s] = IF @ = p THEN None ELSE @]
  /\ call' = [call EXCEPT ![r].todo = @ \ {s}]
  /\ UNCHANGED <<bookmarks, workflow, history, homeCache, crossed, unsure>>

\* Mutant: the snapshot is taken for the last tender of a bulk form only.
WriteWorkflowOnce(r, t) ==
  /\ Ready(r, t) /\ call[r].act \in Status \cup {"reset"}
  /\ workflow' = [workflow EXCEPT ![t] = call[r].act]
  /\ call' = [call EXCEPT ![r].todo = @ \ {t}, ![r].event = IF call[r].todo = {t} THEN t ELSE None]
  /\ unsure' = IF Awaited(t) THEN unsure \cup {t} ELSE unsure \ {t}
  /\ UNCHANGED <<bookmarks, searches, history, homeCache, crossed>>

\* UpsertWorkflow: UpdateWorkflow, ResetWorkflow and BulkTenders.
WriteWorkflow(r, t) ==
  /\ Ready(r, t) /\ call[r].act \in Status \cup {"reset"}
  /\ workflow' = [workflow EXCEPT ![t] = call[r].act]
  /\ call' = [call EXCEPT ![r].todo = @ \ {t}, ![r].event = t]
  /\ unsure' = IF Awaited(t) THEN unsure \cup {t} ELSE unsure \ {t}
  /\ UNCHANGED <<bookmarks, searches, history, homeCache, crossed>>

\* addWorkflowSnapshot; an error is logged, and the request goes on.
AddEvent(r) ==
  /\ call[r] # None /\ call[r].event # None
  /\ call' = [call EXCEPT ![r].event = None]
  /\ \/ history' = [history EXCEPT ![call[r].event] = call[r].act] /\ UNCHANGED unsure
     \/ unsure' = unsure \cup {call[r].event} /\ UNCHANGED history
  /\ UNCHANGED <<bookmarks, searches, workflow, homeCache, crossed>>

\* The request is done, or ends at an error, or the process does.
End(r) ==
  /\ call[r] # None
  /\ call' = [call EXCEPT ![r] = None]
  /\ unsure' = unsure \cup ({call[r].event} \ {None})
  /\ UNCHANGED <<bookmarks, searches, workflow, history, homeCache, crossed>>

\* CountSavedSearches counts the rows of the person.
Saved(p) == {s \in Search : searches[s] = p}

\* The request has still to write a row of the person, or to take one over.
Disturbs(c, p) ==
  \/ c.by = p /\ c.todo # {}
  \/ c.act = "search" /\ c.todo \cap Saved(p) # {}

\* The slot is not that of the person: it is computed, under its mutex.  (If it
\* is, the page shows it, and nothing changes.)
Home(p) ==
  /\ homeCache # None => homeCache.by # p
  /\ homeCache' = [by |-> p, bookmarks |-> bookmarks[p], searches |-> Saved(p)]
  /\ crossed' = IF \E r \in Post : call[r] # None /\ Disturbs(call[r], p) THEN "yes" ELSE "no"
  /\ UNCHANGED <<bookmarks, searches, workflow, history, call, unsure>>

\* Ten seconds are over, or the process is.
Expire ==
  /\ homeCache # None
  /\ homeCache' = None
  /\ UNCHANGED <<bookmarks, searches, workflow, history, call, crossed, unsure>>

WorkspaceNext ==
  \/ \E r \in Post :
       \/ \E p \in Person :
            \/ \E t \in Notice :
                 \/ ToggleBookmark(r, p, t) \/ RemoveBookmark(r, p, t)
                 \/ ResetWorkflow(r, p, t) \/ \E form \in Status : UpdateWorkflow(r, p, t, form)
            \/ \E s \in Search : SavedSearches(r, p, s) \/ DeleteSavedSearch(r, p, s)
            \/ \E selected \in SUBSET Notice : BulkTenders(r, p, selected)
       \/ \E t \in Notice : WriteBookmark(r, t) \/ WriteWorkflow(r, t)
       \/ \E s \in Search : WriteSearch(r, s)
       \/ AddEvent(r) \/ End(r)
  \/ \E p \in Person : Home(p)
  \/ Expire

WorkspaceSpec == WorkspaceInit /\ [][WorkspaceNext]_people

-----------------------------------------------------------------------------

WorkspaceTypeOK ==
  /\ bookmarks \in [Person -> SUBSET Notice]
  /\ searches \in [Search -> Person \cup {None}]
  /\ workflow \in [Notice -> Status \cup {"reset", None}]
  /\ history \in [Notice -> Status \cup {"reset", None}]
  /\ call \in [Post -> Call \cup {None}]
  /\ homeCache \in Summary \cup {None}
  /\ crossed \in {"yes", "no"} /\ unsure \subseteq Notice

\* The home page of a person counts what that person keeps, whoever used the
\* slot before and whoever has taken a search over since: unless it was computed
\* while a request, which had already emptied the slot, was still to write a row
\* of that person or to save over one.
HomeShowsOwnChanges ==
  homeCache # None /\ crossed = "no" =>
    /\ homeCache.bookmarks = bookmarks[homeCache.by]
    /\ homeCache.searches = Saved(homeCache.by)

\* The history of a tender ends with its workflow, for every tender of a bulk
\* form, when no event is to be written: unless requests for the tender
\* overlapped or an event was lost since its last undisturbed change.
HistoryEndsWithWorkflow ==
  \A t \in Notice \ unsure : ~Awaited(t) => history[t] = workflow[t]

=============================================================================
