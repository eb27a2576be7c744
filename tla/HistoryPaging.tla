---------------------------- MODULE HistoryPaging ----------------------------
(***************************************************************************)
(* The match history window: the view asks for pages and for the details   *)
(* of a match by request id, the database worker reads them and publishes  *)
(* them in HistoryViewStore, and the view takes over what the store shows  *)
(* whenever its version has changed.  The worker looks at the store's      *)
(* request id before it publishes, in two steps between which the UI       *)
(* thread may ask for something else.                                      *)
(*                                                                         *)
(* A query is known by its request id (a new one for every change of a     *)
(* filter or of the account), a row by the query and its place in it.      *)
(***************************************************************************)
EXTENDS Naturals, Sequences, SequencesExt

CONSTANTS
  PageSize,    \* kPageSize (100)
  TotalRows,   \* how many matches every query finds
  MaxQueries,  \* bound: how many queries are asked
  MaxDetails,  \* bound: how many matches are opened
  MaxMore      \* bound: how often "Load more" is pressed

ASSUME HistoryPagingAssumption ==
  /\ PageSize \in Nat \ {0} /\ TotalRows \in Nat
  /\ MaxQueries \in Nat /\ MaxDetails \in Nat /\ MaxMore \in Nat

NoDetail == 0

VARIABLES
  listView,  \* HistoryView
  store,     \* HistoryViewStore
  taken,     \* m_lastHistoryViewVersion
  visible,   \* m_historyVisible
  requests,  \* the jobs that wait for the database worker
  work,      \* the job it runs, with what it has found out, or NoQuery
  more,      \* the queries for which "Load more" has been pressed
  lost       \* a query or a detail was not queued (EnqueueDbJob, queue full)

pagingVars == <<listView, store, taken, visible, requests, work, more, lost>>

NoQuery == [kind |-> "none"]
QueryJob(id, append, offset) == [kind |-> "query", id |-> id, append |-> append, offset |-> offset]
DetailJob(id) == [kind |-> "detail", id |-> id]

PagingInit ==
  /\ listView = [id |-> 0, rows |-> <<>>, total |-> 0, loading |-> FALSE,
             detailId |-> 0, detailOpen |-> FALSE, detailLoading |-> FALSE, detail |-> NoDetail]
  /\ store = [id |-> 0, rows |-> <<>>, total |-> 0, loading |-> FALSE, append |-> FALSE,
              detailId |-> 0, detailLoading |-> FALSE, detail |-> NoDetail, version |-> 0]
  /\ taken = 0 /\ visible = FALSE
  /\ requests = <<>> /\ work = NoQuery /\ more = <<>> /\ lost = FALSE

HasMore == Len(listView.rows) < listView.total

\* The rows of a page.
Page(id, offset) ==
  [n \in 1..(IF offset >= TotalRows THEN 0
             ELSE IF TotalRows - offset < PageSize THEN TotalRows - offset ELSE PageSize)
     |-> <<id, offset + n>>]

Published(changed) == [changed EXCEPT !.version = @ + 1]

\* EnqueueDbJob of a Normal job.
AskWorker(job) ==
  \/ requests' = Append(requests, job) /\ UNCHANGED lost
  \/ lost' = TRUE /\ UNCHANGED requests

\* RequestQuery.
RequestQuery(id, append) ==
  IF id >= store.id
  THEN Published([store EXCEPT !.id = id, !.loading = TRUE, !.append = append])
  ELSE store

\* TriggerHistoryQuery(false): the window opens, a filter or the season options change.
Search ==
  /\ listView.id < MaxQueries
  /\ listView' = [listView EXCEPT !.id = @ + 1, !.loading = TRUE]
  /\ store' = RequestQuery(listView.id + 1, FALSE)
  /\ AskWorker(QueryJob(listView.id + 1, FALSE, 0))
  /\ visible' = TRUE
  /\ UNCHANGED <<taken, work, more>>

\* TriggerHistoryQuery(true): the button shows while there are more rows than the view has.
LoadMore ==
  /\ visible /\ HasMore /\ Len(more) < MaxMore
  /\ more' = Append(more, listView.id)
  /\ store' = RequestQuery(listView.id, TRUE)
  /\ AskWorker(QueryJob(listView.id, TRUE, Len(listView.rows)))
  /\ UNCHANGED <<listView, taken, visible, work>>

\* OpenHistoryDetail; the match it is for is known by the request.
OpenDetail ==
  /\ visible /\ listView.detailId < MaxDetails
  /\ listView' = [listView EXCEPT !.detailId = @ + 1, !.detailOpen = TRUE, !.detailLoading = TRUE,
                          !.detail = NoDetail]
  /\ store' = IF listView'.detailId >= store.detailId
              THEN Published([store EXCEPT !.detailId = listView'.detailId, !.detailLoading = TRUE])
              ELSE store
  /\ AskWorker(DetailJob(listView'.detailId))
  /\ UNCHANGED <<taken, visible, work, more>>

CloseDetail ==
  [listView EXCEPT !.detailOpen = FALSE, !.detailLoading = FALSE, !.detail = NoDetail]

\* HideHistory, or the detail is closed alone.
CloseWindow ==
  /\ visible /\ listView' = CloseDetail /\ visible' \in BOOLEAN
  /\ UNCHANGED <<store, taken, requests, work, more, lost>>

TakeJob ==
  /\ work = NoQuery /\ requests # <<>>
  /\ work' = [kind |-> "read", job |-> Head(requests)] /\ requests' = Tail(requests)
  /\ UNCHANGED <<listView, store, taken, visible, more, lost>>

Overtaken(job) == job.id < (IF job.kind = "query" THEN store.id ELSE store.detailId)

\* The job has read the tables and looks at the store's snapshot.
CheckRequest ==
  /\ work.kind = "read"
  /\ work' = IF Overtaken(work.job) THEN NoQuery ELSE [work EXCEPT !.kind = "publish"]
  /\ UNCHANGED <<listView, store, taken, visible, requests, more, lost>>

PublishedResult(changed) == Published(changed)

\* PublishQueryResult and PublishDetailResult, which do not look at the request id again.
PublishJob ==
  /\ work.kind = "publish" /\ work' = NoQuery
  /\ LET job == work.job
         page == Page(job.id, job.offset)
     IN store' = PublishedResult(
          IF job.kind = "query"
          THEN [store EXCEPT !.id = job.id, !.loading = FALSE, !.append = job.append,
                             !.total = TotalRows,
                             !.rows = IF job.append THEN @ \o page ELSE page]
          ELSE [store EXCEPT !.detailId = job.id, !.detailLoading = FALSE, !.detail = job.id])
  /\ UNCHANGED <<listView, taken, visible, requests, more, lost>>

\* Mutant: the view takes over whatever the store shows.
AnyRequest(id, mine) == id > 0

IsAsked(id, mine) == id = mine

\* ApplyQueryResult.
WithRows ==
  IF ~store.loading /\ store.id > 0 /\ IsAsked(store.id, listView.id)
  THEN [listView EXCEPT !.rows = IF store.append THEN @ \o store.rows ELSE store.rows,
                    !.total = store.total, !.loading = FALSE]
  ELSE listView

IsOpened(id, mine) == id = mine

\* ApplyDetailResult.
WithDetail(rowsTaken) ==
  IF ~store.detailLoading /\ store.detailId > 0 /\ IsOpened(store.detailId, listView.detailId)
  THEN [rowsTaken EXCEPT !.detail = store.detail, !.detailLoading = FALSE]
  ELSE rowsTaken

\* RefreshHistory, in every frame while the window shows.  (After a change of theme it is forced,
\* which takes over the same snapshot once more; that is left out.)
RefreshHistory ==
  /\ visible /\ taken # store.version
  /\ taken' = store.version
  /\ listView' = WithDetail(WithRows)
  /\ UNCHANGED <<store, visible, requests, work, more, lost>>

WorkerWorks == TakeJob \/ CheckRequest \/ PublishJob

PagingNext ==
  \/ Search \/ LoadMore \/ OpenDetail \/ CloseWindow
  \/ RefreshHistory
  \/ WorkerWorks

\* The worker runs what is queued, and the UI thread draws frames.
PagingFairness == WF_pagingVars(WorkerWorks) /\ WF_pagingVars(RefreshHistory)

PagingSpec == PagingInit /\ [][PagingNext]_pagingVars /\ PagingFairness

-----------------------------------------------------------------------------
PagingTypeOK ==
  /\ listView.id \in 0..MaxQueries /\ listView.rows \in Seq((1..MaxQueries) \X (1..TotalRows))
  /\ store.id \in 0..MaxQueries /\ store.version \in Nat /\ taken \in 0..store.version
  /\ listView.detail \in 0..MaxDetails /\ store.detail \in 0..MaxDetails
  /\ visible \in BOOLEAN /\ more \in Seq(1..MaxQueries)

\* When the list does not say that it is loading, its rows are those of the last query, although
\* the worker may publish an older one after it has looked at the request id ("Load more" aside:
\* asked for while a new query loads, it appends to the rows of that query).
RowsOfLastQuery ==
  ~listView.loading /\ listView.id \notin ToSet(more)
    => \A i \in DOMAIN listView.rows : listView.rows[i][1] = listView.id

\* The details shown are those of the match that was opened last.
DetailOfOpened == listView.detail \in {NoDetail, listView.detailId}

\* A list that is loading is filled while the window stays open, unless its query was not queued.
LoadingEnds == (listView.loading /\ visible) ~> (~listView.loading \/ ~visible \/ lost)
=============================================================================
