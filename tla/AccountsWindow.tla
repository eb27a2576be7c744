---------------------------- MODULE AccountsWindow ----------------------------
(***************************************************************************)
(* The window of tracked accounts.  Its list is a copy of what the account *)
(* service holds, taken anew when the service's version changed or the     *)
(* user did something; the graph under it shows rank readings which the    *)
(* service's worker thread reads from the database for the accounts the    *)
(* user chose; dialogs rename, remove, add and import accounts.            *)
(***************************************************************************)
EXTENDS Naturals, Sequences, FiniteSets, SequencesExt

CONSTANTS
  Tracked,       \* the accounts there may be
  Nicknames,     \* what one may be called
  NoNickname,    \* the name of one just found
  FirstTracked,  \* those in the table at the start
  Graphs,        \* what the graph may show: a playlist and a window of time
  MaxPlotted,    \* how many accounts the graph shows at most
  MaxChosen,     \* how many are chosen for the user at first
  NobodyOpen,    \* no account
  MaxReadings,   \* bound: rank readings of an account
  MaxWorkerJobs, \* bound: the jobs that wait for the worker
  MaxFound,      \* bound: how often an account is found, added or imported
  MaxDialogs     \* bound: dialogs opened and lines toggled

ASSUME AccountsAssumption ==
  /\ NoNickname \notin Nicknames /\ NobodyOpen \notin Tracked /\ FirstTracked \subseteq Tracked
  /\ {MaxPlotted, MaxChosen, MaxReadings, MaxWorkerJobs, MaxFound, MaxDialogs} \subseteq Nat

VARIABLES
  service,   \* AccountManagerService: tracked, nick, dirty, history, news (its
             \* version is not the one the window read last), jobs
  readings,  \* the table of readings, of the accounts in the table
  list,      \* AccountsView: the copy, the choice, the dialogs
  refreshing,\* RefreshAccounts has read the version and not yet the snapshot
  back,      \* the accounts tracked again before the window saw that they were gone
  tallies     \* for the bounds: accounts found, dialogs and lines

accountsVars == <<service, readings, list, refreshing, back, tallies>>

NoGraph == [ids |-> <<>>, graph |-> NobodyOpen, loaded |-> FALSE, series |-> {}]
DetailClosed == [open |-> NobodyOpen, renaming |-> FALSE, value |-> NoNickname,
                 confirm |-> FALSE]

AccountsInit ==
  /\ service = [loaded |-> FALSE, tracked |-> <<>>, nick |-> [a \in Tracked |-> NoNickname],
                dirty |-> TRUE, history |-> NoGraph, news |-> TRUE,
                jobs |-> <<>>]
  /\ readings = [a \in Tracked |-> [row |-> a \in FirstTracked, count |-> 0]]
  /\ list = [visible |-> FALSE, accounts |-> <<>>, nick |-> [a \in Tracked |-> NoNickname],
             history |-> NoGraph, chosen |-> <<>>, offered |-> FALSE,
             graph |-> CHOOSE g \in Graphs : TRUE, detail |-> DetailClosed, add |-> "closed",
             existing |-> NobodyOpen, import |-> FALSE, plots |-> {}, plotted |-> FALSE]
  /\ refreshing = FALSE
  /\ back = {}
  /\ tallies = [found |-> 0, dialogs |-> 0]

Holds(s, a) == a \in ToSet(s.tracked)
WithJob(s, job) == [s EXCEPT !.jobs = Append(@, job)]
Publish(s) == [s EXCEPT !.news = TRUE]
WorkerHasRoom == Len(service.jobs) < MaxWorkerJobs
Finding == tallies.found < MaxFound /\ tallies' = [tallies EXCEPT !.found = @ + 1]

-----------------------------------------------------------------------------
\* The account service, called by the window and by other threads.

Register(s, a, name) ==
  Publish(WithJob([s EXCEPT !.tracked = Append(@, a), !.nick[a] = name],
                  [kind |-> "register", account |-> a]))

\* m_historyGeneration: only the answer to the last request is taken.
Superseded(jobs) == [i \in DOMAIN jobs |-> IF jobs[i].kind = "history"
                                           THEN [jobs[i] EXCEPT !.newest = FALSE] ELSE jobs[i]]

\* RequestHistory: nothing while the graph that is there, or on its way, is the one wanted.
RequestHistory(s, ids, graph) ==
  LET wanted == SelectSeq(ids, LAMBDA a : Holds(s, a))
      there == ~s.dirty /\ s.history.graph = graph /\ s.history.ids = wanted
      asked == [s EXCEPT !.dirty = FALSE, !.jobs = Superseded(@),
                  !.history = [ids |-> wanted, graph |-> graph, loaded |-> FALSE, series |-> {}]]
  IN IF ~s.loaded \/ there THEN s
     ELSE Publish(WithJob(asked, [kind |-> "history", newest |-> TRUE, ids |-> wanted]))

Rename(s, a, name) ==
  IF ~Holds(s, a) \/ s.nick[a] = name THEN s ELSE Publish([s EXCEPT !.nick[a] = name])

RemoveAccount(s, a) ==
  IF ~Holds(s, a) THEN s
  ELSE Publish(WithJob([s EXCEPT !.tracked = SelectSeq(@, LAMBDA b : b # a),
                                 !.nick[a] = NoNickname],
                       [kind |-> "remove", account |-> a]))

\* AddManual: the outcome, and the service after it.
AddManual(s, a, name) ==
  IF ~s.loaded THEN [status |-> "error", after |-> s]
  ELSE IF Holds(s, a) THEN [status |-> "tracked", after |-> s]
  ELSE [status |-> "added", after |-> Register(s, a, name)]

Untracked == {a \in Tracked : ~Holds(service, a)}

\* Other threads: the accounts are loaded, one is seen in a game, ranks come in.
LoadAccounts ==
  /\ ~service.loaded
  /\ service' = Publish([service EXCEPT !.loaded = TRUE,
                           !.tracked = SetToSeq({a \in Tracked : readings[a].row})])
  /\ UNCHANGED <<readings, list, refreshing, back, tallies>>

ObserveLocalAccount(a) ==
  /\ service.loaded /\ a \in Untracked /\ WorkerHasRoom /\ Finding
  /\ service' = Register(service, a, NoNickname)
  /\ back' = back \cup ({a} \cap ToSet(list.accounts))
  /\ UNCHANGED <<readings, list, refreshing>>

RankRead(a) ==
  /\ Holds(service, a) /\ WorkerHasRoom /\ readings[a].count < MaxReadings
  /\ service' = Publish(WithJob(service, [kind |-> "save", account |-> a]))
  /\ UNCHANGED <<readings, list, refreshing, back, tallies>>

\* The worker.  A reading of an account that is gone has no row to belong to.
SeriesOf(ids) == {[account |-> a, count |-> readings[a].count] : a \in ToSet(ids)}

WorkerJob ==
  /\ service.jobs # <<>>
  /\ LET job == Head(service.jobs)
         rest == [service EXCEPT !.jobs = Tail(@)]
     IN \/ /\ job.kind = "register" /\ service' = rest
           /\ readings' = [readings EXCEPT ![job.account].row = TRUE]
        \/ /\ job.kind = "remove" /\ service' = rest
           /\ readings' = [readings EXCEPT ![job.account] = [row |-> FALSE, count |-> 0]]
        \/ /\ job.kind = "save" /\ readings[job.account].row
           /\ readings[job.account].count < MaxReadings
           /\ readings' = [readings EXCEPT ![job.account].count = @ + 1]
           /\ service' = Publish([rest EXCEPT !.dirty = TRUE])
        \/ /\ job.kind = "save" /\ ~(/\ readings[job.account].row
                                     /\ readings[job.account].count < MaxReadings)
           /\ service' = rest /\ UNCHANGED readings
        \/ /\ job.kind = "history" /\ UNCHANGED readings
           /\ service' = IF ~job.newest THEN rest
                         ELSE Publish([rest EXCEPT !.history.series = SeriesOf(job.ids),
                                                   !.history.loaded = TRUE])
  /\ UNCHANGED <<list, refreshing, back, tallies>>

-----------------------------------------------------------------------------
\* The window.

\* BuildHistory.  The first accounts are chosen for the user, once.
Picked(w) ==
  LET kept == SelectSeq(w.chosen, LAMBDA a : a \in ToSet(w.accounts))
  IN IF kept = <<>> /\ ~w.offered THEN SubSeq(w.accounts, 1, Min({MaxChosen, Len(w.accounts)})) ELSE kept

BuildHistory(w) ==
  LET chosen == Picked(w)
      shown == /\ chosen # <<>> /\ w.history.graph = w.graph
               /\ w.history.ids = chosen /\ w.history.loaded
  IN [w EXCEPT !.chosen = chosen, !.offered = (w.accounts # <<>>), !.plotted = shown,
               !.plots = IF shown THEN w.history.series ELSE {}]

\* RebuildDetail: the dialog of an account that is gone closes.
RebuildDetail(w) ==
  IF w.detail.open \in ToSet(w.accounts) THEN w ELSE [w EXCEPT !.detail = DetailClosed]

UpdateSnapshot(w) ==
  RebuildDetail(BuildHistory([w EXCEPT !.accounts = service.tracked, !.nick = service.nick,
                                       !.history = service.history]))

\* RefreshAccounts: the version first, then the snapshot and the graph's request.
ReadVersion ==
  /\ list.visible /\ ~refreshing /\ service.news
  /\ refreshing' = TRUE /\ service' = [service EXCEPT !.news = FALSE]
  /\ UNCHANGED <<readings, list, back, tallies>>

TakeSnapshot ==
  /\ refreshing /\ WorkerHasRoom
  /\ refreshing' = FALSE /\ list' = UpdateSnapshot(list)
  /\ service' = RequestHistory(service, list'.chosen, list'.graph)
  /\ UNCHANGED <<readings, back, tallies>>

\* A click ends in a refresh, whatever the version is.
MayClick == list.visible /\ ~refreshing /\ WorkerHasRoom
Dialog == tallies.dialogs < MaxDialogs /\ tallies' = [tallies EXCEPT !.dialogs = @ + 1]
ThenRefreshed(s) ==
  service' = [s EXCEPT !.news = FALSE] /\ refreshing' = TRUE /\ UNCHANGED readings
ThenDrawn == UNCHANGED <<service, readings, refreshing>>

Undisturbed == list.detail.open = NobodyOpen /\ list.add = "closed" /\ ~list.import

ShowAccounts ==
  /\ ~refreshing /\ list' = [list EXCEPT !.visible = TRUE] /\ ~list.visible
  /\ ThenRefreshed(service) /\ UNCHANGED <<back, tallies>>

\* Nothing stays open behind a window that is hidden.
HideAccounts ==
  /\ list.visible /\ ~refreshing
  /\ list' = [list EXCEPT !.visible = FALSE, !.detail = DetailClosed, !.add = "closed",
                          !.existing = NobodyOpen, !.import = FALSE]
  /\ ThenDrawn /\ UNCHANGED <<back, tallies>>

\* Escape closes the dialog on top, else the window.
EscapeAccounts ==
  /\ list.visible /\ ~refreshing /\ ~Undisturbed
  /\ list' = IF list.add # "closed" THEN [list EXCEPT !.add = "closed", !.existing = NobodyOpen]
             ELSE IF list.import THEN [list EXCEPT !.import = FALSE]
             ELSE [list EXCEPT !.detail = DetailClosed]
  /\ ThenDrawn /\ UNCHANGED <<back, tallies>>

ToggleHistoryAccount(a) ==
  /\ MayClick /\ Undisturbed /\ a \in ToSet(list.accounts)
  /\ \/ /\ a \in ToSet(list.chosen)
        /\ list' = BuildHistory([list EXCEPT !.chosen = SelectSeq(@, LAMBDA b : b # a)])
     \/ /\ a \notin ToSet(list.chosen) /\ Len(list.chosen) < MaxPlotted
        /\ list' = BuildHistory([list EXCEPT !.chosen = Append(@, a)])
  /\ ThenRefreshed(service) /\ UNCHANGED back /\ Dialog

\* SetHistoryPlaylist, SetHistoryWindow.
SetGraph(g) ==
  /\ MayClick /\ Undisturbed /\ g # list.graph
  /\ list' = BuildHistory([list EXCEPT !.graph = g])
  /\ ThenRefreshed(service) /\ UNCHANGED back /\ Dialog

DetailOf(w, a, rename) ==
  RebuildDetail([w EXCEPT !.detail = [open |-> a, renaming |-> rename, confirm |-> FALSE,
                                      value |-> IF rename THEN w.nick[a] ELSE NoNickname]])

OpenAccount(a) ==
  /\ MayClick /\ Undisturbed /\ a \in ToSet(list.accounts)
  /\ list' = DetailOf(list, a, FALSE) /\ ThenDrawn /\ UNCHANGED back /\ Dialog

InDetail == list.visible /\ ~refreshing /\ list.detail.open # NobodyOpen

StartRename ==
  /\ InDetail /\ ~list.detail.renaming
  /\ list' = [list EXCEPT !.detail.renaming = TRUE, !.detail.value = list.nick[list.detail.open]]
  /\ ThenDrawn /\ UNCHANGED <<back, tallies>>

SetRenameValue(name) ==
  /\ InDetail /\ list.detail.renaming /\ name # list.detail.value
  /\ list' = [list EXCEPT !.detail.value = name]
  /\ ThenDrawn /\ UNCHANGED <<back, tallies>>

EndRename(w) == [w EXCEPT !.detail.renaming = FALSE, !.detail.value = NoNickname]

CancelRename ==
  InDetail /\ list.detail.renaming /\ list' = EndRename(list) /\ ThenDrawn /\ UNCHANGED <<back, tallies>>

SaveRename ==
  /\ InDetail /\ list.detail.renaming /\ WorkerHasRoom /\ list' = EndRename(list)
  /\ ThenRefreshed(Rename(service, list.detail.open, list.detail.value))
  /\ UNCHANGED <<back, tallies>>

StartRemoveConfirm ==
  /\ InDetail /\ ~list.detail.confirm /\ list' = [list EXCEPT !.detail.confirm = TRUE]
  /\ ThenDrawn /\ UNCHANGED <<back, tallies>>

CancelRemoveConfirm ==
  /\ InDetail /\ list.detail.confirm /\ list' = [list EXCEPT !.detail.confirm = FALSE]
  /\ ThenDrawn /\ UNCHANGED <<back, tallies>>

ConfirmRemove ==
  /\ InDetail /\ list.detail.confirm /\ WorkerHasRoom
  /\ list' = [list EXCEPT !.detail = DetailClosed]
  /\ ThenRefreshed(RemoveAccount(service, list.detail.open)) /\ UNCHANGED <<back, tallies>>

OpenAdd ==
  /\ MayClick /\ Undisturbed /\ list' = [list EXCEPT !.add = "open", !.existing = NobodyOpen]
  /\ ThenDrawn /\ UNCHANGED back /\ Dialog

\* An account that is tracked already is offered for renaming.
SubmitAdd(a, name) ==
  LET result == AddManual(service, a, name)
  IN /\ MayClick /\ list.add # "closed"
     /\ \/ /\ result.status = "added" /\ Finding
           /\ list' = [list EXCEPT !.add = "closed", !.existing = NobodyOpen]
           /\ ThenRefreshed(result.after)
        \/ /\ result.status = "tracked"
           /\ list' = [list EXCEPT !.add = "tracked", !.existing = a]
           /\ ThenDrawn /\ UNCHANGED tallies
        \/ /\ result.status = "error" /\ list' = [list EXCEPT !.add = "error"]
           /\ ThenDrawn /\ UNCHANGED tallies
     /\ UNCHANGED back

RenameExisting ==
  /\ list.visible /\ ~refreshing /\ list.add = "tracked"
  /\ list' = DetailOf([list EXCEPT !.add = "closed", !.existing = NobodyOpen],
                      list.existing, TRUE)
  /\ ThenDrawn /\ UNCHANGED <<back, tallies>>

OpenImport ==
  /\ MayClick /\ Undisturbed /\ list' = [list EXCEPT !.import = TRUE]
  /\ ThenDrawn /\ UNCHANGED back /\ Dialog

\* ImportKnown: every known account that is not tracked by then.
ImportKnown ==
  /\ MayClick /\ list.import /\ list' = [list EXCEPT !.import = FALSE]
  /\ \/ /\ service.loaded /\ Untracked # {} /\ Finding
        /\ ThenRefreshed(FoldLeft(LAMBDA s, a : Register(s, a, NoNickname), service,
                                  SetToSeq(Untracked)))
     \/ /\ ~service.loaded \/ Untracked = {}
        /\ ThenRefreshed(service) /\ UNCHANGED tallies
  /\ UNCHANGED back

-----------------------------------------------------------------------------
AccountsNext ==
  \/ LoadAccounts \/ WorkerJob \/ ReadVersion \/ TakeSnapshot
  \/ \E a \in Tracked : ObserveLocalAccount(a) \/ RankRead(a)
  \/ ShowAccounts \/ HideAccounts \/ EscapeAccounts
  \/ \E a \in Tracked : ToggleHistoryAccount(a) \/ OpenAccount(a)
  \/ \E g \in Graphs : SetGraph(g)
  \/ StartRename \/ CancelRename \/ SaveRename
  \/ \E name \in Nicknames : SetRenameValue(name)
  \/ StartRemoveConfirm \/ CancelRemoveConfirm \/ ConfirmRemove
  \/ OpenAdd \/ RenameExisting \/ OpenImport \/ ImportKnown
  \/ \E a \in Tracked, name \in Nicknames \cup {NoNickname} : SubmitAdd(a, name)

AccountsSpec == AccountsInit /\ [][AccountsNext]_accountsVars

-----------------------------------------------------------------------------
AccountsTypeOK ==
  /\ ToSet(service.tracked) \subseteq Tracked /\ IsInjective(service.tracked)
  /\ service.nick \in [Tracked -> Nicknames \cup {NoNickname}]
  /\ Len(service.jobs) <= MaxWorkerJobs + Cardinality(Tracked)
  /\ ToSet(list.chosen) \subseteq Tracked /\ Len(list.chosen) <= MaxPlotted
  /\ list.graph \in Graphs /\ list.detail.open \in Tracked \cup {NobodyOpen}
  /\ list.detail.value \in Nicknames \cup {NoNickname}
  /\ list.add \in {"closed", "open", "tracked", "error"}
  /\ list.existing \in Tracked \cup {NobodyOpen}

\* The lines of the graph are those of the accounts the chips above it show as chosen, and all
\* of them are accounts of the list (BuildHistory, RequestHistory).
PlotIsOfChosen ==
  list.visible =>
    /\ ToSet(list.chosen) \subseteq ToSet(list.accounts)
    /\ list.plotted => {s.account : s \in list.plots} = ToSet(list.chosen)

Quiet == list.visible /\ ~refreshing /\ ~service.news /\ service.jobs = <<>> /\ service.loaded

\* Once nothing is under way the window shows what the service and the table hold, the graph
\* with every reading: a change between the two readings of RefreshAccounts is not missed, a
\* reading saved after the graph was asked for is asked for again, and an account removed and
\* tracked again does not show the readings it had, unless it came back before the window saw
\* that it was gone (RequestHistory then keeps the graph it has).
QuietWindowIsCurrent ==
  Quiet =>
    /\ list.accounts = service.tracked /\ list.nick = service.nick
    /\ list.chosen # <<>> =>
         /\ list.plotted
         /\ \A plot \in list.plots : \/ plot.account \in back
                                     \/ plot.count = readings[plot.account].count
    /\ \A a \in Tracked : readings[a].row <=> Holds(service, a)

\* The dialog is of an account in the list (RebuildDetail).
DetailIsListed ==
  list.detail.open # NobodyOpen => list.detail.open \in ToSet(list.accounts)

\* A refresh leaves the user's choice of lines alone but for accounts that are gone, one the
\* user has made empty too, and never what the user is typing.
RefreshKeepsChoice ==
  [][refreshing /\ ~refreshing' /\ list.accounts # <<>>
     => /\ list'.chosen = SelectSeq(list.chosen, LAMBDA a : a \in ToSet(list'.accounts))
        /\ list'.detail.open = list.detail.open => list'.detail = list.detail]_accountsVars

=============================================================================
