# OmniStats: a TLA+ model

OmniStats is a C++20 companion for Rocket League.  It reads the game's telemetry,
keeps the live match, saves matches in SQLite, looks player ranks up on two web
services, uploads replays and milestones, and shows all of it in an overlay and a
dashboard.  This directory models its threads, queues, tables, windows and settings,
checks them with TLC on small instances and proves the safety of the concurrent core
with TLAPS for every instance.

    tlc -workers 2 -config mmr_service.cfg MmrService.tla
    tlc -workers 2 -config safety.cfg MCSafety.tla
    tlapm AccountManager_proofs.tla

## The system

A telemetry thread parses the game's socket.  `TelemetryReducer` turns each event
into a new match state and a set of side effects; `EffectRouter` hands those to the
database manager, the rank service, the account manager and Discord.  The UI thread
reads published snapshots once per frame.  Each service has one worker thread of its
own, two input threads poll keyboard and gamepad, and settings may be committed from
any of them.

| Component | State | Operations and interaction | What makes it correct |
|---|---|---|---|
| Rank request queue, `network/mmr/MmrRequestQueue` | a deque of requests, three dedupe maps, the rate-limit time | enqueued to by the UI, the effect router and the account manager, drained by the rank worker; retries call back into the account manager | no request is lost, doubled or outlives its cancel; retries are bounded |
| Rank service, `network/mmr/MmrService` | one worker thread, its batch, the lockout | asks the OmniStats rank API in batches, Tracker one by one, falls back, retries, parks | lockouts are respected, each tracked request gets one terminal event, `Stop` returns |
| Account manager and its tables, `core/accounts` | accounts, pending refreshes, a FIFO of SQLite jobs; rows, ranks, rewards | called by the UI and telemetry, called back by the rank worker | memory and tables agree, nothing of a removed account reaches the one added back |
| Reducer, `core/reducer` | the match, pending destroyed matches, finalized guids, roster, statistics | a function of state and event | a match is counted and saved once, in its own session; a figure is credited once |
| Live match store, effect router, `core/state`, `core/effects` | published snapshots, session totals | one mutex each; effects are routed after it is released | order of database jobs, session rollover |
| Reconciler, `network/mmr/MmrReconciler` | post-match records, pending matches, the publication baseline | fed by the rank service | each match gets its rating, in order; estimates give way to facts |
| Work queue, reader pool, database worker, `utils`, `database` | FIFO, leased connections, prioritised and coalesced jobs | asynchronous jobs, snapshot reads, shutdown | accepted jobs run in order, connections come back, a figure is refreshed after the last write |
| Tables, `database/repository` | matches, events, sessions, seasons, uploads, the schema | `SaveMatch`, backfill, merge, migrations | a game is one row and is counted in one session, whatever stops in between |
| Account client, `network/api` | auth state, tokens, a generation, a worker queue | device sign-in, refresh, key exchange, sign-out | a sign-out is not undone by a late answer; dropped sessions are revoked |
| Replay uploader, telemetry manager, remote config | upload rows, milestones, cached announcements | scans, uploads, retries, heartbeats | what is marked as sent was received, over restarts |
| Config and secrets, `core/config` | settings in memory and in `config.json` | a debounced saver, DPAPI | the last change is saved, no secret in the clear |
| Updater, `updater`, `network/ExternalUpdaterLauncher` | a check slot, files on disk | check, download, verify, install | one check at a time; never an older version, never under the program that asked for it |
| Tournaments | the schedule of a region | a worker and the UI's reminder | the region's slots, one reminder each |
| User interface, `ui/rml` | windows, drafts, cards, layouts, dialogs | frames, clicks, answers by request id | what is shown is what is stored and was asked for; what the user did is kept |
| Input, `input` | registered keys, held buttons, a capture | two polling threads | keys follow the configuration; a push acts once; a press that is bound does nothing else |
| First run, Stats API set-up | the consent, the game's ini file | wizard, repair by a second process | services follow the consent; the file's other lines survive |

`PROJECT.json` lists each component with its status, and the hazards by line.

Hard to test here: the rank worker releases the queue's mutex between taking a request
and finishing it, for seconds, while the user cancels, adds again and refreshes the
same account.  Effects of one event are carried out after the lock is gone, while
another thread confirms a match of the same session.  Credentials are written to the
configuration and to the token store in two steps.  A program that is killed leaves
uploads, backups and half a migration behind.  Windows show answers that were asked for
before the user chose something else.

## Modules

| Module | Models |
|---|---|
| `MmrRequestQueue` | the queue; each method is an operator on its fields |
| `MmrService` (extends it) | the worker loop and every path of a lookup, with the other threads' calls |
| `TrackedRefresh` | abstract: what refreshing a tracked account promises |
| `AccountManager` (extends `MmrService`) | the account manager, its SQLite jobs and the sink that joins it to the worker |
| `MatchLifecycle` | a match from telemetry to its session and its row; the late confirmation |
| `PostMatch` | the rating of an ended match: records, coverage, estimates, confirmations, rows |
| `FifoRun` | abstract: what a queue with one worker promises |
| `WorkQueue` | `Enqueue`, `Drain`, `Stop`, the worker; condition variables with their sleeps |
| `ReaderPool` | leases, snapshots, shutdown and destruction of the connections |
| `DatabaseWorker` | the three job queues, coalescing, limits, and the figures that follow the tables |
| `MatchTables`, `SessionTables`, `Migrations` | saving and importing matches; sessions and their backfill; start-up of the file, step by step |
| `MatchQueries`, `HistoryPaging` | what the history queries answer; the pages and details a window asks for |
| `AccountAuth` | sign-in, refresh, exchange, sign-out and shutdown of the account client |
| `ReplayUpload`, `Telemetry` | replays and milestones, over crashes and lost answers |
| `RemoteConfig`, `ConfigStore` | announcements and seasons; settings, saver thread, credentials |
| `UpdateCheck`, `UpdateInstall` | the background check and its one thread; choosing and installing a version |
| `Tournaments` | the schedule's worker and the reminders |
| `HotKeys`, `OverlayHold` | registered keys and captures; held keys and gamepads |
| `PlayerNoteWindow`, `InsightsWindow`, `AccountsWindow` | the windows of notes, sessions and accounts with the stores they read |
| `OverlayFrames`, `OverlayLayout`, `DashboardLayout` | what is drawn in a frame; boxes and cards and their saved layouts |
| `PlayTracker`, `MatchJournal`, `LiveRoster`, `PlaylistFollowing` | time of play, events, the roster and the user's identity, the playlist followed |
| `FirstRun`, `StatsApiSetup` | the consent and what starts when; the repair of the game's file |
| `MCSafety`, `MCWindows`, `MCLiveness` | the components that share no state, composed: `part` says whose steps are taken |
| `MmrService_proofs`, `AccountManager_proofs`, `Workers_proofs`, `Parts_proofs`, `MatchLifecycle_proofs`, `PostMatch_proofs` | the theorems |

The instances of `PostMatch` and `MatchLifecycle` stand at the end of those modules.  In
`PROJECT.json` a helper whose lines lie within those of the definition that uses it has no
entry of its own in `map`.

The components of `MCSafety` (and `MCWindows`, `MCLiveness`) share no variable, so any
interleaving of two of them shows nothing that each alone does not.  `PartSpec` picks
one of them at first and lets it run; the others stay as they are at first.  That keeps
the sum of their state spaces and not the product, and `[PartNext]_allVars` implies each
component's own `[Next]_vars`, which the proofs use (`PartHas...`).

### The rank queue and its worker

A request is a record of its purpose, its subject (a player, a match or an account),
its generation, the retries it has left and whether `notBefore` has passed.  `queue`
is a set: which due request of the chosen purpose comes next is left open, so every
order the code's times can produce is allowed.  `TimeComes` makes one request due.
The lockout is `open`, `closed` or `lapsed`.  The last value exists because
`ProcessCustomApiBatch` reads the clock once, when its reply comes, and compares the
lockout with that time for the rest of the batch, whatever time it has become.

The 403 strike count is left out: it only picks how long the lockout lasts.  Which
requests of a batch share a playlist is left open (`DrainChoices`).  `Clear` and
`TakeTrackedAccount` have no caller in the program and are not modelled.

`pc` names the points where another thread can be noticed: before and after a network
call, around a callback, at each queue operation.  One action goes from one point to
the next.

| `pc` | In the code |
|---|---|
| `loop` | the top of `WorkerLoop` |
| `single` | `DispatchSingle`, before it takes a request |
| `coalesce` | `DispatchBatch`, in the coalescing window |
| `announce`, `batchCall`, `answered` | a batch being reported, sent and processed |
| `fetch`, `customCall` | `FetchProfile` and its rank API lookup |
| `tracker`, `trackerCall` | `FetchProfileTracker` and its lookup |
| `notify` | `NotifyTracked`, between its check and the sink |
| `push` | `ScheduleRetry`, between its callback and the push |
| `finish` | before `Finish` |

Results are reduced to what the control tells apart: a rank API batch answers with
players, refuses (an update demand, an authentication failure, unusable data, disabled)
or fails transiently.  Statuses of tracked events are reduced to Fetching, Retrying,
Requeued (the 403 breaker), success from either source, and Failed.  Whether a
post-match lookup confirms its match is left open here; `PostMatch` decides it.
Requests of a batch are processed in any order.  The checks of `NotifyTracked` and of
`ApplyFetchEvent` under its mutex are the same test with nothing between them that the
model would see, so the event is delivered and tested in one step, after an arbitrary
wait at `notify`.  Polling spins of the worker are left out.

### The account manager

The account list, the pending set, what the list shows as under way (`busy`), the
manual cooldown, the ranks and rewards shown, the FIFO of jobs and the tables.  A rank
or a reward is represented by the generation of the request that brought it, and
`since` remembers which generations came before the account was last added, so that
old data on a new account is visible as such.  A job runs as one step; a failed SQLite
write, names and timestamps are not modelled.  The jobs `MaxJobs` counts are a bound of
the model; the code has none for critical jobs.

`KeepsPromise` is the refinement: the accounts, the dedupe map, the generation counter
and the worker's position implement `TrackedRefresh`.  A request is made only for a
tracked account, each gets one terminal event before its account may be requested
again, a removal ends it without one, and nothing ends a newer request in its place.

### Matches

`MatchLifecycle` applies one telemetry event at a time under the store's mutex and
routes its effects in a second step; the rank worker's confirmation of a match left
early comes between any two.  Matches are guids; the guid may be missing and may come
back when a match is joined again.  The rows say in which session and with which result
a match was saved.  `PostMatch` follows one playlist of one account: match `k` is the
`k`-th match played, a rating is named by the number of matches it stands for, so a
rating on the wrong row is visible.  The numbers of estimates are left out.  What is said of exact ratings, of the
carried count and of inferred results is said of steady games: answers tell how many
matches were played, and no telemetry event comes between two steps of the worker.  An
answer that is held while a whole match begins and ends would leave a snapshot so old that
`EnqueuePostMatch` takes it for a reset of the counter.

`MatchJournal`, `LiveRoster`, `PlaylistFollowing` and `PlayTracker` are the other
halves of the reducer.  They use ghosts (`extra`, `raced`, `pinned`) for reports the
code can't tell from new ones and for steps that store what was decided before somebody
else's change; what the ghosts excuse is listed under Disagreements.

### Databases and queues

In `WorkQueue` and `ReaderPool` a wait on a condition variable is a test under the mutex
and a sleep that only a notification ends, so that a missed notification shows as a
thread that sleeps for ever.  `DatabaseWorker` names tables and figures by how often the
tables had been written.  `MatchTables`, `SessionTables` and `Migrations` take one step
per transaction, each of which may fail, and may be killed between two of them; the look of
`SaveMatch` for the match may fail before it, which is swallowed, and the row is inserted.  SQLite
itself (transactions, foreign keys) is external and modelled by what it promises.

### Account, uploads, settings

`AccountAuth` knows a session by its refresh token; a request lies between two steps, and
`SetTokens` and `Clear` are two steps each, as in the code.  `ReplayUpload` and
`Telemetry` let the program stop or crash anywhere and an answer be lost; the upload thread
takes batches by id and passes over a file it cannot open.  `ConfigStore` writes through a
temporary file; the write may fail, or be cut off unnoticed.  `RemoteConfig` counts days; the
matches a player has are any number, since either provider may have answered and be behind,
and `fellBehind` remembers that a number fell within a season.  `UpdateInstall` compares
versions digit by digit as `IsNewerVersion` does; the updater may be run by hand, without a
process to wait for, the user may start the program at any time, and Windows Installer, which
the updater starts before it ends, installs some time later or fails.

### Windows and input

A window's frame is a step (two where the code reads two stores at different times);
clicks, answers of workers and commits of settings come between frames.  The input threads
look at the capture flag in one step and act in a later one, as in the code: a capture may
begin in between.  A message remembers the capture it was pressed in and a pass of the
gamepad thread how many captures had begun, which is how the properties tell such a press.
`LiveRoster` may drop the lookup of a player's record or have it fail (`unanswered`).  Rendering,
wording, positions in pixels and the keyboard's and gamepad's names are left out.
Windows, SDL, RmlUi and the game are external.

## Runs

| Run | Asks | Instance | States |
|---|---|---|---|
| `mmr_service` | safety of the queue and the worker | two accounts, one also a roster player, one retry, two generations, batches of two | 0.8 million |
| `mmr_liveness` | does every request end, does `Stop` return | one player, account and match, one retry, batches of two | 0.2 million |
| `accounts` | memory, tables and service together; the refinement | one account, one retry, two generations, three queued jobs | 1.2 million |
| `lifecycle` | is a match counted once, in its session, and saved so | two matches, sessions that end with the game and not, late confirmations | 1.0 million |
| `postmatch` | do rows and graph agree, is no rating lost or swapped, is an inferred result real | up to three matches, each way of leaving, late and joint publications | 5.3 million |
| `safety` | the components of `MCSafety` | one instance each, below | 1.8 million |
| `windows` | the components of `MCWindows` | one instance each, below | 1 million |
| `liveness` | the same, and the ratings of two matches, under the fairness of their threads | smaller instances | 54,000 |
| `accounts_stuck`, `postmatch_tied`, `postmatch_inferred`, `account_logout` | four promises the code breaks | see Findings | violated |

The properties of `safety` and `windows` are conjunctions, one conjunct per promise of a
component, each a definition of the component's module with a comment of its own:

| Property | Promises |
|---|---|
| `WorkersSound` | the work queue loses nothing and drains; a connection is lent once and open; one update check at a time |
| `QueriesAreCurrent` | a refresh is skipped only while another will read later; a window shows the rows and the detail asked for last |
| `SessionsRight` | the backfill is exact, sittings are not split, no game is counted twice |
| `TablesRight` | a game is one row, unless the look for it failed; a schema is whole and its references hold wherever a start was stopped |
| `UploadsRight` | uploaded means on the server, reported means received, minutes are exact |
| `AccountRight` | a sign-in that waits is polled, a cancelled one does not complete, a dropped session is revoked |
| `InputRight` | after a pass a hotkey has its configured key or none; a push of the menu button acts once at most; a gamepad that is gone holds nothing |
| `SettingsRight` | credentials on disk; announcements that were fresh when last looked at and are not put away; seasons, unless a provider fell behind; tournaments |
| `StoredIsKept` (steps) | backups before changes, uploads and milestones over restarts, no secret in the clear, no ciphertext lost but with its whole file, no version older or under the program that asked for it |
| `OrderIsKept` (steps) | FIFO and priorities of jobs, no late refresh; a key or button pressed to be bound acts on nothing, but in a pass that had looked before the capture |
| `WindowsRight` | notes, sessions, accounts, cards and layouts shown are those stored and chosen |
| `FiguresRight` | play time, journal, roster, and what the queries answer, agree with what happened |
| `SetupRight` | services follow the consent, the game's file is right, extras are hidden |
| `ShownIsKept` (steps) | what the user typed, chose or arranged is not replaced by what arrives later |
| `NobodyWaitsForever`, `AcceptedWorkIsDone`, `InputSettles` (liveness) | waits end, accepted work is done, input takes effect |

`PROJECT.json` keeps one mutation of a modelled definition per property, under which the
property is violated; the operators are marked `Mutant` in the modules.

The bounds.  Two generations are what an old and a new request of one account take, and
two accounts let one cancel happen while the other's request shares its batch. With one
retry both outcomes of `ScheduleRetry` occur.  A batch of two is the smallest in which
an earlier request changes the lockout for a later one.  Three queued jobs hold a save,
the delete behind it and the register behind that, the shortest sequence in which the
order of jobs matters.  One account is enough for `accounts`, because the account
manager never relates two of them, and batches are checked in `mmr_service`. Three
matches are the fewest of which an answer may cover two and leave one.  In `safety`: a
queue of one job and two callers meets its limit; two connections and three readers make
one wait; two refreshers and three tokens let an old refresh meet a new session; two
crashes or restarts meet what the first one left; a batch of one upload is what one file
that cannot be opened fills, and two touches lock it and free it; one failed look for a
saved match doubles a row (the other database holds none or the first game's match:
games are interchangeable, and this is the only place where that is used); two bindings
let two hotkeys swap their keys; two pushes with one capture let the press that was
bound be told from the next; the overlay key stays up there, since what must hold is
about the gamepad, and is pressed in `liveness`.  In `windows` one lookup of a record is
dropped or fails, and the next one must make up for it. `liveness` is smaller: two
refreshers, so that one thread waits for the other's refresh; two files, one of which is
locked or deleted; one attempt per upload and one rebinding, so that neither a second
attempt nor a swap of two keys occurs there (`safety` has both, for what must hold
then).  In `windows`: two players, sessions, accounts or graphs, so that the one shown
can be the wrong one, and three edits of a layout.  No symmetry set is used.  Deadlock
is checked where the system never stops by itself (`mmr_service`, `mmr_liveness`,
`accounts`, `accounts_stuck`); in the others a bounded number of games, clicks or starts
ends.

Fairness.  A thread is scheduled while it can run: a network call returns or times out
(libcurl has a timeout), a condition wait is woken by its notification or its limit.  A
queued request's time comes, and so does the end of a lockout.  `SF` is assumed of the
answer of a milestone request (the server answers some of infinitely many), of the expiry
of a device code, and of `HandleLast` and `EndPass`: nobody presses keys for ever faster
than the thread takes them, so that again and again the last message is handled and the
pass ends.  An upload ends only if from some point on nothing obstructs it (`Obstructed`:
its file can be opened, and no batch is full of others before it that cannot).  In
`MCLiveness` the part that runs never changes, so `FirstThread` to `FifthThread` name one
step of each part and one condition on each asks of a behaviour what its own part's
condition asks.  Nothing is assumed of the UI, of telemetry or of what the services answer,
except where a property says so: `Serviceable` states that from some point on the service
runs with a rank source and no lookup draws a 403, which is needed since the circuit
breaker puts a request back without taking a retry; `TrackedRequestsEnd` further assumes
that roster lookups stop arriving, because they always go first.

## Findings

`accounts_stuck`.  The terminal event takes an account out of `m_pending` before the
worker releases its dedupe entry.  A refresh in that window is told `AlreadyQueued`,
is treated as queued (`AccountManager.cpp:337`) and waits for an event that never
comes.  The account shows a refresh under way and refuses every later one until it is
removed or the program restarts.  docs/ACCOUNT_MANAGER.md:89 wants the account
"available for a later refresh".

`postmatch_tied`.  A match left with a tied score has no provisional row.  When it is
confirmed the update of its rating is queued before the job that saves it, finds no row,
and the row is then inserted with the rating of the roster, marked exact
(`MmrService.cpp:481`).

`postmatch_inferred`.  The result of a match left with a tied score is inferred from the
change between the rating before it and the one fetched (`MmrReconciler.cpp:355`).  The
rating before it is the one known when it began; if Tracker was a match behind then, the
change is that of two matches and is taken for the result of one.  After a win by much a
loss by little is saved as a win.  `InferenceIsReal` states, and `PostMatch_proofs` proves,
that this is the only way: where the oldest match that waits began with the rating of the
match before it, what is inferred is real.

`account_logout`.  `TokenStore::Clear` empties the configuration and only then raises the
generation.  A refresh answered in between writes its token over the sign-out, and the
user is signed in again (`TokenStore.cpp:136`).

Observed and harmless, because proved unreachable: `FetchProfile` tests the lockout
after a single rank API lookup, but no lookup starts under a lockout and a single
lookup's HTTP 429 sets none, so the test is never true (`LockoutRespected`).

## Proofs

TLAPS proves the following from the named assumptions on the constants only, so for any
number of players, accounts, requests, threads, connections, jobs, tokens, files, presses
and versions, and for every value of the bounds.  None of the properties is inductive
alone; what each needs is said below.  Every inductive invariant was an invariant of a
TLC run before it was proved.

### `MmrService_proofs`

`InductiveInvariant` (`Inductive` always holds), and from it `TypeCorrect`,
`QueueCurrent`, `OneFlight`, `EntriesReleasable`, `LockoutRespected`,
`AnsweredBeforeRelease`, `StaleInert` and `RetriesShrink`: all safety properties of
`mmr_service`.

That an entry has a live request needs that no two live requests share an entry, since
finishing one would orphan the other; that needs generations to be used once, hence that
none exceeds the counter.  `Inductive` adds to the types what the worker holds at each
`pc` (`WorkerShape`), the relation between live requests and entries (`LiveOK`:
distinct, each queued one owns its entry, numbered below the counter, each entry
releasable), that the lockout is open from the top of the loop to the call (`GateOK`),
and what brings a tracked request to `finish` (`FinishOK`).  The lemmas about `LiveOK`
say what a change of the two sets, queue and held, does to it: relabelling, dropping a
stale request, putting one back, taking one out, a new entry, a cancel, a finish.  Each
action is then one of these.  `RetriesShrink` compares the budget of a request before and
after each of these changes; it needs `LiveOK`, since a second live copy could bring the
retries back.

### `AccountManager_proofs`

`ManagerInvariant`, and from it `BookkeepingHolds`, `TablesCatchUp`, `RanksAreNew` and
the refinement `PromiseKept` (`AccountSpec => KeepsPromise`): everything `accounts`
checks.

Every step of the account manager is a step of the rank service or leaves it alone, so
`Inductive` holds here too and its lemmas are cited.  That tables and memory agree when
the queue is empty says nothing of a queue that is not, so `ManagerInv` states what the
waiting jobs will have done: `RowAfter` and `RankAfter` are the presence of a row and the
rank in it after the first `n` jobs, defined from the last job about the account, and
`Settled` says that after all of them they are what the list shows.  `Append` adds a last
job, running one removes the first; the lemmas say what either does to the two functions.
That no rank is older than its account needs the same of ranks in waiting jobs and of the
event at `notify`.  `PromiseKept` maps the accounts, the dedupe map, the generation
counter and the worker's position, and shows each action to be a step of
`TrackedRefresh` or a stutter; that an answer precedes a release is
`AnsweredBeforeRelease` again.

### `Workers_proofs`

`WorkQueueSafety`, `WorkQueueIsFifo` (the refinement of `FifoRun`), `ReaderPoolSafety`,
`UpdateCheckSafety`, and together `WorkersAreSound` for the composition; and
`SessionSafety`, for the composition `SessionsAreRight`.  `WorkInv`
relates what was accepted, what ran and what waits (jobs are numbered, so the queue is an
interval) and what a draining caller saw; `PoolInv` says which thread holds each
connection at each of its steps and that none is closed while the count of leases is not
zero; `UpdateCheckInv` says who has the preparation slot and when the thread may be
joined.

`SessionInv` relates the tables of sessions to what has been played and not yet been saved.
Everything on the queue, in the table and in the open session is in the order of time
(`InTime`, `InOrder`), and when a session is saved its own matches have been saved and
those of later sessions have not (`StillToSave`), so the matches that `LinkSessionMatches`
finds by time, or takes as the latest, were counted by no session before it.  As long as
nothing was imported, what backfill has made ends before all that it has yet to link, and
what is still to come is later than both (`Apart`): a chunk then continues the session the
last one ended with or begins after it, whatever the size of a chunk.  As long as every
backfill knows of every session, no game of a session that waits or is on is linked, and a
backfill meets none of them (`Counted`).  The chunk itself is one lemma per fact: its slices
are numbered in the order of time and each has a number of its own (`SlicesGrow`,
`SlicesBegin`), between two there is a gap and within one there is none (`SlicesAreApart`,
`SliceIsTogether`), the table it leaves (`ChunkHasEffect`), and that this keeps the parts of
the invariant (`ChunkTogether`, `ChunkApart`, `ChunkCounted`).

### `Parts_proofs`

| Theorem | States, of the composition | Invariant |
|---|---|---|
| `AccountIsRight`, `OldRefreshKeepsOut` | `AccountRight`, `OutdatedRefreshKeepsOut` | `AuthInv` |
| `UploadsAreRight` | `UploadsRight` | `ReplayInv`, `TelemetryInv` |
| `UploadsSurviveRestarts`, `MilestonesReportedForGood` | `RestartKeepsUploads`, `ReportedForGood` | the same |
| `InputIsRight` | `InputRight` | `HotKeyInv`, `HoldInv`, `UpdateInv` |
| `CaptureActsOnNothing`, `BoundPressActsOnNothing` | `NothingHappensInCapture`, `BindingPressDoesNothing` | `HotKeyInv`; `HoldInv` |
| `NeverUnderItsAsker`, `NeverReplacedByOlder` | `AskerHasEnded`, and no version `IsNewerVersion` calls older | `UpdateInv` |
| `SettingsAreRight` | `SettingsRight` | `ConfigInv`, `RemoteInv`, `TournamentsInv` |
| `SecretsAreEncrypted`, `ForeignCiphertextsStay` | `NeverInTheClear`, `CiphertextIsKept` | `ConfigInv` |
| `QueriesStayCurrent` | `QueriesAreCurrent` | `DbInv`, `PagingInv` |
| `RunInOrderHolds`, `OrderIsKeptHolds` | `RunInOrder`, `OrderIsKept` | `OrderInv`, with `WorkInv`, `AuthInv`, `HotKeyInv`, `HoldInv` |
| `DatabaseStartsWhole` | what `TablesRight` says of the start-up of the file | `MigrationInv` |
| `RepairsAreExact`, `MigrationsAreCopied` | `RepairedAfterBackup`, `RepairIsExact`, `MigratedAfterBackup` | `MigrationInv` |

`AuthInv` gives the threads' locals their types and says that a cancelled flow is seen by
the agent before it completes (`CancelIsSeen`), that an outdated refresh is known as one
by its generation (`OutdatedIsKnown`), that the configuration's key comes before its token
(`KeyComesFirst`) and that every token given out is current, being revoked or waits in a
logout (`TokensGivenOut`).  `ReplayInv` bounds the attempts and says that the one file
being uploaded is marked (`UploadIsMarked`) and that those of a batch are pending
(`BatchIsPending`).  `TelemetryInv` says that what the database
calls reported is so in memory (`ReportedInMemory`), which makes the stale write of a
flush harmless, and splits the time into whole minutes and a rest (`MinutesAndRest`), whose
product is why this is arithmetic and not a count of states.  `HotKeyInv` says that the
message in hand is from before the capture that is on (`PressesAreEarlier`) and which hotkeys
a pass has registered so far (`RegisteredSoFar`).  `HoldInv` adds that a push not yet
seen has not acted (`UnseenHaveNotActed`), that one that became a binding was seen or is in
the pass at hand (`BoundAreSeen`), that without a capture begun since the pass looked nothing
was bound since (`NoneSinceItLooked`), and that the pass knows of the gamepad (`PadIsKnown`).
`UpdateInv` adds that while the program that asked is alive the updater waits, and that from
the manifest on it holds a version it accepted against the one installed.

`ConfigInv` says that a session that can encrypt knows what its ciphertext is of and one
that cannot has the ciphertext of the file (`CipherIsKnown`, `CipherIsOfFile`), that an
unreadable file holds no credential (`FilesAreSound`), and that a file that is behind has a
save due or one that failed (`FileIsUpToDate`); a file that was cut off reads as one without
a credential.  `RemoteInv` says that what is held is the
cached answer or nothing that is fresh (`HeldIsCached`), that what was put away is stored
(`PutAwayIsStored`), which announced seasons the table has been told (`SeasonsTold`), that an
announced season of the table starts when it really did and an observed one not in the future
(`SeasonsAreTabled`); and, as long as no provider fell behind, that none starts earlier than
it really did (`SeasonsAreReal`), since a number that falls then means that one has begun
(`BegunOrBehind`).  `TournamentsInv` says that what was reminded of was due, and once
(`RemindersFired`).  Two assumptions on the surroundings are used: seasons start one after
the other and the server tells their starts rightly (`CalendarAssumption`), and a schedule
is sorted by its starts, as `ParseSchedule` leaves it (`ScheduleAssumption`).

That a refresh is turned away only while another one will read is a statement about a
queue in which saves overtake.  `DbInv` says that the pending keys are exactly those of the
refreshes that wait or run, one each (`OneRefreshEach`), that nothing shown is newer than
what is being published (`NothingIsAhead`), and that each figure that is out of date, and
was not given up, has a job that will still read it (`StaleWillBeRead`).  The lemma about
`Inserted` says where a job goes and that the other jobs keep their order; it is what the
others need to know of the queue.

The order of the jobs is the refinement of `FifoRun` by a queue that is not one: its critical
jobs and its others each keep to it.  `OrderInv` cuts the queue in two (`QueueSplit`): up to
some place all jobs are critical and after it none is, and of either class the accepted jobs
are those that ran, the one in hand and those of its half, in this order.  An insertion puts a
critical job at the cut (`InsertedByClass`), the worker takes from the first half while there
is one (`TakenByClass`), and a step is then one of `FifoRun` for one class and none for the
other (`ClassStep`).  `EmptyWhenGone` is what makes the destructor's return the end of both.

In the history window the worker may publish the answer
to an old request after it has looked at the request id, so nothing relates what the store
shows to what was asked for last.  What holds is that it is all of one query, the one the
store names, unless "Load more" was pressed for that one (`StoreIsOfQuery`), and that only
such a job appends (`AppendsWhenAsked`); the view compares the names.

`MigrationInv` says of a start-up killed anywhere what the file and the open transaction
have in common (`OnlyReferencesWait`: a repair changes references and nothing else), that
the passes of a repair remove only rows whose reference leads nowhere, and stop when there
is none (`RepairGoesOn`), that a file that is repaired or migrated has its copy or is
excused by one that failed (`CopiedFirst`), and that the correction of names and its flag
are written together (`NotCorrectedYet`).  The steps of a migration are data of the
instance: `VersionsAssumption` says that the version each table comes with is one of the
versions.

### `MatchLifecycle_proofs`

`LifecycleIsSound` (`LifecycleInv` always holds), and from it `GamesAreCountedAndSaved`,
`PendingAlwaysCounts`, `SessionsStaySound` and `LateResultsSpareMatch`: everything
`lifecycle` checks.

That a game is counted once is not inductive: a second count needs a pending copy, a match
that is still on or a guid that comes back, so `LifecycleInv` says what each of these may
be.  `PendingSound` and `EntriesSound` place every match that waits or is counted before
the one that is on, in a session that has begun, with its guid recorded; `Generations`
says that no two of them are the same life of a match.  `EffectsSound` and `SavesApart`
say what the reducer may leave to the router and that two threads never save the result of
one guid; with them `RowsFollow` says that the row of a counted match is written or is
about to be.  Where late confirmations are excluded, `RecapsFollow` says that the saved
recaps are behind the counted sessions by the effects not routed yet and by nothing else.
Where sessions outlive the game, `SplitsFollow` says that each closed session has a match
older than the pause that closed it.  One lemma per part and kind of step (a match begun,
left, ended, confirmed, routed) shows it kept.  The assumptions give the configurations their
type, keep the missing guid and `None` out of the guids (`LifecycleAssumption`) and say that
`None` is no capture, snapshot or recap (`NoneAssumption`).

### `PostMatch_proofs`

`RowsFollowGraphHolds`, `RatingsAreRealHolds`, `ExactNeverLostHolds` and
`InferenceIsRealHolds`: everything `postmatch` checks.

The invariant has five parts.  `Basics` keeps the reconciler's books: of the matches it was
told of each waits in its queue or is covered by an answer, and never both; a match whose
lookup is over has its point; a match whose result is open waits as one that was left, or is
about to be called back.  `RowsInv` says what the waiting jobs will have done
(`JobsSound`): the last update of a covered match brings the value shown, a row's first
save comes before all its updates, and an exact update or row is the last of its match.  It
is what makes an exact rating stay: no estimate waits behind it.  `SteadyInv` says of steady
games that the queue holds the last matches without a gap, that the counter says how many
came before them (`Contiguous`), and that snapshots, cache and answer in hand are as new as
the last confirmation; so an answer covers as many matches as it counts more.  With it
`ExactValues` says that an exact update has the number of its own match.  `ResultsInv` says
that only a match the answer in hand has counted holds an inferred result, and a real one
where the oldest began with the rating before it: the real results are among those that
explain the change of rating, so what all of these agree on is real (`QueueTold`).

The lemmas describe one operator each (`Decided`, `Confirmed`, `Provisional`, `Reconcile`,
`Saved`, `Updated`) by what it does to queue, points, count and jobs.

### What stays with TLC

Liveness under fairness and everything with `ENABLED` (`mmr_liveness`, `liveness`).  What a fold, `SelectSeq` or a recursive function computes
for every input, since that needs induction over data: `NeverOlder` (the numbers of a
version), `ImportAddsTheRest` and `ConfirmedStays` (the merge of match tables is a fold), so
`StoredIsKept` as a whole (its other conjuncts are proved where listed above), and the half of
`TablesRight` about matches.  Model-checked so far and not proved: the groups of `MCWindows`.

## Disagreements

Where the code does not do what a document, a test's name or a comment says, or where two
parts of it disagree, met while modelling.  Except for the four findings above the
properties are stated so that these cases are excused (by a ghost or a premise named in
the module) or not stated at all; each excuse is as narrow as the model allows.

Rank service and accounts.
- The job that saves season rewards checks the id, not the generation
  (`AccountManager.cpp:604-617`, docs/ACCOUNT_MANAGER.md:84): an account removed and added
  back while the job waits shows the old rewards.

Matches.
- A match rejoined after it was left, and left again before a round, has its guid recorded
  as finalized by `MarkDestroyedMatchVoid` (`TelemetryReducerFinalize.cpp:30`); the
  confirmation of the first life is then refused.
- A connection lost in a replay leaves `nonLiveReplayActive` set and the next match is
  void (`TelemetryReducer.cpp:142`); a gap in telemetry across two matches
  (`LiveMatchStore.cpp:142`) joins them.
- The recap of a closed session is saved before a late confirmation of one of its matches
  when two guids are pending.
- The snapshot before a match can be taken while an earlier confirmation is published
  (`MmrStatePublisher.cpp:253`); answers without a count (`MmrReconciler.cpp:594`) and
  OmniNet alone (`MmrService.cpp:762`, `:774`) leave a match without a point.
- An event of the journal without `event_key` is stored twice when a pending match is
  confirmed (`MatchRepository.cpp:130-184`, tests/database/test_MatchEvents.cpp:64
  "duplicate GUID must not double-insert anything").  `SaveMatch` continues to insert when
  its duplicate check throws (`MatchRepository.cpp:302`): the game is then two rows, and a
  confirmation or removal reaches the later one only (`unchecked`).  A merge skips a
  confirmed row when ours is pending.
- `HandleStatfeed` has no check for another match's guid, which `HandleGoalScored` has; an
  event with a native id reported twice is noted once and counted twice; a report held
  back until after the update that carries it is counted once more; crossbar hits count in
  goal replays; a late goal without guid counts for the next match; `IsSelf` by name takes
  the first player of that name whatever the team.
- After a clock that moved, a sample makes a round active again although a goal was scored
  (`MatchAnalyticsTracker.cpp:103`, test `PausesReplaysAndDeadBallTimeDoNotCountAsPlay`).
- The "missed saved ID for 2 matches" branch (`TelemetryReducerUpdateState.cpp:442-455`)
  is unreachable, and the process of elimination always has one candidate.  A deletion of
  the history while an adoption is being routed leaves the identity in memory and in
  config.json different (`RmlUiController.cpp:1494`, `EffectRouter.cpp:33`).  A player who
  was pruned and comes back without counters overwrites the figures kept.  A lookup of a
  record that is dropped at a full queue (`DatabaseManager.cpp:164-171`) or fails (`:473`)
  leaves the record as it is until that player is looked up again (`unanswered`).
- An update reduced before the user's choice of a playlist stores its category over it
  (`TelemetryReducer.cpp:16-27`, `EffectRouter.cpp:54-56`); "follow current playlist" off
  and on between two updates leaves the graph where it was
  (`TelemetryReducerUpdateState.cpp:512-520`).

Tables and queries.
- "Load more" while a new query loads mixes rows of two queries (`RmlUiViews.cpp:471`,
  `HistoryView.cpp:670`; tests/database/test_DatabaseManager.cpp:2048 "Paging without
  duplicates or gaps").
- A merge during an open session backfills its matches, which are then counted twice
  (`TransferService.cpp:937-943`); so does a session that ends in memory while the startup
  backfill runs (`DatabaseManager.cpp:305-336`).  `SessionTables` excuses both by
  `exposed`.  Older matches merged next to a backfilled session are not joined with the
  following one.  A coalesced refresh after a merge or deletion may leave figures stale
  (`DatabaseManager.cpp:52`).
- `BackupDatabaseBeforeMigration` deletes older backups before it copies, and goes on when
  the copy fails (`Migrations.cpp:28-54`, docs/ARCHITECTURE.md:81); a later launch from a
  half-done migration deletes the backup of the original.
- A list's MMR change uses LAG and shows none after a match without MMR, while the detail
  takes the last rated match, and their partitions differ; the records with other players
  flip the result for an account that was an opponent and the others do not; the "Ranked"
  filter and a row's ranked flag differ; `Paged` has no final ORDER BY; graphs and recent
  matches include pending ones; "Your Telemetry" may be a teammate's.
- A season only observed is current, but the history filter shows its first second only
  (`HistoryView.cpp:619-635`, `DatabaseManager.cpp:1315-1318`); an announced start with an
  observation before the real reset makes `ObserveRankedSeason` invent a season
  (`DatabaseManager.cpp:1236-1243`), and so does a count that fell because the provider that
  answered was behind the one before (`AccountManager.cpp:594-602`); `fellBehind` excuses
  both.

Account, uploads, telemetry, settings.
- A cancel, sign-out or second sign-in while `StartAuthorization`'s request is under way
  is undone when its answer resets `m_cancelRequested` (`DeviceAuthFlow.cpp:242`); one
  between `PollTokenOnce`'s check and `SetTokens` is overwritten; `Shutdown` and
  `BeginSignInAsync` (`AccountClient.cpp:128`) clear a queued logout; a 401 for an old
  session signs out the new one (`TokenStore.cpp:205-212`); a sign-out that reads the token
  before a refresh replaces it leaves the new session unrevoked.  A shutdown while a code
  is polled waits until the code expires (`DeviceAuthFlow.cpp:124`, `:465`).
- A replay whose token is cleared between mark and upload stays "uploading" until the next
  start (`ReplayUploader.cpp:379`), as do merged rows; a stop counts as an attempt.  A
  replay whose file is deleted or stays locked is pending for ever (`ReplayUploader.cpp:375`),
  and five of them, first by their ids, keep every other one from being uploaded
  (`Obstructed`).
- Two recorders of a milestone may queue their writes in swapped order, and a flush may
  write over a newer queued value (`TelemetryManager.cpp:125`, `:180`): a milestone may be
  sent twice.  A heartbeat whose answer is lost is counted twice.  Events appended to
  updater_events.jsonl while it is flushed are lost.
- A write of config.json cut off by a full disk replaces the file unnoticed
  (`Config.cpp:870-877`), with all settings and credentials in it, which `CiphertextIsKept`
  excuses; after a
  credential's re-encryption failed a sign-out keeps the old ciphertext on disk; a legacy
  plaintext secret is lost by the next save when encryption fails.
- `RemoteConfig::Shutdown`, `TelemetryManager::Shutdown` and
  `TournamentScheduleService::Stop` set their flag and notify without the mutex of the
  wait: the wakeup may be lost and the join takes a whole interval.
- `FetchOnce` without OmniNet skips the look at the age of what is shown
  (`RemoteConfig.cpp:483`), which may then be shown for as long as that lasts; `ShownIsFresh`
  speaks of the last look.  Falling back to its cache it does not call the snapshot callback;
  more than 256
  dismissed notes evict an arbitrary one.

Updater and first run.
- The program exits when it starts the updater and nothing starts it again when the update
  fails; with automatic updates and a package that can't be downloaded it can't start
  (`App.cpp:58`).  Two updaters share one path between verification and installation.  An
  updater that was given no process id it can read waits for nobody (`updater/main.cpp:517`),
  and one that waited does not look again: either may install over a program the user has
  started.
- The account client reads the configuration before the consent is checked, so a legacy
  key is exchanged without consent (`AccountClient.cpp:30-33`, `App.cpp:50`), and some
  services start without it.  The account prompt compares with an old copy of the settings
  (`RmlUiController.cpp:358`, `:391`) and may come twice, or behind the consent window.
- The set-up's background service loses a completion when another task starts and ends
  before the next look; an empty path counts as repaired; a port changed during a repair
  isn't noticed; two updaters may read a file the other has just emptied.

Windows and input.
- Both input threads look whether a key or button is being bound before they act on it
  (`InputManager.cpp:468` and `:472`; `:703`, `:720` and `:762`): when the capture begins in
  between, the press acts, and the button the gamepad thread has just read may be bound as
  well.  The two threads run the same unsynchronised toggles (one step each in the model).
- The demo tracker stays in goal replays for a card shown while a key is held
  (`RmlUiLayout.cpp:110`, `RmlUiController.cpp:690`; tests/ui/test_RmlUiControllerState.cpp:2489);
  the summary's flag is stored before its start (`EffectRouter.cpp:52`); a commit during a
  drag isn't taken up afterwards (`RmlUiController.cpp:626` says it is); `ProcessEvent`
  takes another thread's revision for its own (`RmlUiEvents.cpp:47`); a state that changes
  and changes back while a root is built isn't noticed.
- Enabling a widget always uses the id `card_<widget>`, so a box may be doubled
  (`WidgetSettings.cpp:78-110`); a drop writes the whole copy of the layout over a
  `toolboxOpen` written since (`InputManager.cpp:53`); a card dropped from the toolbox stays
  disabled; unknown names become the roster.
- `MoveDashboardWidget` with no slot lands second to last (`RmlUiLayout.cpp:453`); outside
  edit mode the slot counted is among shown cards and the one used among all (`:313-345`,
  `:441-456`).
- Notes: text typed during a save is replaced (`PlayerNoteView.cpp:237`); unreadable notes
  are an empty list; a failed save leaves the old text; a dropped scouting job loads for
  ever; notes aren't read again after a merge.
- Accounts: an account removed and tracked again before the window's next copy keeps its
  old graph (`AccountManager.cpp:194`).  Sessions: a selection by index shifts when a list
  grows at its top, and the live, the ended and the saved copy of one session may be listed
  twice for a frame.

## Not modelled

The wording of match stories and statistics, the people and trends pages, the settings
pages, rendering, Discord, import candidates, the parser's JSON and the providers'
requests and responses, keys and signatures, arena names, the estimates' numbers, heat maps
and boost, and the tables of rules.  Of `BuildDirectionalMmrPath`
only whether it finds a path is modelled (`Directional` in `PostMatch`).  They are pure functions
or I/O of which the modelled control depends on the outcome only, which is a choice in the
model.

Simplified, where no property depends on it: `InsightsWindow` leaves out the comparison by id
when `RebuildSessions` looks for duplicates, and saves of sessions that fail;
`StatsApiSetup` the status of a file that cannot be read (`StatsApiConfig.cpp:409-413`) and
the exit code of one that cannot be opened; `UpdateInstall` a second updater while one is at
work.

## Plan

The groups of `MCWindows`, part by part, where the parts hold no fold.
