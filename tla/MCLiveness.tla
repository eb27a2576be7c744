------------------------------- MODULE MCLiveness -------------------------------
(***************************************************************************)
(* The liveness properties of the components that share no state, on one   *)
(* instance: part says whose steps are taken, and a fairness condition     *)
(* asks something of a behaviour of its own part only.                     *)
(***************************************************************************)
EXTENDS WorkQueue, ReaderPool, DatabaseWorker, HistoryPaging, ReplayUpload, AccountAuth,
        UpdateCheck, HotKeys, OverlayHold, ConfigStore, Telemetry, Tournaments, PostMatch

VARIABLE part  \* the component that runs

Parts ==
  {"work queue", "readers", "database", "paging", "replays", "account", "update check",
   "hotkeys", "overlay", "config", "telemetry", "tournaments", "ratings"}

firstVars == <<workVars, poolVars, dbVars, pagingVars>>
secondVars == <<replayVars, authVars, updateCheckVars, hotKeyVars>>
thirdVars == <<holdVars, configVars, telemetryVars, tournamentVars>>
fourthVars == <<ratingVars>>
allVars == <<part, firstVars, secondVars, thirdVars, fourthVars>>

\* What a step of one part leaves alone.
InWorkQueue ==
  /\ part = "work queue"
  /\ UNCHANGED <<part, poolVars, dbVars, pagingVars, secondVars, thirdVars, fourthVars>>
InReaders ==
  /\ part = "readers"
  /\ UNCHANGED <<part, workVars, dbVars, pagingVars, secondVars, thirdVars, fourthVars>>
InDatabase ==
  /\ part = "database"
  /\ UNCHANGED <<part, workVars, poolVars, pagingVars, secondVars, thirdVars, fourthVars>>
InPaging ==
  /\ part = "paging"
  /\ UNCHANGED <<part, workVars, poolVars, dbVars, secondVars, thirdVars, fourthVars>>
InReplays ==
  /\ part = "replays"
  /\ UNCHANGED <<part, authVars, updateCheckVars, hotKeyVars, firstVars, thirdVars, fourthVars>>
InAccount ==
  /\ part = "account"
  /\ UNCHANGED <<part, replayVars, updateCheckVars, hotKeyVars, firstVars, thirdVars, fourthVars>>
InUpdateCheck ==
  /\ part = "update check"
  /\ UNCHANGED <<part, replayVars, authVars, hotKeyVars, firstVars, thirdVars, fourthVars>>
InHotkeys ==
  /\ part = "hotkeys"
  /\ UNCHANGED <<part, replayVars, authVars, updateCheckVars, firstVars, thirdVars, fourthVars>>
InOverlay ==
  /\ part = "overlay"
  /\ UNCHANGED <<part, configVars, telemetryVars, tournamentVars, firstVars, secondVars, fourthVars>>
InConfig ==
  /\ part = "config"
  /\ UNCHANGED <<part, holdVars, telemetryVars, tournamentVars, firstVars, secondVars, fourthVars>>
InTelemetry ==
  /\ part = "telemetry"
  /\ UNCHANGED <<part, holdVars, configVars, tournamentVars, firstVars, secondVars, fourthVars>>
InTournaments ==
  /\ part = "tournaments"
  /\ UNCHANGED <<part, holdVars, configVars, telemetryVars, firstVars, secondVars, fourthVars>>
InRatings ==
  /\ part = "ratings"
  /\ UNCHANGED <<part, firstVars, secondVars, thirdVars>>

PartInit ==
  /\ part \in Parts
  /\ WorkInit /\ PoolInit /\ DbInit /\ PagingInit
  /\ ReplayInit /\ settings.filters /\ settings.token = "good"
  /\ disk = {}
  /\ AuthInit /\ (part # "account" => conf.key)
  /\ UpdateCheckInit /\ HotKeyInit
  /\ HoldInit /\ ~padPresent
  /\ ConfigInit /\ (part # "config" => file = NoConfigFile)
  /\ TelemetryInit
  /\ TournamentsInit
  /\ part # "tournaments" =>
       user.region = NoRegion /\ user.signedIn /\ user.standardOnly
  /\ RatingInit

PartNext ==
  \/ InWorkQueue /\ WorkNext
  \/ InReaders /\ PoolNext
  \/ InDatabase /\ DbNext
  \/ InPaging /\ PagingNext
  \/ InReplays /\ ReplayNext
  \/ InAccount /\ AuthNext
  \/ InUpdateCheck /\ UpdateCheckNext
  \/ InHotkeys /\ HotKeyNext
  \/ InOverlay /\ HoldNext
  \/ InConfig /\ ConfigNext
  \/ InTelemetry /\ TelemetryNext
  \/ InTournaments /\ TournamentsNext
  \/ InRatings /\ RatingNext

\* The variables of the part that runs.
partVars ==
  CASE part = "work queue" -> workVars
    [] part = "readers" -> poolVars
    [] part = "database" -> dbVars
    [] part = "paging" -> pagingVars
    [] part = "replays" -> replayVars
    [] part = "account" -> authVars
    [] part = "update check" -> updateCheckVars
    [] part = "hotkeys" -> hotKeyVars
    [] part = "overlay" -> holdVars
    [] part = "config" -> configVars
    [] part = "telemetry" -> telemetryVars
    [] part = "tournaments" -> tournamentVars
    [] part = "ratings" -> ratingVars

\* What the threads of each part, and the services, do in the end.  The part that runs is fixed, so
\* that one condition may speak of a step of every part: it asks of a behaviour what its own
\* part's step asks.
FirstThread ==
  /\ UNCHANGED part
  /\ \/ part = "work queue" /\ WorkerStep
     \/ part = "readers" /\ ReaderStep("t1")
     \/ part = "database" /\ WorkerSteps
     \/ part = "paging" /\ WorkerWorks
     \/ part = "replays" /\ UploadThread
     \/ part = "account" /\ LogoutStep
     \/ part = "update check" /\ RequesterGoesOn("render")
     \/ part = "hotkeys" /\ KeyboardThread
     \/ part = "overlay" /\ KeyboardHold
     \/ part = "config" /\ SaverThread
     \/ part = "telemetry" /\ SendMilestones
     \/ part = "tournaments" /\ Look
     \/ part = "ratings" /\ Route

SecondThread ==
  /\ UNCHANGED part
  /\ \/ part = "work queue" /\ JobDone
     \/ part = "readers" /\ ReaderStep("t2")
     \/ part = "paging" /\ RefreshHistory
     \/ part = "replays" /\ BecomesDue("f1")
     \/ part = "account" /\ AgentStep
     \/ part = "update check" /\ RequesterGoesOn("settings")
     \/ part = "overlay" /\ GamepadThread
     \/ part = "config" /\ SaverJoined
     \/ part = "telemetry" /\ StoreReported
     \/ part = "tournaments" /\ FetchEnds
     \/ part = "ratings" /\ Reconciles

ThirdThread ==
  /\ UNCHANGED part
  /\ \/ part = "work queue" /\ CallerStep("c1")
     \/ part = "readers" /\ OwnerStep
     \/ part = "replays" /\ BecomesDue("f2")
     \/ part = "account" /\ RefreshStep
     \/ part = "update check" /\ ThreadGoesOn
     \/ part = "telemetry" /\ StorePending
     \/ part = "ratings" /\ CallBack

FourthThread ==
  /\ UNCHANGED part
  /\ \/ part = "work queue" /\ CallerStep("c2")
     \/ part = "replays" /\ BecomesOld("f1")
     \/ part = "update check" /\ ShutdownBackgroundTasks
     \/ part = "ratings" /\ PublishProfile

FifthThread ==
  /\ UNCHANGED part
  /\ \/ part = "work queue" /\ StopStep
     \/ part = "replays" /\ BecomesOld("f2")
     \/ part = "ratings" /\ RunJob

\* What happens again and again happens to end this way: a refusal, a pass without a message.
FirstEnding ==
  /\ UNCHANGED part
  /\ \/ part = "account" /\ Expire
     \/ part = "hotkeys" /\ HandleLast
     \/ part = "telemetry" /\ MilestonesAnswered

FairSpec ==
  /\ PartInit /\ [][PartNext]_allVars
  /\ WF_partVars(FirstThread) /\ WF_partVars(SecondThread) /\ WF_partVars(ThirdThread)
  /\ WF_partVars(FourthThread) /\ WF_partVars(FifthThread)
  /\ WF_partVars(InRatings /\ Publish) /\ WF_partVars(InRatings /\ AnswerRoster)
  /\ SF_partVars(FirstEnding) /\ SF_partVars(InHotkeys /\ EndPass)

-----------------------------------------------------------------------------
\* Whoever waits for another thread goes on: a stop and a drain return, a read gets a connection
\* or is told of the shutdown, which ends; the exit is not held up by a check for updates, whose
\* slot is given back; and whoever waits for a refresh of the session gets its result (WorkQueue,
\* ReaderPool, UpdateChecker, TokenStore).
NobodyWaitsForever ==
  /\ StopReturns /\ DrainReturnsAtLast /\ EveryReadEnds /\ ShutdownEnds
  /\ ExitIsNotHeldUp /\ SlotIsGivenBack /\ WaitersGetResult

\* What was accepted is done in the end: jobs run, a history window stops loading, an upload is
\* done or given up once nothing obstructs it, a sign-in ends, a changed configuration reaches the
\* disk, a milestone is sent, tournaments of a signed-out account go away, and a match is confirmed
\* as long as the provider counts it and lookups are answered, which is so while the account is in
\* use (WorkQueue, DatabaseManager, HistoryView, ReplayUploader, AccountClient, Config,
\* TelemetryManager, TournamentSchedule, MmrReconciler).
AcceptedWorkIsDone ==
  /\ AcceptedRuns /\ JobsAllRun /\ LoadingEnds /\ UploadsSettle
  /\ AuthEnds /\ UpdatesReachDisk /\ RecordedIsSent /\ SignedOutSeesNone
  /\ EventuallyConfirmed

\* The keys registered become those of the configuration, a key that is being bound is seen, a pan
\* key is given back, the overlay is shown while its key is held and goes away when it is not
\* (InputManager, GamepadInput).
InputSettles ==
  /\ HotKeysSettle /\ CaptureSeesKeys /\ PanKeysGivenBack
  /\ OverlayGoesAway /\ HeldIsShown

-----------------------------------------------------------------------------
\* Values for the .cfg.
KeysAtFirst == [session |-> "k1", expand |-> "k2", pan |-> "k2"]
Slots == [eu |-> <<[start |-> 1, standard |-> TRUE]>>]
=============================================================================
