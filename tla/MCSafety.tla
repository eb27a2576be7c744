------------------------------- MODULE MCSafety -------------------------------
(***************************************************************************)
(* The invariants and action properties of the components that share no    *)
(* state, on one instance: part says whose steps are taken, the others     *)
(* stay as they are at first.                                              *)
(***************************************************************************)
EXTENDS WorkQueue, ReaderPool, DatabaseWorker, SessionTables, MatchTables, Migrations,
        HistoryPaging, ReplayUpload, AccountAuth, UpdateCheck, UpdateInstall, HotKeys,
        OverlayHold, ConfigStore, Telemetry, RemoteConfig, Tournaments

VARIABLE part  \* the component that runs

Parts ==
  {"work queue", "readers", "database", "sessions", "matches", "migrations", "paging",
   "replays", "account", "update check", "update", "hotkeys", "overlay", "config",
   "telemetry", "remote", "tournaments"}

firstVars == <<workVars, poolVars, dbVars, sessionVars>>
secondVars == <<matchTableVars, migrationVars, pagingVars, replayVars>>
thirdVars == <<authVars, updateCheckVars, installVars, hotKeyVars>>
fourthVars == <<holdVars, configVars, telemetryVars, remoteVars>>
fifthVars == <<tournamentVars>>
allVars == <<part, firstVars, secondVars, thirdVars, fourthVars, fifthVars>>

\* What a step of one part leaves alone.
InWorkQueue ==
  /\ part = "work queue"
  /\ UNCHANGED <<part, poolVars, dbVars, sessionVars, secondVars, thirdVars, fourthVars,
                 fifthVars>>
InReaders ==
  /\ part = "readers"
  /\ UNCHANGED <<part, workVars, dbVars, sessionVars, secondVars, thirdVars, fourthVars,
                 fifthVars>>
InDatabase ==
  /\ part = "database"
  /\ UNCHANGED <<part, workVars, poolVars, sessionVars, secondVars, thirdVars, fourthVars,
                 fifthVars>>
InSessions ==
  /\ part = "sessions"
  /\ UNCHANGED <<part, workVars, poolVars, dbVars, secondVars, thirdVars, fourthVars, fifthVars>>
InMatches ==
  /\ part = "matches"
  /\ UNCHANGED <<part, migrationVars, pagingVars, replayVars, firstVars, thirdVars,
                 fourthVars, fifthVars>>
InMigrations ==
  /\ part = "migrations"
  /\ UNCHANGED <<part, matchTableVars, pagingVars, replayVars, firstVars, thirdVars,
                 fourthVars, fifthVars>>
InPaging ==
  /\ part = "paging"
  /\ UNCHANGED <<part, matchTableVars, migrationVars, replayVars, firstVars, thirdVars,
                 fourthVars, fifthVars>>
InReplays ==
  /\ part = "replays"
  /\ UNCHANGED <<part, matchTableVars, migrationVars, pagingVars, firstVars, thirdVars,
                 fourthVars, fifthVars>>
InAccount ==
  /\ part = "account"
  /\ UNCHANGED <<part, updateCheckVars, installVars, hotKeyVars, firstVars, secondVars,
                 fourthVars, fifthVars>>
InUpdateCheck ==
  /\ part = "update check"
  /\ UNCHANGED <<part, authVars, installVars, hotKeyVars, firstVars, secondVars,
                 fourthVars, fifthVars>>
InUpdate ==
  /\ part = "update"
  /\ UNCHANGED <<part, authVars, updateCheckVars, hotKeyVars, firstVars, secondVars,
                 fourthVars, fifthVars>>
InHotkeys ==
  /\ part = "hotkeys"
  /\ UNCHANGED <<part, authVars, updateCheckVars, installVars, firstVars, secondVars,
                 fourthVars, fifthVars>>
InOverlay ==
  /\ part = "overlay"
  /\ UNCHANGED <<part, configVars, telemetryVars, remoteVars, firstVars, secondVars,
                 thirdVars, fifthVars>>
InConfig ==
  /\ part = "config"
  /\ UNCHANGED <<part, holdVars, telemetryVars, remoteVars, firstVars, secondVars,
                 thirdVars, fifthVars>>
InTelemetry ==
  /\ part = "telemetry"
  /\ UNCHANGED <<part, holdVars, configVars, remoteVars, firstVars, secondVars, thirdVars,
                 fifthVars>>
InRemote ==
  /\ part = "remote"
  /\ UNCHANGED <<part, holdVars, configVars, telemetryVars, firstVars, secondVars,
                 thirdVars, fifthVars>>
InTournaments ==
  /\ part = "tournaments"
  /\ UNCHANGED <<part, firstVars, secondVars, thirdVars, fourthVars>>

\* The other database has a match of the first game or of none: the games are interchangeable.
TheirsOfFirstGame ==
  \A i \in DOMAIN theirs : theirs[i].guid \in {Unnamed, CHOOSE g \in Games : TRUE}

PartInit ==
  /\ part \in Parts
  /\ WorkInit /\ PoolInit /\ DbInit /\ SessionInit
  /\ MatchTableInit /\ TheirsOfFirstGame /\ (part # "matches" => theirs = <<>>)
  /\ MigrationInit /\ (part # "migrations" => db.version = 0 /\ db.refs = <<>>)
  /\ PagingInit
  /\ ReplayInit
  /\ part # "replays" =>
       disk = {} /\ settings.filters /\ settings.token = "good"
  /\ AuthInit /\ (part # "account" => conf.key)
  /\ UpdateCheckInit
  /\ InstallInit
  /\ part # "update" =>
       <<installed, manifest>> = CHOOSE pair \in Versions \X Versions : TRUE
  /\ HotKeyInit
  /\ HoldInit /\ (part # "overlay" => ~padPresent)
  /\ ConfigInit /\ (part # "config" => file = NoConfigFile)
  /\ TelemetryInit
  /\ RemoteInit /\ (part # "remote" => body = CHOOSE b \in Bodies : TRUE)
  /\ TournamentsInit
  /\ part # "tournaments" =>
       user.region = NoRegion /\ user.signedIn /\ user.standardOnly

PartNext ==
  \/ InWorkQueue /\ WorkNext
  \/ InReaders /\ PoolNext
  \/ InDatabase /\ DbNext
  \/ InSessions /\ SessionNext
  \/ InMatches /\ MatchTableNext
  \/ InMigrations /\ MigrationNext
  \/ InPaging /\ PagingNext
  \/ InReplays /\ ReplayNext
  \/ InAccount /\ AuthNext
  \/ InUpdateCheck /\ UpdateCheckNext
  \/ InUpdate /\ InstallNext
  \/ InHotkeys /\ HotKeyNext
  \/ InOverlay /\ HoldNext /\ ~keyDown'  \* the overlay key: MCLiveness
  \/ InConfig /\ ConfigNext
  \/ InTelemetry /\ TelemetryNext
  \/ InRemote /\ RemoteNext
  \/ InTournaments /\ TournamentsNext

PartSpec == PartInit /\ [][PartNext]_allVars

-----------------------------------------------------------------------------
\* A job that was accepted is run once or still waits, a drain returns only when everything before
\* it has run; a connection is lent to one thread at a time and closed only when it is back; there
\* is one thread that checks for updates, and checks are as far apart as the cache says
\* (WorkQueue, ReaderPool, UpdateChecker).
WorkersSound ==
  /\ part = "work queue" => WorkTypeOK /\ NothingLost /\ DrainWaitsForAll
  /\ part = "readers" => PoolTypeOK /\ LeaseExclusive /\ LeaseOpen
  /\ part = "update check" => UpdateCheckTypeOK /\ OneCheckThread /\ ChecksAreSpaced

\* A refresh is left out only while one with its key waits or after it was told that its figures
\* are missing, and a history window shows the rows of the query and the detail of the match that
\* were asked for last (DatabaseManager, HistoryView).
QueriesAreCurrent ==
  /\ part = "database" => DbTypeOK /\ PendingKeysExact /\ StaleOnlyWhenMissed
  /\ part = "paging" => PagingTypeOK /\ RowsOfLastQuery /\ DetailOfOpened

\* The backfill puts every match of no session into exactly one, splits where a gap is longer than
\* the limit and nowhere else, and no game is counted in two sessions, whatever is merged, deleted
\* or restarted in between (SessionRepository, TransferService).
SessionsRight ==
  /\ part = "sessions" =>
       /\ SessionTypeOK /\ BackfillIsExact /\ BackfillDoesNotSplit /\ SessionsAreSittings
       /\ GamesCountedOnce /\ LinkedWhereCounted

\* A game is one row however often it is saved, sent again or imported, and a voided one leaves
\* nothing behind, unless the look for the saved match failed; an event that has a key is stored
\* once; and whatever step the program was stopped in, a database at the newest version has the
\* whole schema, no row of it refers to a missing one, and names are corrected once
\* (MatchRepository, TransferService, Migrations).
TablesRight ==
  /\ part = "matches" => MatchTableTypeOK /\ OneMatchPerGame /\ VoidedIsGone /\ KeyedEventsOnce
  /\ part = "migrations" =>
       /\ MigrationTypeOK /\ SchemaIsWhole /\ ReferencesHold /\ NamesCorrectedOnce

\* A replay marked as uploaded is on the server, and one marked as uploading is being uploaded; a
\* milestone marked as reported was received, and the minutes sent are those spent
\* (ReplayUploader, TelemetryManager).
UploadsRight ==
  /\ part = "replays" => ReplayTypeOK /\ UploadedIsOnServer /\ UploadingIsUploaded
  /\ part = "telemetry" => TelemetryTypeOK /\ ReportedWasReceived /\ MinutesAreExact

\* While a sign-in awaits approval its code is polled, a cancelled one does not complete, and a
\* session that was dropped has been revoked (AccountClient, DeviceAuthFlow, TokenStore).
AccountRight ==
  /\ part = "account" =>
       /\ AuthTypeOK /\ CodeIsPolled /\ CancelledIsNotCompleted /\ DiscardedIsRevoked

\* Once a pass has registered the hotkeys each has the key that was configured when the pass began,
\* or none, and none has one when the pass saw a capture; a push of a gamepad's menu button toggles
\* the menu once at most, however long it lasts; and a gamepad that is gone holds the overlay no
\* more (InputManager).
InputRight ==
  /\ part = "hotkeys" => HotKeyTypeOK /\ KeysAreConfigured
  /\ part = "overlay" => HoldTypeOK /\ PressActsOnce /\ NoPadHoldsNothing
  /\ part = "update" => InstallTypeOK

\* A credential in memory is the one on disk once the saver has run; an announcement that is shown
\* was fresh when the program last looked and was not put away; seasons keep the server's dates, no
\* season is recorded before it begins unless a provider of ranks fell behind, and the history
\* filter and the season summary count the same days; and the tournaments shown are those of the
\* region named, each announced once (Config, RemoteConfig, DatabaseManager, TournamentSchedule).
SettingsRight ==
  /\ part = "config" => ConfigTypeOK /\ CredentialIsOnDisk
  /\ part = "remote" =>
       /\ RemoteTypeOK /\ ShownIsFresh /\ DismissedStaysAway /\ ServerSeasonsHold
       /\ ObservedHasBegun /\ FilterIsSummary
  /\ part = "tournaments" => TournamentsTypeOK /\ SlotsOfRegion /\ RemindedOnce

\* What no step may undo on disk: tables are repaired and migrated only after a backup, and
\* repaired exactly; an import adds only what is missing, a confirmed match stays confirmed; a
\* restart keeps the uploads known and the milestones reported; no secret is written in the clear,
\* and no ciphertext is lost but with the whole file on a full disk; and the program is not
\* replaced while the one that asked for it still runs, nor ever by a version that is older.
StoredIsKept ==
  /\ RepairedAfterBackup /\ MigratedAfterBackup /\ RepairIsExact
  /\ ImportAddsTheRest /\ ConfirmedStays
  /\ RestartKeepsUploads
  /\ ReportedForGood
  /\ NeverInTheClear /\ CiphertextIsKept
  /\ AskerHasEnded /\ NeverOlder

\* What no step may do out of order: a queue's jobs run as they came, critical ones first where
\* the database worker says so; a refresh of an old session does not replace a new one; and a key
\* or button that is pressed to be bound acts on nothing else, but in a pass that had looked before
\* the capture began.
OrderIsKept ==
  /\ KeepsFifo
  /\ RunInOrder
  /\ OutdatedRefreshKeepsOut
  /\ NothingHappensInCapture
  /\ BindingPressDoesNothing

-----------------------------------------------------------------------------
\* Values for the .cfg.
KeysAtFirst == [session |-> "k1", expand |-> "k2", pan |-> "k3"]
OneKeyEach == [session |-> "k1", expand |-> "k2", pan |-> "k2"]
RowParents == [a |-> "-", b |-> "a", c |-> "b", e |-> "b"]
SomeVersions == {<<<<2>>, <<8>>>>, <<<<2>>, <<9>>>>, <<<<2>>, <<1, 0>>>>, <<<<2>>, <<0, 9>>, <<0>>>>}
SomeBodies ==
  LET S(n, a, b) == [season |-> n, start |-> a, end |-> b]
      Note(id, ends) == [id |-> id, ends |-> ends, dismissible |-> TRUE]
  IN {[notes |-> <<Note("n1", 2), Note("n2", 0)>>, seasons |-> {S(1, 1, 2)}],
      [notes |-> <<>>, seasons |-> {S(1, 1, 2), S(2, 2, 4)}]}
SeasonDays == <<1, 2>>
Slots ==
  LET Slot(start, standard) == [start |-> start, standard |-> standard]
  IN [eu |-> <<Slot(2, FALSE), Slot(3, TRUE), Slot(3, FALSE)>>, us |-> <<Slot(3, TRUE)>>]
=============================================================================
