------------------------------- MODULE MCWindows ------------------------------
(***************************************************************************)
(* The windows, the first steps of a new user, and what is taken from the  *)
(* game and made of the rows, on one instance: part says whose steps are   *)
(* taken, the others stay as they are at first.                            *)
(***************************************************************************)
EXTENDS PlayerNoteWindow, InsightsWindow, AccountsWindow, OverlayFrames, OverlayLayout,
        DashboardLayout, MatchQueries, StatsApiSetup, FirstRun, LiveRoster, MatchJournal,
        PlayTracker, PlaylistFollowing

VARIABLE part  \* the component that runs

Parts ==
  {"notes", "insights", "accounts", "frames", "layout", "dashboard", "queries", "setup",
   "first run", "roster", "journal", "tracker", "playlists"}

firstVars == <<noteVars, insightsVars, accountsVars, framesVars>>
secondVars == <<layoutVars, boardVars, queryVars, setupVars>>
thirdVars == <<firstRunVars, rosterVars, journalVars, trackerVars>>
fourthVars == <<followVars>>
allVars == <<part, firstVars, secondVars, thirdVars, fourthVars>>

\* What a step of one part leaves alone.
InNotes ==
  /\ part = "notes"
  /\ UNCHANGED <<part, insightsVars, accountsVars, framesVars, secondVars, thirdVars, fourthVars>>
InInsights ==
  /\ part = "insights"
  /\ UNCHANGED <<part, noteVars, accountsVars, framesVars, secondVars, thirdVars, fourthVars>>
InAccounts ==
  /\ part = "accounts"
  /\ UNCHANGED <<part, noteVars, insightsVars, framesVars, secondVars, thirdVars, fourthVars>>
InFrames ==
  /\ part = "frames"
  /\ UNCHANGED <<part, noteVars, insightsVars, accountsVars, secondVars, thirdVars, fourthVars>>
InLayout ==
  /\ part = "layout"
  /\ UNCHANGED <<part, boardVars, queryVars, setupVars, firstVars, thirdVars, fourthVars>>
InDashboard ==
  /\ part = "dashboard"
  /\ UNCHANGED <<part, layoutVars, queryVars, setupVars, firstVars, thirdVars, fourthVars>>
InQueries ==
  /\ part = "queries"
  /\ UNCHANGED <<part, layoutVars, boardVars, setupVars, firstVars, thirdVars, fourthVars>>
InSetup ==
  /\ part = "setup"
  /\ UNCHANGED <<part, layoutVars, boardVars, queryVars, firstVars, thirdVars, fourthVars>>
InFirstRun ==
  /\ part = "first run"
  /\ UNCHANGED <<part, rosterVars, journalVars, trackerVars, firstVars, secondVars, fourthVars>>
InRoster ==
  /\ part = "roster"
  /\ UNCHANGED <<part, firstRunVars, journalVars, trackerVars, firstVars, secondVars, fourthVars>>
InJournal ==
  /\ part = "journal"
  /\ UNCHANGED <<part, firstRunVars, rosterVars, trackerVars, firstVars, secondVars, fourthVars>>
InTracker ==
  /\ part = "tracker"
  /\ UNCHANGED <<part, firstRunVars, rosterVars, journalVars, firstVars, secondVars, fourthVars>>
InPlaylists ==
  /\ part = "playlists"
  /\ UNCHANGED <<part, firstVars, secondVars, thirdVars>>

PartInit ==
  /\ part \in Parts
  /\ NotesInit
  /\ InsightsInit /\ (part # "insights" => play.changes = CHOOSE c \in Changes : TRUE)
  /\ AccountsInit /\ FramesInit
  /\ LayoutInit /\ (part # "layout" => layout.cards = LoadLayout(NoLayout))
  /\ BoardInit
  /\ part # "dashboard" =>
       allowed = {} /\ board = SanitizeBoard(CHOOSE places \in SavedBoards : TRUE)
  /\ TableInit
  /\ SetupInit
  /\ part # "setup" =>
       gameRuns /\ setup.path = NoPath /\ ~setup.check /\ files = CHOOSE f \in FirstFiles : TRUE
  /\ FirstRunInit /\ (part # "first run" => prefs = CHOOSE first \in FirstSettings : TRUE)
  /\ RosterInit /\ (part # "roster" => saved = NoPlayer)
  /\ JournalInit
  /\ TrackerInit
  /\ part # "tracker" =>
       real.complete /\ real.left = CHOOSE bounds \in Matches : TRUE
  /\ FollowInit

PartNext ==
  \/ InNotes /\ NotesNext
  \/ InInsights /\ InsightsNext
  \/ InAccounts /\ AccountsNext
  \/ InFrames /\ FramesNext
  \/ InLayout /\ LayoutNext
  \/ InDashboard /\ BoardNext
  \/ InQueries /\ TableNext
  \/ InSetup /\ SetupNext
  \/ InFirstRun /\ FirstRunNext
  \/ InRoster /\ RosterNext
  \/ InJournal /\ JournalNext
  \/ InTracker /\ TrackerNext
  \/ InPlaylists /\ FollowNext

PartSpec == PartInit /\ [][PartNext]_allVars

-----------------------------------------------------------------------------
\* What a window shows is what is stored and what was asked for: the note and the games of the
\* player that is open, each session once and the recap of the one selected, the graph of the
\* accounts chosen, the cards due by their rules at this moment, every card in one box and every
\* panel in one place (PlayerNoteView, InsightsView, AccountsView, RmlUiController, RmlUiLayout).
WindowsRight ==
  /\ part = "notes" => NotesTypeOK /\ WindowShowsRow /\ ScoutIsOfThisPlayer
  /\ part = "insights" =>
       /\ InsightsTypeOK /\ EachSessionOnce /\ RecapIsOfSelection /\ ComparesSomething
       /\ BadgesAreEarned
  /\ part = "accounts" =>
       /\ AccountsTypeOK /\ PlotIsOfChosen /\ QuietWindowIsCurrent /\ DetailIsListed
  /\ part = "frames" => FramesTypeOK /\ CardsAreRight /\ SummaryIsRight /\ SettingsAreShown
  /\ part = "layout" =>
       /\ LayoutTypeOK /\ EachCardOnce /\ CardsAreKept /\ LayoutIsSettled /\ CopyIsSaved
  /\ part = "dashboard" => BoardTypeOK /\ BoardIsWhole /\ HiddenStaysHidden

\* What is taken from the game is what happened in it: the time of play, the kickoffs and the
\* course of the score, the user's own figures, each once, and who the user is; the records with
\* the players on the field are this user's, and new or to be looked up again unless the lookup
\* was dropped or failed; and what the queries make of the rows agrees: the MMR changes of a list
\* and of a detail, the pages and the whole list, the streaks and the records with and against a
\* player (MatchAnalyticsTracker, TelemetryReducer, HistoryRepository).
FiguresRight ==
  /\ part = "tracker" =>
       /\ TrackerTypeOK /\ PlayIsReal /\ ScoreFollows /\ KickoffsAreOfTheirRound
       /\ ScorelineIsRight
  /\ part = "journal" => JournalTypeOK /\ NothingIsCreditedTwice /\ NotedOnce /\ NotedInItsMatch
  /\ part = "roster" =>
       /\ RosterTypeOK /\ RecordsAreOfSelf /\ EveryRecordIsFollowedUp /\ SelfHasPlayed
       /\ SavedIsSelf /\ SelfIsThere
  /\ part = "queries" =>
       /\ TableTypeOK /\ DeltasAgree /\ ListsAgree /\ PagesCoverTheList /\ StreaksAreRuns
       /\ EncountersAddUp /\ CountsAgree

\* The network services run as the consent says, and the account is asked for once; the game's
\* Stats API file is repaired to what it should say, with a backup and without loss of its other
\* lines; and the playlists shown are those followed or chosen, and a hidden one is nowhere (App,
\* OnboardingView, StatsApiSetup, TelemetryReducer).
SetupRight ==
  /\ part = "first run" =>
       /\ FirstRunTypeOK /\ ServicesFollowConsent /\ WizardStands /\ AskedOnce
       /\ PutOffForMigration /\ FallbackWhileAwaiting
  /\ part = "setup" =>
       /\ SetupTypeOK /\ RewriteIsRight /\ RepairIsUnderWay /\ RepairedIsTrue
       /\ RestIsKept /\ NeverWithoutBackup
  /\ part = "playlists" => FollowTypeOK /\ ExtrasAreHidden /\ CategoriesFollow

\* What no step of a window may undo or do too early: what the user typed, chose or arranged is
\* not replaced by what arrives later, and only a note that was seen is overwritten; a card or a
\* panel lands where it was let go; a window closes by itself, and the summary goes, only when its
\* time is over; the first backup of the game's file stays; and a finished match's figures and the
\* players who left it stay.
ShownIsKept ==
  /\ TypedIsKept /\ OnlySeenIsOverwritten
  /\ RefreshKeepsChoice
  /\ ManualChoiceStands
  /\ DropsKeepTheRest /\ DropsWhereShown
  /\ LandsWhereAimed
  /\ ClosesByItselfOnlyWhenIdle
  /\ SummaryLastsItsTime
  /\ BackupsAreKept
  /\ FinishedIsFinal
  /\ LeaversAreKept

-----------------------------------------------------------------------------
\* Values for the .cfg.
OneNote == {[p \in {"p", "q"} |-> IF p = "p" THEN "x" ELSE ""]}
SomeChanges == {<<1, 2, 0>>, <<-1, UnknownMmr, -2>>}
GoalRule == [mode |-> "after_event", seconds |-> 2, alsoKey |-> TRUE, hideReplay |-> TRUE]
CardSettings ==
  {GoalRule, [mode |-> "in_match", seconds |-> 0, alsoKey |-> FALSE, hideReplay |-> FALSE]}
OldLayouts ==
  {[version |-> 1, toolbox |-> FALSE, disabled |-> {}, boxes |->
     <<NewBox(<<"a", 0>>, 0, Small, <<"roster", "lobby">>), NewBox(<<"b", 0>>, 1, Fit, <<>>)>>],
   [version |-> 4, toolbox |-> TRUE, disabled |-> {"lobby"}, boxes |->
     <<NewBox(<<"a", 0>>, 0, Small, <<"roster", "roster">>),
       NewBox(<<"b", 0>>, 0, Fit, <<"lobby", "roster">>)>>],
   [version |-> 5, toolbox |-> TRUE, disabled |-> {}, boxes |->
     <<NewBox(<<"rank", 0>>, 0, Small, <<"roster">>)>>]}
OldBoards ==
  {<<>>,
   <<Placement("stats", "left", 1), Placement("roster", "left", 1),
     Placement("roster", "right", 0)>>,
   <<Placement("modes", "right", 5), [Placement("roster", "left", 0) EXCEPT !.on = FALSE],
     Placement("graph", "left", 0)>>}
SomeKinds ==
  LET Kind(mode, side, win, own) == [mode |-> mode, side |-> side, win |-> win, mine |-> own]
  IN {Kind("2v2", "with", TRUE, 2), Kind("2v2", "against", FALSE, 1),
      Kind("2v2", "against", TRUE, 0), Kind("casual", "alone", TRUE, 1),
      Kind("2v2", "with", FALSE, 3)}
SomeFiles ==
  LET off == <<Exporter, Sent(0), PortOf(1), Line("setting", 1)>>
  IN {[p \in Places |-> IF p = "default" THEN d ELSE t] :
       d \in {NoFile, off}, t \in {NoFile, <<OtherSection, Line("setting", 3)>>}}
Settings == [consent : BOOLEAN, done : BOOLEAN, asked : BOOLEAN, token : {FALSE}, key : BOOLEAN]
SomeLobbies == {("a" :> 0 @@ "o" :> 1), ("b" :> 1 @@ "o" :> 0), ("a" :> 0 @@ "b" :> 1)}
CastNames == "me" :> "x" @@ "foe" :> "x"
CastSides == "me" :> 0 @@ "foe" :> 1
MatchGuids == <<"g", "h">>
SomePlays ==
  LET Ref(id, side) == [id |-> id, name |-> "x", team |-> side]
      InGame(kind, by, ref, keyed, tells) ==
        [kind |-> kind, by |-> by, ref |-> ref, keyed |-> keyed, tells |-> tells]
  IN {InGame("shot", "me", Ref("me", 0), TRUE, TRUE),
      InGame("shot", "foe", Ref(NoPlayerId, 1), FALSE, FALSE),
      InGame("goal", "me", Ref(NoPlayerId, -1), TRUE, TRUE),
      InGame("goal", "foe", Ref(NoPlayerId, 1), FALSE, TRUE),
      InGame("crossbar", "foe", Ref("foe", 1), TRUE, FALSE)}
TwoMatches ==
  {[clock |-> 2, idle |-> 1, touches |-> 1, goals |-> 1],
   [clock |-> 0, idle |-> 0, touches |-> 0, goals |-> 3]}
CategoryOrder == <<"best", "1v1", "2v2", "3v3", "hoops", "casual">>
OnePlaylist == [i \in {10, 27} |-> IF i = 27 THEN "hoops" ELSE "1v1"]
FollowingConfs ==
  {[roster |-> "hoops", graph |-> "1v1", rank |-> "2v2", auto |-> TRUE,
    graphFollow |-> TRUE, rankFollow |-> TRUE, extras |-> TRUE]}
Duel == {<<1, 1>>}
SomeVenues ==
  {[arena |-> "hoops", context |-> "open", replay |-> TRUE],
   [arena |-> "best", context |-> "casual", replay |-> FALSE]}
=============================================================================
