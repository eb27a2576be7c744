--------------------------- MODULE InsightsWindow ---------------------------
(***************************************************************************)
(* The sessions window (InsightsView and the controller's part of it): the *)
(* list of the session being played, the one that just ended and the saved *)
(* ones; the recap of one of them, compared with the one before it; and    *)
(* the timer that closes the window a session's end opened.  The window's  *)
(* frame copies the live session first and reads the rest later, while     *)
(* matches are played and the database worker saves sessions, so what it   *)
(* combines may be of different moments.  People, trends and playstyle,    *)
(* read with the saved sessions, the season card and texts are left out.   *)
(***************************************************************************)
EXTENDS Integers, Sequences, SequencesExt, FiniteSets

CONSTANTS
  Changes,     \* bounds: the rating changes of the sessions, a set of sequences
  OldSessions, \* bound: how many of them are saved at first
  IdleTimeout, \* kSessionRecapIdleTimeoutMs, in frames
  MinRanked,   \* kMinSessionsForMmrBadge
  UnknownMmr,  \* no rating change is known of the session
  MaxGames,    \* bound: games of a session
  MaxLate,     \* bound: results that arrive after their session ended
  MaxSaves,     \* bound: database jobs waiting
  MaxOpened    \* bound: times the user opens or closes the window

ASSUME InsightsAssumption ==
  /\ {OldSessions, IdleTimeout, MinRanked, MaxGames, MaxLate, MaxSaves, MaxOpened} \subseteq Nat
  /\ IdleTimeout > 0 /\ MinRanked > 0
  /\ UnknownMmr \notin Int /\ Changes \subseteq Seq(Int \cup {UnknownMmr})

VARIABLES
  play,   \* the live match store: the session being played and lastSessionRecap
  sessionRows,   \* the sessions table, newest first
  dbWrites, \* the database worker's queue
  snap,   \* InsightsStore's snapshot
  panel  \* InsightsView, and the controller's members about it (and whether the selection moved
          \* with the list, the user opened it, and for how many frames it was left alone)

insightsVars == <<play, sessionRows, dbWrites, snap, panel>>

NullSession == [no |-> 0, games |-> 0]
Session(no, games) == [no |-> no, games |-> games]

InsightsInit ==
  /\ \E changes \in Changes :
       /\ play = [live |-> Session(OldSessions + 1, 0), ended |-> NullSession, news |-> FALSE,
                  show |-> FALSE, changes |-> changes, late |-> 0, opened |-> 0]
       /\ sessionRows = [i \in 1..OldSessions |-> Session(OldSessions + 1 - i, 1)]
  /\ dbWrites = <<>>
  /\ snap = [loaded |-> FALSE, sessions |-> <<>>, news |-> FALSE]
  /\ panel = [visible |-> FALSE, showsEnded |-> FALSE, idle |-> 0, timed |-> FALSE,
               archived |-> FALSE, selected |-> 1, comparing |-> FALSE, against |-> NullSession,
               copied |-> Session(OldSessions + 1, 0), midFrame |-> FALSE,
               live |-> NullSession, ended |-> NullSession, source |-> <<>>,
               list |-> <<>>, shown |-> NullSession, moved |-> FALSE, own |-> FALSE, quiet |-> 0]

-----------------------------------------------------------------------------
\* The games: a match is finalized, the session ends (and its recap asks to be shown), or the
\* result of a match of the session that ended comes late (TelemetryReducerFinalize).

PlayGame ==
  /\ play.live.games < MaxGames
  /\ play' = [play EXCEPT !.live.games = @ + 1, !.news = TRUE]
  /\ UNCHANGED <<sessionRows, dbWrites, snap, panel>>

SessionEnds ==
  /\ play.live.games > 0 /\ play.live.no < Len(play.changes) /\ Len(dbWrites) < MaxSaves
  /\ play' = [play EXCEPT !.ended = play.live, !.live = Session(play.live.no + 1, 0),
                          !.news = TRUE, !.show = TRUE]
  /\ dbWrites' = Append(dbWrites, [kind |-> "save", session |-> play.live])
  /\ UNCHANGED <<sessionRows, snap, panel>>

LateResult ==
  /\ play.ended.games > 0 /\ play.late < MaxLate /\ Len(dbWrites) < MaxSaves
  /\ play' = [play EXCEPT !.ended.games = @ + 1, !.late = @ + 1, !.news = TRUE]
  /\ dbWrites' = Append(dbWrites, [kind |-> "save", session |-> play'.ended])
  /\ UNCHANGED <<sessionRows, snap, panel>>

-----------------------------------------------------------------------------
\* The database worker: AsyncSaveSession, AsyncUpdateSession (which finds the row the session
\* has) and AsyncLoadInsights.

RowsAfter(session) ==
  IF \E i \in DOMAIN sessionRows : sessionRows[i].no = session.no
  THEN [i \in DOMAIN sessionRows |-> IF sessionRows[i].no = session.no THEN session ELSE sessionRows[i]]
  ELSE <<session>> \o sessionRows

\* UpdateSessions, when a snapshot was loaded.
UpdateSessions(stored) ==
  IF snap.loaded THEN [snap EXCEPT !.sessions = stored, !.news = TRUE] ELSE snap

RunDbJob ==
  /\ dbWrites # <<>> /\ dbWrites' = Tail(dbWrites)
  /\ LET job == Head(dbWrites) IN
     IF job.kind = "save"
     THEN sessionRows' = RowsAfter(job.session) /\ snap' = UpdateSessions(RowsAfter(job.session))
     ELSE /\ snap' = [loaded |-> TRUE, sessions |-> sessionRows, news |-> TRUE]
          /\ UNCHANGED sessionRows
  /\ UNCHANGED <<play, panel>>

-----------------------------------------------------------------------------
\* InsightsView.

ChangeOf(session) == play.changes[session.no]
HasChange(session) == ChangeOf(session) # UnknownMmr

Listed(session) == IF session.games > 0 THEN <<[no |-> session.no, games |-> session.games]>> ELSE <<>>

\* Mutant: the ended session is not looked for among the stored ones.
NeverListed(w) == FALSE

\* The ended session is in the list once: it is the stored one when its end and games agree.
ListedAsSaved(w) == w.ended \in ToSet(w.source)

SessionList(w) ==
  Listed(w.live) \o (IF ListedAsSaved(w) THEN <<>> ELSE Listed(w.ended))
  \o SelectSeq(w.source, LAMBDA s : s.games > 0)

RebuildSessions(w) ==
  LET list == SessionList(w)
      selected == IF w.selected > Len(list) THEN 1 ELSE w.selected
      no(sessions, i) == IF i \in DOMAIN sessions THEN sessions[i].no ELSE 0
  IN [w EXCEPT !.list = list, !.selected = selected,
               !.moved = @ \/ no(list, selected) # no(w.list, w.selected)]

CanCompare(w) == w.selected < Len(w.list) /\ w.shown.games > 0

RebuildComparison(w) ==
  IF CanCompare(w) THEN [w EXCEPT !.against = w.list[w.selected + 1]]
  ELSE [w EXCEPT !.comparing = FALSE, !.against = NullSession]

SetRecap(w, session, live) ==
  RebuildComparison([w EXCEPT !.shown = session, !.live = IF live THEN session ELSE @])

SetLiveAndEndedSession(w, live, ended, preferEnded) ==
  LET rebuilt == RebuildSessions([w EXCEPT !.live = live, !.ended = ended])
  IN IF w.archived THEN rebuilt
     ELSE SetRecap(rebuilt, IF preferEnded THEN ended ELSE live, ~preferEnded)

SetHistory(w, sessions) == RebuildComparison(RebuildSessions([w EXCEPT !.source = sessions]))

\* OpenSession: the session being played is shown as such.
IsLive(w, i) == w.live.games > 0 /\ i = 1

OpenSession(w, i) ==
  LET opened == [w EXCEPT !.selected = i, !.archived = ~IsLive(w, i), !.moved = FALSE]
  IN [RebuildSessions(SetRecap(opened, w.list[i], IsLive(w, i))) EXCEPT !.showsEnded = ~IsLive(w, i)]

ClearArchivedSelection(w) ==
  [w EXCEPT !.archived = FALSE, !.selected = 1, !.comparing = FALSE, !.moved = FALSE]

\* The badges: the best tenth of the ranked sessions, at least one, and the worst (equal changes
\* rank by their games).
Ranked(w) ==
  LET saved(i) == ~IsLive(w, i) /\ HasChange(w.list[i])
      before(i, j) ==
        \/ ChangeOf(w.list[i]) > ChangeOf(w.list[j])
        \/ ChangeOf(w.list[i]) = ChangeOf(w.list[j])
           /\ \/ w.list[i].games > w.list[j].games
              \/ w.list[i].games = w.list[j].games /\ i < j
  IN SetToSortSeq({i \in DOMAIN w.list : saved(i)}, before)

Band(ranked) == IF Len(ranked) < MinRanked THEN 0 ELSE IF Len(ranked) < 10 THEN 1 ELSE Len(ranked) \div 10

BestSessions(w) ==
  LET ranked == Ranked(w)
  IN {ranked[k] : k \in {k \in 1..Band(ranked) : ChangeOf(w.list[ranked[k]]) > 0}}

WorstSessions(w) ==
  LET ranked == Ranked(w)
      last(k) == ranked[Len(ranked) + 1 - k]
  IN {last(k) : k \in {k \in 1..Band(ranked) : ChangeOf(w.list[last(k)]) < 0}} \ BestSessions(w)

-----------------------------------------------------------------------------
\* The controller.

\* RefreshInsights: what changed since the last time, or everything when forced.
RefreshInsights(w, force) ==
  LET played == IF force \/ play.news
                THEN SetLiveAndEndedSession(w, w.copied, play.ended, w.showsEnded) ELSE w
  IN IF force \/ snap.news
     THEN SetHistory(played, snap.sessions) ELSE played

\* ShowInsights: after a reset the session that just ended is the useful recap.
ShowInsights(w, ended) ==
  LET shows == ended \/ (w.copied.games = 0 /\ play.ended.games > 0)
      opened == [ClearArchivedSelection(w) EXCEPT !.showsEnded = shows, !.timed = ended, !.idle = 0,
                                                    !.own = ~ended, !.quiet = 0]
  IN [RefreshInsights(opened, TRUE) EXCEPT !.visible = TRUE]

HideInsights(w) == [w EXCEPT !.visible = FALSE, !.timed = FALSE, !.showsEnded = FALSE]

MarkSeen == snap' = [snap EXCEPT !.news = FALSE]
AskForInsights == dbWrites' = IF [kind |-> "load", session |-> NullSession] \in ToSet(dbWrites) THEN dbWrites
                            ELSE Append(dbWrites, [kind |-> "load", session |-> NullSession])

\* Update: the live session is copied ...
BeginFrame ==
  /\ ~panel.midFrame /\ (play.news \/ play.show \/ snap.news \/ panel.timed)
  /\ panel' = [panel EXCEPT !.copied = play.live, !.midFrame = TRUE]
  /\ UNCHANGED <<play, sessionRows, dbWrites, snap>>

\* ... and the window is opened, closed or refreshed with it, and with what is published by then.
\* A copy that is already old again is news to the next frame (the versions differ).
StillNews == play.live # panel.copied

EndFrame ==
  /\ panel.midFrame
  /\ \/ /\ play.show /\ Len(dbWrites) < MaxSaves
        /\ panel' = [ShowInsights(panel, TRUE) EXCEPT !.midFrame = FALSE]
        /\ play' = [play EXCEPT !.show = FALSE, !.news = StillNews] /\ MarkSeen /\ AskForInsights
     \/ /\ ~play.show /\ panel.timed /\ panel.idle = IdleTimeout
        /\ panel' = [HideInsights(panel) EXCEPT !.midFrame = FALSE]
        /\ UNCHANGED <<play, dbWrites, snap>>
     \/ /\ ~play.show /\ (panel.timed => panel.idle < IdleTimeout)
        /\ LET w == [panel EXCEPT !.midFrame = FALSE, !.idle = IF panel.timed THEN @ + 1 ELSE @,
                                   !.quiet = IF @ < IdleTimeout THEN @ + 1 ELSE @]
           IN IF panel.visible
              THEN /\ panel' = RefreshInsights(w, FALSE) /\ MarkSeen
                   /\ play' = [play EXCEPT !.news = StillNews]
              ELSE panel' = w /\ UNCHANGED <<play, snap>>
        /\ UNCHANGED dbWrites
  /\ UNCHANGED sessionRows

\* A click restarts the timer (ProcessEvent), then does what it asks for (HandleViewAction).
ClickedIn(w) == [w EXCEPT !.idle = 0]

UserOpens ==
  /\ ~panel.midFrame /\ play.opened < MaxOpened /\ Len(dbWrites) < MaxSaves
  /\ panel' = ShowInsights(panel, FALSE)
  /\ play' = [play EXCEPT !.opened = @ + 1, !.news = StillNews] /\ MarkSeen /\ AskForInsights
  /\ UNCHANGED sessionRows

UserCloses ==
  /\ ~panel.midFrame /\ panel.visible
  /\ panel' = HideInsights(ClickedIn(panel))
  /\ UNCHANGED <<play, sessionRows, dbWrites, snap>>

UserSelects(i) ==
  /\ ~panel.midFrame /\ panel.visible /\ i \in DOMAIN panel.list
  /\ panel' = [OpenSession(ClickedIn(panel), i) EXCEPT !.quiet = 0]
  /\ UNCHANGED <<play, sessionRows, dbWrites, snap>>

\* StepSession, by the buttons its ends are disabled on.
UserSteps(delta) == UserSelects(panel.selected + delta)

UserCompares ==
  /\ ~panel.midFrame /\ panel.visible /\ panel.against # NullSession
  /\ panel' = [ClickedIn(panel) EXCEPT !.comparing = ~@, !.quiet = 0]
  /\ UNCHANGED <<play, sessionRows, dbWrites, snap>>

InsightsNext ==
  \/ PlayGame \/ SessionEnds \/ LateResult \/ RunDbJob \/ BeginFrame \/ EndFrame
  \/ UserOpens \/ UserCloses \/ UserCompares
  \/ \E i \in DOMAIN panel.list : UserSelects(i)
  \/ \E delta \in {-1, 1} : UserSteps(delta)

InsightsSpec == InsightsInit /\ [][InsightsNext]_insightsVars

-----------------------------------------------------------------------------
InsightsTypeOK ==
  /\ play.live.no \in 1..Len(play.changes) /\ play.ended.no < play.live.no
  /\ snap.loaded \in BOOLEAN
  /\ panel.selected \in 1..(Len(panel.list) + 1) /\ panel.idle \in 0..IdleTimeout

\* Nothing is under way: the window has seen what was played, saved and published.
AtRest ==
  /\ panel.visible /\ ~panel.midFrame /\ dbWrites = <<>>
  /\ ~play.news /\ ~snap.news /\ snap.loaded /\ panel.copied = play.live

\* Once everything published was seen, the list has the session being played, when it has games,
\* and every finished one, the newest first and none twice, although an ended session is in memory
\* and in the table (RebuildSessions).
EachSessionOnce ==
  AtRest =>
    LET played == IF play.live.games > 0 THEN 1 ELSE 0
    IN panel.list = Listed(play.live) \o [i \in 1..(play.live.no - 1) |->
                       CHOOSE s \in ToSet(sessionRows) : s.no = play.live.no - i]

\* The recap is of the session that is selected, and is compared with an earlier one.  Excepted is
\* a list that grew at its top since, whose places the selection keeps, and one that has the ended
\* session twice for a moment, until its row is saved (OpenSession, RebuildComparison).
RecapIsOfSelection ==
  panel.visible /\ ~panel.moved /\ IsInjective([i \in DOMAIN panel.list |-> panel.list[i].no])
  /\ panel.selected \in DOMAIN panel.list =>
    /\ panel.archived => panel.shown.no = panel.list[panel.selected].no
    /\ panel.against.no < panel.shown.no \/ panel.against = NullSession

\* What the user sees compared is there to compare (ToggleCompareWithPrevious).
ComparesSomething == panel.comparing => panel.against # NullSession /\ panel.shown.games > 0

\* The session being played never has a badge, no session has both, and no session without the
\* badge beats one with it (RebuildSessions).
BadgesAreEarned ==
  /\ BestSessions(panel) \cap WorstSessions(panel) = {}
  /\ \A i \in DOMAIN panel.list :
       IsLive(panel, i) => i \notin BestSessions(panel) \cup WorstSessions(panel)
  /\ \A i \in BestSessions(panel), j \in DOMAIN panel.list :
       ~IsLive(panel, j) /\ HasChange(panel.list[j]) /\ j \notin BestSessions(panel) =>
         ChangeOf(panel.list[j]) <= ChangeOf(panel.list[i])
  /\ \A i \in WorstSessions(panel), j \in DOMAIN panel.list :
       ~IsLive(panel, j) /\ HasChange(panel.list[j]) /\ j \notin WorstSessions(panel) =>
         ChangeOf(panel.list[j]) >= ChangeOf(panel.list[i])

\* A window the user opened is closed by the user only, and one a session's end opened closes by
\* itself only after the timeout without a click (HideInsights).
ClosesByItselfOnlyWhenIdle ==
  [][panel.visible /\ ~panel'.visible /\ panel.midFrame =>
       ~panel.own /\ panel.quiet = IdleTimeout]_insightsVars

=============================================================================
