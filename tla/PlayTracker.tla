----------------------------- MODULE PlayTracker -----------------------------
(***************************************************************************)
(* What MatchAnalyticsTracker makes of a match: seconds of play and of     *)
(* possession, kickoffs, and goals with the score after them, and the      *)
(* shape AnalyzeScoreline finds in those.  The game is external: it is     *)
(* joined at any point, sends its events in order, and a sample of its     *)
(* state now and then, whose scoreboard may be behind (and whose ball is   *)
(* the last touch's, as BallHit said).                                     *)
(***************************************************************************)
EXTENDS Integers, Sequences, FiniteSets

CONSTANTS
  KickoffGoal, \* kKickoffGoalSeconds, in ticks
  Matches      \* bounds: [clock: ticks of play, idle: ticks without, touches, goals] of a match

ASSUME TrackerAssumption ==
  KickoffGoal \in Nat /\ Matches \subseteq [clock : Nat, idle : Nat, touches : Nat, goals : Nat]

VARIABLES
  real,     \* the match as it is played
  tracker,  \* what MatchAnalyticsTracker remembers between events
  data    \* m_data

trackerVars == <<real, tracker, data>>

Teams == {0, 1}
NoTime == -1
NoScore == [t \in Teams |-> 0]
MaxSample == 1  \* kMaxSampleSeconds: the ticks between two samples that count

Most(a, b) == IF a > b THEN a ELSE b
Least(a, b) == IF a < b THEN a ELSE b
RoundRuns == real.phase = "live" /\ ~real.paused

-----------------------------------------------------------------------------
\* A match is joined in its first kickoff, or in play after a goal.
TrackerInit ==
  /\ \E bounds \in Matches, missed \in BOOLEAN :
       real = [phase |-> IF missed THEN "live" ELSE "countdown", paused |-> FALSE,
               left |-> bounds, score |-> IF missed THEN [t \in Teams |-> t] ELSE NoScore,
               lived |-> 0, dead |-> 0, rounds |-> <<>>, scored |-> <<>>,
               complete |-> ~missed, known |-> ~missed]
  /\ tracker = [active |-> FALSE, paused |-> FALSE, since |-> NoTime, clock |-> NoTime,
                possession |-> NoTime, awaiting |-> FALSE, score |-> NoScore, board |-> NoScore]
  /\ data = [play |-> 0, possession |-> NoScore, kickoffs |-> <<>>, goals |-> <<>>]

\* A tick passes.
SecondPasses ==
  /\ tracker' = [tracker EXCEPT !.since = IF @ = NoTime THEN @ ELSE Least(@ + 1, MaxSample + 1)]
  /\ IF RoundRuns
     THEN real.left.clock > 0 /\ real' = [real EXCEPT !.left.clock = @ - 1, !.lived = @ + 1]
     ELSE /\ real.left.idle > 0 /\ real.phase # "ended"
          /\ real' = [real EXCEPT !.left.idle = @ - 1,
                                  !.dead = IF real.phase = "goal" THEN @ + 1 ELSE @]
  /\ UNCHANGED data

-----------------------------------------------------------------------------
\* AddPlayTime; the windows the possession is cut into and drawn as are left out.
LastKickoff(r) == r.kickoffs[Len(r.kickoffs)]

AddPlayTime(r, team, dt) ==
  IF team = NoTime THEN [r EXCEPT !.play = @ + dt]
  ELSE [r EXCEPT !.play = @ + dt, !.possession[team] = @ + dt]

\* The clock only moves during live play.
ClockMoved == tracker.clock # NoTime /\ real.left.clock # tracker.clock
WithClock(t) ==
  [t EXCEPT !.active = @ \/ (ClockMoved /\ real.phase # "replay" /\ ~tracker.paused),
            !.clock = real.left.clock]

\* OnUpdateState, with the score on its scoreboard.
Sample(board) ==
  LET dt == IF tracker.since = NoTime THEN 0 ELSE Least(tracker.since, MaxSample)
      seen == [WithClock(tracker) EXCEPT !.board = board, !.since = 0]
  IN /\ real.phase # "ended" /\ UNCHANGED real
     /\ IF real.phase # "replay" /\ seen.active /\ ~seen.paused /\ dt > 0
        THEN data' = AddPlayTime(data, seen.possession, dt)
        ELSE UNCHANGED data
     /\ tracker' = seen

\* Samples come many times a second, and the ball is dead for seconds.
SampledSinceGoal == real.phase = "goal" /\ tracker.clock = real.left.clock

\* OnCountdownBegin.
CountdownBegin ==
  /\ real.phase = "replay" \/ (SampledSinceGoal /\ real.left.clock > 0)
  /\ real' = [real EXCEPT !.phase = "countdown"]
  /\ tracker' = [tracker EXCEPT !.active = FALSE, !.awaiting = FALSE]
  /\ UNCHANGED data

\* A lagging scoreboard must not undo observed goals.
Merged == [t \in Teams |-> Most(tracker.score[t], tracker.board[t])]

\* OnRoundStarted.
RoundStarted ==
  /\ real.phase = "countdown"
  /\ real' = [real EXCEPT !.phase = "live", !.rounds = Append(@, [first |-> NoTime, goal |-> NoTime]),
                          !.known = @ \/ tracker.board = real.score]
  /\ tracker' = [tracker EXCEPT !.active = ~tracker.paused, !.since = 0, !.possession = NoTime,
                                !.score = Merged, !.awaiting = TRUE]
  /\ data' = [data EXCEPT !.kickoffs =
                  Append(@, [at |-> data.play, first |-> NoTime, goal |-> NoTime])]

\* OnBallHit, by a player of the team.
BallHit(team) ==
  /\ RoundRuns /\ real.left.touches > 0
  /\ real' = [real EXCEPT !.left.touches = @ - 1,
                !.rounds = IF @ = <<>> \/ @[Len(@)].first # NoTime THEN @
                           ELSE [@ EXCEPT ![Len(@)].first = team]]
  /\ tracker' = [tracker EXCEPT !.active = @ \/ ~tracker.paused, !.awaiting = FALSE,
                                !.possession = team]
  /\ data' = IF tracker.awaiting /\ data.kickoffs # <<>> /\ LastKickoff(data).first = NoTime
               THEN [data EXCEPT !.kickoffs[Len(data.kickoffs)].first = team] ELSE data

\* OnGoalScored: a scorer that cannot be told leaves the goal without a team.
GoalRecorded(team) ==
  LET after == IF team = NoTime THEN tracker.score ELSE [tracker.score EXCEPT ![team] = @ + 1]
      quick == /\ team # NoTime /\ data.kickoffs # <<>> /\ LastKickoff(data).goal = NoTime
               /\ data.play - LastKickoff(data).at <= KickoffGoal
      goals == Append(data.goals, [team |-> team, after |-> after])
  IN /\ tracker' = [tracker EXCEPT !.active = FALSE, !.awaiting = FALSE, !.score = after]
     /\ data' = IF quick
                  THEN [data EXCEPT !.goals = goals,
                                      !.kickoffs[Len(data.kickoffs)].goal = team]
                  ELSE [data EXCEPT !.goals = goals]

GoalScored(team, told) ==
  /\ RoundRuns /\ real.left.goals > 0
  /\ GoalRecorded(IF told THEN team ELSE NoTime)
  /\ real' = [real EXCEPT !.phase = "goal", !.score[team] = @ + 1, !.left.goals = @ - 1,
                !.known = @ /\ told, !.complete = @ /\ told, !.scored = Append(@, [team |-> team]),
                !.rounds = IF @ = <<>> THEN @ ELSE [@ EXCEPT ![Len(@)].goal = team]]

\* The replay ends with GoalScored again, its scorer empty: no other goal.
ReplayOfGoal ==
  /\ SampledSinceGoal /\ real' = [real EXCEPT !.phase = "replay"]
  /\ UNCHANGED <<tracker, data>>

\* OnPaused and OnUnpaused.
Pause ==
  /\ real.phase \in {"live", "countdown"} /\ ~real.paused /\ real.left.idle > 0
  /\ real' = [real EXCEPT !.paused = TRUE] /\ tracker' = [tracker EXCEPT !.paused = TRUE]
  /\ UNCHANGED data

Unpause ==
  /\ real.paused /\ real' = [real EXCEPT !.paused = FALSE]
  /\ tracker' = IF tracker.paused THEN [tracker EXCEPT !.paused = FALSE, !.since = 0] ELSE tracker
  /\ UNCHANGED data

\* OnMatchEnded: the time is up, or a goal decides.
MatchEnds ==
  /\ (real.phase = "live" /\ real.left.clock = 0) \/ real.phase = "goal"
  /\ real.score[0] # real.score[1]
  /\ real' = [real EXCEPT !.phase = "ended"] /\ tracker' = [tracker EXCEPT !.active = FALSE]
  /\ UNCHANGED data

TrackerNext ==
  \/ SecondPasses \/ \E board \in {real.score, tracker.board} : Sample(board)
  \/ CountdownBegin \/ RoundStarted \/ ReplayOfGoal \/ Pause \/ Unpause \/ MatchEnds
  \/ \E team \in Teams : BallHit(team) \/ \E told \in BOOLEAN : GoalScored(team, told)

TrackerSpec == TrackerInit /\ [][TrackerNext]_trackerVars

-----------------------------------------------------------------------------
\* AnalyzeScoreline.

Margin(goals, n, team) ==
  LET of(t) == {i \in 1..n : goals[i].team = t}
  IN Cardinality(of(team)) - Cardinality(of(1 - team))

Comeback(goals, winner) == \E n \in 0..Len(goals) : Margin(goals, n, winner) < 0

Decisive(goals, winner) ==
  {i \in DOMAIN goals : /\ goals[i].team = winner /\ Margin(goals, i - 1, winner) = 0
                        /\ \A j \in (i + 1)..Len(goals) :
                             goals[j].team = winner => Margin(goals, j - 1, winner) # 0}

-----------------------------------------------------------------------------
TrackerTypeOK ==
  /\ real.phase \in {"countdown", "live", "goal", "replay", "ended"}
  /\ tracker.possession \in Teams \cup {NoTime} /\ tracker.since \in (0..MaxSample + 1) \cup {NoTime}
  /\ data.play \in Nat
  /\ \A t \in Teams : data.possession[t] \in Nat

\* Pauses, replays, countdowns and what was played before the match was joined do not count as
\* play, nor as possession.  The seconds between a goal and its replay may: a clock that moved
\* since the last sample starts the round again (OnUpdateState).
PlayIsReal ==
  /\ data.play <= real.lived + real.dead
  /\ data.possession[0] + data.possession[1] <= data.play

\* The tracker's score is never ahead of the game's, and equal to it once a round began with a
\* scoreboard that was up to date and every goal since was told whose it is: a goal missed is
\* made up for, one observed is neither lost nor counted again when the scoreboard lags.
ScoreFollows ==
  /\ \A t \in Teams : tracker.score[t] <= real.score[t]
  /\ real.known => tracker.score = real.score

\* A kickoff has the first touch of its own round, and as its goal the one the round ended with.
KickoffsAreOfTheirRound ==
  /\ Len(data.kickoffs) = Len(real.rounds)
  /\ \A i \in DOMAIN data.kickoffs :
       /\ data.kickoffs[i].first = real.rounds[i].first
       /\ data.kickoffs[i].goal \in {NoTime, real.rounds[i].goal}

\* Of a match whose goals were all seen: it is a comeback when the winner was behind at some
\* moment, and the decisive goal the one after which the winner stayed ahead (AnalyzeScoreline).
ScorelineIsRight ==
  real.phase = "ended" /\ real.complete =>
    LET winner == IF real.score[0] > real.score[1] THEN 0 ELSE 1
        ahead(n) == Margin(real.scored, n, winner)
        last == CHOOSE n \in DOMAIN real.scored :
                  ahead(n - 1) = 0 /\ \A m \in n..Len(real.scored) : ahead(m) > 0
    IN /\ Comeback(data.goals, winner) <=> \E n \in DOMAIN real.scored : ahead(n) < 0
       /\ Decisive(data.goals, winner) = {last}
       /\ \A i \in DOMAIN data.goals :
            data.goals[i].after[winner] - data.goals[i].after[1 - winner] = ahead(i)

=============================================================================
