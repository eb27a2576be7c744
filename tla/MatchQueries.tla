---------------------------- MODULE MatchQueries ----------------------------
(***************************************************************************)
(* The queries of HistoryRepository.cpp over the table of matches: the     *)
(* match list of the history window, a match's detail, the records with    *)
(* and against a player, the outcomes, the streaks, the figures of a mode  *)
(* and the rating graph. Each is its own SQL, and a window shows several   *)
(* of them side by side, so what matters is that they tell the same story  *)
(* whatever was saved, confirmed, deleted or merged in before.             *)
(*                                                                         *)
(* A row of the table is a record; its index is the order of its id, and   *)
(* several rows may carry one timestamp. "mine" is the rating the account  *)
(* "me" had after the match (0: unknown), "side" says whether "other"      *)
(* played with it, against it or not at all. The playlist id of a match    *)
(* agrees with its gamemode, no rating is an estimate, and every match has *)
(* its scoreboard.                                                         *)
(***************************************************************************)
EXTENDS Integers, SequencesExt, FiniteSetsExt

CONSTANTS
    MatchKinds,      \* the matches played: [mode, side, win, mine]
    NoDelta,    \* the rating change of a match is not known
    PageRows,   \* rows of one page
    MaxMatches, \* bound: rows in the table
    LastPlayed     \* bound: timestamps

ASSUME QueriesAssumption == MaxMatches \in Nat /\ LastPlayed \in Nat

VARIABLE history

queryVars == <<history>>

Accounts == {"me", "other"}
Modes == {k.mode : k \in MatchKinds}
Sides == {"with", "against", "alone"}
Sorts == {"Newest", "Oldest", "BiggestWin", "BiggestLoss"}

TableInit == history = <<>>

-----------------------------------------------------------------------------
(* What fills the table.                                                   *)

\* SaveMatch, or a merge, which brings a row whose timestamp is older.
StoreRow ==
    /\ Len(history) < MaxMatches
    /\ \E k \in MatchKinds, t \in 1..LastPlayed, p \in BOOLEAN :
         history' = Append(history, [mode |-> k.mode, side |-> k.side, win |-> k.win,
                                 mine |-> k.mine, time |-> t, pending |-> p])

\* ResolvePendingMatch: the confirmation brings the result.
ConfirmRow ==
    \E i \in DOMAIN history, w \in BOOLEAN :
        /\ history[i].pending
        /\ history' = [history EXCEPT ![i].win = w, ![i].pending = FALSE]

\* ResolvePendingMatch: a match voided on its confirmation is removed.
RemoveRow == \E i \in DOMAIN history : history[i].pending /\ history' = RemoveAt(history, i)

\* The history is deleted.
ClearRows == history # <<>> /\ history' = <<>>

TableNext == StoreRow \/ ConfirmRow \/ RemoveRow \/ ClearRows

-----------------------------------------------------------------------------
(* The queries. A list is a sequence of row indices.                       *)

HasRow(i, account) == account = "me" \/ history[i].side # "alone"
IsOpponent(i, account) == account = "other" /\ history[i].side = "against"

\* ORDER BY timestamp, id.
PlayedBefore(i, j) ==
  \/ history[i].time < history[j].time
  \/ history[i].time = history[j].time /\ i < j

Counted(account) == {i \in DOMAIN history : HasRow(i, account) /\ ~history[i].pending}

\* DescribeMatchPlaylist: the row's ranked flag.
IsRanked(i) == history[i].mode # "casual"

\* GetMatchOutcomes.
Outcomes(account) == SetToSortSeq(Counted(account), PlayedBefore)

\* GetRecentMatchHistory: the matches whose result is pending as well.
RecentGames(account) ==
    SetToSortSeq({i \in DOMAIN history : HasRow(i, account)}, LAMBDA i, j : PlayedBefore(j, i))

\* GetAnalyticsMatches.
AnalyticsMatches(account, limit) ==
    LET all == SetToSortSeq(Counted(account), LAMBDA i, j : PlayedBefore(j, i))
    IN  SubSeq(all, 1, IF limit < Len(all) THEN limit ELSE Len(all))

\* GetGamemodeStats.
ModeWins(account, mode) == {i \in Counted(account) : history[i].mode = mode /\ history[i].win}
ModeLosses(account, mode) == {i \in Counted(account) : history[i].mode = mode /\ ~history[i].win}

\* GetStreakStats: one pass over the results, the newest first.
StreakStep(s, i) ==
    LET turned == history[i].win # s.previous
        run == IF turned \/ ~s.begun THEN 1 ELSE s.run + 1
        initial == s.initial /\ (s.begun => ~turned)
        longer(l) == IF run > l THEN run ELSE l
    IN  [begun |-> TRUE, previous |-> history[i].win, run |-> run, initial |-> initial,
         curWin |-> IF initial /\ history[i].win THEN run ELSE s.curWin,
         curLoss |-> IF initial /\ ~history[i].win THEN run ELSE s.curLoss,
         longestWin |-> IF history[i].win THEN longer(s.longestWin) ELSE s.longestWin,
         longestLoss |-> IF history[i].win THEN s.longestLoss ELSE longer(s.longestLoss)]

NoStreak == [begun |-> FALSE, previous |-> FALSE, run |-> 0, initial |-> TRUE,
             curWin |-> 0, curLoss |-> 0, longestWin |-> 0, longestLoss |-> 0]

Streaks(account) == FoldLeft(StreakStep, NoStreak, Reverse(Outcomes(account)))

\* GetLifetimeMmrHistory: the ratings of one mode, the oldest first.
RatingGraph(mode) ==
    SetToSortSeq({i \in DOMAIN history : history[i].mode = mode /\ history[i].mine > 0},
                 PlayedBefore)

\* GetMatchMmrContext: the rating next to every outcome.
RatedOutcomes(account) == SetToSortSeq(Counted(account), PlayedBefore)

\* GetPlayerStatSeries: the newest matches of one mode, the pending ones too.
StatSeries(account, mode, limit) ==
    LET all == SetToSortSeq({i \in DOMAIN history : HasRow(i, account) /\ history[i].mode = mode},
                            LAMBDA i, j : PlayedBefore(j, i))
    IN  SubSeq(all, 1, IF limit < Len(all) THEN limit ELSE Len(all))

\* QueryEncounterRecords: the result as the account saw it, and who it met.
MetAgainst(i, account, player) == IsOpponent(i, account) # IsOpponent(i, player)
SeenWin(i, account) == history[i].win # IsOpponent(i, account)

Encounter(account, player, excluded) ==
    LET met == {i \in Counted(account) \cap Counted(player) : i # excluded}
        count(against, won) == Cardinality({i \in met :
                                   /\ MetAgainst(i, account, player) = against
                                   /\ SeenWin(i, account) = won})
    IN  [winsWith |-> count(FALSE, TRUE), lossesWith |-> count(FALSE, FALSE),
         winsAgainst |-> count(TRUE, TRUE), lossesAgainst |-> count(TRUE, FALSE)]

\* QueryMatches: the LAG over the account's own matches of the mode.
Preceding(i) == {j \in Counted("me") : history[j].mode = history[i].mode /\ PlayedBefore(j, i)}
Newest(s) == CHOOSE i \in s : \A j \in s \ {i} : PlayedBefore(j, i)

ListDelta(i) ==
    IF \/ history[i].mine = 0
       \/ Preceding(i) = {}
       \/ history[Newest(Preceding(i))].mine = 0
    THEN NoDelta
    ELSE history[i].mine - history[Newest(Preceding(i))].mine

\* The rest of the query: filters, order and one page of the rows.
Accepts(i, q) ==
    /\ q.ranked # "any" => IsRanked(i) = (q.ranked = "ranked")
    /\ q.win # "any" => history[i].win = (q.win = "win")
    /\ q.withPlayer => history[i].side = "with"
    /\ q.againstPlayer => history[i].side = "against"

SortsBefore(sort, i, j) ==
    LET di == ListDelta(i)
        dj == ListDelta(j)
    IN  CASE sort = "Newest" -> PlayedBefore(j, i)
          [] sort = "Oldest" -> PlayedBefore(i, j)
          [] di = NoDelta \/ dj = NoDelta ->
                IF di = dj THEN PlayedBefore(j, i) ELSE dj = NoDelta
          [] di = dj -> PlayedBefore(j, i)
          [] sort = "BiggestWin" -> di > dj
          [] OTHER -> di < dj

\* A page names the number of all rows; an empty page beyond the end counts
\* them with a query of its own.
QueryPage(q, sort, limit, offset) ==
    LET found == {i \in Counted("me") : Accepts(i, q)}
        all == SetToSortSeq(found, LAMBDA i, j : SortsBefore(sort, i, j))
        last == IF offset + limit < Len(all) THEN offset + limit ELSE Len(all)
        rows == SubSeq(all, offset + 1, last)
    IN  [rows |-> rows,
         total |-> IF rows # <<>> THEN Cardinality(found)
                   ELSE IF offset > 0
                        THEN Cardinality({i \in Counted("me") : Accepts(i, q)}) ELSE 0]

\* GetMatchDetail: the rating after the last rated match of the mode.
RatedBefore(i) == {j \in Preceding(i) : history[j].mine > 0}

DetailDelta(i) ==
    IF history[i].mine = 0 \/ RatedBefore(i) = {} THEN NoDelta
    ELSE history[i].mine - history[Newest(RatedBefore(i))].mine

DetailEncounter(i) == Encounter("me", "other", i)

-----------------------------------------------------------------------------
(* Properties.                                                             *)

\* The table holds rows of the matches played.
TableTypeOK ==
    /\ Len(history) <= MaxMatches
    /\ \A i \in DOMAIN history :
         /\ history[i] \in [mode : Modes, side : Sides, win : BOOLEAN, mine : Nat,
                          time : 1..LastPlayed, pending : BOOLEAN]

AnyMatch == [ranked |-> "any", win |-> "any", withPlayer |-> FALSE, againstPlayer |-> FALSE]

Queries == {AnyMatch, [AnyMatch EXCEPT !.ranked = "ranked", !.win = "win"],
            [AnyMatch EXCEPT !.againstPlayer = TRUE]}

\* The figure next to a match in the list is the one its detail shows; the
\* detail alone has one when the match before carried no rating (the LAG
\* looks one row back, the detail as far as it has to). The detail's changes
\* add up to what the rating graph shows from its first to its last point.
DeltasAgree ==
    /\ \A i \in Counted("me") :
         \/ ListDelta(i) = DetailDelta(i)
         \/ ListDelta(i) = NoDelta /\ history[Newest(Preceding(i))].mine = 0
    /\ \A mode \in Modes :
         LET graph == RatingGraph(mode)
             changes == {i \in Counted("me") :
                            history[i].mode = mode /\ DetailDelta(i) # NoDelta}
         IN  graph # <<>> /\ (\A i \in DOMAIN history : ~history[i].pending) =>
                MapThenSumSet(DetailDelta, changes) = history[Last(graph)].mine
                                                      - history[Head(graph)].mine

\* The queries that list an account's matches name the same ones, in
\* the same order or the reverse, also when timestamps are equal; only
\* the recent games and the stat series hold the ones that await their
\* result.
ListsAgree ==
    \A account \in Accounts :
        LET newest == Reverse(Outcomes(account))
        IN  /\ SelectSeq(RecentGames(account), LAMBDA i : ~history[i].pending) = newest
            /\ \A limit \in 1..MaxMatches :
                 IsPrefix(AnalyticsMatches(account, limit), newest)
            /\ \A mode \in Modes, limit \in 1..2 :
                 IsPrefix(StatSeries(account, mode, limit),
                          SelectSeq(RecentGames(account), LAMBDA i : history[i].mode = mode))
            /\ account = "me" =>
                 /\ QueryPage(AnyMatch, "Newest", MaxMatches, 0).rows = newest
                 /\ QueryPage(AnyMatch, "Oldest", MaxMatches, 0).rows = Reverse(newest)
                 /\ \A mode \in Modes :
                      SelectSeq(RatingGraph(mode), LAMBDA i : ~history[i].pending) =
                      SelectSeq(RatedOutcomes(account),
                                LAMBDA i : history[i].mode = mode /\ history[i].mine > 0)

\* "Load more" shows every match once: the pages of a query put together are
\* the whole list, in one order, and every page names the same total, the
\* empty one beyond the end too.
PagesCoverTheList ==
    \A q \in Queries, sort \in Sorts :
        LET all == QueryPage(q, sort, MaxMatches, 0).rows
            pages == [n \in 1..MaxMatches |-> QueryPage(q, sort, PageRows, (n - 1) * PageRows)]
        IN  /\ FlattenSeq([n \in 1..MaxMatches |-> pages[n].rows]) = all
            /\ \A n \in 1..MaxMatches :
                 pages[n].total = IF n = 1 /\ all = <<>> THEN 0 ELSE Len(all)

\* A run of results starting at a position of the list, the newest first.
RunsOf(list, won) ==
    {n \in 0..Len(list) : \E a \in 1..(Len(list) + 1 - n) :
        \A k \in a..(a + n - 1) : history[list[k]].win = won}

RunAtHead(list, won) ==
    Max({n \in 0..Len(list) : \A k \in 1..n : history[list[k]].win = won})

\* The streaks the one pass finds are the longest runs of equal results and
\* the one the list starts with, so exactly one of the current streaks is
\* there once a match counts.
StreaksAreRuns ==
    \A account \in Accounts :
        LET list == Reverse(Outcomes(account))
            s == Streaks(account)
        IN  /\ s.longestWin = Max(RunsOf(list, TRUE))
            /\ s.longestLoss = Max(RunsOf(list, FALSE))
            /\ s.curWin = RunAtHead(list, TRUE)
            /\ s.curLoss = RunAtHead(list, FALSE)
            /\ list # <<>> => (s.curWin = 0) # (s.curLoss = 0)

\* Two accounts' records of each other mirror one another, a match's detail
\* shows the people list's record without that match, and together with the
\* matches played without the other player they are all matches of "me".
EncountersAddUp ==
    LET mine == Encounter("me", "other", 0)
        theirs == Encounter("other", "me", 0)
        total(r) == r.winsWith + r.lossesWith + r.winsAgainst + r.lossesAgainst
    IN  /\ mine.winsWith = theirs.winsWith /\ mine.lossesWith = theirs.lossesWith
        /\ mine.winsAgainst = theirs.lossesAgainst /\ mine.lossesAgainst = theirs.winsAgainst
        /\ \A i \in Counted("me") \cap Counted("other") :
             LET rest == DetailEncounter(i)
             IN  /\ total(rest) = total(mine) - 1
                 /\ rest.winsWith + rest.winsAgainst =
                      mine.winsWith + mine.winsAgainst - (IF history[i].win THEN 1 ELSE 0)
        /\ total(mine) = Len(QueryPage([AnyMatch EXCEPT !.withPlayer = TRUE],
                                       "Newest", MaxMatches, 0).rows)
                         + Len(QueryPage([AnyMatch EXCEPT !.againstPlayer = TRUE],
                                         "Newest", MaxMatches, 0).rows)

\* The figures of the modes add up to the outcomes, and the ranked and the
\* casual list, the won and the lost one split the list in two.
CountsAgree ==
    LET rows(q) == QueryPage(q, "Newest", MaxMatches, 0).total
        wins == {i \in Counted("me") : history[i].win}
    IN  /\ \A account \in Accounts :
             Len(Outcomes(account)) =
                 MapThenSumSet(LAMBDA m : Cardinality(ModeWins(account, m))
                                          + Cardinality(ModeLosses(account, m)), Modes)
        /\ rows(AnyMatch) = rows([AnyMatch EXCEPT !.ranked = "ranked"])
                            + rows([AnyMatch EXCEPT !.ranked = "casual"])
        /\ rows(AnyMatch) = rows([AnyMatch EXCEPT !.win = "win"])
                            + rows([AnyMatch EXCEPT !.win = "loss"])
        /\ Cardinality(wins) = MapThenSumSet(LAMBDA m : Cardinality(ModeWins("me", m)), Modes)
=============================================================================
