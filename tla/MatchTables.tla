----------------------------- MODULE MatchTables -----------------------------
(***************************************************************************)
(* The matches in the database: MatchRepository::SaveMatch, which adds a   *)
(* match, confirms or removes one that was saved with a result pending, or *)
(* skips one it has; TransferService, which imports another database and   *)
(* deletes the history.  Each runs alone, under the write mutex, in one    *)
(* transaction that may fail, and SaveMatch's look for the match may fail  *)
(* before it; the program may be killed between two of them and the player *)
(* join the same game again (MatchLifecycle decides what is saved,         *)
(* DatabaseWorker when).                                                   *)
(*                                                                         *)
(* A game is its guid.  Of a match's journal two events stand for all: one *)
(* with a key of Rocket League's and one without (event_key is NULL).      *)
(***************************************************************************)
EXTENDS Naturals, Sequences, SequencesExt, FiniteSetsExt

CONSTANTS
  Games,            \* the games that are played
  Unnamed,          \* the guid of matches that were recorded without one, in the other database
  MaxReruns,        \* bound: how often the program is started again
  MaxImports,       \* bound: how often the other database is merged or the history deleted
  MaxFailedChecks   \* bound: how often the look for a saved match fails

ASSUME MatchTablesAssumption ==
  Unnamed \notin Games /\ {MaxReruns, MaxImports, MaxFailedChecks} \subseteq Nat

Results == {"win", "loss"}

VARIABLES
  matches,    \* the table, in the order of its ids
  theirs,     \* the other database's
  sent,       \* what the program has sent to be saved of each game since its start
  removed,    \* the games whose confirmation said that they do not count
  unchecked,  \* the games that were saved although the look for them had failed
  reruns, imports, failedChecks

matchTableVars == <<matches, theirs, sent, removed, unchecked, reruns, imports, failedChecks>>

Row(g, pending, result) ==
  [guid |-> g, pending |-> pending, result |-> result, keyed |-> 1, bare |-> 1]

Of(rows, g) == {i \in DOMAIN rows : rows[i].guid = g}

-----------------------------------------------------------------------------
\* The other database is empty, or has a match of one game, and one without a guid.
MatchTableInit ==
  /\ matches = <<>>
  /\ theirs \in {<<>>} \cup
                {<<Row(Unnamed, FALSE, "win"), Row(g, p, "loss")>> : g \in Games, p \in BOOLEAN}
  /\ sent = [g \in Games |-> "nothing"] /\ removed = {} /\ unchecked = {}
  /\ reruns = 0 /\ imports = 0 /\ failedChecks = 0

\* The match that was saved last of a game, when its result is pending.
PendingMatch(g) == {i \in Of(matches, g) : i = Max(Of(matches, g)) /\ matches[i].pending}

\* InsertMatchEvents for a match that has its events: INSERT OR IGNORE knows one by its key only.
InsertMatchEvents(row) == [row EXCEPT !.bare = @ + 1]

RemoveMatch(i) == RemoveAt(matches, i)

\* ResolvePendingMatch.
Resolved(i, valid, result) ==
  IF ~valid THEN RemoveMatch(i)
  ELSE [matches EXCEPT ![i] = InsertMatchEvents([matches[i] EXCEPT !.pending = FALSE,
                                                                   !.result = result])]

\* Mutant: a guid is looked for in this session only.
SentNow(g) == sent[g] # "nothing"

AlreadySaved(g) == Of(matches, g) # {}

\* SaveMatch.  When its look for the match fails it goes on as if there were none.
Saved(g, checked, pending, valid, result) ==
  IF checked /\ AlreadySaved(g) /\ (PendingMatch(g) = {} \/ pending) THEN matches
  ELSE IF checked /\ PendingMatch(g) # {}
  THEN Resolved(CHOOSE i \in PendingMatch(g) : TRUE, valid, result)
  ELSE IF valid THEN Append(matches, Row(g, pending, result)) ELSE matches

\* What becomes of a transaction.
CommitOrFail(after) == matches' \in {matches, after}

\* (A failing look for a match that is not there is no different from one that finds none.)
SaveMatch(g, pending, valid, result) ==
  \E checked \in BOOLEAN :
    /\ CommitOrFail(Saved(g, checked, pending, valid, result))
    /\ IF checked THEN UNCHANGED <<unchecked, failedChecks>>
       ELSE /\ Of(matches, g) # {} /\ failedChecks < MaxFailedChecks
            /\ failedChecks' = failedChecks + 1
            /\ unchecked' = IF matches' = matches THEN unchecked ELSE unchecked \cup {g}

-----------------------------------------------------------------------------
\* The game's window closed before its end: the match is saved with its result pending.
SavePending(g) ==
  /\ sent[g] = "nothing" /\ sent' = [sent EXCEPT ![g] = "pending"]
  /\ \E result \in Results : SaveMatch(g, TRUE, TRUE, result)
  /\ removed' = removed \ {g} /\ UNCHANGED <<theirs, reruns, imports>>

\* The ranks tell how it ended.
Confirm(g) ==
  /\ sent[g] = "pending" /\ sent' = [sent EXCEPT ![g] = "done"]
  /\ \E valid \in BOOLEAN, result \in Results :
       /\ SaveMatch(g, FALSE, valid, result)
       /\ removed' = IF ~valid /\ PendingMatch(g) # {} /\ matches' # matches THEN removed \cup {g}
                    ELSE removed
  /\ UNCHANGED <<theirs, reruns, imports>>

\* The game was played to its end, or left so that it does not count.
SaveFinal(g) ==
  /\ sent[g] = "nothing" /\ sent' = [sent EXCEPT ![g] = "done"]
  /\ \E valid \in BOOLEAN, result \in Results : SaveMatch(g, FALSE, valid, result)
  /\ removed' = removed \ {g} /\ UNCHANGED <<theirs, reruns, imports>>

\* The program is started again; the player may join a game again that is not over.
StartAgain ==
  /\ reruns < MaxReruns /\ reruns' = reruns + 1
  /\ sent' = [g \in Games |-> "nothing"]
  /\ UNCHANGED <<matches, theirs, removed, unchecked, imports, failedChecks>>

\* A match of the same guid, or, for older rows, of the same time, arena and score.
IsDuplicate(row, rows) == \E i \in DOMAIN rows : rows[i].guid = row.guid

Imported(rows, row) == IF IsDuplicate(row, rows) THEN rows ELSE Append(rows, row)

\* TransferService::MergeDatabase.  (The sessions: SessionTables.)
MergeDatabase ==
  /\ imports < MaxImports /\ imports' = imports + 1
  /\ CommitOrFail(FoldLeft(Imported, matches, theirs))
  /\ removed' = IF matches' = matches THEN removed ELSE removed \ {row.guid : row \in ToSet(theirs)}
  /\ UNCHANGED <<theirs, sent, unchecked, reruns, failedChecks>>

DeleteMatches ==
  /\ imports < MaxImports /\ imports' = imports + 1 /\ CommitOrFail(<<>>)
  /\ unchecked' = IF matches' = <<>> THEN {} ELSE unchecked
  /\ UNCHANGED <<theirs, sent, removed, reruns, failedChecks>>

MatchTableNext ==
  \/ \E g \in Games : SavePending(g) \/ Confirm(g) \/ SaveFinal(g)
  \/ StartAgain \/ MergeDatabase \/ DeleteMatches

MatchTableSpec == MatchTableInit /\ [][MatchTableNext]_matchTableVars

-----------------------------------------------------------------------------
MatchTableTypeOK ==
  /\ \A i \in DOMAIN matches : /\ matches[i].guid \in Games \cup {Unnamed}
                               /\ matches[i].pending \in BOOLEAN /\ matches[i].result \in Results
  /\ sent \in [Games -> {"nothing", "pending", "done"}]
  /\ {removed, unchecked} \subseteq SUBSET Games
  /\ reruns \in 0..MaxReruns /\ imports \in 0..MaxImports /\ failedChecks \in 0..MaxFailedChecks

\* A game is one match, however often it was saved, confirmed, joined again or imported; one that
\* was saved although the look for it had failed may be two.
OneMatchPerGame ==
  \A i, j \in DOMAIN matches :
    matches[i].guid = matches[j].guid => i = j \/ matches[i].guid \in unchecked

\* A result that was confirmed is never changed, and leaves the table only with all others.
ConfirmedStays ==
  [][matches' # <<>> =>
       \A i \in DOMAIN matches : ~matches[i].pending =>
         \E j \in DOMAIN matches' : matches'[j].guid = matches[i].guid /\ ~matches'[j].pending
                                    /\ matches'[j].result = matches[i].result]_matchTableVars

\* A match that does not count after all leaves nothing behind, unless it may be two.
VoidedIsGone == \A g \in removed \ unchecked : Of(matches, g) = {}

\* An import changes no match that was there and leaves out none that was not.
ImportAddsTheRest ==
  [][imports' # imports /\ matches' \notin {matches, <<>>} =>
       /\ SubSeq(matches', 1, Len(matches)) = matches
       /\ {row.guid : row \in ToSet(matches')} =
            {row.guid : row \in ToSet(matches) \cup ToSet(theirs)}]_matchTableVars

\* A key is in a match's journal once.
KeyedEventsOnce == \A i \in DOMAIN matches : matches[i].keyed = 1

\* Saving a match again must not double-insert anything: what is expected of the journal.
EventsOnce == \A i \in DOMAIN matches : matches[i].keyed = 1 /\ matches[i].bare = 1
=============================================================================
