------------------------------ MODULE PostMatch ------------------------------
(***************************************************************************)
(* What becomes of the rating of a match that has ended.  The telemetry    *)
(* thread captures the match and routes it to MmrService, which keeps a    *)
(* record in MmrReconciler and queues a lookup; the rank worker compares   *)
(* what Tracker answers with the counts known before the match, decides    *)
(* which of the waiting matches the answer covers, infers the result of    *)
(* the ones that were left early, and queues updates of the saved rows;    *)
(* the database worker carries them out in order.                          *)
(*                                                                         *)
(* One account, one playlist, one session.  Match k is the k-th match the  *)
(* account plays in the playlist, and a rating is named by the number of   *)
(* matches played when it was reached, so "3" is the rating after match 3. *)
(* The retries of a lookup are those of MmrRequestQueue: here a lookup is  *)
(* answered any number of times, and any answer may be its last.           *)
(***************************************************************************)
EXTENDS Integers, Sequences, FiniteSets, SequencesExt, FiniteSetsExt

CONSTANTS
  LastMatch,     \* bound: how many matches are played
  Games          \* what is varied: see PostMatchAssumption

Left == {"tied", "lead", "trail", "gone", "forfeit"}  \* left early, by what was seen
AllKinds == {"ended", "conceded"} \cup Left

Matches == 1..LastMatch

ASSUME PostMatchAssumption ==
  /\ LastMatch \in Nat \ {0}
  /\ Games \subseteq
       [last : Matches,           \* bound: how many matches are played
        kinds : SUBSET AllKinds,  \* the ways a match may end
        countless : BOOLEAN,      \* answers may come without the number of matches played
        omninet : BOOLEAN,        \* rank lookups go to OmniNet only, Tracker is off
        races : BOOLEAN]          \* telemetry events and lookups interleave step by step

Unknown == -1      \* no count, no rating
Guess == -2        \* a rating estimated from the result
RosterRating == -3 \* the rating the roster had when the match was captured
Nothing == [kind |-> "none"]

VARIABLES
  game,       \* the member of Games this behaviour is about, never changed
  won,        \* outside: the results of the matches played, in order
  published,  \* outside: how many of them the rank provider shows
  playing,    \* the match being played, or 0
  before,     \* its preMatchMmrByGuid entry: [at, counted]
  seen,       \* the local player's roster entry: [at, counted]
  undecided,  \* pendingDestroyedMatches
  effect,     \* what the reducer returned and the router has not routed
  rec,        \* MmrReconciler, with the local profile cache and the graph
  asked,      \* the matches with a lookup in the queue
  reply,      \* the answer the worker is handling
  calls,      \* confirmation callbacks it has still to make
  jobs, rows  \* the database queue and the saved rows of the local player

world == <<game, won, published>>
telemetry == <<playing, before, undecided, effect>>
worker == <<asked, reply, calls>>
database == <<jobs, rows>>
ratingVars == <<game, won, published, playing, before, seen, undecided, effect, rec, asked,
                reply, calls, jobs, rows>>

(***************************************************************************)
(* Ratings.  What the code compares is whether and in which direction a    *)
(* rating moved; the steps differ, so that a win and a loss never cancel.  *)
(***************************************************************************)
Wins(results) == Cardinality({i \in DOMAIN results : results[i]})
Rating(at) == LET played == SubSeq(won, 1, at) IN 3 * Wins(played) - 2 * (at - Wins(played))

CountOf(snapshot) == IF snapshot.counted THEN snapshot.at ELSE Unknown
NoProfile == [at |-> Unknown, counted |-> FALSE]

\* BuildDirectionalMmrPath finds a path: the change has the sign of some of the results.
Directional(from, to, results) ==
  LET wins == Wins(results)
      losses == Len(results) - wins
  IN CASE Rating(to) > Rating(from) -> wins > 0
       [] Rating(to) < Rating(from) -> losses > 0
       [] OTHER -> wins > 0 /\ losses > 0

(***************************************************************************)
(* MmrReconciler.  A record keeps what was known before the match, what    *)
(* was first observed after it and what is known of its result.            *)
(***************************************************************************)
Record(match, kind, result, snapshot) ==
  [match |-> match, kind |-> kind, pre |-> snapshot, obsAt |-> Unknown, obsCount |-> Unknown,
   known |-> kind \notin Left, won |-> kind \notin Left /\ result,
   dbFinal |-> FALSE, point |-> FALSE]

IsPending(r, match) == \E i \in DOMAIN r.queue : r.queue[i].match = match
PlaceOf(r, match) == CHOOSE i \in DOMAIN r.queue : r.queue[i].match = match

\* A count well below the one last published starts a new epoch of the counter.
AfterRollback(r, count) ==
  IF r.queue = <<>> /\ count # Unknown /\ count < r.baseline - 1
  THEN [r EXCEPT !.baseline = count] ELSE r

EnqueueRecord(r, record) ==
  IF IsPending(r, record.match) \/ record.match \in r.completed THEN r
  ELSE LET s == AfterRollback(r, CountOf(record.pre))
       IN [s EXCEPT !.queue = Append(@, record), !.cacheValid = FALSE]

PublicationBaseline(r) == Max({CountOf(r.queue[1].pre), r.queue[1].obsCount, r.baseline})
RatingBaseline(r) == IF r.queue[1].obsAt # Unknown THEN r.queue[1].obsAt ELSE r.queue[1].pre.at

\* Mutant: off by one.
CoveredCountLate(r, answer) ==
  IF r.queue = <<>> THEN 0
  ELSE Max({0, Min({answer.at - PublicationBaseline(r) - 1, Len(r.queue)})})

\* How many of the waiting matches the answer covers.
CoveredCount(r, answer) ==
  LET base == PublicationBaseline(r)
  IN IF answer.counted /\ base # Unknown
     THEN Max({0, Min({answer.at - base, Len(r.queue)})})
     ELSE IF RatingBaseline(r) # Unknown /\ Rating(answer.at) # Rating(RatingBaseline(r))
          THEN 1 ELSE 0

\* Nothing is covered: the oldest record and the playlist remember what was observed.
Observed(r, answer) ==
  [r EXCEPT !.queue[1].obsAt = answer.at,
            !.queue[1].obsCount = Max({@, CountOf(answer)}),
            !.baseline = Max({@, CountOf(answer)})]

\* A part is covered whose last match has the same count before it as the next one.
AmbiguousCover(r, answer, n) ==
  /\ answer.counted /\ PublicationBaseline(r) # Unknown
  /\ n < Len(r.queue)
  /\ CountOf(r.queue[n].pre) # Unknown
  /\ CountOf(r.queue[n].pre) = CountOf(r.queue[n + 1].pre)

(***************************************************************************)
(* The results of the covered matches: a forfeit is a loss; then what all  *)
(* assignments agree on that explain the change of rating; then a player   *)
(* who disappeared has lost, and the score decides unless it was tied.     *)
(***************************************************************************)
WithForfeits(queue, n) ==
  [i \in DOMAIN queue |->
     IF i <= n /\ ~queue[i].known /\ queue[i].kind = "forfeit"
     THEN [queue[i] EXCEPT !.known = TRUE, !.won = FALSE] ELSE queue[i]]

Feasible(queue, n, open, at) ==
  {wins \in SUBSET open :
     Directional(queue[1].pre.at, at,
                 [i \in 1..n |-> IF i \in open THEN i \in wins ELSE queue[i].won])}

\* Mutant: the first assignment that explains the change is taken for the only one.
WithFirstAssignment(queue, n, at) ==
  LET open == {i \in 1..n : ~queue[i].known}
      feasible == Feasible(queue, n, open, at)
      assignment == CHOOSE a \in feasible : TRUE
  IN [i \in DOMAIN queue |->
        IF i \in open /\ queue[1].pre.at # Unknown /\ feasible # {}
        THEN [queue[i] EXCEPT !.known = TRUE, !.won = i \in assignment]
        ELSE queue[i]]

WithRating(queue, n, at) ==
  LET open == {i \in 1..n : ~queue[i].known}
      feasible == Feasible(queue, n, open, at)
      Agreed(i) == /\ feasible # {}
                   /\ \A a, b \in feasible : (i \in a) = (i \in b)
  IN [i \in DOMAIN queue |->
        IF i \in open /\ queue[1].pre.at # Unknown /\ Agreed(i)
        THEN [queue[i] EXCEPT !.known = TRUE, !.won = \A a \in feasible : i \in a]
        ELSE queue[i]]

WithScore(queue, n) ==
  [i \in DOMAIN queue |->
     IF i <= n /\ ~queue[i].known /\ queue[i].kind # "tied"
     THEN [queue[i] EXCEPT !.known = TRUE, !.won = (queue[i].kind = "lead")] ELSE queue[i]]

Decided(queue, n, at) == WithScore(WithRating(WithForfeits(queue, n), n, at), n)

(***************************************************************************)
(* All covered results are known: the records are confirmed and dropped,   *)
(* the last one with the rating fetched and the others with an estimate.   *)
(***************************************************************************)
ConfirmedValue(i, n, answer) == IF i = n THEN answer.at ELSE Guess

\* Mutant: the last covered row is left out.
UpdatesButLast(queue, n, answer) ==
  [i \in 1..(n - 1) |-> [op |-> "update", match |-> queue[i].match, value |-> Guess,
                         estimated |-> TRUE]]

Updates(queue, n, answer) ==
  [i \in 1..n |-> [op |-> "update", match |-> queue[i].match,
                   value |-> ConfirmedValue(i, n, answer), estimated |-> i < n]]

Confirmations(queue, n) ==
  {[match |-> queue[i].match, won |-> queue[i].won] :
     i \in {k \in 1..n : queue[k].kind \in Left /\ ~queue[k].dbFinal}}

Confirmed(r, queue, n, answer) ==
  LET covered == {queue[i].match : i \in 1..n}
      carried == IF answer.counted THEN answer.at
                 ELSE IF PublicationBaseline(r) # Unknown THEN PublicationBaseline(r) + n
                 ELSE Unknown
      Rest(q) == [q EXCEPT !.obsAt = answer.at, !.obsCount = Max({@, carried})]
      Point(m) == [value |-> ConfirmedValue(CHOOSE i \in 1..n : queue[i].match = m, n, answer),
                   covered |-> TRUE]
  IN [r EXCEPT !.queue = [i \in 1..(Len(queue) - n) |-> Rest(queue[n + i])],
               !.completed = @ \cup covered,
               !.baseline = Max({@, carried}),
               !.points = [m \in DOMAIN @ \cup covered |->
                             IF m \in covered THEN Point(m) ELSE @[m]]]

\* ReconcileTrackerResponse: the new reconciler, the matches it confirmed and their results.
Reconcile(r, match, answer) ==
  LET Same(confirmed) == [rec |-> r, ok |-> confirmed, updates |-> <<>>, calls |-> {},
                          all |-> FALSE]
  IN IF answer.at = Unknown THEN Same(FALSE)
     ELSE IF r.queue = <<>> THEN Same(match \in r.completed)
     ELSE LET n == CoveredCount(r, answer)
              queue == Decided(r.queue, n, answer.at)
          IN CASE n = 0 -> [Same(FALSE) EXCEPT !.rec = Observed(r, answer)]
               [] n > 0 /\ AmbiguousCover(r, answer, n) -> Same(FALSE)
               [] n > 0 /\ ~AmbiguousCover(r, answer, n) /\ \E i \in 1..n : ~queue[i].known ->
                    [Same(FALSE) EXCEPT !.rec.queue = queue]
               [] OTHER -> [rec |-> Confirmed(r, queue, n, answer),
                            ok |-> \E i \in 1..n : queue[i].match = match,
                            updates |-> Updates(queue, n, answer),
                            calls |-> Confirmations(queue, n),
                            all |-> n = Len(queue)]

\* Mutant: the estimate is written whatever became of the record.
ProvisionalAlways(r, match) ==
  <<[op |-> "update", match |-> match, value |-> Guess, estimated |-> TRUE]>>

\* EnsureProvisionalPoint: an estimate for the graph, and for a row that is final.
ProvisionalUpdate(r, match) ==
  IF /\ IsPending(r, match)
     /\ LET q == r.queue[PlaceOf(r, match)] IN ~q.point /\ (q.kind \notin Left \/ q.dbFinal)
  THEN <<[op |-> "update", match |-> match, value |-> Guess, estimated |-> TRUE]>>
  ELSE <<>>

Provisional(r, match, answer) ==
  IF ~IsPending(r, match) THEN r
  ELSE LET i == PlaceOf(r, match)
           q == r.queue[i]
       IN IF q.point THEN r
          ELSE [r EXCEPT
                 !.queue[i].obsAt = IF @ = Unknown THEN answer.at ELSE @,
                 !.queue[i].obsCount = IF @ = Unknown /\ ~q.pre.counted
                                       THEN CountOf(answer) ELSE @,
                 !.queue[i].point = TRUE,
                 !.completed = @ \cup {match},
                 !.points = IF match \in DOMAIN @ THEN @
                            ELSE [m \in DOMAIN @ \cup {match} |->
                                    IF m = match THEN [value |-> Guess, covered |-> FALSE]
                                    ELSE @[m]]]

RatingInit ==
  /\ game \in Games
  /\ won = <<>> /\ published = 0
  /\ playing = 0 /\ before = NoProfile
  /\ seen = [at |-> 0, counted |-> ~game.countless]
  /\ undecided = {} /\ effect = Nothing
  /\ rec = [queue |-> <<>>, completed |-> {}, baseline |-> Unknown, points |-> <<>>,
            cache |-> NoProfile, cacheValid |-> FALSE]
  /\ asked = {} /\ reply = Nothing /\ calls = {}
  /\ jobs = <<>> /\ rows = <<>>

EventThreadIdle == effect = Nothing /\ (game.races \/ (reply = Nothing /\ calls = {}))
WorkerFree == reply = Nothing /\ calls = {} /\ (game.races \/ effect = Nothing)

(***************************************************************************)
(* The game and the rank provider.                                         *)
(***************************************************************************)
\* MatchCreated: the snapshot is the roster entry of before; ResetMatch clears the roster.
StartMatch ==
  /\ EventThreadIdle
  /\ playing = 0 /\ Len(won) < game.last
  /\ playing' = Len(won) + 1
  /\ before' = seen /\ seen' = NoProfile
  /\ UNCHANGED <<world, undecided, effect, rec, worker, database>>

\* The match ends or is left.  Assumption: the account was looked up before that.
EndMatch ==
  /\ EventThreadIdle
  /\ playing # 0
  /\ LET snapshot == IF before.at # Unknown THEN before ELSE seen
     IN \E kind \in game.kinds, result \in BOOLEAN :
          /\ snapshot.at # Unknown
          /\ kind \in {"conceded", "forfeit"} => ~result
          /\ won' = Append(won, result)
          /\ undecided' = IF kind \in Left THEN undecided \cup {playing} ELSE undecided
          /\ effect' = [kind |-> kind, match |-> playing, won |-> result, pre |-> snapshot]
  /\ playing' = 0 /\ before' = NoProfile
  /\ UNCHANGED <<game, published, seen, rec, worker, database>>

\* Telemetry tells the result of a match that was left.
LateResult ==
  /\ EventThreadIdle
  /\ \E m \in undecided :
       /\ undecided' = undecided \ {m}
       /\ effect' = [kind |-> "late", match |-> m, won |-> won[m]]
  /\ UNCHANGED <<world, playing, before, seen, rec, worker, database>>

\* Assumption: the provider takes longer to count a match than the router to route it.
Publish ==
  /\ effect = Nothing
  /\ \E n \in (published + 1)..Len(won) : published' = n
  /\ UNCHANGED <<game, won, telemetry, seen, rec, worker, database>>

(***************************************************************************)
(* EffectRouter: the save, then the reconciler.                            *)
(***************************************************************************)
SaveJob(match, result, final) ==
  [op |-> "save", match |-> match, won |-> result, pending |-> ~final,
   estimated |-> FALSE]

\* The row of a match that waits for its rating says so; the save of a late result does not.
RouteSaves(e) ==
  CASE e.kind = "tied" -> <<>>
    [] e.kind = "late" -> <<SaveJob(e.match, e.won, TRUE)>>
    [] e.kind \in Left \ {"tied"} ->
         <<[SaveJob(e.match, e.kind = "lead", FALSE) EXCEPT !.estimated = TRUE]>>
    [] OTHER -> <<[SaveJob(e.match, e.won, TRUE) EXCEPT !.estimated = TRUE]>>

Resolve(r, match, result) ==
  IF IsPending(r, match)
  THEN [r EXCEPT !.queue[PlaceOf(r, match)] =
                   [@ EXCEPT !.known = TRUE, !.won = result, !.dbFinal = TRUE]]
  ELSE r

\* A match left early or conceded gets an estimate at once.
Route ==
  /\ effect # Nothing
  /\ effect' = Nothing
  /\ IF effect.kind = "late"
     THEN /\ rec' = Resolve(rec, effect.match, effect.won)
          /\ jobs' = jobs \o RouteSaves(effect)
          /\ asked' = asked
     ELSE LET r == EnqueueRecord(rec, Record(effect.match, effect.kind, effect.won, effect.pre))
              atOnce == effect.kind \in Left \cup {"conceded"}
          IN /\ rec' = IF atOnce THEN Provisional(r, effect.match, effect.pre) ELSE r
             /\ jobs' = jobs \o RouteSaves(effect)
                             \o IF atOnce THEN ProvisionalUpdate(r, effect.match) ELSE <<>>
             /\ asked' = asked \cup {effect.match}
  /\ UNCHANGED <<world, playing, before, undecided, seen, reply, calls, rows>>

(***************************************************************************)
(* The rank worker.                                                        *)
(***************************************************************************)
Answer == {[at |-> published, counted |-> c] : c \in IF game.countless THEN BOOLEAN ELSE {TRUE}}

AnswerRoster ==
  /\ WorkerFree
  /\ \E answer \in Answer :
       reply' = [kind |-> "roster", step |-> "reconcile", answer |-> answer, match |-> 0,
                 last |-> TRUE, ok |-> FALSE]
  /\ UNCHANGED <<world, telemetry, seen, rec, asked, calls, database>>

AnswerPostMatch ==
  /\ WorkerFree
  /\ \E m \in asked, answer \in Answer, last \in BOOLEAN :
       reply' = [kind |-> "post", step |-> "reconcile", answer |-> answer, match |-> m,
                 last |-> last, ok |-> FALSE]
  /\ UNCHANGED <<world, telemetry, seen, rec, asked, calls, database>>

\* The last try fails, and an estimate is made; OmniNet's own passing failure makes none.
LookupFails ==
  /\ WorkerFree
  /\ \E m \in asked :
       /\ asked' = asked \ {m}
       /\ \/ game.omninet /\ UNCHANGED <<rec, jobs>>
          \/ /\ rec' = Provisional(rec, m, NoProfile)
             /\ jobs' = jobs \o ProvisionalUpdate(rec, m)
  /\ UNCHANGED <<world, telemetry, seen, reply, calls, rows>>

\* Mutant: a confirmation leaves the snapshot of the next match alone.
SnapshotKept(out, answer) == before

\* The snapshot of the match being played follows what was confirmed meanwhile.
SnapshotAfter(out, answer) ==
  IF /\ out.all /\ answer.counted /\ playing # 0
     /\ before.counted /\ before.at < answer.at
     /\ playing \notin out.rec.completed /\ ~IsPending(out.rec, playing)
  THEN answer ELSE before

CacheAfter(out, answer) ==
  IF out.rec.cache.at = Unknown THEN out.rec.cache
  ELSE IF answer.counted THEN answer ELSE [out.rec.cache EXCEPT !.counted = FALSE]

\* A lookup for the roster is compared with the oldest match that waits.
Target == IF reply.kind = "post" THEN reply.match
          ELSE IF rec.queue = <<>> THEN 0 ELSE rec.queue[1].match

\* ProcessPostMatchResponse
Process(match, allowProvisional) ==
  IF match = 0 \/ ~IsPending(rec, match)
  THEN /\ reply' = [reply EXCEPT !.step = "publish", !.ok = match \in rec.completed]
       /\ UNCHANGED <<rec, jobs, calls, before>>
  ELSE \E out \in {Reconcile(rec, match, reply.answer)} :
         LET provisional == allowProvisional /\ ~out.ok
             r == IF out.updates = <<>> THEN out.rec
                  ELSE [out.rec EXCEPT !.cache = CacheAfter(out, reply.answer)]
         IN /\ rec' = IF provisional THEN Provisional(r, match, reply.answer) ELSE r
            /\ jobs' = jobs \o out.updates
                            \o IF provisional THEN ProvisionalUpdate(r, match) ELSE <<>>
            /\ calls' = out.calls
            /\ before' = SnapshotAfter(out, reply.answer)
            /\ reply' = CASE out.ok \/ allowProvisional ->
                               [reply EXCEPT !.step = "publish", !.ok = out.ok]
                          [] ~out.ok /\ ~allowProvisional /\ reply.last ->
                               [reply EXCEPT !.step = "provisional"]
                          [] OTHER -> Nothing

Reconciles ==
  /\ reply # Nothing /\ calls = {} /\ reply.step \in {"reconcile", "provisional"}
  /\ game.races \/ effect = Nothing
  /\ Process(Target, reply.kind = "roster" \/ reply.step = "provisional")
  /\ UNCHANGED <<world, playing, undecided, effect, seen, asked, rows>>

\* The callback, in the order the matches were played: ConfirmPendingDestroyedMatch, whose
\* effects the worker routes itself.
CallBack ==
  /\ \E c \in calls :
       /\ \A other \in calls : c.match <= other.match
       /\ calls' = calls \ {c}
       /\ undecided' = undecided \ {c.match}
       /\ jobs' = IF c.match \in undecided
                  THEN Append(jobs, SaveJob(c.match, c.won, TRUE)) ELSE jobs
  /\ UNCHANGED <<world, playing, before, effect, seen, rec, asked, reply, rows>>

\* PublishProfileResult and StoreLocalProfileCache
PublishProfile ==
  /\ reply # Nothing /\ calls = {} /\ reply.step = "publish"
  /\ game.races \/ effect = Nothing
  /\ seen' = reply.answer
  /\ before' = IF reply.kind = "roster" /\ playing # 0 /\ before.at = Unknown
               THEN reply.answer ELSE before
  /\ rec' = IF (reply.kind = "post" => reply.ok) /\ rec.queue = <<>>
            THEN [rec EXCEPT !.cache = reply.answer, !.cacheValid = TRUE] ELSE rec
  /\ asked' = IF reply.kind = "post" THEN asked \ {reply.match} ELSE asked
  /\ reply' = Nothing
  /\ UNCHANGED <<world, playing, undecided, effect, calls, database>>

\* TrySatisfyLocalRosterRequest
CachedRoster ==
  /\ WorkerFree
  /\ rec.cacheValid
  /\ seen' = rec.cache
  /\ before' = IF playing # 0 /\ before.at = Unknown THEN rec.cache ELSE before
  /\ UNCHANGED <<world, playing, undecided, effect, rec, worker, database>>

(***************************************************************************)
(* The database worker: SaveMatch and UpdateMatchPlayerMmr, in order.      *)
(***************************************************************************)
Saved(job) ==
  IF job.match \notin DOMAIN rows
  THEN [m \in DOMAIN rows \cup {job.match} |->
          IF m # job.match THEN rows[m]
          ELSE [value |-> RosterRating, estimated |-> job.estimated,
                won |-> job.won, pending |-> job.pending]]
  ELSE IF rows[job.match].pending /\ ~job.pending
       THEN [rows EXCEPT ![job.match] = [@ EXCEPT !.won = job.won, !.pending = FALSE]]
       ELSE rows

Updated(job) ==
  IF job.match \in DOMAIN rows
  THEN [rows EXCEPT ![job.match] = [@ EXCEPT !.value = job.value, !.estimated = job.estimated]]
  ELSE rows

RunJob ==
  /\ jobs # <<>>
  /\ rows' = IF Head(jobs).op = "save" THEN Saved(Head(jobs)) ELSE Updated(Head(jobs))
  /\ jobs' = Tail(jobs)
  /\ UNCHANGED <<world, telemetry, seen, rec, worker>>

RatingNext ==
  \/ StartMatch \/ EndMatch \/ LateResult \/ Publish \/ Route
  \/ AnswerRoster \/ AnswerPostMatch \/ LookupFails
  \/ Reconciles \/ CallBack \/ PublishProfile \/ CachedRoster
  \/ RunJob

Spec == RatingInit /\ [][RatingNext]_ratingVars

-----------------------------------------------------------------------------
Snapshots == [at : Unknown..LastMatch, counted : BOOLEAN]
Records == [match : Matches, kind : AllKinds, pre : Snapshots, obsAt : Unknown..LastMatch,
            obsCount : Nat \cup {Unknown}, known : BOOLEAN, won : BOOLEAN,
            dbFinal : BOOLEAN, point : BOOLEAN]

\* The state is well typed; the matches that wait are distinct and in the order played.
PostMatchTypeOK ==
  /\ won \in Seq(BOOLEAN) /\ published \in 0..Len(won)
  /\ playing \in {0, Len(won) + 1} /\ before \in Snapshots /\ seen \in Snapshots
  /\ undecided \subseteq Matches /\ asked \subseteq Matches
  /\ rec.queue \in Seq(Records)
  /\ \A i, j \in DOMAIN rec.queue : i < j => rec.queue[i].match < rec.queue[j].match
  /\ rec.baseline \in Nat \cup {Unknown}
  /\ DOMAIN rec.points = rec.completed /\ DOMAIN rows \subseteq Matches

NoTies == "tied" \notin game.kinds

\* Answers tell the number of matches played, and no event comes between the steps of the worker.
Steady == ~game.countless /\ ~game.races

\* A saved row that is not marked as estimated has the rating the account had right after
\* that match, whatever Tracker published late or several matches at once.
ExactIsOwnRating ==
  NoTies /\ Steady =>
    \A m \in DOMAIN rows : ~rows[m].estimated => rows[m].value = m

\* No match is confirmed by an answer from before the provider counted it.
ConfirmedWasPublished ==
  Steady => \A m \in DOMAIN rec.points : rec.points[m].covered => m <= published

\* The count carried for the playlist is never ahead of what the provider counted.
CountNotAhead == Steady => rec.baseline <= published

\* An exact rating in a row is never replaced, by an estimate least of all.
ExactNeverLost ==
  [][NoTies => \A m \in DOMAIN rows :
       ~rows[m].estimated => m \in DOMAIN rows' /\ rows'[m].value = rows[m].value]_ratingVars

\* Once all jobs have run the row of a confirmed match has its result and the value the
\* graph shows for it.
EveryRowFollowsGraph ==
  (jobs = <<>> /\ calls = {} /\ effect = Nothing) =>
    \A m \in DOMAIN rec.points :
      rec.points[m].covered =>
        m \in DOMAIN rows /\ ~rows[m].pending /\ rows[m].value = rec.points[m].value

\* The same, where every match that is left gets a row at once: one left with a tied score
\* gets none (HandleMatchDestroyed).
RowFollowsGraph == NoTies => EveryRowFollowsGraph

\* A match whose lookup is over, confirmed or not, has a point in the graph.
NoSilentDrop ==
  (effect = Nothing /\ reply = Nothing /\ ~game.omninet) =>
    \A m \in 1..Len(won) : m \in asked \cup rec.completed

\* Nothing but the change of rating decides the matches that were left.
OnlyRatingDecides == game.kinds \subseteq {"ended", "tied"}

\* A result inferred from the change of rating is the real one as long as the oldest match that
\* waits began with the rating of the match before it.
InferenceIsReal ==
  [][Steady /\ OnlyRatingDecides =>
       \A c \in calls' \ calls :
         rec.queue[1].pre.at = rec.queue[1].match - 1 => c.won = won[c.match]]_ratingVars

\* The same, whatever the oldest match began with: a match of the same session may have been
\* confirmed since, and the change is then taken over more matches than the results.
InferredIsReal ==
  Steady /\ OnlyRatingDecides =>
    \A i \in DOMAIN jobs :
      (jobs[i].op = "save" /\ ~jobs[i].pending) => jobs[i].won = won[jobs[i].match]

\* Every lookup that is over is in the graph, and every confirmed row says what the graph
\* says (MmrReconciler, MmrService::ProcessPostMatchResponse).
RowsFollowGraph == PostMatchTypeOK /\ RowFollowsGraph /\ NoSilentDrop

\* Ratings are real where they are not marked as estimated (MmrReconciler, MmrStatePublisher).
RatingsAreReal == ExactIsOwnRating /\ ConfirmedWasPublished /\ CountNotAhead

\* Every match that was played is confirmed in the end.
EventuallyConfirmed ==
  \A m \in Matches :
    (Len(won) >= m) ~> (m \in DOMAIN rec.points /\ rec.points[m].covered)

-----------------------------------------------------------------------------
(***************************************************************************)
(* Instances: every way of leaving a match with two matches, late          *)
(* publications with three, and each thing that may be amiss (answers      *)
(* without a count, OmniNet alone, interleaved steps).                     *)
(***************************************************************************)
Plain == [last |-> 2, kinds |-> {"ended"}, countless |-> FALSE, omninet |-> FALSE, races |-> FALSE]
TwoConceded == {[Plain EXCEPT !.kinds = {"conceded"}]}
OneTied == {[Plain EXCEPT !.last = 1, !.kinds = {"ended", "tied"}]}
ThreeTied == {[Plain EXCEPT !.last = 3, !.kinds = {"tied"}]}
Varied ==
  {[Plain EXCEPT !.kinds = {"ended", "conceded", "trail", "gone"}],
   [Plain EXCEPT !.last = 3],
   [Plain EXCEPT !.kinds = {"ended", "tied"}],
   [Plain EXCEPT !.countless = TRUE],
   [Plain EXCEPT !.omninet = TRUE],
   [Plain EXCEPT !.races = TRUE]}
=============================================================================
