--------------------------- MODULE PostMatch_proofs ---------------------------
(*************************************************************************)
(* Proofs about the rating of a match that has ended.  Reconciler says   *)
(* what a reconciler told of the matches 1..k may hold: each of them     *)
(* waits in its queue or is covered by an answer, and never both.        *)
(* JobsSound relates the values the graph shows to the saved rows and    *)
(* the updates that wait: the last update of a covered match brings the  *)
(* value shown, and an exact update or row is the last of its match.  In *)
(* a steady game the queue holds the last matches without a gap and the  *)
(* counter says how many came before them (Contiguous), so that an       *)
(* answer covers as many as it counts more and the last update of a      *)
(* confirmation is exact; and the real results always explain a change   *)
(* of rating, so that what every explanation says of a match is real     *)
(* (QueueTold).                                                          *)
(*************************************************************************)
EXTENDS PostMatch, FiniteSetTheorems, FunctionTheorems, SequenceTheorems, TLAPS

-----------------------------------------------------------------------------
\* The inductive invariant.

EndEffects == [kind : AllKinds, match : Matches, won : BOOLEAN, pre : Snapshots]
LateEffects == [kind : {"late"}, match : Matches, won : BOOLEAN]
Answers == [at : 0..LastMatch, counted : BOOLEAN]
Replies == [kind : {"roster", "post"}, step : {"reconcile", "provisional", "publish"},
            answer : Answers, match : 0..LastMatch, last : BOOLEAN, ok : BOOLEAN]
Values == {Guess, RosterRating} \cup (0..LastMatch)
SaveJobs == [op : {"save"}, match : Matches, won : BOOLEAN, pending : BOOLEAN,
             estimated : BOOLEAN]
UpdateJobs == [op : {"update"}, match : Matches, value : Values, estimated : BOOLEAN]
RowRecords == [value : Values, estimated : BOOLEAN, won : BOOLEAN, pending : BOOLEAN]
JobSet(queue) == {queue[i] : i \in DOMAIN queue}
Points == [value : Values, covered : BOOLEAN]
Counts == Nat \cup {Unknown}

\* The matches that have been handed to the reconciler are 1..Routed.
Routed == IF effect.kind \in AllKinds THEN Len(won) - 1 ELSE Len(won)

Ordered(queue) == \A i, j \in DOMAIN queue : i < j => queue[i].match < queue[j].match
Covered(r, m) == m \in r.completed /\ r.points[m].covered

\* What the graph shows of the covered matches.
Shown(r) == [m \in {c \in r.completed : r.points[c].covered} |-> r.points[m].value]

\* A reconciler that has been told of the matches 1..k.
Reconciler(r, k) ==
  /\ r = [queue |-> r.queue, completed |-> r.completed, baseline |-> r.baseline,
          points |-> r.points, cache |-> r.cache, cacheValid |-> r.cacheValid]
  /\ r.queue \in Seq(Records) /\ Ordered(r.queue)
  /\ \A i \in DOMAIN r.queue : r.queue[i].match <= k
  /\ r.completed \subseteq 1..k
  /\ r.points \in [r.completed -> Points]
  /\ r.baseline \in Counts /\ r.cache \in Snapshots /\ r.cacheValid \in BOOLEAN
  /\ \A m \in 1..k : IsPending(r, m) <=> ~Covered(r, m)
  /\ \A i \in DOMAIN r.queue :
       /\ r.queue[i].point => r.queue[i].match \in r.completed
       /\ r.queue[i].kind \notin Left => r.queue[i].known

GameTypes ==
  /\ game \in Games
  /\ won \in Seq(BOOLEAN) /\ Len(won) <= game.last
  /\ published \in 0..Routed
  /\ playing \in {0, Len(won) + 1} /\ playing <= game.last
  /\ before \in Snapshots /\ seen \in Snapshots
  /\ playing = 0 => before.at = Unknown
  /\ undecided \subseteq 1..Len(won)

ProgramTypes ==
  /\ effect \in {Nothing} \cup EndEffects \cup LateEffects
  /\ Reconciler(rec, Routed)
  /\ asked \subseteq 1..Routed
  /\ reply \in {Nothing} \cup Replies
  /\ calls \subseteq [match : 1..Routed, won : BOOLEAN]
  /\ jobs \in Seq(SaveJobs \cup UpdateJobs)
  /\ \A j \in JobSet(jobs) : j.match <= Routed
  /\ DOMAIN rows \subseteq 1..Routed
  /\ \A m \in DOMAIN rows : rows[m] \in RowRecords

EffectSound ==
  /\ effect \in EndEffects =>
       /\ effect.match = Len(won)
       /\ effect.match \in undecided <=> effect.kind \in Left
       /\ effect.pre.at # Unknown
       /\ effect.kind \in game.kinds
       /\ effect.kind \notin Left => effect.won = won[effect.match]
  /\ effect \in LateEffects =>
       /\ effect.match \in (1..Routed) \ undecided
       /\ effect.won = won[effect.match]

ReplySound ==
  reply # Nothing /\ reply.kind = "post" =>
    /\ reply.match \in 1..Routed
    /\ reply.step = "publish" => reply.match \in rec.completed

\* A lookup is over only when the match has its point (or OmniNet's went wrong).
EveryMatchAsked == ~game.omninet => 1..Routed \subseteq asked \cup rec.completed

\* A match whose result is not known waits as one that was left, or is about to be confirmed.
UndecidedSound ==
  /\ \A i \in DOMAIN rec.queue :
       rec.queue[i].match \in undecided => rec.queue[i].kind \in Left /\ ~rec.queue[i].dbFinal
  /\ \A m \in undecided : Covered(rec, m) => \E c \in calls : c.match = m

Basics ==
  GameTypes /\ ProgramTypes /\ EffectSound /\ ReplySound /\ EveryMatchAsked /\ UndecidedSound

IsUpdate(j, m) == j.op = "update" /\ j.match = m
IsFinalSave(j, m) == j.op = "save" /\ j.match = m /\ ~j.pending

\* A row or an update that is exact is the last of its match, and the match is covered.
ExactIsLast(shown, queue, table) ==
  /\ \A m \in DOMAIN table : ~table[m].estimated =>
       m \in DOMAIN shown /\ \A i \in DOMAIN queue : ~IsUpdate(queue[i], m)
  /\ \A i \in DOMAIN queue : queue[i].op = "update" /\ ~queue[i].estimated =>
       /\ queue[i].match \in DOMAIN shown
       /\ \A j \in DOMAIN queue : i < j => ~IsUpdate(queue[j], queue[i].match)

\* A match without a row has its first save, an estimate, before all its other jobs.
SavedFirst(k, queue, table) ==
  \A m \in 1..k : m \notin DOMAIN table =>
    \E i \in DOMAIN queue :
      /\ queue[i].op = "save" /\ queue[i].match = m /\ queue[i].estimated
      /\ \A j \in DOMAIN queue : j < i => queue[j].match # m

\* The last update of a covered match brings the value shown, unless the row has it.
LastIsShown(shown, queue, table) ==
  \A m \in DOMAIN shown :
    \/ \E i \in DOMAIN queue :
         /\ IsUpdate(queue[i], m) /\ queue[i].value = shown[m]
         /\ \A j \in DOMAIN queue : i < j => ~IsUpdate(queue[j], m)
    \/ /\ \A i \in DOMAIN queue : ~IsUpdate(queue[i], m)
       /\ m \in DOMAIN table /\ table[m].value = shown[m]

JobsSound(shown, k, queue, table) ==
  /\ \A i \in DOMAIN queue : queue[i].match <= k
  /\ ExactIsLast(shown, queue, table)
  /\ SavedFirst(k, queue, table)
  /\ LastIsShown(shown, queue, table)

\* The result of a match is open, in its row, on its way there, or being routed.
ResultsArrive ==
  \A m \in 1..Routed :
    \/ m \in undecided
    \/ m \in DOMAIN rows /\ ~rows[m].pending
    \/ \E j \in JobSet(jobs) : IsFinalSave(j, m)
    \/ effect \in LateEffects /\ effect.match = m

RowsInv == NoTies => JobsSound(Shown(rec), Routed, jobs, rows) /\ ResultsArrive

\* How many matches were covered, where the queue holds the ones after them.
Before(r, k) == k - Len(r.queue)

Contiguous(r, k) ==
  /\ Before(r, k) >= 0
  /\ \A i \in DOMAIN r.queue :
       /\ r.queue[i].match = Before(r, k) + i
       /\ r.queue[i].pre.counted /\ r.queue[i].pre.at \in 0..(Before(r, k) + i - 1)
       /\ r.queue[i].obsCount <= Before(r, k)
  /\ r.baseline <= Before(r, k)
  /\ Before(r, k) > 0 => r.baseline = Before(r, k)
  /\ r.cacheValid => r.queue = <<>>

\* A snapshot is counted and not ahead of the provider.
Plausible(s) == (s.at # Unknown => s.counted) /\ s.at <= published
Fresh(s) == s.at = Unknown \/ s.at >= Before(rec, Routed)

TakenInTurn == effect # Nothing => reply = Nothing /\ calls = {}

QueueSteady == Contiguous(rec, Routed) /\ Before(rec, Routed) <= published

SnapshotsPlausible ==
  /\ Plausible(before) /\ Plausible(seen) /\ Plausible(rec.cache)
  /\ effect \in EndEffects => Plausible(effect.pre)

ReplyCounts ==
  reply # Nothing => reply.answer.counted /\ reply.answer.at \in Before(rec, Routed)..published

\* While no match waits every snapshot is as new as the last confirmation, so that the next
\* record does not look like a reset of the counter.
SnapshotsFresh ==
  /\ rec.cacheValid => rec.cache.at # Unknown
  /\ rec.queue = <<>> =>
       /\ Fresh(before)
       /\ effect \in EndEffects => Fresh(effect.pre)
       /\ rec.cacheValid => Fresh(rec.cache)
       /\ Fresh(seen) \/ (reply # Nothing /\ reply.step = "publish")

SteadyBooks == TakenInTurn /\ QueueSteady /\ SnapshotsPlausible /\ ReplyCounts /\ SnapshotsFresh

SteadyInv == Steady => SteadyBooks

\* An exact update or row has the number of its own match.
ExactUpdates ==
  \A j \in JobSet(jobs) : j.op = "update" /\ ~j.estimated => j.value = j.match

ExactValues == Steady => ExactUpdates /\ (NoTies => ExactIsOwnRating)

\* A result that only the change of rating has told.
Inferred(q) == q.known /\ q.kind = "tied" /\ ~q.dbFinal
HasResult(q) == q.known => q.won = won[q.match]

Told(q, upTo) ==
  /\ q.kind \in game.kinds /\ (q.dbFinal => q.known)
  /\ IF Inferred(q) THEN q.match <= upTo ELSE HasResult(q)

FromMatchBefore(queue) == queue[1].pre.at = queue[1].match - 1

QueueTold(queue, upTo) ==
  /\ \A i \in DOMAIN queue : Told(queue[i], upTo)
  /\ queue # <<>> /\ FromMatchBefore(queue) => \A i \in DOMAIN queue : HasResult(queue[i])

\* The last match that the answer in hand, or the next one, has counted.
AnsweredUpTo == IF reply = Nothing THEN published ELSE reply.answer.at

\* Only matches that the next confirmation drops have an inferred result, and those are right
\* where the oldest match began with the rating of the match before it.
ResultsInv == Steady /\ OnlyRatingDecides => QueueTold(rec.queue, AnsweredUpTo)
-----------------------------------------------------------------------------
\* Helpers.

LEMMA MaxOfTwo ==
  ASSUME NEW a \in Int, NEW b \in Int
  PROVE  Max({a, b}) = IF a >= b THEN a ELSE b
<1>1. \E x \in {a, b} : \A y \in {a, b} : x >= y
  OBVIOUS
<1>2. Max({a, b}) \in {a, b} /\ \A y \in {a, b} : Max({a, b}) >= y
  BY <1>1 DEF Max
<1> QED
  BY <1>2

LEMMA MinOfTwo ==
  ASSUME NEW a \in Int, NEW b \in Int
  PROVE  Min({a, b}) = IF a <= b THEN a ELSE b
<1>1. \E x \in {a, b} : \A y \in {a, b} : x <= y
  OBVIOUS
<1>2. Min({a, b}) \in {a, b} /\ \A y \in {a, b} : Min({a, b}) <= y
  BY <1>1 DEF Min
<1> QED
  BY <1>2

LEMMA MaxOfThree ==
  ASSUME NEW a \in Int, NEW b \in Int, NEW c \in Int
  PROVE  /\ Max({a, b, c}) \in {a, b, c}
         /\ Max({a, b, c}) >= a /\ Max({a, b, c}) >= b /\ Max({a, b, c}) >= c
<1>1. \E x \in {a, b, c} : \A y \in {a, b, c} : x >= y
  OBVIOUS
<1>2. Max({a, b, c}) \in {a, b, c} /\ \A y \in {a, b, c} : Max({a, b, c}) >= y
  BY <1>1 DEF Max
<1> QED
  BY <1>2

\* The names of the members of a record and of a reconciler.
LEMMA RecordFields ==
  ASSUME NEW q \in Records
  PROVE  /\ q.match \in Matches /\ q.kind \in AllKinds /\ q.pre \in Snapshots
         /\ q.obsAt \in Unknown..LastMatch /\ q.obsCount \in Counts
         /\ q.known \in BOOLEAN /\ q.won \in BOOLEAN /\ q.dbFinal \in BOOLEAN
         /\ q.point \in BOOLEAN
  BY DEF Records, Counts

LEMMA SnapshotFields ==
  ASSUME NEW s \in Snapshots
  PROVE  /\ s.at \in Unknown..LastMatch /\ s.counted \in BOOLEAN
         /\ CountOf(s) \in Counts
<1>1. s.at \in Unknown..LastMatch /\ s.counted \in BOOLEAN
  BY DEF Snapshots
<1>2. LastMatch \in Nat
  BY PostMatchAssumption
<1> QED
  BY <1>1, <1>2 DEF CountOf, Counts, Unknown

LEMMA EmptyProfile ==
  NoProfile \in Snapshots /\ NoProfile.at = Unknown /\ ~NoProfile.counted
  BY PostMatchAssumption DEF NoProfile, Snapshots, Unknown

LEMMA AnswersAreSnapshots ==
  ASSUME NEW answer \in Answers
  PROVE  answer \in Snapshots /\ answer.at \in 0..LastMatch /\ answer.counted \in BOOLEAN
         /\ answer.at # Unknown
  BY PostMatchAssumption DEF Answers, Snapshots, Unknown

\* The oldest record of a queue.
LEMMA HeadOfQueue ==
  ASSUME NEW queue \in Seq(Records), queue # <<>>
  PROVE  1 \in DOMAIN queue /\ queue[1] \in Records /\ Len(queue) \in Nat \ {0}
         /\ DOMAIN queue = 1..Len(queue)
  OBVIOUS

LEMMA BaselineIsCount ==
  ASSUME NEW r, r.queue \in Seq(Records), r.queue # <<>>, r.baseline \in Counts
  PROVE  PublicationBaseline(r) \in Counts
<1>1. r.queue[1] \in Records
  BY HeadOfQueue
<1>2. CountOf(r.queue[1].pre) \in Counts /\ r.queue[1].obsCount \in Counts
  BY <1>1, RecordFields, SnapshotFields
<1>3. Counts \subseteq Int
  BY DEF Counts, Unknown
<1> QED
  BY <1>2, <1>3, MaxOfThree DEF PublicationBaseline

\* An answer covers no more matches than wait.
LEMMA CoveredCountBound ==
  ASSUME NEW r, r.queue \in Seq(Records), r.queue # <<>>, r.baseline \in Counts,
         NEW answer \in Answers
  PROVE  CoveredCount(r, answer) \in 0..Len(r.queue)
<1> DEFINE base == PublicationBaseline(r)
           more == answer.at - base
           low == Min({more, Len(r.queue)})
<1>1. base \in Counts
  BY BaselineIsCount
<1>2. Len(r.queue) \in Nat \ {0}
  BY HeadOfQueue
<1>3. answer.at \in Nat
  BY AnswersAreSnapshots, PostMatchAssumption
<1>4. more \in Int
  BY <1>1, <1>3 DEF Counts, Unknown
<1>5. low \in Int /\ low <= Len(r.queue)
  BY <1>2, <1>4, MinOfTwo
<1>6. Max({0, low}) = IF 0 >= low THEN 0 ELSE low
  <2> HIDE DEF low
  <2> QED
    BY <1>5, MaxOfTwo
<1>7. Max({0, low}) \in 0..Len(r.queue)
  <2> HIDE DEF low
  <2> QED
    BY <1>2, <1>5, <1>6
<1> QED
  BY <1>2, <1>7 DEF CoveredCount

-----------------------------------------------------------------------------
\* Deciding results leaves everything else of a record alone.

SettledRecord(p, q) ==
  /\ q \in Records
  /\ q.match = p.match /\ q.kind = p.kind /\ q.pre = p.pre
  /\ q.obsAt = p.obsAt /\ q.obsCount = p.obsCount
  /\ q.dbFinal = p.dbFinal /\ q.point = p.point
  /\ p.known => q.known /\ q.won = p.won

Settled(old, new) ==
  /\ new \in Seq(Records) /\ Len(new) = Len(old) /\ DOMAIN new = DOMAIN old
  /\ \A i \in DOMAIN old : SettledRecord(old[i], new[i])

LEMMA SettledByResult ==
  ASSUME NEW p \in Records, NEW b \in BOOLEAN
  PROVE  /\ SettledRecord(p, p)
         /\ ~p.known => SettledRecord(p, [p EXCEPT !.known = TRUE, !.won = b])
  BY DEF SettledRecord, Records

LEMMA SettledTwice ==
  ASSUME NEW a, NEW b, NEW c, Settled(a, b), Settled(b, c)
  PROVE  Settled(a, c)
<1>1. Len(c) = Len(a) /\ DOMAIN c = DOMAIN a /\ c \in Seq(Records)
  BY DEF Settled
<1>2. ASSUME NEW i \in DOMAIN a
      PROVE  SettledRecord(a[i], c[i])
  <2>1. SettledRecord(a[i], b[i]) /\ SettledRecord(b[i], c[i])
    BY DEF Settled
  <2> QED
    BY <2>1 DEF SettledRecord
<1> QED
  BY <1>1, <1>2 DEF Settled

LEMMA SettledPointwise ==
  ASSUME NEW queue \in Seq(Records), NEW new, new = [i \in DOMAIN queue |-> new[i]],
         \A i \in DOMAIN queue : SettledRecord(queue[i], new[i])
  PROVE  Settled(queue, new)
<1>1. Len(queue) \in Nat /\ DOMAIN queue = 1..Len(queue)
  OBVIOUS
<1>2. \A i \in DOMAIN queue : new[i] \in Records
  BY DEF SettledRecord
<1>3. new \in [1..Len(queue) -> Records]
  BY <1>1, <1>2
<1>4. new \in Seq(Records) /\ Len(new) = Len(queue)
  BY <1>1, <1>3, IsASeq, LenProperties
<1> QED
  BY <1>1, <1>3, <1>4 DEF Settled

LEMMA ForfeitsSettle ==
  ASSUME NEW queue \in Seq(Records), NEW n
  PROVE  Settled(queue, WithForfeits(queue, n))
<1> DEFINE new == WithForfeits(queue, n)
<1>1. new = [i \in DOMAIN queue |-> new[i]]
  BY DEF WithForfeits
<1>2. ASSUME NEW i \in DOMAIN queue
      PROVE  SettledRecord(queue[i], new[i])
  <2>1. queue[i] \in Records
    OBVIOUS
  <2>2. new[i] = IF i <= n /\ ~queue[i].known /\ queue[i].kind = "forfeit"
                 THEN [queue[i] EXCEPT !.known = TRUE, !.won = FALSE] ELSE queue[i]
    BY DEF WithForfeits
  <2> HIDE DEF new
  <2> QED
    BY <2>1, <2>2, SettledByResult
<1> HIDE DEF new
<1> QED
  BY <1>1, <1>2, SettledPointwise DEF new

LEMMA ScoreSettles ==
  ASSUME NEW queue \in Seq(Records), NEW n
  PROVE  Settled(queue, WithScore(queue, n))
<1> DEFINE new == WithScore(queue, n)
<1>1. new = [i \in DOMAIN queue |-> new[i]]
  BY DEF WithScore
<1>2. ASSUME NEW i \in DOMAIN queue
      PROVE  SettledRecord(queue[i], new[i])
  <2>1. queue[i] \in Records
    OBVIOUS
  <2>2. new[i] = IF i <= n /\ ~queue[i].known /\ queue[i].kind # "tied"
                 THEN [queue[i] EXCEPT !.known = TRUE, !.won = (queue[i].kind = "lead")]
                 ELSE queue[i]
    BY DEF WithScore
  <2>3. PICK b \in BOOLEAN : b = (queue[i].kind = "lead")
    OBVIOUS
  <2> HIDE DEF new
  <2> QED
    BY <2>1, <2>2, <2>3, SettledByResult
<1> HIDE DEF new
<1> QED
  BY <1>1, <1>2, SettledPointwise DEF new

\* What all assignments agree on for match i.
AgreedResult(feasible, i, w) ==
  /\ feasible # {}
  /\ \A a, b \in feasible : (i \in a) = (i \in b)
  /\ w = \A a \in feasible : i \in a

OpenRecords(queue, n) == {k \in 1..n : ~queue[k].known}

WithResult(q, w) == [q EXCEPT !.known = TRUE, !.won = w]

\* What the change of rating adds to a record.
LEMMA RatingAt ==
  ASSUME NEW queue \in Seq(Records), NEW n, NEW at, NEW i \in DOMAIN queue
  PROVE  \/ WithRating(queue, n, at)[i] = queue[i]
         \/ \E w \in BOOLEAN :
              /\ i \in OpenRecords(queue, n) /\ queue[1].pre.at # Unknown
              /\ AgreedResult(Feasible(queue, n, OpenRecords(queue, n), at), i, w)
              /\ WithRating(queue, n, at)[i] = WithResult(queue[i], w)
<1> DEFINE open == OpenRecords(queue, n)
           feasible == Feasible(queue, n, open, at)
           agreed == feasible # {} /\ \A a, b \in feasible : (i \in a) = (i \in b)
           w == \A a \in feasible : i \in a
           new == WithRating(queue, n, at)[i]
<1>1. new = IF i \in open /\ queue[1].pre.at # Unknown /\ agreed
            THEN [queue[i] EXCEPT !.known = TRUE, !.won = w] ELSE queue[i]
  BY DEF WithRating, OpenRecords
<1>2. w \in BOOLEAN
  OBVIOUS
<1>3. agreed => AgreedResult(feasible, i, w)
  BY DEF AgreedResult
<1> HIDE DEF w, new, feasible, agreed, open
<1>4. CASE i \in open /\ queue[1].pre.at # Unknown /\ agreed
  <2>1. new = WithResult(queue[i], w)
    BY <1>1, <1>4 DEF WithResult
  <2>2. \E x \in BOOLEAN : /\ i \in open /\ queue[1].pre.at # Unknown
                           /\ AgreedResult(feasible, i, x)
                           /\ new = WithResult(queue[i], x)
    BY <1>2, <1>3, <1>4, <2>1
  <2> QED
    BY <2>2 DEF new, feasible, open
<1>5. CASE ~(i \in open /\ queue[1].pre.at # Unknown /\ agreed)
  BY <1>1, <1>5 DEF new
<1> QED
  BY <1>4, <1>5

LEMMA RatingSettles ==
  ASSUME NEW queue \in Seq(Records), NEW n, NEW at
  PROVE  Settled(queue, WithRating(queue, n, at))
<1> DEFINE new == WithRating(queue, n, at)
<1>1. new = [i \in DOMAIN queue |-> new[i]]
  BY DEF WithRating
<1>2. ASSUME NEW i \in DOMAIN queue
      PROVE  SettledRecord(queue[i], new[i])
  <2>1. queue[i] \in Records
    OBVIOUS
  <2>2. \/ new[i] = queue[i]
        \/ ~queue[i].known /\ \E w \in BOOLEAN : new[i] = WithResult(queue[i], w)
    BY RatingAt DEF OpenRecords
  <2>3. \A w \in BOOLEAN : ~queue[i].known => SettledRecord(queue[i], WithResult(queue[i], w))
    BY <2>1, SettledByResult DEF WithResult
  <2>4. SettledRecord(queue[i], queue[i])
    BY <2>1, SettledByResult
  <2> HIDE DEF new
  <2> QED
    BY <2>2, <2>3, <2>4
<1> HIDE DEF new
<1> QED
  BY <1>1, <1>2, SettledPointwise DEF new

LEMMA DecidedSettles ==
  ASSUME NEW queue \in Seq(Records), NEW n, NEW at
  PROVE  Settled(queue, Decided(queue, n, at))
<1> DEFINE a == WithForfeits(queue, n)
           b == WithRating(a, n, at)
           c == WithScore(b, n)
<1>1. Settled(queue, a)
  BY ForfeitsSettle
<1>2. a \in Seq(Records)
  BY <1>1 DEF Settled
<1>3. Settled(a, b)
  BY <1>2, RatingSettles
<1>4. b \in Seq(Records)
  BY <1>3 DEF Settled
<1>5. Settled(b, c)
  BY <1>4, ScoreSettles
<1> HIDE DEF a, b, c
<1>6. Settled(queue, c)
  BY <1>1, <1>3, <1>5, SettledTwice
<1> QED
  BY <1>6 DEF Decided, a, b, c

-----------------------------------------------------------------------------
\* What the reconciler's operations keep.

IsReconciler(r) ==
  r = [queue |-> r.queue, completed |-> r.completed, baseline |-> r.baseline,
       points |-> r.points, cache |-> r.cache, cacheValid |-> r.cacheValid]

LEMMA PlaceOfPending ==
  ASSUME NEW r, NEW match, IsPending(r, match)
  PROVE  PlaceOf(r, match) \in DOMAIN r.queue /\ r.queue[PlaceOf(r, match)].match = match
  BY DEF PlaceOf, IsPending

\* An operation that neither adds nor drops a record nor covers a match.
LEMMA KeptReconciler ==
  ASSUME NEW k \in Nat, NEW r, Reconciler(r, k), NEW p, IsReconciler(p),
         p.queue \in Seq(Records), DOMAIN p.queue = DOMAIN r.queue,
         \A i \in DOMAIN r.queue :
           /\ p.queue[i].match = r.queue[i].match
           /\ p.queue[i].point => p.queue[i].match \in p.completed
           /\ p.queue[i].kind \notin Left => p.queue[i].known,
         r.completed \subseteq p.completed, p.completed \subseteq 1..k,
         p.points \in [p.completed -> Points],
         \A m \in r.completed : p.points[m] = r.points[m],
         \A m \in p.completed \ r.completed : ~p.points[m].covered,
         p.baseline \in Counts, p.cache \in Snapshots, p.cacheValid \in BOOLEAN
  PROVE  /\ Reconciler(p, k)
         /\ \A m : Covered(p, m) <=> Covered(r, m)
         /\ \A m : IsPending(p, m) <=> IsPending(r, m)
         /\ Shown(p) = Shown(r)
<1>1. \A m : Covered(p, m) <=> Covered(r, m)
  BY DEF Covered
<1>2. \A m : IsPending(p, m) <=> IsPending(r, m)
  BY DEF IsPending
<1>3. Ordered(p.queue)
  BY DEF Reconciler, Ordered
<1>4. \A i \in DOMAIN p.queue : p.queue[i].match <= k
  BY DEF Reconciler
<1>5. \A m \in 1..k : IsPending(p, m) <=> ~Covered(p, m)
  BY <1>1, <1>2 DEF Reconciler
<1>6. Reconciler(p, k)
  BY <1>3, <1>4, <1>5 DEF Reconciler, IsReconciler
<1>7. Shown(p) = Shown(r)
  <2>1. {c \in p.completed : p.points[c].covered} = {c \in r.completed : r.points[c].covered}
    BY <1>1 DEF Covered
  <2>2. \A m \in {c \in r.completed : r.points[c].covered} : p.points[m].value = r.points[m].value
    OBVIOUS
  <2> QED
    BY <2>1, <2>2 DEF Shown
<1> QED
  BY <1>1, <1>2, <1>6, <1>7

\* The fields of a record that an observation may change.
ObservedRecord(p, q) ==
  /\ q \in Records
  /\ q.match = p.match /\ q.kind = p.kind /\ q.pre = p.pre /\ q.known = p.known
  /\ q.won = p.won /\ q.dbFinal = p.dbFinal

LEMMA ProvisionalShape ==
  ASSUME NEW k \in Nat, NEW r, Reconciler(r, k), NEW match, IsPending(r, match),
         NEW answer \in Snapshots, NEW i, i = PlaceOf(r, match), ~r.queue[i].point,
         NEW p, p = Provisional(r, match, answer)
  PROVE  /\ IsReconciler(p)
         /\ p.queue \in Seq(Records) /\ DOMAIN p.queue = DOMAIN r.queue
         /\ Len(p.queue) = Len(r.queue)
         /\ \A j \in DOMAIN r.queue : j # i => p.queue[j] = r.queue[j]
         /\ i \in DOMAIN r.queue /\ ObservedRecord(r.queue[i], p.queue[i])
         /\ r.queue[i].pre.counted => p.queue[i].obsCount = r.queue[i].obsCount
         /\ p.completed = r.completed \cup {match}
         /\ p.baseline = r.baseline /\ p.cache = r.cache /\ p.cacheValid = r.cacheValid
         /\ p.points \in [p.completed -> Points]
         /\ \A m \in r.completed : p.points[m] = r.points[m]
         /\ \A m \in p.completed \ r.completed : ~p.points[m].covered
<1> DEFINE q == r.queue[i]
           at == IF q.obsAt = Unknown THEN answer.at ELSE q.obsAt
           count == IF q.obsCount = Unknown /\ ~q.pre.counted THEN CountOf(answer)
                    ELSE q.obsCount
           seenAs == [q EXCEPT !.obsAt = at, !.obsCount = count, !.point = TRUE]
           queue == [r.queue EXCEPT ![i] = seenAs]
           points == IF match \in DOMAIN r.points THEN r.points
                     ELSE [m \in DOMAIN r.points \cup {match} |->
                             IF m = match THEN [value |-> Guess, covered |-> FALSE]
                             ELSE r.points[m]]
<1>1. /\ IsReconciler(r) /\ r.queue \in Seq(Records)
      /\ DOMAIN r.queue = 1..Len(r.queue) /\ Len(r.queue) \in Nat
  BY DEF Reconciler, IsReconciler
<1>2. i \in DOMAIN r.queue /\ q \in Records
  BY <1>1, PlaceOfPending
<1>3. at \in Unknown..LastMatch /\ count \in Counts
  BY <1>2, RecordFields, SnapshotFields
<1>4. seenAs \in Records /\ ObservedRecord(q, seenAs) /\ seenAs.obsCount = count
  <2> HIDE DEF at, count, q
  <2> QED
    BY <1>2, <1>3 DEF Records, ObservedRecord, Counts
<1>5. /\ IsReconciler(p) /\ p.queue = queue /\ p.completed = r.completed \cup {match}
      /\ p.baseline = r.baseline /\ p.cache = r.cache /\ p.cacheValid = r.cacheValid
      /\ p.points = points
  <2>1. p = [r EXCEPT !.queue[i].obsAt = at, !.queue[i].obsCount = count,
                      !.queue[i].point = TRUE, !.completed = @ \cup {match},
                      !.points = points]
    BY <1>1, <1>2 DEF Provisional, IsReconciler, Records
  <2>2. q = [match |-> q.match, kind |-> q.kind, pre |-> q.pre, obsAt |-> q.obsAt,
             obsCount |-> q.obsCount, known |-> q.known, won |-> q.won,
             dbFinal |-> q.dbFinal, point |-> q.point]
    BY <1>2 DEF Records
  <2> HIDE DEF at, count, points
  <2>3. p.queue = [r.queue EXCEPT ![i] = seenAs]
    BY <1>1, <1>2, <2>1, <2>2 DEF IsReconciler
  <2>4. /\ IsReconciler(p) /\ p.completed = r.completed \cup {match}
        /\ p.baseline = r.baseline /\ p.cache = r.cache /\ p.cacheValid = r.cacheValid
        /\ p.points = points
    BY <1>1, <2>1 DEF IsReconciler
  <2> QED
    BY <2>3, <2>4
<1> HIDE DEF seenAs
<1>6. queue \in Seq(Records) /\ Len(queue) = Len(r.queue) /\ DOMAIN queue = DOMAIN r.queue
      /\ queue[i] = seenAs /\ \A j \in DOMAIN r.queue : j # i => queue[j] = r.queue[j]
  BY <1>1, <1>2, <1>4
<1>7. r.queue[i].pre.counted => count = r.queue[i].obsCount
  OBVIOUS
<1> HIDE DEF queue, points, count, q
<1>8. /\ points \in [p.completed -> Points]
      /\ \A m \in r.completed : points[m] = r.points[m]
      /\ \A m \in p.completed \ r.completed : ~points[m].covered
  <2>1. r.points \in [r.completed -> Points]
    BY DEF Reconciler
  <2>2. [value |-> Guess, covered |-> FALSE] \in Points
    BY DEF Points, Values
  <2> QED
    BY <1>5, <2>1, <2>2 DEF points
<1> QED
  BY <1>2, <1>4, <1>5, <1>6, <1>7, <1>8 DEF q

\* The records are the same but for what was observed.
ObservedQueue(old, new) ==
  /\ new \in Seq(Records) /\ Len(new) = Len(old) /\ DOMAIN new = DOMAIN old
  /\ \A i \in DOMAIN old : ObservedRecord(old[i], new[i])

SameBooks(r, p, k) ==
  /\ Reconciler(p, k)
  /\ \A m : Covered(p, m) <=> Covered(r, m)
  /\ \A m : IsPending(p, m) <=> IsPending(r, m)
  /\ Shown(p) = Shown(r)
  /\ r.completed \subseteq p.completed
  /\ p.cache = r.cache /\ p.cacheValid = r.cacheValid

LEMMA RecordsOfReconciler ==
  ASSUME NEW k \in Nat, NEW r, Reconciler(r, k), NEW i \in DOMAIN r.queue
  PROVE  /\ r.queue[i] \in Records /\ r.queue[i].match \in 1..k
         /\ r.queue[i].kind \notin Left => r.queue[i].known
         /\ r.queue[i].point => r.queue[i].match \in r.completed
         /\ i \in 1..Len(r.queue) /\ Len(r.queue) \in Nat
         /\ IsPending(r, r.queue[i].match)
<1>1. r.queue[i] \in Records /\ i \in 1..Len(r.queue) /\ Len(r.queue) \in Nat
  BY DEF Reconciler
<1>2. r.queue[i].match \in Matches
  BY <1>1, RecordFields
<1>3. r.queue[i].match <= k
  BY DEF Reconciler
<1> QED
  BY <1>1, <1>2, <1>3, PostMatchAssumption DEF Reconciler, Matches, IsPending

LEMMA ProvisionalKeeps ==
  ASSUME NEW k \in Nat, NEW r, Reconciler(r, k), NEW match, NEW answer \in Snapshots,
         NEW p, p = Provisional(r, match, answer)
  PROVE  /\ SameBooks(r, p, k)
         /\ ObservedQueue(r.queue, p.queue)
         /\ \A i \in DOMAIN r.queue :
              r.queue[i].pre.counted => p.queue[i].obsCount = r.queue[i].obsCount
         /\ p.baseline = r.baseline
         /\ IsPending(r, match) => match \in p.completed
<1>1. IsReconciler(r) /\ r.queue \in Seq(Records)
  BY DEF Reconciler, IsReconciler
<1>2. CASE ~IsPending(r, match) \/ r.queue[PlaceOf(r, match)].point
  <2>1. p = r
    BY <1>2 DEF Provisional
  <2>2. IsPending(r, match) => match \in r.completed
    BY <1>2, PlaceOfPending DEF Reconciler
  <2>3. \A i \in DOMAIN r.queue : ObservedRecord(r.queue[i], r.queue[i])
    BY <1>1 DEF ObservedRecord
  <2> QED
    BY <1>1, <2>1, <2>2, <2>3 DEF SameBooks, ObservedQueue
<1>3. CASE IsPending(r, match) /\ ~r.queue[PlaceOf(r, match)].point
  <2> DEFINE i == PlaceOf(r, match)
  <2>1. /\ IsReconciler(p)
        /\ p.queue \in Seq(Records) /\ DOMAIN p.queue = DOMAIN r.queue
        /\ Len(p.queue) = Len(r.queue)
        /\ \A j \in DOMAIN r.queue : j # i => p.queue[j] = r.queue[j]
        /\ i \in DOMAIN r.queue /\ ObservedRecord(r.queue[i], p.queue[i])
        /\ r.queue[i].pre.counted => p.queue[i].obsCount = r.queue[i].obsCount
        /\ p.completed = r.completed \cup {match}
        /\ p.baseline = r.baseline /\ p.cache = r.cache /\ p.cacheValid = r.cacheValid
        /\ p.points \in [p.completed -> Points]
        /\ \A m \in r.completed : p.points[m] = r.points[m]
        /\ \A m \in p.completed \ r.completed : ~p.points[m].covered
    BY <1>3, ProvisionalShape
  <2>2. r.queue[i].match = match
    BY <1>3, PlaceOfPending
  <2> HIDE DEF i
  <2>3. \A j \in DOMAIN r.queue : r.queue[j] \in Records
    BY <1>1
  <2>4. ObservedQueue(r.queue, p.queue)
    BY <2>1, <2>3 DEF ObservedQueue, ObservedRecord
  <2>5. match \in 1..k
    BY <2>1, <2>2, RecordsOfReconciler
  <2>6. r.points \in [r.completed -> Points] /\ r.completed \subseteq 1..k
    BY DEF Reconciler
  <2>8. /\ r.completed \subseteq p.completed /\ p.completed \subseteq 1..k
        /\ p.baseline \in Counts /\ p.cache \in Snapshots /\ p.cacheValid \in BOOLEAN
    BY <2>1, <2>5, <2>6 DEF Reconciler
  <2>9. \A j \in DOMAIN r.queue :
          /\ p.queue[j].match = r.queue[j].match
          /\ p.queue[j].point => p.queue[j].match \in p.completed
          /\ p.queue[j].kind \notin Left => p.queue[j].known
    <3> SUFFICES ASSUME NEW j \in DOMAIN r.queue
                 PROVE  /\ p.queue[j].match = r.queue[j].match
                        /\ p.queue[j].point => p.queue[j].match \in p.completed
                        /\ p.queue[j].kind \notin Left => p.queue[j].known
      OBVIOUS
    <3>1. ObservedRecord(r.queue[j], p.queue[j])
      BY <2>4 DEF ObservedQueue
    <3>2. CASE j = i
      BY <2>1, <2>2, <3>1, <3>2, RecordsOfReconciler DEF ObservedRecord
    <3>3. CASE j # i
      BY <2>1, <3>3, RecordsOfReconciler
    <3> QED
      BY <3>2, <3>3
  <2>7. /\ IsReconciler(p) /\ p.queue \in Seq(Records) /\ DOMAIN p.queue = DOMAIN r.queue
        /\ p.points \in [p.completed -> Points]
        /\ \A m \in r.completed : p.points[m] = r.points[m]
        /\ \A m \in p.completed \ r.completed : ~p.points[m].covered
    BY <2>1
  <2>10. /\ Reconciler(p, k)
         /\ \A m : Covered(p, m) <=> Covered(r, m)
         /\ \A m : IsPending(p, m) <=> IsPending(r, m)
         /\ Shown(p) = Shown(r)
    BY <2>7, <2>8, <2>9, KeptReconciler
  <2> QED
    BY <2>1, <2>4, <2>8, <2>10 DEF SameBooks
<1> QED
  BY <1>2, <1>3

\* The counts take what the answer counts.
ObservedCounts(r, p, answer) ==
  /\ p.queue[1].obsCount = Max({r.queue[1].obsCount, CountOf(answer)})
  /\ p.baseline = Max({r.baseline, CountOf(answer)})

LEMMA ObservedKeeps ==
  ASSUME NEW k \in Nat, NEW r, Reconciler(r, k), r.queue # <<>>, NEW answer \in Snapshots,
         NEW p, p = Observed(r, answer)
  PROVE  /\ SameBooks(r, p, k)
         /\ ObservedQueue(r.queue, p.queue)
         /\ ObservedCounts(r, p, answer)
         /\ \A i \in DOMAIN r.queue : i # 1 => p.queue[i] = r.queue[i]
<1> DEFINE q == r.queue[1]
           count == Max({q.obsCount, CountOf(answer)})
           baseline == Max({r.baseline, CountOf(answer)})
           seenAs == [q EXCEPT !.obsAt = answer.at, !.obsCount = count]
           queue == [r.queue EXCEPT ![1] = seenAs]
<1>1. IsReconciler(r) /\ r.queue \in Seq(Records) /\ r.baseline \in Counts
  BY DEF Reconciler, IsReconciler
<1>2. /\ 1 \in DOMAIN r.queue /\ q \in Records /\ DOMAIN r.queue = 1..Len(r.queue)
      /\ Len(r.queue) \in Nat
  BY <1>1, HeadOfQueue
<1>3. q.obsCount \in Counts /\ CountOf(answer) \in Counts /\ answer.at \in Unknown..LastMatch
  BY <1>2, RecordFields, SnapshotFields
<1>4. count \in Counts
  BY <1>3, MaxOfTwo DEF Counts, Unknown
<1>5. baseline \in Counts
  BY <1>1, <1>3, MaxOfTwo DEF Counts, Unknown
<1>6. /\ seenAs \in Records /\ ObservedRecord(q, seenAs) /\ seenAs.obsCount = count
      /\ seenAs.point = q.point
  <2> HIDE DEF count, q
  <2> QED
    BY <1>2, <1>3, <1>4 DEF Records, ObservedRecord, Counts
<1>7. IsReconciler(p) /\ p.queue = queue /\ p.baseline = baseline /\ p.cache = r.cache
      /\ p.cacheValid = r.cacheValid /\ p.completed = r.completed /\ p.points = r.points
  <2>1. p = [r EXCEPT !.queue[1].obsAt = answer.at, !.queue[1].obsCount = count,
                      !.baseline = baseline]
    BY <1>1, <1>2 DEF Observed, IsReconciler, Records
  <2>2. q = [match |-> q.match, kind |-> q.kind, pre |-> q.pre, obsAt |-> q.obsAt,
             obsCount |-> q.obsCount, known |-> q.known, won |-> q.won,
             dbFinal |-> q.dbFinal, point |-> q.point]
    BY <1>2 DEF Records
  <2> HIDE DEF count, baseline
  <2>3. p.queue = [r.queue EXCEPT ![1] = seenAs]
    <3>1. 1 \in DOMAIN r.queue /\ IsReconciler(r)
      BY <1>1, <1>2
    <3> QED
      BY <3>1, <2>1, <2>2 DEF IsReconciler
  <2>4. IsReconciler(p) /\ p.baseline = baseline /\ p.cache = r.cache
        /\ p.cacheValid = r.cacheValid /\ p.completed = r.completed /\ p.points = r.points
    BY <1>1, <2>1 DEF IsReconciler
  <2> QED
    BY <2>3, <2>4
<1> HIDE DEF seenAs
<1>8. /\ queue \in Seq(Records) /\ Len(queue) = Len(r.queue) /\ DOMAIN queue = DOMAIN r.queue
      /\ queue[1] = seenAs /\ \A j \in DOMAIN r.queue : j # 1 => queue[j] = r.queue[j]
  BY <1>1, <1>2, <1>6
<1> HIDE DEF queue, baseline, count
<1>9. \A j \in DOMAIN r.queue : r.queue[j] \in Records
  BY <1>1
<1>10. ObservedQueue(r.queue, p.queue)
  BY <1>6, <1>7, <1>8, <1>9 DEF ObservedQueue, ObservedRecord
<1>11. \A j \in DOMAIN r.queue :
         /\ p.queue[j].match = r.queue[j].match
         /\ p.queue[j].point => p.queue[j].match \in p.completed
         /\ p.queue[j].kind \notin Left => p.queue[j].known
  <2> SUFFICES ASSUME NEW j \in DOMAIN r.queue
               PROVE  /\ p.queue[j].match = r.queue[j].match
                      /\ p.queue[j].point => p.queue[j].match \in p.completed
                      /\ p.queue[j].kind \notin Left => p.queue[j].known
    OBVIOUS
  <2>1. ObservedRecord(r.queue[j], p.queue[j]) /\ p.queue[j].point = r.queue[j].point
    BY <1>6, <1>7, <1>8, <1>10 DEF ObservedQueue
  <2> QED
    BY <1>7, <2>1, RecordsOfReconciler DEF ObservedRecord
<1>12. /\ r.completed \subseteq p.completed /\ p.completed \subseteq 1..k
       /\ p.points \in [p.completed -> Points]
       /\ \A m \in r.completed : p.points[m] = r.points[m]
       /\ p.cache \in Snapshots /\ p.cacheValid \in BOOLEAN
  BY <1>7 DEF Reconciler
<1>13. /\ Reconciler(p, k)
       /\ \A m : Covered(p, m) <=> Covered(r, m)
       /\ \A m : IsPending(p, m) <=> IsPending(r, m)
       /\ Shown(p) = Shown(r)
  BY <1>5, <1>7, <1>8, <1>11, <1>12, KeptReconciler, SMTT(30)
<1>14. p.queue[1].obsCount = count /\ p.baseline = baseline
  BY <1>6, <1>7, <1>8
<1>15. ObservedCounts(r, p, answer)
  BY <1>14 DEF ObservedCounts, count, baseline
<1>16. \A i \in DOMAIN r.queue : i # 1 => p.queue[i] = r.queue[i]
  BY <1>7, <1>8
<1>17. SameBooks(r, p, k)
  BY <1>7, <1>12, <1>13 DEF SameBooks
<1> QED
  BY <1>10, <1>15, <1>16, <1>17

LEMMA SettleKeeps ==
  ASSUME NEW k \in Nat, NEW r, Reconciler(r, k), NEW queue, Settled(r.queue, queue),
         NEW p, IsReconciler(p), p.queue = queue, p.baseline = r.baseline, p.cache = r.cache,
         p.cacheValid = r.cacheValid, p.completed = r.completed, p.points = r.points
  PROVE  SameBooks(r, p, k)
<1>1. queue \in Seq(Records) /\ DOMAIN queue = DOMAIN r.queue
  BY DEF Settled
<1>2. \A j \in DOMAIN r.queue :
         /\ p.queue[j].match = r.queue[j].match
         /\ p.queue[j].point => p.queue[j].match \in p.completed
         /\ p.queue[j].kind \notin Left => p.queue[j].known
  <2> SUFFICES ASSUME NEW j \in DOMAIN r.queue
               PROVE  /\ p.queue[j].match = r.queue[j].match
                      /\ p.queue[j].point => p.queue[j].match \in p.completed
                      /\ p.queue[j].kind \notin Left => p.queue[j].known
    OBVIOUS
  <2>1. SettledRecord(r.queue[j], p.queue[j])
    BY DEF Settled
  <2> QED
    BY <2>1, RecordsOfReconciler DEF SettledRecord
<1>3. /\ r.completed \subseteq p.completed /\ p.completed \subseteq 1..k
      /\ p.points \in [p.completed -> Points]
      /\ \A m \in r.completed : p.points[m] = r.points[m]
      /\ \A m \in p.completed \ r.completed : ~p.points[m].covered
      /\ p.baseline \in Counts /\ p.cache \in Snapshots /\ p.cacheValid \in BOOLEAN
  BY DEF Reconciler
<1>4. /\ Reconciler(p, k)
      /\ \A m : Covered(p, m) <=> Covered(r, m)
      /\ \A m : IsPending(p, m) <=> IsPending(r, m)
      /\ Shown(p) = Shown(r)
  BY <1>1, <1>2, <1>3, KeptReconciler
<1> QED
  BY <1>3, <1>4 DEF SameBooks

LEMMA CacheKeeps ==
  ASSUME NEW k \in Nat, NEW r, Reconciler(r, k), NEW c \in Snapshots, NEW valid \in BOOLEAN,
         NEW p, IsReconciler(p), p.queue = r.queue, p.baseline = r.baseline, p.cache = c,
         p.cacheValid = valid, p.completed = r.completed, p.points = r.points
  PROVE  /\ Reconciler(p, k) /\ Shown(p) = Shown(r)
         /\ \A m : Covered(p, m) <=> Covered(r, m)
         /\ \A m : IsPending(p, m) <=> IsPending(r, m)
<1>1. r.queue \in Seq(Records)
  BY DEF Reconciler
<1>2. \A j \in DOMAIN r.queue :
         /\ p.queue[j].match = r.queue[j].match
         /\ p.queue[j].point => p.queue[j].match \in p.completed
         /\ p.queue[j].kind \notin Left => p.queue[j].known
  BY DEF Reconciler
<1>3. /\ r.completed \subseteq p.completed /\ p.completed \subseteq 1..k
      /\ p.points \in [p.completed -> Points]
      /\ \A m \in r.completed : p.points[m] = r.points[m]
      /\ \A m \in p.completed \ r.completed : ~p.points[m].covered
      /\ p.baseline \in Counts
  BY DEF Reconciler
<1>4. /\ Reconciler(p, k)
      /\ \A m : Covered(p, m) <=> Covered(r, m)
      /\ \A m : IsPending(p, m) <=> IsPending(r, m)
      /\ Shown(p) = Shown(r)
  BY <1>1, <1>2, <1>3, KeptReconciler
<1> QED
  BY <1>4

\* A result that arrives late is recorded, and its row is final.
LEMMA ResolveKeeps ==
  ASSUME NEW k \in Nat, NEW r, Reconciler(r, k), NEW match, NEW result \in BOOLEAN,
         NEW p, p = Resolve(r, match, result)
  PROVE  /\ SameBooks(r, p, k) /\ p.baseline = r.baseline
         /\ p.queue \in Seq(Records) /\ Len(p.queue) = Len(r.queue)
         /\ DOMAIN p.queue = DOMAIN r.queue
         /\ \A i \in DOMAIN r.queue :
              /\ p.queue[i].match = r.queue[i].match /\ p.queue[i].kind = r.queue[i].kind
              /\ p.queue[i].pre = r.queue[i].pre /\ p.queue[i].obsCount = r.queue[i].obsCount
              /\ r.queue[i].match # match => p.queue[i] = r.queue[i]
              /\ r.queue[i].match = match =>
                   p.queue[i].known /\ p.queue[i].won = result /\ p.queue[i].dbFinal
<1>1. IsReconciler(r) /\ r.queue \in Seq(Records) /\ Ordered(r.queue)
  BY DEF Reconciler, IsReconciler
<1>2. CASE ~IsPending(r, match)
  <2>1. p = r
    BY <1>2 DEF Resolve
  <2>2. \A i \in DOMAIN r.queue : r.queue[i].match # match
    BY <1>2 DEF IsPending
  <2> QED
    BY <1>1, <2>1, <2>2 DEF SameBooks
<1>3. CASE IsPending(r, match)
  <2> DEFINE i == PlaceOf(r, match)
             q == [r.queue[i] EXCEPT !.known = TRUE, !.won = result, !.dbFinal = TRUE]
             queue == [r.queue EXCEPT ![i] = q]
  <2>1. i \in DOMAIN r.queue /\ r.queue[i].match = match
    BY <1>3, PlaceOfPending
  <2>2. p = [r EXCEPT !.queue = queue]
    BY <1>1, <1>3, <2>1 DEF Resolve, IsReconciler
  <2>3. r.queue[i] \in Records
    BY <1>1, <2>1
  <2> HIDE DEF i
  <2>4. /\ q \in Records /\ q.match = match /\ q.kind = r.queue[i].kind
        /\ q.pre = r.queue[i].pre /\ q.obsCount = r.queue[i].obsCount
        /\ q.known /\ q.won = result /\ q.dbFinal /\ q.point = r.queue[i].point
    BY <2>1, <2>3 DEF Records
  <2> HIDE DEF q
  <2>5. /\ queue \in Seq(Records) /\ DOMAIN queue = DOMAIN r.queue
        /\ Len(queue) = Len(r.queue)
        /\ queue[i] = q /\ \A j \in DOMAIN r.queue : j # i => queue[j] = r.queue[j]
    BY <1>1, <2>1, <2>4
  <2> HIDE DEF queue
  <2>6. IsReconciler(p) /\ p.queue = queue /\ p.baseline = r.baseline /\ p.cache = r.cache
        /\ p.cacheValid = r.cacheValid /\ p.completed = r.completed /\ p.points = r.points
    BY <1>1, <2>2 DEF IsReconciler
  <2>7. \A j \in DOMAIN r.queue : r.queue[j].match = match => j = i
    <3> SUFFICES ASSUME NEW j \in DOMAIN r.queue, r.queue[j].match = match, j # i
                 PROVE  FALSE
      OBVIOUS
    <3>1. j \in Nat /\ i \in Nat
      BY <1>1, <2>1
    <3>2. r.queue[j].match \in Int
      BY <2>1, RecordsOfReconciler
    <3> QED
      BY <1>1, <2>1, <3>1, <3>2 DEF Ordered
  <2>8. \A j \in DOMAIN r.queue :
          /\ p.queue[j].match = r.queue[j].match
          /\ p.queue[j].point => p.queue[j].match \in p.completed
          /\ p.queue[j].kind \notin Left => p.queue[j].known
    BY <2>1, <2>4, <2>5, <2>6, RecordsOfReconciler
  <2>9. /\ r.completed \subseteq p.completed /\ p.completed \subseteq 1..k
        /\ p.points \in [p.completed -> Points]
        /\ \A m \in r.completed : p.points[m] = r.points[m]
        /\ p.baseline \in Counts /\ p.cache \in Snapshots /\ p.cacheValid \in BOOLEAN
    BY <2>6 DEF Reconciler
  <2>10. /\ Reconciler(p, k)
         /\ \A m : Covered(p, m) <=> Covered(r, m)
         /\ \A m : IsPending(p, m) <=> IsPending(r, m)
         /\ Shown(p) = Shown(r)
    BY <2>5, <2>6, <2>8, <2>9, KeptReconciler, SMTT(30)
  <2>11. \A j \in DOMAIN r.queue :
              /\ p.queue[j].match = r.queue[j].match /\ p.queue[j].kind = r.queue[j].kind
              /\ p.queue[j].pre = r.queue[j].pre /\ p.queue[j].obsCount = r.queue[j].obsCount
              /\ r.queue[j].match # match => p.queue[j] = r.queue[j]
              /\ r.queue[j].match = match =>
                   p.queue[j].known /\ p.queue[j].won = result /\ p.queue[j].dbFinal
    BY <2>1, <2>4, <2>5, <2>6, <2>7
  <2> QED
    BY <2>5, <2>6, <2>9, <2>10, <2>11 DEF SameBooks
<1> QED
  BY <1>2, <1>3

\* The match that has just ended is the next of the queue.
LEMMA EnqueueKeeps ==
  ASSUME NEW k \in Nat, NEW r, Reconciler(r, k), NEW record \in Records,
         record.match = k + 1, ~record.point, record.kind \notin Left => record.known,
         NEW p, p = EnqueueRecord(r, record)
  PROVE  /\ Reconciler(p, k + 1)
         /\ \A m : Covered(p, m) <=> Covered(r, m)
         /\ Shown(p) = Shown(r)
         /\ p.queue = Append(r.queue, record)
         /\ p.completed = r.completed /\ p.cache = r.cache /\ ~p.cacheValid
         /\ \/ p.baseline = r.baseline
            \/ /\ r.queue = <<>> /\ CountOf(record.pre) # Unknown
               /\ CountOf(record.pre) < r.baseline - 1
<1> DEFINE count == CountOf(record.pre)
           s == AfterRollback(r, count)
<1>1. /\ IsReconciler(r) /\ r.queue \in Seq(Records) /\ Ordered(r.queue)
      /\ r.completed \subseteq 1..k /\ r.baseline \in Counts
  BY DEF Reconciler, IsReconciler
<1>2. ~IsPending(r, k + 1) /\ k + 1 \notin r.completed
  BY <1>1, RecordsOfReconciler DEF IsPending
<1>3. p = [s EXCEPT !.queue = Append(@, record), !.cacheValid = FALSE]
  BY <1>2 DEF EnqueueRecord
<1>4. count \in Counts
  BY RecordFields, SnapshotFields
<1>5. /\ IsReconciler(s) /\ s.queue = r.queue /\ s.completed = r.completed
      /\ s.points = r.points /\ s.cache = r.cache /\ s.cacheValid = r.cacheValid
      /\ s.baseline \in Counts
      /\ \/ s.baseline = r.baseline
         \/ r.queue = <<>> /\ count # Unknown /\ count < r.baseline - 1
  <2> HIDE DEF count
  <2> QED
    BY <1>1, <1>4 DEF AfterRollback, IsReconciler
<1> HIDE DEF s, count
<1>6. /\ IsReconciler(p) /\ p.queue = Append(r.queue, record) /\ p.completed = r.completed
      /\ p.points = r.points /\ p.cache = r.cache /\ p.cacheValid = FALSE
      /\ p.baseline = s.baseline
  BY <1>3, <1>5 DEF IsReconciler
<1>7. /\ p.queue \in Seq(Records) /\ Len(p.queue) = Len(r.queue) + 1 /\ Len(r.queue) \in Nat
      /\ DOMAIN p.queue = 1..(Len(r.queue) + 1) /\ DOMAIN r.queue = 1..Len(r.queue)
      /\ p.queue[Len(r.queue) + 1] = record
      /\ \A i \in DOMAIN r.queue : p.queue[i] = r.queue[i]
  BY <1>1, <1>6, AppendProperties
<1>8. \A i \in DOMAIN p.queue :
        \/ i \in DOMAIN r.queue /\ p.queue[i] = r.queue[i]
        \/ i = Len(r.queue) + 1 /\ p.queue[i] = record
  BY <1>7
<1>9. \A i \in DOMAIN r.queue : r.queue[i].match \in 1..k
  BY RecordsOfReconciler
<1>10. Ordered(p.queue)
  <2> SUFFICES ASSUME NEW i \in DOMAIN p.queue, NEW j \in DOMAIN p.queue, i < j
               PROVE  p.queue[i].match < p.queue[j].match
    BY DEF Ordered
  <2>1. i \in DOMAIN r.queue /\ p.queue[i] = r.queue[i]
    BY <1>7, <1>8
  <2>2. CASE j \in DOMAIN r.queue /\ p.queue[j] = r.queue[j]
    BY <1>1, <2>1, <2>2 DEF Ordered
  <2>3. CASE j = Len(r.queue) + 1 /\ p.queue[j] = record
    BY <1>9, <2>1, <2>3
  <2> QED
    BY <1>8, <2>2, <2>3
<1>11. \A m : Covered(p, m) <=> Covered(r, m)
  BY <1>6 DEF Covered
<1>12. \A m : IsPending(p, m) <=> IsPending(r, m) \/ m = k + 1
  <2> TAKE m
  <2>1. ASSUME IsPending(p, m)
        PROVE  IsPending(r, m) \/ m = k + 1
    <3> PICK i \in DOMAIN p.queue : p.queue[i].match = m
      BY <2>1 DEF IsPending
    <3> QED
      BY <1>8 DEF IsPending
  <2>2. ASSUME IsPending(r, m)
        PROVE  IsPending(p, m)
    <3> PICK i \in DOMAIN r.queue : r.queue[i].match = m
      BY <2>2 DEF IsPending
    <3>1. i \in DOMAIN p.queue /\ p.queue[i].match = m
      BY <1>7
    <3> QED
      BY <3>1 DEF IsPending
  <2>3. IsPending(p, k + 1)
    <3>1. Len(r.queue) + 1 \in DOMAIN p.queue
      BY <1>7
    <3> QED
      BY <1>7, <3>1 DEF IsPending
  <2> QED
    BY <2>1, <2>2, <2>3
<1>13. \A m \in 1..(k + 1) : IsPending(p, m) <=> ~Covered(p, m)
  <2> SUFFICES ASSUME NEW m \in 1..(k + 1)
               PROVE  IsPending(p, m) <=> ~Covered(p, m)
    OBVIOUS
  <2>1. CASE m = k + 1
    BY <1>2, <1>11, <1>12, <2>1 DEF Covered
  <2>2. CASE m \in 1..k
    <3>1. m # k + 1
      BY <2>2
    <3> QED
      BY <1>11, <1>12, <2>2, <3>1 DEF Reconciler
  <2> QED
    BY <2>1, <2>2
<1>14. \A i \in DOMAIN p.queue :
         /\ p.queue[i].match <= k + 1
         /\ p.queue[i].point => p.queue[i].match \in p.completed
         /\ p.queue[i].kind \notin Left => p.queue[i].known
  <2> SUFFICES ASSUME NEW i \in DOMAIN p.queue
               PROVE  /\ p.queue[i].match <= k + 1
                      /\ p.queue[i].point => p.queue[i].match \in p.completed
                      /\ p.queue[i].kind \notin Left => p.queue[i].known
    OBVIOUS
  <2>1. CASE i \in DOMAIN r.queue /\ p.queue[i] = r.queue[i]
    BY <1>6, <1>9, <2>1, RecordsOfReconciler
  <2>2. CASE p.queue[i] = record
    BY <2>2
  <2> QED
    BY <1>8, <2>1, <2>2
<1>15. /\ p.completed \subseteq 1..(k + 1) /\ p.points \in [p.completed -> Points]
       /\ p.cache \in Snapshots
  BY <1>6 DEF Reconciler
<1>16. Reconciler(p, k + 1)
  BY <1>5, <1>6, <1>7, <1>10, <1>13, <1>14, <1>15 DEF Reconciler, IsReconciler
<1>17. Shown(p) = Shown(r)
  BY <1>6 DEF Shown
<1> QED
  BY <1>5, <1>6, <1>11, <1>16, <1>17 DEF count

-----------------------------------------------------------------------------
\* A confirmation covers the first n matches that wait and drops their records.

Carried(r, n, answer) ==
  IF answer.counted THEN answer.at
  ELSE IF PublicationBaseline(r) # Unknown THEN PublicationBaseline(r) + n ELSE Unknown

FirstMatches(queue, n) == {queue[i].match : i \in 1..n}

LEMMA CarriedIsCount ==
  ASSUME NEW k \in Nat, NEW r, Reconciler(r, k), r.queue # <<>>, NEW n \in Nat,
         NEW answer \in Answers
  PROVE  Carried(r, n, answer) \in Counts
<1>1. PublicationBaseline(r) \in Counts
  BY BaselineIsCount DEF Reconciler
<1>2. answer.at \in Nat
  BY AnswersAreSnapshots, PostMatchAssumption
<1> QED
  BY <1>1, <1>2 DEF Carried, Counts, Unknown

LEMMA SettledOrder ==
  ASSUME NEW k \in Nat, NEW r, Reconciler(r, k), NEW queue, Settled(r.queue, queue)
  PROVE  /\ queue \in Seq(Records) /\ Len(queue) = Len(r.queue) /\ Len(queue) \in Nat
         /\ DOMAIN queue = 1..Len(queue) /\ DOMAIN r.queue = 1..Len(queue)
         /\ Ordered(queue)
         /\ \A i \in 1..Len(queue) :
              /\ queue[i] \in Records /\ queue[i].match \in 1..k
              /\ queue[i].match = r.queue[i].match
              /\ queue[i].point => queue[i].match \in r.completed
              /\ queue[i].kind \notin Left => queue[i].known
         /\ \A i, j \in 1..Len(queue) : queue[i].match = queue[j].match => i = j
<1>1. /\ queue \in Seq(Records) /\ Len(queue) = Len(r.queue) /\ Len(queue) \in Nat
      /\ DOMAIN queue = 1..Len(queue) /\ DOMAIN r.queue = 1..Len(queue)
  BY DEF Settled
<1>2. ASSUME NEW i \in 1..Len(queue)
      PROVE  /\ queue[i] \in Records /\ queue[i].match \in 1..k
             /\ queue[i].match = r.queue[i].match
             /\ queue[i].point => queue[i].match \in r.completed
             /\ queue[i].kind \notin Left => queue[i].known
  <2>1. SettledRecord(r.queue[i], queue[i])
    BY <1>1 DEF Settled
  <2> QED
    BY <1>1, <2>1, RecordsOfReconciler DEF SettledRecord
<1>3. Ordered(queue)
  BY <1>1, <1>2 DEF Ordered, Reconciler
<1>4. ASSUME NEW i \in 1..Len(queue), NEW j \in 1..Len(queue), queue[i].match = queue[j].match
      PROVE  i = j
  <2>1. queue[i].match \in Int /\ queue[j].match \in Int
    BY <1>2
  <2>2. i \in Int /\ j \in Int
    BY <1>1
  <2>3. i < j => queue[i].match < queue[j].match
    BY <1>1, <1>3 DEF Ordered
  <2>4. j < i => queue[j].match < queue[i].match
    BY <1>1, <1>3 DEF Ordered
  <2> QED
    BY <1>4, <2>1, <2>2, <2>3, <2>4
<1> QED
  BY <1>1, <1>2, <1>3, <1>4

\* What is left of a record that stays.
LeftOver(q, new, carried, at) ==
  /\ new \in Records
  /\ new.match = q.match /\ new.kind = q.kind /\ new.pre = q.pre /\ new.known = q.known
  /\ new.won = q.won /\ new.dbFinal = q.dbFinal /\ new.point = q.point
  /\ new.obsCount = Max({q.obsCount, carried})

\* The first n records of the queue.
Places(r, n) == n \in 1..Len(r.queue)

ConfirmedBooks(r, p, k, queue, n, answer) ==
  /\ Reconciler(p, k)
  /\ p.cache = r.cache /\ p.cacheValid = r.cacheValid
  /\ p.completed = r.completed \cup FirstMatches(queue, n)
  /\ p.baseline = Max({r.baseline, Carried(r, n, answer)})
  /\ p.queue \in Seq(Records)
  /\ Len(p.queue) = Len(r.queue) - n /\ DOMAIN p.queue = 1..(Len(r.queue) - n)
  /\ \A i \in 1..(Len(r.queue) - n) :
       LeftOver(queue[n + i], p.queue[i], Carried(r, n, answer), answer.at)
  /\ \A m : Covered(p, m) <=> Covered(r, m) \/ m \in FirstMatches(queue, n)
  /\ DOMAIN Shown(p) = DOMAIN Shown(r) \cup FirstMatches(queue, n)
  /\ \A i \in 1..n : Shown(p)[queue[i].match] = ConfirmedValue(i, n, answer)
  /\ \A m \in DOMAIN Shown(r) :
       m \notin FirstMatches(queue, n) /\ Shown(p)[m] = Shown(r)[m]

LEMMA ConfirmedKeeps ==
  ASSUME NEW k \in Nat, NEW r, Reconciler(r, k), r.queue # <<>>, NEW queue,
         Settled(r.queue, queue), NEW n \in Nat, Places(r, n), NEW answer \in Answers,
         NEW p, p = Confirmed(r, queue, n, answer)
  PROVE  ConfirmedBooks(r, p, k, queue, n, answer)
<1>0. n \in 1..Len(r.queue)
  BY DEF Places
<1> DEFINE covered == FirstMatches(queue, n)
           carried == Carried(r, n, answer)
           Rest(q) == [q EXCEPT !.obsAt = answer.at, !.obsCount = Max({q.obsCount, carried})]
           Point(m) == [value |-> ConfirmedValue(CHOOSE i \in 1..n : queue[i].match = m, n, answer),
                        covered |-> TRUE]
           L == Len(queue)
           rest == [i \in 1..(L - n) |-> Rest(queue[n + i])]
           points == [m \in DOMAIN r.points \cup covered |->
                        IF m \in covered THEN Point(m) ELSE r.points[m]]
<1>1. /\ queue \in Seq(Records) /\ L = Len(r.queue) /\ L \in Nat
      /\ DOMAIN queue = 1..L /\ DOMAIN r.queue = 1..L
      /\ Ordered(queue)
      /\ \A i \in 1..L :
           /\ queue[i] \in Records /\ queue[i].match \in 1..k
           /\ queue[i].match = r.queue[i].match
           /\ queue[i].point => queue[i].match \in r.completed
           /\ queue[i].kind \notin Left => queue[i].known
      /\ \A i, j \in 1..L : queue[i].match = queue[j].match => i = j
  BY SettledOrder
<1>2. IsReconciler(r) /\ r.completed \subseteq 1..k /\ r.points \in [r.completed -> Points]
      /\ r.baseline \in Counts /\ r.cache \in Snapshots /\ r.cacheValid \in BOOLEAN
  BY DEF Reconciler, IsReconciler
<1>3. carried \in Counts
  BY CarriedIsCount
<1>4. answer.at \in 0..LastMatch
  BY AnswersAreSnapshots
<1>5. n \in 1..L
  BY <1>0, <1>1
<1>6. p = [r EXCEPT !.queue = rest, !.completed = @ \cup covered,
                    !.baseline = Max({@, carried}), !.points = points]
  BY DEF Confirmed, Carried, FirstMatches
<1> HIDE DEF covered, carried, L, points
<1>7. \A i \in 1..(L - n) :
        LeftOver(queue[n + i], rest[i], carried, answer.at) /\ n + i \in 1..L
  <2> SUFFICES ASSUME NEW i \in 1..(L - n)
               PROVE  LeftOver(queue[n + i], rest[i], carried, answer.at) /\ n + i \in 1..L
    OBVIOUS
  <2> DEFINE q == queue[n + i]
             count == Max({q.obsCount, carried})
  <2>1. n + i \in 1..L
    BY <1>1, <1>5
  <2>2. q \in Records /\ q.obsCount \in Counts
    BY <1>1, <2>1, RecordFields
  <2>3. count \in Counts
    <3> HIDE DEF q
    <3> QED
      BY <1>3, <2>2, MaxOfTwo DEF Counts, Unknown
  <2>4. rest[i] = [q EXCEPT !.obsAt = answer.at, !.obsCount = count]
    OBVIOUS
  <2> HIDE DEF count, q, rest
  <2>5. rest[i] \in Records
    <3>1. answer.at \in Unknown..LastMatch
      BY <1>4 DEF Unknown
    <3> QED
      BY <2>2, <2>3, <2>4, <3>1 DEF Records, Counts
  <2>6. /\ rest[i].match = q.match /\ rest[i].kind = q.kind /\ rest[i].pre = q.pre
        /\ rest[i].known = q.known /\ rest[i].won = q.won /\ rest[i].dbFinal = q.dbFinal
        /\ rest[i].point = q.point /\ rest[i].obsCount = count
    BY <2>2, <2>4 DEF Records
  <2> QED
    BY <2>1, <2>5, <2>6 DEF LeftOver, count, q
<1>8. /\ rest \in Seq(Records) /\ Len(rest) = L - n /\ DOMAIN rest = 1..(L - n)
  <2>1. L - n \in Nat
    BY <1>1, <1>5
  <2>2. rest \in [1..(L - n) -> Records]
    BY <1>7 DEF LeftOver
  <2> HIDE DEF rest
  <2> QED
    BY <2>1, <2>2, IsASeq, LenProperties
<1> HIDE DEF rest
<1>9. /\ IsReconciler(p) /\ p.queue = rest /\ p.completed = r.completed \cup covered
      /\ p.baseline = Max({r.baseline, carried}) /\ p.points = points
      /\ p.cache = r.cache /\ p.cacheValid = r.cacheValid
  BY <1>2, <1>6 DEF IsReconciler
<1>10. covered \subseteq 1..k
  BY <1>1, <1>5 DEF covered, FirstMatches
<1>11. \A i \in 1..n :
         /\ queue[i].match \in covered
         /\ points[queue[i].match].covered
         /\ points[queue[i].match].value = ConfirmedValue(i, n, answer)
  <2> SUFFICES ASSUME NEW i \in 1..n
               PROVE  /\ queue[i].match \in covered
                      /\ points[queue[i].match].covered
                      /\ points[queue[i].match].value = ConfirmedValue(i, n, answer)
    OBVIOUS
  <2>1. queue[i].match \in covered
    BY DEF covered, FirstMatches
  <2>2. (CHOOSE j \in 1..n : queue[j].match = queue[i].match) = i
    <3>1. \A j \in 1..n : queue[j].match = queue[i].match => j = i
      BY <1>1, <1>5
    <3> QED
      BY <3>1
  <2>3. points[queue[i].match] = Point(queue[i].match)
    BY <2>1 DEF points
  <2> DEFINE j == CHOOSE j \in 1..n : queue[j].match = queue[i].match
  <2>4. Point(queue[i].match) = [value |-> ConfirmedValue(j, n, answer), covered |-> TRUE]
    OBVIOUS
  <2>5. j = i
    BY <2>2
  <2> HIDE DEF j, Point
  <2> QED
    BY <2>1, <2>3, <2>4, <2>5
<1>12. points \in [p.completed -> Points]
  <2>1. DOMAIN points = p.completed
    BY <1>2, <1>9 DEF points
  <2>2. \A m \in p.completed : points[m] \in Points
    <3> SUFFICES ASSUME NEW m \in p.completed
                 PROVE  points[m] \in Points
      OBVIOUS
    <3>1. CASE m \in covered
      <4>1. PICK i \in 1..n : queue[i].match = m
        BY <3>1 DEF covered, FirstMatches
      <4>2. points[m] = Point(m)
        BY <1>9, <3>1 DEF points
      <4>3. points[m].value \in Values
        BY <1>4, <1>11, <4>1 DEF ConfirmedValue, Values
      <4>4. \E v : Point(m) = [value |-> v, covered |-> TRUE]
        OBVIOUS
      <4> HIDE DEF Point
      <4>5. PICK v : points[m] = [value |-> v, covered |-> TRUE]
        BY <4>2, <4>4
      <4> QED
        BY <4>3, <4>5 DEF Points
    <3>2. CASE m \notin covered
      BY <1>2, <1>9, <3>2 DEF points
    <3> QED
      BY <3>1, <3>2
  <2>3. points = [m \in DOMAIN points |-> points[m]]
    BY DEF points
  <2> QED
    BY <2>1, <2>2, <2>3
<1>13. \A m : m \in r.completed /\ m \notin covered => points[m] = r.points[m]
  BY <1>2 DEF points
<1>14. \A m : Covered(p, m) <=> Covered(r, m) \/ m \in covered
  <2> TAKE m
  <2>1. CASE m \in covered
    <3>1. PICK i \in 1..n : queue[i].match = m
      BY <2>1 DEF covered, FirstMatches
    <3> QED
      BY <1>9, <1>11, <2>1, <3>1 DEF Covered
  <2>2. CASE m \notin covered
    BY <1>9, <1>13, <2>2 DEF Covered
  <2> QED
    BY <2>1, <2>2
<1>15. \A m : IsPending(p, m) <=> \E i \in (n + 1)..L : queue[i].match = m
  <2> TAKE m
  <2>1. ASSUME NEW i \in DOMAIN p.queue, p.queue[i].match = m
        PROVE  \E j \in (n + 1)..L : queue[j].match = m
    <3>1. i \in 1..(L - n)
      BY <1>8, <1>9, <2>1
    <3>2. rest[i].match = queue[n + i].match
      BY <1>7, <3>1 DEF LeftOver
    <3>3. n + i \in (n + 1)..L
      BY <1>1, <1>5, <3>1
    <3> QED
      BY <1>9, <2>1, <3>2, <3>3
  <2>2. ASSUME NEW j \in (n + 1)..L, queue[j].match = m
        PROVE  \E i \in DOMAIN p.queue : p.queue[i].match = m
    <3>1. j - n \in 1..(L - n) /\ n + (j - n) = j
      BY <1>1, <1>5
    <3>2. rest[j - n].match = queue[j].match
      BY <1>7, <3>1 DEF LeftOver
    <3> QED
      BY <1>8, <1>9, <2>2, <3>1, <3>2
  <2> QED
    BY <2>1, <2>2 DEF IsPending
<1>16. \A m \in 1..k : IsPending(p, m) <=> ~Covered(p, m)
  <2> SUFFICES ASSUME NEW m \in 1..k
               PROVE  IsPending(p, m) <=> ~Covered(p, m)
    OBVIOUS
  <2>1. IsPending(r, m) <=> \E i \in 1..L : queue[i].match = m
    BY <1>1 DEF IsPending
  <2>2. m \in covered <=> \E i \in 1..n : queue[i].match = m
    BY DEF covered, FirstMatches
  <2>3. \A i, j \in 1..L : queue[i].match = m /\ queue[j].match = m => i = j
    BY <1>1
  <2>4. IsPending(r, m) <=> ~Covered(r, m)
    BY DEF Reconciler
  <2>5. (\E i \in 1..L : queue[i].match = m) <=>
           (\E i \in 1..n : queue[i].match = m) \/ (\E i \in (n + 1)..L : queue[i].match = m)
    BY <1>1, <1>5
  <2>6. ~((\E i \in 1..n : queue[i].match = m) /\ (\E i \in (n + 1)..L : queue[i].match = m))
    BY <1>1, <1>5, <2>3
  <2> QED
    BY <1>14, <1>15, <2>1, <2>2, <2>4, <2>5, <2>6
<1>17. Ordered(p.queue)
  <2> SUFFICES ASSUME NEW i \in DOMAIN p.queue, NEW j \in DOMAIN p.queue, i < j
               PROVE  p.queue[i].match < p.queue[j].match
    BY DEF Ordered
  <2>1. i \in 1..(L - n) /\ j \in 1..(L - n)
    BY <1>8, <1>9
  <2>2. n + i \in 1..L /\ n + j \in 1..L /\ n + i < n + j
    BY <1>5, <1>7, <2>1
  <2>3. queue[n + i].match < queue[n + j].match
    BY <1>1, <2>2 DEF Ordered
  <2> QED
    BY <1>7, <1>9, <2>1, <2>3 DEF LeftOver
<1>18. \A i \in DOMAIN p.queue :
         /\ p.queue[i].match <= k
         /\ p.queue[i].point => p.queue[i].match \in p.completed
         /\ p.queue[i].kind \notin Left => p.queue[i].known
  <2> SUFFICES ASSUME NEW i \in DOMAIN p.queue
               PROVE  /\ p.queue[i].match <= k
                      /\ p.queue[i].point => p.queue[i].match \in p.completed
                      /\ p.queue[i].kind \notin Left => p.queue[i].known
    OBVIOUS
  <2>1. LeftOver(queue[n + i], p.queue[i], carried, answer.at) /\ n + i \in 1..L
    BY <1>7, <1>8, <1>9
  <2> QED
    BY <1>1, <1>9, <2>1 DEF LeftOver
<1>19. p.baseline \in Counts
  BY <1>2, <1>3, <1>9, MaxOfTwo DEF Counts, Unknown
<1>20. Reconciler(p, k)
  BY <1>2, <1>8, <1>9, <1>10, <1>12, <1>16, <1>17, <1>18, <1>19
     DEF Reconciler, IsReconciler
<1>21. /\ DOMAIN Shown(p) = DOMAIN Shown(r) \cup covered
       /\ \A m \in DOMAIN Shown(p) : Shown(p)[m] = p.points[m].value
       /\ \A m \in DOMAIN Shown(r) : Shown(r)[m] = r.points[m].value /\ Covered(r, m)
  <2>1. \A m : m \in DOMAIN Shown(p) <=> Covered(p, m)
    BY DEF Shown, Covered
  <2>2. \A m : m \in DOMAIN Shown(r) <=> Covered(r, m)
    BY DEF Shown, Covered
  <2> QED
    BY <1>14, <2>1, <2>2 DEF Shown
<1>22. \A i \in 1..n : Shown(p)[queue[i].match] = ConfirmedValue(i, n, answer)
  BY <1>9, <1>11, <1>21
<1>23. \A m \in DOMAIN Shown(r) : m \notin covered /\ Shown(p)[m] = Shown(r)[m]
  <2> SUFFICES ASSUME NEW m \in DOMAIN Shown(r)
               PROVE  m \notin covered /\ Shown(p)[m] = Shown(r)[m]
    OBVIOUS
  <2>1. m \in r.completed /\ Covered(r, m)
    BY <1>21 DEF Covered
  <2>2. m \notin covered
    <3> SUFFICES ASSUME NEW i \in 1..n, queue[i].match = m
                 PROVE  FALSE
      BY DEF covered, FirstMatches
    <3>0. i \in DOMAIN r.queue /\ r.queue[i].match = m
      BY <1>1, <1>5
    <3>1. IsPending(r, m)
      BY <3>0 DEF IsPending
    <3>2. m \in 1..k
      BY <1>2, <2>1
    <3> QED
      BY <2>1, <3>1, <3>2 DEF Reconciler
  <2> QED
    BY <1>9, <1>13, <1>21, <2>1, <2>2
<1> QED
  BY <1>1, <1>7, <1>8, <1>9, <1>14, <1>20, <1>21, <1>22, <1>23
     DEF covered, carried, L, ConfirmedBooks

-----------------------------------------------------------------------------
\* The jobs of the database and the rows.

Jobs == SaveJobs \cup UpdateJobs

LEMMA JobFields ==
  ASSUME NEW j \in Jobs
  PROVE  /\ j.match \in Matches /\ j.op \in {"save", "update"} /\ j.estimated \in BOOLEAN
         /\ j.op = "save" => j \in SaveJobs /\ j.won \in BOOLEAN /\ j.pending \in BOOLEAN
         /\ j.op = "update" => j \in UpdateJobs /\ j.value \in Values
  BY DEF Jobs, SaveJobs, UpdateJobs

LEMMA AppendedJob ==
  ASSUME NEW queue \in Seq(Jobs), NEW job \in Jobs
  PROVE  /\ Append(queue, job) \in Seq(Jobs)
         /\ Len(queue) \in Nat /\ DOMAIN queue = 1..Len(queue)
         /\ DOMAIN Append(queue, job) = 1..(Len(queue) + 1)
         /\ \A i \in 1..Len(queue) : Append(queue, job)[i] = queue[i]
         /\ Append(queue, job)[Len(queue) + 1] = job
         /\ queue \o <<job>> = Append(queue, job) /\ queue \o <<>> = queue
<1>1. /\ Append(queue, job) \in Seq(Jobs) /\ Len(Append(queue, job)) = Len(queue) + 1
      /\ \A i \in 1..Len(queue) : Append(queue, job)[i] = queue[i]
      /\ Append(queue, job)[Len(queue) + 1] = job
  BY AppendProperties
<1>2. queue \o <<job>> = Append(queue, job)
  BY AppendIsConcat
<1>3. queue \o <<>> = queue
  BY ConcatEmptySeq
<1> QED
  BY <1>1, <1>2, <1>3

\* A job that is no update of a covered match.
LEMMA JobsSoundAppend ==
  ASSUME NEW shown, NEW k \in Nat, NEW queue \in Seq(Jobs), NEW table,
         JobsSound(shown, k, queue, table), NEW job \in Jobs, job.match \in 1..k,
         job.op = "update" => job.estimated /\ job.match \notin DOMAIN shown
  PROVE  JobsSound(shown, k, Append(queue, job), table)
<1> DEFINE new == Append(queue, job)
           L == Len(queue)
<1>1. /\ L \in Nat /\ DOMAIN queue = 1..L /\ DOMAIN new = 1..(L + 1)
      /\ \A i \in 1..L : new[i] = queue[i]
      /\ new[L + 1] = job
  BY AppendedJob
<1> HIDE DEF new, L
<1>2. \A i \in DOMAIN new : \/ i \in DOMAIN queue /\ new[i] = queue[i] /\ i < L + 1
                            \/ i = L + 1 /\ new[i] = job
  BY <1>1
<1>3. DOMAIN queue \subseteq DOMAIN new /\ L + 1 \in DOMAIN new /\ DOMAIN new \subseteq Nat
      /\ \A i \in DOMAIN queue : new[i] = queue[i]
  BY <1>1
<1>4. \A i \in DOMAIN new : new[i].match <= k
  BY <1>2 DEF JobsSound
<1>5. ExactIsLast(shown, new, table)
  <2>1. ASSUME NEW m \in DOMAIN table, ~table[m].estimated
        PROVE  m \in DOMAIN shown /\ \A i \in DOMAIN new : ~IsUpdate(new[i], m)
    BY <1>2, <2>1 DEF JobsSound, ExactIsLast, IsUpdate
  <2>2. ASSUME NEW i \in DOMAIN new, new[i].op = "update", ~new[i].estimated
        PROVE  /\ new[i].match \in DOMAIN shown
               /\ \A j \in DOMAIN new : i < j => ~IsUpdate(new[j], new[i].match)
    <3>1. i \in DOMAIN queue /\ new[i] = queue[i]
      BY <1>2, <2>2
    <3>2. new[i].match \in DOMAIN shown
      BY <2>2, <3>1 DEF JobsSound, ExactIsLast
    <3>3. ASSUME NEW j \in DOMAIN new, i < j
          PROVE  ~IsUpdate(new[j], new[i].match)
      <4>1. CASE j \in DOMAIN queue /\ new[j] = queue[j]
        BY <2>2, <3>1, <3>3, <4>1 DEF JobsSound, ExactIsLast
      <4>2. CASE new[j] = job
        BY <3>2, <4>2 DEF IsUpdate
      <4> QED
        BY <1>2, <4>1, <4>2
    <3> QED
      BY <3>2, <3>3
  <2> QED
    BY <2>1, <2>2 DEF ExactIsLast
<1>6. SavedFirst(k, new, table)
  <2> SUFFICES ASSUME NEW m \in 1..k, m \notin DOMAIN table
               PROVE  \E i \in DOMAIN new :
                        /\ new[i].op = "save" /\ new[i].match = m /\ new[i].estimated
                        /\ \A j \in DOMAIN new : j < i => new[j].match # m
    BY DEF SavedFirst
  <2>1. PICK i \in DOMAIN queue :
          /\ queue[i].op = "save" /\ queue[i].match = m /\ queue[i].estimated
          /\ \A j \in DOMAIN queue : j < i => queue[j].match # m
    BY DEF JobsSound, SavedFirst
  <2>2. ASSUME NEW j \in DOMAIN new, j < i
        PROVE  new[j].match # m
    <3>1. j \in DOMAIN queue /\ new[j] = queue[j]
      BY <1>1, <1>2, <2>2
    <3> QED
      BY <2>1, <2>2, <3>1
  <2> QED
    BY <1>3, <2>1, <2>2
<1>7. LastIsShown(shown, new, table)
  <2> SUFFICES ASSUME NEW m \in DOMAIN shown
               PROVE  \/ \E i \in DOMAIN new :
                           /\ IsUpdate(new[i], m) /\ new[i].value = shown[m]
                           /\ \A j \in DOMAIN new : i < j => ~IsUpdate(new[j], m)
                      \/ /\ \A i \in DOMAIN new : ~IsUpdate(new[i], m)
                         /\ m \in DOMAIN table /\ table[m].value = shown[m]
    BY DEF LastIsShown
  <2>1. ~IsUpdate(job, m)
    BY DEF IsUpdate
  <2>2. CASE \E i \in DOMAIN queue :
               /\ IsUpdate(queue[i], m) /\ queue[i].value = shown[m]
               /\ \A j \in DOMAIN queue : i < j => ~IsUpdate(queue[j], m)
    <3>1. PICK i \in DOMAIN queue :
               /\ IsUpdate(queue[i], m) /\ queue[i].value = shown[m]
               /\ \A j \in DOMAIN queue : i < j => ~IsUpdate(queue[j], m)
      BY <2>2
    <3>2. \A j \in DOMAIN new : i < j => ~IsUpdate(new[j], m)
      BY <1>2, <2>1, <3>1
    <3>3. i \in DOMAIN new /\ new[i] = queue[i]
      BY <1>3
    <3> QED
      BY <3>1, <3>2, <3>3
  <2>3. CASE /\ \A i \in DOMAIN queue : ~IsUpdate(queue[i], m)
             /\ m \in DOMAIN table /\ table[m].value = shown[m]
    BY <1>2, <2>1, <2>3
  <2> QED
    BY <2>2, <2>3 DEF JobsSound, LastIsShown
<1> QED
  BY <1>4, <1>5, <1>6, <1>7 DEF JobsSound, new

\* The first save of the match that has just ended.
LEMMA JobsSoundFirst ==
  ASSUME NEW shown, NEW k \in Nat, NEW queue \in Seq(Jobs), NEW table,
         JobsSound(shown, k, queue, table), NEW job \in SaveJobs, job.match = k + 1,
         job.estimated, DOMAIN table \subseteq 1..k
  PROVE  JobsSound(shown, k + 1, Append(queue, job), table)
<1> DEFINE new == Append(queue, job)
           L == Len(queue)
<1>0. job \in Jobs /\ job.op = "save"
  BY DEF Jobs, SaveJobs
<1>1. /\ L \in Nat /\ DOMAIN queue = 1..L /\ DOMAIN new = 1..(L + 1)
      /\ \A i \in 1..L : new[i] = queue[i]
      /\ new[L + 1] = job
  BY <1>0, AppendedJob
<1>a. \A i \in 1..L : queue[i].match <= k /\ queue[i].match \in Int
  <2>1. \A i \in 1..L : queue[i] \in Jobs
    BY <1>1
  <2> QED
    BY <1>1, <2>1, JobFields DEF JobsSound, Matches
<1> HIDE DEF new, L
<1>2. \A i \in DOMAIN new : \/ i \in DOMAIN queue /\ new[i] = queue[i] /\ i < L + 1
                            \/ i = L + 1 /\ new[i] = job
  BY <1>1
<1>3. DOMAIN queue \subseteq DOMAIN new /\ L + 1 \in DOMAIN new /\ DOMAIN new \subseteq Nat
      /\ \A i \in DOMAIN queue : new[i] = queue[i]
  BY <1>1
<1>4. \A i \in DOMAIN new : new[i].match <= k + 1
  BY <1>1, <1>2, <1>a
<1>b. \A m : ~IsUpdate(job, m)
  BY <1>0 DEF IsUpdate
<1>5. ExactIsLast(shown, new, table)
  <2>1. ASSUME NEW m \in DOMAIN table, ~table[m].estimated
        PROVE  m \in DOMAIN shown /\ \A i \in DOMAIN new : ~IsUpdate(new[i], m)
    BY <1>2, <1>b, <2>1 DEF JobsSound, ExactIsLast
  <2>2. ASSUME NEW i \in DOMAIN new, new[i].op = "update", ~new[i].estimated
        PROVE  /\ new[i].match \in DOMAIN shown
               /\ \A j \in DOMAIN new : i < j => ~IsUpdate(new[j], new[i].match)
    <3>1. i \in DOMAIN queue /\ new[i] = queue[i]
      BY <1>0, <1>2, <2>2
    <3> QED
      BY <1>2, <1>b, <2>2, <3>1 DEF JobsSound, ExactIsLast
  <2> QED
    BY <2>1, <2>2 DEF ExactIsLast
<1>6. SavedFirst(k + 1, new, table)
  <2> SUFFICES ASSUME NEW m \in 1..(k + 1), m \notin DOMAIN table
               PROVE  \E i \in DOMAIN new :
                        /\ new[i].op = "save" /\ new[i].match = m /\ new[i].estimated
                        /\ \A j \in DOMAIN new : j < i => new[j].match # m
    BY DEF SavedFirst
  <2>1. CASE m = k + 1
    <3>1. \A j \in DOMAIN new : j < L + 1 => new[j].match # m
      BY <1>1, <1>a, <2>1
    <3> QED
      BY <1>0, <1>1, <1>3, <2>1, <3>1
  <2>2. CASE m \in 1..k
    <3>1. PICK i \in DOMAIN queue :
            /\ queue[i].op = "save" /\ queue[i].match = m /\ queue[i].estimated
            /\ \A j \in DOMAIN queue : j < i => queue[j].match # m
      BY <2>2 DEF JobsSound, SavedFirst
    <3>2. ASSUME NEW j \in DOMAIN new, j < i
          PROVE  new[j].match # m
      <4>1. j \in DOMAIN queue /\ new[j] = queue[j]
        BY <1>1, <1>2, <3>2
      <4> QED
        BY <3>1, <3>2, <4>1
    <3> QED
      BY <1>3, <3>1, <3>2
  <2> QED
    BY <2>1, <2>2
<1>7. LastIsShown(shown, new, table)
  <2> SUFFICES ASSUME NEW m \in DOMAIN shown
               PROVE  \/ \E i \in DOMAIN new :
                           /\ IsUpdate(new[i], m) /\ new[i].value = shown[m]
                           /\ \A j \in DOMAIN new : i < j => ~IsUpdate(new[j], m)
                      \/ /\ \A i \in DOMAIN new : ~IsUpdate(new[i], m)
                         /\ m \in DOMAIN table /\ table[m].value = shown[m]
    BY DEF LastIsShown
  <2>2. CASE \E i \in DOMAIN queue :
               /\ IsUpdate(queue[i], m) /\ queue[i].value = shown[m]
               /\ \A j \in DOMAIN queue : i < j => ~IsUpdate(queue[j], m)
    <3>1. PICK i \in DOMAIN queue :
               /\ IsUpdate(queue[i], m) /\ queue[i].value = shown[m]
               /\ \A j \in DOMAIN queue : i < j => ~IsUpdate(queue[j], m)
      BY <2>2
    <3>2. \A j \in DOMAIN new : i < j => ~IsUpdate(new[j], m)
      BY <1>2, <1>b, <3>1
    <3>3. i \in DOMAIN new /\ new[i] = queue[i]
      BY <1>3
    <3> QED
      BY <3>1, <3>2, <3>3
  <2>3. CASE /\ \A i \in DOMAIN queue : ~IsUpdate(queue[i], m)
             /\ m \in DOMAIN table /\ table[m].value = shown[m]
    BY <1>2, <1>b, <2>3
  <2> QED
    BY <2>2, <2>3 DEF JobsSound, LastIsShown
<1> QED
  BY <1>4, <1>5, <1>6, <1>7 DEF JobsSound, new

LEMMA JobsConcat ==
  ASSUME NEW queue \in Seq(Jobs), NEW updates \in Seq(Jobs)
  PROVE  /\ Len(queue) \in Nat /\ DOMAIN queue = 1..Len(queue)
         /\ queue \o updates \in Seq(Jobs)
         /\ DOMAIN (queue \o updates) = 1..(Len(queue) + Len(updates))
         /\ \A i \in 1..Len(queue) : (queue \o updates)[i] = queue[i]
         /\ \A i \in (Len(queue) + 1)..(Len(queue) + Len(updates)) :
              (queue \o updates)[i] = updates[i - Len(queue)]
<1>1. Len(queue) \in Nat /\ DOMAIN queue = 1..Len(queue) /\ Len(updates) \in Nat
  OBVIOUS
<1>2. /\ queue \o updates \in Seq(Jobs)
      /\ Len(queue \o updates) = Len(queue) + Len(updates)
      /\ \A i \in 1..(Len(queue) + Len(updates)) : (queue \o updates)[i] =
                     IF i <= Len(queue) THEN queue[i] ELSE updates[i - Len(queue)]
  BY ConcatProperties
<1>3. DOMAIN (queue \o updates) = 1..(Len(queue) + Len(updates))
  BY <1>2
<1> QED
  BY <1>1, <1>2, <1>3

\* The updates of the matches an answer covers.
LEMMA JobsSoundConfirm ==
  ASSUME NEW shown, NEW k \in Nat, NEW queue \in Seq(Jobs), NEW table,
         JobsSound(shown, k, queue, table), DOMAIN table \subseteq 1..k,
         NEW n \in Nat, NEW updates \in Seq(Jobs), Len(updates) = n,
         \A i \in 1..n : updates[i].op = "update" /\ updates[i].match \in 1..k
                         /\ updates[i].match \notin DOMAIN shown,
         \A i, j \in 1..n : updates[i].match = updates[j].match => i = j,
         NEW after, DOMAIN after = DOMAIN shown \cup {updates[i].match : i \in 1..n},
         \A m \in DOMAIN shown : after[m] = shown[m],
         \A i \in 1..n : after[updates[i].match] = updates[i].value
  PROVE  JobsSound(after, k, queue \o updates, table) /\ queue \o updates \in Seq(Jobs)
<1> DEFINE new == queue \o updates
           L == Len(queue)
<1>1. /\ L \in Nat /\ DOMAIN queue = 1..L /\ new \in Seq(Jobs) /\ DOMAIN new = 1..(L + n)
      /\ \A i \in 1..L : new[i] = queue[i]
      /\ \A i \in (L + 1)..(L + n) : new[i] = updates[i - L]
  BY JobsConcat
<1> HIDE DEF new, L
<1>2. \A i \in DOMAIN new : \/ i \in DOMAIN queue /\ new[i] = queue[i] /\ i <= L
                            \/ i > L /\ i - L \in 1..n /\ new[i] = updates[i - L]
  BY <1>1
<1>3. DOMAIN queue \subseteq DOMAIN new /\ DOMAIN new \subseteq Nat
      /\ \A i \in DOMAIN queue : new[i] = queue[i]
  BY <1>1
<1>4. \A i \in DOMAIN new : new[i].match <= k
  BY <1>2 DEF JobsSound
<1>5. ExactIsLast(after, new, table)
  <2>1. ASSUME NEW m \in DOMAIN table, ~table[m].estimated
        PROVE  m \in DOMAIN after /\ \A i \in DOMAIN new : ~IsUpdate(new[i], m)
    <3>1. m \in DOMAIN shown /\ \A i \in DOMAIN queue : ~IsUpdate(queue[i], m)
      BY <2>1 DEF JobsSound, ExactIsLast
    <3> QED
      BY <1>2, <3>1 DEF IsUpdate
  <2>2. ASSUME NEW i \in DOMAIN new, new[i].op = "update", ~new[i].estimated
        PROVE  /\ new[i].match \in DOMAIN after
               /\ \A j \in DOMAIN new : i < j => ~IsUpdate(new[j], new[i].match)
    <3>1. CASE i \in DOMAIN queue /\ new[i] = queue[i]
      <4>1. /\ new[i].match \in DOMAIN shown
            /\ \A j \in DOMAIN queue : i < j => ~IsUpdate(queue[j], queue[i].match)
        BY <2>2, <3>1 DEF JobsSound, ExactIsLast
      <4>2. \A j \in 1..n : ~IsUpdate(updates[j], new[i].match)
        BY <4>1 DEF IsUpdate
      <4>3. ASSUME NEW j \in DOMAIN new, i < j
            PROVE  ~IsUpdate(new[j], new[i].match)
        BY <1>2, <3>1, <4>1, <4>2, <4>3
      <4> QED
        BY <4>1, <4>3
    <3>2. CASE i > L /\ i - L \in 1..n /\ new[i] = updates[i - L]
      <4>1. new[i].match \in DOMAIN after
        BY <3>2
      <4>2. ASSUME NEW j \in DOMAIN new, i < j, IsUpdate(new[j], new[i].match)
            PROVE  FALSE
        <5>1. j - L \in 1..n /\ new[j] = updates[j - L]
          BY <1>1, <1>2, <3>2, <4>2
        <5>2. i - L = j - L
          BY <3>2, <4>2, <5>1 DEF IsUpdate
        <5> QED
          BY <1>1, <4>2, <5>2
      <4> QED
        BY <4>1, <4>2
    <3> QED
      BY <1>2, <3>1, <3>2
  <2> QED
    BY <2>1, <2>2 DEF ExactIsLast
<1>6. SavedFirst(k, new, table)
  <2> SUFFICES ASSUME NEW m \in 1..k, m \notin DOMAIN table
               PROVE  \E i \in DOMAIN new :
                        /\ new[i].op = "save" /\ new[i].match = m /\ new[i].estimated
                        /\ \A j \in DOMAIN new : j < i => new[j].match # m
    BY DEF SavedFirst
  <2>1. PICK i \in DOMAIN queue :
          /\ queue[i].op = "save" /\ queue[i].match = m /\ queue[i].estimated
          /\ \A j \in DOMAIN queue : j < i => queue[j].match # m
    BY DEF JobsSound, SavedFirst
  <2>2. ASSUME NEW j \in DOMAIN new, j < i
        PROVE  new[j].match # m
    <3>1. j \in DOMAIN queue /\ new[j] = queue[j]
      BY <1>1, <1>2, <2>2
    <3> QED
      BY <2>1, <2>2, <3>1
  <2> QED
    BY <1>3, <2>1, <2>2
<1>7. LastIsShown(after, new, table)
  <2> SUFFICES ASSUME NEW m \in DOMAIN after
               PROVE  \/ \E i \in DOMAIN new :
                           /\ IsUpdate(new[i], m) /\ new[i].value = after[m]
                           /\ \A j \in DOMAIN new : i < j => ~IsUpdate(new[j], m)
                      \/ /\ \A i \in DOMAIN new : ~IsUpdate(new[i], m)
                         /\ m \in DOMAIN table /\ table[m].value = after[m]
    BY DEF LastIsShown
  <2>1. CASE m \in DOMAIN shown
    <3>0. after[m] = shown[m] /\ \A i \in 1..n : ~IsUpdate(updates[i], m)
      BY <2>1 DEF IsUpdate
    <3>1. CASE \E i \in DOMAIN queue :
                 /\ IsUpdate(queue[i], m) /\ queue[i].value = shown[m]
                 /\ \A j \in DOMAIN queue : i < j => ~IsUpdate(queue[j], m)
      <4>1. PICK i \in DOMAIN queue :
                 /\ IsUpdate(queue[i], m) /\ queue[i].value = shown[m]
                 /\ \A j \in DOMAIN queue : i < j => ~IsUpdate(queue[j], m)
        BY <3>1
      <4>2. \A j \in DOMAIN new : i < j => ~IsUpdate(new[j], m)
        BY <1>2, <3>0, <4>1
      <4>3. i \in DOMAIN new /\ new[i] = queue[i]
        BY <1>3
      <4> QED
        BY <3>0, <4>1, <4>2, <4>3
    <3>2. CASE /\ \A i \in DOMAIN queue : ~IsUpdate(queue[i], m)
               /\ m \in DOMAIN table /\ table[m].value = shown[m]
      BY <1>2, <3>0, <3>2
    <3> QED
      BY <2>1, <3>1, <3>2 DEF JobsSound, LastIsShown
  <2>2. CASE \E i \in 1..n : updates[i].match = m
    <3>1. PICK i \in 1..n : updates[i].match = m
      BY <2>2
    <3>2. L + i \in DOMAIN new /\ new[L + i] = updates[i]
      <4>1. L + i \in (L + 1)..(L + n) /\ (L + i) - L = i
        BY <1>1
      <4> QED
        BY <1>1, <4>1
    <3>3. ASSUME NEW j \in DOMAIN new, L + i < j, IsUpdate(new[j], m)
          PROVE  FALSE
      <4>1. j - L \in 1..n /\ new[j] = updates[j - L]
        BY <1>1, <1>2, <3>3
      <4>2. j - L = i
        BY <3>1, <3>3, <4>1 DEF IsUpdate
      <4> QED
        BY <1>1, <3>3, <4>2
    <3>4. IsUpdate(new[L + i], m) /\ new[L + i].value = after[m]
      BY <3>1, <3>2 DEF IsUpdate
    <3> QED
      BY <3>2, <3>3, <3>4
  <2> QED
    BY <2>1, <2>2
<1> QED
  BY <1>1, <1>4, <1>5, <1>6, <1>7 DEF JobsSound, new

RowsTyped(k, table) ==
  DOMAIN table \subseteq 1..k /\ \A m \in DOMAIN table : table[m] \in RowRecords

\* The job h makes the rows into table.
Ran(h, table) ==
  /\ DOMAIN table = IF h.op = "save" THEN DOMAIN rows \cup {h.match} ELSE DOMAIN rows
  /\ \A m \in DOMAIN rows : m # h.match => table[m] = rows[m]
  /\ h.match \in DOMAIN rows /\ h.op = "save" =>
       /\ table[h.match].value = rows[h.match].value
       /\ table[h.match].estimated = rows[h.match].estimated
       /\ table[h.match].pending <=> rows[h.match].pending /\ h.pending
  /\ h.match \notin DOMAIN rows /\ h.op = "save" =>
       /\ table[h.match].estimated = h.estimated
       /\ table[h.match].pending = h.pending
  /\ h.match \in DOMAIN rows /\ h.op = "update" =>
       /\ table[h.match].value = h.value
       /\ table[h.match].estimated = h.estimated
       /\ table[h.match].pending = rows[h.match].pending

\* What one job does to the rows.
LEMMA RunJobShape ==
  ASSUME NEW k \in Nat, RowsTyped(k, rows), NEW h \in Jobs, h.match <= k,
         NEW table, table = IF h.op = "save" THEN Saved(h) ELSE Updated(h)
  PROVE  RowsTyped(k, table) /\ Ran(h, table)
<1> DEFINE m == h.match
<1>1. /\ m \in 1..k /\ h.op \in {"save", "update"} /\ h.estimated \in BOOLEAN
      /\ h.op = "save" => h.won \in BOOLEAN /\ h.pending \in BOOLEAN
      /\ h.op = "update" => h.value \in Values
  BY JobFields, PostMatchAssumption DEF Matches
<1>2. DOMAIN rows \subseteq 1..k /\ \A x \in DOMAIN rows : rows[x] \in RowRecords
  BY DEF RowsTyped
<1>3. \A x \in DOMAIN rows : /\ rows[x].value \in Values /\ rows[x].estimated \in BOOLEAN
                             /\ rows[x].won \in BOOLEAN /\ rows[x].pending \in BOOLEAN
  BY <1>2 DEF RowRecords
<1> HIDE DEF m, Ran
<1>4. CASE h.op = "save" /\ m \notin DOMAIN rows
  <2> DEFINE row == [value |-> RosterRating, estimated |-> h.estimated, won |-> h.won,
                     pending |-> h.pending]
  <2>1. table = [x \in DOMAIN rows \cup {m} |-> IF x # m THEN rows[x] ELSE row]
    BY <1>4 DEF Saved, m
  <2>2. row \in RowRecords
    BY <1>1, <1>4 DEF RowRecords, Values
  <2>3. row.estimated = h.estimated /\ row.pending = h.pending
    OBVIOUS
  <2> HIDE DEF row
  <2>4. /\ DOMAIN table = DOMAIN rows \cup {m} /\ table[m] = row
        /\ \A x \in DOMAIN rows : x # m => table[x] = rows[x]
    BY <2>1
  <2>5. RowsTyped(k, table)
    BY <1>1, <1>2, <2>2, <2>4 DEF RowsTyped
  <2> QED
    BY <1>4, <2>3, <2>4, <2>5 DEF m, Ran
<1>5. CASE h.op = "save" /\ m \in DOMAIN rows
  <2> DEFINE row == [rows[m] EXCEPT !.won = h.won, !.pending = FALSE]
  <2>1. CASE rows[m].pending /\ ~h.pending
    <3>1. table = [rows EXCEPT ![m] = row]
      BY <1>5, <2>1 DEF Saved, m
    <3>2. /\ row \in RowRecords /\ row.value = rows[m].value /\ ~row.pending
          /\ row.estimated = rows[m].estimated
      BY <1>1, <1>2, <1>5 DEF RowRecords
    <3> HIDE DEF row
    <3>3. /\ DOMAIN table = DOMAIN rows /\ table[m] = row
          /\ \A x \in DOMAIN rows : x # m => table[x] = rows[x]
      BY <1>5, <3>1
    <3>4. RowsTyped(k, table)
      BY <1>2, <3>2, <3>3 DEF RowsTyped
    <3> QED
      BY <1>1, <1>5, <2>1, <3>2, <3>3, <3>4 DEF m, Ran
  <2>2. CASE ~(rows[m].pending /\ ~h.pending)
    <3>1. table = rows
      BY <1>5, <2>2 DEF Saved, m
    <3> QED
      BY <1>1, <1>3, <1>5, <2>2, <3>1 DEF m, Ran
  <2> QED
    BY <2>1, <2>2
<1>6. CASE h.op = "update" /\ m \in DOMAIN rows
  <2> DEFINE row == [rows[m] EXCEPT !.value = h.value, !.estimated = h.estimated]
  <2>1. table = [rows EXCEPT ![m] = row]
    BY <1>6 DEF Updated, m
  <2>2. /\ row \in RowRecords /\ row.value = h.value /\ row.pending = rows[m].pending
        /\ row.estimated = h.estimated
    BY <1>1, <1>2, <1>6 DEF RowRecords
  <2> HIDE DEF row
  <2>3. /\ DOMAIN table = DOMAIN rows /\ table[m] = row
        /\ \A x \in DOMAIN rows : x # m => table[x] = rows[x]
    BY <1>6, <2>1
  <2>4. RowsTyped(k, table)
    BY <1>2, <2>2, <2>3 DEF RowsTyped
  <2> QED
    BY <1>6, <2>2, <2>3, <2>4 DEF m, Ran
<1>7. CASE h.op = "update" /\ m \notin DOMAIN rows
  <2>1. table = rows
    BY <1>7 DEF Updated, m
  <2> QED
    BY <1>7, <2>1 DEF m, Ran
<1> QED
  BY <1>1, <1>4, <1>5, <1>6, <1>7

\* The oldest job leaves the queue when it has run.
LEMMA JobsSoundRun ==
  ASSUME NEW shown, NEW k \in Nat, NEW queue \in Seq(Jobs), queue # <<>>,
         JobsSound(shown, k, queue, rows), RowsTyped(k, rows), DOMAIN shown \subseteq 1..k,
         NEW h, h = Head(queue), NEW table, Ran(h, table)
  PROVE  /\ JobsSound(shown, k, Tail(queue), table)
         /\ \A m \in DOMAIN rows : ~rows[m].estimated =>
              m \in DOMAIN table /\ table[m].value = rows[m].value
         /\ \A m \in DOMAIN table : ~table[m].estimated =>
              \/ m \in DOMAIN rows /\ ~rows[m].estimated
              \/ IsUpdate(h, m) /\ ~h.estimated /\ table[m].value = h.value
<1> DEFINE new == Tail(queue)
           L == Len(queue)
<1>1. /\ L \in Nat \ {0} /\ DOMAIN queue = 1..L /\ h = queue[1] /\ h \in Jobs
      /\ new \in Seq(Jobs) /\ DOMAIN new = 1..(L - 1)
      /\ \A i \in 1..(L - 1) : new[i] = queue[i + 1]
  BY HeadTailProperties
<1>2. h.op \in {"save", "update"} /\ h.match <= k /\ h.match \in 1..k
  BY <1>1, JobFields, PostMatchAssumption DEF JobsSound, Matches
<1> HIDE DEF new, L
<1>3. /\ DOMAIN table = IF h.op = "save" THEN DOMAIN rows \cup {h.match} ELSE DOMAIN rows
      /\ \A m \in DOMAIN rows : m # h.match => table[m] = rows[m]
      /\ h.match \in DOMAIN rows /\ h.op = "save" =>
           /\ table[h.match].value = rows[h.match].value
           /\ table[h.match].estimated = rows[h.match].estimated
      /\ h.match \notin DOMAIN rows /\ h.op = "save" =>
           table[h.match].estimated = h.estimated
      /\ h.match \in DOMAIN rows /\ h.op = "update" =>
           /\ table[h.match].value = h.value
           /\ table[h.match].estimated = h.estimated
  BY DEF Ran
<1>4. \A i \in DOMAIN new : i + 1 \in DOMAIN queue /\ new[i] = queue[i + 1] /\ i + 1 > 1
                            /\ i \in Int
  BY <1>1
<1>5. \A i \in DOMAIN queue : i = 1 \/ (i - 1 \in DOMAIN new /\ new[i - 1] = queue[i])
  <2> SUFFICES ASSUME NEW i \in DOMAIN queue, i # 1
               PROVE  i - 1 \in DOMAIN new /\ new[i - 1] = queue[i]
    OBVIOUS
  <2>1. i - 1 \in 1..(L - 1) /\ (i - 1) + 1 = i
    BY <1>1
  <2> QED
    BY <1>1, <2>1
<1>6. h.match \notin DOMAIN rows => h.op = "save" /\ h.estimated
  <2> SUFFICES ASSUME h.match \notin DOMAIN rows
               PROVE  h.op = "save" /\ h.estimated
    OBVIOUS
  <2>1. PICK i \in DOMAIN queue :
          /\ queue[i].op = "save" /\ queue[i].match = h.match /\ queue[i].estimated
          /\ \A j \in DOMAIN queue : j < i => queue[j].match # h.match
    BY <1>2 DEF JobsSound, SavedFirst
  <2>2. i = 1
    BY <1>1, <2>1
  <2> QED
    BY <1>1, <2>1, <2>2
<1>7. h.op = "update" /\ ~h.estimated =>
        h.match \in DOMAIN shown /\ \A i \in DOMAIN new : ~IsUpdate(new[i], h.match)
  BY <1>1, <1>4 DEF JobsSound, ExactIsLast
<1>8. \A i \in DOMAIN new : new[i].match <= k
  BY <1>4 DEF JobsSound
<1>9. \A m \in DOMAIN table : ~table[m].estimated =>
        \/ m \in DOMAIN rows /\ ~rows[m].estimated /\ table[m].value = rows[m].value
        \/ IsUpdate(h, m) /\ ~h.estimated /\ table[m].value = h.value
  BY <1>2, <1>3, <1>6 DEF IsUpdate
<1>10. \A m \in DOMAIN rows : ~rows[m].estimated =>
         m \in DOMAIN table /\ table[m].value = rows[m].value
  <2> SUFFICES ASSUME NEW m \in DOMAIN rows, ~rows[m].estimated
               PROVE  m \in DOMAIN table /\ table[m].value = rows[m].value
    OBVIOUS
  <2>1. ~IsUpdate(queue[1], m)
    BY <1>1 DEF JobsSound, ExactIsLast
  <2> QED
    BY <1>1, <1>2, <1>3, <2>1 DEF IsUpdate
<1>11. ExactIsLast(shown, new, table)
  <2>1. ASSUME NEW m \in DOMAIN table, ~table[m].estimated
        PROVE  m \in DOMAIN shown /\ \A i \in DOMAIN new : ~IsUpdate(new[i], m)
    <3>1. CASE m \in DOMAIN rows /\ ~rows[m].estimated
      BY <1>4, <3>1 DEF JobsSound, ExactIsLast
    <3>2. CASE IsUpdate(h, m) /\ ~h.estimated
      BY <1>7, <3>2 DEF IsUpdate
    <3> QED
      BY <1>9, <2>1, <3>1, <3>2
  <2>2. ASSUME NEW i \in DOMAIN new, new[i].op = "update", ~new[i].estimated
        PROVE  /\ new[i].match \in DOMAIN shown
               /\ \A j \in DOMAIN new : i < j => ~IsUpdate(new[j], new[i].match)
    <3>1. /\ queue[i + 1].match \in DOMAIN shown
          /\ \A j \in DOMAIN queue : i + 1 < j => ~IsUpdate(queue[j], queue[i + 1].match)
      BY <1>4, <2>2 DEF JobsSound, ExactIsLast
    <3>2. ASSUME NEW j \in DOMAIN new, i < j
          PROVE  ~IsUpdate(new[j], new[i].match)
      <4>1. i + 1 < j + 1
        BY <1>4, <3>2
      <4> QED
        BY <1>4, <3>1, <4>1
    <3> QED
      BY <1>4, <3>1, <3>2
  <2> QED
    BY <2>1, <2>2 DEF ExactIsLast
<1>12. SavedFirst(k, new, table)
  <2> SUFFICES ASSUME NEW m \in 1..k, m \notin DOMAIN table
               PROVE  \E i \in DOMAIN new :
                        /\ new[i].op = "save" /\ new[i].match = m /\ new[i].estimated
                        /\ \A j \in DOMAIN new : j < i => new[j].match # m
    BY DEF SavedFirst
  <2>1. m \notin DOMAIN rows /\ m # h.match
    BY <1>2, <1>3, <1>6
  <2>2. PICK i \in DOMAIN queue :
          /\ queue[i].op = "save" /\ queue[i].match = m /\ queue[i].estimated
          /\ \A j \in DOMAIN queue : j < i => queue[j].match # m
    BY <2>1 DEF JobsSound, SavedFirst
  <2>3. i - 1 \in DOMAIN new /\ new[i - 1] = queue[i]
    BY <1>1, <1>5, <2>1, <2>2
  <2>4. ASSUME NEW j \in DOMAIN new, j < i - 1
        PROVE  new[j].match # m
    <3>1. j + 1 < i
      BY <1>1, <1>4, <2>4
    <3> QED
      BY <1>4, <2>2, <3>1
  <2> QED
    BY <2>2, <2>3, <2>4
<1>13. LastIsShown(shown, new, table)
  <2> SUFFICES ASSUME NEW m \in DOMAIN shown
               PROVE  \/ \E i \in DOMAIN new :
                           /\ IsUpdate(new[i], m) /\ new[i].value = shown[m]
                           /\ \A j \in DOMAIN new : i < j => ~IsUpdate(new[j], m)
                      \/ /\ \A i \in DOMAIN new : ~IsUpdate(new[i], m)
                         /\ m \in DOMAIN table /\ table[m].value = shown[m]
    BY DEF LastIsShown
  <2>1. CASE \E i \in DOMAIN queue :
               /\ IsUpdate(queue[i], m) /\ queue[i].value = shown[m]
               /\ \A j \in DOMAIN queue : i < j => ~IsUpdate(queue[j], m)
    <3>1. PICK i \in DOMAIN queue :
               /\ IsUpdate(queue[i], m) /\ queue[i].value = shown[m]
               /\ \A j \in DOMAIN queue : i < j => ~IsUpdate(queue[j], m)
      BY <2>1
    <3>2. CASE i = 1
      <4>1. \A j \in DOMAIN new : ~IsUpdate(new[j], m)
        BY <1>4, <3>1, <3>2
      <4>2. h.match = m /\ h.op = "update" /\ h.value = shown[m]
        BY <1>1, <3>1, <3>2 DEF IsUpdate
      <4> QED
        BY <1>3, <1>6, <4>1, <4>2
    <3>3. CASE i # 1
      <4>1. i - 1 \in DOMAIN new /\ new[i - 1] = queue[i]
        BY <1>5, <3>3
      <4>2. ASSUME NEW j \in DOMAIN new, i - 1 < j
            PROVE  ~IsUpdate(new[j], m)
        <5>1. i < j + 1
          BY <1>1, <1>4, <4>2
        <5> QED
          BY <1>4, <3>1, <5>1
      <4> QED
        BY <3>1, <4>1, <4>2
    <3> QED
      BY <3>2, <3>3
  <2>2. CASE /\ \A i \in DOMAIN queue : ~IsUpdate(queue[i], m)
             /\ m \in DOMAIN rows /\ rows[m].value = shown[m]
    <3>1. ~IsUpdate(h, m) /\ \A i \in DOMAIN new : ~IsUpdate(new[i], m)
      BY <1>1, <1>4, <2>2
    <3>2. m \in DOMAIN table /\ table[m].value = rows[m].value
      BY <1>2, <1>3, <2>2, <3>1 DEF IsUpdate
    <3> QED
      BY <2>2, <3>1, <3>2
  <2> QED
    BY <2>1, <2>2 DEF JobsSound, LastIsShown
<1> QED
  BY <1>8, <1>9, <1>10, <1>11, <1>12, <1>13 DEF JobsSound, new

-----------------------------------------------------------------------------
\* What becomes of an answer.

\* Nothing was confirmed.
NothingOut(out) == out.updates = <<>> /\ out.calls = {} /\ out.all = FALSE /\ out.ok = FALSE

AllKnown(queue, n) == \A i \in 1..n : queue[i].known

\* An answer that covers the first n matches, whose results are all known.
Confirmation(r, queue, n, answer, match, out) ==
  /\ out.rec = Confirmed(r, queue, n, answer)
  /\ out.ok = (\E i \in 1..n : queue[i].match = match)
  /\ out.updates = Updates(queue, n, answer)
  /\ out.calls = Confirmations(queue, n)
  /\ out.all = (n = Len(queue))

LEMMA ReconcileCases ==
  ASSUME NEW r, IsReconciler(r), r.queue # <<>>, NEW match, NEW answer, answer.at # Unknown,
         NEW n, n = CoveredCount(r, answer), n \in Nat,
         NEW queue, queue = Decided(r.queue, n, answer.at),
         NEW out, out = Reconcile(r, match, answer)
  PROVE  \/ n = 0 /\ NothingOut(out) /\ out.rec = Observed(r, answer)
         \/ n > 0 /\ AmbiguousCover(r, answer, n) /\ NothingOut(out) /\ out.rec = r
         \/ /\ n > 0 /\ ~AllKnown(queue, n) /\ NothingOut(out)
            /\ IsReconciler(out.rec) /\ out.rec.queue = queue
            /\ out.rec.baseline = r.baseline /\ out.rec.cache = r.cache
            /\ out.rec.cacheValid = r.cacheValid /\ out.rec.completed = r.completed
            /\ out.rec.points = r.points
         \/ n > 0 /\ AllKnown(queue, n) /\ Confirmation(r, queue, n, answer, match, out)
<1> DEFINE same == [rec |-> r, ok |-> FALSE, updates |-> <<>>, calls |-> {}, all |-> FALSE]
           ambiguous == AmbiguousCover(r, answer, n)
           someOpen == \E i \in 1..n : ~queue[i].known
           confirmed == [rec |-> Confirmed(r, queue, n, answer),
                         ok |-> \E i \in 1..n : queue[i].match = match,
                         updates |-> Updates(queue, n, answer),
                         calls |-> Confirmations(queue, n),
                         all |-> n = Len(queue)]
<1>1. out = CASE n = 0 -> [same EXCEPT !.rec = Observed(r, answer)]
              [] n > 0 /\ ambiguous -> same
              [] n > 0 /\ ~ambiguous /\ someOpen -> [same EXCEPT !.rec.queue = queue]
              [] OTHER -> confirmed
  BY DEF Reconcile
<1> HIDE DEF ambiguous, confirmed
<1>2. CASE n = 0
  <2>1. out = [same EXCEPT !.rec = Observed(r, answer)]
    BY <1>1, <1>2
  <2> QED
    BY <1>2, <2>1 DEF NothingOut
<1>3. CASE n > 0 /\ ambiguous
  <2>1. out = same
    BY <1>1, <1>3
  <2>2. out.rec = r /\ NothingOut(out)
    BY <2>1 DEF NothingOut
  <2>3. AmbiguousCover(r, answer, n)
    BY <1>3 DEF ambiguous
  <2> QED
    BY <1>3, <2>2, <2>3
<1>4. CASE n > 0 /\ ~ambiguous /\ someOpen
  <2>1. out = [same EXCEPT !.rec.queue = queue]
    BY <1>1, <1>4
  <2>2. out.rec = [r EXCEPT !.queue = queue] /\ NothingOut(out)
    BY <2>1 DEF NothingOut
  <2> QED
    BY <1>4, <2>2 DEF IsReconciler, AllKnown
<1>5. CASE n > 0 /\ ~ambiguous /\ ~someOpen
  <2>1. out = confirmed
    BY <1>1, <1>5
  <2>2. AllKnown(queue, n)
    BY <1>5 DEF AllKnown
  <2> QED
    BY <1>5, <2>1, <2>2 DEF confirmed, Confirmation
<1>6. \/ n = 0
      \/ n > 0 /\ ambiguous
      \/ n > 0 /\ ~ambiguous /\ someOpen
      \/ n > 0 /\ ~ambiguous /\ ~someOpen
  <2> HIDE DEF someOpen, same
  <2> QED
    OBVIOUS
<1> HIDE DEF someOpen, same
<1> QED
  BY <1>2, <1>3, <1>4, <1>5, <1>6

UpdatesOf(queue, n, answer, k, updates) ==
  /\ updates \in Seq(Jobs) /\ Len(updates) = n /\ updates # <<>>
  /\ \A i \in 1..n :
       /\ updates[i] \in UpdateJobs /\ updates[i].op = "update"
       /\ updates[i].match = queue[i].match /\ updates[i].match \in 1..k
       /\ updates[i].value = ConfirmedValue(i, n, answer)
       /\ updates[i].estimated = (i < n)

LEMMA UpdatesShape ==
  ASSUME NEW k \in Nat, NEW r, Reconciler(r, k), NEW queue, Settled(r.queue, queue),
         NEW n \in Nat, Places(r, n), NEW answer \in Answers
  PROVE  UpdatesOf(queue, n, answer, k, Updates(queue, n, answer))
<1> n \in 1..Len(r.queue)
  BY DEF Places
<1> DEFINE updates == Updates(queue, n, answer)
<1>1. n \in Nat /\ n \in 1..Len(queue)
  BY SettledOrder
<1>2. ASSUME NEW i \in 1..n
      PROVE  /\ updates[i] \in UpdateJobs /\ updates[i].op = "update"
             /\ updates[i].match = queue[i].match /\ updates[i].match \in 1..k
             /\ updates[i].value = ConfirmedValue(i, n, answer)
             /\ updates[i].estimated = (i < n)
  <2>1. updates[i] = [op |-> "update", match |-> queue[i].match,
                      value |-> ConfirmedValue(i, n, answer), estimated |-> i < n]
    BY DEF Updates
  <2>2. queue[i] \in Records /\ queue[i].match \in 1..k
    BY <1>1, SettledOrder
  <2>3. queue[i].match \in Matches
    BY <2>2, RecordFields
  <2>4. ConfirmedValue(i, n, answer) \in Values
    BY AnswersAreSnapshots DEF ConfirmedValue, Values
  <2>5. (i < n) \in BOOLEAN
    OBVIOUS
  <2> DEFINE v == ConfirmedValue(i, n, answer)
             e == i < n
  <2> HIDE DEF updates, v, e
  <2>6. updates[i] = [op |-> "update", match |-> queue[i].match, value |-> v, estimated |-> e]
    BY <2>1 DEF v, e
  <2>7. updates[i] \in UpdateJobs
    BY <2>3, <2>4, <2>5, <2>6 DEF UpdateJobs, v, e
  <2>8. updates[i].estimated = e /\ updates[i].value = v /\ updates[i].op = "update"
        /\ updates[i].match = queue[i].match
    BY <2>6
  <2> QED
    BY <2>2, <2>7, <2>8 DEF v, e
<1>3. updates = [i \in 1..n |-> updates[i]]
  BY DEF Updates
<1> HIDE DEF updates
<1>4. updates \in [1..n -> Jobs]
  BY <1>2, <1>3 DEF Jobs
<1>5. updates \in Seq(Jobs) /\ Len(updates) = n
  BY <1>1, <1>4, IsASeq, LenProperties
<1>6. updates # <<>>
  BY <1>1, <1>5
<1> QED
  BY <1>2, <1>5, <1>6 DEF updates, UpdatesOf

LEMMA ConfirmationsShape ==
  ASSUME NEW k \in Nat, NEW r, Reconciler(r, k), NEW queue, Settled(r.queue, queue),
         NEW n \in Nat, Places(r, n)
  PROVE  /\ Confirmations(queue, n) \subseteq [match : 1..k, won : BOOLEAN]
         /\ \A i \in 1..n : queue[i].kind \in Left /\ ~queue[i].dbFinal =>
              \E c \in Confirmations(queue, n) : c.match = queue[i].match
         /\ \A c \in Confirmations(queue, n) : \E i \in 1..n :
              /\ c.match = queue[i].match /\ c.won = queue[i].won
              /\ queue[i].kind \in Left /\ ~queue[i].dbFinal
<1>1. n \in 1..Len(queue) /\ Len(queue) \in Nat
  BY SettledOrder DEF Places
<1>2. \A i \in 1..n : queue[i].match \in 1..k /\ queue[i].won \in BOOLEAN
  <2> SUFFICES ASSUME NEW i \in 1..n
               PROVE  queue[i].match \in 1..k /\ queue[i].won \in BOOLEAN
    OBVIOUS
  <2>1. queue[i] \in Records /\ queue[i].match \in 1..k
    BY <1>1, SettledOrder
  <2> QED
    BY <2>1, RecordFields
<1>3. ASSUME NEW c \in Confirmations(queue, n)
      PROVE  \E i \in 1..n : /\ c = [match |-> queue[i].match, won |-> queue[i].won]
                             /\ queue[i].kind \in Left /\ ~queue[i].dbFinal
  BY DEF Confirmations
<1>4. ASSUME NEW i \in 1..n, queue[i].kind \in Left, ~queue[i].dbFinal
      PROVE  \E c \in Confirmations(queue, n) : c.match = queue[i].match
  <2>1. [match |-> queue[i].match, won |-> queue[i].won] \in Confirmations(queue, n)
    BY <1>4 DEF Confirmations
  <2> QED
    BY <2>1
<1> QED
  BY <1>2, <1>3, <1>4

-----------------------------------------------------------------------------
\* What an answer does to the reconciler and to the jobs.

LEMMA ConcatJobSet ==
  ASSUME NEW queue \in Seq(Jobs), NEW updates \in Seq(Jobs)
  PROVE  /\ queue \o updates \in Seq(Jobs)
         /\ JobSet(queue \o updates) = JobSet(queue) \cup JobSet(updates)
<1>1. /\ Len(queue) \in Nat /\ DOMAIN queue = 1..Len(queue) /\ queue \o updates \in Seq(Jobs)
      /\ DOMAIN (queue \o updates) = 1..(Len(queue) + Len(updates))
      /\ \A i \in 1..Len(queue) : (queue \o updates)[i] = queue[i]
      /\ \A i \in (Len(queue) + 1)..(Len(queue) + Len(updates)) :
           (queue \o updates)[i] = updates[i - Len(queue)]
  BY JobsConcat
<1>2. Len(updates) \in Nat /\ DOMAIN updates = 1..Len(updates)
  BY LenProperties
<1> DEFINE both == queue \o updates
<1> HIDE DEF both
<1>3. /\ DOMAIN both = 1..(Len(queue) + Len(updates))
      /\ \A i \in 1..Len(queue) : both[i] = queue[i]
      /\ \A i \in (Len(queue) + 1)..(Len(queue) + Len(updates)) :
           both[i] = updates[i - Len(queue)]
  BY <1>1 DEF both
<1>4. ASSUME NEW j \in JobSet(both) PROVE j \in JobSet(queue) \cup JobSet(updates)
  <2> PICK i \in DOMAIN both : j = both[i]
    BY DEF JobSet
  <2>1. CASE i <= Len(queue)
    BY <1>1, <1>2, <1>3, <2>1 DEF JobSet
  <2>2. CASE i > Len(queue)
    <3>1. j = updates[i - Len(queue)] /\ i - Len(queue) \in DOMAIN updates
      BY <1>1, <1>2, <1>3, <2>2
    <3> QED
      BY <3>1 DEF JobSet
  <2> QED
    BY <1>1, <1>2, <1>3, <2>1, <2>2
<1>5. ASSUME NEW j \in JobSet(queue) PROVE j \in JobSet(both)
  <2> PICK i \in DOMAIN queue : j = queue[i]
    BY DEF JobSet
  <2>1. both[i] = j /\ i \in DOMAIN both
    BY <1>1, <1>2, <1>3
  <2> QED
    BY <2>1 DEF JobSet
<1>6. ASSUME NEW j \in JobSet(updates) PROVE j \in JobSet(both)
  <2> PICK i \in DOMAIN updates : j = updates[i]
    BY DEF JobSet
  <2>1. Len(queue) + i \in DOMAIN both /\ both[Len(queue) + i] = updates[i]
    BY <1>1, <1>2, <1>3
  <2> QED
    BY <2>1 DEF JobSet
<1> QED
  BY <1>1, <1>4, <1>5, <1>6 DEF both

LEMMA SingleJob ==
  ASSUME NEW job \in Jobs
  PROVE  <<job>> \in Seq(Jobs) /\ JobSet(<<job>>) = {job}
<1>1. DOMAIN <<job>> = {1} /\ <<job>>[1] = job /\ <<job>> \in Seq(Jobs)
  OBVIOUS
<1> QED
  BY <1>1 DEF JobSet

LEMMA NoJob == <<>> \in Seq(Jobs) /\ JobSet(<<>>) = {}
  BY DEF JobSet

LEMMA ProvisionalJob ==
  ASSUME NEW k \in Nat, NEW r, Reconciler(r, k), NEW match
  PROVE  LET updates == ProvisionalUpdate(r, match) IN
         /\ updates \in Seq(Jobs)
         /\ \A j \in JobSet(updates) : j.op = "update" /\ j.estimated
         /\ \/ updates = <<>>
            \/ \E job \in Jobs : /\ updates = <<job>> /\ job.op = "update" /\ job.estimated
                                 /\ job.match \in 1..k /\ job.match \notin DOMAIN Shown(r)
<1> DEFINE updates == ProvisionalUpdate(r, match)
           job == [op |-> "update", match |-> match, value |-> Guess, estimated |-> TRUE]
<1>1. CASE updates = <<>>
  BY <1>1, NoJob
<1>2. CASE updates # <<>>
  <2>1. IsPending(r, match) /\ updates = <<job>>
    BY <1>2 DEF ProvisionalUpdate
  <2>2. PlaceOf(r, match) \in DOMAIN r.queue /\ r.queue[PlaceOf(r, match)].match = match
    BY <2>1, PlaceOfPending
  <2>3. match \in 1..k /\ r.queue[PlaceOf(r, match)] \in Records
    BY <2>2, RecordsOfReconciler
  <2>4. match \in Matches
    BY <2>2, <2>3, RecordFields
  <2>5. job \in Jobs
    BY <2>4 DEF Jobs, UpdateJobs, Values
  <2>6. ~Covered(r, match)
    BY <2>1, <2>3 DEF Reconciler
  <2>7. match \notin DOMAIN Shown(r)
    BY <2>6 DEF Shown, Covered
  <2>8. job.op = "update" /\ job.estimated /\ job.match = match
    OBVIOUS
  <2>9. JobSet(<<job>>) = {job} /\ <<job>> \in Seq(Jobs)
    BY <2>5, SingleJob
  <2> HIDE DEF job, updates
  <2> QED
    BY <2>1, <2>3, <2>5, <2>7, <2>8, <2>9 DEF updates
<1> QED
  BY <1>1, <1>2

LEMMA ProvisionalJobs ==
  ASSUME NEW k \in Nat, NEW r, Reconciler(r, k), NEW match, NEW queue \in Seq(Jobs), NEW table,
         JobsSound(Shown(r), k, queue, table)
  PROVE  JobsSound(Shown(r), k, queue \o ProvisionalUpdate(r, match), table)
<1> DEFINE updates == ProvisionalUpdate(r, match)
<1>1. CASE updates = <<>>
  BY <1>1, ConcatEmptySeq
<1>2. CASE \E job \in Jobs : /\ updates = <<job>> /\ job.op = "update" /\ job.estimated
                             /\ job.match \in 1..k /\ job.match \notin DOMAIN Shown(r)
  <2> PICK job \in Jobs : /\ updates = <<job>> /\ job.op = "update" /\ job.estimated
                          /\ job.match \in 1..k /\ job.match \notin DOMAIN Shown(r)
    BY <1>2
  <2>1. queue \o updates = Append(queue, job)
    BY AppendedJob
  <2>2. JobsSound(Shown(r), k, Append(queue, job), table)
    BY JobsSoundAppend
  <2> QED
    BY <2>1, <2>2
<1> QED
  BY <1>1, <1>2, ProvisionalJob

\* A record that waits after an answer waited before it.
FromQueue(old, new) ==
  \A i \in DOMAIN new : \E j \in DOMAIN old :
    new[i].match = old[j].match /\ new[i].kind = old[j].kind /\ new[i].dbFinal = old[j].dbFinal

\* A match that is covered by an answer had been left by the callers or is handed to them.
CoveredByCalls(r, out) ==
  \A m : Covered(out.rec, m) =>
    \/ Covered(r, m)
    \/ \E j \in DOMAIN r.queue :
         /\ r.queue[j].match = m
         /\ r.queue[j].kind \in Left /\ ~r.queue[j].dbFinal => \E c \in out.calls : c.match = m

OutcomeSound(r, k, match, out) ==
  /\ Reconciler(out.rec, k) /\ r.completed \subseteq out.rec.completed
  /\ out.rec.cache = r.cache /\ out.rec.cacheValid = r.cacheValid
  /\ out.ok \in BOOLEAN
  /\ IF out.ok THEN match \in out.rec.completed ELSE IsPending(out.rec, match)
  /\ out.calls \subseteq [match : 1..k, won : BOOLEAN]
  /\ FromQueue(r.queue, out.rec.queue)
  /\ CoveredByCalls(r, out)
  /\ out.updates \in Seq(Jobs) /\ \A j \in JobSet(out.updates) : j.match \in 1..k

JobsFollow(r, k, out) ==
  \A queue \in Seq(Jobs) : \A table :
    JobsSound(Shown(r), k, queue, table) /\ DOMAIN table \subseteq 1..k =>
      JobsSound(Shown(out.rec), k, queue \o out.updates, table)

\* An answer that covers nothing, or whose results are open.
LEMMA NothingConfirmed ==
  ASSUME NEW k \in Nat, NEW r, NEW match, NEW out, NothingOut(out),
         Reconciler(r, k), IsPending(r, match), SameBooks(r, out.rec, k),
         FromQueue(r.queue, out.rec.queue)
  PROVE  OutcomeSound(r, k, match, out) /\ JobsFollow(r, k, out)
<1>1. OutcomeSound(r, k, match, out)
  <2>1. CoveredByCalls(r, out)
    BY DEF SameBooks, CoveredByCalls
  <2> QED
    BY <2>1, NoJob DEF OutcomeSound, NothingOut, SameBooks
<1>2. JobsFollow(r, k, out)
  <2> SUFFICES ASSUME NEW queue \in Seq(Jobs), NEW table, JobsSound(Shown(r), k, queue, table)
               PROVE  JobsSound(Shown(out.rec), k, queue \o out.updates, table)
    BY DEF JobsFollow
  <2>1. queue \o out.updates = queue
    BY ConcatEmptySeq DEF NothingOut
  <2> QED
    BY <2>1 DEF SameBooks
<1> QED
  BY <1>1, <1>2

\* An answer that covers matches whose results are all known.
LEMMA SomeConfirmed ==
  ASSUME NEW k \in Nat, NEW r, Reconciler(r, k), r.queue # <<>>, NEW match, IsPending(r, match),
         NEW answer \in Answers, NEW n \in Nat, Places(r, n),
         NEW queue, Settled(r.queue, queue), NEW out,
         Confirmation(r, queue, n, answer, match, out)
  PROVE  OutcomeSound(r, k, match, out) /\ JobsFollow(r, k, out)
<1> n \in 1..Len(r.queue)
  BY DEF Places
<1> DEFINE p == out.rec
           covered == FirstMatches(queue, n)
           updates == out.updates
<1> HIDE DEF p, covered, updates
<1>0. /\ p = Confirmed(r, queue, n, answer)
      /\ updates = Updates(queue, n, answer)
      /\ out.calls = Confirmations(queue, n)
      /\ out.ok = (\E i \in 1..n : queue[i].match = match)
  BY DEF p, updates, Confirmation
<1>a. ConfirmedBooks(r, p, k, queue, n, answer)
  BY <1>0, ConfirmedKeeps
<1>b. UpdatesOf(queue, n, answer, k, updates)
  BY <1>0, UpdatesShape
<1>1. /\ Reconciler(p, k)
      /\ p.cache = r.cache /\ p.cacheValid = r.cacheValid
      /\ p.completed = r.completed \cup covered
      /\ Len(p.queue) = Len(r.queue) - n /\ DOMAIN p.queue = 1..(Len(r.queue) - n)
      /\ \A i \in 1..(Len(r.queue) - n) :
           LeftOver(queue[n + i], p.queue[i], Carried(r, n, answer), answer.at)
      /\ \A m : Covered(p, m) <=> Covered(r, m) \/ m \in covered
      /\ DOMAIN Shown(p) = DOMAIN Shown(r) \cup covered
      /\ \A i \in 1..n : Shown(p)[queue[i].match] = ConfirmedValue(i, n, answer)
      /\ \A m \in DOMAIN Shown(r) : m \notin covered /\ Shown(p)[m] = Shown(r)[m]
  BY <1>a DEF covered, ConfirmedBooks
<1>2. /\ queue \in Seq(Records) /\ Len(queue) = Len(r.queue) /\ Len(queue) \in Nat
      /\ DOMAIN queue = 1..Len(queue) /\ DOMAIN r.queue = 1..Len(queue)
      /\ \A i \in 1..Len(queue) :
           queue[i] \in Records /\ queue[i].match \in 1..k /\ queue[i].match = r.queue[i].match
      /\ \A i, j \in 1..Len(queue) : queue[i].match = queue[j].match => i = j
  BY SettledOrder
<1>3. \A i \in 1..Len(queue) :
        queue[i].kind = r.queue[i].kind /\ queue[i].dbFinal = r.queue[i].dbFinal
  BY <1>2 DEF Settled, SettledRecord
<1>4. /\ updates \in Seq(Jobs) /\ Len(updates) = n /\ updates # <<>>
      /\ \A i \in 1..n :
           /\ updates[i] \in UpdateJobs /\ updates[i].op = "update"
           /\ updates[i].match = queue[i].match /\ updates[i].match \in 1..k
           /\ updates[i].value = ConfirmedValue(i, n, answer)
  BY <1>b DEF UpdatesOf
<1>5. /\ out.calls \subseteq [match : 1..k, won : BOOLEAN]
      /\ \A i \in 1..n : queue[i].kind \in Left /\ ~queue[i].dbFinal =>
           \E c \in out.calls : c.match = queue[i].match
  <2> DEFINE results == Confirmations(queue, n)
  <2>1. /\ results \subseteq [match : 1..k, won : BOOLEAN]
        /\ \A i \in 1..n : queue[i].kind \in Left /\ ~queue[i].dbFinal =>
             \E c \in results : c.match = queue[i].match
        /\ \A c \in results : \E i \in 1..n :
             /\ c.match = queue[i].match /\ c.won = queue[i].won
             /\ queue[i].kind \in Left /\ ~queue[i].dbFinal
    BY ConfirmationsShape
  <2>2. out.calls = results
    BY <1>0
  <2> HIDE DEF results
  <2> QED
    BY <2>1, <2>2
<1>6. out.ok \in BOOLEAN
  BY <1>0
<1>7. IF out.ok THEN match \in p.completed ELSE IsPending(p, match)
  <2>1. CASE \E i \in 1..n : queue[i].match = match
    BY <1>0, <1>1, <2>1 DEF covered, FirstMatches
  <2>2. CASE ~\E i \in 1..n : queue[i].match = match
    <3> PICK i \in DOMAIN r.queue : r.queue[i].match = match
      BY DEF IsPending
    <3>1. i \in 1..Len(queue) /\ queue[i].match = match /\ i \notin 1..n
      BY <1>2, <2>2
    <3>2. i - n \in DOMAIN p.queue /\ n + (i - n) = i
      BY <1>1, <1>2, <3>1
    <3>3. p.queue[i - n].match = match
      <4> DEFINE j == i - n
      <4>1. j \in 1..(Len(r.queue) - n) /\ n + j = i
        BY <1>1, <3>2
      <4> HIDE DEF j
      <4>2. LeftOver(queue[n + j], p.queue[j], Carried(r, n, answer), answer.at)
        BY <1>1, <4>1
      <4>3. p.queue[j].match = queue[n + j].match
        BY <4>2 DEF LeftOver
      <4>4. p.queue[j].match = match
        BY <3>1, <4>1, <4>3
      <4> QED
        BY <4>4 DEF j
    <3> QED
      BY <1>0, <2>2, <3>2, <3>3 DEF IsPending
  <2> QED
    BY <2>1, <2>2
<1>8. FromQueue(r.queue, p.queue)
  <2> SUFFICES ASSUME NEW i \in DOMAIN p.queue
               PROVE  \E j \in DOMAIN r.queue :
                        /\ p.queue[i].match = r.queue[j].match
                        /\ p.queue[i].kind = r.queue[j].kind
                        /\ p.queue[i].dbFinal = r.queue[j].dbFinal
    BY DEF FromQueue
  <2>1. n + i \in 1..Len(queue) /\ n + i \in DOMAIN r.queue
    BY <1>1, <1>2
  <2>2. /\ p.queue[i].match = queue[n + i].match /\ p.queue[i].kind = queue[n + i].kind
        /\ p.queue[i].dbFinal = queue[n + i].dbFinal
    BY <1>1 DEF LeftOver
  <2> QED
    BY <1>2, <1>3, <2>1, <2>2
<1>9. CoveredByCalls(r, out)
  <2> SUFFICES ASSUME NEW m, Covered(p, m), ~Covered(r, m)
               PROVE  \E j \in DOMAIN r.queue :
                        /\ r.queue[j].match = m
                        /\ r.queue[j].kind \in Left /\ ~r.queue[j].dbFinal =>
                             \E c \in out.calls : c.match = m
    BY DEF CoveredByCalls, p
  <2>1. PICK i \in 1..n : m = queue[i].match
    BY <1>1 DEF covered, FirstMatches
  <2>2. i \in DOMAIN r.queue /\ r.queue[i].match = m
    BY <1>2, <2>1
  <2>3. r.queue[i].kind = queue[i].kind /\ r.queue[i].dbFinal = queue[i].dbFinal
    BY <1>2, <1>3, <2>2
  <2>4. r.queue[i].kind \in Left /\ ~r.queue[i].dbFinal => \E c \in out.calls : c.match = m
    BY <1>5, <2>1, <2>3
  <2> QED
    BY <2>2, <2>4
<1>10. ASSUME NEW jobQueue \in Seq(Jobs), NEW table, JobsSound(Shown(r), k, jobQueue, table),
              DOMAIN table \subseteq 1..k
       PROVE  JobsSound(Shown(p), k, jobQueue \o updates, table)
  <2> DEFINE shown == Shown(r)
             after == Shown(p)
  <2>1. \A i \in 1..n : /\ updates[i].op = "update" /\ updates[i].match \in 1..k
                        /\ updates[i].match \notin DOMAIN shown
    BY <1>1, <1>4 DEF covered, FirstMatches
  <2>2. \A i, j \in 1..n : updates[i].match = updates[j].match => i = j
    BY <1>2, <1>4
  <2>3. DOMAIN after = DOMAIN shown \cup {updates[i].match : i \in 1..n}
    <3>1. covered = {updates[i].match : i \in 1..n}
      BY <1>4 DEF covered, FirstMatches
    <3> QED
      BY <1>1, <3>1
  <2>4. \A i \in 1..n : after[updates[i].match] = updates[i].value
    BY <1>1, <1>4
  <2>5. \A m \in DOMAIN shown : after[m] = shown[m]
    BY <1>1
  <2>6. JobsSound(shown, k, jobQueue, table)
    BY <1>10
  <2>7. n \in Nat
    OBVIOUS
  <2> HIDE DEF shown, after
  <2>8. JobsSound(after, k, jobQueue \o updates, table)
    BY <1>4, <1>10, <2>1, <2>2, <2>3, <2>4, <2>5, <2>6, <2>7, JobsSoundConfirm
  <2> QED
    BY <2>8 DEF after
<1>11. \A j \in JobSet(updates) : j.match \in 1..k
  <2>1. DOMAIN updates = 1..n
    BY <1>4, LenProperties
  <2> QED
    BY <1>4, <2>1 DEF JobSet
<1> QED
  BY <1>1, <1>4, <1>5, <1>6, <1>7, <1>8, <1>9, <1>10, <1>11 DEF p, updates, OutcomeSound, JobsFollow

LEMMA SettledFrom ==
  ASSUME NEW k \in Nat, NEW r, Reconciler(r, k), NEW queue, Settled(r.queue, queue)
  PROVE  FromQueue(r.queue, queue)
<1>1. DOMAIN queue = DOMAIN r.queue
  BY SettledOrder
<1> QED
  BY <1>1 DEF Settled, SettledRecord, FromQueue

LEMMA ReconcileKeeps ==
  ASSUME NEW k \in Nat, NEW r, Reconciler(r, k), NEW match, IsPending(r, match),
         NEW answer \in Answers, NEW out, out = Reconcile(r, match, answer)
  PROVE  OutcomeSound(r, k, match, out) /\ JobsFollow(r, k, out)
<1> DEFINE n == CoveredCount(r, answer)
           queue == Decided(r.queue, n, answer.at)
<1>1. r.queue # <<>> /\ r.queue \in Seq(Records) /\ r.baseline \in Counts /\ IsReconciler(r)
  BY DEF Reconciler, IsReconciler, IsPending
<1>2. answer.at # Unknown /\ answer \in Snapshots
  BY AnswersAreSnapshots
<1>3. n \in 0..Len(r.queue) /\ Len(r.queue) \in Nat
  BY <1>1, CoveredCountBound, LenProperties
<1>4. Settled(r.queue, queue)
  BY <1>1, DecidedSettles
<1> HIDE DEF n, queue
<1>5. n \in Nat /\ n = CoveredCount(r, answer) /\ queue = Decided(r.queue, n, answer.at)
  BY <1>3 DEF n, queue
<1>6. \/ n = 0 /\ NothingOut(out) /\ out.rec = Observed(r, answer)
      \/ NothingOut(out) /\ out.rec = r
      \/ /\ NothingOut(out)
         /\ IsReconciler(out.rec) /\ out.rec.queue = queue
         /\ out.rec.baseline = r.baseline /\ out.rec.cache = r.cache
         /\ out.rec.cacheValid = r.cacheValid /\ out.rec.completed = r.completed
         /\ out.rec.points = r.points
      \/ n > 0 /\ Confirmation(r, queue, n, answer, match, out)
  BY <1>1, <1>2, <1>5, ReconcileCases
<1>7. CASE NothingOut(out) /\ out.rec = Observed(r, answer)
  <2>1. SameBooks(r, out.rec, k) /\ ObservedQueue(r.queue, out.rec.queue)
    BY <1>1, <1>2, <1>7, ObservedKeeps
  <2>2. FromQueue(r.queue, out.rec.queue)
    BY <2>1 DEF ObservedQueue, ObservedRecord, FromQueue
  <2> QED
    BY <1>7, <2>1, <2>2, NothingConfirmed
<1>8. CASE NothingOut(out) /\ out.rec = r
  <2>1. SameBooks(r, out.rec, k) /\ FromQueue(r.queue, out.rec.queue)
    BY <1>8 DEF SameBooks, FromQueue
  <2> QED
    BY <1>8, <2>1, NothingConfirmed
<1>9. CASE /\ NothingOut(out)
           /\ IsReconciler(out.rec) /\ out.rec.queue = queue
           /\ out.rec.baseline = r.baseline /\ out.rec.cache = r.cache
           /\ out.rec.cacheValid = r.cacheValid /\ out.rec.completed = r.completed
           /\ out.rec.points = r.points
  <2>1. SameBooks(r, out.rec, k)
    BY <1>4, <1>9, SettleKeeps
  <2>2. FromQueue(r.queue, out.rec.queue)
    BY <1>4, <1>9, SettledFrom
  <2> QED
    BY <1>9, <2>1, <2>2, NothingConfirmed
<1>10. CASE n > 0 /\ Confirmation(r, queue, n, answer, match, out)
  <2>1. n \in Nat /\ Places(r, n)
    BY <1>3, <1>10 DEF Places
  <2> QED
    BY <1>1, <1>4, <1>10, <2>1, SomeConfirmed
<1> QED
  BY <1>6, <1>7, <1>8, <1>9, <1>10

-----------------------------------------------------------------------------
\* The types, and what is asked and left open, are kept by every step.

LEMMA GameFacts ==
  ASSUME GameTypes
  PROVE  /\ LastMatch \in Nat \ {0} /\ game.last \in 1..LastMatch
         /\ game.kinds \subseteq AllKinds
         /\ Len(won) \in Nat /\ DOMAIN won = 1..Len(won) /\ Len(won) <= LastMatch
         /\ \A m \in 1..Len(won) : m \in Matches /\ won[m] \in BOOLEAN
<1>1. LastMatch \in Nat \ {0}
  BY PostMatchAssumption
<1>2. game \in [last : Matches, kinds : SUBSET AllKinds, countless : BOOLEAN,
                omninet : BOOLEAN, races : BOOLEAN]
  BY PostMatchAssumption DEF GameTypes
<1>3. game.last \in 1..LastMatch /\ game.kinds \subseteq AllKinds
  BY <1>2 DEF Matches
<1>4. Len(won) \in Nat /\ DOMAIN won = 1..Len(won) /\ Len(won) <= game.last
  BY LenProperties DEF GameTypes
<1>5. \A m \in 1..Len(won) : won[m] \in BOOLEAN
  BY <1>4, ElementOfSeq DEF GameTypes
<1>6. \A m \in 1..Len(won) : m \in Matches
  BY <1>1, <1>3, <1>4 DEF Matches
<1>7. Len(won) <= LastMatch
  BY <1>1, <1>3, <1>4
<1> QED
  BY <1>1, <1>3, <1>4, <1>5, <1>6, <1>7

LEMMA EffectFields ==
  ASSUME effect \in EndEffects
  PROVE  /\ effect.kind \in AllKinds /\ effect.match \in Matches /\ effect.won \in BOOLEAN
         /\ effect.pre \in Snapshots /\ effect.kind # "late" /\ effect # Nothing
<1>1. effect.kind \in AllKinds /\ effect.match \in Matches /\ effect.won \in BOOLEAN
      /\ effect.pre \in Snapshots
  BY DEF EndEffects
<1>2. effect.kind # "late" /\ effect.kind # "none"
  BY <1>1 DEF AllKinds, Left
<1>3. Nothing.kind = "none"
  BY DEF Nothing
<1> QED
  BY <1>1, <1>2, <1>3

LEMMA LateFields ==
  ASSUME effect \in LateEffects
  PROVE  /\ effect.kind = "late" /\ effect.match \in Matches /\ effect.won \in BOOLEAN
         /\ effect.kind \notin AllKinds /\ effect # Nothing /\ effect \notin EndEffects
<1>1. effect.kind = "late" /\ effect.match \in Matches /\ effect.won \in BOOLEAN
  BY DEF LateEffects
<1>2. effect.kind \notin AllKinds
  BY <1>1 DEF AllKinds, Left
<1>3. Nothing.kind = "none"
  BY DEF Nothing
<1> QED
  BY <1>1, <1>2, <1>3, EffectFields

LEMMA NothingIsNone ==
  Nothing.kind = "none" /\ Nothing.kind \notin AllKinds /\ Nothing.kind # "late"
  /\ Nothing \notin EndEffects /\ Nothing \notin LateEffects
<1>1. Nothing.kind = "none" /\ Nothing.kind \notin AllKinds
  BY DEF Nothing, AllKinds, Left
<1> QED
  BY <1>1 DEF EndEffects, LateEffects

LEMMA RoutedFacts ==
  ASSUME GameTypes, EffectSound, effect \in {Nothing} \cup EndEffects \cup LateEffects
  PROVE  /\ Routed \in Nat /\ Routed <= Len(won) /\ Len(won) <= Routed + 1
         /\ effect \notin EndEffects => Routed = Len(won) /\ effect.kind \notin AllKinds
         /\ effect \in EndEffects => Routed + 1 = Len(won) /\ effect.kind \in AllKinds
         /\ \A m \in 1..Routed : m \in 1..Len(won) /\ m \in Matches /\ won[m] \in BOOLEAN
<1>1. CASE effect \in EndEffects
  <2>1. effect.match = Len(won) /\ effect.match \in Matches /\ effect.kind \in AllKinds
    BY <1>1, EffectFields DEF EffectSound
  <2>2. Routed = Len(won) - 1
    BY <2>1 DEF Routed
  <2>3. Len(won) \in Nat /\ Len(won) > 0
    BY <2>1, GameFacts DEF Matches
  <2>4. Routed \in Nat /\ Routed <= Len(won) /\ Len(won) <= Routed + 1
    BY <2>2, <2>3
  <2>5. \A m \in 1..Routed : m \in 1..Len(won)
    BY <2>3, <2>4
  <2> QED
    BY <1>1, <2>1, <2>2, <2>3, <2>4, <2>5, GameFacts
<1>2. CASE effect \notin EndEffects
  <2>1. effect.kind \notin AllKinds
    BY <1>2, LateFields, NothingIsNone
  <2>2. Routed = Len(won)
    BY <2>1 DEF Routed
  <2> QED
    BY <1>2, <2>1, <2>2, GameFacts
<1> QED
  BY <1>1, <1>2

LEMMA StartMatchBasics ==
  ASSUME Basics, StartMatch
  PROVE  Basics'
<1> USE DEF Basics
<1>1. /\ game' = game /\ won' = won /\ published' = published /\ undecided' = undecided
      /\ effect' = effect /\ rec' = rec /\ asked' = asked /\ reply' = reply /\ calls' = calls
      /\ jobs' = jobs /\ rows' = rows
      /\ playing = 0 /\ playing' = Len(won) + 1 /\ Len(won) < game.last
      /\ before' = seen /\ seen' = NoProfile
  BY DEF StartMatch, world, worker, database
<1>2. Routed' = Routed
  BY <1>1 DEF Routed
<1>3. GameTypes'
  BY <1>1, <1>2, GameFacts, EmptyProfile DEF GameTypes
<1> QED
  BY <1>1, <1>2, <1>3
     DEF ProgramTypes, EffectSound, ReplySound, EveryMatchAsked, UndecidedSound

LEMMA EndMatchBasics ==
  ASSUME Basics, EndMatch
  PROVE  Basics'
<1> USE DEF Basics
<1> DEFINE snapshot == IF before.at # Unknown THEN before ELSE seen
<1> HIDE DEF snapshot
<1>1. /\ effect = Nothing /\ playing # 0
      /\ game' = game /\ published' = published /\ seen' = seen /\ rec' = rec
      /\ asked' = asked /\ reply' = reply /\ calls' = calls /\ jobs' = jobs /\ rows' = rows
      /\ playing' = 0 /\ before' = NoProfile
  BY DEF EndMatch, EventThreadIdle, worker, database
<1>2. PICK kind \in game.kinds, result \in BOOLEAN :
        /\ snapshot.at # Unknown
        /\ won' = Append(won, result)
        /\ undecided' = IF kind \in Left THEN undecided \cup {playing} ELSE undecided
        /\ effect' = [kind |-> kind, match |-> playing, won |-> result, pre |-> snapshot]
  BY DEF EndMatch, snapshot
<1>3. snapshot \in Snapshots
  BY DEF GameTypes, snapshot
<1>4. playing = Len(won) + 1 /\ playing <= game.last /\ playing \in Matches
  BY <1>1, GameFacts DEF GameTypes, Matches
<1>5. /\ won' \in Seq(BOOLEAN) /\ Len(won') = Len(won) + 1
      /\ \A m \in 1..Len(won) : won'[m] = won[m]
      /\ won'[Len(won) + 1] = result
  BY <1>2, GameFacts DEF GameTypes
<1>6. /\ effect' \in EndEffects' /\ effect'.kind = kind /\ effect'.match = playing
      /\ effect'.won = result /\ effect'.pre = snapshot /\ effect'.kind \in AllKinds
  <2>1. kind \in AllKinds
    BY GameFacts
  <2> QED
    BY <1>2, <1>3, <1>4, <2>1 DEF EndEffects
<1>7. Routed = Len(won) /\ Routed' = Routed
  <2>1. Routed = Len(won)
    BY <1>1, NothingIsNone DEF Routed
  <2>2. Routed' = Len(won') - 1
    BY <1>6 DEF Routed
  <2> QED
    BY <1>5, <2>1, <2>2, GameFacts
<1>8. GameTypes'
  <2>1. undecided' \subseteq 1..Len(won')
    <3>1. undecided' \subseteq undecided \cup {playing}
      BY <1>2
    <3>2. \A m \in 1..Len(won) : m \in 1..Len(won')
      BY <1>5, GameFacts
    <3>3. playing \in 1..Len(won')
      BY <1>4, <1>5, GameFacts
    <3> QED
      BY <3>1, <3>2, <3>3 DEF GameTypes
  <2>2. published' \in 0..Routed' /\ playing' \in {0, Len(won') + 1} /\ playing' <= game'.last
    BY <1>1, <1>7, GameFacts DEF GameTypes
  <2> QED
    BY <1>1, <1>4, <1>5, <2>1, <2>2, EmptyProfile DEF GameTypes
<1>9. ProgramTypes'
  BY <1>1, <1>6, <1>7 DEF ProgramTypes
<1>10. EffectSound'
  <2>1. effect' \notin LateEffects
    <3>1. effect'.kind # "late"
      BY <1>6 DEF AllKinds, Left
    <3> QED
      BY <3>1 DEF LateEffects
  <2>2. playing \notin undecided
    BY <1>4, GameFacts DEF GameTypes
  <2>3. effect'.match \in undecided' <=> effect'.kind \in Left
    BY <1>2, <1>6, <2>2
  <2>4. effect'.match = Len(won') /\ effect'.won = won'[effect'.match]
    BY <1>4, <1>5, <1>6
  <2> QED
    BY <1>1, <1>2, <1>6, <2>1, <2>3, <2>4 DEF EffectSound
<1>11. ReplySound' /\ EveryMatchAsked'
  BY <1>1, <1>7 DEF ReplySound, EveryMatchAsked
<1>12. UndecidedSound'
  <2>1. undecided' \subseteq undecided \cup {playing}
    BY <1>2
  <2>2. Reconciler(rec, Routed)
    BY DEF ProgramTypes
  <2>3. playing > Routed /\ Routed \in Nat
    BY <1>4, <1>7, GameFacts
  <2>4. \A i \in DOMAIN rec.queue : rec.queue[i].match # playing
    BY <2>2, <2>3, RecordsOfReconciler
  <2>5. ~Covered(rec, playing)
    BY <2>2, <2>3 DEF Covered, Reconciler
  <2> QED
    BY <1>1, <2>1, <2>4, <2>5 DEF UndecidedSound
<1> QED
  BY <1>8, <1>9, <1>10, <1>11, <1>12

LEMMA LateResultBasics ==
  ASSUME Basics, LateResult
  PROVE  Basics'
<1> USE DEF Basics
<1>1. /\ effect = Nothing
      /\ game' = game /\ won' = won /\ published' = published /\ seen' = seen /\ rec' = rec
      /\ asked' = asked /\ reply' = reply /\ calls' = calls /\ jobs' = jobs /\ rows' = rows
      /\ playing' = playing /\ before' = before
  BY DEF LateResult, EventThreadIdle, world, worker, database
<1>2. PICK m \in undecided :
        /\ undecided' = undecided \ {m}
        /\ effect' = [kind |-> "late", match |-> m, won |-> won[m]]
  BY DEF LateResult
<1>3. m \in 1..Len(won) /\ m \in Matches /\ won[m] \in BOOLEAN
  BY GameFacts DEF GameTypes
<1>4. /\ effect' \in LateEffects /\ effect'.kind = "late" /\ effect'.match = m
      /\ effect'.won = won[m]
  BY <1>2, <1>3 DEF LateEffects
<1>5. effect'.kind \notin AllKinds /\ effect' \notin EndEffects'
  <2>1. "late" \notin AllKinds
    BY DEF AllKinds, Left
  <2> QED
    BY <1>4, <2>1 DEF EndEffects
<1>6. Routed = Len(won) /\ Routed' = Routed
  BY <1>1, <1>5, NothingIsNone DEF Routed
<1>7. GameTypes' /\ ProgramTypes'
  BY <1>1, <1>2, <1>4, <1>6 DEF GameTypes, ProgramTypes
<1>8. EffectSound'
  BY <1>1, <1>2, <1>3, <1>4, <1>5, <1>6 DEF EffectSound
<1> QED
  BY <1>1, <1>2, <1>6, <1>7, <1>8 DEF ReplySound, EveryMatchAsked, UndecidedSound

LEMMA PublishBasics ==
  ASSUME Basics, Publish
  PROVE  Basics'
<1> USE DEF Basics
<1>1. /\ effect = Nothing /\ effect' = effect
      /\ game' = game /\ won' = won /\ seen' = seen /\ rec' = rec
      /\ asked' = asked /\ reply' = reply /\ calls' = calls /\ jobs' = jobs /\ rows' = rows
      /\ playing' = playing /\ before' = before /\ undecided' = undecided
      /\ published' \in (published + 1)..Len(won)
  BY DEF Publish, telemetry, worker, database
<1>2. Routed = Len(won) /\ Routed' = Routed
  BY <1>1, NothingIsNone DEF Routed
<1>3. GameTypes'
  BY <1>1, <1>2, GameFacts DEF GameTypes
<1> QED
  BY <1>1, <1>2, <1>3 DEF ProgramTypes, EffectSound, ReplySound, EveryMatchAsked, UndecidedSound

LEMMA AnswerIsReal ==
  ASSUME Basics, NEW answer \in Answer
  PROVE  answer \in Answers /\ answer.at = published
         /\ (~game.countless => answer.counted = TRUE)
<1>1. PICK c \in IF game.countless THEN BOOLEAN ELSE {TRUE} :
        answer = [at |-> published, counted |-> c]
  BY DEF Answer
<1>2. GameTypes /\ Routed \in Nat /\ Routed <= Len(won)
  BY RoutedFacts DEF Basics, ProgramTypes
<1>3. Len(won) <= LastMatch /\ LastMatch \in Nat /\ Len(won) \in Nat
  BY <1>2, GameFacts
<1>4. published \in 0..Routed
  BY <1>2 DEF GameTypes
<1>5. published \in 0..LastMatch
  BY <1>2, <1>3, <1>4
<1> QED
  BY <1>1, <1>5 DEF Answers

LEMMA AnswerRosterBasics ==
  ASSUME Basics, AnswerRoster
  PROVE  Basics'
<1> USE DEF Basics
<1>1. /\ effect' = effect
      /\ game' = game /\ won' = won /\ published' = published /\ seen' = seen /\ rec' = rec
      /\ asked' = asked /\ calls' = calls /\ jobs' = jobs /\ rows' = rows
      /\ playing' = playing /\ before' = before /\ undecided' = undecided
  BY DEF AnswerRoster, world, telemetry, database
<1>2. PICK answer \in Answer :
        reply' = [kind |-> "roster", step |-> "reconcile", answer |-> answer, match |-> 0,
                  last |-> TRUE, ok |-> FALSE]
  BY DEF AnswerRoster
<1>3. answer \in Answers
  BY AnswerIsReal
<1>4. reply' \in Replies /\ reply'.kind = "roster"
  BY <1>2, <1>3, GameFacts DEF Replies
<1>5. Routed' = Routed
  BY <1>1 DEF Routed
<1>6. GameTypes' /\ ProgramTypes'
  BY <1>1, <1>4, <1>5 DEF GameTypes, ProgramTypes
<1>7. ReplySound'
  BY <1>4 DEF ReplySound
<1> QED
  BY <1>1, <1>5, <1>6, <1>7 DEF EffectSound, EveryMatchAsked, UndecidedSound

LEMMA AnswerPostMatchBasics ==
  ASSUME Basics, AnswerPostMatch
  PROVE  Basics'
<1> USE DEF Basics
<1>1. /\ effect' = effect
      /\ game' = game /\ won' = won /\ published' = published /\ seen' = seen /\ rec' = rec
      /\ asked' = asked /\ calls' = calls /\ jobs' = jobs /\ rows' = rows
      /\ playing' = playing /\ before' = before /\ undecided' = undecided
  BY DEF AnswerPostMatch, world, telemetry, database
<1>2. PICK m \in asked, answer \in Answer, last \in BOOLEAN :
        reply' = [kind |-> "post", step |-> "reconcile", answer |-> answer, match |-> m,
                  last |-> last, ok |-> FALSE]
  BY DEF AnswerPostMatch
<1>3. answer \in Answers
  BY AnswerIsReal
<1>4. m \in 1..Routed /\ m \in 0..LastMatch
  BY RoutedFacts, PostMatchAssumption DEF ProgramTypes, Matches
<1>5. reply' \in Replies /\ reply'.match = m /\ reply'.step = "reconcile"
  BY <1>2, <1>3, <1>4 DEF Replies
<1>6. Routed' = Routed
  BY <1>1 DEF Routed
<1>7. GameTypes' /\ ProgramTypes'
  BY <1>1, <1>5, <1>6 DEF GameTypes, ProgramTypes
<1>8. ReplySound'
  BY <1>1, <1>4, <1>5, <1>6 DEF ReplySound
<1> QED
  BY <1>1, <1>6, <1>7, <1>8 DEF EffectSound, EveryMatchAsked, UndecidedSound

LEMMA CachedRosterBasics ==
  ASSUME Basics, CachedRoster
  PROVE  Basics'
<1> USE DEF Basics
<1>1. /\ effect' = effect
      /\ game' = game /\ won' = won /\ published' = published /\ rec' = rec
      /\ asked' = asked /\ calls' = calls /\ jobs' = jobs /\ rows' = rows
      /\ playing' = playing /\ undecided' = undecided /\ reply' = reply
      /\ seen' = rec.cache
      /\ before' = IF playing # 0 /\ before.at = Unknown THEN rec.cache ELSE before
  BY DEF CachedRoster, world, worker, database
<1>2. rec.cache \in Snapshots
  BY DEF ProgramTypes, Reconciler
<1>3. Routed' = Routed
  BY <1>1 DEF Routed
<1>4. GameTypes'
  BY <1>1, <1>2, <1>3 DEF GameTypes
<1> QED
  BY <1>1, <1>3, <1>4 DEF ProgramTypes, EffectSound, ReplySound, EveryMatchAsked, UndecidedSound

LEMMA ReplyFields ==
  ASSUME reply \in {Nothing} \cup Replies, reply # Nothing
  PROVE  /\ reply \in Replies /\ reply.answer \in Answers /\ reply.match \in 0..LastMatch
         /\ reply.kind \in {"roster", "post"} /\ reply.last \in BOOLEAN /\ reply.ok \in BOOLEAN
         /\ reply.step \in {"reconcile", "provisional", "publish"}
         /\ reply = [kind |-> reply.kind, step |-> reply.step, answer |-> reply.answer,
                     match |-> reply.match, last |-> reply.last, ok |-> reply.ok]
  BY DEF Replies

\* What PublishProfile makes of the reconciler.
PublishedCache(r, p) ==
  /\ IsReconciler(p) /\ p.queue = r.queue /\ p.baseline = r.baseline
  /\ p.completed = r.completed /\ p.points = r.points
  /\ \/ p.cache = r.cache /\ p.cacheValid = r.cacheValid
     \/ r.queue = <<>> /\ p.cache = reply.answer /\ p.cacheValid

LEMMA PublishProfileShape ==
  ASSUME Basics, PublishProfile
  PROVE  /\ PublishedCache(rec, rec') /\ Reconciler(rec', Routed) /\ Shown(rec') = Shown(rec)
         /\ \A m : Covered(rec', m) <=> Covered(rec, m)
         /\ reply.answer \in Answers /\ reply.answer \in Snapshots
<1>1. Reconciler(rec, Routed) /\ Routed \in Nat /\ reply \in {Nothing} \cup Replies
  BY RoutedFacts DEF Basics, ProgramTypes
<1>2. reply.answer \in Answers /\ reply.answer \in Snapshots
  BY <1>1, ReplyFields, AnswersAreSnapshots DEF PublishProfile
<1>3. IsReconciler(rec)
  BY <1>1 DEF Reconciler, IsReconciler
<1>4. \/ rec' = rec
      \/ rec.queue = <<>> /\ rec' = [rec EXCEPT !.cache = reply.answer, !.cacheValid = TRUE]
  BY DEF PublishProfile
<1>5. PublishedCache(rec, rec')
  <2>1. CASE rec' = rec
    BY <1>3, <2>1 DEF PublishedCache
  <2>2. CASE rec.queue = <<>> /\ rec' = [rec EXCEPT !.cache = reply.answer, !.cacheValid = TRUE]
    BY <1>3, <2>2 DEF PublishedCache, IsReconciler
  <2> QED
    BY <1>4, <2>1, <2>2
<1>6. rec.cache \in Snapshots /\ rec.cacheValid \in BOOLEAN
  BY <1>1 DEF Reconciler
<1>7. rec'.cache \in Snapshots /\ rec'.cacheValid \in BOOLEAN
  BY <1>2, <1>4, <1>6, <1>3 DEF IsReconciler
<1>8. /\ Reconciler(rec', Routed) /\ Shown(rec') = Shown(rec)
      /\ \A m : Covered(rec', m) <=> Covered(rec, m)
  <2>1. /\ IsReconciler(rec') /\ rec'.queue = rec.queue /\ rec'.baseline = rec.baseline
        /\ rec'.completed = rec.completed /\ rec'.points = rec.points
    BY <1>5 DEF PublishedCache
  <2> QED
    BY <1>1, <1>7, <2>1, CacheKeeps
<1> QED
  BY <1>2, <1>5, <1>8

LEMMA PublishProfileBasics ==
  ASSUME Basics, PublishProfile
  PROVE  Basics'
<1> USE DEF Basics
<1>1. /\ effect' = effect /\ reply # Nothing /\ reply.step = "publish" /\ reply' = Nothing
      /\ game' = game /\ won' = won /\ published' = published
      /\ calls' = calls /\ jobs' = jobs /\ rows' = rows
      /\ playing' = playing /\ undecided' = undecided /\ seen' = reply.answer
      /\ before' = IF reply.kind = "roster" /\ playing # 0 /\ before.at = Unknown
                   THEN reply.answer ELSE before
      /\ asked' = IF reply.kind = "post" THEN asked \ {reply.match} ELSE asked
  BY DEF PublishProfile, world, database
<1>2. /\ PublishedCache(rec, rec') /\ Reconciler(rec', Routed)
      /\ \A m : Covered(rec', m) <=> Covered(rec, m)
      /\ reply.answer \in Snapshots
  BY PublishProfileShape
<1>3. Routed' = Routed
  BY <1>1 DEF Routed
<1>4. GameTypes'
  BY <1>1, <1>2, <1>3 DEF GameTypes
<1>5. ProgramTypes'
  BY <1>1, <1>2, <1>3 DEF ProgramTypes
<1>6. rec'.completed = rec.completed /\ rec'.queue = rec.queue
  BY <1>2 DEF PublishedCache
<1>7. EveryMatchAsked'
  BY <1>1, <1>3, <1>6 DEF EveryMatchAsked, ReplySound
<1>8. EffectSound' /\ ReplySound'
  BY <1>1, <1>3 DEF EffectSound, ReplySound
<1>9. UndecidedSound'
  BY <1>1, <1>2, <1>6 DEF UndecidedSound
<1> QED
  BY <1>4, <1>5, <1>7, <1>8, <1>9

LEMMA CallFields ==
  ASSUME Basics, NEW c \in calls
  PROVE  c.match \in 1..Routed /\ c.won \in BOOLEAN /\ c.match \in Matches
<1>1. c \in [match : 1..Routed, won : BOOLEAN]
  BY DEF Basics, ProgramTypes
<1> QED
  BY <1>1, RoutedFacts DEF Basics, ProgramTypes

LEMMA FinalSave ==
  ASSUME NEW m \in Matches, NEW b \in BOOLEAN, NEW final \in BOOLEAN
  PROVE  LET job == SaveJob(m, b, final) IN
         /\ job \in SaveJobs /\ job \in Jobs /\ job.op = "save" /\ job.match = m
         /\ job.won = b /\ job.pending = ~final /\ job.estimated = FALSE
  BY DEF SaveJob, SaveJobs, Jobs

LEMMA AppendedSet ==
  ASSUME NEW queue \in Seq(Jobs), NEW job \in Jobs
  PROVE  Append(queue, job) \in Seq(Jobs) /\ JobSet(Append(queue, job)) = JobSet(queue) \cup {job}
<1>1. queue \o <<job>> = Append(queue, job)
  BY AppendedJob
<1> QED
  BY <1>1, SingleJob, ConcatJobSet

LEMMA CallBackBasics ==
  ASSUME Basics, CallBack
  PROVE  Basics'
<1> USE DEF Basics
<1>1. PICK c \in calls :
        /\ calls' = calls \ {c}
        /\ undecided' = undecided \ {c.match}
        /\ jobs' = IF c.match \in undecided
                   THEN Append(jobs, SaveJob(c.match, c.won, TRUE)) ELSE jobs
  BY DEF CallBack
<1>2. /\ effect' = effect
      /\ game' = game /\ won' = won /\ published' = published /\ seen' = seen /\ rec' = rec
      /\ asked' = asked /\ reply' = reply /\ rows' = rows
      /\ playing' = playing /\ before' = before
  BY DEF CallBack, world
<1>3. c.match \in 1..Routed /\ c.won \in BOOLEAN /\ c.match \in Matches
  BY CallFields
<1>4. Routed' = Routed
  BY <1>2 DEF Routed
<1>5. GameTypes'
  BY <1>1, <1>2, <1>4 DEF GameTypes
<1>6. jobs' \in Seq(SaveJobs \cup UpdateJobs) /\ \A j \in JobSet(jobs') : j.match <= Routed
  <2> DEFINE job == SaveJob(c.match, c.won, TRUE)
  <2>1. job \in Jobs /\ job.match = c.match
    BY <1>3, FinalSave
  <2> HIDE DEF job
  <2>2. jobs \in Seq(Jobs) /\ \A j \in JobSet(jobs) : j.match <= Routed
    BY DEF ProgramTypes, Jobs
  <2>3. /\ Append(jobs, job) \in Seq(Jobs)
        /\ \A j \in JobSet(Append(jobs, job)) : j.match <= Routed
    BY <1>3, <2>1, <2>2, AppendedSet
  <2> QED
    BY <1>1, <2>2, <2>3 DEF Jobs, job
<1>7. ProgramTypes'
  BY <1>1, <1>2, <1>4, <1>6 DEF ProgramTypes
<1>8. EffectSound'
  <2>1. effect \in EndEffects => effect.match # c.match
    <3> SUFFICES ASSUME effect \in EndEffects
                 PROVE  effect.match # c.match
      OBVIOUS
    <3>1. effect.match = Len(won) /\ Routed + 1 = Len(won) /\ Routed \in Nat
      BY RoutedFacts DEF EffectSound, ProgramTypes
    <3> QED
      BY <1>3, <3>1
  <2> QED
    BY <1>1, <1>2, <1>4, <2>1 DEF EffectSound
<1>9. UndecidedSound'
  BY <1>1, <1>2 DEF UndecidedSound
<1> QED
  BY <1>2, <1>4, <1>5, <1>7, <1>8, <1>9 DEF ReplySound, EveryMatchAsked

LEMMA TailSet ==
  ASSUME NEW queue \in Seq(Jobs), queue # <<>>
  PROVE  /\ Tail(queue) \in Seq(Jobs) /\ JobSet(Tail(queue)) \subseteq JobSet(queue)
         /\ Head(queue) \in JobSet(queue) /\ Head(queue) \in Jobs
         /\ JobSet(queue) = JobSet(Tail(queue)) \cup {Head(queue)}
<1>1. Tail(queue) \in Seq(Jobs) /\ Len(queue) \in Nat /\ Len(queue) > 0
  OBVIOUS
<1>2. \A i \in DOMAIN Tail(queue) : i + 1 \in DOMAIN queue /\ Tail(queue)[i] = queue[i + 1]
  BY <1>1
<1>3. 1 \in DOMAIN queue /\ Head(queue) = queue[1] /\ queue[1] \in Jobs
  BY <1>1
<1>4. ASSUME NEW i \in DOMAIN queue
      PROVE  queue[i] = Head(queue) \/ \E l \in DOMAIN Tail(queue) : queue[i] = Tail(queue)[l]
  <2>1. CASE i = 1
    BY <1>3, <2>1
  <2>2. CASE i # 1
    <3>1. i - 1 \in DOMAIN Tail(queue) /\ Tail(queue)[i - 1] = queue[i]
      BY <1>1, <2>2
    <3> QED
      BY <3>1
  <2> QED
    BY <2>1, <2>2
<1> QED
  BY <1>1, <1>2, <1>3, <1>4 DEF JobSet

LEMMA RunJobFacts ==
  ASSUME Basics, RunJob
  PROVE  /\ RowsTyped(Routed, rows') /\ Ran(Head(jobs), rows')
         /\ jobs # <<>> /\ jobs' = Tail(jobs) /\ Head(jobs) \in JobSet(jobs)
         /\ jobs' \in Seq(Jobs) /\ JobSet(jobs') \subseteq JobSet(jobs)
         /\ JobSet(jobs) = JobSet(jobs') \cup {Head(jobs)}
<1> DEFINE h == Head(jobs)
<1>1. jobs # <<>> /\ rows' = (IF h.op = "save" THEN Saved(h) ELSE Updated(h)) /\ jobs' = Tail(jobs)
  BY DEF RunJob
<1>2. /\ jobs \in Seq(Jobs) /\ RowsTyped(Routed, rows) /\ Routed \in Nat
      /\ \A j \in JobSet(jobs) : j.match <= Routed
  BY RoutedFacts DEF Basics, ProgramTypes, Jobs, RowsTyped
<1>3. /\ h \in Jobs /\ h \in JobSet(jobs) /\ jobs' \in Seq(Jobs)
      /\ JobSet(jobs') \subseteq JobSet(jobs) /\ JobSet(jobs) = JobSet(jobs') \cup {h}
  BY <1>1, <1>2, TailSet
<1>4. h.match <= Routed
  BY <1>2, <1>3
<1> HIDE DEF h
<1>5. RowsTyped(Routed, rows') /\ Ran(h, rows')
  BY <1>1, <1>2, <1>3, <1>4, RunJobShape
<1> QED
  BY <1>1, <1>3, <1>5 DEF h

LEMMA RunJobBasics ==
  ASSUME Basics, RunJob
  PROVE  Basics'
<1> USE DEF Basics
<1>1. /\ effect' = effect
      /\ game' = game /\ won' = won /\ published' = published /\ seen' = seen /\ rec' = rec
      /\ asked' = asked /\ reply' = reply /\ calls' = calls
      /\ playing' = playing /\ before' = before /\ undecided' = undecided
  BY DEF RunJob, world, telemetry, worker
<1>2. Routed' = Routed
  BY <1>1 DEF Routed
<1>3. ProgramTypes'
  BY <1>1, <1>2, RunJobFacts DEF ProgramTypes, RowsTyped, Jobs
<1> QED
  BY <1>1, <1>2, <1>3
     DEF GameTypes, EffectSound, ReplySound, EveryMatchAsked, UndecidedSound

\* The jobs that are added are estimates.
OnlyEstimates(old, new) ==
  /\ new \in Seq(Jobs) /\ JobSet(old) \subseteq JobSet(new)
  /\ \A j \in JobSet(new) \ JobSet(old) : j.op = "update" /\ j.estimated

LEMMA ProvisionalEstimates ==
  ASSUME NEW k \in Nat, NEW r, Reconciler(r, k), NEW match, NEW queue \in Seq(Jobs)
  PROVE  LET new == queue \o ProvisionalUpdate(r, match) IN
         /\ OnlyEstimates(queue, new)
         /\ (\A j \in JobSet(queue) : j.match <= k) => \A j \in JobSet(new) : j.match <= k
<1> DEFINE updates == ProvisionalUpdate(r, match)
           new == queue \o updates
<1>1. /\ updates \in Seq(Jobs)
      /\ \A j \in JobSet(updates) : j.op = "update" /\ j.estimated
      /\ \/ updates = <<>>
         \/ \E job \in Jobs : updates = <<job>> /\ job.match \in 1..k
  BY ProvisionalJob
<1>2. \A j \in JobSet(updates) : j.match <= k
  <2>1. CASE updates = <<>>
    BY <2>1, NoJob
  <2>2. CASE \E job \in Jobs : updates = <<job>> /\ job.match \in 1..k
    BY <2>2, SingleJob
  <2> QED
    BY <1>1, <2>1, <2>2
<1> HIDE DEF updates
<1>3. new \in Seq(Jobs) /\ JobSet(new) = JobSet(queue) \cup JobSet(updates)
  BY <1>1, ConcatJobSet
<1> HIDE DEF new
<1>4. /\ OnlyEstimates(queue, new)
      /\ (\A j \in JobSet(queue) : j.match <= k) => \A j \in JobSet(new) : j.match <= k
  BY <1>1, <1>2, <1>3 DEF OnlyEstimates
<1> QED
  BY <1>4 DEF new, updates

LEMMA ObservedFrom ==
  ASSUME NEW old, NEW new, ObservedQueue(old, new)
  PROVE  FromQueue(old, new)
BY DEF ObservedQueue, ObservedRecord, FromQueue

LEMMA LookupFailsShape ==
  ASSUME Basics, LookupFails
  PROVE  /\ SameBooks(rec, rec', Routed) /\ ObservedQueue(rec.queue, rec'.queue)
         /\ \A i \in DOMAIN rec.queue :
              rec.queue[i].pre.counted => rec'.queue[i].obsCount = rec.queue[i].obsCount
         /\ rec'.baseline = rec.baseline
         /\ OnlyEstimates(jobs, jobs') /\ \A j \in JobSet(jobs') : j.match <= Routed
         /\ \A table : JobsSound(Shown(rec), Routed, jobs, table) =>
                         JobsSound(Shown(rec'), Routed, jobs', table)
         /\ asked' \subseteq asked
         /\ ~game.omninet => asked \subseteq asked' \cup rec'.completed
<1>1. Reconciler(rec, Routed) /\ Routed \in Nat /\ asked \subseteq 1..Routed /\ jobs \in Seq(Jobs)
      /\ \A j \in JobSet(jobs) : j.match <= Routed
  BY RoutedFacts DEF Basics, ProgramTypes, Jobs
<1> PICK m \in asked :
      /\ asked' = asked \ {m}
      /\ \/ game.omninet /\ UNCHANGED <<rec, jobs>>
         \/ /\ rec' = Provisional(rec, m, NoProfile)
            /\ jobs' = jobs \o ProvisionalUpdate(rec, m)
  BY DEF LookupFails
<1>2. CASE game.omninet /\ UNCHANGED <<rec, jobs>>
  <2>1. rec.queue \in Seq(Records)
    BY <1>1 DEF Reconciler
  <2>2. \A i \in DOMAIN rec.queue : rec.queue[i] \in Records
    BY <1>1, RecordsOfReconciler
  <2>3. ObservedQueue(rec.queue, rec'.queue)
    BY <1>2, <2>1, <2>2 DEF ObservedQueue, ObservedRecord
  <2>4. SameBooks(rec, rec', Routed)
    BY <1>1, <1>2 DEF SameBooks
  <2>5. OnlyEstimates(jobs, jobs')
    BY <1>1, <1>2 DEF OnlyEstimates
  <2> QED
    BY <1>1, <1>2, <2>3, <2>4, <2>5
<1>3. CASE /\ rec' = Provisional(rec, m, NoProfile)
           /\ jobs' = jobs \o ProvisionalUpdate(rec, m)
  <2>1. /\ SameBooks(rec, rec', Routed) /\ ObservedQueue(rec.queue, rec'.queue)
        /\ \A i \in DOMAIN rec.queue :
              rec.queue[i].pre.counted => rec'.queue[i].obsCount = rec.queue[i].obsCount
        /\ rec'.baseline = rec.baseline
        /\ IsPending(rec, m) => m \in rec'.completed
    BY <1>1, <1>3, EmptyProfile, ProvisionalKeeps
  <2>2. OnlyEstimates(jobs, jobs') /\ \A j \in JobSet(jobs') : j.match <= Routed
    BY <1>1, <1>3, ProvisionalEstimates
  <2>3. \A table : JobsSound(Shown(rec), Routed, jobs, table) =>
                     JobsSound(Shown(rec'), Routed, jobs', table)
    <3> SUFFICES ASSUME NEW table, JobsSound(Shown(rec), Routed, jobs, table)
                 PROVE  JobsSound(Shown(rec), Routed, jobs', table)
      BY <2>1 DEF SameBooks
    <3> QED
      BY <1>1, <1>3, ProvisionalJobs
  <2>4. m \in rec'.completed
    <3>1. m \in 1..Routed
      BY <1>1
    <3>2. IsPending(rec, m) \/ m \in rec.completed
      BY <1>1, <3>1 DEF Reconciler, Covered
    <3>3. rec.completed \subseteq rec'.completed
      BY <2>1 DEF SameBooks
    <3> QED
      BY <2>1, <3>2, <3>3
  <2> QED
    BY <1>3, <2>1, <2>2, <2>3, <2>4
<1> QED
  BY <1>2, <1>3

\* An operation that leaves the matches that wait and those that are covered as they are.
LEMMA UndecidedKept ==
  ASSUME UndecidedSound, NEW p, FromQueue(rec.queue, p.queue),
         \A m : Covered(p, m) => Covered(rec, m)
  PROVE  /\ \A i \in DOMAIN p.queue :
              p.queue[i].match \in undecided => p.queue[i].kind \in Left /\ ~p.queue[i].dbFinal
         /\ \A m \in undecided : Covered(p, m) => \E c \in calls : c.match = m
<1>1. \A i \in DOMAIN p.queue :
        p.queue[i].match \in undecided => p.queue[i].kind \in Left /\ ~p.queue[i].dbFinal
  BY DEF UndecidedSound, FromQueue
<1> QED
  BY <1>1 DEF UndecidedSound

LEMMA LookupFailsBasics ==
  ASSUME Basics, LookupFails
  PROVE  Basics'
<1> USE DEF Basics
<1>1. /\ effect' = effect /\ reply = Nothing
      /\ game' = game /\ won' = won /\ published' = published /\ seen' = seen
      /\ calls' = calls /\ rows' = rows /\ reply' = reply
      /\ playing' = playing /\ before' = before /\ undecided' = undecided
  BY DEF LookupFails, WorkerFree, world, telemetry
<1>2. Routed' = Routed
  BY <1>1 DEF Routed
<1>3. /\ Reconciler(rec', Routed) /\ FromQueue(rec.queue, rec'.queue)
      /\ \A m : Covered(rec', m) <=> Covered(rec, m)
      /\ rec.completed \subseteq rec'.completed
      /\ jobs' \in Seq(Jobs) /\ \A j \in JobSet(jobs') : j.match <= Routed
      /\ asked' \subseteq asked
      /\ ~game.omninet => asked \subseteq asked' \cup rec'.completed
  BY LookupFailsShape, ObservedFrom DEF SameBooks, OnlyEstimates
<1>4. GameTypes'
  BY <1>1, <1>2 DEF GameTypes
<1>5. ProgramTypes'
  BY <1>1, <1>2, <1>3 DEF ProgramTypes, Jobs
<1>6. EffectSound' /\ ReplySound'
  BY <1>1, <1>2 DEF EffectSound, ReplySound
<1>7. EveryMatchAsked'
  BY <1>1, <1>2, <1>3 DEF EveryMatchAsked
<1>8. UndecidedSound'
  BY <1>1, <1>3, UndecidedKept DEF UndecidedSound
<1> QED
  BY <1>4, <1>5, <1>6, <1>7, <1>8

-----------------------------------------------------------------------------
\* Routing what has ended.

LEMMA LateShape ==
  ASSUME Basics, Route, effect \in LateEffects
  PROVE  /\ effect' = Nothing /\ Routed' = Routed /\ asked' = asked
         /\ rec' = Resolve(rec, effect.match, effect.won)
         /\ \E job \in SaveJobs :
              /\ job.match = effect.match /\ job.won = effect.won /\ ~job.pending /\ job.op = "save"
              /\ jobs' = Append(jobs, job)
              /\ jobs' \in Seq(Jobs) /\ JobSet(jobs') = JobSet(jobs) \cup {job}
<1>1. effect.kind = "late" /\ effect.match \in Matches /\ effect.won \in BOOLEAN
  BY LateFields
<1>2. /\ effect' = Nothing /\ asked' = asked /\ won' = won
      /\ rec' = Resolve(rec, effect.match, effect.won)
      /\ jobs' = jobs \o RouteSaves(effect)
  BY <1>1 DEF Route, world
<1>3. Routed' = Routed
  <2>1. effect \notin EndEffects
    BY LateFields
  <2>2. Routed = Len(won)
    BY <2>1, RoutedFacts DEF Basics, ProgramTypes
  <2>3. Routed' = Len(won')
    BY <1>2, NothingIsNone DEF Routed
  <2> QED
    BY <1>2, <2>2, <2>3
<1> DEFINE job == SaveJob(effect.match, effect.won, TRUE)
<1>4. /\ job \in SaveJobs /\ job \in Jobs /\ job.op = "save" /\ job.match = effect.match
      /\ job.won = effect.won /\ job.pending = FALSE
  BY <1>1, FinalSave
<1>5. RouteSaves(effect) = <<job>>
  <2>1. effect.kind # "tied" /\ effect.kind \notin Left
    BY <1>1 DEF Left
  <2> HIDE DEF job
  <2>2. RouteSaves(effect) = CASE effect.kind = "tied" -> <<>>
          [] effect.kind = "late" -> <<job>>
          [] effect.kind \in Left \ {"tied"} ->
               <<[SaveJob(effect.match, effect.kind = "lead", FALSE) EXCEPT !.estimated = TRUE]>>
          [] OTHER -> <<[SaveJob(effect.match, effect.won, TRUE) EXCEPT !.estimated = TRUE]>>
    BY DEF RouteSaves, job
  <2> QED
    BY <1>1, <2>1, <2>2
<1> HIDE DEF job
<1>6. jobs \in Seq(Jobs)
  BY DEF Basics, ProgramTypes, Jobs
<1>7. jobs' = Append(jobs, job)
  BY <1>2, <1>4, <1>5, <1>6, AppendedJob
<1> QED
  BY <1>2, <1>3, <1>4, <1>6, <1>7, AppendedSet

NewRecord == Record(effect.match, effect.kind, effect.won, effect.pre)

LEMMA NewRecordFields ==
  ASSUME Basics, effect \in EndEffects
  PROVE  /\ NewRecord \in Records /\ NewRecord.match = effect.match /\ NewRecord.match = Routed + 1
         /\ NewRecord.kind = effect.kind /\ NewRecord.pre = effect.pre
         /\ NewRecord.obsCount = Unknown /\ NewRecord.point = FALSE /\ NewRecord.dbFinal = FALSE
         /\ NewRecord.known = (effect.kind \notin Left)
         /\ effect.kind \notin Left => NewRecord.won = effect.won
<1>1. effect.kind \in AllKinds /\ effect.match \in Matches /\ effect.won \in BOOLEAN
      /\ effect.pre \in Snapshots
  BY EffectFields
<1>2. effect.match = Len(won) /\ Routed + 1 = Len(won)
  BY RoutedFacts DEF Basics, EffectSound, ProgramTypes
<1> DEFINE known == effect.kind \notin Left
           w == known /\ effect.won
<1> HIDE DEF known, w
<1>3. NewRecord = [match |-> effect.match, kind |-> effect.kind, pre |-> effect.pre,
                   obsAt |-> Unknown, obsCount |-> Unknown, known |-> known, won |-> w,
                   dbFinal |-> FALSE, point |-> FALSE]
  BY DEF NewRecord, Record, known, w
<1>4. known \in BOOLEAN /\ w \in BOOLEAN
  BY <1>1 DEF known, w
<1>5. Unknown \in Unknown..LastMatch /\ Unknown \in Nat \cup {Unknown}
  BY PostMatchAssumption DEF Unknown
<1>6. NewRecord \in Records
  <2> HIDE DEF NewRecord
  <2> QED
    BY <1>1, <1>3, <1>4, <1>5 DEF Records
<1>7. known => (w <=> effect.won)
  BY DEF w
<1> QED
  BY <1>1, <1>2, <1>3, <1>6, <1>7 DEF known, w

FirstSave == IF effect.kind \in Left
             THEN [SaveJob(effect.match, effect.kind = "lead", FALSE) EXCEPT !.estimated = TRUE]
             ELSE [SaveJob(effect.match, effect.won, TRUE) EXCEPT !.estimated = TRUE]

LEMMA FirstSaveFields ==
  ASSUME effect \in EndEffects
  PROVE  /\ FirstSave \in SaveJobs /\ FirstSave \in Jobs /\ FirstSave.op = "save"
         /\ FirstSave.match = effect.match /\ FirstSave.estimated = TRUE
         /\ FirstSave.pending = (effect.kind \in Left)
         /\ effect.kind \notin Left => FirstSave.won = effect.won
<1>1. effect.kind \in AllKinds /\ effect.match \in Matches /\ effect.won \in BOOLEAN
  BY EffectFields
<1>2. CASE effect.kind \in Left
  <2> DEFINE lead == effect.kind = "lead"
  <2> HIDE DEF lead
  <2>1. FirstSave = [op |-> "save", match |-> effect.match, won |-> lead, pending |-> TRUE,
                     estimated |-> TRUE]
    BY <1>2 DEF FirstSave, SaveJob, lead
  <2>2. lead \in BOOLEAN
    BY DEF lead
  <2> QED
    BY <1>1, <1>2, <2>1, <2>2 DEF SaveJobs, Jobs
<1>3. CASE effect.kind \notin Left
  <2>1. FirstSave = [op |-> "save", match |-> effect.match, won |-> effect.won,
                     pending |-> FALSE, estimated |-> TRUE]
    BY <1>3 DEF FirstSave, SaveJob
  <2>2. /\ FirstSave \in SaveJobs /\ FirstSave.op = "save" /\ FirstSave.match = effect.match
        /\ FirstSave.estimated = TRUE /\ FirstSave.pending = FALSE
        /\ FirstSave.won = effect.won
    BY <1>1, <2>1 DEF SaveJobs
  <2>3. (effect.kind \in Left) = FALSE
    BY <1>3
  <2> QED
    BY <2>2, <2>3 DEF Jobs
<1> QED
  BY <1>2, <1>3

LEMMA EndSaves ==
  ASSUME effect \in EndEffects
  PROVE  RouteSaves(effect) = IF effect.kind = "tied" THEN <<>> ELSE <<FirstSave>>
<1>1. effect.kind # "late"
  BY EffectFields
<1>2. "tied" \in Left
  BY DEF Left
<1> DEFINE left == [SaveJob(effect.match, effect.kind = "lead", FALSE) EXCEPT !.estimated = TRUE]
           over == [SaveJob(effect.match, effect.won, TRUE) EXCEPT !.estimated = TRUE]
           late == SaveJob(effect.match, effect.won, TRUE)
<1> HIDE DEF left, over, late
<1>3. RouteSaves(effect) = CASE effect.kind = "tied" -> <<>>
          [] effect.kind = "late" -> <<late>>
          [] effect.kind \in Left \ {"tied"} -> <<left>>
          [] OTHER -> <<over>>
  BY DEF RouteSaves, left, over, late
<1>4. FirstSave = IF effect.kind \in Left THEN left ELSE over
  BY DEF FirstSave, left, over
<1> QED
  BY <1>1, <1>2, <1>3, <1>4

\* The reconciler and the jobs after a match that has ended is routed.
RoutedEnd ==
  /\ Reconciler(rec', Routed + 1)
  /\ \A m : Covered(rec', m) <=> Covered(rec, m)
  /\ Shown(rec') = Shown(rec)
  /\ rec.completed \subseteq rec'.completed
  /\ ~rec'.cacheValid /\ rec'.cache = rec.cache
  /\ ObservedQueue(Append(rec.queue, NewRecord), rec'.queue)
  /\ \A i \in DOMAIN rec'.queue :
       Append(rec.queue, NewRecord)[i].pre.counted =>
         rec'.queue[i].obsCount = Append(rec.queue, NewRecord)[i].obsCount
  /\ \/ rec'.baseline = rec.baseline
     \/ /\ rec.queue = <<>> /\ CountOf(effect.pre) # Unknown
        /\ CountOf(effect.pre) < rec.baseline - 1

RoutedJobs ==
  /\ jobs' \in Seq(Jobs) /\ JobSet(jobs) \subseteq JobSet(jobs')
  /\ \A j \in JobSet(jobs') \ JobSet(jobs) :
       /\ j.estimated /\ j.match <= Routed + 1
       /\ j.op = "save" => j = FirstSave
  /\ effect.kind # "tied" =>
       /\ FirstSave \in JobSet(jobs')
       /\ \A table : JobsSound(Shown(rec), Routed, jobs, table) /\ DOMAIN table \subseteq 1..Routed =>
            JobsSound(Shown(rec'), Routed + 1, jobs', table)

LEMMA EndShape ==
  ASSUME Basics, Route, effect \in EndEffects
  PROVE  /\ effect' = Nothing /\ Routed' = Routed + 1 /\ asked' = asked \cup {effect.match}
         /\ RoutedEnd /\ RoutedJobs
<1> DEFINE r == EnqueueRecord(rec, NewRecord)
           atOnce == effect.kind \in Left \cup {"conceded"}
           updates == IF atOnce THEN ProvisionalUpdate(r, effect.match) ELSE <<>>
           saves == RouteSaves(effect)
           k == Routed + 1
<1>1. /\ effect.kind \in AllKinds /\ effect.match \in Matches /\ effect.kind # "late"
      /\ effect.pre \in Snapshots
  BY EffectFields
<1>2. /\ effect' = Nothing /\ asked' = asked \cup {effect.match} /\ won' = won
      /\ rec' = IF atOnce THEN Provisional(r, effect.match, effect.pre) ELSE r
      /\ jobs' = (jobs \o saves) \o updates
  <2>1. /\ effect' = Nothing /\ won' = won
        /\ IF effect.kind = "late" THEN TRUE
           ELSE /\ rec' = IF atOnce THEN Provisional(r, effect.match, effect.pre) ELSE r
                /\ jobs' = jobs \o saves \o updates
                /\ asked' = asked \cup {effect.match}
    BY DEF Route, world, NewRecord
  <2> QED
    BY <1>1, <2>1
<1>3. /\ Reconciler(rec, Routed) /\ Routed \in Nat /\ Routed + 1 = Len(won) /\ k \in Nat
      /\ jobs \in Seq(Jobs) /\ \A j \in JobSet(jobs) : j.match <= Routed
  BY RoutedFacts DEF Basics, ProgramTypes, Jobs
<1>4. Routed' = Routed + 1
  <2>1. Routed' = Len(won')
    BY <1>2, NothingIsNone DEF Routed
  <2> QED
    BY <1>2, <1>3, <2>1
<1>5. /\ Reconciler(r, k)
      /\ \A m : Covered(r, m) <=> Covered(rec, m)
      /\ Shown(r) = Shown(rec)
      /\ r.queue = Append(rec.queue, NewRecord)
      /\ r.completed = rec.completed /\ r.cache = rec.cache /\ ~r.cacheValid
      /\ \/ r.baseline = rec.baseline
         \/ /\ rec.queue = <<>> /\ CountOf(effect.pre) # Unknown
            /\ CountOf(effect.pre) < rec.baseline - 1
  <2>1. /\ NewRecord \in Records /\ NewRecord.match = Routed + 1 /\ ~NewRecord.point
        /\ NewRecord.kind \notin Left => NewRecord.known
        /\ NewRecord.pre = effect.pre
    BY NewRecordFields
  <2> QED
    BY <1>3, <2>1, EnqueueKeeps
<1> HIDE DEF r, saves, k
<1>6. RoutedEnd
  <2>1. CASE atOnce
    <3> DEFINE p == Provisional(r, effect.match, effect.pre)
    <3>0. p = Provisional(r, effect.match, effect.pre)
      OBVIOUS
    <3> HIDE DEF p
    <3>1. /\ SameBooks(r, p, k)
          /\ ObservedQueue(r.queue, p.queue)
          /\ \A i \in DOMAIN r.queue :
               r.queue[i].pre.counted => p.queue[i].obsCount = r.queue[i].obsCount
          /\ p.baseline = r.baseline
      <4>1. Reconciler(r, k) /\ k \in Nat /\ effect.pre \in Snapshots
        BY <1>1, <1>3, <1>5
      <4> HIDE DEF k
      <4> QED
        BY <3>0, <4>1, ProvisionalKeeps
    <3>2. rec' = p
      BY <1>2, <2>1, <3>0
    <3>3. DOMAIN p.queue = DOMAIN r.queue
      BY <3>1 DEF ObservedQueue
    <3>4. /\ Reconciler(p, k) /\ Shown(p) = Shown(r)
          /\ \A m : Covered(p, m) <=> Covered(r, m)
          /\ r.completed \subseteq p.completed
          /\ p.cache = r.cache /\ p.cacheValid = r.cacheValid
      BY <3>1 DEF SameBooks
    <3> QED
      BY <1>5, <3>1, <3>2, <3>3, <3>4 DEF RoutedEnd, k
  <2>2. CASE ~atOnce
    <3>1. rec' = r
      BY <1>2, <2>2
    <3>2. r.queue \in Seq(Records) /\ \A i \in DOMAIN r.queue : r.queue[i] \in Records
      BY <1>3, <1>5, RecordsOfReconciler DEF Reconciler
    <3>3. ObservedQueue(r.queue, r.queue)
      BY <3>2 DEF ObservedQueue, ObservedRecord
    <3> QED
      BY <1>5, <3>1, <3>3 DEF RoutedEnd, k
  <2> QED
    BY <2>1, <2>2
<1>7. /\ FirstSave \in SaveJobs /\ FirstSave \in Jobs /\ FirstSave.match = k
      /\ FirstSave.estimated /\ FirstSave.op = "save"
      /\ saves = IF effect.kind = "tied" THEN <<>> ELSE <<FirstSave>>
  BY FirstSaveFields, NewRecordFields, EndSaves DEF k, saves
<1>8. /\ jobs \o saves \in Seq(Jobs)
      /\ JobSet(jobs \o saves) = IF effect.kind = "tied" THEN JobSet(jobs)
                                 ELSE JobSet(jobs) \cup {FirstSave}
      /\ effect.kind # "tied" => jobs \o saves = Append(jobs, FirstSave)
  <2>1. CASE effect.kind = "tied"
    <3>1. jobs \o saves = jobs
      BY <1>3, <1>7, <2>1, ConcatEmptySeq
    <3> QED
      BY <1>3, <2>1, <3>1
  <2>2. CASE effect.kind # "tied"
    <3>1. jobs \o saves = Append(jobs, FirstSave)
      BY <1>3, <1>7, <2>2, AppendedJob
    <3> QED
      BY <1>3, <1>7, <2>2, <3>1, AppendedSet
  <2> QED
    BY <2>1, <2>2
<1> DEFINE saved == jobs \o saves
<1> HIDE DEF saved
<1>9. \A j \in JobSet(saved) : j.match <= k
  <2>1. JobSet(saved) \subseteq JobSet(jobs) \cup {FirstSave}
    BY <1>8 DEF saved
  <2>2. \A j \in JobSet(jobs) : j \in Jobs /\ j.match \in Nat /\ j.match <= Routed
    <3>1. \A j \in JobSet(jobs) : j \in Jobs
      BY <1>3, ElementOfSeq DEF JobSet
    <3> QED
      BY <1>3, <3>1, JobFields, PostMatchAssumption DEF Matches
  <2>3. \A j \in JobSet(jobs) : j.match <= k
    BY <1>3, <2>2 DEF k
  <2>4. FirstSave.match <= k
    BY <1>3, <1>7
  <2> QED
    BY <2>1, <2>3, <2>4
<1>10. OnlyEstimates(saved, jobs') /\ \A j \in JobSet(jobs') : j.match <= k
  <2>1. CASE atOnce
    <3>1. jobs' = saved \o ProvisionalUpdate(r, effect.match)
      BY <1>2, <2>1 DEF saved
    <3> QED
      BY <1>3, <1>5, <1>8, <1>9, <3>1, ProvisionalEstimates DEF saved
  <2>2. CASE ~atOnce
    <3>1. jobs' = saved
      BY <1>2, <1>8, <2>2, ConcatEmptySeq DEF saved
    <3>2. OnlyEstimates(saved, saved)
      BY <1>8 DEF OnlyEstimates, saved
    <3> QED
      BY <1>9, <3>1, <3>2
  <2> QED
    BY <2>1, <2>2
<1>11. ASSUME effect.kind # "tied", NEW table, JobsSound(Shown(rec), Routed, jobs, table),
              DOMAIN table \subseteq 1..Routed
       PROVE  JobsSound(Shown(rec'), k, jobs', table)
  <2>1. JobsSound(Shown(rec), k, saved, table)
    <3> DEFINE shown == Shown(rec)
    <3>1. JobsSound(shown, Routed, jobs, table)
      BY <1>11
    <3> HIDE DEF shown
    <3>2. FirstSave \in SaveJobs /\ FirstSave.match = Routed + 1 /\ FirstSave.estimated
      BY <1>7 DEF k
    <3>3. JobsSound(shown, Routed + 1, Append(jobs, FirstSave), table)
      BY <1>3, <1>11, <3>1, <3>2, JobsSoundFirst
    <3> QED
      BY <1>8, <1>11, <3>3 DEF shown, saved, k
  <2>2. Shown(rec') = Shown(rec)
    BY <1>6 DEF RoutedEnd
  <2>3. CASE atOnce
    <3>1. jobs' = saved \o ProvisionalUpdate(r, effect.match)
      BY <1>2, <2>3 DEF saved
    <3>2. JobsSound(Shown(r), k, saved, table) /\ saved \in Seq(Jobs)
      BY <1>5, <1>8, <2>1 DEF saved
    <3>3. JobsSound(Shown(r), k, saved \o ProvisionalUpdate(r, effect.match), table)
      BY <1>3, <1>5, <3>2, ProvisionalJobs
    <3> QED
      BY <1>5, <2>2, <3>1, <3>3
  <2>4. CASE ~atOnce
    <3>1. jobs' = saved
      BY <1>2, <1>8, <2>4, ConcatEmptySeq DEF saved
    <3> QED
      BY <2>1, <2>2, <3>1
  <2> QED
    BY <2>3, <2>4
<1>12. RoutedJobs
  <2>1. jobs' \in Seq(Jobs) /\ JobSet(jobs) \subseteq JobSet(saved)
        /\ JobSet(saved) \subseteq JobSet(jobs') /\ JobSet(saved) \subseteq JobSet(jobs) \cup {FirstSave}
    BY <1>8, <1>10 DEF OnlyEstimates, saved
  <2>2. \A j \in JobSet(jobs') \ JobSet(saved) : j.op = "update" /\ j.estimated
    BY <1>10 DEF OnlyEstimates
  <2>3. \A j \in JobSet(jobs') \ JobSet(jobs) :
          j.estimated /\ j.match <= Routed + 1 /\ (j.op = "save" => j = FirstSave)
    BY <1>7, <1>10, <2>1, <2>2 DEF k
  <2>4. effect.kind # "tied" => FirstSave \in JobSet(jobs')
    BY <1>8, <2>1 DEF saved
  <2> QED
    BY <1>11, <2>1, <2>3, <2>4 DEF RoutedJobs, k
<1> QED
  BY <1>2, <1>4, <1>6, <1>12

LEMMA RouteBasics ==
  ASSUME Basics, Route
  PROVE  Basics'
<1> USE DEF Basics
<1>1. /\ effect # Nothing /\ effect' = Nothing
      /\ game' = game /\ won' = won /\ published' = published /\ seen' = seen
      /\ calls' = calls /\ rows' = rows /\ reply' = reply
      /\ playing' = playing /\ before' = before /\ undecided' = undecided
  BY DEF Route, world
<1>2. effect' \notin EndEffects /\ effect' \notin LateEffects
  BY <1>1, NothingIsNone
<1>3. Reconciler(rec, Routed) /\ Routed \in Nat /\ calls \subseteq [match : 1..Routed, won : BOOLEAN]
      /\ asked \subseteq 1..Routed /\ DOMAIN rows \subseteq 1..Routed /\ published \in 0..Routed
  BY RoutedFacts DEF ProgramTypes, GameTypes
<1>4. EffectSound'
  BY <1>1, <1>2 DEF EffectSound
<1>5. CASE effect \in LateEffects
  <2>1. /\ Routed' = Routed /\ asked' = asked
        /\ rec' = Resolve(rec, effect.match, effect.won)
        /\ \E job \in SaveJobs :
              /\ job.match = effect.match
              /\ jobs' \in Seq(Jobs) /\ JobSet(jobs') = JobSet(jobs) \cup {job}
    BY <1>5, LateShape
  <2>2. effect.match \in (1..Routed) \ undecided /\ effect.won \in BOOLEAN
    BY <1>5, LateFields DEF EffectSound
  <2>3. /\ SameBooks(rec, rec', Routed) /\ DOMAIN rec'.queue = DOMAIN rec.queue
        /\ \A i \in DOMAIN rec.queue :
              /\ rec'.queue[i].match = rec.queue[i].match /\ rec'.queue[i].kind = rec.queue[i].kind
              /\ rec.queue[i].match # effect.match => rec'.queue[i] = rec.queue[i]
    <3>1. Reconciler(rec, Routed) /\ Routed \in Nat /\ effect.won \in BOOLEAN
          /\ rec' = Resolve(rec, effect.match, effect.won)
      BY <1>3, <2>1, <2>2
    <3> HIDE DEF Basics
    <3> QED
      BY <3>1, ResolveKeeps
  <2>4. /\ Reconciler(rec', Routed) /\ \A m : Covered(rec', m) <=> Covered(rec, m)
        /\ rec.completed \subseteq rec'.completed
    BY <2>3 DEF SameBooks
  <2>5. jobs' \in Seq(Jobs) /\ \A j \in JobSet(jobs') : j.match <= Routed
    BY <1>3, <2>1, <2>2 DEF ProgramTypes
  <2>6. GameTypes' /\ ProgramTypes'
    BY <1>1, <2>1, <2>4, <2>5 DEF GameTypes, ProgramTypes, Jobs
  <2>7. ReplySound' /\ EveryMatchAsked'
    BY <1>1, <2>1, <2>4 DEF ReplySound, EveryMatchAsked
  <2>8. UndecidedSound'
    <3>1. \A i \in DOMAIN rec'.queue :
            rec'.queue[i].match \in undecided => rec'.queue[i] = rec.queue[i] /\ i \in DOMAIN rec.queue
      BY <2>2, <2>3
    <3> QED
      BY <1>1, <2>4, <3>1 DEF UndecidedSound
  <2> QED
    BY <1>4, <2>6, <2>7, <2>8
<1>6. CASE effect \in EndEffects
  <2>1. Routed' = Routed + 1 /\ asked' = asked \cup {effect.match} /\ RoutedEnd /\ RoutedJobs
    BY <1>6, EndShape
  <2>2. /\ effect.match = Routed + 1 /\ Routed + 1 = Len(won)
        /\ effect.match \in undecided <=> effect.kind \in Left
        /\ NewRecord.match = effect.match /\ NewRecord.kind = effect.kind
        /\ NewRecord.dbFinal = FALSE /\ NewRecord \in Records
    BY <1>6, NewRecordFields, RoutedFacts DEF EffectSound, ProgramTypes
  <2>3. /\ Reconciler(rec', Routed + 1)
        /\ \A m : Covered(rec', m) <=> Covered(rec, m)
        /\ rec.completed \subseteq rec'.completed
        /\ ObservedQueue(Append(rec.queue, NewRecord), rec'.queue)
    BY <2>1 DEF RoutedEnd
  <2>4. \A m \in 1..Routed : m \in 1..(Routed + 1)
    BY <1>3
  <2>5. jobs' \in Seq(Jobs) /\ \A j \in JobSet(jobs') : j.match <= Routed + 1
    <3>1. \A j \in JobSet(jobs) : j \in Jobs /\ j.match \in Nat /\ j.match <= Routed
      <4>1. \A j \in JobSet(jobs) : j \in Jobs
        BY ElementOfSeq DEF JobSet, ProgramTypes, Jobs
      <4> QED
        BY <4>1, JobFields, PostMatchAssumption DEF Matches, ProgramTypes
    <3>2. \A j \in JobSet(jobs) : j.match <= Routed + 1
      BY <1>3, <3>1
    <3> QED
      BY <2>1, <3>2 DEF RoutedJobs
  <2>6. GameTypes'
    <3>1. published \in 0..(Routed + 1)
      BY <1>3
    <3> QED
      BY <1>1, <2>1, <3>1 DEF GameTypes
  <2>7. ProgramTypes'
    <3>1. asked' \subseteq 1..Routed'
      BY <1>3, <2>1, <2>2, <2>4
    <3>2. calls' \subseteq [match : 1..Routed', won : BOOLEAN]
      <4> SUFFICES ASSUME NEW c \in calls PROVE c \in [match : 1..(Routed + 1), won : BOOLEAN]
        BY <1>1, <2>1
      <4>1. c \in [match : 1..Routed, won : BOOLEAN]
        BY <1>3
      <4> QED
        BY <2>4, <4>1
    <3>3. DOMAIN rows' \subseteq 1..Routed'
      BY <1>1, <1>3, <2>1, <2>4
    <3> QED
      BY <1>1, <2>1, <2>3, <2>5, <3>1, <3>2, <3>3 DEF ProgramTypes, Jobs
  <2>8. ReplySound'
    BY <1>1, <2>1, <2>3, <2>4 DEF ReplySound
  <2>9. EveryMatchAsked'
    <3>1. \A m \in 1..(Routed + 1) : m \in 1..Routed \/ m = effect.match
      BY <1>3, <2>2
    <3> QED
      BY <1>1, <2>1, <2>3, <3>1 DEF EveryMatchAsked
  <2>10. UndecidedSound'
    <3> DEFINE longer == Append(rec.queue, NewRecord)
    <3>1. FromQueue(longer, rec'.queue)
      BY <2>3, ObservedFrom
    <3>2. \A i \in DOMAIN longer : longer[i] = NewRecord \/ \E j \in DOMAIN rec.queue : longer[i] = rec.queue[j]
      <4>1. rec.queue \in Seq(Records)
        BY <1>3 DEF Reconciler
      <4> QED
        BY <2>2, <4>1, AppendProperties
    <3> HIDE DEF longer
    <3>3. \A i \in DOMAIN rec'.queue :
            rec'.queue[i].match \in undecided => rec'.queue[i].kind \in Left /\ ~rec'.queue[i].dbFinal
      <4> SUFFICES ASSUME NEW i \in DOMAIN rec'.queue, rec'.queue[i].match \in undecided
                   PROVE  rec'.queue[i].kind \in Left /\ ~rec'.queue[i].dbFinal
        OBVIOUS
      <4> PICK l \in DOMAIN longer : /\ rec'.queue[i].match = longer[l].match
                                     /\ rec'.queue[i].kind = longer[l].kind
                                     /\ rec'.queue[i].dbFinal = longer[l].dbFinal
        BY <3>1 DEF FromQueue
      <4> QED
        BY <2>2, <3>2 DEF UndecidedSound
    <3> QED
      BY <1>1, <2>3, <3>3 DEF UndecidedSound
  <2> QED
    BY <1>4, <2>6, <2>7, <2>8, <2>9, <2>10
<1> QED
  BY <1>1, <1>5, <1>6 DEF ProgramTypes

-----------------------------------------------------------------------------
\* Handling an answer.

\* An answer about a match that waits no longer.
Quiet ==
  /\ rec' = rec /\ jobs' = jobs /\ calls' = calls /\ before' = before
  /\ reply' \in Replies /\ reply'.kind = reply.kind /\ reply'.match = reply.match
  /\ reply'.answer = reply.answer /\ reply'.step = "publish"
  /\ reply.kind = "post" => reply.match \in rec.completed

\* What an answer about a match that waits does to the reconciler, the jobs and the reply.
ActiveRec(out) ==
  /\ Reconciler(rec', Routed) /\ Shown(rec') = Shown(out.rec)
  /\ \A m : Covered(rec', m) <=> Covered(out.rec, m)
  /\ out.rec.completed \subseteq rec'.completed
  /\ ObservedQueue(out.rec.queue, rec'.queue)
  /\ \A i \in DOMAIN out.rec.queue :
       out.rec.queue[i].pre.counted => rec'.queue[i].obsCount = out.rec.queue[i].obsCount
  /\ rec'.baseline = out.rec.baseline /\ rec'.cacheValid = rec.cacheValid
  /\ rec'.cache = IF out.updates = <<>> THEN rec.cache ELSE CacheAfter(out, reply.answer)

ActiveJobs(out) ==
  /\ OnlyEstimates(jobs \o out.updates, jobs')
  /\ \A j \in JobSet(jobs') : j.match <= Routed
  /\ \A table : JobsSound(Shown(rec), Routed, jobs, table) /\ DOMAIN table \subseteq 1..Routed =>
                  JobsSound(Shown(rec'), Routed, jobs', table)

ActiveReply(out) ==
  \/ reply' = Nothing /\ ~out.ok
  \/ /\ reply' \in Replies /\ reply'.kind = reply.kind /\ reply'.match = reply.match
     /\ out.ok => reply'.step = "publish"
     /\ reply'.answer = reply.answer
     /\ reply'.step = "publish" /\ reply.kind = "post" => reply.match \in rec'.completed

Active(out) ==
  /\ IsPending(rec, Target) /\ out = Reconcile(rec, Target, reply.answer)
  /\ OutcomeSound(rec, Routed, Target, out)
  /\ ActiveRec(out) /\ ActiveJobs(out) /\ ActiveReply(out)
  /\ calls' = out.calls /\ before' = SnapshotAfter(out, reply.answer)

LEMMA CacheAfterSnapshot ==
  ASSUME NEW out, out.rec.cache \in Snapshots, NEW answer \in Answers
  PROVE  /\ CacheAfter(out, answer) \in Snapshots
         /\ answer.counted => CacheAfter(out, answer) \in {answer, out.rec.cache}
         /\ answer.counted /\ out.rec.cache.at # Unknown => CacheAfter(out, answer) = answer
<1> DEFINE c == out.rec.cache
<1>1. CacheAfter(out, answer) = IF c.at = Unknown THEN c
        ELSE IF answer.counted THEN answer ELSE [c EXCEPT !.counted = FALSE]
  BY DEF CacheAfter
<1>2. c \in Snapshots /\ answer \in Snapshots
  BY AnswersAreSnapshots
<1> HIDE DEF c
<1>3. [c EXCEPT !.counted = FALSE] \in Snapshots
  BY <1>2 DEF Snapshots
<1> QED
  BY <1>1, <1>2, <1>3 DEF c

\* The estimate after an answer that did not confirm the match.
Estimated(r, match, answer, queue, p, after) ==
  p = Provisional(r, match, answer) /\ after = queue \o ProvisionalUpdate(r, match)

LEMMA ProvisionalStep ==
  ASSUME NEW k \in Nat, NEW r, Reconciler(r, k), NEW match, NEW answer \in Snapshots,
         NEW queue \in Seq(Jobs), \A j \in JobSet(queue) : j.match <= k, NEW p, NEW after,
         Estimated(r, match, answer, queue, p, after) \/ (p = r /\ after = queue)
  PROVE  /\ SameBooks(r, p, k) /\ ObservedQueue(r.queue, p.queue)
         /\ \A i \in DOMAIN r.queue :
              r.queue[i].pre.counted => p.queue[i].obsCount = r.queue[i].obsCount
         /\ p.baseline = r.baseline
         /\ Estimated(r, match, answer, queue, p, after) /\ IsPending(r, match) =>
              match \in p.completed
         /\ OnlyEstimates(queue, after) /\ \A j \in JobSet(after) : j.match <= k
         /\ \A table : JobsSound(Shown(r), k, queue, table) => JobsSound(Shown(p), k, after, table)
<1>1. CASE Estimated(r, match, answer, queue, p, after)
  <2>1. p = Provisional(r, match, answer) /\ after = queue \o ProvisionalUpdate(r, match)
    BY <1>1 DEF Estimated
  <2>2. /\ SameBooks(r, p, k) /\ ObservedQueue(r.queue, p.queue)
        /\ \A i \in DOMAIN r.queue :
              r.queue[i].pre.counted => p.queue[i].obsCount = r.queue[i].obsCount
        /\ p.baseline = r.baseline
        /\ IsPending(r, match) => match \in p.completed
    BY <2>1, ProvisionalKeeps
  <2>3. OnlyEstimates(queue, after) /\ \A j \in JobSet(after) : j.match <= k
    BY <2>1, ProvisionalEstimates
  <2>4. \A table : JobsSound(Shown(r), k, queue, table) => JobsSound(Shown(p), k, after, table)
    <3> SUFFICES ASSUME NEW table, JobsSound(Shown(r), k, queue, table)
                 PROVE  JobsSound(Shown(r), k, after, table)
      BY <2>2 DEF SameBooks
    <3> QED
      BY <2>1, ProvisionalJobs
  <2> QED
    BY <2>2, <2>3, <2>4
<1>2. CASE ~Estimated(r, match, answer, queue, p, after)
  <2>1. p = r /\ after = queue
    BY <1>2
  <2>2. r.queue \in Seq(Records) /\ \A i \in DOMAIN r.queue : r.queue[i] \in Records
    BY RecordsOfReconciler DEF Reconciler
  <2>3. ObservedQueue(r.queue, p.queue)
    BY <2>1, <2>2 DEF ObservedQueue, ObservedRecord
  <2>4. SameBooks(r, p, k)
    BY <2>1 DEF SameBooks
  <2>5. OnlyEstimates(queue, after)
    BY <2>1 DEF OnlyEstimates
  <2> QED
    BY <1>2, <2>1, <2>3, <2>4, <2>5
<1> QED
  BY <1>1, <1>2

LEMMA ReplyStep ==
  ASSUME reply \in Replies, NEW step \in {"reconcile", "provisional", "publish"},
         NEW ok \in BOOLEAN, NEW new, new = [reply EXCEPT !.step = step, !.ok = ok]
  PROVE  /\ new \in Replies /\ new.kind = reply.kind /\ new.match = reply.match
         /\ new.answer = reply.answer /\ new.step = step
  BY DEF Replies

LEMMA ReplyStepOnly ==
  ASSUME reply \in Replies, NEW step \in {"reconcile", "provisional", "publish"},
         NEW new, new = [reply EXCEPT !.step = step]
  PROVE  /\ new \in Replies /\ new.kind = reply.kind /\ new.match = reply.match
         /\ new.answer = reply.answer /\ new.step = step
  BY DEF Replies

LEMMA TargetFacts ==
  ASSUME Basics, reply # Nothing
  PROVE  /\ reply.kind = "post" => Target = reply.match
         /\ Target # 0 /\ ~IsPending(rec, Target) => reply.kind = "post"
<1>1. CASE reply.kind = "post"
  BY <1>1 DEF Target
<1>2. CASE reply.kind # "post" /\ rec.queue = <<>>
  BY <1>2 DEF Target
<1>3. CASE reply.kind # "post" /\ rec.queue # <<>>
  <2>1. rec.queue \in Seq(Records)
    BY DEF Basics, ProgramTypes, Reconciler
  <2>2. 1 \in DOMAIN rec.queue /\ Target = rec.queue[1].match
    BY <1>3, <2>1, HeadOfQueue DEF Target
  <2>3. IsPending(rec, Target)
    BY <2>2 DEF IsPending
  <2> QED
    BY <1>3, <2>3
<1> QED
  BY <1>1, <1>2, <1>3

LEMMA ReconcilesShape ==
  ASSUME Basics, Reconciles
  PROVE  Quiet \/ \E out : Active(out)
<1> DEFINE allow == reply.kind = "roster" \/ reply.step = "provisional"
           k == Routed
           answer == reply.answer
<1>1. Process(Target, allow)
  BY DEF Reconciles
<1>2. /\ reply # Nothing /\ reply \in Replies /\ reply.answer \in Answers
      /\ reply.match \in 0..LastMatch
  BY ReplyFields DEF Reconciles, Basics, ProgramTypes
<1>3. /\ Reconciler(rec, k) /\ k \in Nat /\ jobs \in Seq(Jobs)
      /\ \A j \in JobSet(jobs) : j.match <= k
  BY RoutedFacts DEF Basics, ProgramTypes, Jobs
<1>4. answer \in Answers /\ answer \in Snapshots
  BY <1>2, AnswersAreSnapshots
<1> HIDE DEF allow, k
<1>5. CASE Target = 0 \/ ~IsPending(rec, Target)
  <2> DEFINE ok == Target \in rec.completed
  <2> HIDE DEF ok
  <2>1. /\ reply' = [reply EXCEPT !.step = "publish", !.ok = ok]
        /\ UNCHANGED <<rec, jobs, calls, before>>
    BY <1>1, <1>5 DEF Process, ok
  <2>2. /\ reply' \in Replies /\ reply'.kind = reply.kind /\ reply'.match = reply.match
        /\ reply'.answer = reply.answer /\ reply'.step = "publish"
    <3>1. ok \in BOOLEAN
      BY DEF ok
    <3> QED
      BY <1>2, <2>1, <3>1, ReplyStep
  <2>3. reply.kind = "post" => reply.match \in rec.completed
    <3> SUFFICES ASSUME reply.kind = "post" PROVE reply.match \in rec.completed
      OBVIOUS
    <3>1. reply.match \in 1..k /\ Target = reply.match
      BY <1>2, TargetFacts DEF Basics, ReplySound, k
    <3>2. ~IsPending(rec, reply.match)
      BY <1>3, <1>5, <3>1
    <3> QED
      BY <1>3, <3>1, <3>2 DEF Reconciler, Covered
  <2> QED
    BY <2>1, <2>2, <2>3 DEF Quiet
<1>6. CASE Target # 0 /\ IsPending(rec, Target)
  <2> DEFINE Outcome(out) ==
        /\ out = Reconcile(rec, Target, answer)
        /\ LET provisional == allow /\ ~out.ok
               r == IF out.updates = <<>> THEN out.rec
                    ELSE [out.rec EXCEPT !.cache = CacheAfter(out, answer)]
           IN /\ rec' = IF provisional THEN Provisional(r, Target, answer) ELSE r
              /\ jobs' = (jobs \o out.updates)
                            \o IF provisional THEN ProvisionalUpdate(r, Target) ELSE <<>>
              /\ calls' = out.calls
              /\ before' = SnapshotAfter(out, answer)
              /\ reply' = CASE out.ok \/ allow -> [reply EXCEPT !.step = "publish", !.ok = out.ok]
                            [] ~out.ok /\ ~allow /\ reply.last ->
                                 [reply EXCEPT !.step = "provisional"]
                            [] OTHER -> Nothing
  <2>1. \E out \in {Reconcile(rec, Target, answer)} : Outcome(out)
    BY <1>1, <1>6 DEF Process
  <2> PICK out : Outcome(out)
    BY <2>1
  <2> DEFINE provisional == allow /\ ~out.ok
             r == IF out.updates = <<>> THEN out.rec
                  ELSE [out.rec EXCEPT !.cache = CacheAfter(out, answer)]
             saved == jobs \o out.updates
  <2>2. /\ out = Reconcile(rec, Target, answer)
        /\ rec' = IF provisional THEN Provisional(r, Target, answer) ELSE r
        /\ jobs' = saved \o IF provisional THEN ProvisionalUpdate(r, Target) ELSE <<>>
        /\ calls' = out.calls
        /\ before' = SnapshotAfter(out, answer)
        /\ reply' = CASE out.ok \/ allow -> [reply EXCEPT !.step = "publish", !.ok = out.ok]
                      [] ~out.ok /\ ~allow /\ reply.last ->
                           [reply EXCEPT !.step = "provisional"]
                      [] OTHER -> Nothing
    OBVIOUS
  <2> HIDE DEF Outcome
  <2>3. OutcomeSound(rec, k, Target, out) /\ JobsFollow(rec, k, out)
    BY <1>3, <1>4, <1>6, <2>2, ReconcileKeeps
  <2>4. /\ Reconciler(out.rec, k) /\ out.rec.cache \in Snapshots /\ out.rec.cacheValid \in BOOLEAN
        /\ IsReconciler(out.rec)
        /\ out.rec.cache = rec.cache /\ out.rec.cacheValid = rec.cacheValid
        /\ out.ok \in BOOLEAN
        /\ IF out.ok THEN Target \in out.rec.completed ELSE IsPending(out.rec, Target)
        /\ out.updates \in Seq(Jobs)
    BY <2>3 DEF OutcomeSound, Reconciler, IsReconciler
  <2>5. /\ IsReconciler(r) /\ r.queue = out.rec.queue /\ r.baseline = out.rec.baseline
        /\ r.cache = IF out.updates = <<>> THEN rec.cache ELSE CacheAfter(out, answer)
        /\ r.cacheValid = rec.cacheValid
        /\ r.completed = out.rec.completed /\ r.points = out.rec.points
    BY <2>4 DEF IsReconciler
  <2>6. r.cache \in Snapshots
    BY <1>4, <2>4, <2>5, CacheAfterSnapshot
  <2> HIDE DEF r
  <2>7. /\ Reconciler(r, k) /\ Shown(r) = Shown(out.rec)
        /\ \A m : Covered(r, m) <=> Covered(out.rec, m)
        /\ \A m : IsPending(r, m) <=> IsPending(out.rec, m)
    <3>1. out.rec.cacheValid = r.cacheValid
      BY <2>4, <2>5
    <3> QED
      BY <1>3, <2>4, <2>5, <2>6, <3>1, CacheKeeps
  <2>8. /\ saved \in Seq(Jobs) /\ JobSet(saved) = JobSet(jobs) \cup JobSet(out.updates)
    BY <1>3, <2>4, ConcatJobSet
  <2>9. \A table : JobsSound(Shown(rec), k, jobs, table) /\ DOMAIN table \subseteq 1..k =>
                     JobsSound(Shown(r), k, saved, table)
    BY <1>3, <2>3, <2>7 DEF JobsFollow
  <2>10. \A j \in JobSet(saved) : j.match <= k
    BY <1>3, <2>3, <2>8 DEF OutcomeSound
  <2>11. /\ SameBooks(r, rec', k) /\ ObservedQueue(r.queue, rec'.queue)
         /\ \A i \in DOMAIN r.queue :
              r.queue[i].pre.counted => rec'.queue[i].obsCount = r.queue[i].obsCount
         /\ rec'.baseline = r.baseline
         /\ provisional /\ IsPending(r, Target) => Target \in rec'.completed
         /\ OnlyEstimates(saved, jobs') /\ \A j \in JobSet(jobs') : j.match <= k
         /\ \A table : JobsSound(Shown(r), k, saved, table) => JobsSound(Shown(rec'), k, jobs', table)
    <3>1. provisional \in BOOLEAN
      BY <2>4 DEF allow
    <3> DEFINE p == rec'
               after == jobs'
    <3> HIDE DEF provisional, saved, p, after, answer
    <3>2. /\ provisional => Estimated(r, Target, answer, saved, p, after)
          /\ ~provisional => p = r /\ after = saved
      <4>1. saved \o <<>> = saved
        BY <2>8, ConcatEmptySeq
      <4> QED
        BY <2>2, <4>1 DEF p, after, Estimated
    <3>3. k \in Nat /\ Reconciler(r, k) /\ answer \in Snapshots
      BY <1>3, <1>4, <2>7
    <3>4. saved \in Seq(Jobs) /\ \A j \in JobSet(saved) : j.match <= k
      BY <2>8, <2>10
    <3>5. /\ SameBooks(r, p, k) /\ ObservedQueue(r.queue, p.queue)
          /\ \A i \in DOMAIN r.queue :
               r.queue[i].pre.counted => p.queue[i].obsCount = r.queue[i].obsCount
          /\ p.baseline = r.baseline
          /\ Estimated(r, Target, answer, saved, p, after) /\ IsPending(r, Target) =>
               Target \in p.completed
          /\ OnlyEstimates(saved, after) /\ \A j \in JobSet(after) : j.match <= k
          /\ \A table : JobsSound(Shown(r), k, saved, table) => JobsSound(Shown(p), k, after, table)
      BY <3>1, <3>2, <3>3, <3>4, ProvisionalStep
    <3> QED
      BY <3>2, <3>5 DEF p, after
  <2>12. ActiveRec(out)
    BY <2>3, <2>4, <2>5, <2>7, <2>11 DEF ActiveRec, SameBooks, k
  <2>13. ActiveJobs(out)
    BY <2>9, <2>11 DEF ActiveJobs, k
  <2>14. ActiveReply(out)
    <3>1. CASE out.ok \/ allow
      <4>1. reply' = [reply EXCEPT !.step = "publish", !.ok = out.ok]
        BY <2>2, <3>1
      <4>2. /\ reply' \in Replies /\ reply'.kind = reply.kind /\ reply'.match = reply.match
            /\ reply'.answer = reply.answer /\ reply'.step = "publish"
        BY <1>2, <2>4, <4>1, ReplyStep
      <4>3. reply.kind = "post" => reply.match \in rec'.completed
        <5>1. Target \in rec'.completed
          <6>1. CASE out.ok
            BY <2>4, <2>12, <6>1 DEF ActiveRec
          <6>2. CASE ~out.ok
            <7>1. provisional /\ IsPending(r, Target)
              BY <2>4, <2>7, <3>1, <6>2
            <7> QED
              BY <2>11, <7>1
          <6> QED
            BY <6>1, <6>2
        <5> QED
          BY <1>2, <5>1, TargetFacts
      <4> QED
        BY <4>2, <4>3 DEF ActiveReply
    <3>2. CASE ~out.ok /\ ~allow /\ reply.last
      <4>1. reply' = [reply EXCEPT !.step = "provisional"]
        BY <2>2, <3>2
      <4>2. /\ reply' \in Replies /\ reply'.kind = reply.kind /\ reply'.match = reply.match
            /\ reply'.answer = reply.answer /\ reply'.step = "provisional"
        BY <1>2, <4>1, ReplyStepOnly
      <4> QED
        BY <3>2, <4>2 DEF ActiveReply
    <3>3. CASE ~out.ok /\ ~allow /\ ~reply.last
      <4>1. reply' = Nothing
        BY <2>2, <3>3
      <4> QED
        BY <3>3, <4>1 DEF ActiveReply
    <3> QED
      BY <3>1, <3>2, <3>3
  <2> QED
    BY <1>6, <2>2, <2>3, <2>12, <2>13, <2>14 DEF Active, k
<1> QED
  BY <1>5, <1>6

LEMMA ReconcilesBasics ==
  ASSUME Basics, Reconciles
  PROVE  Basics'
<1> USE DEF Basics
<1>1. /\ effect' = effect /\ reply # Nothing /\ calls = {}
      /\ game' = game /\ won' = won /\ published' = published /\ seen' = seen
      /\ asked' = asked /\ rows' = rows /\ playing' = playing /\ undecided' = undecided
  BY DEF Reconciles, world
<1>2. Routed' = Routed
  BY <1>1 DEF Routed
<1>3. reply \in Replies /\ reply.answer \in Answers /\ reply.answer \in Snapshots
  BY <1>1, ReplyFields, AnswersAreSnapshots DEF ProgramTypes
<1>4. EffectSound'
  BY <1>1, <1>2 DEF EffectSound
<1>5. CASE Quiet
  <2>1. GameTypes' /\ ProgramTypes'
    BY <1>1, <1>2, <1>5 DEF GameTypes, ProgramTypes, Quiet
  <2>2. ReplySound'
    BY <1>1, <1>2, <1>5 DEF ReplySound, Quiet
  <2> QED
    BY <1>1, <1>2, <1>4, <1>5, <2>1, <2>2 DEF EveryMatchAsked, UndecidedSound, Quiet
<1>6. CASE \E out : Active(out)
  <2> PICK out : Active(out)
    BY <1>6
  <2>1. /\ OutcomeSound(rec, Routed, Target, out)
        /\ ActiveRec(out) /\ ActiveJobs(out) /\ ActiveReply(out)
        /\ calls' = out.calls /\ before' = SnapshotAfter(out, reply.answer)
    BY DEF Active
  <2>2. before' \in {before, reply.answer} /\ (playing = 0 => before' = before)
    BY <2>1 DEF SnapshotAfter
  <2>3. GameTypes'
    BY <1>1, <1>2, <1>3, <2>2 DEF GameTypes
  <2>4. /\ Reconciler(rec', Routed) /\ rec.completed \subseteq rec'.completed
        /\ \A m : Covered(rec', m) <=> Covered(out.rec, m)
        /\ ObservedQueue(out.rec.queue, rec'.queue)
        /\ calls' \subseteq [match : 1..Routed, won : BOOLEAN]
        /\ FromQueue(rec.queue, out.rec.queue)
        /\ CoveredByCalls(rec, out)
    BY <2>1 DEF ActiveRec, OutcomeSound
  <2>5. jobs' \in Seq(Jobs) /\ \A j \in JobSet(jobs') : j.match <= Routed
    BY <2>1 DEF ActiveJobs, OnlyEstimates
  <2>6. reply' \in {Nothing} \cup Replies
    BY <2>1 DEF ActiveReply
  <2>7. ProgramTypes'
    BY <1>1, <1>2, <2>4, <2>5, <2>6 DEF ProgramTypes, Jobs
  <2>8. ReplySound'
    BY <1>1, <1>2, <2>1 DEF ReplySound, ActiveReply
  <2>9. EveryMatchAsked'
    BY <1>1, <1>2, <2>4 DEF EveryMatchAsked
  <2>10. UndecidedSound'
    <3>1. FromQueue(out.rec.queue, rec'.queue)
      BY <2>4, ObservedFrom
    <3>2. \A i \in DOMAIN rec'.queue :
            rec'.queue[i].match \in undecided => rec'.queue[i].kind \in Left /\ ~rec'.queue[i].dbFinal
      BY <2>4, <3>1 DEF FromQueue, UndecidedSound
    <3>3. ASSUME NEW m \in undecided, Covered(rec', m)
          PROVE  \E c \in calls' : c.match = m
      <4>1. ~Covered(rec, m)
        BY <1>1 DEF UndecidedSound
      <4>2. PICK j \in DOMAIN rec.queue :
              /\ rec.queue[j].match = m
              /\ rec.queue[j].kind \in Left /\ ~rec.queue[j].dbFinal =>
                   \E c \in out.calls : c.match = m
        BY <2>4, <3>3, <4>1 DEF CoveredByCalls
      <4> QED
        BY <2>1, <4>2 DEF UndecidedSound
    <3> QED
      BY <1>1, <3>2, <3>3 DEF UndecidedSound
  <2> QED
    BY <1>4, <2>3, <2>7, <2>8, <2>9, <2>10
<1> QED
  BY <1>5, <1>6, ReconcilesShape

LEMMA BasicsInit ==
  ASSUME RatingInit
  PROVE  Basics
<1>1. /\ game \in Games /\ won = <<>> /\ published = 0 /\ playing = 0 /\ before = NoProfile
      /\ seen = [at |-> 0, counted |-> ~game.countless]
      /\ undecided = {} /\ effect = Nothing /\ asked = {} /\ reply = Nothing /\ calls = {}
      /\ jobs = <<>> /\ rows = <<>>
      /\ rec = [queue |-> <<>>, completed |-> {}, baseline |-> Unknown, points |-> <<>>,
                cache |-> NoProfile, cacheValid |-> FALSE]
  BY DEF RatingInit
<1>2. Len(won) = 0 /\ won \in Seq(BOOLEAN) /\ Routed = 0
  BY <1>1, NothingIsNone DEF Routed
<1>3. game.last \in Matches /\ LastMatch \in Nat
  BY <1>1, PostMatchAssumption
<1>4. seen \in Snapshots
  <2> DEFINE counted == ~game.countless
  <2>1. counted \in BOOLEAN
    OBVIOUS
  <2> HIDE DEF counted
  <2>2. seen = [at |-> 0, counted |-> counted]
    BY <1>1 DEF counted
  <2> QED
    BY <1>3, <2>1, <2>2 DEF Snapshots, Unknown
<1>5. GameTypes
  BY <1>1, <1>2, <1>3, <1>4, EmptyProfile DEF GameTypes, Matches
<1>6. Reconciler(rec, 0)
  <2>1. /\ rec.queue = <<>> /\ rec.completed = {} /\ rec.baseline = Unknown /\ rec.points = <<>>
        /\ rec.cache = NoProfile /\ rec.cacheValid = FALSE
    BY <1>1
  <2>2. rec = [queue |-> rec.queue, completed |-> rec.completed, baseline |-> rec.baseline,
               points |-> rec.points, cache |-> rec.cache, cacheValid |-> rec.cacheValid]
    BY <1>1
  <2>3. <<>> \in Seq(Records) /\ DOMAIN <<>> = {} /\ <<>> \in [{} -> Points]
    OBVIOUS
  <2> QED
    <3>1. rec.queue \in Seq(Records) /\ Ordered(rec.queue) /\ DOMAIN rec.queue = {}
      BY <2>1, <2>3 DEF Ordered
    <3>2. rec.points \in [rec.completed -> Points]
      BY <2>1, <2>3
    <3>3. rec.baseline \in Counts /\ rec.cache \in Snapshots /\ rec.cacheValid \in BOOLEAN
      BY <2>1, EmptyProfile DEF Counts
    <3>4. rec.completed \subseteq 1..0 /\ 1..0 = {}
      BY <2>1
    <3> QED
      BY <2>2, <3>1, <3>2, <3>3, <3>4 DEF Reconciler
<1>7. ProgramTypes
  <2>1. jobs \in Seq(SaveJobs \cup UpdateJobs) /\ JobSet(jobs) = {} /\ DOMAIN rows = {}
    BY <1>1 DEF JobSet
  <2> QED
    BY <1>1, <1>2, <1>6, <2>1 DEF ProgramTypes
<1>8. EffectSound /\ ReplySound
  BY <1>1, NothingIsNone DEF EffectSound, ReplySound
<1>9. EveryMatchAsked /\ UndecidedSound
  BY <1>1, <1>2 DEF EveryMatchAsked, UndecidedSound
<1> QED
  BY <1>5, <1>7, <1>8, <1>9 DEF Basics

LEMMA BasicsNext ==
  ASSUME Basics, [RatingNext]_ratingVars
  PROVE  Basics'
<1>1. CASE UNCHANGED ratingVars
  <2>1. /\ game' = game /\ won' = won /\ published' = published /\ seen' = seen
        /\ effect' = effect /\ asked' = asked /\ reply' = reply /\ calls' = calls
        /\ jobs' = jobs /\ rows' = rows /\ playing' = playing /\ before' = before
        /\ undecided' = undecided /\ rec' = rec
    BY <1>1 DEF ratingVars
  <2>2. Routed' = Routed
    BY <2>1 DEF Routed
  <2> QED
    BY <2>1, <2>2 DEF Basics, GameTypes, ProgramTypes, EffectSound, ReplySound,
         EveryMatchAsked, UndecidedSound
<1> QED
  BY <1>1, StartMatchBasics, EndMatchBasics, LateResultBasics, PublishBasics, RouteBasics,
     AnswerRosterBasics, AnswerPostMatchBasics, LookupFailsBasics, ReconcilesBasics,
     CallBackBasics, PublishProfileBasics, CachedRosterBasics, RunJobBasics DEF RatingNext

-----------------------------------------------------------------------------
\* The rows and the graph agree after every step.

LEMMA ResultsKept ==
  ASSUME ResultsArrive, Routed' = Routed, rows' = rows, JobSet(jobs) \subseteq JobSet(jobs'),
         undecided \subseteq undecided', effect \notin LateEffects \/ effect' = effect
  PROVE  ResultsArrive'
BY DEF ResultsArrive

LEMMA EffectOfNothing ==
  ASSUME effect = Nothing
  PROVE  effect \notin LateEffects /\ effect \notin EndEffects
BY NothingIsNone

LEMMA RowsNext ==
  ASSUME Basics, Basics', RowsInv, NoTies, RatingNext
  PROVE  RowsInv'
<1>1. JobsSound(Shown(rec), Routed, jobs, rows) /\ ResultsArrive
  BY DEF RowsInv
<1>2. /\ Reconciler(rec, Routed) /\ Routed \in Nat /\ jobs \in Seq(Jobs)
      /\ DOMAIN rows \subseteq 1..Routed /\ RowsTyped(Routed, rows)
      /\ effect \in {Nothing} \cup EndEffects \cup LateEffects
  BY RoutedFacts DEF Basics, ProgramTypes, Jobs, RowsTyped
<1> SUFFICES JobsSound(Shown(rec'), Routed', jobs', rows') /\ ResultsArrive'
  BY DEF RowsInv
<1>3. CASE StartMatch
  <2>1. UNCHANGED <<won, effect, undecided, rec, jobs, rows>>
    BY <1>3 DEF StartMatch, world, database
  <2>2. Routed' = Routed
    BY <2>1 DEF Routed
  <2> QED
    BY <1>1, <2>1, <2>2, ResultsKept
<1>4. CASE EndMatch
  <2>1. /\ effect = Nothing /\ UNCHANGED <<rec, jobs, rows>> /\ undecided \subseteq undecided'
        /\ \E kind \in game.kinds, result \in BOOLEAN :
             effect'.kind = kind /\ won' = Append(won, result)
    BY <1>4 DEF EndMatch, EventThreadIdle, database
  <2>2. effect \notin LateEffects /\ effect \notin EndEffects
    BY <2>1, EffectOfNothing
  <2>3. Routed' = Routed
    <3>1. Routed = Len(won) /\ won \in Seq(BOOLEAN)
      BY <2>2, RoutedFacts DEF Basics, GameTypes, ProgramTypes
    <3>2. effect'.kind \in AllKinds
      BY <2>1, GameFacts DEF Basics
    <3>3. Routed' = Len(won') - 1
      BY <3>2 DEF Routed
    <3>4. Len(won') = Len(won) + 1 /\ Len(won) \in Nat
      BY <2>1, <3>1
    <3> QED
      BY <3>1, <3>3, <3>4
  <2> QED
    BY <1>1, <2>1, <2>2, <2>3, ResultsKept
<1>5. CASE LateResult
  <2>1. /\ effect = Nothing /\ UNCHANGED <<won, rec, jobs, rows>>
        /\ \E m \in undecided :
             /\ undecided' = undecided \ {m}
             /\ effect' = [kind |-> "late", match |-> m, won |-> won[m]]
    BY <1>5 DEF LateResult, EventThreadIdle, world, database
  <2> PICK m \in undecided :
        /\ undecided' = undecided \ {m}
        /\ effect' = [kind |-> "late", match |-> m, won |-> won[m]]
    BY <2>1
  <2>2. m \in Matches /\ won[m] \in BOOLEAN
    BY GameFacts DEF Basics, GameTypes
  <2>3. effect' \in LateEffects /\ effect'.match = m /\ effect'.kind = "late"
    BY <2>2 DEF LateEffects
  <2>4. effect \notin LateEffects /\ effect \notin EndEffects
    BY <2>1, EffectOfNothing
  <2>5. Routed' = Routed
    <3>1. Routed = Len(won)
      BY <2>4, RoutedFacts DEF Basics, ProgramTypes
    <3>2. "late" \notin AllKinds
      BY DEF AllKinds, Left
    <3> QED
      BY <2>1, <2>3, <3>1, <3>2 DEF Routed
  <2>6. ResultsArrive'
    BY <1>1, <2>1, <2>3, <2>4, <2>5 DEF ResultsArrive
  <2> QED
    BY <1>1, <2>1, <2>5, <2>6
<1>6. CASE Publish
  <2>1. UNCHANGED <<won, effect, undecided, rec, jobs, rows>>
    BY <1>6 DEF Publish, telemetry, database
  <2>2. Routed' = Routed
    BY <2>1 DEF Routed
  <2> QED
    BY <1>1, <2>1, <2>2, ResultsKept
<1>7. CASE AnswerRoster \/ AnswerPostMatch \/ CachedRoster
  <2>1. UNCHANGED <<won, effect, undecided, rec, jobs, rows>>
    BY <1>7 DEF AnswerRoster, AnswerPostMatch, CachedRoster, world, telemetry, database
  <2>2. Routed' = Routed
    BY <2>1 DEF Routed
  <2> QED
    BY <1>1, <2>1, <2>2, ResultsKept
<1>8. CASE PublishProfile
  <2>1. UNCHANGED <<won, effect, undecided, jobs, rows>>
    BY <1>8 DEF PublishProfile, world, database
  <2>2. Routed' = Routed /\ Shown(rec') = Shown(rec)
    BY <1>8, <2>1, PublishProfileShape DEF Routed
  <2> QED
    BY <1>1, <2>1, <2>2, ResultsKept
<1>9. CASE LookupFails
  <2>1. UNCHANGED <<won, effect, undecided, rows>>
    BY <1>9 DEF LookupFails, world, telemetry
  <2>2. Routed' = Routed
    BY <2>1 DEF Routed
  <2>3. /\ JobSet(jobs) \subseteq JobSet(jobs')
        /\ \A table : JobsSound(Shown(rec), Routed, jobs, table) =>
                        JobsSound(Shown(rec'), Routed, jobs', table)
    BY <1>9, LookupFailsShape DEF OnlyEstimates
  <2> QED
    BY <1>1, <2>1, <2>2, <2>3, ResultsKept
<1>10. CASE Reconciles
  <2>1. UNCHANGED <<won, effect, undecided, rows>>
    BY <1>10 DEF Reconciles, world
  <2>2. Routed' = Routed
    BY <2>1 DEF Routed
  <2>3. CASE Quiet
    BY <1>1, <2>1, <2>2, <2>3, ResultsKept DEF Quiet
  <2>4. CASE \E out : Active(out)
    <3> PICK out : Active(out)
      BY <2>4
    <3>1. /\ OnlyEstimates(jobs \o out.updates, jobs') /\ out.updates \in Seq(Jobs)
          /\ JobsSound(Shown(rec'), Routed, jobs', rows)
      BY <1>1, <1>2 DEF Active, ActiveJobs, OutcomeSound
    <3>2. JobSet(jobs) \subseteq JobSet(jobs')
      BY <1>2, <3>1, ConcatJobSet DEF OnlyEstimates
    <3> QED
      BY <1>1, <2>1, <2>2, <3>1, <3>2, ResultsKept
  <2> QED
    BY <1>10, <2>3, <2>4, ReconcilesShape
<1>11. CASE CallBack
  <2>1. UNCHANGED <<won, effect, rec, rows>>
    BY <1>11 DEF CallBack, world
  <2>2. Routed' = Routed
    BY <2>1 DEF Routed
  <2> PICK c \in calls :
        /\ undecided' = undecided \ {c.match}
        /\ jobs' = IF c.match \in undecided
                   THEN Append(jobs, SaveJob(c.match, c.won, TRUE)) ELSE jobs
    BY <1>11 DEF CallBack
  <2> DEFINE job == SaveJob(c.match, c.won, TRUE)
  <2>3. c.match \in 1..Routed /\ c.won \in BOOLEAN /\ c.match \in Matches
    BY CallFields
  <2>4. job \in Jobs /\ job.op = "save" /\ job.match = c.match /\ job.pending = FALSE
    BY <2>3, FinalSave
  <2>5. CASE c.match \in undecided
    <3>1. jobs' = Append(jobs, job)
      BY <2>5
    <3> HIDE DEF job
    <3>2. JobSet(jobs') = JobSet(jobs) \cup {job}
      BY <1>2, <2>4, <3>1, AppendedSet
    <3>3. JobsSound(Shown(rec), Routed, jobs', rows)
      BY <1>1, <1>2, <2>3, <2>4, <3>1, JobsSoundAppend
    <3>4. IsFinalSave(job, c.match)
      BY <2>4 DEF IsFinalSave
    <3>5. ResultsArrive'
      BY <1>1, <2>1, <2>2, <3>2, <3>4 DEF ResultsArrive
    <3> QED
      BY <2>1, <2>2, <3>3, <3>5
  <2>6. CASE c.match \notin undecided
    <3>1. jobs' = jobs /\ undecided' = undecided
      BY <2>6
    <3> QED
      BY <1>1, <2>1, <2>2, <3>1, ResultsKept
  <2> QED
    BY <2>5, <2>6
<1>12. CASE Route
  <2>1. UNCHANGED <<won, undecided, rows>> /\ effect' = Nothing /\ effect # Nothing
    BY <1>12 DEF Route, world
  <2>2. CASE effect \in LateEffects
    <3>1. /\ Routed' = Routed /\ rec' = Resolve(rec, effect.match, effect.won)
          /\ \E job \in SaveJobs :
              /\ job.match = effect.match /\ ~job.pending /\ job.op = "save"
              /\ jobs' = Append(jobs, job)
              /\ JobSet(jobs') = JobSet(jobs) \cup {job}
      BY <1>12, <2>2, LateShape
    <3> PICK job \in SaveJobs :
              /\ job.match = effect.match /\ ~job.pending /\ job.op = "save"
              /\ jobs' = Append(jobs, job)
              /\ JobSet(jobs') = JobSet(jobs) \cup {job}
      BY <3>1
    <3>2. effect.match \in 1..Routed /\ effect.won \in BOOLEAN
      BY <2>2, LateFields DEF Basics, EffectSound
    <3>3. Shown(rec') = Shown(rec)
      BY <1>2, <3>1, <3>2, ResolveKeeps DEF SameBooks
    <3>4. job \in Jobs /\ job.match \in 1..Routed
      BY <3>2 DEF Jobs
    <3>5. JobsSound(Shown(rec), Routed, jobs', rows)
      BY <1>1, <1>2, <3>4, JobsSoundAppend
    <3>6. IsFinalSave(job, effect.match)
      BY DEF IsFinalSave
    <3>7. ResultsArrive'
      BY <1>1, <2>1, <3>1, <3>6 DEF ResultsArrive
    <3> QED
      BY <2>1, <3>1, <3>3, <3>5, <3>7
  <2>3. CASE effect \in EndEffects
    <3>1. Routed' = Routed + 1 /\ RoutedEnd /\ RoutedJobs
      BY <1>12, <2>3, EndShape
    <3>2. /\ effect.match = Routed + 1 /\ effect.kind # "tied"
          /\ effect.match \in undecided <=> effect.kind \in Left
      BY <2>3, RoutedFacts DEF Basics, EffectSound, ProgramTypes, NoTies
    <3>3. JobsSound(Shown(rec'), Routed + 1, jobs', rows)
      BY <1>1, <1>2, <3>1, <3>2 DEF RoutedJobs
    <3>4. JobSet(jobs) \subseteq JobSet(jobs') /\ FirstSave \in JobSet(jobs')
      BY <3>1, <3>2 DEF RoutedJobs
    <3>5. effect.kind \notin Left => IsFinalSave(FirstSave, effect.match)
      BY <2>3, FirstSaveFields DEF IsFinalSave
    <3>6. effect \notin LateEffects
      BY <2>3, LateFields
    <3>7. \A m \in 1..(Routed + 1) : m \in 1..Routed \/ m = effect.match
      BY <1>2, <3>2
    <3>8. ResultsArrive'
      BY <1>1, <2>1, <3>1, <3>2, <3>4, <3>5, <3>6, <3>7 DEF ResultsArrive
    <3> QED
      BY <2>1, <3>1, <3>3, <3>8
  <2> QED
    BY <1>2, <2>1, <2>2, <2>3
<1>13. CASE RunJob
  <2>1. UNCHANGED <<won, effect, undecided, rec>>
    BY <1>13 DEF RunJob, world, telemetry, worker
  <2>2. Routed' = Routed
    BY <2>1 DEF Routed
  <2> DEFINE h == Head(jobs)
  <2>3. /\ Ran(h, rows') /\ jobs # <<>> /\ jobs' = Tail(jobs)
        /\ JobSet(jobs) = JobSet(jobs') \cup {h}
    BY <1>13, RunJobFacts
  <2>4. DOMAIN Shown(rec) \subseteq 1..Routed
    BY <1>2 DEF Shown, Reconciler
  <2>5. JobsSound(Shown(rec), Routed, jobs', rows')
    <3> DEFINE shown == Shown(rec)
               table == rows'
    <3>1. JobsSound(shown, Routed, jobs, rows) /\ DOMAIN shown \subseteq 1..Routed
      BY <1>1, <2>4
    <3> HIDE DEF shown, table, h
    <3>2. Ran(h, table) /\ h = Head(jobs)
      BY <2>3 DEF table, h
    <3>3. JobsSound(shown, Routed, Tail(jobs), table)
      BY <1>2, <2>3, <3>1, <3>2, JobsSoundRun
    <3> QED
      BY <2>3, <3>3 DEF shown, table
  <2>6. ResultsArrive'
    <3> SUFFICES ASSUME NEW m \in 1..Routed, m \notin undecided,
                        ~(effect \in LateEffects /\ effect.match = m)
                 PROVE  \/ m \in DOMAIN rows' /\ ~rows'[m].pending
                        \/ \E j \in JobSet(jobs') : IsFinalSave(j, m)
      BY <2>1, <2>2 DEF ResultsArrive
    <3>1. \/ m \in DOMAIN rows /\ ~rows[m].pending
          \/ \E j \in JobSet(jobs') : IsFinalSave(j, m)
          \/ IsFinalSave(h, m)
      BY <1>1, <2>3 DEF ResultsArrive
    <3> HIDE DEF h
    <3>2. CASE m \in DOMAIN rows /\ ~rows[m].pending
      <4>1. h.op \in {"save", "update"}
        <5>1. h \in Jobs
          BY <1>2, <2>3, TailSet DEF h
        <5> QED
          BY <5>1, JobFields
      <4> QED
        BY <2>3, <3>2, <4>1 DEF Ran
    <3>3. CASE IsFinalSave(h, m)
      BY <2>3, <3>3 DEF Ran, IsFinalSave
    <3> QED
      BY <3>1, <3>2, <3>3
  <2> QED
    BY <2>1, <2>2, <2>5, <2>6
<1> QED
  BY <1>3, <1>4, <1>5, <1>6, <1>7, <1>8, <1>9, <1>10, <1>11, <1>12, <1>13 DEF RatingNext

LEMMA RowsInit ==
  ASSUME RatingInit
  PROVE  RowsInv
<1>1. /\ jobs = <<>> /\ rows = <<>> /\ Routed = 0
      /\ rec.completed = {}
  <2>1. won = <<>> /\ effect = Nothing
    BY DEF RatingInit
  <2>2. Routed = 0
    BY <2>1, NothingIsNone DEF Routed
  <2> QED
    BY <2>2 DEF RatingInit
<1>2. DOMAIN jobs = {} /\ DOMAIN rows = {} /\ DOMAIN Shown(rec) = {} /\ 1..Routed = {}
  BY <1>1 DEF Shown
<1>3. JobsSound(Shown(rec), Routed, jobs, rows)
  <2> DEFINE shown == Shown(rec)
  <2> HIDE DEF shown
  <2>1. DOMAIN shown = {}
    BY <1>2 DEF shown
  <2> QED
    BY <1>2, <2>1 DEF JobsSound, ExactIsLast, SavedFirst, LastIsShown, shown
<1>4. ResultsArrive
  BY <1>2 DEF ResultsArrive
<1> QED
  BY <1>3, <1>4 DEF RowsInv

LEMMA GameNeverChanges ==
  ASSUME [RatingNext]_ratingVars
  PROVE  game' = game
BY DEF RatingNext, ratingVars, StartMatch, EndMatch, LateResult, Publish, Route, AnswerRoster,
       AnswerPostMatch, LookupFails, Reconciles, CallBack, PublishProfile, CachedRoster, RunJob,
       world

LEMMA RowsKept ==
  ASSUME Basics, RowsInv, [RatingNext]_ratingVars
  PROVE  RowsInv'
<1>1. CASE ~NoTies
  BY <1>1, GameNeverChanges DEF RowsInv, NoTies
<1>2. CASE NoTies /\ RatingNext
  BY <1>2, BasicsNext, RowsNext
<1>3. CASE NoTies /\ UNCHANGED ratingVars
  <2>1. UNCHANGED <<won, effect, undecided, rec, jobs, rows>>
    BY <1>3 DEF ratingVars
  <2>2. Routed' = Routed
    BY <2>1 DEF Routed
  <2>3. JobsSound(Shown(rec), Routed, jobs, rows) /\ ResultsArrive
    BY <1>3 DEF RowsInv
  <2>4. ResultsArrive'
    BY <2>1, <2>2, <2>3, ResultsKept
  <2> QED
    BY <2>1, <2>2, <2>3, <2>4 DEF RowsInv
<1> QED
  BY <1>1, <1>2, <1>3

LEMMA BooksAndRows ==
  Spec => [](Basics /\ RowsInv)
<1>1. RatingInit => Basics /\ RowsInv
  BY BasicsInit, RowsInit
<1>2. Basics /\ RowsInv /\ [RatingNext]_ratingVars => (Basics /\ RowsInv)'
  BY BasicsNext, RowsKept
<1> QED
  BY <1>1, <1>2, PTL DEF Spec

LEMMA BasicsImplyTypes ==
  ASSUME Basics
  PROVE  PostMatchTypeOK
<1> USE DEF Basics
<1>1. /\ Reconciler(rec, Routed) /\ Routed \in Nat /\ Routed <= Len(won) /\ Len(won) \in Nat
      /\ \A m \in 1..Routed : m \in Matches
      /\ \A m \in 1..Len(won) : m \in Matches
  BY RoutedFacts, GameFacts DEF ProgramTypes
<1>2. published \in 0..Len(won)
  <2>1. published \in 0..Routed
    BY DEF GameTypes
  <2> QED
    BY <1>1, <2>1
<1>3. undecided \subseteq Matches /\ asked \subseteq Matches /\ DOMAIN rows \subseteq Matches
  BY <1>1 DEF GameTypes, ProgramTypes
<1>4. /\ rec.queue \in Seq(Records) /\ rec.baseline \in Nat \cup {Unknown}
      /\ \A i, j \in DOMAIN rec.queue : i < j => rec.queue[i].match < rec.queue[j].match
      /\ DOMAIN rec.points = rec.completed
  BY <1>1 DEF Reconciler, Ordered, Counts
<1> QED
  BY <1>2, <1>3, <1>4 DEF PostMatchTypeOK, GameTypes

LEMMA InvariantImpliesRows ==
  ASSUME Basics, RowsInv
  PROVE  RowsFollowGraph
<1>1. /\ Reconciler(rec, Routed)
      /\ effect = Nothing => Routed = Len(won)
  BY RoutedFacts, EffectOfNothing DEF Basics, ProgramTypes
<1>2. RowFollowsGraph
  <2> SUFFICES ASSUME NoTies, jobs = <<>>, calls = {}, effect = Nothing,
                      NEW m \in DOMAIN rec.points, rec.points[m].covered
               PROVE  m \in DOMAIN rows /\ ~rows[m].pending /\ rows[m].value = rec.points[m].value
    BY DEF RowFollowsGraph, EveryRowFollowsGraph
  <2>1. m \in rec.completed /\ Covered(rec, m) /\ m \in 1..Routed
    BY <1>1 DEF Covered, Reconciler
  <2>2. m \in DOMAIN Shown(rec) /\ Shown(rec)[m] = rec.points[m].value
    BY <2>1 DEF Shown
  <2>3. DOMAIN jobs = {} /\ JobSet(jobs) = {}
    BY NoJob
  <2>4. m \in DOMAIN rows /\ rows[m].value = Shown(rec)[m]
    BY <2>2, <2>3 DEF RowsInv, JobsSound, LastIsShown
  <2>5. m \notin undecided
    BY <2>1 DEF Basics, UndecidedSound
  <2>6. effect \notin LateEffects
    BY EffectOfNothing
  <2>7. ~rows[m].pending
    BY <2>1, <2>3, <2>5, <2>6 DEF RowsInv, ResultsArrive
  <2> QED
    BY <2>2, <2>4, <2>7
<1>3. NoSilentDrop
  BY <1>1 DEF NoSilentDrop, Basics, EveryMatchAsked
<1> QED
  BY <1>2, <1>3, BasicsImplyTypes DEF RowsFollowGraph

\* Whatever order events, answers and jobs come in: every lookup that is over has its match in
\* the graph, and once the jobs have run every confirmed row has its result and the value the
\* graph shows (MmrReconciler, MmrService::ProcessPostMatchResponse, DatabaseWorker).
THEOREM RowsFollowGraphHolds == Spec => []RowsFollowGraph
<1>1. Basics /\ RowsInv => RowsFollowGraph
  BY InvariantImpliesRows
<1> QED
  BY <1>1, BooksAndRows, PTL

LEMMA RunJobRows ==
  ASSUME Basics, RowsInv, NoTies, RunJob
  PROVE  /\ \A l \in DOMAIN rows : ~rows[l].estimated =>
              l \in DOMAIN rows' /\ rows'[l].value = rows[l].value
         /\ \A l \in DOMAIN rows' : ~rows'[l].estimated =>
              \/ l \in DOMAIN rows /\ ~rows[l].estimated
              \/ /\ IsUpdate(Head(jobs), l) /\ ~Head(jobs).estimated
                 /\ rows'[l].value = Head(jobs).value
<1> DEFINE h == Head(jobs)
           shown == Shown(rec)
           table == rows'
<1>1. /\ Reconciler(rec, Routed) /\ Routed \in Nat /\ jobs \in Seq(Jobs)
      /\ RowsTyped(Routed, rows)
  BY RoutedFacts DEF Basics, ProgramTypes, Jobs, RowsTyped
<1>2. JobsSound(shown, Routed, jobs, rows) /\ DOMAIN shown \subseteq 1..Routed
  BY <1>1 DEF RowsInv, Shown, Reconciler
<1>3. Ran(h, table) /\ jobs # <<>>
  BY RunJobFacts
<1>4. h = Head(jobs)
  OBVIOUS
<1> HIDE DEF h, shown, table
<1>5. /\ JobsSound(shown, Routed, Tail(jobs), table)
      /\ \A l \in DOMAIN rows : ~rows[l].estimated =>
           l \in DOMAIN table /\ table[l].value = rows[l].value
      /\ \A l \in DOMAIN table : ~table[l].estimated =>
           \/ l \in DOMAIN rows /\ ~rows[l].estimated
           \/ IsUpdate(h, l) /\ ~h.estimated /\ table[l].value = h.value
  BY <1>1, <1>2, <1>3, <1>4, JobsSoundRun
<1> QED
  BY <1>5 DEF h, table

LEMMA ExactKept ==
  ASSUME Basics, RowsInv, NoTies, [RatingNext]_ratingVars, NEW m \in DOMAIN rows,
         ~rows[m].estimated
  PROVE  m \in DOMAIN rows' /\ rows'[m].value = rows[m].value
<1>1. CASE UNCHANGED rows
  BY <1>1
<1>2. CASE RunJob
  BY <1>2, RunJobRows
<1> QED
  BY <1>1, <1>2 DEF RatingNext, ratingVars, StartMatch, EndMatch, LateResult, Publish, Route,
     AnswerRoster, AnswerPostMatch, LookupFails, Reconciles, CallBack, PublishProfile,
     CachedRoster, database

\* No job that runs replaces an exact rating, by an estimate or by another rating.
THEOREM ExactNeverLostHolds == Spec => ExactNeverLost
<1>1. Basics /\ RowsInv /\ [RatingNext]_ratingVars =>
        [NoTies => \A m \in DOMAIN rows :
           ~rows[m].estimated => m \in DOMAIN rows' /\ rows'[m].value = rows[m].value]_ratingVars
  BY ExactKept
<1> QED
  BY <1>1, BooksAndRows, PTL DEF Spec, ExactNeverLost

-----------------------------------------------------------------------------
\* In a steady game an answer covers as many matches as it counts more.

LEMMA ContiguousFields ==
  ASSUME NEW k \in Nat, NEW r, Reconciler(r, k), Contiguous(r, k)
  PROVE  /\ Before(r, k) \in Nat /\ Len(r.queue) \in Nat /\ Before(r, k) + Len(r.queue) = k
         /\ DOMAIN r.queue = 1..Len(r.queue)
         /\ r.baseline \in Counts /\ r.baseline <= Before(r, k)
         /\ Before(r, k) > 0 => r.baseline = Before(r, k)
         /\ r.cacheValid => r.queue = <<>>
         /\ \A i \in 1..Len(r.queue) :
              /\ r.queue[i] \in Records /\ r.queue[i].match = Before(r, k) + i
              /\ r.queue[i].pre.counted /\ r.queue[i].pre.at \in 0..(Before(r, k) + i - 1)
              /\ r.queue[i].obsCount \in Counts /\ r.queue[i].obsCount <= Before(r, k)
<1>1. /\ r.queue \in Seq(Records) /\ r.baseline \in Counts
  BY DEF Reconciler
<1>2. Len(r.queue) \in Nat /\ DOMAIN r.queue = 1..Len(r.queue)
  BY <1>1, LenProperties
<1>3. Before(r, k) \in Nat /\ Before(r, k) + Len(r.queue) = k
  BY <1>2 DEF Contiguous, Before
<1>4. \A i \in 1..Len(r.queue) : r.queue[i] \in Records /\ r.queue[i].obsCount \in Counts
  BY <1>2, RecordsOfReconciler, RecordFields
<1> HIDE DEF Before
<1> QED
  BY <1>1, <1>2, <1>3, <1>4 DEF Contiguous

LEMMA ContiguousObserved ==
  ASSUME NEW k \in Nat, NEW r, Contiguous(r, k), r.queue \in Seq(Records), NEW p,
         ObservedQueue(r.queue, p.queue),
         \A i \in DOMAIN r.queue :
           r.queue[i].pre.counted => p.queue[i].obsCount = r.queue[i].obsCount,
         p.baseline = r.baseline, p.cacheValid = r.cacheValid
  PROVE  Contiguous(p, k) /\ Before(p, k) = Before(r, k)
<1>1. /\ Len(p.queue) = Len(r.queue) /\ DOMAIN p.queue = DOMAIN r.queue
      /\ \A i \in DOMAIN r.queue :
           p.queue[i].match = r.queue[i].match /\ p.queue[i].pre = r.queue[i].pre
      /\ p.queue \in Seq(Records)
  BY DEF ObservedQueue, ObservedRecord
<1>2. Before(p, k) = Before(r, k)
  BY <1>1 DEF Before
<1>3. r.queue = <<>> => p.queue = <<>>
  BY <1>1
<1> HIDE DEF Before
<1> QED
  BY <1>1, <1>2, <1>3 DEF Contiguous

LEMMA SteadyCount ==
  ASSUME NEW k \in Nat, NEW r, Reconciler(r, k), Contiguous(r, k), r.queue # <<>>,
         NEW answer \in Answers, answer.counted, answer.at \in Before(r, k)..k
  PROVE  /\ PublicationBaseline(r) = Before(r, k)
         /\ CoveredCount(r, answer) = answer.at - Before(r, k)
<1> DEFINE b == Before(r, k)
           first == CountOf(r.queue[1].pre)
           obs == r.queue[1].obsCount
<1>1. /\ b \in Nat /\ Len(r.queue) \in Nat /\ b + Len(r.queue) = k
      /\ r.baseline \in Counts /\ r.baseline <= b /\ (b > 0 => r.baseline = b)
      /\ \A i \in 1..Len(r.queue) :
           /\ r.queue[i].pre.counted /\ r.queue[i].pre.at \in 0..(b + i - 1)
           /\ r.queue[i].obsCount \in Counts /\ r.queue[i].obsCount <= b
  BY ContiguousFields
<1>2. 1 \in 1..Len(r.queue)
  <2>1. r.queue \in Seq(Records)
    BY DEF Reconciler
  <2> QED
    BY <2>1, HeadOfQueue
<1>3. first \in 0..b /\ obs \in Counts /\ obs <= b
  <2> HIDE DEF b
  <2>1. r.queue[1].pre.counted /\ r.queue[1].pre.at \in 0..(b + 1 - 1)
    BY <1>1, <1>2
  <2>2. first = r.queue[1].pre.at
    BY <2>1 DEF CountOf
  <2>3. b + 1 - 1 = b
    BY <1>1
  <2> QED
    BY <1>1, <1>2, <2>1, <2>2, <2>3
<1> HIDE DEF b, first, obs
<1>4. PublicationBaseline(r) = b
  <2>1. PublicationBaseline(r) = Max({first, obs, r.baseline})
    BY DEF PublicationBaseline, first, obs
  <2>2. first \in Int /\ obs \in Int /\ r.baseline \in Int
    BY <1>1, <1>3 DEF Counts, Unknown
  <2>3. /\ Max({first, obs, r.baseline}) \in {first, obs, r.baseline}
        /\ Max({first, obs, r.baseline}) >= first
        /\ Max({first, obs, r.baseline}) >= r.baseline
    BY <2>2, MaxOfThree
  <2> QED
    BY <1>1, <1>3, <2>1, <2>2, <2>3
<1>5. CoveredCount(r, answer) = answer.at - b
  <2>1. b # Unknown
    BY <1>1 DEF Unknown
  <2>2. CoveredCount(r, answer) = Max({0, Min({answer.at - b, Len(r.queue)})})
    BY <1>4, <2>1 DEF CoveredCount
  <2>3. answer.at - b \in 0..Len(r.queue)
    BY <1>1 DEF b
  <2> DEFINE d == answer.at - b
             L == Len(r.queue)
  <2> HIDE DEF d, L
  <2>4. d \in Int /\ L \in Int /\ d <= L /\ d >= 0
    BY <1>1, <2>3 DEF d, L
  <2>5. Min({d, L}) = d /\ Max({0, d}) = d
    BY <2>4, MinOfTwo, MaxOfTwo
  <2> QED
    BY <2>2, <2>5 DEF d, L
<1> QED
  BY <1>4, <1>5 DEF b

LEMMA MaxOfCounts ==
  ASSUME NEW a \in Counts, NEW b \in Nat, a <= b
  PROVE  Max({a, b}) = b
<1>1. a \in Int /\ b \in Int
  BY DEF Counts, Unknown
<1> QED
  BY <1>1, MaxOfTwo

\* What an answer leaves in a steady game.
SteadyOutcome(r, k, answer, out) ==
  /\ Contiguous(out.rec, k)
  /\ Before(out.rec, k) = Before(r, k) \/ Before(out.rec, k) = answer.at
  /\ out.rec.queue = <<>> => Before(out.rec, k) = answer.at /\ out.all
  /\ \A j \in JobSet(out.updates) : ~j.estimated => j.value = j.match

LEMMA SteadyObserved ==
  ASSUME NEW k \in Nat, NEW r, Reconciler(r, k), Contiguous(r, k), r.queue # <<>>,
         NEW answer \in Answers, answer.counted, answer.at = Before(r, k),
         NEW p, p = Observed(r, answer)
  PROVE  Contiguous(p, k) /\ Before(p, k) = Before(r, k) /\ p.queue # <<>>
<1> DEFINE b == Before(r, k)
<1>1. /\ b \in Nat /\ Len(r.queue) \in Nat /\ b + Len(r.queue) = k
      /\ DOMAIN r.queue = 1..Len(r.queue)
      /\ r.baseline \in Counts /\ r.baseline <= b
      /\ r.cacheValid => r.queue = <<>>
      /\ \A i \in 1..Len(r.queue) :
           /\ r.queue[i].match = b + i
           /\ r.queue[i].pre.counted /\ r.queue[i].pre.at \in 0..(b + i - 1)
           /\ r.queue[i].obsCount \in Counts /\ r.queue[i].obsCount <= b
  BY ContiguousFields
<1>2. 1 \in 1..Len(r.queue) /\ r.queue \in Seq(Records)
  <2>1. r.queue \in Seq(Records)
    BY DEF Reconciler
  <2> QED
    BY <2>1, HeadOfQueue
<1>3. /\ SameBooks(r, p, k) /\ ObservedQueue(r.queue, p.queue)
      /\ ObservedCounts(r, p, answer)
      /\ \A i \in DOMAIN r.queue : i # 1 => p.queue[i] = r.queue[i]
  <2>1. answer \in Snapshots
    BY AnswersAreSnapshots
  <2> HIDE DEF b
  <2> QED
    BY <2>1, ObservedKeeps
<1>4. CountOf(answer) = b
  BY DEF CountOf
<1> HIDE DEF b
<1>5. p.queue[1].obsCount = b /\ p.baseline = b
  <2>1. /\ p.queue[1].obsCount = Max({r.queue[1].obsCount, b})
        /\ p.baseline = Max({r.baseline, b})
    BY <1>3, <1>4 DEF ObservedCounts
  <2>2. r.queue[1].obsCount \in Counts /\ r.queue[1].obsCount <= b /\ b \in Nat
    BY <1>1, <1>2
  <2>3. r.baseline \in Counts /\ r.baseline <= b
    BY <1>1
  <2>4. Max({r.queue[1].obsCount, b}) = b
    BY <2>2, MaxOfCounts
  <2>5. Max({r.baseline, b}) = b
    BY <2>2, <2>3, MaxOfCounts
  <2> QED
    BY <2>1, <2>4, <2>5
<1>6. /\ Len(p.queue) = Len(r.queue) /\ DOMAIN p.queue = DOMAIN r.queue
      /\ \A i \in DOMAIN r.queue :
           p.queue[i].match = r.queue[i].match /\ p.queue[i].pre = r.queue[i].pre
  BY <1>3 DEF ObservedQueue, ObservedRecord
<1>7. Before(p, k) = b
  BY <1>6 DEF Before, b
<1>8. \A i \in DOMAIN p.queue : p.queue[i].obsCount <= b
  <2> SUFFICES ASSUME NEW i \in DOMAIN p.queue PROVE p.queue[i].obsCount <= b
    OBVIOUS
  <2>1. CASE i = 1
    BY <1>1, <1>5, <2>1
  <2>2. CASE i # 1
    BY <1>1, <1>3, <1>6, <2>2
  <2> QED
    BY <2>1, <2>2
<1>9. ~p.cacheValid /\ p.queue # <<>>
  BY <1>1, <1>2, <1>3, <1>6 DEF SameBooks
<1>10. \A i \in DOMAIN p.queue :
         /\ p.queue[i].match = b + i
         /\ p.queue[i].pre.counted /\ p.queue[i].pre.at \in 0..(b + i - 1)
         /\ p.queue[i].obsCount <= b
  BY <1>1, <1>6, <1>8
<1>11. b >= 0 /\ p.baseline <= b /\ (b > 0 => p.baseline = b) /\ (p.cacheValid => p.queue = <<>>)
  BY <1>1, <1>5, <1>9
<1>12. Contiguous(p, k)
  <2> HIDE DEF Before
  <2> QED
    BY <1>7, <1>10, <1>11 DEF Contiguous
<1> QED
  BY <1>7, <1>9, <1>12 DEF b

\* A confirmation leaves the matches after the ones the answer counts.
LEMMA SteadyConfirmed ==
  ASSUME NEW k \in Nat, NEW r, Reconciler(r, k), Contiguous(r, k), r.queue # <<>>,
         NEW answer \in Answers, answer.counted, answer.at \in Before(r, k)..k,
         NEW n \in Nat, Places(r, n), n = answer.at - Before(r, k),
         NEW queue, Settled(r.queue, queue), NEW p, ConfirmedBooks(r, p, k, queue, n, answer)
  PROVE  Contiguous(p, k) /\ Before(p, k) = answer.at
<1>1. /\ Before(r, k) \in Nat /\ Len(r.queue) \in Nat /\ Before(r, k) + Len(r.queue) = k
      /\ DOMAIN r.queue = 1..Len(r.queue)
      /\ r.baseline \in Counts /\ r.baseline <= Before(r, k)
      /\ r.cacheValid => r.queue = <<>>
      /\ \A i \in 1..Len(r.queue) :
           /\ r.queue[i].match = Before(r, k) + i
           /\ r.queue[i].pre.counted /\ r.queue[i].pre.at \in 0..(Before(r, k) + i - 1)
           /\ r.queue[i].obsCount \in Counts /\ r.queue[i].obsCount <= Before(r, k)
  BY ContiguousFields, SMTT(30)
<1> DEFINE b == Before(r, k)
           L == Len(r.queue)
           at == answer.at
<1>2. n \in 1..L /\ at = b + n /\ at \in Nat /\ b <= at
  <2>1. n \in 1..L /\ b \in Nat /\ at \in b..k /\ n = at - b /\ k \in Nat
    BY <1>1 DEF Places
  <2> HIDE DEF b, L, at
  <2> QED
    BY <2>1
<1>3. Carried(r, n, answer) = at
  BY DEF Carried
<1>4. /\ p.cacheValid = r.cacheValid
      /\ Len(p.queue) = L - n /\ DOMAIN p.queue = 1..(L - n)
      /\ \A i \in 1..(L - n) : LeftOver(queue[n + i], p.queue[i], Carried(r, n, answer), at)
  BY DEF ConfirmedBooks
<1>5. p.baseline = at
  <2>1. p.baseline = Max({r.baseline, Carried(r, n, answer)})
    BY DEF ConfirmedBooks
  <2>2. p.baseline = Max({r.baseline, at})
    BY <1>3, <2>1
  <2>3. r.baseline <= at
    <3> DEFINE c == r.baseline
    <3>1. c \in Counts /\ c <= b /\ b <= at /\ b \in Nat /\ at \in Nat
      BY <1>1, <1>2
    <3> HIDE DEF c, b, at
    <3>2. c \in Int
      BY <3>1 DEF Counts, Unknown
    <3>3. c <= at
      BY <3>1, <3>2
    <3> QED
      BY <3>3 DEF c
  <2>4. r.baseline \in Counts /\ at \in Nat
    BY <1>1, <1>2
  <2> HIDE DEF at
  <2>5. Max({r.baseline, at}) = at
    BY <2>3, <2>4, MaxOfCounts
  <2> QED
    BY <2>2, <2>5
<1>6. DOMAIN r.queue = 1..L
  BY ContiguousFields
<1>7. \A i \in 1..L : /\ queue[i].match = r.queue[i].match /\ queue[i].pre = r.queue[i].pre
                      /\ queue[i].obsCount = r.queue[i].obsCount
  BY <1>6 DEF Settled, SettledRecord
<1>8. Before(p, k) = at
  <2>1. b \in Nat /\ L \in Nat /\ b + L = k /\ at = b + n
    BY <1>1, <1>2
  <2>2. Before(p, k) = k - (L - n)
    BY <1>4 DEF Before
  <2> HIDE DEF b, L, at, Before
  <2> QED
    BY <1>2, <2>1, <2>2, SMTT(30)
<1> HIDE DEF b, L, at
<1>9. ASSUME NEW i \in 1..(L - n)
      PROVE  /\ p.queue[i].match = at + i
             /\ p.queue[i].pre.counted /\ p.queue[i].pre.at \in 0..(at + i - 1)
             /\ p.queue[i].obsCount <= at
  <2>1. n + i \in 1..L /\ at + i = b + (n + i) /\ i \in Nat
    <3>1. b \in Nat /\ L \in Nat /\ n \in 1..L /\ at = b + n
      BY <1>1, <1>2 DEF b, L
    <3> QED
      BY <3>1, SMTT(30)
  <2>2. /\ queue[n + i].match = b + (n + i)
        /\ queue[n + i].pre.counted /\ queue[n + i].pre.at \in 0..(b + (n + i) - 1)
        /\ queue[n + i].obsCount \in Counts /\ queue[n + i].obsCount <= b
    BY <1>1, <1>7, <2>1 DEF b, L
  <2>3. LeftOver(queue[n + i], p.queue[i], at, at)
    BY <1>3, <1>4
  <2>4. /\ p.queue[i].match = queue[n + i].match /\ p.queue[i].pre = queue[n + i].pre
        /\ p.queue[i].obsCount = Max({queue[n + i].obsCount, at})
    BY <2>3 DEF LeftOver
  <2>5. queue[n + i].obsCount <= at
    <3> DEFINE c == queue[n + i].obsCount
    <3>1. c \in Counts /\ c <= b /\ b <= at /\ b \in Nat /\ at \in Nat
      BY <1>1, <1>2, <2>2 DEF b
    <3> HIDE DEF c
    <3>2. c \in Int
      BY <3>1 DEF Counts, Unknown
    <3>3. c <= at
      BY <3>1, <3>2
    <3> QED
      BY <3>3 DEF c
  <2>6. Max({queue[n + i].obsCount, at}) = at
    BY <1>2, <2>2, <2>5, MaxOfCounts
  <2>7. p.queue[i].obsCount <= at
    BY <1>2, <2>4, <2>6
  <2>8. b + (n + i) - 1 = at + i - 1
    <3>1. b \in Nat /\ n \in Nat /\ at = b + n
      BY <1>1, <1>2 DEF b
    <3> QED
      BY <2>1, <3>1, SMTT(30)
  <2>9. 0..(b + (n + i) - 1) = 0..(at + i - 1)
    BY <2>8
  <2>10. p.queue[i].match = at + i
    BY <2>1, <2>2, <2>4
  <2>11. p.queue[i].pre.counted /\ p.queue[i].pre.at \in 0..(at + i - 1)
    BY <2>2, <2>4, <2>9
  <2> QED
    BY <2>7, <2>10, <2>11
<1>10. ~p.cacheValid
  BY <1>1, <1>4
<1>11. \A i \in DOMAIN p.queue :
         /\ p.queue[i].match = at + i
         /\ p.queue[i].pre.counted /\ p.queue[i].pre.at \in 0..(at + i - 1)
         /\ p.queue[i].obsCount <= at
  BY <1>4, <1>9
<1>12. at >= 0 /\ p.baseline <= at /\ (at > 0 => p.baseline = at)
  BY <1>2, <1>5
<1>13. Contiguous(p, k)
  <2> HIDE DEF Before
  <2> QED
    BY <1>8, <1>10, <1>11, <1>12 DEF Contiguous
<1> QED
  BY <1>8, <1>13 DEF at

\* Deciding results leaves what the counts are compared with.
LEMMA SteadySettled ==
  ASSUME NEW k \in Nat, NEW r, Reconciler(r, k), Contiguous(r, k), r.queue # <<>>,
         NEW p, Settled(r.queue, p.queue), p.baseline = r.baseline, p.cacheValid = r.cacheValid
  PROVE  Contiguous(p, k) /\ Before(p, k) = Before(r, k) /\ p.queue # <<>>
<1>1. /\ Len(p.queue) = Len(r.queue) /\ DOMAIN p.queue = DOMAIN r.queue
      /\ \A i \in DOMAIN r.queue :
           /\ p.queue[i].match = r.queue[i].match /\ p.queue[i].pre = r.queue[i].pre
           /\ p.queue[i].obsCount = r.queue[i].obsCount
  BY DEF Settled, SettledRecord
<1>2. Before(p, k) = Before(r, k)
  BY <1>1 DEF Before
<1>3. p.queue # <<>>
  <2>1. r.queue \in Seq(Records)
    BY DEF Reconciler
  <2>2. 1 \in DOMAIN p.queue
    BY <1>1, <2>1, HeadOfQueue
  <2> QED
    BY <2>2
<1>4. ~r.cacheValid
  BY DEF Contiguous
<1> HIDE DEF Before
<1> QED
  BY <1>1, <1>2, <1>3, <1>4 DEF Contiguous

LEMMA SteadyReconcile ==
  ASSUME NEW k \in Nat, NEW r, Reconciler(r, k), Contiguous(r, k), NEW match,
         IsPending(r, match), NEW answer \in Answers, answer.counted,
         answer.at \in Before(r, k)..k, NEW out, out = Reconcile(r, match, answer)
  PROVE  SteadyOutcome(r, k, answer, out)
<1> DEFINE n == CoveredCount(r, answer)
           queue == Decided(r.queue, n, answer.at)
<1>1. r.queue # <<>> /\ r.queue \in Seq(Records) /\ r.baseline \in Counts /\ IsReconciler(r)
  BY DEF Reconciler, IsReconciler, IsPending
<1>2. answer.at # Unknown /\ answer \in Snapshots
  BY AnswersAreSnapshots
<1>3. n \in 0..Len(r.queue) /\ Len(r.queue) \in Nat
  BY <1>1, CoveredCountBound, LenProperties
<1>4. Settled(r.queue, queue)
  BY <1>1, DecidedSettles
<1>5. n = answer.at - Before(r, k)
  BY <1>1, SteadyCount
<1>6. Before(r, k) \in Nat /\ Before(r, k) + Len(r.queue) = k /\ DOMAIN r.queue = 1..Len(r.queue)
  BY ContiguousFields
<1> HIDE DEF n, queue
<1>7. n \in Nat /\ n = CoveredCount(r, answer) /\ queue = Decided(r.queue, n, answer.at)
  BY <1>3 DEF n, queue
<1>8. \/ n = 0 /\ NothingOut(out) /\ out.rec = Observed(r, answer)
      \/ NothingOut(out) /\ out.rec = r
      \/ /\ NothingOut(out)
         /\ IsReconciler(out.rec) /\ out.rec.queue = queue
         /\ out.rec.baseline = r.baseline /\ out.rec.cache = r.cache
         /\ out.rec.cacheValid = r.cacheValid /\ out.rec.completed = r.completed
         /\ out.rec.points = r.points
      \/ n > 0 /\ Confirmation(r, queue, n, answer, match, out)
  BY <1>1, <1>2, <1>7, ReconcileCases
<1>9. ASSUME NothingOut(out), Contiguous(out.rec, k), Before(out.rec, k) = Before(r, k),
             out.rec.queue # <<>>
      PROVE  SteadyOutcome(r, k, answer, out)
  <2>1. JobSet(out.updates) = {}
    BY <1>9, NoJob DEF NothingOut
  <2> QED
    BY <1>9, <2>1 DEF SteadyOutcome
<1>10. CASE n = 0 /\ NothingOut(out) /\ out.rec = Observed(r, answer)
  <2>1. answer.at = Before(r, k)
    <3> DEFINE b == Before(r, k)
    <3> HIDE DEF b
    <3>1. b \in Nat /\ answer.at \in b..k /\ n = answer.at - b
      BY <1>5, <1>6 DEF b
    <3>2. answer.at = b
      BY <1>10, <3>1
    <3> QED
      BY <3>2 DEF b
  <2>2. /\ Contiguous(out.rec, k) /\ Before(out.rec, k) = Before(r, k) /\ out.rec.queue # <<>>
    BY <1>1, <1>10, <2>1, SteadyObserved
  <2> QED
    BY <1>9, <1>10, <2>2
<1>11. CASE NothingOut(out) /\ out.rec = r
  BY <1>1, <1>9, <1>11
<1>12. CASE /\ NothingOut(out)
            /\ out.rec.queue = queue
            /\ out.rec.baseline = r.baseline /\ out.rec.cacheValid = r.cacheValid
  <2>1. Contiguous(out.rec, k) /\ Before(out.rec, k) = Before(r, k) /\ out.rec.queue # <<>>
    BY <1>1, <1>4, <1>12, SteadySettled
  <2> QED
    BY <1>9, <1>12, <2>1
<1>13. CASE n > 0 /\ Confirmation(r, queue, n, answer, match, out)
  <2>1. n \in Nat /\ Places(r, n)
    BY <1>3, <1>13 DEF Places
  <2>2. ConfirmedBooks(r, out.rec, k, queue, n, answer)
    BY <1>1, <1>4, <1>13, <2>1, ConfirmedKeeps DEF Confirmation
  <2>3. Contiguous(out.rec, k) /\ Before(out.rec, k) = answer.at
    BY <1>1, <1>4, <1>5, <2>1, <2>2, SteadyConfirmed
  <2>4. out.rec.queue = <<>> => out.all
    <3>1. Len(out.rec.queue) = Len(r.queue) - n /\ Len(queue) = Len(r.queue)
      BY <1>4, <2>2 DEF ConfirmedBooks, Settled
    <3>2. out.all = (n = Len(queue))
      BY <1>13 DEF Confirmation
    <3>3. out.rec.queue = <<>> => Len(out.rec.queue) = 0
      OBVIOUS
    <3>4. out.rec.queue = <<>> => n = Len(r.queue)
      <4> DEFINE L == Len(r.queue)
                 rest == Len(out.rec.queue)
      <4>1. L \in Nat /\ n \in Nat /\ rest = L - n /\ (out.rec.queue = <<>> => rest = 0)
        BY <1>3, <2>1, <3>1, <3>3
      <4> HIDE DEF L, rest
      <4>2. rest = 0 => n = L
        BY <4>1
      <4> QED
        BY <4>1, <4>2 DEF L
    <3> QED
      BY <3>1, <3>2, <3>4
  <2>5. \A j \in JobSet(out.updates) : ~j.estimated => j.value = j.match
    <3>1. UpdatesOf(queue, n, answer, k, out.updates)
      BY <1>4, <1>13, <2>1, UpdatesShape DEF Confirmation
    <3>2. DOMAIN out.updates = 1..n
      BY <3>1, LenProperties DEF UpdatesOf
    <3>3. ASSUME NEW i \in 1..n, ~out.updates[i].estimated
          PROVE  out.updates[i].value = out.updates[i].match
      <4>1. /\ out.updates[i].match = queue[i].match /\ out.updates[i].estimated = (i < n)
            /\ out.updates[i].value = ConfirmedValue(i, n, answer)
        BY <3>1 DEF UpdatesOf
      <4>2. i = n
        <5>1. ~(i < n)
          BY <3>3, <4>1
        <5>2. i \in 1..n /\ n \in Nat
          BY <2>1
        <5> QED
          BY <5>1, <5>2
      <4>3. out.updates[i].value = answer.at
        BY <4>1, <4>2 DEF ConfirmedValue
      <4>4. n \in DOMAIN r.queue
        BY <1>6, <2>1 DEF Places
      <4>5. queue[n].match = Before(r, k) + n
        <5>1. queue[n].match = r.queue[n].match
          BY <1>4, <4>4 DEF Settled, SettledRecord
        <5> QED
          BY <4>4, <5>1 DEF Contiguous
      <4>6. Before(r, k) + n = answer.at
        <5> DEFINE b == Before(r, k)
        <5> HIDE DEF b
        <5>1. b \in Nat /\ answer.at \in b..k /\ n = answer.at - b
          BY <1>5, <1>6 DEF b
        <5>2. b + n = answer.at
          BY <5>1
        <5> QED
          BY <5>2 DEF b
      <4> QED
        BY <4>1, <4>2, <4>3, <4>5, <4>6
    <3> QED
      BY <3>2, <3>3 DEF JobSet
  <2> QED
    BY <2>3, <2>4, <2>5 DEF SteadyOutcome
<1> QED
  BY <1>8, <1>10, <1>11, <1>12, <1>13

-----------------------------------------------------------------------------
\* The books stay steady with every step of a steady game.

\* Nothing that the books are about changes but the counts of the provider.
LEMMA SteadyKept ==
  ASSUME SteadyBooks, Basics, Basics', Routed' = Routed, published <= published',
         UNCHANGED <<before, seen, effect, rec, reply>>, calls' \subseteq calls
  PROVE  SteadyBooks'
<1>1. /\ published \in Nat /\ published' \in Nat /\ rec \in {rec'}
  <2>1. published \in 0..Routed /\ published' \in 0..Routed'
    BY DEF Basics, GameTypes
  <2> QED
    BY <2>1
<1>2. TakenInTurn'
  BY DEF SteadyBooks, TakenInTurn
<1>3. Before(rec', Routed') = Before(rec, Routed) /\ Before(rec, Routed) \in Nat
  <2>1. Reconciler(rec, Routed) /\ Contiguous(rec, Routed) /\ Routed \in Nat
    BY RoutedFacts DEF SteadyBooks, QueueSteady, Basics, ProgramTypes
  <2>2. Before(rec, Routed) \in Nat
    BY <2>1, ContiguousFields
  <2> QED
    BY <2>2
<1> DEFINE b == Before(rec, Routed)
<1>4. QueueSteady'
  <2>1. Contiguous(rec', Routed') /\ b <= published
    BY DEF SteadyBooks, QueueSteady
  <2>2. b <= published'
    <3> HIDE DEF b
    <3> QED
      BY <1>1, <1>3, <2>1 DEF b
  <2> QED
    BY <1>3, <2>1, <2>2 DEF QueueSteady
<1>5. ASSUME NEW s \in Snapshots, Plausible(s)
      PROVE  (s.at # Unknown => s.counted) /\ s.at <= published'
  <2>1. s.at \in Int /\ s.at <= published
    BY <1>5, SnapshotFields DEF Plausible
  <2> QED
    BY <1>1, <1>5, <2>1 DEF Plausible
<1>6. SnapshotsPlausible'
  <2>1. before \in Snapshots /\ seen \in Snapshots /\ rec.cache \in Snapshots
    BY DEF Basics, GameTypes, ProgramTypes, Reconciler
  <2>2. effect \in EndEffects => effect.pre \in Snapshots
    BY EffectFields
  <2>3. Plausible(before)' /\ Plausible(seen)' /\ Plausible(rec.cache)'
    BY <1>5, <2>1 DEF SteadyBooks, SnapshotsPlausible, Plausible
  <2>4. effect' \in EndEffects => Plausible(effect.pre)'
    BY <1>5, <2>2 DEF SteadyBooks, SnapshotsPlausible, Plausible
  <2> QED
    BY <2>3, <2>4 DEF SnapshotsPlausible
<1>7. ReplyCounts'
  <2> SUFFICES ASSUME reply # Nothing
               PROVE  reply.answer.counted /\ reply.answer.at \in b..published'
    BY <1>3 DEF ReplyCounts
  <2>1. reply.answer.counted /\ reply.answer.at \in b..published
    BY DEF SteadyBooks, ReplyCounts
  <2> HIDE DEF b
  <2> QED
    BY <1>1, <1>3, <2>1 DEF b
<1>8. SnapshotsFresh'
  BY <1>3 DEF SteadyBooks, SnapshotsFresh, Fresh
<1> QED
  BY <1>2, <1>4, <1>6, <1>7, <1>8 DEF SteadyBooks

LEMMA SteadyFacts ==
  ASSUME Basics, SteadyBooks
  PROVE  /\ Reconciler(rec, Routed) /\ Contiguous(rec, Routed) /\ Routed \in Nat
         /\ Before(rec, Routed) \in Nat /\ published \in Nat
         /\ Before(rec, Routed) <= published /\ published <= Routed
         /\ Routed <= Len(won) /\ Len(won) \in Nat
         /\ rec.queue = <<>> => Before(rec, Routed) = Routed
         /\ before \in Snapshots /\ seen \in Snapshots /\ rec.cache \in Snapshots
<1>1. Reconciler(rec, Routed) /\ Contiguous(rec, Routed) /\ Routed \in Nat /\ Routed <= Len(won)
  BY RoutedFacts DEF SteadyBooks, QueueSteady, Basics, ProgramTypes
<1>2. Before(rec, Routed) \in Nat
  BY <1>1, ContiguousFields
<1>3. published \in 0..Routed /\ Before(rec, Routed) <= published
  BY DEF SteadyBooks, QueueSteady, Basics, GameTypes
<1>4. published \in Nat /\ published <= Routed
  BY <1>1, <1>3
<1>5. rec.queue = <<>> => Before(rec, Routed) = Routed
  BY <1>1 DEF Before
<1>6. before \in Snapshots /\ seen \in Snapshots /\ rec.cache \in Snapshots
  BY <1>1 DEF Basics, GameTypes, Reconciler
<1>7. Len(won) \in Nat
  BY DEF Basics, GameTypes
<1> QED
  BY <1>1, <1>2, <1>3, <1>4, <1>5, <1>6, <1>7

LEMMA NoProfileSteady ==
  ASSUME Basics
  PROVE  Plausible(NoProfile) /\ Fresh(NoProfile)
<1>1. published \in 0..Routed /\ Routed \in Nat
  BY RoutedFacts DEF Basics, GameTypes, ProgramTypes
<1> QED
  BY <1>1 DEF Plausible, Fresh, NoProfile, Unknown

LEMMA StartMatchSteady ==
  ASSUME Basics, SteadyBooks, Steady, StartMatch
  PROVE  SteadyBooks'
<1>1. /\ UNCHANGED <<won, published, effect, rec, reply, calls>> /\ effect = Nothing
      /\ reply = Nothing /\ before' = seen /\ seen' = NoProfile
  BY DEF StartMatch, EventThreadIdle, Steady, world, worker
<1>2. Routed' = Routed
  BY <1>1 DEF Routed
<1>3. Plausible(NoProfile) /\ Fresh(NoProfile)
  BY NoProfileSteady
<1>4. Plausible(before)' /\ Plausible(seen)' /\ Plausible(rec.cache)'
  BY <1>1, <1>3 DEF SteadyBooks, SnapshotsPlausible, Plausible
<1>5. SnapshotsPlausible'
  BY <1>1, <1>4, NothingIsNone DEF SnapshotsPlausible
<1>6. SnapshotsFresh'
  BY <1>1, <1>2, <1>3, NothingIsNone DEF SteadyBooks, SnapshotsFresh, Fresh
<1> QED
  BY <1>1, <1>2, <1>5, <1>6 DEF SteadyBooks, TakenInTurn, QueueSteady, ReplyCounts

LEMMA EndMatchRouted ==
  ASSUME Basics, EndMatch
  PROVE  Routed' = Routed
<1>1. /\ effect = Nothing
      /\ \E kind \in game.kinds, result \in BOOLEAN :
           effect'.kind = kind /\ won' = Append(won, result)
  BY DEF EndMatch, EventThreadIdle
<1>2. Routed = Len(won) /\ won \in Seq(BOOLEAN) /\ game.kinds \subseteq AllKinds
  BY <1>1, NothingIsNone, RoutedFacts, GameFacts DEF Basics, GameTypes, ProgramTypes
<1>3. effect'.kind \in AllKinds /\ Len(won') = Len(won) + 1 /\ Len(won) \in Nat
  BY <1>1, <1>2
<1>4. Routed' = Len(won') - 1
  BY <1>3 DEF Routed
<1> QED
  BY <1>2, <1>3, <1>4

LEMMA EndMatchSteady ==
  ASSUME Basics, Basics', SteadyBooks, Steady, EndMatch
  PROVE  SteadyBooks'
<1>1. /\ UNCHANGED <<published, seen, rec, reply, calls>> /\ effect = Nothing
      /\ reply = Nothing /\ calls = {} /\ before' = NoProfile
  BY DEF EndMatch, EventThreadIdle, Steady, worker
<1> DEFINE snapshot == IF before.at # Unknown THEN before ELSE seen
<1>2. effect'.pre = snapshot
  BY DEF EndMatch
<1>3. Routed' = Routed
  BY EndMatchRouted
<1>4. Plausible(NoProfile) /\ Fresh(NoProfile)
  BY NoProfileSteady
<1>5. Plausible(snapshot) /\ (rec.queue = <<>> => Fresh(snapshot))
  BY <1>1 DEF SteadyBooks, SnapshotsPlausible, SnapshotsFresh
<1> HIDE DEF snapshot
<1>6. Plausible(before)' /\ Plausible(seen)' /\ Plausible(rec.cache)' /\ Plausible(effect.pre)'
  BY <1>1, <1>2, <1>4, <1>5 DEF SteadyBooks, SnapshotsPlausible, Plausible
<1>7. SnapshotsPlausible'
  BY <1>6 DEF SnapshotsPlausible
<1>8. SnapshotsFresh'
  BY <1>1, <1>2, <1>3, <1>4, <1>5 DEF SteadyBooks, SnapshotsFresh, Fresh
<1> QED
  BY <1>1, <1>3, <1>7, <1>8 DEF SteadyBooks, TakenInTurn, QueueSteady, ReplyCounts

LEMMA LateResultSteady ==
  ASSUME Basics, Basics', SteadyBooks, Steady, LateResult
  PROVE  SteadyBooks'
<1>1. /\ UNCHANGED <<won, published, before, seen, rec, reply, calls>> /\ effect = Nothing
      /\ reply = Nothing /\ calls = {}
  BY DEF LateResult, EventThreadIdle, Steady, world, worker
<1>2. effect'.kind = "late"
  BY DEF LateResult
<1>3. effect' \notin EndEffects /\ effect'.kind \notin AllKinds
  BY <1>2 DEF EndEffects, AllKinds, Left
<1>4. Routed' = Routed
  BY <1>1, <1>3, NothingIsNone DEF Routed
<1>5. SnapshotsPlausible'
  BY <1>1, <1>3 DEF SteadyBooks, SnapshotsPlausible, Plausible
<1>6. SnapshotsFresh'
  BY <1>1, <1>3, <1>4 DEF SteadyBooks, SnapshotsFresh, Fresh
<1> QED
  BY <1>1, <1>4, <1>5, <1>6 DEF SteadyBooks, TakenInTurn, QueueSteady, ReplyCounts

LEMMA PublishSteady ==
  ASSUME Basics, Basics', SteadyBooks, Publish
  PROVE  SteadyBooks'
<1>1. /\ UNCHANGED <<won, before, seen, effect, rec, reply, calls>>
      /\ published' \in (published + 1)..Len(won)
  BY DEF Publish, telemetry, worker
<1>2. Routed' = Routed
  BY <1>1 DEF Routed
<1>3. published <= published'
  BY <1>1, SteadyFacts
<1> QED
  BY <1>1, <1>2, <1>3, SteadyKept

LEMMA AnswerSteady ==
  ASSUME Basics, SteadyBooks, Steady, AnswerRoster \/ AnswerPostMatch
  PROVE  SteadyBooks'
<1>1. /\ UNCHANGED <<won, published, before, seen, effect, rec, calls>> /\ effect = Nothing
      /\ reply = Nothing /\ calls = {}
      /\ reply'.answer \in Answer
  BY DEF AnswerRoster, AnswerPostMatch, WorkerFree, Steady, world, telemetry
<1>2. Routed' = Routed
  BY <1>1 DEF Routed
<1>3. reply'.answer.at = published /\ reply'.answer.counted = TRUE
  BY <1>1, AnswerIsReal DEF Steady
<1>4. published \in Before(rec, Routed)..published
  BY SteadyFacts
<1>5. ReplyCounts'
  BY <1>1, <1>2, <1>3, <1>4 DEF ReplyCounts
<1>6. SnapshotsFresh'
  BY <1>1, <1>2 DEF SteadyBooks, SnapshotsFresh, Fresh
<1>7. SnapshotsPlausible'
  BY <1>1 DEF SteadyBooks, SnapshotsPlausible, Plausible
<1> QED
  BY <1>1, <1>2, <1>5, <1>6, <1>7 DEF SteadyBooks, TakenInTurn, QueueSteady

LEMMA LookupFailsSteady ==
  ASSUME Basics, Basics', SteadyBooks, Steady, LookupFails
  PROVE  SteadyBooks'
<1>1. /\ UNCHANGED <<won, published, before, seen, effect, reply, calls>> /\ effect = Nothing
      /\ reply = Nothing /\ calls = {}
  BY DEF LookupFails, WorkerFree, Steady, world, telemetry
<1>2. Routed' = Routed
  BY <1>1 DEF Routed
<1>3. /\ SameBooks(rec, rec', Routed) /\ ObservedQueue(rec.queue, rec'.queue)
      /\ \A i \in DOMAIN rec.queue :
           rec.queue[i].pre.counted => rec'.queue[i].obsCount = rec.queue[i].obsCount
      /\ rec'.baseline = rec.baseline
  BY LookupFailsShape
<1>4. rec'.cache = rec.cache /\ rec'.cacheValid = rec.cacheValid
  BY <1>3 DEF SameBooks
<1>5. /\ Reconciler(rec, Routed) /\ Contiguous(rec, Routed) /\ Routed \in Nat
      /\ rec.queue \in Seq(Records)
  BY SteadyFacts DEF Reconciler
<1>6. Contiguous(rec', Routed) /\ Before(rec', Routed) = Before(rec, Routed)
  BY <1>3, <1>4, <1>5, ContiguousObserved
<1>7. rec'.queue = <<>> => rec.queue = <<>>
  BY <1>3 DEF ObservedQueue
<1>8. QueueSteady'
  BY <1>1, <1>2, <1>6 DEF SteadyBooks, QueueSteady
<1>9. SnapshotsPlausible'
  BY <1>1, <1>4 DEF SteadyBooks, SnapshotsPlausible, Plausible
<1>10. SnapshotsFresh'
  BY <1>1, <1>2, <1>4, <1>6, <1>7 DEF SteadyBooks, SnapshotsFresh, Fresh
<1> QED
  BY <1>1, <1>8, <1>9, <1>10 DEF SteadyBooks, TakenInTurn, ReplyCounts

\* A late result leaves the counts of its record alone.
LEMMA RouteLateSteady ==
  ASSUME Basics, Basics', SteadyBooks, Route, effect \in LateEffects
  PROVE  SteadyBooks'
<1>1. /\ UNCHANGED <<published, before, seen, reply, calls>> /\ effect' = Nothing
      /\ effect # Nothing
  BY DEF Route, world
<1>2. reply = Nothing /\ calls = {}
  BY <1>1 DEF SteadyBooks, TakenInTurn
<1>3. Routed' = Routed /\ rec' = Resolve(rec, effect.match, effect.won)
  BY LateShape
<1>4. effect.won \in BOOLEAN
  BY LateFields
<1>5. /\ Reconciler(rec, Routed) /\ Contiguous(rec, Routed) /\ Routed \in Nat
      /\ Before(rec, Routed) \in Nat
  BY SteadyFacts
<1>6. /\ SameBooks(rec, rec', Routed) /\ rec'.baseline = rec.baseline
      /\ rec'.queue \in Seq(Records) /\ Len(rec'.queue) = Len(rec.queue)
      /\ DOMAIN rec'.queue = DOMAIN rec.queue
      /\ \A i \in DOMAIN rec.queue :
           /\ rec'.queue[i].match = rec.queue[i].match
           /\ rec'.queue[i].pre = rec.queue[i].pre
           /\ rec'.queue[i].obsCount = rec.queue[i].obsCount
  BY <1>3, <1>4, <1>5, ResolveKeeps
<1>7. rec'.cache = rec.cache /\ rec'.cacheValid = rec.cacheValid
  BY <1>6 DEF SameBooks
<1>8. Before(rec', Routed) = Before(rec, Routed)
  BY <1>6 DEF Before
<1>9. rec'.queue = <<>> <=> rec.queue = <<>>
  <2>1. rec.queue \in Seq(Records)
    BY <1>5 DEF Reconciler
  <2> QED
    BY <1>6, <2>1
<1>10. Contiguous(rec', Routed)
  <2> HIDE DEF Before
  <2> QED
    BY <1>5, <1>6, <1>7, <1>8, <1>9 DEF Contiguous
<1>11. effect' \notin EndEffects
  BY <1>1, NothingIsNone
<1>12. QueueSteady'
  BY <1>1, <1>3, <1>8, <1>10 DEF SteadyBooks, QueueSteady
<1>13. SnapshotsPlausible'
  BY <1>1, <1>7, <1>11 DEF SteadyBooks, SnapshotsPlausible, Plausible
<1>14. SnapshotsFresh'
  BY <1>1, <1>3, <1>7, <1>8, <1>9, <1>11 DEF SteadyBooks, SnapshotsFresh, Fresh
<1> QED
  BY <1>1, <1>2, <1>12, <1>13, <1>14 DEF SteadyBooks, TakenInTurn, ReplyCounts

\* The match that has ended is the next of the queue, and no reset is seen.
LEMMA RouteEndSteady ==
  ASSUME Basics, Basics', SteadyBooks, Route, effect \in EndEffects
  PROVE  SteadyBooks'
<1>1. /\ UNCHANGED <<published, before, seen, reply, calls>> /\ effect' = Nothing
      /\ effect # Nothing
  BY DEF Route, world
<1>2. reply = Nothing /\ calls = {}
  BY <1>1 DEF SteadyBooks, TakenInTurn
<1>3. Routed' = Routed + 1 /\ RoutedEnd
  BY EndShape
<1> DEFINE b == Before(rec, Routed)
           q == NewRecord
           longer == Append(rec.queue, q)
           L == Len(rec.queue)
<1>4. /\ Reconciler(rec, Routed) /\ Contiguous(rec, Routed) /\ Routed \in Nat
      /\ b \in Nat /\ published \in Nat /\ b <= published /\ published <= Routed
      /\ rec.queue = <<>> => b = Routed
  BY SteadyFacts
<1>5. /\ L \in Nat /\ b + L = Routed /\ DOMAIN rec.queue = 1..L /\ rec.queue \in Seq(Records)
      /\ rec.baseline \in Counts /\ rec.baseline <= b /\ (b > 0 => rec.baseline = b)
      /\ \A i \in 1..L :
           /\ rec.queue[i].match = b + i
           /\ rec.queue[i].pre.counted /\ rec.queue[i].pre.at \in 0..(b + i - 1)
           /\ rec.queue[i].obsCount \in Counts /\ rec.queue[i].obsCount <= b
  <2>1. rec.queue \in Seq(Records)
    BY <1>4 DEF Reconciler
  <2> QED
    BY <1>4, <2>1, ContiguousFields, SMTT(30)
<1>6. /\ q \in Records /\ q.match = Routed + 1 /\ q.pre = effect.pre /\ q.obsCount = Unknown
  BY NewRecordFields
<1>7. effect.pre.at # Unknown /\ effect.pre.counted /\ effect.pre.at <= published
      /\ effect.pre.at \in Unknown..LastMatch
  <2>1. effect.pre.at # Unknown
    BY DEF Basics, EffectSound
  <2>2. Plausible(effect.pre)
    BY DEF SteadyBooks, SnapshotsPlausible
  <2>3. effect.pre.at \in Unknown..LastMatch
    BY EffectFields, SnapshotFields
  <2> QED
    BY <2>1, <2>2, <2>3 DEF Plausible
<1>8. effect.pre.at \in 0..Routed
  <2>1. effect.pre.at \in Int /\ effect.pre.at >= 0
    BY <1>7, PostMatchAssumption DEF Unknown
  <2> QED
    BY <1>4, <1>7, <2>1
<1>9. rec'.baseline = rec.baseline
  <2> SUFFICES ASSUME rec.queue = <<>>, CountOf(effect.pre) < rec.baseline - 1
               PROVE  FALSE
    BY <1>3 DEF RoutedEnd
  <2>1. Fresh(effect.pre)
    BY DEF SteadyBooks, SnapshotsFresh
  <2>2. effect.pre.at >= b
    BY <1>7, <2>1 DEF Fresh
  <2>3. CountOf(effect.pre) = effect.pre.at
    BY <1>7 DEF CountOf
  <2> HIDE DEF b
  <2>4. rec.baseline \in Int
    BY <1>5 DEF Counts, Unknown
  <2> QED
    BY <1>4, <1>5, <1>8, <2>2, <2>3, <2>4
<1>10. /\ DOMAIN longer = 1..(L + 1) /\ Len(longer) = L + 1 /\ longer[L + 1] = q
       /\ \A i \in 1..L : longer[i] = rec.queue[i]
  BY <1>5, <1>6, AppendProperties
<1>11. /\ ~rec'.cacheValid /\ rec'.cache = rec.cache
       /\ ObservedQueue(longer, rec'.queue)
       /\ \A i \in DOMAIN rec'.queue :
            longer[i].pre.counted => rec'.queue[i].obsCount = longer[i].obsCount
  BY <1>3 DEF RoutedEnd
<1> HIDE DEF longer, q, L, b
<1>12. /\ Len(rec'.queue) = L + 1 /\ DOMAIN rec'.queue = 1..(L + 1)
       /\ \A i \in 1..(L + 1) :
            rec'.queue[i].match = longer[i].match /\ rec'.queue[i].pre = longer[i].pre
  BY <1>10, <1>11 DEF ObservedQueue, ObservedRecord
<1>13. ASSUME NEW i \in 1..(L + 1)
       PROVE  /\ longer[i].match = b + i /\ longer[i].pre.counted
              /\ longer[i].pre.at \in 0..(b + i - 1) /\ longer[i].obsCount <= b
  <2>1. CASE i \in 1..L
    BY <1>5, <1>10, <2>1
  <2>2. CASE i = L + 1
    <3>1. b + i = Routed + 1 /\ b + i - 1 = Routed
      BY <1>4, <1>5, <2>2
    <3>2. longer[i].obsCount <= b
      BY <1>4, <1>6, <1>10, <2>2 DEF Unknown
    <3> QED
      BY <1>6, <1>7, <1>8, <1>10, <2>2, <3>1, <3>2
  <2> QED
    BY <1>5, <2>1, <2>2
<1>14. Before(rec', Routed') = b
  <2>1. Before(rec', Routed') = (Routed + 1) - (L + 1)
    BY <1>3, <1>12 DEF Before
  <2> QED
    BY <1>4, <1>5, <2>1
<1>15. \A i \in DOMAIN rec'.queue :
         /\ rec'.queue[i].match = b + i
         /\ rec'.queue[i].pre.counted /\ rec'.queue[i].pre.at \in 0..(b + i - 1)
         /\ rec'.queue[i].obsCount <= b
  BY <1>11, <1>12, <1>13
<1>16. Contiguous(rec', Routed')
  BY <1>4, <1>5, <1>9, <1>11, <1>14, <1>15 DEF Contiguous
<1>17. rec'.queue # <<>>
  BY <1>5, <1>12
<1>18. effect' \notin EndEffects
  BY <1>1, NothingIsNone
<1>19. QueueSteady'
  BY <1>1, <1>4, <1>14, <1>16 DEF QueueSteady
<1>20. SnapshotsPlausible'
  BY <1>1, <1>11, <1>18 DEF SteadyBooks, SnapshotsPlausible, Plausible
<1>21. SnapshotsFresh'
  BY <1>11, <1>17 DEF SnapshotsFresh
<1> QED
  BY <1>1, <1>2, <1>19, <1>20, <1>21 DEF SteadyBooks, TakenInTurn, ReplyCounts

LEMMA CallBackSteady ==
  ASSUME Basics, Basics', SteadyBooks, CallBack
  PROVE  SteadyBooks'
<1>1. /\ UNCHANGED <<won, published, before, seen, effect, rec, reply>> /\ calls' \subseteq calls
  BY DEF CallBack, world
<1>2. Routed' = Routed
  BY <1>1 DEF Routed
<1>3. published <= published'
  BY <1>1, SteadyFacts
<1> QED
  BY <1>1, <1>2, <1>3, SteadyKept

LEMMA RunJobSteady ==
  ASSUME Basics, Basics', SteadyBooks, RunJob
  PROVE  SteadyBooks'
<1>1. UNCHANGED <<won, published, before, seen, effect, rec, reply, calls>>
  BY DEF RunJob, world, telemetry, worker
<1>2. Routed' = Routed
  BY <1>1 DEF Routed
<1>3. published <= published'
  BY <1>1, SteadyFacts
<1> QED
  BY <1>1, <1>2, <1>3, SteadyKept

LEMMA PublishProfileSteady ==
  ASSUME Basics, Basics', SteadyBooks, Steady, PublishProfile
  PROVE  SteadyBooks'
<1> DEFINE answer == reply.answer
<1>1. /\ UNCHANGED <<won, published, effect, calls>> /\ effect = Nothing /\ reply # Nothing
      /\ reply' = Nothing /\ seen' = answer /\ before' \in {before, answer}
  BY DEF PublishProfile, Steady, world
<1>2. Routed' = Routed
  BY <1>1 DEF Routed
<1>3. PublishedCache(rec, rec') /\ answer \in Answers
  BY PublishProfileShape
<1>4. /\ rec'.queue = rec.queue /\ rec'.baseline = rec.baseline
      /\ \/ rec'.cache = rec.cache /\ rec'.cacheValid = rec.cacheValid
         \/ rec.queue = <<>> /\ rec'.cache = answer /\ rec'.cacheValid
  BY <1>3 DEF PublishedCache
<1>5. /\ Contiguous(rec, Routed) /\ Before(rec, Routed) \in Nat /\ published \in Nat
      /\ Before(rec, Routed) <= published
  BY SteadyFacts
<1>6. answer.counted /\ answer.at \in Before(rec, Routed)..published /\ answer.at # Unknown
  BY <1>1, <1>3, AnswersAreSnapshots DEF SteadyBooks, ReplyCounts
<1>7. Plausible(answer) /\ Fresh(answer)
  <2> DEFINE b == Before(rec, Routed)
  <2>1. answer.counted /\ answer.at \in b..published /\ b \in Nat
    BY <1>5, <1>6
  <2> HIDE DEF b, answer
  <2>2. answer.counted /\ answer.at <= published /\ answer.at >= b
    BY <1>5, <2>1
  <2> QED
    BY <2>2 DEF Plausible, Fresh, b
<1> HIDE DEF answer
<1>8. Before(rec', Routed') = Before(rec, Routed)
  BY <1>2, <1>4 DEF Before
<1>9. Contiguous(rec', Routed')
  <2>1. Contiguous(rec', Routed)
    <3>1. Before(rec', Routed) = Before(rec, Routed)
      BY <1>2, <1>8
    <3> HIDE DEF Before
    <3> QED
      BY <1>4, <1>5, <3>1 DEF Contiguous
  <2> QED
    BY <1>2, <2>1
<1>10. QueueSteady'
  BY <1>1, <1>5, <1>8, <1>9 DEF QueueSteady
<1>11. Plausible(before)' /\ Plausible(seen)' /\ Plausible(rec.cache)'
  BY <1>1, <1>4, <1>7 DEF SteadyBooks, SnapshotsPlausible, Plausible
<1>12. SnapshotsPlausible'
  BY <1>1, <1>11, NothingIsNone DEF SnapshotsPlausible
<1>13. /\ rec'.cacheValid => rec'.cache.at # Unknown
       /\ rec.queue = <<>> => Fresh(before)' /\ Fresh(seen)' /\ (rec'.cacheValid => Fresh(rec.cache)')
  BY <1>1, <1>4, <1>6, <1>7, <1>8 DEF SteadyBooks, SnapshotsFresh, Fresh, answer
<1>14. SnapshotsFresh'
  BY <1>1, <1>4, <1>13, NothingIsNone DEF SnapshotsFresh
<1> QED
  BY <1>1, <1>10, <1>12, <1>14 DEF SteadyBooks, TakenInTurn, ReplyCounts

LEMMA CachedRosterSteady ==
  ASSUME Basics, SteadyBooks, Steady, CachedRoster
  PROVE  SteadyBooks'
<1>1. /\ UNCHANGED <<won, published, effect, rec, reply, calls>> /\ effect = Nothing
      /\ reply = Nothing /\ rec.cacheValid /\ seen' = rec.cache
      /\ before' \in {before, rec.cache}
  BY DEF CachedRoster, WorkerFree, Steady, world, worker
<1>2. Routed' = Routed
  BY <1>1 DEF Routed
<1>3. rec.queue = <<>> /\ Fresh(rec.cache)
  BY <1>1 DEF SteadyBooks, QueueSteady, Contiguous, SnapshotsFresh
<1>4. Plausible(before)' /\ Plausible(seen)' /\ Plausible(rec.cache)'
  BY <1>1 DEF SteadyBooks, SnapshotsPlausible, Plausible
<1>5. SnapshotsPlausible'
  BY <1>1, <1>4, NothingIsNone DEF SnapshotsPlausible
<1>6. SnapshotsFresh'
  BY <1>1, <1>2, <1>3, NothingIsNone DEF SteadyBooks, SnapshotsFresh, Fresh
<1> QED
  BY <1>1, <1>2, <1>5, <1>6 DEF SteadyBooks, TakenInTurn, QueueSteady, ReplyCounts

LEMMA QuietSteady ==
  ASSUME Basics, Basics', SteadyBooks, Steady, Reconciles, Quiet
  PROVE  SteadyBooks'
<1>1. /\ UNCHANGED <<won, published, seen, effect>> /\ effect = Nothing /\ reply # Nothing
  BY DEF Reconciles, Steady, world
<1>2. /\ UNCHANGED <<rec, before, calls>> /\ reply'.answer = reply.answer
      /\ reply'.step = "publish" /\ reply' \in Replies
  BY DEF Quiet
<1>3. Routed' = Routed
  BY <1>1 DEF Routed
<1>4. reply' # Nothing
  BY <1>2 DEF Replies, Nothing
<1>5. ReplyCounts'
  BY <1>1, <1>2, <1>3 DEF SteadyBooks, ReplyCounts
<1>6. SnapshotsFresh'
  BY <1>1, <1>2, <1>3, <1>4 DEF SteadyBooks, SnapshotsFresh, Fresh
<1>7. SnapshotsPlausible'
  BY <1>1, <1>2 DEF SteadyBooks, SnapshotsPlausible, Plausible
<1> QED
  BY <1>1, <1>2, <1>3, <1>5, <1>6, <1>7 DEF SteadyBooks, TakenInTurn, QueueSteady

\* The answer confirms as many matches as it counts more, and the snapshot of the match being
\* played follows it.
LEMMA ActiveSteady ==
  ASSUME Basics, Basics', SteadyBooks, Steady, Reconciles, NEW out, Active(out)
  PROVE  SteadyBooks'
<1> DEFINE answer == reply.answer
           k == Routed
           b == Before(rec, k)
           p == out.rec
<1>1. /\ UNCHANGED <<won, published, seen, effect, playing>> /\ effect = Nothing
      /\ reply # Nothing
  BY DEF Reconciles, Steady, world
<1>2. Routed' = Routed
  BY <1>1 DEF Routed
<1>3. answer \in Answers /\ answer \in Snapshots
  BY <1>1, ReplyFields, AnswersAreSnapshots DEF Basics, ProgramTypes
<1>4. answer.counted /\ answer.at \in b..published
  BY <1>1 DEF SteadyBooks, ReplyCounts
<1>5. /\ Reconciler(rec, k) /\ Contiguous(rec, k) /\ k \in Nat /\ b \in Nat
      /\ published \in Nat /\ published <= k /\ k <= Len(won) /\ Len(won) \in Nat
      /\ before \in Snapshots
  BY SteadyFacts
<1>6. answer.at \in b..k /\ answer.at \in Nat /\ answer.at <= published /\ b <= answer.at
  <2>1. answer.at \in b..published
    BY <1>4
  <2> HIDE DEF answer, k, b
  <2> QED
    BY <1>5, <2>1
<1>7. /\ IsPending(rec, Target) /\ out = Reconcile(rec, Target, answer)
      /\ OutcomeSound(rec, k, Target, out)
      /\ ActiveRec(out) /\ ActiveReply(out) /\ before' = SnapshotAfter(out, answer)
  BY DEF Active
<1>8. SteadyOutcome(rec, k, answer, out)
  BY <1>3, <1>4, <1>5, <1>6, <1>7, SteadyReconcile
<1>9. /\ Contiguous(p, k) /\ (Before(p, k) = b \/ Before(p, k) = answer.at)
      /\ p.queue = <<>> => Before(p, k) = answer.at /\ out.all
  BY <1>8, SMTT(30) DEF SteadyOutcome
<1>10. /\ Reconciler(p, k) /\ p.queue \in Seq(Records) /\ p.cache = rec.cache
       /\ p.cacheValid = rec.cacheValid
       /\ IF out.ok THEN Target \in p.completed ELSE IsPending(p, Target)
  BY <1>7 DEF OutcomeSound, Reconciler
<1>11. /\ ObservedQueue(p.queue, rec'.queue)
       /\ \A i \in DOMAIN p.queue :
            p.queue[i].pre.counted => rec'.queue[i].obsCount = p.queue[i].obsCount
       /\ rec'.baseline = p.baseline /\ rec'.cacheValid = rec.cacheValid
       /\ rec'.cache = IF out.updates = <<>> THEN rec.cache ELSE CacheAfter(out, answer)
       /\ Reconciler(rec', k)
  BY <1>7 DEF ActiveRec
<1> HIDE DEF answer, k, p
<1>12. Contiguous(rec', k) /\ Before(rec', k) = Before(p, k)
  <2>1. rec'.baseline = p.baseline /\ rec'.cacheValid = p.cacheValid
    BY <1>10, <1>11
  <2> DEFINE s == rec'
  <2>2. /\ ObservedQueue(p.queue, s.queue)
        /\ \A i \in DOMAIN p.queue :
             p.queue[i].pre.counted => s.queue[i].obsCount = p.queue[i].obsCount
        /\ s.baseline = p.baseline /\ s.cacheValid = p.cacheValid
    BY <1>11, <2>1
  <2> HIDE DEF s
  <2>3. Contiguous(s, k) /\ Before(s, k) = Before(p, k)
    BY <1>5, <1>9, <1>10, <2>2, ContiguousObserved
  <2> QED
    BY <2>3 DEF s
<1>13. rec'.queue = <<>> => p.queue = <<>>
  BY <1>11 DEF ObservedQueue
<1>14. Before(p, k) \in Nat /\ Before(p, k) <= answer.at
  <2> HIDE DEF b
  <2> QED
    BY <1>5, <1>6, <1>9
<1>15. ~rec'.cacheValid
  <2>1. rec.queue # <<>>
    BY <1>7 DEF IsPending
  <2> QED
    BY <1>5, <1>11, <2>1 DEF Contiguous
<1>16. before' \in {before, answer}
  BY <1>7 DEF SnapshotAfter
<1>17. Before(rec', Routed') = Before(p, k)
  BY <1>2, <1>12 DEF k
<1>18. QueueSteady'
  <2>1. Before(p, k) <= published
    BY <1>5, <1>6, <1>14
  <2>2. Contiguous(rec', Routed')
    BY <1>2, <1>12 DEF k
  <2> QED
    BY <1>1, <1>17, <2>1, <2>2 DEF QueueSteady
<1>19. Plausible(answer)
  BY <1>4, <1>6 DEF Plausible
<1>20. SnapshotsPlausible'
  <2>1. rec'.cache \in {rec.cache, answer}
    <3>1. CacheAfter(out, answer) \in {answer, p.cache}
      <4>1. out.rec.cache \in Snapshots /\ out.rec.cache = p.cache
        BY <1>10 DEF Reconciler, p
      <4> QED
        BY <1>3, <1>4, <4>1, CacheAfterSnapshot
    <3> QED
      BY <1>10, <1>11, <3>1
  <2>2. Plausible(before)' /\ Plausible(seen)' /\ Plausible(rec.cache)'
    BY <1>1, <1>16, <1>19, <2>1 DEF SteadyBooks, SnapshotsPlausible, Plausible
  <2> QED
    BY <1>1, <2>2, NothingIsNone DEF SnapshotsPlausible
<1>21. ReplyCounts'
  <2> SUFFICES ASSUME reply' # Nothing
               PROVE  reply'.answer.counted /\ reply'.answer.at \in Before(rec', Routed')..published
    BY <1>1 DEF ReplyCounts
  <2>1. reply'.answer = answer
    BY <1>7 DEF ActiveReply, answer
  <2>2. answer.at \in Before(p, k)..published
    BY <1>5, <1>6, <1>14
  <2> QED
    BY <1>4, <1>17, <2>1, <2>2
<1>22. ASSUME rec'.queue = <<>>
       PROVE  Fresh(before)' /\ reply' # Nothing /\ reply'.step = "publish"
  <2>1. p.queue = <<>> /\ Before(p, k) = answer.at /\ out.all
    BY <1>9, <1>13, <1>22
  <2>2. ~IsPending(p, Target)
    BY <2>1 DEF IsPending
  <2>3. out.ok
    BY <1>10, <2>2
  <2>4. reply' # Nothing /\ reply'.step = "publish"
    <3>1. reply' \in Replies /\ reply'.step = "publish"
      BY <1>7, <2>3 DEF ActiveReply
    <3> QED
      BY <3>1 DEF Replies, Nothing
  <2>5. playing # 0 => playing \notin p.completed /\ ~IsPending(p, playing)
    <3> SUFFICES ASSUME playing # 0
                 PROVE  playing \notin p.completed
      BY <2>1 DEF IsPending
    <3>1. playing = Len(won) + 1
      BY DEF Basics, GameTypes
    <3>2. playing > k
      BY <1>5, <3>1
    <3>3. p.completed \subseteq 1..k
      BY <1>10 DEF Reconciler
    <3> QED
      BY <1>5, <3>2, <3>3
  <2>6. before'.at = Unknown \/ before'.at >= answer.at
    <3>1. CASE before' = answer
      BY <1>6, <3>1
    <3>2. CASE before' # answer
      <4>1. before' = before
        BY <1>16, <3>2
      <4>2. ~(playing # 0 /\ before.counted /\ before.at < answer.at)
        BY <1>4, <1>7, <2>1, <2>5, <3>2 DEF SnapshotAfter, p
      <4>3. playing = 0 => before.at = Unknown
        BY DEF Basics, GameTypes
      <4>4. ~before.counted => before.at = Unknown
        BY DEF SteadyBooks, SnapshotsPlausible, Plausible
      <4>5. ~(before.at < answer.at) => before.at >= answer.at
        <5>1. before.at \in Int
          BY <1>5, SnapshotFields
        <5> QED
          BY <1>6, <5>1
      <4> QED
        BY <4>1, <4>2, <4>3, <4>4, <4>5
    <3> QED
      BY <3>1, <3>2
  <2> QED
    BY <1>17, <2>1, <2>4, <2>6 DEF Fresh
<1>23. SnapshotsFresh'
  BY <1>1, <1>15, <1>22, NothingIsNone DEF SnapshotsFresh
<1>24. TakenInTurn'
  BY <1>1 DEF TakenInTurn
<1> QED
  BY <1>18, <1>20, <1>21, <1>23, <1>24 DEF SteadyBooks

LEMMA SteadyInit ==
  ASSUME RatingInit
  PROVE  SteadyInv
<1>1. /\ won = <<>> /\ published = 0 /\ before = NoProfile
      /\ seen = [at |-> 0, counted |-> ~game.countless]
      /\ effect = Nothing /\ reply = Nothing /\ calls = {}
      /\ rec = [queue |-> <<>>, completed |-> {}, baseline |-> Unknown, points |-> <<>>,
                cache |-> NoProfile, cacheValid |-> FALSE]
  BY DEF RatingInit
<1>2. Routed = 0 /\ Basics
  <2>1. Routed = Len(won)
    BY <1>1, NothingIsNone DEF Routed
  <2> QED
    BY <1>1, <2>1, BasicsInit
<1>3. /\ rec.queue = <<>> /\ rec.baseline = -1 /\ ~rec.cacheValid /\ rec.cache = NoProfile
      /\ DOMAIN rec.queue = {}
  BY <1>1 DEF Unknown
<1>4. Before(rec, Routed) = 0
  <2>1. Len(rec.queue) = 0 /\ Routed = 0
    BY <1>2, <1>3
  <2>2. Routed - Len(rec.queue) = 0
    BY <2>1
  <2> QED
    BY <2>2 DEF Before
<1>5. QueueSteady
  <2>1. Contiguous(rec, Routed)
    <3> HIDE DEF Before
    <3> QED
      BY <1>3, <1>4 DEF Contiguous
  <2> QED
    BY <1>1, <1>4, <2>1 DEF QueueSteady
<1>6. Plausible(NoProfile) /\ Fresh(NoProfile)
  BY <1>2, NoProfileSteady
<1>7. seen.at = 0 /\ (Steady => seen.counted)
  BY <1>1 DEF Steady
<1>8. effect \notin EndEffects
  BY <1>1, NothingIsNone
<1>9. Steady => SnapshotsPlausible
  BY <1>1, <1>3, <1>6, <1>7, <1>8 DEF SnapshotsPlausible, Plausible
<1>10. Fresh(seen)
  BY <1>4, <1>7 DEF Fresh
<1>11. SnapshotsFresh
  BY <1>1, <1>3, <1>6, <1>8, <1>10 DEF SnapshotsFresh
<1>12. TakenInTurn /\ ReplyCounts
  BY <1>1 DEF TakenInTurn, ReplyCounts
<1> QED
  BY <1>5, <1>9, <1>11, <1>12 DEF SteadyInv, SteadyBooks

LEMMA SteadyNext ==
  ASSUME Basics, Basics', SteadyBooks, Steady, RatingNext
  PROVE  SteadyBooks'
<1>1. CASE Route
  <2>1. effect \in EndEffects \/ effect \in LateEffects
    BY <1>1 DEF Route, Basics, ProgramTypes
  <2> QED
    BY <1>1, <2>1, RouteLateSteady, RouteEndSteady
<1>2. CASE Reconciles
  BY <1>2, ReconcilesShape, QuietSteady, ActiveSteady
<1> QED
  BY <1>1, <1>2, StartMatchSteady, EndMatchSteady, LateResultSteady, PublishSteady, AnswerSteady,
     LookupFailsSteady, CallBackSteady, PublishProfileSteady, CachedRosterSteady, RunJobSteady
     DEF RatingNext

LEMMA SteadyInvKept ==
  ASSUME Basics, SteadyInv, [RatingNext]_ratingVars
  PROVE  SteadyInv'
<1>1. Steady' => Steady
  BY GameNeverChanges DEF Steady
<1>2. Basics'
  BY BasicsNext
<1>3. CASE Steady /\ RatingNext
  BY <1>2, <1>3, SteadyNext DEF SteadyInv
<1>4. CASE Steady /\ UNCHANGED ratingVars
  <2>1. UNCHANGED <<won, published, before, seen, effect, rec, reply, calls>>
    BY <1>4 DEF ratingVars
  <2>2. Routed' = Routed
    BY <2>1 DEF Routed
  <2>3. SteadyBooks
    BY <1>4 DEF SteadyInv
  <2>4. published <= published'
    BY <2>1, <2>3, SteadyFacts
  <2>5. SteadyBooks'
    BY <1>2, <2>1, <2>2, <2>3, <2>4, SteadyKept
  <2> QED
    BY <2>5 DEF SteadyInv
<1> QED
  BY <1>1, <1>3, <1>4 DEF SteadyInv

-----------------------------------------------------------------------------
\* In a steady game an exact update, and so an exact row, has the number of its own match.

LEMMA JobsStayExact ==
  ASSUME Basics, Basics', SteadyBooks, Steady, ExactUpdates, RatingNext
  PROVE  ExactUpdates'
<1>1. /\ Reconciler(rec, Routed) /\ Routed \in Nat /\ jobs \in Seq(Jobs)
      /\ \A j \in JobSet(jobs) : j.op = "update" /\ ~j.estimated => j.value = j.match
  BY RoutedFacts DEF Basics, ProgramTypes, Jobs, ExactUpdates
<1>2. SUFFICES ASSUME NEW j \in JobSet(jobs'), j \notin JobSet(jobs),
                      j.op = "update", ~j.estimated
               PROVE  j.value = j.match
  BY <1>1 DEF ExactUpdates
<1>3. jobs' # jobs
  BY <1>2
<1>4. CASE Route
  <2>1. CASE effect \in LateEffects
    <3> PICK job \in SaveJobs : job.op = "save" /\ JobSet(jobs') = JobSet(jobs) \cup {job}
      BY <1>4, <2>1, LateShape
    <3>1. j = job
      BY <1>2
    <3> QED
      BY <1>2, <3>1
  <2>2. CASE effect \in EndEffects
    <3>1. \A l \in JobSet(jobs') \ JobSet(jobs) : l.estimated
      BY <1>4, <2>2, EndShape DEF RoutedJobs
    <3> QED
      BY <1>2, <3>1
  <2>3. effect \in EndEffects \/ effect \in LateEffects
    BY <1>4 DEF Route, Basics, ProgramTypes
  <2> QED
    BY <2>1, <2>2, <2>3
<1>5. CASE LookupFails
  <2>1. \A l \in JobSet(jobs') \ JobSet(jobs) : l.estimated
    BY <1>5, LookupFailsShape DEF OnlyEstimates
  <2> QED
    BY <1>2, <2>1
<1>6. CASE Reconciles
  <2>1. ~Quiet
    BY <1>3 DEF Quiet
  <2> PICK out : Active(out)
    BY <1>6, <2>1, ReconcilesShape
  <2> DEFINE answer == reply.answer
  <2>2. answer \in Answers /\ answer.counted /\ answer.at \in Before(rec, Routed)..published
    <3>1. reply # Nothing
      BY <1>6 DEF Reconciles
    <3> QED
      BY <3>1, ReplyFields DEF Basics, ProgramTypes, SteadyBooks, ReplyCounts
  <2>3. /\ Contiguous(rec, Routed) /\ Before(rec, Routed) \in Nat
        /\ published \in Nat /\ published <= Routed
    BY SteadyFacts
  <2>4. answer.at \in Before(rec, Routed)..Routed
    <3> DEFINE b == Before(rec, Routed)
               at == answer.at
    <3>1. at \in b..published /\ b \in Nat
      BY <2>2, <2>3
    <3> HIDE DEF b, at
    <3>2. at \in b..Routed
      BY <1>1, <2>3, <3>1
    <3> QED
      BY <3>2 DEF b, at
  <2>5. /\ IsPending(rec, Target) /\ out = Reconcile(rec, Target, answer)
        /\ OnlyEstimates(jobs \o out.updates, jobs') /\ out.updates \in Seq(Jobs)
    BY DEF Active, ActiveJobs, OutcomeSound
  <2> HIDE DEF answer
  <2>6. SteadyOutcome(rec, Routed, answer, out)
    BY <1>1, <2>2, <2>3, <2>4, <2>5, SteadyReconcile
  <2>7. JobSet(jobs \o out.updates) = JobSet(jobs) \cup JobSet(out.updates)
    BY <1>1, <2>5, ConcatJobSet
  <2>8. j \in JobSet(out.updates)
    BY <1>2, <2>5, <2>7 DEF OnlyEstimates
  <2> QED
    BY <1>2, <2>6, <2>8 DEF SteadyOutcome
<1>7. CASE CallBack
  <2> PICK c \in calls :
        jobs' = IF c.match \in undecided
                THEN Append(jobs, SaveJob(c.match, c.won, TRUE)) ELSE jobs
    BY <1>7 DEF CallBack
  <2> DEFINE job == SaveJob(c.match, c.won, TRUE)
  <2>1. job \in Jobs /\ job.op = "save"
    <3>1. c.match \in Matches /\ c.won \in BOOLEAN
      BY CallFields
    <3> QED
      BY <3>1, FinalSave
  <2>2. jobs' = Append(jobs, job)
    BY <1>3
  <2> HIDE DEF job
  <2>3. JobSet(jobs') = JobSet(jobs) \cup {job}
    BY <1>1, <2>1, <2>2, AppendedSet
  <2>4. j = job
    BY <1>2, <2>3
  <2> QED
    BY <1>2, <2>1, <2>4
<1>8. CASE RunJob
  <2>1. JobSet(jobs') \subseteq JobSet(jobs)
    BY <1>8, RunJobFacts
  <2> QED
    BY <1>2, <2>1
<1> QED
  BY <1>3, <1>4, <1>5, <1>6, <1>7, <1>8 DEF RatingNext, StartMatch, EndMatch, LateResult, Publish,
     AnswerRoster, AnswerPostMatch, PublishProfile, CachedRoster, database

LEMMA RowsStayExact ==
  ASSUME Basics, RowsInv, NoTies, Steady, ExactUpdates, RatingNext, ExactIsOwnRating
  PROVE  ExactIsOwnRating'
<1>1. SUFFICES ASSUME NEW m \in DOMAIN rows', ~rows'[m].estimated
               PROVE  rows'[m].value = m
  BY DEF ExactIsOwnRating
<1>2. \A l \in DOMAIN rows : ~rows[l].estimated => rows[l].value = l
  BY DEF ExactIsOwnRating
<1>3. CASE RunJob
  <2>1. \/ m \in DOMAIN rows /\ ~rows[m].estimated
        \/ /\ IsUpdate(Head(jobs), m) /\ ~Head(jobs).estimated
           /\ rows'[m].value = Head(jobs).value
    BY <1>1, <1>3, RunJobRows
  <2>2. m \in DOMAIN rows /\ ~rows[m].estimated => rows'[m].value = m
    BY <1>2, <1>3, RunJobRows
  <2>3. Head(jobs) \in JobSet(jobs)
    BY <1>3, RunJobFacts
  <2> QED
    BY <2>1, <2>2, <2>3 DEF ExactUpdates, IsUpdate
<1>4. CASE UNCHANGED rows
  BY <1>1, <1>2, <1>4
<1> QED
  BY <1>3, <1>4 DEF RatingNext, StartMatch, EndMatch, LateResult, Publish, Route,
     AnswerRoster, AnswerPostMatch, LookupFails, Reconciles, CallBack, PublishProfile,
     CachedRoster, database

LEMMA ExactValuesInit ==
  ASSUME RatingInit
  PROVE  ExactValues
<1>1. jobs = <<>> /\ rows = <<>>
  BY DEF RatingInit
<1>2. JobSet(jobs) = {} /\ DOMAIN rows = {}
  BY <1>1, NoJob
<1> QED
  BY <1>2 DEF ExactValues, ExactUpdates, ExactIsOwnRating

LEMMA ExactValuesKept ==
  ASSUME Basics, RowsInv, SteadyInv, ExactValues, [RatingNext]_ratingVars
  PROVE  ExactValues'
<1>1. (Steady' <=> Steady) /\ (NoTies' <=> NoTies)
  BY GameNeverChanges DEF Steady, NoTies
<1>2. CASE Steady /\ RatingNext
  <2>1. SteadyBooks /\ ExactUpdates /\ Basics'
    BY <1>2, BasicsNext DEF SteadyInv, ExactValues
  <2>2. ExactUpdates'
    BY <1>2, <2>1, JobsStayExact
  <2>3. NoTies => ExactIsOwnRating'
    BY <1>2, <2>1, RowsStayExact DEF ExactValues
  <2> QED
    BY <1>1, <2>2, <2>3 DEF ExactValues
<1>3. CASE UNCHANGED ratingVars
  <2>1. UNCHANGED <<game, jobs, rows>>
    BY <1>3 DEF ratingVars
  <2>2. (ExactUpdates => ExactUpdates') /\ (ExactIsOwnRating => ExactIsOwnRating')
    BY <1>1, <2>1 DEF ExactUpdates, ExactIsOwnRating
  <2> QED
    BY <1>1, <2>2 DEF ExactValues
<1> QED
  BY <1>1, <1>2, <1>3 DEF ExactValues

LEMMA InvariantImpliesRatings ==
  ASSUME Basics, SteadyInv, ExactValues
  PROVE  RatingsAreReal
<1>1. ExactIsOwnRating
  BY DEF ExactValues, ExactIsOwnRating
<1>2. ASSUME Steady
      PROVE  /\ Reconciler(rec, Routed) /\ Contiguous(rec, Routed) /\ Routed \in Nat
             /\ Before(rec, Routed) \in Nat /\ published \in Nat
             /\ Before(rec, Routed) <= published
  BY <1>2, SteadyFacts DEF SteadyInv
<1>3. ConfirmedWasPublished
  <2> SUFFICES ASSUME Steady, NEW m \in DOMAIN rec.points, rec.points[m].covered
               PROVE  m <= published
    BY DEF ConfirmedWasPublished
  <2> DEFINE b == Before(rec, Routed)
             L == Len(rec.queue)
  <2>1. m \in 1..Routed /\ Covered(rec, m) /\ ~IsPending(rec, m)
    BY <1>2 DEF Reconciler, Covered
  <2>2. /\ b \in Nat /\ L \in Nat /\ b + L = Routed /\ DOMAIN rec.queue = 1..L
        /\ \A i \in 1..L : rec.queue[i].match = b + i
    BY <1>2, ContiguousFields
  <2>3. \A i \in 1..L : m # b + i
    BY <2>1, <2>2 DEF IsPending
  <2>4. b <= published /\ published \in Nat
    BY <1>2
  <2> HIDE DEF b, L
  <2>5. m <= b
    <3> SUFFICES ASSUME m > b
                 PROVE  FALSE
      BY <1>2, <2>1, <2>2
    <3>1. m - b \in 1..L /\ m = b + (m - b)
      BY <1>2, <2>1, <2>2
    <3> QED
      BY <2>3, <3>1
  <2> QED
    BY <1>2, <2>1, <2>2, <2>4, <2>5
<1>4. CountNotAhead
  <2> SUFFICES ASSUME Steady
               PROVE  rec.baseline <= published
    BY DEF CountNotAhead
  <2> DEFINE b == Before(rec, Routed)
             c == rec.baseline
  <2>1. b \in Nat /\ c \in Counts /\ c <= b /\ b <= published /\ published \in Nat
    BY <1>2, ContiguousFields
  <2> HIDE DEF b, c
  <2>2. c \in Int
    BY <2>1 DEF Counts, Unknown
  <2>3. c <= published
    BY <2>1, <2>2
  <2> QED
    BY <2>3 DEF c
<1> QED
  BY <1>1, <1>3, <1>4 DEF RatingsAreReal

-----------------------------------------------------------------------------
\* The real results explain a change of rating, so that what all explanations agree on is real.

WonIn(a, b) == {i \in a..b : won[i]}

LEMMA WonInFinite ==
  ASSUME NEW a \in Int, NEW b \in Int
  PROVE  IsFiniteSet(WonIn(a, b)) /\ Cardinality(WonIn(a, b)) \in Nat
<1>1. IsFiniteSet(a..b)
  BY FS_Interval
<1>2. WonIn(a, b) \in SUBSET (a..b)
  BY DEF WonIn
<1>3. IsFiniteSet(WonIn(a, b))
  BY <1>1, <1>2, FS_Subset
<1> QED
  BY <1>3, FS_CardinalityType

LEMMA WonSplit ==
  ASSUME NEW a \in Nat, NEW b \in Nat, a <= b
  PROVE  Cardinality(WonIn(1, b)) = Cardinality(WonIn(1, a)) + Cardinality(WonIn(a + 1, b))
<1> DEFINE S == WonIn(1, a)
           T == WonIn(a + 1, b)
<1>1. IsFiniteSet(S) /\ Cardinality(S) \in Nat /\ IsFiniteSet(T) /\ Cardinality(T) \in Nat
  BY WonInFinite
<1>2. S \cup T = WonIn(1, b)
  BY DEF WonIn
<1>3. S \cap T = {}
  BY DEF WonIn
<1> HIDE DEF S, T
<1>4. Cardinality(S \cup T) = Cardinality(S) + Cardinality(T) - Cardinality(S \cap T)
  BY <1>1, FS_Union
<1>5. Cardinality({}) = 0
  BY FS_EmptySet
<1>6. Cardinality(S \cup T) = Cardinality(S) + Cardinality(T)
  <2>1. Cardinality(S \cap T) = 0
    BY <1>3, <1>5
  <2> DEFINE both == S \cup T
             common == S \cap T
  <2>2. Cardinality(both) = Cardinality(S) + Cardinality(T) - Cardinality(common)
    BY <1>4
  <2>3. Cardinality(common) = 0
    BY <2>1
  <2> HIDE DEF both, common
  <2>4. Cardinality(both) = Cardinality(S) + Cardinality(T)
    BY <1>1, <2>2, <2>3
  <2> QED
    BY <2>4 DEF both
<1> QED
  BY <1>2, <1>6 DEF S, T

LEMMA WinsUpTo ==
  ASSUME GameTypes, NEW at \in Nat, at <= Len(won)
  PROVE  Wins(SubSeq(won, 1, at)) = Cardinality(WonIn(1, at))
<1> DEFINE played == SubSeq(won, 1, at)
<1>1. \A i \in 1..at : won[i] \in BOOLEAN
  BY GameFacts
<1>2. /\ played \in Seq(BOOLEAN) /\ Len(played) = at
      /\ \A i \in 1..at : played[i] = won[i]
  <2>1. /\ played \in Seq(BOOLEAN)
        /\ Len(played) = IF 1 <= at THEN at - 1 + 1 ELSE 0
        /\ \A i \in 1..(at - 1 + 1) : played[i] = won[1 + i - 1]
    BY <1>1, SubSeqProperties
  <2> HIDE DEF played
  <2> QED
    BY <2>1
<1> HIDE DEF played
<1>3. DOMAIN played = 1..at
  BY <1>2, LenProperties
<1>4. {i \in DOMAIN played : played[i]} = WonIn(1, at)
  BY <1>2, <1>3 DEF WonIn
<1> QED
  BY <1>4 DEF Wins, played

LEMMA RatingChange ==
  ASSUME GameTypes, NEW a \in Nat, NEW b \in Nat, a <= b, b <= Len(won)
  PROVE  /\ Rating(a) \in Int /\ Cardinality(WonIn(a + 1, b)) \in Nat
         /\ Rating(b) = Rating(a) + 5 * Cardinality(WonIn(a + 1, b)) - 2 * (b - a)
<1> DEFINE w == Cardinality(WonIn(1, a))
           x == Cardinality(WonIn(1, b))
           d == Cardinality(WonIn(a + 1, b))
<1>1. w \in Nat /\ x \in Nat /\ d \in Nat /\ x = w + d
  <2>1. a \in Int /\ b \in Int /\ a + 1 \in Int /\ 1 \in Int
    OBVIOUS
  <2>2. w \in Nat /\ x \in Nat /\ d \in Nat
    BY <2>1, WonInFinite
  <2>3. x = w + d
    BY WonSplit
  <2> QED
    BY <2>2, <2>3
<1>2. Len(won) \in Nat
  BY GameFacts
<1>3. a <= Len(won)
  BY <1>2
<1>4. Wins(SubSeq(won, 1, a)) = w /\ Wins(SubSeq(won, 1, b)) = x
  BY <1>3, WinsUpTo
<1> HIDE DEF w, x, d
<1>5. Rating(a) = 3 * w - 2 * (a - w) /\ Rating(b) = 3 * x - 2 * (b - x)
  BY <1>4 DEF Rating
<1>6. 3 * x - 2 * (b - x) = (3 * w - 2 * (a - w)) + 5 * d - 2 * (b - a)
  BY <1>1
<1>7. 3 * w - 2 * (a - w) \in Int
  BY <1>1
<1> QED
  BY <1>1, <1>5, <1>6, <1>7 DEF d

\* The results of the n matches after a.
IsOutcome(results, a, n) ==
  /\ results \in [1..n -> BOOLEAN]
  /\ \A i \in 1..n : results[i] = won[a + i]

LEMMA OutcomeWins ==
  ASSUME NEW a \in Nat, NEW n \in Nat, NEW results, IsOutcome(results, a, n)
  PROVE  Len(results) = n /\ Wins(results) = Cardinality(WonIn(a + 1, a + n))
<1>1. /\ results \in [1..n -> BOOLEAN] /\ DOMAIN results = 1..n
      /\ \A i \in 1..n : results[i] = won[a + i]
  BY DEF IsOutcome
<1>2. Len(results) = n
  BY <1>1, IsASeq, LenProperties
<1> DEFINE S == {i \in 1..n : results[i]}
           T == WonIn(a + 1, a + n)
           f == [i \in S |-> a + i]
<1>3. f \in Bijection(S, T)
  <2>1. \A i \in S : f[i] \in T
    BY <1>1 DEF WonIn
  <2>2. \A i, j \in S : f[i] = f[j] => i = j
    OBVIOUS
  <2>3. ASSUME NEW t \in T
        PROVE  \E i \in S : f[i] = t
    <3>1. t \in (a + 1)..(a + n) /\ won[t]
      BY <2>3 DEF WonIn
    <3>2. t - a \in 1..n /\ a + (t - a) = t
      BY <3>1
    <3>3. t - a \in S
      BY <1>1, <3>1, <3>2
    <3> QED
      BY <3>2, <3>3
  <2>4. f \in [S -> T]
    BY <2>1
  <2> HIDE DEF f, S, T
  <2> QED
    BY <2>2, <2>3, <2>4, Fun_IsBij
<1>4. IsFiniteSet(S)
  <2>1. IsFiniteSet(1..n) /\ S \in SUBSET (1..n)
    BY FS_Interval
  <2> HIDE DEF S
  <2> QED
    BY <2>1, FS_Subset
<1>5. Wins(results) = Cardinality(S)
  BY <1>1 DEF Wins
<1> HIDE DEF f, S, T
<1>6. Cardinality(T) = Cardinality(S)
  <2>1. ExistsBijection(S, T)
    BY <1>3, Fun_ExistsBij
  <2> QED
    BY <1>4, <2>1, FS_Bijection
<1> QED
  BY <1>2, <1>5, <1>6 DEF T

LEMMA RealPath ==
  ASSUME GameTypes, NEW a \in Nat, NEW n \in Nat, n > 0, a + n <= Len(won),
         NEW results, IsOutcome(results, a, n)
  PROVE  Directional(a, a + n, results)
<1> DEFINE w == Cardinality(WonIn(a + 1, a + n))
           from == Rating(a)
           to == Rating(a + n)
<1>1. Len(results) = n /\ Wins(results) = w
  BY OutcomeWins
<1>2. from \in Int /\ w \in Nat /\ to = from + 5 * w - 2 * n
  <2>1. a + n \in Nat /\ a <= a + n /\ (a + n) - a = n
    OBVIOUS
  <2>2. /\ Rating(a) \in Int /\ Cardinality(WonIn(a + 1, a + n)) \in Nat
        /\ Rating(a + n) = Rating(a) + 5 * Cardinality(WonIn(a + 1, a + n)) - 2 * ((a + n) - a)
    BY <2>1, RatingChange
  <2> QED
    BY <2>1, <2>2
<1> HIDE DEF w, from, to
<1>3. CASE to > from
  <2>1. w > 0 /\ ~(to < from)
    BY <1>2, <1>3
  <2> QED
    BY <1>1, <1>3, <2>1 DEF Directional, from, to
<1>4. CASE to < from
  <2>1. n - w > 0 /\ ~(to > from)
    BY <1>2, <1>4
  <2> QED
    BY <1>1, <1>4, <2>1 DEF Directional, from, to
<1>5. CASE ~(to > from) /\ ~(to < from)
  <2>1. w > 0 /\ n - w > 0
    BY <1>2, <1>5
  <2> QED
    BY <1>1, <1>5, <2>1 DEF Directional, from, to
<1> QED
  BY <1>3, <1>4, <1>5

LEMMA ToldLonger ==
  ASSUME NEW q \in Records, NEW low \in Int, NEW upTo \in Int, low <= upTo, Told(q, low)
  PROVE  Told(q, upTo)
<1>1. q.match \in Int
  BY RecordFields DEF Matches
<1>2. CASE Inferred(q)
  <2>1. q.match <= low
    BY <1>2 DEF Told
  <2>2. q.match <= upTo
    BY <1>1, <2>1
  <2> QED
    BY <1>2, <2>2 DEF Told
<1>3. CASE ~Inferred(q)
  BY <1>3 DEF Told
<1> QED
  BY <1>2, <1>3

LEMMA ToldSame ==
  ASSUME NEW p, NEW q, ObservedRecord(p, q), NEW upTo, Told(p, upTo)
  PROVE  Told(q, upTo)
BY DEF Told, ObservedRecord, Inferred, HasResult

LEMMA ObservedTold ==
  ASSUME NEW queue \in Seq(Records), NEW new, ObservedQueue(queue, new),
         NEW low \in Int, NEW upTo \in Int, low <= upTo, QueueTold(queue, low)
  PROVE  QueueTold(new, upTo)
<1>1. /\ DOMAIN new = DOMAIN queue /\ Len(new) = Len(queue) /\ new \in Seq(Records)
      /\ \A i \in DOMAIN queue : ObservedRecord(queue[i], new[i])
  BY DEF ObservedQueue
<1>2. \A i \in DOMAIN queue : queue[i] \in Records /\ Told(queue[i], low)
  BY DEF QueueTold
<1>3. \A i \in DOMAIN queue : Told(new[i], upTo)
  BY <1>1, <1>2, ToldLonger, ToldSame
<1>4. ASSUME new # <<>>, FromMatchBefore(new), NEW i \in DOMAIN queue
      PROVE  HasResult(new[i])
  <2>1. 1 \in DOMAIN queue
    BY <1>1, <1>4, HeadOfQueue
  <2>2. queue # <<>> /\ FromMatchBefore(queue)
    BY <1>1, <1>4, <2>1 DEF FromMatchBefore, ObservedRecord
  <2>3. HasResult(queue[i])
    BY <1>4, <2>2 DEF QueueTold
  <2> QED
    BY <1>1, <2>3 DEF HasResult, ObservedRecord
<1> QED
  BY <1>1, <1>3, <1>4 DEF QueueTold

\* Where matches only end or are left tied, nothing but the change of rating decides.
DecidedByRating(queue) ==
  \A i \in DOMAIN queue :
    /\ queue[i].kind # "forfeit"
    /\ queue[i].kind # "tied" => queue[i].known

LEMMA OnlyRating ==
  ASSUME NEW queue \in Seq(Records), DecidedByRating(queue), NEW n, NEW at
  PROVE  Decided(queue, n, at) = WithRating(queue, n, at)
<1> DEFINE new == WithRating(queue, n, at)
<1>1. WithForfeits(queue, n) = queue
  <2>1. WithForfeits(queue, n) = [i \in DOMAIN queue |-> queue[i]]
    BY DEF WithForfeits, DecidedByRating
  <2> QED
    BY <2>1
<1>2. Settled(queue, new)
  BY RatingSettles
<1> HIDE DEF new
<1>3. /\ new \in Seq(Records) /\ DOMAIN new = DOMAIN queue
      /\ \A i \in DOMAIN new : new[i].kind # "tied" => new[i].known
  BY <1>2 DEF Settled, SettledRecord, DecidedByRating
<1>4. WithScore(new, n) = new
  <2>1. WithScore(new, n) = [i \in DOMAIN new |-> new[i]]
    BY <1>3 DEF WithScore
  <2> QED
    BY <1>3, <2>1
<1> QED
  BY <1>1, <1>4 DEF Decided, new

\* The records are those of the matches after a, and what they say of the results is real.
RealFrom(queue, a) ==
  \A i \in DOMAIN queue : queue[i].match = a + i /\ HasResult(queue[i])

LEMMA RatingIsReal ==
  ASSUME GameTypes, NEW queue \in Seq(Records), NEW a \in Nat, NEW n \in Nat, n > 0,
         n <= Len(queue), a + n <= Len(won), queue[1].pre.at = a, RealFrom(queue, a),
         NEW i \in DOMAIN queue
  PROVE  HasResult(WithRating(queue, n, a + n)[i])
<1> DEFINE open == OpenRecords(queue, n)
           at == a + n
           W == {j \in open : won[a + j]}
           results == [j \in 1..n |-> IF j \in open THEN j \in W ELSE queue[j].won]
           feasible == Feasible(queue, n, open, at)
           new == WithRating(queue, n, at)[i]
<1>1. /\ Len(queue) \in Nat /\ DOMAIN queue = 1..Len(queue)
      /\ \A j \in 1..n : j \in DOMAIN queue /\ queue[j] \in Records
  BY LenProperties
<1>2. \A j \in 1..n : won[a + j] \in BOOLEAN /\ queue[j].won \in BOOLEAN
  <2> SUFFICES ASSUME NEW j \in 1..n
               PROVE  won[a + j] \in BOOLEAN /\ queue[j].won \in BOOLEAN
    OBVIOUS
  <2>1. a + j \in 1..Len(won)
    BY GameFacts
  <2> QED
    BY <1>1, <2>1, GameFacts, RecordFields
<1>3. \A j \in 1..n : j \notin open => queue[j].won = won[a + j]
  BY <1>1 DEF OpenRecords, RealFrom, HasResult
<1>4. IsOutcome(results, a, n)
  <2>1. \A j \in 1..n : results[j] = won[a + j]
    <3> SUFFICES ASSUME NEW j \in 1..n
                 PROVE  (IF j \in open THEN j \in W ELSE queue[j].won) = won[a + j]
      OBVIOUS
    <3>1. CASE j \in open
      <4>1. (j \in W) = won[a + j]
        BY <1>2, <3>1
      <4> QED
        BY <3>1, <4>1
    <3>2. CASE j \notin open
      BY <1>3, <3>2
    <3> QED
      BY <3>1, <3>2
  <2>2. results = [j \in 1..n |-> won[a + j]]
    BY <2>1
  <2>3. results \in [1..n -> BOOLEAN]
    BY <1>2, <2>2
  <2> HIDE DEF results
  <2> QED
    BY <2>1, <2>3 DEF IsOutcome
<1>5. W \in feasible
  <2>1. Directional(a, at, results)
    BY <1>4, RealPath
  <2>2. W \in SUBSET open
    OBVIOUS
  <2> HIDE DEF W, open, at
  <2>3. Directional(queue[1].pre.at, at, [j \in 1..n |-> IF j \in open THEN j \in W ELSE queue[j].won])
    BY <2>1
  <2> QED
    BY <2>2, <2>3 DEF Feasible
<1>6. \/ new = queue[i]
      \/ \E w \in BOOLEAN : /\ i \in open /\ AgreedResult(feasible, i, w)
                            /\ new = WithResult(queue[i], w)
  BY RatingAt
<1>7. ASSUME new = queue[i]
      PROVE  HasResult(new)
  BY <1>7 DEF RealFrom
<1>8. ASSUME NEW w \in BOOLEAN, i \in open, AgreedResult(feasible, i, w),
             new = WithResult(queue[i], w)
      PROVE  HasResult(new)
  <2>1. w <=> i \in W
    <3> HIDE DEF feasible, W
    <3> QED
      BY <1>5, <1>8 DEF AgreedResult
  <2>2. i \in 1..n
    BY <1>8 DEF OpenRecords
  <2>3. w = won[a + i]
    BY <1>2, <1>8, <2>1, <2>2
  <2>4. new.match = queue[i].match /\ new.won = w
    <3>1. queue[i] \in Records
      OBVIOUS
    <3> HIDE DEF new
    <3> QED
      BY <1>8, <3>1 DEF WithResult, Records
  <2> HIDE DEF new
  <2> QED
    BY <2>3, <2>4 DEF HasResult, RealFrom
<1> HIDE DEF new, feasible, open
<1>9. HasResult(new)
  BY <1>6, <1>7, <1>8
<1> QED
  BY <1>9 DEF new

LEMMA DecidedTold ==
  ASSUME GameTypes, NEW queue \in Seq(Records), DecidedByRating(queue),
         NEW a \in Nat, NEW n \in Nat, n > 0, n <= Len(queue), a + n <= Len(won),
         \A i \in DOMAIN queue : queue[i].match = a + i,
         NEW upTo, upTo = a + n, QueueTold(queue, upTo),
         NEW new, new = Decided(queue, n, upTo)
  PROVE  /\ QueueTold(new, upTo)
         /\ FromMatchBefore(queue) => \A i \in DOMAIN queue : HasResult(new[i])
<1> DEFINE open == OpenRecords(queue, n)
           feasible == Feasible(queue, n, open, upTo)
<1>1. new = WithRating(queue, n, upTo)
  BY OnlyRating
<1>2. /\ Settled(queue, new) /\ DOMAIN new = DOMAIN queue /\ Len(new) = Len(queue)
      /\ \A i \in DOMAIN queue : new[i].match = queue[i].match /\ new[i].pre = queue[i].pre
  BY <1>1, RatingSettles DEF Settled, SettledRecord
<1>3. /\ Len(queue) \in Nat /\ DOMAIN queue = 1..Len(queue) /\ 1 \in DOMAIN queue
      /\ queue # <<>>
  BY LenProperties
<1>4. ASSUME NEW i \in DOMAIN queue
      PROVE  Told(new[i], upTo)
  <2>1. Told(queue[i], upTo) /\ queue[i] \in Records /\ queue[i].match = a + i
    BY DEF QueueTold
  <2>2. \/ new[i] = queue[i]
        \/ \E w \in BOOLEAN : i \in open /\ new[i] = WithResult(queue[i], w)
    BY <1>1, RatingAt
  <2>3. ASSUME NEW w \in BOOLEAN, i \in open, new[i] = WithResult(queue[i], w)
        PROVE  Told(new[i], upTo)
    <3>1. ~queue[i].known /\ i <= n
      BY <2>3 DEF OpenRecords
    <3>2. queue[i].kind = "tied" /\ ~queue[i].dbFinal /\ queue[i].kind \in game.kinds
      BY <2>1, <3>1 DEF DecidedByRating, Told
    <3>3. /\ new[i].known /\ new[i].kind = queue[i].kind /\ new[i].dbFinal = queue[i].dbFinal
          /\ new[i].match = queue[i].match
      BY <2>1, <2>3 DEF WithResult, Records
    <3>4. Inferred(new[i])
      BY <3>2, <3>3 DEF Inferred
    <3>5. new[i].match <= upTo
      <4>1. i \in Nat /\ i <= n
        BY <1>3, <3>1
      <4>2. a + i <= a + n
        BY <4>1
      <4> QED
        BY <2>1, <3>3, <4>2
    <3> QED
      BY <3>2, <3>3, <3>4, <3>5 DEF Told
  <2> QED
    BY <2>1, <2>2, <2>3
<1>5. ASSUME FromMatchBefore(queue), NEW i \in DOMAIN queue
      PROVE  HasResult(new[i])
  <2>1. RealFrom(queue, a)
    BY <1>3, <1>5 DEF QueueTold, RealFrom
  <2>2. queue[1].pre.at = a
    <3>1. queue[1].match = a + 1
      BY <1>3
    <3> QED
      BY <1>5, <3>1 DEF FromMatchBefore
  <2> QED
    BY <1>1, <2>1, <2>2, RatingIsReal
<1>6. FromMatchBefore(new) => FromMatchBefore(queue)
  BY <1>2, <1>3 DEF FromMatchBefore
<1> QED
  BY <1>2, <1>4, <1>5, <1>6 DEF QueueTold

\* The records that a confirmation leaves have no inferred result.
LEMMA LeftTold ==
  ASSUME NEW queue \in Seq(Records), NEW a \in Nat, NEW n \in Nat, n <= Len(queue),
         \A i \in DOMAIN queue : queue[i].match = a + i,
         NEW upTo, upTo = a + n, QueueTold(queue, upTo), NEW rest,
         DOMAIN rest = 1..(Len(queue) - n),
         \A i \in 1..(Len(queue) - n) : ObservedRecord(queue[n + i], rest[i])
  PROVE  QueueTold(rest, upTo)
<1>1. ASSUME NEW i \in DOMAIN rest
      PROVE  Told(rest[i], upTo) /\ HasResult(rest[i])
  <2>1. i \in 1..(Len(queue) - n) /\ Len(queue) \in Nat
    OBVIOUS
  <2>2. n + i \in DOMAIN queue /\ a + (n + i) > a + n
    BY <2>1
  <2>3. queue[n + i].match = a + (n + i) /\ Told(queue[n + i], upTo)
    BY <2>2 DEF QueueTold
  <2>4. ~(queue[n + i].match <= upTo)
    BY <2>1, <2>2, <2>3
  <2>5. HasResult(queue[n + i])
    BY <2>3, <2>4 DEF Told
  <2>6. ObservedRecord(queue[n + i], rest[i])
    BY <2>1
  <2> QED
    BY <2>3, <2>5, <2>6, ToldSame DEF HasResult, ObservedRecord
<1> QED
  BY <1>1 DEF QueueTold

LEMMA ReconcileTold ==
  ASSUME GameTypes, OnlyRatingDecides, NEW k \in Nat, k <= Len(won),
         NEW r, Reconciler(r, k), Contiguous(r, k), NEW match, IsPending(r, match),
         NEW answer \in Answers, answer.counted, answer.at \in Before(r, k)..k,
         NEW out, out = Reconcile(r, match, answer), QueueTold(r.queue, answer.at)
  PROVE  /\ QueueTold(out.rec.queue, answer.at)
         /\ FromMatchBefore(r.queue) => \A c \in out.calls : c.won = won[c.match]
<1> DEFINE n == CoveredCount(r, answer)
           at == answer.at
           queue == Decided(r.queue, n, at)
           a == Before(r, k)
<1>1. r.queue # <<>> /\ r.queue \in Seq(Records) /\ IsReconciler(r)
  BY DEF Reconciler, IsReconciler, IsPending
<1>2. at # Unknown /\ answer \in Snapshots
  BY AnswersAreSnapshots
<1>3. Settled(r.queue, queue)
  BY <1>1, DecidedSettles
<1>4. n = at - a
  BY <1>1, SteadyCount
<1>5. /\ a \in Nat /\ Len(r.queue) \in Nat /\ a + Len(r.queue) = k
      /\ DOMAIN r.queue = 1..Len(r.queue)
      /\ \A i \in 1..Len(r.queue) : r.queue[i].match = a + i
  BY ContiguousFields
<1>6. n = CoveredCount(r, answer) /\ queue = Decided(r.queue, n, at)
  OBVIOUS
<1>7. at \in a..k /\ at = answer.at
  OBVIOUS
<1>8. DecidedByRating(r.queue)
  <2> SUFFICES ASSUME NEW i \in DOMAIN r.queue
               PROVE  /\ r.queue[i].kind # "forfeit"
                      /\ r.queue[i].kind # "tied" => r.queue[i].known
    BY DEF DecidedByRating
  <2>1. r.queue[i].kind \in {"ended", "tied"}
    BY DEF QueueTold, Told, OnlyRatingDecides
  <2>2. "ended" \notin Left
    BY DEF Left
  <2> QED
    BY <2>1, <2>2, RecordsOfReconciler
<1> HIDE DEF n, queue, a, at
<1>9. n \in Nat /\ n <= Len(r.queue) /\ a + n = at /\ at <= Len(won) /\ at \in Nat
  <2> DEFINE L == Len(r.queue)
             W == Len(won)
  <2>1. L \in Nat /\ a + L = k /\ k <= W /\ W \in Nat
    BY <1>5, GameFacts
  <2> HIDE DEF L, W
  <2>2. n \in Nat /\ n <= L /\ a + n = at /\ at <= W /\ at \in Nat
    BY <1>4, <1>5, <1>7, <2>1
  <2> QED
    BY <2>2 DEF L, W
<1>10. \/ n = 0 /\ NothingOut(out) /\ out.rec = Observed(r, answer)
       \/ NothingOut(out) /\ out.rec = r
       \/ NothingOut(out) /\ n > 0 /\ out.rec.queue = queue
       \/ n > 0 /\ AllKnown(queue, n) /\ Confirmation(r, queue, n, answer, match, out)
  BY <1>1, <1>2, <1>6, <1>7, <1>9, ReconcileCases
<1>11. QueueTold(r.queue, at)
  BY <1>7
<1>12. ASSUME n > 0
       PROVE  /\ QueueTold(queue, at)
              /\ FromMatchBefore(r.queue) => \A i \in DOMAIN r.queue : HasResult(queue[i])
  <2>1. /\ a \in Nat /\ n \in Nat /\ n > 0 /\ n <= Len(r.queue) /\ a + n <= Len(won)
        /\ \A i \in DOMAIN r.queue : r.queue[i].match = a + i
        /\ at = a + n /\ queue = Decided(r.queue, n, at)
    BY <1>5, <1>6, <1>9, <1>12
  <2> QED
    BY <1>1, <1>8, <1>11, <2>1, DecidedTold
<1>13. CASE n = 0 /\ NothingOut(out) /\ out.rec = Observed(r, answer)
  <2>1. ObservedQueue(r.queue, out.rec.queue)
    BY <1>1, <1>2, <1>13, ObservedKeeps
  <2>2. QueueTold(out.rec.queue, at)
    BY <1>1, <1>9, <1>11, <2>1, ObservedTold
  <2> QED
    BY <1>7, <1>13, <2>2 DEF NothingOut
<1>14. CASE NothingOut(out) /\ out.rec = r
  BY <1>14 DEF NothingOut
<1>15. CASE NothingOut(out) /\ n > 0 /\ out.rec.queue = queue
  BY <1>7, <1>12, <1>15 DEF NothingOut
<1>16. CASE n > 0 /\ AllKnown(queue, n) /\ Confirmation(r, queue, n, answer, match, out)
  <2>1. Places(r, n)
    BY <1>5, <1>9, <1>16 DEF Places
  <2>2. ConfirmedBooks(r, out.rec, k, queue, n, answer)
    BY <1>1, <1>3, <1>9, <1>16, <2>1, ConfirmedKeeps DEF Confirmation
  <2>3. /\ queue \in Seq(Records) /\ Len(queue) = Len(r.queue)
        /\ DOMAIN queue = DOMAIN r.queue
        /\ \A i \in DOMAIN queue : queue[i].match = a + i
    BY <1>3, <1>5 DEF Settled, SettledRecord
  <2>4. QueueTold(out.rec.queue, at)
    <3> DEFINE rest == out.rec.queue
    <3>1. /\ DOMAIN rest = 1..(Len(queue) - n)
          /\ \A i \in 1..(Len(queue) - n) : ObservedRecord(queue[n + i], rest[i])
      BY <2>2, <2>3 DEF ConfirmedBooks, LeftOver, ObservedRecord
    <3> HIDE DEF rest
    <3>2. QueueTold(rest, at)
      BY <1>5, <1>9, <1>12, <1>16, <2>3, <3>1, LeftTold
    <3> QED
      BY <3>2 DEF rest
  <2>5. ASSUME FromMatchBefore(r.queue), NEW c \in out.calls
        PROVE  c.won = won[c.match]
    <3>1. c \in Confirmations(queue, n)
      BY <1>16 DEF Confirmation
    <3>2. PICK i \in 1..n : c.match = queue[i].match /\ c.won = queue[i].won
      BY <1>3, <1>9, <2>1, <3>1, ConfirmationsShape
    <3>3. i \in DOMAIN r.queue /\ queue[i].known
      <4>1. queue[i].known
        BY <1>16 DEF AllKnown
      <4> DEFINE L == Len(r.queue)
      <4>2. DOMAIN r.queue = 1..L /\ L \in Nat /\ n <= L /\ n \in Nat
        BY <1>5, <1>9
      <4> HIDE DEF L
      <4> QED
        BY <4>1, <4>2
    <3>4. HasResult(queue[i])
      BY <1>12, <1>16, <2>5, <3>3
    <3> QED
      BY <3>2, <3>3, <3>4 DEF HasResult
  <2> QED
    BY <1>7, <2>4, <2>5
<1> QED
  BY <1>10, <1>13, <1>14, <1>15, <1>16

LEMMA AppendTold ==
  ASSUME NEW queue \in Seq(Records), NEW upTo, QueueTold(queue, upTo),
         NEW record \in Records, Told(record, upTo), HasResult(record)
  PROVE  QueueTold(Append(queue, record), upTo)
<1> DEFINE longer == Append(queue, record)
           L == Len(queue)
<1>1. /\ L \in Nat /\ DOMAIN queue = 1..L /\ DOMAIN longer = 1..(L + 1)
      /\ longer[L + 1] = record /\ \A i \in 1..L : longer[i] = queue[i]
  BY LenProperties
<1> HIDE DEF longer, L
<1>2. \A i \in 1..(L + 1) : i \in 1..L \/ i = L + 1
  BY <1>1
<1>3. \A i \in DOMAIN longer : Told(longer[i], upTo)
  BY <1>1, <1>2 DEF QueueTold
<1>4. ASSUME FromMatchBefore(longer), NEW i \in DOMAIN longer
      PROVE  HasResult(longer[i])
  <2>1. CASE i = L + 1
    BY <1>1, <2>1
  <2>2. CASE i \in 1..L
    <3>1. 1 \in 1..L /\ queue # <<>>
      BY <1>1, <2>2
    <3>2. FromMatchBefore(queue)
      BY <1>1, <1>4, <3>1 DEF FromMatchBefore
    <3> QED
      BY <1>1, <2>2, <3>1, <3>2 DEF QueueTold
  <2> QED
    BY <1>1, <1>2, <1>4, <2>1, <2>2
<1> QED
  BY <1>3, <1>4 DEF QueueTold, longer

-----------------------------------------------------------------------------
\* Every step keeps what is told of the results.

LEMMA AnsweredBound ==
  ASSUME Basics, SteadyBooks
  PROVE  AnsweredUpTo \in Nat /\ AnsweredUpTo <= published /\ published \in Nat
<1>1. published \in Nat /\ Before(rec, Routed) \in Nat
  BY SteadyFacts
<1>2. reply # Nothing => reply.answer.at \in Before(rec, Routed)..published
  BY DEF SteadyBooks, ReplyCounts
<1> DEFINE b == Before(rec, Routed)
           at == reply.answer.at
<1>3. AnsweredUpTo = published \/ (at \in b..published /\ AnsweredUpTo = at)
  BY <1>2 DEF AnsweredUpTo
<1> HIDE DEF b, at
<1> QED
  BY <1>1, <1>3 DEF b

LEMMA ObservedSame ==
  ASSUME NEW queue \in Seq(Records)
  PROVE  ObservedQueue(queue, queue)
BY DEF ObservedQueue, ObservedRecord

\* The results of the matches that wait do not change.
LEMMA ResultsStay ==
  ASSUME Basics, game' = game, won' = won \/ \E result \in BOOLEAN : won' = Append(won, result),
         \A i \in DOMAIN rec'.queue : rec'.queue[i].match \in 1..Routed,
         QueueTold(rec'.queue, AnsweredUpTo')
  PROVE  QueueTold(rec.queue, AnsweredUpTo)'
<1>1. won \in Seq(BOOLEAN) /\ Len(won) \in Nat /\ Routed \in Nat /\ Routed <= Len(won)
  BY RoutedFacts DEF Basics, GameTypes, ProgramTypes
<1>2. \A m \in 1..Routed : won'[m] = won[m]
  <2>1. \A m \in 1..Routed : m \in 1..Len(won)
    BY <1>1
  <2>2. ASSUME NEW result \in BOOLEAN, won' = Append(won, result)
        PROVE  \A m \in 1..Len(won) : won'[m] = won[m]
    BY <1>1, <2>2
  <2> QED
    BY <2>1, <2>2
<1>3. \A i \in DOMAIN rec'.queue : won'[rec'.queue[i].match] = won[rec'.queue[i].match]
  BY <1>2
<1>4. \A i \in DOMAIN rec'.queue : HasResult(rec'.queue[i]) => HasResult(rec.queue[i])'
  BY <1>3 DEF HasResult
<1>5. \A i \in DOMAIN rec'.queue :
        Told(rec'.queue[i], AnsweredUpTo') => Told(rec.queue[i], AnsweredUpTo)'
  BY <1>4 DEF Told, Inferred
<1>6. FromMatchBefore(rec'.queue) = FromMatchBefore(rec.queue)'
  BY DEF FromMatchBefore
<1> QED
  BY <1>4, <1>5, <1>6 DEF QueueTold

LEMMA ResultsFrame ==
  ASSUME Basics, Basics', SteadyBooks, SteadyBooks', QueueTold(rec.queue, AnsweredUpTo),
         game' = game, won' = won \/ \E result \in BOOLEAN : won' = Append(won, result),
         ObservedQueue(rec.queue, rec'.queue), AnsweredUpTo <= AnsweredUpTo'
  PROVE  QueueTold(rec.queue, AnsweredUpTo)'
<1>1. Reconciler(rec, Routed) /\ Routed \in Nat /\ rec.queue \in Seq(Records)
  BY SteadyFacts DEF Reconciler
<1>2. AnsweredUpTo \in Int /\ AnsweredUpTo' \in Int
  <2>1. AnsweredUpTo \in Int
    BY AnsweredBound
  <2>2. published' \in Int
    BY DEF Basics, GameTypes
  <2>3. reply' # Nothing => reply'.answer.at \in Int
    <3> DEFINE next == reply'
    <3>1. next \in {Nothing} \cup Replies
      BY DEF Basics, ProgramTypes
    <3> HIDE DEF next
    <3>2. next # Nothing => next.answer.at \in Int
      BY <3>1, PostMatchAssumption DEF Replies, Answers
    <3> QED
      BY <3>2 DEF next
  <2> QED
    BY <2>1, <2>2, <2>3 DEF AnsweredUpTo
<1> DEFINE new == rec'.queue
           upTo == AnsweredUpTo'
<1>3. ObservedQueue(rec.queue, new) /\ upTo \in Int /\ AnsweredUpTo <= upTo
  BY <1>2
<1> HIDE DEF new, upTo
<1>4. QueueTold(new, upTo)
  BY <1>1, <1>2, <1>3, ObservedTold
<1>5. \A i \in DOMAIN rec.queue : rec.queue[i].match \in 1..Routed
  BY <1>1, RecordsOfReconciler
<1>6. \A i \in DOMAIN new : new[i].match \in 1..Routed
  BY <1>3, <1>5 DEF ObservedQueue, ObservedRecord
<1> QED
  BY <1>4, <1>6, ResultsStay DEF new, upTo

LEMMA ResultsQuiet ==
  ASSUME Basics, Basics', SteadyBooks, SteadyBooks', QueueTold(rec.queue, AnsweredUpTo),
         game' = game, rec'.queue = rec.queue, AnsweredUpTo <= AnsweredUpTo',
         won' = won \/ \E result \in BOOLEAN : won' = Append(won, result)
  PROVE  QueueTold(rec.queue, AnsweredUpTo)'
<1>1. rec.queue \in Seq(Records)
  BY SteadyFacts DEF Reconciler
<1>2. ObservedQueue(rec.queue, rec'.queue)
  BY <1>1, ObservedSame
<1> QED
  BY <1>2, ResultsFrame

LEMMA RouteLateTold ==
  ASSUME Basics, Basics', SteadyBooks, SteadyBooks', QueueTold(rec.queue, AnsweredUpTo),
         Route, effect \in LateEffects
  PROVE  QueueTold(rec.queue, AnsweredUpTo)'
<1> DEFINE r == rec
           p == rec'
           match == effect.match
           result == effect.won
<1>1. /\ UNCHANGED <<game, won, published, reply>>
      /\ p = Resolve(r, match, result)
  BY LateShape DEF Route, world
<1>2. AnsweredUpTo' = AnsweredUpTo
  BY <1>1 DEF AnsweredUpTo
<1>3. /\ Reconciler(r, Routed) /\ Routed \in Nat /\ r.queue \in Seq(Records)
      /\ result \in BOOLEAN /\ result = won[match]
  BY SteadyFacts, LateFields DEF Reconciler, Basics, EffectSound
<1> HIDE DEF p, match, result, r
<1>4. /\ DOMAIN p.queue = DOMAIN r.queue /\ Len(p.queue) = Len(r.queue)
      /\ p.queue \in Seq(Records)
      /\ \A i \in DOMAIN r.queue :
           /\ p.queue[i].match = r.queue[i].match /\ p.queue[i].kind = r.queue[i].kind
           /\ p.queue[i].pre = r.queue[i].pre
           /\ r.queue[i].match # match => p.queue[i] = r.queue[i]
           /\ r.queue[i].match = match =>
                p.queue[i].known /\ p.queue[i].won = result /\ p.queue[i].dbFinal
  BY <1>1, <1>3, ResolveKeeps
<1>5. QueueTold(r.queue, AnsweredUpTo)
  BY DEF r
<1>6. ASSUME NEW i \in DOMAIN r.queue
      PROVE  /\ Told(p.queue[i], AnsweredUpTo)
             /\ HasResult(r.queue[i]) => HasResult(p.queue[i])
  <2>1. Told(r.queue[i], AnsweredUpTo)
    BY <1>5 DEF QueueTold
  <2>2. CASE r.queue[i].match # match
    BY <1>4, <2>1, <2>2
  <2>3. CASE r.queue[i].match = match
    <3>1. /\ p.queue[i].known /\ p.queue[i].dbFinal
          /\ p.queue[i].kind \in game.kinds /\ p.queue[i].won = won[p.queue[i].match]
      BY <1>3, <1>4, <2>1, <2>3 DEF Told
    <3> QED
      BY <3>1 DEF Told, Inferred, HasResult
  <2> QED
    BY <2>2, <2>3
<1>7. ASSUME p.queue # <<>>, FromMatchBefore(p.queue), NEW i \in DOMAIN r.queue
      PROVE  HasResult(p.queue[i])
  <2>1. 1 \in DOMAIN r.queue /\ r.queue # <<>>
    BY <1>3, <1>4, <1>7, HeadOfQueue
  <2>2. FromMatchBefore(r.queue)
    BY <1>4, <1>7, <2>1 DEF FromMatchBefore
  <2>3. HasResult(r.queue[i])
    BY <1>5, <1>7, <2>1, <2>2 DEF QueueTold
  <2> QED
    BY <1>6, <2>3
<1>8. QueueTold(p.queue, AnsweredUpTo)
  BY <1>4, <1>6, <1>7 DEF QueueTold
<1>9. \A i \in DOMAIN p.queue : p.queue[i].match \in 1..Routed
  BY <1>3, <1>4, RecordsOfReconciler
<1> QED
  BY <1>1, <1>2, <1>8, <1>9, ResultsStay DEF p

LEMMA RouteEndTold ==
  ASSUME Basics, Basics', SteadyBooks, SteadyBooks', QueueTold(rec.queue, AnsweredUpTo),
         Route, effect \in EndEffects
  PROVE  QueueTold(rec.queue, AnsweredUpTo)'
<1> DEFINE longer == Append(rec.queue, NewRecord)
           new == rec'.queue
<1>1. UNCHANGED <<game, won, published, reply>>
  BY DEF Route, world
<1>2. AnsweredUpTo' = AnsweredUpTo /\ AnsweredUpTo \in Int
  BY <1>1, AnsweredBound DEF AnsweredUpTo
<1>3. rec.queue \in Seq(Records)
  BY SteadyFacts DEF Reconciler
<1>4. /\ NewRecord \in Records /\ NewRecord.match = effect.match
      /\ NewRecord.kind = effect.kind /\ NewRecord.dbFinal = FALSE
      /\ NewRecord.known = (effect.kind \notin Left)
      /\ effect.kind \notin Left => NewRecord.won = effect.won
  BY NewRecordFields
<1>5. /\ effect.kind \in game.kinds /\ effect.match = Len(won)
      /\ effect.kind \notin Left => effect.won = won[effect.match]
  BY DEF Basics, EffectSound
<1>6. "tied" \in Left
  BY DEF Left
<1>7. HasResult(NewRecord) /\ Told(NewRecord, AnsweredUpTo)
  <2> HIDE DEF NewRecord
  <2>1. HasResult(NewRecord)
    BY <1>4, <1>5 DEF HasResult
  <2>2. ~Inferred(NewRecord)
    BY <1>4, <1>6 DEF Inferred
  <2> QED
    BY <1>4, <1>5, <2>1, <2>2 DEF Told
<1>8. QueueTold(longer, AnsweredUpTo) /\ longer \in Seq(Records)
  BY <1>3, <1>4, <1>7, AppendTold
<1>9. ObservedQueue(longer, new) /\ Reconciler(rec', Routed + 1)
  BY EndShape DEF RoutedEnd
<1> HIDE DEF longer, new
<1>10. QueueTold(new, AnsweredUpTo)
  BY <1>2, <1>8, <1>9, ObservedTold
<1>11. \A i \in DOMAIN new : new[i].match \in 1..Len(won)
  <2>1. Routed + 1 = Len(won) /\ Routed + 1 \in Nat
    BY RoutedFacts DEF Basics, ProgramTypes
  <2> DEFINE p == rec'
             k == Routed + 1
  <2>2. Reconciler(p, k) /\ k \in Nat /\ k = Len(won) /\ new = p.queue
    BY <1>9, <2>1 DEF new
  <2> HIDE DEF p, k
  <2> QED
    BY <2>2, RecordsOfReconciler
<1>12. \A i \in DOMAIN new : HasResult(new[i]) => won'[new[i].match] = won[new[i].match]
  BY <1>1
<1> QED
  BY <1>1, <1>2, <1>10 DEF new, QueueTold, Told, Inferred, HasResult, FromMatchBefore

LEMMA ActiveTold ==
  ASSUME Basics, Basics', SteadyBooks, SteadyBooks', QueueTold(rec.queue, AnsweredUpTo),
         OnlyRatingDecides, Reconciles, NEW out, Active(out)
  PROVE  /\ QueueTold(rec.queue, AnsweredUpTo)'
         /\ FromMatchBefore(rec.queue) => \A c \in calls' : c.won = won[c.match]
<1> DEFINE answer == reply.answer
           k == Routed
           b == Before(rec, k)
           p == out.rec
<1>1. UNCHANGED <<game, won, published>> /\ reply # Nothing
  BY DEF Reconciles, world
<1>2. answer \in Answers /\ answer.counted /\ answer.at \in b..published
  BY <1>1, ReplyFields DEF Basics, ProgramTypes, SteadyBooks, ReplyCounts
<1>3. /\ Reconciler(rec, k) /\ Contiguous(rec, k) /\ k \in Nat /\ b \in Nat
      /\ published \in Nat /\ published <= k /\ k <= Len(won) /\ GameTypes
  BY SteadyFacts DEF Basics
<1>4. answer.at \in b..k /\ answer.at \in Int /\ answer.at <= published
  <2> HIDE DEF b, k, answer
  <2> QED
    BY <1>2, <1>3
<1>5. /\ IsPending(rec, Target) /\ out = Reconcile(rec, Target, answer)
      /\ ActiveRec(out) /\ ActiveReply(out) /\ calls' = out.calls
      /\ OutcomeSound(rec, k, Target, out)
  BY DEF Active
<1>6. QueueTold(rec.queue, answer.at)
  BY <1>1 DEF AnsweredUpTo
<1>7. AnsweredUpTo' \in Int /\ answer.at <= AnsweredUpTo'
  <2>1. AnsweredUpTo' \in {published, answer.at}
    BY <1>1, <1>5 DEF AnsweredUpTo, ActiveReply
  <2> QED
    BY <1>3, <1>4, <2>1
<1> HIDE DEF answer, b, p, k
<1>8. /\ QueueTold(p.queue, answer.at)
      /\ FromMatchBefore(rec.queue) => \A c \in out.calls : c.won = won[c.match]
  <2>1. answer.at \in Before(rec, k)..k
    BY <1>4 DEF b
  <2>2. /\ QueueTold(out.rec.queue, answer.at)
        /\ FromMatchBefore(rec.queue) => \A c \in out.calls : c.won = won[c.match]
    BY <1>2, <1>3, <1>5, <1>6, <2>1, ReconcileTold
  <2> QED
    BY <2>2 DEF p
<1>9. /\ p.queue \in Seq(Records) /\ ObservedQueue(p.queue, rec'.queue)
      /\ Reconciler(rec', k)
  BY <1>5 DEF OutcomeSound, Reconciler, ActiveRec, p, k
<1> DEFINE new == rec'.queue
           upTo == AnsweredUpTo'
<1>10. ObservedQueue(p.queue, new) /\ upTo \in Int /\ answer.at <= upTo
  BY <1>7, <1>9
<1>11. \A i \in DOMAIN new : new[i].match \in 1..Routed
  <2> DEFINE s == rec'
  <2>1. Reconciler(s, k) /\ new = s.queue
    BY <1>9
  <2> HIDE DEF s, new
  <2> QED
    BY <1>3, <2>1, RecordsOfReconciler DEF k
<1> HIDE DEF new, upTo
<1>12. QueueTold(new, upTo)
  BY <1>4, <1>8, <1>9, <1>10, ObservedTold
<1>13. QueueTold(rec.queue, AnsweredUpTo)'
  BY <1>1, <1>11, <1>12, ResultsStay DEF new, upTo
<1> QED
  BY <1>5, <1>8, <1>13

LEMMA ResultsInit ==
  ASSUME RatingInit
  PROVE  ResultsInv
<1>1. rec.queue = <<>>
  BY DEF RatingInit
<1>2. DOMAIN rec.queue = {}
  BY <1>1
<1> QED
  BY <1>1, <1>2 DEF ResultsInv, QueueTold

LEMMA ResultsNext ==
  ASSUME Basics, Basics', SteadyBooks, SteadyBooks', QueueTold(rec.queue, AnsweredUpTo),
         OnlyRatingDecides, Steady, RatingNext
  PROVE  QueueTold(rec.queue, AnsweredUpTo)'
<1>1. game' = game
  BY GameNeverChanges
<1>2. AnsweredUpTo \in Int /\ published \in Int /\ AnsweredUpTo <= published
  BY AnsweredBound
<1>3. CASE \/ StartMatch \/ LateResult \/ CallBack \/ RunJob \/ CachedRoster
  <2>1. UNCHANGED <<won, published, reply, rec>>
    BY <1>3 DEF StartMatch, LateResult, CallBack, RunJob, CachedRoster, world, telemetry, worker
  <2>2. AnsweredUpTo' = AnsweredUpTo
    BY <2>1 DEF AnsweredUpTo
  <2> QED
    BY <1>1, <1>2, <2>1, <2>2, ResultsQuiet
<1>4. CASE EndMatch
  <2>1. /\ UNCHANGED <<published, reply, rec>>
        /\ \E result \in BOOLEAN : won' = Append(won, result)
    BY <1>4 DEF EndMatch, worker
  <2>2. AnsweredUpTo' = AnsweredUpTo
    BY <2>1 DEF AnsweredUpTo
  <2> QED
    BY <1>1, <1>2, <2>1, <2>2, ResultsQuiet
<1>5. CASE Publish
  <2>1. UNCHANGED <<won, reply, rec>>
    BY <1>5 DEF Publish, worker
  <2>2. published <= published'
    <3> PICK n \in (published + 1)..Len(won) : published' = n
      BY <1>5 DEF Publish
    <3>1. Len(won) \in Nat
      BY SteadyFacts
    <3> QED
      BY <1>2, <3>1
  <2>3. AnsweredUpTo <= AnsweredUpTo'
    BY <1>2, <2>1, <2>2 DEF AnsweredUpTo
  <2> QED
    BY <1>1, <2>1, <2>3, ResultsQuiet
<1>6. CASE AnswerRoster \/ AnswerPostMatch
  <2>1. UNCHANGED <<won, published, rec>> /\ reply = Nothing
    BY <1>6 DEF AnswerRoster, AnswerPostMatch, WorkerFree, world
  <2>2. reply' # Nothing /\ reply'.answer.at = published
    <3>1. reply'.answer.at = published /\ reply'.kind \in {"roster", "post"}
      <4>1. \A answer \in Answer : answer.at = published
        BY AnswerIsReal
      <4>2. CASE AnswerRoster
        BY <4>1, <4>2 DEF AnswerRoster
      <4>3. CASE AnswerPostMatch
        BY <4>1, <4>3 DEF AnswerPostMatch
      <4> QED
        BY <1>6, <4>2, <4>3
    <3> QED
      BY <3>1, NothingIsNone
  <2>3. AnsweredUpTo' = AnsweredUpTo
    BY <2>1, <2>2 DEF AnsweredUpTo
  <2> QED
    BY <1>1, <1>2, <2>1, <2>3, ResultsQuiet
<1>7. CASE LookupFails
  <2>1. UNCHANGED <<won, published, reply>> /\ ObservedQueue(rec.queue, rec'.queue)
    BY <1>7, LookupFailsShape DEF LookupFails, world
  <2>2. AnsweredUpTo' = AnsweredUpTo
    BY <2>1 DEF AnsweredUpTo
  <2> QED
    BY <1>1, <1>2, <2>1, <2>2, ResultsFrame
<1>8. CASE PublishProfile
  <2>1. UNCHANGED <<won, published>> /\ reply' = Nothing
    BY <1>8 DEF PublishProfile, world
  <2>2. rec'.queue = rec.queue
    BY <1>8, PublishProfileShape DEF PublishedCache
  <2>3. AnsweredUpTo' = published
    BY <2>1 DEF AnsweredUpTo
  <2> QED
    BY <1>1, <1>2, <2>1, <2>2, <2>3, ResultsQuiet
<1>9. CASE Reconciles
  <2>1. CASE Quiet
    <3>1. UNCHANGED <<won, published>> /\ reply # Nothing
      BY <1>9 DEF Reconciles, world
    <3>2. rec' = rec /\ reply'.answer = reply.answer /\ reply' # Nothing
      BY <2>1 DEF Quiet, Replies, Nothing
    <3>3. AnsweredUpTo' = AnsweredUpTo
      BY <3>1, <3>2 DEF AnsweredUpTo
    <3> QED
      BY <1>1, <1>2, <3>1, <3>2, <3>3, ResultsQuiet
  <2> QED
    BY <1>9, <2>1, ReconcilesShape, ActiveTold
<1>10. CASE Route
  <2>1. effect \in EndEffects \/ effect \in LateEffects
    BY <1>10 DEF Route, Basics, ProgramTypes
  <2> QED
    BY <1>10, <2>1, RouteLateTold, RouteEndTold
<1> QED
  BY <1>3, <1>4, <1>5, <1>6, <1>7, <1>8, <1>9, <1>10 DEF RatingNext

LEMMA ResultsInvKept ==
  ASSUME Basics, SteadyInv, ResultsInv, [RatingNext]_ratingVars
  PROVE  ResultsInv'
<1>1. (Steady' <=> Steady) /\ (OnlyRatingDecides' <=> OnlyRatingDecides)
  BY GameNeverChanges DEF Steady, OnlyRatingDecides
<1>2. Basics' /\ SteadyInv'
  BY BasicsNext, SteadyInvKept
<1>3. CASE Steady /\ OnlyRatingDecides /\ RatingNext
  <2>1. SteadyBooks /\ SteadyBooks' /\ QueueTold(rec.queue, AnsweredUpTo)
    BY <1>1, <1>2, <1>3 DEF SteadyInv, ResultsInv
  <2>2. QueueTold(rec.queue, AnsweredUpTo)'
    BY <1>2, <1>3, <2>1, ResultsNext
  <2> QED
    BY <2>2 DEF ResultsInv
<1>4. CASE Steady /\ OnlyRatingDecides /\ UNCHANGED ratingVars
  <2>1. QueueTold(rec.queue, AnsweredUpTo)
    BY <1>4 DEF ResultsInv
  <2>2. UNCHANGED <<game, won, published, rec, reply>>
    BY <1>4 DEF ratingVars
  <2>3. QueueTold(rec.queue, AnsweredUpTo)'
    BY <2>1, <2>2 DEF QueueTold, AnsweredUpTo, Told, Inferred, HasResult, FromMatchBefore
  <2> QED
    BY <2>3 DEF ResultsInv
<1> QED
  BY <1>1, <1>3, <1>4 DEF ResultsInv

\* A callback is new only when an answer confirms matches.
LEMMA InferredNow ==
  ASSUME Basics, SteadyInv, ResultsInv, [RatingNext]_ratingVars, Steady, OnlyRatingDecides,
         NEW c \in calls' \ calls, rec.queue[1].pre.at = rec.queue[1].match - 1
  PROVE  c.won = won[c.match]
<1>1. Reconciles
  BY DEF RatingNext, ratingVars, StartMatch, EndMatch, LateResult, Publish, Route, AnswerRoster,
     AnswerPostMatch, LookupFails, CallBack, PublishProfile, CachedRoster, RunJob, worker
<1>2. ~Quiet
  BY DEF Quiet
<1> PICK out : Active(out)
  BY <1>1, <1>2, ReconcilesShape
<1>3. Basics' /\ SteadyBooks /\ SteadyBooks' /\ QueueTold(rec.queue, AnsweredUpTo)
  <2>1. Steady'
    BY GameNeverChanges DEF Steady
  <2> QED
    BY <2>1, BasicsNext, SteadyInvKept DEF SteadyInv, ResultsInv
<1>4. FromMatchBefore(rec.queue)
  BY DEF FromMatchBefore
<1> QED
  BY <1>1, <1>3, <1>4, ActiveTold

LEMMA SteadyBooksAndRatings ==
  Spec => [](Basics /\ RowsInv /\ SteadyInv /\ ExactValues /\ ResultsInv)
<1>1. RatingInit => SteadyInv /\ ExactValues /\ ResultsInv
  BY SteadyInit, ExactValuesInit, ResultsInit
<1>2. /\ Basics /\ RowsInv /\ SteadyInv /\ ExactValues /\ ResultsInv /\ [RatingNext]_ratingVars
      => (SteadyInv /\ ExactValues /\ ResultsInv)'
  BY SteadyInvKept, ExactValuesKept, ResultsInvKept
<1> QED
  BY <1>1, <1>2, BooksAndRows, PTL DEF Spec

\* In a steady game no match is confirmed by an answer from before the provider counted it, the
\* count that is carried is never ahead of the provider's, and a row that is not marked as
\* estimated has the rating the account had right after that match (ReconcileTrackerResponse,
\* UpdateMatchPlayerMmr).
THEOREM RatingsAreRealHolds == Spec => []RatingsAreReal
<1>1. Basics /\ SteadyInv /\ ExactValues => RatingsAreReal
  BY InvariantImpliesRatings
<1> QED
  BY <1>1, SteadyBooksAndRatings, PTL

\* In a steady game where nothing but the change of rating decides, a result that is inferred
\* is the real one as long as the oldest match that waits began with the rating of the match
\* before it (ReconcileTrackerResponse, BuildDirectionalMmrPath).
THEOREM InferenceIsRealHolds == Spec => InferenceIsReal
<1>1. Basics /\ SteadyInv /\ ResultsInv /\ [RatingNext]_ratingVars =>
        [Steady /\ OnlyRatingDecides =>
           \A c \in calls' \ calls :
             rec.queue[1].pre.at = rec.queue[1].match - 1 => c.won = won[c.match]]_ratingVars
  BY InferredNow
<1> QED
  BY <1>1, SteadyBooksAndRatings, PTL DEF Spec, InferenceIsReal
=============================================================================
