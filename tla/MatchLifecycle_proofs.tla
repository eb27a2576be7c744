------------------------ MODULE MatchLifecycle_proofs ------------------------
(***************************************************************************)
(* Proofs about the life of a match.  LifecycleInv says, besides the types, *)
(* that a lifecycle is counted at most once because its generation is       *)
(* never used again (Generations) and a guid is recorded when it is counted *)
(* (EntriesSound); that the row of a counted match is saved or about to be  *)
(* (RowsFollow); that without late confirmations the saved sessions differ  *)
(* from the counted ones by the effects not routed yet (RecapsFollow); and  *)
(* that a session that is closed for a pause has a match older than         *)
(* everything that is counted later (SplitsFollow).                         *)
(***************************************************************************)
EXTENDS MatchLifecycle, TLAPS

-----------------------------------------------------------------------------
\* The inductive invariant.

\* A match that waits for its result counts, and is not the one that is on.
PendingSound ==
    \A g \in Guids : pending[g] # None =>
        /\ Counts(pending[g])
        /\ pending[g].guid = g
        /\ pending[g].session <= session
        /\ pending[g].gen <= match.gen
        /\ pending[g].gen = match.gen => ~match.inMatch

\* What is counted belongs to a session of the past or present, is not the match that is on
\* unless that is over, and its guid is recorded.
EntriesSound ==
    \A s \in Sessions : \A i \in DOMAIN tally[s] :
        /\ s <= session
        /\ tally[s][i].gen <= match.gen
        /\ tally[s][i].gen = match.gen => ~match.inMatch \/ (match.over /\ match.round)
        /\ tally[s][i].guid # NoGuid => tally[s][i].guid \in finalized

\* No two lifecycles that wait or are counted have the same generation.
Generations ==
    /\ \A g, h \in Guids : pending[g] # None /\ pending[h] # None /\ g # h =>
           pending[g].gen # pending[h].gen
    /\ \A s \in Sessions : \A i \in DOMAIN tally[s] : \A g \in Guids :
           pending[g] # None => pending[g].gen # tally[s][i].gen
    /\ \A s, t \in Sessions : \A i \in DOMAIN tally[s], j \in DOMAIN tally[t] :
           s # t \/ i # j => /\ tally[s][i].gen # tally[t][j].gen
                             /\ tally[s][i].guid = NoGuid \/ tally[s][i].guid # tally[t][j].guid

\* The router asks for what the reducer left it only.
EffectsSound ==
    /\ \A t \in Threads :
           /\ ~effects[t].busy => effects[t] = Nothing
           /\ effects[t].close => effects[t].persist = None
           /\ effects[t].close \/ effects[t].persist # None =>
                  effects[t].save = None /\ effects[t].update = None
    /\ ~effects["rank"].close /\ effects["rank"].persist = None /\ effects["rank"].ask = None

\* A save of the result of g that is not routed yet.
Saves(t, g) ==
    effects[t].save # None /\ effects[t].save.guid = g /\ ~effects[t].save.provisional

\* The result of a guid is saved once.
SavesApart ==
    \A g \in Guids :
        /\ \A r \in matchRows : r.guid = g /\ ~r.provisional => g \in finalized
        /\ \A t \in Threads : Saves(t, g) =>
               /\ g \in finalized
               /\ \A r \in matchRows : r.guid = g => r.provisional
               /\ \A u \in Threads : Saves(u, g) => u = t

\* The row a counted match is to have.
RowFor(e) == [guid |-> e.guid, gen |-> e.gen, won |-> e.won, provisional |-> FALSE]

\* A counted match has its row, or a thread is about to save it.
RowsFollow ==
    \A s \in Sessions : \A i \in DOMAIN tally[s] : tally[s][i].guid # NoGuid =>
        \/ {r \in matchRows : r.guid = tally[s][i].guid} = {RowFor(tally[s][i])}
        \/ \E t \in Threads : effects[t].save = RowFor(tally[s][i])

\* Without late confirmations: a closed session with matches has a row of its own, or its
\* recap is about to be saved, and its row says what was counted, or is about to.
RecapsFollow ==
    LET fx == effects["telemetry"]
    IN  /\ awaiting = {} /\ effects["rank"] = Nothing
        /\ \A s \in Sessions : rowOf[s] # 0 => s < session /\ sessionRows[rowOf[s]].of = s
        /\ \A k \in 1..Len(sessionRows) :
               IF sessionRows[k].of = 0 THEN sessionRows[k].tally = <<>>
               ELSE /\ rowOf[sessionRows[k].of] = k
                    /\ \/ sessionRows[k].tally = tally[sessionRows[k].of]
                       \/ fx.update # None /\ fx.update.of = sessionRows[k].of
        /\ fx.persist # None =>
               /\ fx.persist.of = recapOf /\ recapOf # 0 /\ rowOf[recapOf] = 0
               /\ fx.persist.tally = tally[recapOf]
        /\ fx.update # None =>
               /\ fx.update.of = recapOf /\ recapOf # 0
               /\ fx.update.tally = tally[recapOf]
        /\ recapOf # 0 => rowOf[recapOf] # 0 \/ fx.persist # None

\* Where sessions do not end with the game: each session that was closed has a match older
\* than the pause after it, hence older than what is counted in later ones.
SplitsFollow ==
    \A s \in Sessions : s < session =>
        \E i \in DOMAIN tally[s] :
            /\ tally[s][i].era < era
            /\ \A t \in Sessions : \A j \in DOMAIN tally[t] :
                   s < t => tally[s][i].era < tally[t][j].era
            /\ \A g \in Guids : pending[g] # None /\ s < pending[g].session =>
                   tally[s][i].era < pending[g].era

LifecycleInv ==
    /\ LifecycleTypeOK
    /\ recapOf < session
    /\ PendingSound /\ EntriesSound /\ Generations
    /\ EffectsSound /\ SavesApart /\ RowsFollow
    /\ ~settings.tracker => RecapsFollow
    /\ ~settings.reset => SplitsFollow

-----------------------------------------------------------------------------
\* The match, as events change it.

MatchRecords == [inMatch : BOOLEAN, guid : AnyGuid, gen : Generation, over : BOOLEAN,
                 round : BOOLEAN, fit : BOOLEAN, kind : Kinds]

\* The match n may follow m: within a lifecycle, a match that is not on does not start again,
\* and one that is over after a round stays so as long as it is on.
GoesOn(m, n) ==
    /\ n.gen >= m.gen
    /\ n.gen = m.gen =>
           /\ n.inMatch => m.inMatch
           /\ m.inMatch /\ m.over /\ m.round => ~n.inMatch \/ (n.over /\ n.round)

\* Like m, but perhaps left or over.
Ended(m, n) ==
    /\ n.gen = m.gen /\ n.round = m.round
    /\ n.inMatch => m.inMatch
    /\ m.over => n.over

LEMMA EndedGoesOn ==
    ASSUME NEW m \in MatchRecords, NEW n \in MatchRecords, Ended(m, n)
    PROVE  GoesOn(m, n)
BY DEF Ended, GoesOn, MatchRecords, Generation

LEMMA FreshFacts ==
    ASSUME NEW m \in MatchRecords
    PROVE  /\ Fresh(m) \in MatchRecords
           /\ Fresh(m).gen = m.gen /\ Fresh(m).guid = m.guid
           /\ Fresh(m).inMatch /\ ~Fresh(m).over /\ ~Fresh(m).round /\ Fresh(m).kind = "unset"
BY DEF Fresh, MatchRecords, Kinds

LEMMA NewLifecycleFacts ==
    ASSUME NEW m \in MatchRecords, NEW g \in AnyGuid
    PROVE  /\ NewLifecycle(m, g).gen = m.gen + 1
           /\ NewLifecycle(m, g).gen <= MaxGeneration => NewLifecycle(m, g) \in MatchRecords
           /\ NewLifecycle(m, g).kind = "unset"
<1>1. Fresh(m) \in MatchRecords
  BY FreshFacts
<1>2. Fresh(m).kind = "unset" /\ Fresh(m).gen = m.gen
  BY FreshFacts
<1>3. /\ NewLifecycle(m, g).gen = m.gen + 1
      /\ NewLifecycle(m, g).kind = "unset"
  BY <1>1, <1>2 DEF NewLifecycle, MatchRecords
<1>4. ASSUME m.gen + 1 <= MaxGeneration
      PROVE  NewLifecycle(m, g) \in MatchRecords
  <2>1. m.gen + 1 \in Generation
    BY <1>4, LifecycleAssumption DEF MatchRecords, Generation
  <2>. QED
    BY <2>1, <1>1 DEF NewLifecycle, MatchRecords
<1>. QED
  BY <1>3, <1>4

LEMMA AttachedFacts ==
    ASSUME match \in MatchRecords, NEW g \in AnyGuid
    PROVE  /\ Attached(g) \in MatchRecords
           /\ Attached(g).gen = match.gen /\ Attached(g).inMatch = match.inMatch
           /\ Attached(g).over = match.over /\ Attached(g).round = match.round
           /\ Attached(g).fit = match.fit /\ Attached(g).kind = match.kind
BY DEF Attached, MatchRecords

LEMMA InArenaFacts ==
    ASSUME NEW m \in MatchRecords, NEW other \in BOOLEAN, m.inMatch \/ other
    PROVE  /\ InArena(m, other).gen \in {m.gen, m.gen + 1}
           /\ InArena(m, other).gen <= MaxGeneration => /\ InArena(m, other) \in MatchRecords
                                                       /\ GoesOn(m, InArena(m, other))
<1>. DEFINE n == InArena(m, other)
            a == NewLifecycle(m, NoGuid)
            b == [Fresh(m) EXCEPT !.kind = m.kind]
<1>1. NoGuid \in AnyGuid
  BY DEF AnyGuid
<1>2. a.gen = m.gen + 1 /\ (a.gen <= MaxGeneration => a \in MatchRecords)
  BY <1>1, NewLifecycleFacts
<1>3. /\ b \in MatchRecords /\ b.gen = m.gen /\ b.inMatch
  BY FreshFacts DEF MatchRecords
<1>4. CASE n = m
  BY <1>4 DEF GoesOn, MatchRecords, Generation
<1>5. CASE n = a
  BY <1>5, <1>2 DEF GoesOn, MatchRecords, Generation
<1>6. CASE n = b /\ m.inMatch /\ ~m.round
  BY <1>6, <1>3 DEF GoesOn, MatchRecords, Generation
<1>7. n = m \/ n = a \/ (n = b /\ m.inMatch /\ ~m.round)
  BY DEF InArena, MatchRecords
<1>. QED
  BY <1>4, <1>5, <1>6, <1>7

LEMMA InPlaylistFacts ==
    ASSUME NEW m \in MatchRecords, NEW kind \in Kinds
    PROVE  /\ InPlaylist(m, kind).gen \in {m.gen, m.gen + 1}
           /\ InPlaylist(m, kind).gen <= MaxGeneration => /\ InPlaylist(m, kind) \in MatchRecords
                                                          /\ GoesOn(m, InPlaylist(m, kind))
<1>. DEFINE n == InPlaylist(m, kind)
            a == NewLifecycle(m, m.guid)
            b == [a EXCEPT !.kind = kind]
            d == [m EXCEPT !.kind = kind]
<1>1. m.guid \in AnyGuid
  BY DEF MatchRecords
<1>2. a.gen = m.gen + 1 /\ (a.gen <= MaxGeneration => a \in MatchRecords)
  BY <1>1, NewLifecycleFacts
<1>3. b.gen = a.gen
  BY DEF NewLifecycle, Fresh
<1>4. a \in MatchRecords => b \in MatchRecords
  BY DEF MatchRecords
<1>5. d \in MatchRecords /\ d.gen = m.gen /\ GoesOn(m, d)
  BY DEF MatchRecords, GoesOn, Generation
<1>6. CASE n = m
  BY <1>6 DEF GoesOn, MatchRecords, Generation
<1>7. CASE n = b
  BY <1>7, <1>2, <1>3, <1>4 DEF GoesOn, MatchRecords, Generation
<1>8. CASE n = d
  BY <1>8, <1>5
<1>9. n = m \/ n = b \/ n = d
  BY DEF InPlaylist
<1>. QED
  BY <1>6, <1>7, <1>8, <1>9

\* A match whose generation may be beyond the bound.
AnyMatch == [inMatch : BOOLEAN, guid : AnyGuid, gen : Nat, over : BOOLEAN,
             round : BOOLEAN, fit : BOOLEAN, kind : Kinds]

LEMMA NewLifecycleIsAny ==
    ASSUME NEW m \in MatchRecords, NEW g \in AnyGuid
    PROVE  NewLifecycle(m, g) \in AnyMatch
<1>1. Fresh(m) \in MatchRecords
  BY FreshFacts
<1>2. m.gen + 1 \in Nat
  BY DEF MatchRecords, Generation
<1>3. Fresh(m) \in AnyMatch
  BY <1>1 DEF MatchRecords, AnyMatch, Generation
<1>. QED
  BY <1>2, <1>3 DEF NewLifecycle, AnyMatch

LEMMA PlaylistGeneration ==
    ASSUME NEW m \in AnyMatch, NEW kind \in Kinds
    PROVE  InPlaylist(m, kind).gen >= m.gen /\ InPlaylist(m, kind).gen \in Int
<1>. DEFINE b == [NewLifecycle(m, m.guid) EXCEPT !.kind = kind]
            d == [m EXCEPT !.kind = kind]
<1>1. b.gen = m.gen + 1
  BY DEF NewLifecycle, Fresh, AnyMatch
<1>2. d.gen = m.gen
  BY DEF AnyMatch
<1>3. InPlaylist(m, kind) = m \/ InPlaylist(m, kind) = b \/ InPlaylist(m, kind) = d
  BY DEF InPlaylist
<1>4. m.gen \in Nat
  BY DEF AnyMatch
<1>. HIDE DEF b, d
<1>. QED
  BY <1>1, <1>2, <1>3, <1>4

LEMMA GoesOnTransitive ==
    ASSUME NEW m \in MatchRecords, NEW n \in MatchRecords, NEW o \in MatchRecords,
           GoesOn(m, n), GoesOn(n, o)
    PROVE  GoesOn(m, o)
BY DEF GoesOn, MatchRecords, Generation

-----------------------------------------------------------------------------
\* Effects.

\* The effects of an event.
Holds(fx, close, persist, save, update, ask) ==
    /\ fx \in Effects
    /\ fx.close = close /\ fx.persist = persist /\ fx.save = save
    /\ fx.update = update /\ fx.ask = ask

LEMMA NothingFacts ==
    Holds(Nothing, FALSE, None, None, None, None) /\ Nothing.busy = FALSE
<1>. DEFINE R == Recap \cup {None}
            S == Snapshot \cup {None}
            A == Guids \cup {None}
<1>1. None \in R /\ None \in S /\ None \in A
  OBVIOUS
<1>2. Effects = [close : BOOLEAN, persist : R, save : S, update : R, ask : A, busy : BOOLEAN]
  BY DEF Effects
<1>. HIDE DEF R, S, A
<1>. QED
  BY <1>1, <1>2 DEF Nothing, Holds

LEMMA BusyFacts ==
    /\ Holds(Busy, FALSE, None, None, None, None) /\ Busy.busy
    /\ \A close \in BOOLEAN : LET fx == [Busy EXCEPT !.close = close]
                             IN  Holds(fx, close, None, None, None, None) /\ fx.busy
    /\ \A persist \in Recap : LET fx == [Busy EXCEPT !.persist = persist]
                             IN  Holds(fx, FALSE, persist, None, None, None) /\ fx.busy
    /\ \A save \in Snapshot, update \in Recap \cup {None} :
           LET fx == [Busy EXCEPT !.save = save, !.update = update]
           IN  Holds(fx, FALSE, None, save, update, None) /\ fx.busy
    /\ \A save \in Snapshot \cup {None}, ask \in Guids :
           LET fx == [Busy EXCEPT !.ask = ask, !.save = save]
           IN  Holds(fx, FALSE, None, save, None, ask) /\ fx.busy
<1>. DEFINE R == Recap \cup {None}
            S == Snapshot \cup {None}
            A == Guids \cup {None}
<1>1. None \in R /\ None \in S /\ None \in A
  OBVIOUS
<1>2. Recap \subseteq R /\ Snapshot \subseteq S /\ Guids \subseteq A
  OBVIOUS
<1>3. Effects = [close : BOOLEAN, persist : R, save : S, update : R, ask : A, busy : BOOLEAN]
  BY DEF Effects
<1>. HIDE DEF R, S, A
<1>4. Holds(Busy, FALSE, None, None, None, None) /\ Busy.busy
  BY NothingFacts, <1>3 DEF Busy, Holds
<1>5. ASSUME NEW close \in BOOLEAN
      PROVE  LET fx == [Busy EXCEPT !.close = close]
             IN  Holds(fx, close, None, None, None, None) /\ fx.busy
  BY <1>3, <1>4 DEF Holds
<1>6. ASSUME NEW persist \in R
      PROVE  LET fx == [Busy EXCEPT !.persist = persist]
             IN  Holds(fx, FALSE, persist, None, None, None) /\ fx.busy
  BY <1>3, <1>4 DEF Holds
<1>7. ASSUME NEW save \in S, NEW update \in R
      PROVE  LET fx == [Busy EXCEPT !.save = save, !.update = update]
             IN  Holds(fx, FALSE, None, save, update, None) /\ fx.busy
  BY <1>3, <1>4 DEF Holds
<1>8. ASSUME NEW save \in S, NEW ask \in A
      PROVE  LET fx == [Busy EXCEPT !.ask = ask, !.save = save]
             IN  Holds(fx, FALSE, None, save, None, ask) /\ fx.busy
  BY <1>3, <1>4 DEF Holds
<1>9. \A persist \in Recap : LET fx == [Busy EXCEPT !.persist = persist]
                            IN  Holds(fx, FALSE, persist, None, None, None) /\ fx.busy
  BY <1>2, <1>6
<1>10. \A save \in Snapshot, update \in Recap \cup {None} :
           LET fx == [Busy EXCEPT !.save = save, !.update = update]
           IN  Holds(fx, FALSE, None, save, update, None) /\ fx.busy
  BY <1>2, <1>7 DEF R
<1>11. \A save \in Snapshot \cup {None}, ask \in Guids :
           LET fx == [Busy EXCEPT !.ask = ask, !.save = save]
           IN  Holds(fx, FALSE, None, save, None, ask) /\ fx.busy
  BY <1>2, <1>8 DEF S
<1>. QED
  BY <1>4, <1>5, <1>9, <1>10, <1>11

LEMMA EffectsFields ==
    ASSUME NEW fx \in Effects
    PROVE  /\ fx.close \in BOOLEAN /\ fx.persist \in Recap \cup {None}
           /\ fx.save \in Snapshot \cup {None} /\ fx.update \in Recap \cup {None}
           /\ fx.ask \in Guids \cup {None} /\ fx.busy \in BOOLEAN
<1>. DEFINE R == Recap \cup {None}
            S == Snapshot \cup {None}
            A == Guids \cup {None}
<1>2. Effects = [close : BOOLEAN, persist : R, save : S, update : R, ask : A, busy : BOOLEAN]
  BY DEF Effects
<1>3. /\ fx.close \in BOOLEAN /\ fx.persist \in R /\ fx.save \in S /\ fx.update \in R
      /\ fx.ask \in A /\ fx.busy \in BOOLEAN
  <2>. HIDE DEF R, S, A
  <2>. QED
    BY <1>2
<1>. QED
  BY <1>3

\* The effects of t become fx.
Emits(t, fx) ==
    /\ fx \in Effects
    /\ effects' \in [Threads -> Effects]
    /\ effects'[t] = fx
    /\ \A u \in Threads : u # t => effects'[u] = effects[u]

LEMMA EmitsFacts ==
    ASSUME effects \in [Threads -> Effects], NEW t \in Threads, NEW fx \in Effects,
           effects' = [effects EXCEPT ![t] = fx]
    PROVE  Emits(t, fx)
<1>. DEFINE E == Effects
<1>1. effects \in [Threads -> E] /\ fx \in E
  OBVIOUS
<1>. HIDE DEF E
<1>2. /\ effects' \in [Threads -> E] /\ effects'[t] = fx
      /\ \A u \in Threads : u # t => effects'[u] = effects[u]
  BY <1>1
<1>. QED
  BY <1>1, <1>2 DEF Emits, E

LEMMA ThreadsAre == Threads = {"telemetry", "rank"} /\ "telemetry" # "rank"
BY DEF Threads

-----------------------------------------------------------------------------
\* What a step leaves alone stays right.

LEMMA MatchStep ==
    ASSUME PendingSound, EntriesSound, Generations,
           match \in MatchRecords, match' \in MatchRecords, GoesOn(match, match'),
           session \in Sessions, session' \in Sessions, session <= session',
           tally \in [Sessions -> Seq(Entry)], pending \in [Guids -> Capture \cup {None}],
           UNCHANGED <<pending, tally>>, finalized \subseteq finalized'
    PROVE  PendingSound' /\ EntriesSound' /\ Generations'
<1>1. \A s \in Sessions : s \in Int
  BY LifecycleAssumption DEF Sessions
<1>2. \A g \in Guids : pending[g] # None => pending[g].gen \in Int /\ pending[g].session \in Int
  BY <1>1 DEF Capture, Generation
<1>3. ASSUME NEW s \in Sessions, NEW i \in DOMAIN tally[s]
      PROVE  tally[s][i].gen \in Int
  <2>1. tally[s][i] \in Entry
    <3>. DEFINE E == Entry
    <3>1. tally[s] \in Seq(E)
      OBVIOUS
    <3>. HIDE DEF E
    <3>2. tally[s][i] \in E
      BY <3>1
    <3>. QED
      BY <3>2 DEF E
  <2>. QED
    BY <2>1 DEF Entry, Generation
<1>4. match.gen \in Int /\ match'.gen \in Int
  BY DEF MatchRecords, Generation
<1>5. PendingSound'
  <2>. SUFFICES ASSUME NEW g \in Guids, pending[g] # None
                PROVE  /\ Counts(pending[g]) /\ pending[g].guid = g
                       /\ pending[g].session <= session' /\ pending[g].gen <= match'.gen
                       /\ pending[g].gen = match'.gen => ~match'.inMatch
    BY DEF PendingSound, Counts
  <2>1. /\ Counts(pending[g]) /\ pending[g].guid = g
        /\ pending[g].session <= session /\ pending[g].gen <= match.gen
        /\ pending[g].gen = match.gen => ~match.inMatch
    BY DEF PendingSound
  <2>. QED
    BY <1>1, <1>2, <1>4, <2>1 DEF GoesOn
<1>6. EntriesSound'
  <2>. SUFFICES ASSUME NEW s \in Sessions, NEW i \in DOMAIN tally[s]
                PROVE  /\ s <= session' /\ tally[s][i].gen <= match'.gen
                       /\ tally[s][i].gen = match'.gen =>
                              ~match'.inMatch \/ (match'.over /\ match'.round)
                       /\ tally[s][i].guid # NoGuid => tally[s][i].guid \in finalized'
    BY DEF EntriesSound
  <2>1. /\ s <= session /\ tally[s][i].gen <= match.gen
        /\ tally[s][i].gen = match.gen => ~match.inMatch \/ (match.over /\ match.round)
        /\ tally[s][i].guid # NoGuid => tally[s][i].guid \in finalized
    BY DEF EntriesSound
  <2>2. tally[s][i].gen \in Int
    BY <1>3
  <2>. QED
    BY <1>1, <1>4, <2>1, <2>2 DEF GoesOn
<1>. QED
  BY <1>5, <1>6 DEF Generations

\* The saves are those of before, or new ones that are provisional.
SavesKept ==
    \A u \in Threads : \/ effects'[u].save = effects[u].save
                       \/ /\ effects[u].save = None
                          /\ effects'[u].save # None => effects'[u].save.provisional

LEMMA SavesStep ==
    ASSUME SavesApart, SavesKept, UNCHANGED matchRows, finalized \subseteq finalized'
    PROVE  SavesApart'
<1>1. ASSUME NEW t \in Threads, NEW g, Saves(t, g)'
      PROVE  Saves(t, g)
  BY <1>1 DEF Saves, SavesKept
<1>. QED
  BY <1>1 DEF SavesApart

LEMMA RowForFacts ==
    ASSUME NEW e \in Entry
    PROVE  /\ RowFor(e) \in Snapshot /\ RowFor(e) # None
           /\ RowFor(e).guid = e.guid /\ ~RowFor(e).provisional
<1>1. RowFor(e) \in Snapshot
  BY DEF RowFor, Entry, Snapshot
<1>2. RowFor(e).guid = e.guid /\ RowFor(e).provisional = FALSE
  BY DEF RowFor
<1>. QED
  BY <1>1, <1>2, NoneAssumption

LEMMA EntriesAre ==
    ASSUME tally \in [Sessions -> Seq(Entry)], NEW s \in Sessions, NEW i \in DOMAIN tally[s]
    PROVE  tally[s][i] \in Entry
<1>. DEFINE E == Entry
<1>1. tally[s] \in Seq(E)
  OBVIOUS
<1>. HIDE DEF E
<1>2. tally[s][i] \in E
  BY <1>1
<1>. QED
  BY <1>2 DEF E

LEMMA RowsStep ==
    ASSUME RowsFollow, SavesKept, UNCHANGED <<matchRows, tally>>,
           tally \in [Sessions -> Seq(Entry)]
    PROVE  RowsFollow'
<1>. SUFFICES ASSUME NEW s \in Sessions, NEW i \in DOMAIN tally[s], tally[s][i].guid # NoGuid
              PROVE  \/ {r \in matchRows : r.guid = tally[s][i].guid} = {RowFor(tally[s][i])}
                     \/ \E t \in Threads : effects'[t].save = RowFor(tally[s][i])
  BY DEF RowsFollow, RowFor
<1>1. RowFor(tally[s][i]) # None /\ ~RowFor(tally[s][i]).provisional
  BY EntriesAre, RowForFacts
<1>2. \/ {r \in matchRows : r.guid = tally[s][i].guid} = {RowFor(tally[s][i])}
      \/ \E t \in Threads : effects[t].save = RowFor(tally[s][i])
  BY DEF RowsFollow
<1>. QED
  BY <1>1, <1>2 DEF SavesKept

LEMMA SplitsStep ==
    ASSUME SplitsFollow, UNCHANGED <<tally, session>>, tally \in [Sessions -> Seq(Entry)],
           era \in Nat, era' \in Nat, era <= era',
           \A g \in Guids : pending'[g] # None =>
               pending'[g] = pending[g] \/ (pending'[g].era = era /\ pending'[g].session = session)
    PROVE  SplitsFollow'
<1>. SUFFICES ASSUME NEW s \in Sessions, s < session
              PROVE  \E i \in DOMAIN tally[s] :
                        /\ tally[s][i].era < era'
                        /\ \A t \in Sessions : \A j \in DOMAIN tally[t] :
                               s < t => tally[s][i].era < tally[t][j].era
                        /\ \A g \in Guids : pending'[g] # None /\ s < pending'[g].session =>
                               tally[s][i].era < pending'[g].era
  BY DEF SplitsFollow
<1>1. PICK i \in DOMAIN tally[s] :
          /\ tally[s][i].era < era
          /\ \A t \in Sessions : \A j \in DOMAIN tally[t] :
                 s < t => tally[s][i].era < tally[t][j].era
          /\ \A g \in Guids : pending[g] # None /\ s < pending[g].session =>
                 tally[s][i].era < pending[g].era
  BY DEF SplitsFollow
<1>2. tally[s][i].era \in Int
  BY EntriesAre DEF Entry, Gaps
<1>3. tally[s][i].era < era'
  BY <1>1, <1>2
<1>4. \A g \in Guids : pending'[g] # None /\ s < pending'[g].session =>
          tally[s][i].era < pending'[g].era
  BY <1>1
<1>. QED
  BY <1>1, <1>3, <1>4

-----------------------------------------------------------------------------
\* FinalizeCapturedMatch.

\* What the event leaves of the match may be closed with c: c is of the match, or waits.
Closes(m, c, left) ==
    /\ m \in MatchRecords /\ c \in Capture
    /\ Ended(match, m)
    /\ c.gen <= match.gen /\ c.session <= session
    /\ c.gen = match.gen => ~m.inMatch \/ (c.guid = m.guid /\ c.round = m.round)
    /\ \/ c.era = era /\ c.session = session
       \/ \E g \in Guids : pending[g] # None /\ pending[g] = c
    /\ \A s \in Sessions : \A i \in DOMAIN tally[s] : tally[s][i].gen # c.gen
    /\ left \in [Guids -> Capture \cup {None}]
    /\ \A g \in Guids : left[g] # None => left[g] = pending[g] /\ left[g].gen # c.gen

\* c is counted in its session, and its row is to be saved.
CountsIn(t, c, won) ==
    /\ c.session \in {session, recapOf}
    /\ tally' = [tally EXCEPT ![c.session] = Append(@, EntryOf(c, won))]
    /\ Holds(effects'[t], FALSE, None, SnapshotOf(c, won, FALSE),
             IF c.session = session THEN None
             ELSE [of |-> c.session, tally |-> tally'[c.session]], None)

\* The session of c is forgotten: its row is to be saved, and that is all.
CountsNowhere(t, c, won) ==
    /\ tally' = tally
    /\ Holds(effects'[t], FALSE, None, SnapshotOf(c, won, FALSE), None, None)

\* c is closed, and nothing else happens.
NotCounted(t) ==
    /\ tally' = tally
    /\ Holds(effects'[t], FALSE, None, None, None, None)

\* What FinalizeCapturedMatch may do.
Finalized(t, m, c, left) ==
    /\ pending' = left
    /\ match' \in MatchRecords /\ Ended(m, match')
    /\ effects' \in [Threads -> Effects]
    /\ effects'[t].busy
    /\ \A u \in Threads : u # t => effects'[u] = effects[u]
    /\ \/ /\ c.guid \in finalized
          /\ UNCHANGED finalized
          /\ NotCounted(t)
       \/ /\ c.guid \notin finalized
          /\ finalized' = Record(finalized, c.guid)
          /\ IsCurrent(c, m) => match'.over
          /\ \/ NotCounted(t)
             \/ /\ Counts(c)
                /\ \E won \in BOOLEAN : CountsIn(t, c, won) \/ CountsNowhere(t, c, won)

LEMMA EntryOfFacts ==
    ASSUME NEW c \in Capture, NEW won \in BOOLEAN, NEW provisional \in BOOLEAN
    PROVE  /\ EntryOf(c, won) \in Entry
           /\ EntryOf(c, won).guid = c.guid /\ EntryOf(c, won).gen = c.gen
           /\ EntryOf(c, won).era = c.era
           /\ SnapshotOf(c, won, provisional) \in Snapshot
           /\ SnapshotOf(c, won, provisional).guid = c.guid
           /\ SnapshotOf(c, won, provisional).provisional = provisional
           /\ RowFor(EntryOf(c, won)) = SnapshotOf(c, won, FALSE)
BY DEF EntryOf, SnapshotOf, RowFor, Capture, Entry, Snapshot

LEMMA TallyType ==
    ASSUME tally \in [Sessions -> Seq(Entry)], NEW h \in Sessions, NEW e \in Entry
    PROVE  [tally EXCEPT ![h] = Append(@, e)] \in [Sessions -> Seq(Entry)]
<1>. DEFINE E == Entry
<1>1. tally \in [Sessions -> Seq(E)] /\ e \in E
  OBVIOUS
<1>. HIDE DEF E
<1>2. [tally EXCEPT ![h] = Append(@, e)] \in [Sessions -> Seq(E)]
  BY <1>1
<1>. QED
  BY <1>2 DEF E

LEMMA FinalizeCases ==
    ASSUME LifecycleTypeOK, NEW t \in Threads, NEW m \in MatchRecords, NEW c \in Capture,
           NEW result \in Results, NEW left, Ended(match, m),
           Finalize(t, m, c, result, left, Busy)
    PROVE  Finalized(t, m, c, left)
<1>. DEFINE counts == Counts(c) /\ result # "none"
            won == result = "won"
            home == IF c.session \in {session, recapOf} THEN c.session ELSE 0
            newTally == IF home = 0 THEN tally
                        ELSE [tally EXCEPT ![home] = Append(@, EntryOf(c, won))]
            late == home # 0 /\ home # session
            update == IF late THEN [of |-> home, tally |-> newTally[home]] ELSE None
            snap == SnapshotOf(c, won, FALSE)
            fx == [Busy EXCEPT !.save = snap, !.update = update]
            over == [m EXCEPT !.over = TRUE]
<1>1. effects \in [Threads -> Effects] /\ session \in Sessions /\ recapOf \in 0..MaxSession
      /\ tally \in [Sessions -> Seq(Entry)] /\ finalized \subseteq Guids
  BY DEF LifecycleTypeOK
<1>2. c.session \in Sessions /\ c.session # 0 /\ c.guid \in AnyGuid
  BY LifecycleAssumption DEF Capture, Sessions
<1>3. home # 0 <=> c.session \in {session, recapOf}
  BY <1>2
<1>4. over \in MatchRecords /\ Ended(m, over) /\ Ended(m, m) /\ over.over
  BY DEF MatchRecords, Ended
<1>5. Holds(Busy, FALSE, None, None, None, None) /\ Busy.busy /\ Busy \in Effects
  BY BusyFacts DEF Holds
<1>6. won \in BOOLEAN
  OBVIOUS
<1>7. EntryOf(c, won) \in Entry /\ snap \in Snapshot
  BY <1>6, EntryOfFacts
<1>8. update \in Recap \cup {None}
  <2>1. CASE late
    <3>1. home \in Sessions /\ newTally \in [Sessions -> Seq(Entry)]
      BY <1>1, <1>2, <1>7, <2>1, TallyType
    <3>2. newTally[home] \in Seq(Entry)
      BY <3>1
    <3>. QED
      BY <2>1, <3>1, <3>2 DEF Recap
  <2>. QED
    BY <2>1
<1>9. Holds(fx, FALSE, None, snap, update, None) /\ fx.busy /\ fx \in Effects
  <2>. HIDE DEF snap, update
  <2>1. Holds(fx, FALSE, None, snap, update, None) /\ fx.busy
    BY <1>7, <1>8, BusyFacts
  <2>. QED
    BY <2>1 DEF Holds
<1>10. NoGuid \notin finalized
  BY <1>1, LifecycleAssumption
<1>. HIDE DEF fx, update, snap
<1>11. pending' = left
  BY DEF Finalize
<1>12. CASE c.guid # NoGuid /\ c.guid \in finalized
  <2>1. match' = m /\ effects' = [effects EXCEPT ![t] = Busy] /\ UNCHANGED <<finalized, tally>>
    BY <1>12 DEF Finalize
  <2>2. Emits(t, Busy)
    BY <1>1, <1>5, <2>1, EmitsFacts
  <2>. QED
    BY <1>4, <1>5, <1>11, <1>12, <2>1, <2>2 DEF Finalized, NotCounted, Emits
<1>13. CASE ~(c.guid # NoGuid /\ c.guid \in finalized)
  <2>1. /\ match' = IF IsCurrent(c, m) THEN over ELSE m
        /\ finalized' = Record(finalized, c.guid)
    BY <1>13 DEF Finalize
  <2>2. match' \in MatchRecords /\ Ended(m, match') /\ (IsCurrent(c, m) => match'.over)
    BY <1>4, <2>1
  <2>3. CASE ~counts
    <3>1. effects' = [effects EXCEPT ![t] = Busy] /\ tally' = tally
      BY <1>13, <2>3 DEF Finalize
    <3>2. Emits(t, Busy)
      BY <1>1, <1>5, <3>1, EmitsFacts
    <3>. QED
      BY <1>5, <1>10, <1>11, <1>13, <2>1, <2>2, <3>1, <3>2 DEF Finalized, NotCounted, Emits
  <2>4. CASE counts
    <3>1. tally' = newTally /\ effects' = [effects EXCEPT ![t] = fx]
      BY <1>13, <2>4 DEF Finalize, fx, snap, update
    <3>2. Emits(t, fx)
      BY <1>1, <1>9, <3>1, EmitsFacts
    <3>3. Holds(effects'[t], FALSE, None, snap, update, None)
      BY <1>9, <3>2 DEF Emits
    <3>4. CountsIn(t, c, won) \/ CountsNowhere(t, c, won)
      <4>1. CASE home = 0
        BY <1>3, <3>1, <3>3, <4>1 DEF CountsNowhere, snap, update
      <4>2. CASE home # 0
        <5>1. c.session \in {session, recapOf} /\ home = c.session
          BY <1>3, <4>2
        <5>2. tally' = [tally EXCEPT ![c.session] = Append(@, EntryOf(c, won))]
          BY <3>1, <5>1, <4>2
        <5>3. update = IF c.session = session THEN None
                       ELSE [of |-> c.session, tally |-> tally'[c.session]]
          BY <3>1, <4>2, <5>1 DEF update
        <5>. QED
          BY <3>3, <5>1, <5>2, <5>3 DEF CountsIn, snap
      <4>. QED
        BY <4>1, <4>2
    <3>. QED
      BY <1>6, <1>9, <1>10, <1>11, <1>13, <2>1, <2>2, <2>4, <3>2, <3>4 DEF Finalized, Emits
  <2>. QED
    BY <2>3, <2>4
<1>. QED
  BY <1>12, <1>13

\* The entry e is added to session h.
Added(h, e) ==
    /\ h \in Sessions /\ e \in Entry
    /\ tally' \in [Sessions -> Seq(Entry)]
    /\ \A s \in Sessions : \A i \in DOMAIN tally[s] :
           i \in DOMAIN tally'[s] /\ tally'[s][i] = tally[s][i]
    /\ \A s \in Sessions : \A i \in DOMAIN tally'[s] :
           \/ i \in DOMAIN tally[s] /\ tally'[s][i] = tally[s][i]
           \/ s = h /\ i = Len(tally[h]) + 1 /\ tally'[s][i] = e

LEMMA AddedFacts ==
    ASSUME tally \in [Sessions -> Seq(Entry)], NEW h \in Sessions, NEW e \in Entry,
           tally' = [tally EXCEPT ![h] = Append(@, e)]
    PROVE  Added(h, e)
<1>. DEFINE E == Entry
<1>1. tally \in [Sessions -> Seq(E)] /\ e \in E
  OBVIOUS
<1>2. tally' \in [Sessions -> Seq(E)]
  BY TallyType
<1>. HIDE DEF E
<1>3. ASSUME NEW s \in Sessions, NEW i \in DOMAIN tally[s]
      PROVE  i \in DOMAIN tally'[s] /\ tally'[s][i] = tally[s][i]
  BY <1>1
<1>4. ASSUME NEW s \in Sessions, NEW i \in DOMAIN tally'[s]
      PROVE  \/ i \in DOMAIN tally[s] /\ tally'[s][i] = tally[s][i]
             \/ s = h /\ i = Len(tally[h]) + 1 /\ tally'[s][i] = e
  <2>1. CASE s = h
    <3>1. tally'[s] = Append(tally[h], e) /\ tally[h] \in Seq(E)
      BY <1>1, <2>1
    <3>2. Len(tally[h]) \in Nat /\ DOMAIN tally[h] = 1..Len(tally[h])
          /\ DOMAIN tally'[s] = 1..(Len(tally[h]) + 1)
      BY <1>1, <3>1
    <3>3. CASE i = Len(tally[h]) + 1
      BY <1>1, <2>1, <3>1, <3>2, <3>3
    <3>4. CASE i # Len(tally[h]) + 1
      <4>1. i \in 1..Len(tally[h])
        BY <3>2, <3>4
      <4>. QED
        BY <1>1, <2>1, <3>1, <3>2, <4>1
    <3>. QED
      BY <3>3, <3>4
  <2>2. CASE s # h
    BY <1>1, <2>2
  <2>. QED
    BY <2>1, <2>2
<1>. QED
  BY <1>1, <1>2, <1>3, <1>4 DEF Added, E

\* A thread closes c while it handles an event or a confirmation.
Closing(t, m, c, left) ==
    /\ Closes(m, c, left) /\ Finalized(t, m, c, left)
    /\ ~effects[t].busy
    /\ UNCHANGED <<settings, session, recapOf, era, tables>>
    /\ awaiting' \subseteq awaiting

\* Nothing is counted, or c is, for the first time, if it counts.
LEMMA ClosingCounts ==
    ASSUME LifecycleTypeOK, NEW t \in Threads, NEW m, NEW c, NEW left, Closing(t, m, c, left)
    PROVE  \/ /\ tally' = tally
              /\ Holds(effects'[t], FALSE, None, None, None, None)
           \/ /\ Counts(c) /\ c.guid \notin finalized /\ finalized' = Record(finalized, c.guid)
              /\ IsCurrent(c, m) => match'.over
              /\ \E won \in BOOLEAN :
                     \/ CountsNowhere(t, c, won)
                     \/ CountsIn(t, c, won) /\ Added(c.session, EntryOf(c, won))
<1>1. c \in Capture /\ Finalized(t, m, c, left)
  BY DEF Closing, Closes
<1>2. c.session \in Sessions
  BY <1>1 DEF Capture
<1>3. tally \in [Sessions -> Seq(Entry)]
  BY DEF LifecycleTypeOK
<1>4. ASSUME NEW won \in BOOLEAN, CountsIn(t, c, won)
      PROVE  Added(c.session, EntryOf(c, won))
  BY <1>1, <1>2, <1>3, <1>4, EntryOfFacts, AddedFacts DEF CountsIn
<1>. QED
  BY <1>1, <1>4 DEF Finalized, NotCounted

LEMMA ClosingGenerations ==
    ASSUME LifecycleTypeOK, PendingSound, EntriesSound, Generations,
           NEW t \in Threads, NEW m, NEW c, NEW left, Closing(t, m, c, left)
    PROVE  PendingSound' /\ EntriesSound' /\ Generations'
<1>1. /\ tally \in [Sessions -> Seq(Entry)] /\ session \in Sessions /\ session' = session
      /\ finalized \subseteq Guids /\ pending \in [Guids -> Capture \cup {None}]
  BY DEF LifecycleTypeOK, Closing
<1>2. /\ match \in MatchRecords /\ m \in MatchRecords /\ match' \in MatchRecords
      /\ Ended(match, m) /\ Ended(m, match')
  BY DEF LifecycleTypeOK, MatchRecords, Closing, Closes, Finalized
<1>3. Ended(match, match') /\ GoesOn(match, match')
  <2>1. Ended(match, match')
    BY <1>2 DEF Ended
  <2>. QED
    BY <1>2, <2>1, EndedGoesOn
<1>4. /\ pending' = left /\ c \in Capture /\ c.gen <= match.gen /\ c.session <= session
      /\ \A g \in Guids : left[g] # None => left[g] = pending[g] /\ left[g].gen # c.gen
      /\ \A s \in Sessions : \A i \in DOMAIN tally[s] : tally[s][i].gen # c.gen
      /\ c.gen = match.gen => ~m.inMatch \/ (c.guid = m.guid /\ c.round = m.round)
  BY DEF Closing, Closes, Finalized
<1>5. finalized \subseteq finalized' /\ (c.guid # NoGuid => c.guid \in finalized')
  BY DEF Closing, Finalized, Record
<1>6. PendingSound'
  <2>. SUFFICES ASSUME NEW g \in Guids, left[g] # None
                PROVE  /\ Counts(left[g]) /\ left[g].guid = g
                       /\ left[g].session <= session' /\ left[g].gen <= match'.gen
                       /\ left[g].gen = match'.gen => ~match'.inMatch
    BY <1>4 DEF PendingSound, Counts
  <2>1. left[g] = pending[g] /\ pending[g] # None
    BY <1>4
  <2>2. /\ Counts(pending[g]) /\ pending[g].guid = g
        /\ pending[g].session <= session /\ pending[g].gen <= match.gen
        /\ pending[g].gen = match.gen => ~match.inMatch
    BY <2>1 DEF PendingSound
  <2>. QED
    BY <1>1, <1>3, <2>1, <2>2 DEF Ended
<1>7. CASE tally' = tally
  <2>1. EntriesSound'
    <3>. SUFFICES ASSUME NEW s \in Sessions, NEW i \in DOMAIN tally[s]
                  PROVE  /\ s <= session' /\ tally[s][i].gen <= match'.gen
                         /\ tally[s][i].gen = match'.gen =>
                                ~match'.inMatch \/ (match'.over /\ match'.round)
                         /\ tally[s][i].guid # NoGuid => tally[s][i].guid \in finalized'
      BY <1>7 DEF EntriesSound
    <3>1. /\ s <= session /\ tally[s][i].gen <= match.gen
          /\ tally[s][i].gen = match.gen => ~match.inMatch \/ (match.over /\ match.round)
          /\ tally[s][i].guid # NoGuid => tally[s][i].guid \in finalized
      BY DEF EntriesSound
    <3>. QED
      BY <1>1, <1>3, <1>5, <3>1 DEF Ended
  <2>2. Generations'
    BY <1>4, <1>7 DEF Generations
  <2>. QED
    BY <1>6, <2>1, <2>2
<1>8. ASSUME NEW won \in BOOLEAN, Added(c.session, EntryOf(c, won)), Counts(c),
             c.guid \notin finalized, IsCurrent(c, m) => match'.over
      PROVE  EntriesSound' /\ Generations'
  <2>. DEFINE e == EntryOf(c, won)
  <2>1. e.guid = c.guid /\ e.gen = c.gen
    BY <1>4, EntryOfFacts
  <2>2. \A s \in Sessions : \A i \in DOMAIN tally'[s] :
            \/ i \in DOMAIN tally[s] /\ tally'[s][i] = tally[s][i]
            \/ s = c.session /\ i = Len(tally[c.session]) + 1 /\ tally'[s][i] = e
    BY <1>8 DEF Added
  <2>. HIDE DEF e
  <2>3. c.gen = match'.gen => ~match'.inMatch \/ (match'.over /\ match'.round)
    <3>1. match'.gen = match.gen /\ match'.gen = m.gen /\ match'.round = m.round
          /\ (match'.inMatch => m.inMatch)
      BY <1>2, <1>3 DEF Ended
    <3>. QED
      BY <1>4, <1>8, <3>1 DEF IsCurrent, Counts
  <2>4. EntriesSound'
    <3>. SUFFICES ASSUME NEW s \in Sessions, NEW i \in DOMAIN tally'[s]
                  PROVE  /\ s <= session' /\ tally'[s][i].gen <= match'.gen
                         /\ tally'[s][i].gen = match'.gen =>
                                ~match'.inMatch \/ (match'.over /\ match'.round)
                         /\ tally'[s][i].guid # NoGuid => tally'[s][i].guid \in finalized'
      BY DEF EntriesSound
    <3>1. CASE i \in DOMAIN tally[s] /\ tally'[s][i] = tally[s][i]
      <4>1. /\ s <= session /\ tally[s][i].gen <= match.gen
            /\ tally[s][i].gen = match.gen => ~match.inMatch \/ (match.over /\ match.round)
            /\ tally[s][i].guid # NoGuid => tally[s][i].guid \in finalized
        BY <3>1 DEF EntriesSound
      <4>. QED
        BY <1>1, <1>3, <1>5, <3>1, <4>1 DEF Ended
    <3>2. CASE s = c.session /\ tally'[s][i] = e
      BY <1>1, <1>3, <1>4, <1>5, <2>1, <2>3, <3>2 DEF Ended
    <3>. QED
      BY <2>2, <3>1, <3>2
  <2>5. \A g, h \in Guids : left[g] # None /\ left[h] # None /\ g # h => left[g].gen # left[h].gen
    BY <1>4 DEF Generations
  <2>6. ASSUME NEW s \in Sessions, NEW i \in DOMAIN tally'[s], NEW g \in Guids, left[g] # None
        PROVE  left[g].gen # tally'[s][i].gen
    <3>1. left[g] = pending[g] /\ left[g].gen # c.gen
      BY <1>4, <2>6
    <3>2. CASE i \in DOMAIN tally[s] /\ tally'[s][i] = tally[s][i]
      BY <2>6, <3>1, <3>2 DEF Generations
    <3>3. CASE tally'[s][i] = e
      BY <2>1, <3>1, <3>3
    <3>. QED
      BY <2>2, <2>6, <3>2, <3>3
  <2>7. ASSUME NEW s \in Sessions, NEW i \in DOMAIN tally[s]
        PROVE  /\ tally[s][i].gen # e.gen
               /\ tally[s][i].guid = NoGuid \/ tally[s][i].guid # e.guid
               /\ e.guid = NoGuid \/ tally[s][i].guid # e.guid
    BY <1>4, <1>8, <2>1, <2>7 DEF EntriesSound
  <2>8. ASSUME NEW s \in Sessions, NEW r \in Sessions, NEW i \in DOMAIN tally'[s],
               NEW j \in DOMAIN tally'[r], s # r \/ i # j
        PROVE  /\ tally'[s][i].gen # tally'[r][j].gen
               /\ tally'[s][i].guid = NoGuid \/ tally'[s][i].guid # tally'[r][j].guid
    <3>1. CASE /\ i \in DOMAIN tally[s] /\ tally'[s][i] = tally[s][i]
               /\ j \in DOMAIN tally[r] /\ tally'[r][j] = tally[r][j]
      BY <2>8, <3>1 DEF Generations
    <3>2. CASE /\ i \in DOMAIN tally[s] /\ tally'[s][i] = tally[s][i]
               /\ r = c.session /\ j = Len(tally[c.session]) + 1 /\ tally'[r][j] = e
      BY <2>7, <3>2
    <3>3. CASE /\ j \in DOMAIN tally[r] /\ tally'[r][j] = tally[r][j]
               /\ s = c.session /\ i = Len(tally[c.session]) + 1 /\ tally'[s][i] = e
      BY <2>7, <3>3
    <3>. QED
      BY <2>2, <2>8, <3>1, <3>2, <3>3
  <2>9. Generations'
    BY <1>4, <2>5, <2>6, <2>8 DEF Generations
  <2>. QED
    BY <2>4, <2>9
<1>. QED
  BY <1>6, <1>7, <1>8, ClosingCounts DEF CountsNowhere

LEMMA ClosingSaves ==
    ASSUME LifecycleTypeOK, EffectsSound, SavesApart, RowsFollow,
           NEW t \in Threads, NEW m, NEW c, NEW left, Closing(t, m, c, left)
    PROVE  EffectsSound' /\ SavesApart' /\ RowsFollow'
<1>1. /\ c \in Capture /\ c.guid \in AnyGuid /\ tally \in [Sessions -> Seq(Entry)]
      /\ finalized \subseteq finalized' /\ matchRows' = matchRows
      /\ effects'[t].busy
      /\ \A u \in Threads : u # t => effects'[u] = effects[u]
  <2>1. Closes(m, c, left) /\ Finalized(t, m, c, left) /\ matchRows' = matchRows
    BY DEF Closing, tables
  <2>2. c \in Capture /\ c.guid \in AnyGuid
    BY <2>1 DEF Closes, Capture
  <2>3. finalized \subseteq finalized'
    BY <2>1 DEF Finalized, Record
  <2>. QED
    BY <2>1, <2>2, <2>3 DEF Finalized, LifecycleTypeOK
<1>2. effects[t].save = None
  BY NothingFacts DEF EffectsSound, Closing, Holds
<1>3. /\ effects'[t].close = FALSE /\ effects'[t].persist = None /\ effects'[t].ask = None
      /\ \/ effects'[t].save = None /\ tally' = tally
         \/ /\ c.guid \notin finalized /\ finalized' = Record(finalized, c.guid)
            /\ \E won \in BOOLEAN :
                   /\ effects'[t].save = SnapshotOf(c, won, FALSE)
                   /\ tally' = tally \/ Added(c.session, EntryOf(c, won))
  <2>1. CASE tally' = tally /\ Holds(effects'[t], FALSE, None, None, None, None)
    BY <2>1 DEF Holds
  <2>2. ASSUME c.guid \notin finalized, finalized' = Record(finalized, c.guid),
               NEW won \in BOOLEAN,
               \/ CountsNowhere(t, c, won)
               \/ CountsIn(t, c, won) /\ Added(c.session, EntryOf(c, won))
        PROVE  /\ effects'[t].close = FALSE /\ effects'[t].persist = None
               /\ effects'[t].ask = None /\ effects'[t].save = SnapshotOf(c, won, FALSE)
               /\ tally' = tally \/ Added(c.session, EntryOf(c, won))
    BY <2>2 DEF CountsIn, CountsNowhere, Holds
  <2>. QED
    BY <2>1, <2>2, ClosingCounts
<1>4. EffectsSound'
  <2>1. ASSUME NEW u \in Threads
        PROVE  /\ ~effects'[u].busy => effects'[u] = Nothing
               /\ effects'[u].close => effects'[u].persist = None
               /\ effects'[u].close \/ effects'[u].persist # None =>
                      effects'[u].save = None /\ effects'[u].update = None
    BY <1>1, <1>3 DEF EffectsSound
  <2>2. ~effects'["rank"].close /\ effects'["rank"].persist = None /\ effects'["rank"].ask = None
    BY <1>1, <1>3, ThreadsAre DEF EffectsSound
  <2>. QED
    BY <2>1, <2>2 DEF EffectsSound, Nothing
<1>5. CASE effects'[t].save = None /\ tally' = tally
  <2>1. SavesKept
    BY <1>1, <1>2, <1>5 DEF SavesKept
  <2>. QED
    BY <1>1, <1>4, <1>5, <2>1, SavesStep, RowsStep
<1>6. ASSUME c.guid \notin finalized, finalized' = Record(finalized, c.guid),
             NEW won \in BOOLEAN, effects'[t].save = SnapshotOf(c, won, FALSE),
             tally' = tally \/ Added(c.session, EntryOf(c, won))
      PROVE  SavesApart' /\ RowsFollow'
  <2>. DEFINE e == EntryOf(c, won)
              snap == SnapshotOf(c, won, FALSE)
  <2>1. /\ snap.guid = c.guid /\ snap.provisional = FALSE /\ snap \in Snapshot
        /\ RowFor(e) = snap
    BY <1>1, EntryOfFacts
  <2>2. snap # None
    BY <2>1, NoneAssumption
  <2>. HIDE DEF e, snap
  <2>3. ASSUME NEW u \in Threads, NEW g \in Guids, Saves(u, g)'
        PROVE  IF u = t THEN g = c.guid ELSE Saves(u, g)
    BY <1>1, <1>6, <2>1, <2>3 DEF Saves, snap
  <2>4. SavesApart'
    <3>. SUFFICES ASSUME NEW g \in Guids
                  PROVE  /\ \A r \in matchRows : r.guid = g /\ ~r.provisional => g \in finalized'
                         /\ \A u \in Threads : Saves(u, g)' =>
                                /\ g \in finalized'
                                /\ \A r \in matchRows : r.guid = g => r.provisional
                                /\ \A v \in Threads : Saves(v, g)' => v = u
      BY <1>1 DEF SavesApart
    <3>1. g = c.guid => g \in finalized' /\ g \notin finalized
      BY <1>6, LifecycleAssumption DEF Record
    <3>2. ASSUME NEW u \in Threads, Saves(u, g)', u = t
          PROVE  /\ g \in finalized'
                 /\ \A r \in matchRows : r.guid = g => r.provisional
                 /\ \A v \in Threads : Saves(v, g)' => v = u
      <4>1. g = c.guid
        BY <2>3, <3>2
      <4>. QED
        BY <2>3, <3>1, <3>2, <4>1 DEF SavesApart
    <3>3. ASSUME NEW u \in Threads, Saves(u, g)', u # t
          PROVE  /\ g \in finalized'
                 /\ \A r \in matchRows : r.guid = g => r.provisional
                 /\ \A v \in Threads : Saves(v, g)' => v = u
      <4>1. Saves(u, g)
        BY <2>3, <3>3
      <4>2. g \in finalized
        BY <4>1 DEF SavesApart
      <4>. QED
        BY <1>1, <2>3, <3>1, <4>1, <4>2 DEF SavesApart
    <3>. QED
      BY <1>1, <3>2, <3>3 DEF SavesApart
  <2>5. RowsFollow'
    <3>. SUFFICES ASSUME NEW s \in Sessions, NEW i \in DOMAIN tally'[s],
                         tally'[s][i].guid # NoGuid
                  PROVE  \/ {r \in matchRows : r.guid = tally'[s][i].guid}
                                = {RowFor(tally'[s][i])}
                         \/ \E u \in Threads : effects'[u].save = RowFor(tally'[s][i])
      BY <1>1 DEF RowsFollow, RowFor
    <3>1. CASE i \in DOMAIN tally[s] /\ tally'[s][i] = tally[s][i]
      <4>1. RowFor(tally[s][i]) # None
        BY <1>1, <3>1, EntriesAre, RowForFacts
      <4>2. \/ {r \in matchRows : r.guid = tally[s][i].guid} = {RowFor(tally[s][i])}
            \/ \E u \in Threads : effects[u].save = RowFor(tally[s][i])
        BY <3>1 DEF RowsFollow
      <4>. QED
        BY <1>1, <1>2, <3>1, <4>1, <4>2
    <3>2. CASE tally'[s][i] = e
      BY <1>6, <2>1, <3>2 DEF snap
    <3>. QED
      BY <1>6, <3>1, <3>2 DEF Added, e
  <2>. QED
    BY <2>4, <2>5
<1>. QED
  BY <1>3, <1>4, <1>5, <1>6

LEMMA ClosingRecaps ==
    ASSUME LifecycleTypeOK, recapOf < session, EffectsSound, RecapsFollow,
           NEW m, NEW c, NEW left, Closing("telemetry", m, c, left)
    PROVE  RecapsFollow'
<1>. DEFINE fx == effects'["telemetry"]
<1>1. /\ session \in Sessions /\ recapOf \in 0..MaxSession /\ c.session \in Sessions
      /\ tally \in [Sessions -> Seq(Entry)] /\ rowOf \in [Sessions -> 0..Len(sessionRows)]
      /\ sessionRows \in Seq(SessionRow)
  BY DEF LifecycleTypeOK, Closing, Closes, Capture
<1>2. /\ UNCHANGED <<session, recapOf, sessionRows, rowOf>> /\ awaiting' = {}
      /\ effects'["rank"] = Nothing
  BY ThreadsAre DEF Closing, Finalized, tables, RecapsFollow
<1>3. effects["telemetry"].persist = None /\ effects["telemetry"].update = None
  BY NothingFacts, ThreadsAre DEF EffectsSound, Closing, Holds
<1>4. recapOf \in Int /\ session \in Int /\ session # 0 /\ c.session # 0
  BY <1>1, LifecycleAssumption DEF Sessions
<1>5. /\ recapOf # 0 => rowOf[recapOf] # 0
      /\ \A s \in Sessions : rowOf[s] # 0 => s < session /\ sessionRows[rowOf[s]].of = s
      /\ \A k \in 1..Len(sessionRows) :
             IF sessionRows[k].of = 0 THEN sessionRows[k].tally = <<>>
             ELSE /\ rowOf[sessionRows[k].of] = k
                  /\ sessionRows[k].tally = tally[sessionRows[k].of]
  BY <1>3 DEF RecapsFollow
<1>6. ASSUME NEW k \in 1..Len(sessionRows), sessionRows[k].of # 0
      PROVE  sessionRows[k].of \in Sessions /\ sessionRows[k].of < session
  <2>1. sessionRows[k].of \in Sessions
    <3>. DEFINE R == SessionRow
    <3>1. sessionRows \in Seq(R)
      BY <1>1
    <3>. HIDE DEF R
    <3>2. sessionRows[k] \in R
      BY <3>1
    <3>3. sessionRows[k].of \in 0..MaxSession
      BY <3>2 DEF R, SessionRow
    <3>. QED
      BY <1>6, <3>3 DEF Sessions
  <2>2. rowOf[sessionRows[k].of] = k /\ k # 0
    BY <1>5, <1>6
  <2>. QED
    BY <1>5, <2>1, <2>2
<1>7. fx.persist = None
  BY ClosingCounts, ThreadsAre DEF CountsIn, CountsNowhere, Holds
<1>8. CASE tally' = tally /\ fx.update = None
  BY <1>2, <1>5, <1>7, <1>8 DEF RecapsFollow
<1>9. ASSUME NEW won \in BOOLEAN, CountsIn("telemetry", c, won)
      PROVE  RecapsFollow'
  <2>1. /\ c.session \in {session, recapOf}
        /\ \A s \in Sessions : s # c.session => tally'[s] = tally[s]
        /\ fx.update = IF c.session = session THEN None
                       ELSE [of |-> c.session, tally |-> tally'[c.session]]
    BY <1>1, <1>9 DEF CountsIn, Holds
  <2>2. CASE c.session = session
    <3>1. fx.update = None
      BY <2>1, <2>2
    <3>2. \A k \in 1..Len(sessionRows) : sessionRows[k].of # 0 =>
              tally'[sessionRows[k].of] = tally[sessionRows[k].of]
      BY <1>4, <1>6, <2>1, <2>2
    <3>. QED
      BY <1>2, <1>5, <1>7, <3>1, <3>2 DEF RecapsFollow
  <2>3. CASE c.session = recapOf /\ c.session # session
    <3>. DEFINE r == [of |-> recapOf, tally |-> tally'[recapOf]]
    <3>1. fx.update = r
      BY <2>1, <2>3
    <3>2. r.of = recapOf /\ r.tally = tally'[recapOf]
      OBVIOUS
    <3>3. r \in Recap
      <4>1. tally' \in [Sessions -> Seq(Entry)] /\ recapOf \in Sessions
        BY <1>1, <1>9, <2>3, EntryOfFacts, TallyType DEF CountsIn, Closing, Closes
      <4>2. tally'[recapOf] \in Seq(Entry)
        BY <4>1
      <4>. QED
        BY <4>1, <4>2 DEF Recap
    <3>4. r # None
      BY <3>3, NoneAssumption
    <3>. HIDE DEF r
    <3>5. ASSUME NEW k \in 1..Len(sessionRows), sessionRows[k].of # 0
          PROVE  /\ rowOf[sessionRows[k].of] = k
                 /\ \/ sessionRows[k].tally = tally'[sessionRows[k].of]
                    \/ fx.update # None /\ fx.update.of = sessionRows[k].of
      BY <1>5, <1>6, <2>1, <2>3, <3>1, <3>2, <3>4, <3>5
    <3>. QED
      BY <1>2, <1>4, <1>5, <1>7, <2>3, <3>1, <3>2, <3>5 DEF RecapsFollow
  <2>. QED
    BY <2>1, <2>2, <2>3
<1>. QED
  BY <1>8, <1>9, ClosingCounts, ThreadsAre DEF CountsNowhere, Holds

LEMMA ClosingSplits ==
    ASSUME LifecycleTypeOK, SplitsFollow,
           NEW t \in Threads, NEW m, NEW c, NEW left, Closing(t, m, c, left)
    PROVE  SplitsFollow'
<1>1. /\ tally \in [Sessions -> Seq(Entry)] /\ c \in Capture /\ UNCHANGED <<session, era>>
      /\ pending' = left /\ \A g \in Guids : left[g] # None => left[g] = pending[g]
      /\ \/ c.era = era /\ c.session = session
         \/ \E g \in Guids : pending[g] # None /\ pending[g] = c
  BY DEF LifecycleTypeOK, Closing, Closes, Finalized
<1>2. \/ tally' = tally
      \/ \E won \in BOOLEAN : Added(c.session, EntryOf(c, won))
  BY ClosingCounts DEF CountsNowhere
<1>. SUFFICES ASSUME NEW s \in Sessions, s < session
              PROVE  \E i \in DOMAIN tally'[s] :
                        /\ tally'[s][i].era < era
                        /\ \A r \in Sessions : \A j \in DOMAIN tally'[r] :
                               s < r => tally'[s][i].era < tally'[r][j].era
                        /\ \A g \in Guids : left[g] # None /\ s < left[g].session =>
                               tally'[s][i].era < left[g].era
  BY <1>1 DEF SplitsFollow
<1>3. PICK i \in DOMAIN tally[s] :
          /\ tally[s][i].era < era
          /\ \A r \in Sessions : \A j \in DOMAIN tally[r] :
                 s < r => tally[s][i].era < tally[r][j].era
          /\ \A g \in Guids : pending[g] # None /\ s < pending[g].session =>
                 tally[s][i].era < pending[g].era
  BY DEF SplitsFollow
<1>4. s < c.session => tally[s][i].era < c.era
  BY <1>1, <1>3
<1>5. CASE tally' = tally
  BY <1>1, <1>3, <1>5
<1>6. ASSUME NEW won \in BOOLEAN, Added(c.session, EntryOf(c, won))
      PROVE  /\ i \in DOMAIN tally'[s] /\ tally'[s][i] = tally[s][i]
             /\ \A r \in Sessions : \A j \in DOMAIN tally'[r] :
                    s < r => tally'[s][i].era < tally'[r][j].era
  <2>1. EntryOf(c, won).era = c.era
    BY <1>1, EntryOfFacts
  <2>. QED
    BY <1>3, <1>4, <1>6, <2>1 DEF Added
<1>. QED
  BY <1>1, <1>2, <1>3, <1>5, <1>6

LEMMA ClosingTypes ==
    ASSUME LifecycleTypeOK, {blocked', replay', resetDone'} \subseteq BOOLEAN,
           NEW t \in Threads, NEW m, NEW c, NEW left, Closing(t, m, c, left)
    PROVE  LifecycleTypeOK'
<1>1. /\ UNCHANGED <<settings, session, recapOf, era, matchRows, sessionRows, rowOf>>
      /\ awaiting' \subseteq awaiting /\ match' \in MatchRecords
      /\ pending' \in [Guids -> Capture \cup {None}]
      /\ effects' \in [Threads -> Effects] /\ c \in Capture /\ c.guid \in AnyGuid
  BY DEF Closing, Closes, Finalized, Capture, tables
<1>2. finalized' \subseteq Guids
  BY <1>1 DEF Closing, Finalized, Record, AnyGuid, LifecycleTypeOK
<1>3. tally' \in [Sessions -> Seq(Entry)]
  BY ClosingCounts DEF CountsNowhere, Added, LifecycleTypeOK
<1>. QED
  BY <1>1, <1>2, <1>3 DEF LifecycleTypeOK, MatchRecords

LEMMA ClosingStep ==
    ASSUME LifecycleInv, {blocked', replay', resetDone'} \subseteq BOOLEAN,
           NEW t \in Threads, t = "telemetry" \/ settings.tracker,
           NEW m, NEW c, NEW left, Closing(t, m, c, left)
    PROVE  LifecycleInv'
<1>1. LifecycleTypeOK' /\ settings' = settings /\ session' = session /\ recapOf' = recapOf
  BY ClosingTypes DEF LifecycleInv, Closing
<1>2. PendingSound' /\ EntriesSound' /\ Generations'
  BY ClosingGenerations DEF LifecycleInv
<1>3. EffectsSound' /\ SavesApart' /\ RowsFollow'
  BY ClosingSaves DEF LifecycleInv
<1>4. ~settings.tracker => RecapsFollow'
  BY ClosingRecaps DEF LifecycleInv
<1>5. ~settings.reset => SplitsFollow'
  BY ClosingSplits DEF LifecycleInv
<1>. QED
  BY <1>1, <1>2, <1>3, <1>4, <1>5 DEF LifecycleInv

-----------------------------------------------------------------------------
\* Events that count nothing.

LEMMA TypesNow ==
    ASSUME LifecycleTypeOK
    PROVE  /\ match \in MatchRecords /\ {blocked, replay, resetDone} \subseteq BOOLEAN
           /\ pending \in [Guids -> Capture \cup {None}] /\ finalized \subseteq Guids
           /\ session \in Sessions /\ tally \in [Sessions -> Seq(Entry)]
           /\ era \in Nat /\ effects \in [Threads -> Effects]
<1>1. Gaps \subseteq Nat
  BY LifecycleAssumption DEF Gaps
<1>. QED
  BY <1>1 DEF LifecycleTypeOK, MatchRecords

LEMMA RecapsStep ==
    ASSUME RecapsFollow, UNCHANGED <<awaiting, rowOf, sessionRows, tally, session, recapOf>>,
           effects'["rank"] = effects["rank"],
           effects'["telemetry"].persist = effects["telemetry"].persist,
           effects'["telemetry"].update = effects["telemetry"].update
    PROVE  RecapsFollow'
BY DEF RecapsFollow

\* The match goes on, and the router is told to close the session or nothing.
LEMMA Onward ==
    ASSUME LifecycleInv, match' \in MatchRecords, GoesOn(match, match'),
           {blocked', replay', resetDone'} \subseteq BOOLEAN, EventKeeps,
           UNCHANGED <<pending, tally>>, finalized \subseteq finalized', finalized' \subseteq Guids,
           \/ UNCHANGED effects
           \/ /\ ~effects["telemetry"].busy
              /\ \E fx \in Effects, close \in BOOLEAN :
                     Emit(fx) /\ fx.busy /\ Holds(fx, close, None, None, None, None)
    PROVE  LifecycleInv'
<1>1. /\ UNCHANGED <<settings, session, recapOf, era, awaiting, matchRows, sessionRows, rowOf>>
      /\ LifecycleTypeOK /\ recapOf < session /\ PendingSound /\ EntriesSound /\ Generations
      /\ EffectsSound /\ SavesApart /\ RowsFollow
      /\ (~settings.tracker => RecapsFollow) /\ (~settings.reset => SplitsFollow)
  BY DEF EventKeeps, tables, LifecycleInv
<1>2. /\ effects' \in [Threads -> Effects]
      /\ effects'["rank"] = effects["rank"]
      /\ \A u \in Threads : /\ effects'[u].save = effects[u].save
                            /\ effects'[u].persist = effects[u].persist
                            /\ effects'[u].update = effects[u].update
      /\ EffectsSound'
  <2>1. CASE UNCHANGED effects
    BY <1>1, <2>1, TypesNow DEF EffectsSound
  <2>2. ASSUME ~effects["telemetry"].busy, NEW fx \in Effects, NEW close \in BOOLEAN,
               Emit(fx), fx.busy, Holds(fx, close, None, None, None, None)
        PROVE  /\ Emits("telemetry", fx)
               /\ effects'["rank"] = effects["rank"]
               /\ \A u \in Threads : /\ effects'[u].save = effects[u].save
                                     /\ effects'[u].persist = effects[u].persist
                                     /\ effects'[u].update = effects[u].update
               /\ EffectsSound'
    <3>1. Emits("telemetry", fx)
      BY <1>1, <2>2, TypesNow, EmitsFacts, ThreadsAre DEF Emit
    <3>2. Holds(effects["telemetry"], FALSE, None, None, None, None)
      BY <1>1, <2>2, NothingFacts, ThreadsAre DEF EffectsSound
    <3>3. \A u \in Threads : u = "telemetry" \/ effects'[u] = effects[u]
      BY <3>1 DEF Emits
    <3>4. effects'["telemetry"] = fx /\ effects'["rank"] = effects["rank"]
      BY <3>1, ThreadsAre DEF Emits
    <3>5. \A u \in Threads : /\ effects'[u].save = effects[u].save
                             /\ effects'[u].persist = effects[u].persist
                             /\ effects'[u].update = effects[u].update
      BY <2>2, <3>2, <3>3, <3>4 DEF Holds
    <3>6. ASSUME NEW u \in Threads
          PROVE  /\ ~effects'[u].busy => effects'[u] = Nothing
                 /\ effects'[u].close => effects'[u].persist = None
                 /\ effects'[u].close \/ effects'[u].persist # None =>
                        effects'[u].save = None /\ effects'[u].update = None
      BY <1>1, <2>2, <3>3, <3>4 DEF EffectsSound, Holds
    <3>7. EffectsSound'
      BY <1>1, <3>4, <3>6 DEF EffectsSound, Nothing
    <3>. QED
      BY <3>1, <3>4, <3>5, <3>7
  <2>. QED
    BY <2>1, <2>2 DEF Emits
<1>3. PendingSound' /\ EntriesSound' /\ Generations'
  <2>1. session <= session'
    BY <1>1, TypesNow, LifecycleAssumption DEF Sessions
  <2>. QED
    BY <1>1, <2>1, TypesNow, MatchStep
<1>4. SavesApart' /\ RowsFollow'
  <2>1. SavesKept
    BY <1>2 DEF SavesKept
  <2>. QED
    BY <1>1, <2>1, TypesNow, SavesStep, RowsStep
<1>5. ~settings.tracker => RecapsFollow'
  BY <1>1, <1>2, RecapsStep, ThreadsAre
<1>6. ~settings.reset => SplitsFollow'
  <2>1. era' \in Nat /\ era <= era'
    BY <1>1, TypesNow
  <2>. QED
    BY <1>1, <2>1, TypesNow, SplitsStep
<1>7. LifecycleTypeOK'
  BY <1>1, <1>2 DEF LifecycleTypeOK, MatchRecords
<1>. QED
  BY <1>1, <1>2, <1>3, <1>4, <1>5, <1>6, <1>7 DEF LifecycleInv

LEMMA NextEventFacts ==
    ASSUME LifecycleTypeOK, NextEvent
    PROVE  resetDone' \in BOOLEAN /\ ~effects["telemetry"].busy
BY DEF NextEvent

LEMMA EmitBusy ==
    ASSUME NEW close \in BOOLEAN, Emit([Busy EXCEPT !.close = close])
    PROVE  \E fx \in Effects, x \in BOOLEAN :
               Emit(fx) /\ fx.busy /\ Holds(fx, x, None, None, None, None)
<1>. DEFINE fx == [Busy EXCEPT !.close = close]
<1>1. Holds(fx, close, None, None, None, None) /\ fx.busy
  BY BusyFacts
<1>2. fx \in Effects
  BY <1>1 DEF Holds
<1>. QED
  BY <1>1, <1>2

LEMMA ReplayCreatedStep ==
    ASSUME LifecycleInv, ReplayCreated
    PROVE  LifecycleInv'
<1>1. LifecycleTypeOK /\ GoesOn(match, match)
  BY TypesNow DEF LifecycleInv, GoesOn, MatchRecords, Generation
<1>. QED
  BY <1>1, Onward, TypesNow, NextEventFacts DEF ReplayCreated

LEMMA RoundStartedStep ==
    ASSUME LifecycleInv, RoundStarted
    PROVE  LifecycleInv'
<1>1. LifecycleTypeOK /\ match' = [match EXCEPT !.round = TRUE] /\ match \in MatchRecords
  BY TypesNow DEF LifecycleInv, RoundStarted
<1>2. /\ match' \in MatchRecords /\ match'.gen = match.gen
      /\ match'.inMatch = match.inMatch /\ match'.over = match.over
      /\ match.round => match'.round
  BY <1>1 DEF MatchRecords
<1>3. GoesOn(match, match')
  BY <1>1, <1>2 DEF GoesOn, MatchRecords, Generation
<1>. QED
  BY <1>1, <1>2, <1>3, Onward, TypesNow, NextEventFacts DEF RoundStarted

LEMMA IdentityLostStep ==
    ASSUME LifecycleInv, IdentityLost
    PROVE  LifecycleInv'
<1>1. LifecycleTypeOK /\ match' = [match EXCEPT !.fit = FALSE] /\ match \in MatchRecords
  BY TypesNow DEF LifecycleInv, IdentityLost
<1>2. /\ match' \in MatchRecords /\ match'.gen = match.gen
      /\ match'.inMatch = match.inMatch /\ match'.over = match.over
      /\ match.round => match'.round
  BY <1>1 DEF MatchRecords
<1>3. GoesOn(match, match')
  BY <1>1, <1>2 DEF GoesOn, MatchRecords, Generation
<1>. QED
  BY <1>1, <1>2, <1>3, Onward, TypesNow, NextEventFacts DEF IdentityLost

LEMMA MatchCreatedStep ==
    ASSUME LifecycleInv, NEW g \in AnyGuid, MatchCreated(g)
    PROVE  LifecycleInv'
<1>. DEFINE training == match.inMatch /\ match.kind = "training"
            fresh == \/ ~match.inMatch
                     \/ g # NoGuid /\ training
                     \/ g # NoGuid /\ match.guid # NoGuid /\ g # match.guid
            attach == match.inMatch /\ g # NoGuid /\ match.guid = NoGuid /\ ~training
<1>1. LifecycleTypeOK /\ match \in MatchRecords
  BY TypesNow DEF LifecycleInv
<1>2. /\ fresh => match.gen < MaxGeneration
      /\ match' = IF fresh THEN NewLifecycle(match, g)
                  ELSE IF attach THEN [match EXCEPT !.guid = g] ELSE match
      /\ blocked' = (blocked /\ ~fresh)
      /\ Emit([Busy EXCEPT !.close = fresh /\ ~settings.reset])
      /\ NextEvent /\ EventKeeps /\ UNCHANGED <<replay, pending, finalized, tally>>
  BY DEF MatchCreated
<1>3. match' \in MatchRecords /\ GoesOn(match, match')
  <2>1. CASE fresh
    <3>1. /\ NewLifecycle(match, g).gen = match.gen + 1
          /\ NewLifecycle(match, g).gen <= MaxGeneration => NewLifecycle(match, g) \in MatchRecords
      BY <1>1, NewLifecycleFacts
    <3>2. match' = NewLifecycle(match, g) /\ match.gen + 1 <= MaxGeneration
      BY <1>1, <1>2, <2>1, LifecycleAssumption DEF MatchRecords, Generation
    <3>. QED
      BY <1>1, <3>1, <3>2 DEF GoesOn, MatchRecords, Generation
  <2>2. CASE ~fresh
    <3>1. match' = [match EXCEPT !.guid = g] \/ match' = match
      BY <1>2, <2>2
    <3>. QED
      BY <1>1, <3>1 DEF GoesOn, MatchRecords, Generation
  <2>. QED
    BY <2>1, <2>2
<1>4. blocked' \in BOOLEAN /\ replay' \in BOOLEAN
  BY <1>1, <1>2, TypesNow
<1>5. (fresh /\ ~settings.reset) \in BOOLEAN
  OBVIOUS
<1>. QED
  BY <1>1, <1>2, <1>3, <1>4, <1>5, Onward, TypesNow, NextEventFacts, EmitBusy

LEMMA UpdateStateStep ==
    ASSUME LifecycleInv, NEW other \in BOOLEAN, NEW kind \in Kinds, NEW seen \in BOOLEAN,
           UpdateState(other, kind, seen)
    PROVE  LifecycleInv'
<1>. DEFINE arena == InArena(match, other)
            after == InPlaylist(arena, kind)
<1>1. LifecycleTypeOK /\ match \in MatchRecords
  BY TypesNow DEF LifecycleInv
<1>2. /\ NextEvent /\ (match.inMatch \/ other)
      /\ after.gen <= MaxGeneration
      /\ match' = [after EXCEPT !.fit = @ \/ seen]
      /\ blocked' = (blocked /\ after.gen = match.gen)
      /\ EventKeeps /\ UNCHANGED <<replay, pending, finalized, tally, effects>>
  BY DEF UpdateState
<1>3. /\ arena.gen \in {match.gen, match.gen + 1}
      /\ arena.gen <= MaxGeneration => arena \in MatchRecords /\ GoesOn(match, arena)
  BY <1>1, <1>2, InArenaFacts
<1>4. arena.gen <= MaxGeneration
  <2>. SUFFICES ASSUME arena.gen > MaxGeneration
                PROVE  FALSE
    BY <1>1, <1>3, LifecycleAssumption DEF MatchRecords, Generation
  <2>1. match.gen = MaxGeneration /\ arena.gen = match.gen + 1
    BY <1>1, <1>3, LifecycleAssumption DEF MatchRecords, Generation
  <2>2. arena = NewLifecycle(match, NoGuid)
    BY <1>1, <2>1, FreshFacts DEF InArena, MatchRecords, Generation
  <2>3. arena \in AnyMatch
    BY <1>1, <2>2, NewLifecycleIsAny DEF AnyGuid
  <2>4. after.gen >= arena.gen /\ after.gen \in Int
    BY <2>3, PlaylistGeneration
  <2>. QED
    BY <1>1, <1>2, <2>1, <2>4, LifecycleAssumption DEF MatchRecords, Generation
<1>5. /\ after \in MatchRecords /\ GoesOn(arena, after)
  BY <1>2, <1>3, <1>4, InPlaylistFacts
<1>6. GoesOn(match, after)
  BY <1>1, <1>3, <1>4, <1>5, GoesOnTransitive
<1>. HIDE DEF after, arena
<1>7. match' \in MatchRecords /\ GoesOn(match, match')
  BY <1>1, <1>2, <1>5, <1>6 DEF GoesOn, MatchRecords
<1>8. blocked' \in BOOLEAN
  BY <1>1, <1>2, TypesNow
<1>. QED
  BY <1>1, <1>2, <1>7, <1>8, Onward, TypesNow, NextEventFacts

-----------------------------------------------------------------------------
\* Events that end or leave a match, and confirmations.

LEMMA CaptureFacts ==
    ASSUME LifecycleTypeOK, NEW m \in MatchRecords
    PROVE  /\ CaptureOf(m) \in Capture
           /\ CaptureOf(m).guid = m.guid /\ CaptureOf(m).gen = m.gen
           /\ CaptureOf(m).session = session /\ CaptureOf(m).era = era
           /\ CaptureOf(m).round = m.round /\ CaptureOf(m).fit = m.fit
           /\ CaptureOf(m).kind = m.kind /\ CaptureOf(m).replay = replay
BY DEF CaptureOf, Capture, LifecycleTypeOK, MatchRecords

\* a is the match that is on, and n what the event leaves of it.
LEMMA ClosesCurrent ==
    ASSUME LifecycleInv, NEW a \in MatchRecords, NEW n \in MatchRecords, Ended(match, n),
           match.inMatch, ~match.over, a.gen = match.gen, ~n.inMatch \/ n = a
    PROVE  Closes(n, CaptureOf(a), pending)
<1>1. /\ LifecycleTypeOK /\ match \in MatchRecords /\ session \in Sessions
      /\ pending \in [Guids -> Capture \cup {None}]
  BY TypesNow DEF LifecycleInv
<1>. DEFINE c == CaptureOf(a)
<1>2. /\ c \in Capture /\ c.guid = a.guid /\ c.gen = match.gen /\ c.session = session
      /\ c.era = era /\ c.round = a.round
  BY <1>1, CaptureFacts
<1>3. \A s \in Sessions : \A i \in DOMAIN tally[s] : tally[s][i].gen # match.gen
  BY DEF LifecycleInv, EntriesSound
<1>4. \A g \in Guids : pending[g] # None => pending[g].gen # match.gen
  BY DEF LifecycleInv, PendingSound
<1>5. match.gen <= match.gen /\ session <= session
  BY <1>1, LifecycleAssumption DEF MatchRecords, Generation, Sessions
<1>. HIDE DEF c
<1>. QED
  BY <1>1, <1>2, <1>3, <1>4, <1>5 DEF Closes, c

LEMMA ClosesPending ==
    ASSUME LifecycleInv, NEW g \in Guids, pending[g] # None
    PROVE  Closes(match, pending[g], [pending EXCEPT ![g] = None])
<1>1. /\ match \in MatchRecords /\ pending \in [Guids -> Capture \cup {None}]
  BY TypesNow DEF LifecycleInv
<1>. DEFINE C == Capture
            left == [pending EXCEPT ![g] = None]
<1>2. pending[g] \in C /\ pending \in [Guids -> C \cup {None}]
  BY <1>1
<1>. HIDE DEF C
<1>3. left \in [Guids -> C \cup {None}] /\ left[g] = None
      /\ \A h \in Guids : h # g => left[h] = pending[h]
  BY <1>2
<1>4. Ended(match, match)
  BY DEF Ended
<1>5. /\ pending[g].gen <= match.gen /\ pending[g].session <= session
      /\ pending[g].gen = match.gen => ~match.inMatch
  BY DEF LifecycleInv, PendingSound
<1>6. \A s \in Sessions : \A i \in DOMAIN tally[s] : tally[s][i].gen # pending[g].gen
  BY DEF LifecycleInv, Generations
<1>7. \A h \in Guids : left[h] # None => left[h] = pending[h] /\ left[h].gen # pending[g].gen
  BY <1>3 DEF LifecycleInv, Generations
<1>. HIDE DEF left
<1>. QED
  BY <1>1, <1>2, <1>3, <1>4, <1>5, <1>6, <1>7 DEF Closes, C, left

LEMMA MatchEndedStep ==
    ASSUME LifecycleInv, NEW g \in AnyGuid, NEW result \in Results, MatchEnded(g, result)
    PROVE  LifecycleInv'
<1>. DEFINE m == Attached(g)
            late == g # NoGuid /\ pending[g] # None
            current == IF g # NoGuid THEN g = m.guid
                       ELSE ~HasPending /\ m.guid = NoGuid /\ ~blocked
<1>1. /\ LifecycleTypeOK /\ match \in MatchRecords
      /\ m \in MatchRecords /\ m.gen = match.gen /\ m.inMatch = match.inMatch
      /\ m.over = match.over /\ m.round = match.round
  BY TypesNow, AttachedFacts DEF LifecycleInv
<1>2. /\ EventKeeps /\ UNCHANGED <<blocked, replay>> /\ NextEvent
      /\ IF late
         THEN /\ result # "none"
              /\ Finalize("telemetry", match, pending[g], result,
                          [pending EXCEPT ![g] = None], Busy)
         ELSE IF current /\ m.inMatch /\ ~m.over
         THEN Finalize("telemetry", m, CaptureOf(m), result, pending, Busy)
         ELSE /\ match' = m
              /\ UNCHANGED <<pending, finalized, tally, effects>>
  BY DEF MatchEnded
<1>3. /\ {blocked', replay', resetDone'} \subseteq BOOLEAN
      /\ ~effects["telemetry"].busy
      /\ UNCHANGED <<settings, session, recapOf, era, tables>> /\ awaiting' \subseteq awaiting
  BY <1>1, <1>2, TypesNow, NextEventFacts DEF EventKeeps
<1>4. "telemetry" \in Threads
  BY ThreadsAre
<1>5. CASE late
  <2>1. g \in Guids /\ pending[g] \in Capture
    BY <1>1, <1>5, TypesNow DEF AnyGuid
  <2>2. Closes(match, pending[g], [pending EXCEPT ![g] = None])
    BY <1>5, <2>1, ClosesPending
  <2>3. Finalized("telemetry", match, pending[g], [pending EXCEPT ![g] = None])
    BY <1>1, <1>2, <1>4, <1>5, <2>1, <2>2, FinalizeCases DEF Closes
  <2>. QED
    BY <1>3, <1>4, <2>2, <2>3, ClosingStep DEF Closing
<1>6. CASE ~late /\ current /\ m.inMatch /\ ~m.over
  <2>1. Ended(match, m)
    BY <1>1 DEF Ended
  <2>2. Closes(m, CaptureOf(m), pending)
    BY <1>1, <1>6, <2>1, ClosesCurrent
  <2>3. Finalize("telemetry", m, CaptureOf(m), result, pending, Busy)
    BY <1>2, <1>6
  <2>4. Finalized("telemetry", m, CaptureOf(m), pending)
    BY <1>1, <1>4, <2>1, <2>2, <2>3, FinalizeCases DEF Closes
  <2>. QED
    BY <1>3, <1>4, <2>2, <2>4, ClosingStep DEF Closing
<1>7. CASE ~late /\ ~(current /\ m.inMatch /\ ~m.over)
  <2>1. match' = m /\ UNCHANGED <<pending, finalized, tally, effects>>
    BY <1>2, <1>7
  <2>2. GoesOn(match, m)
    BY <1>1 DEF GoesOn, MatchRecords, Generation
  <2>. QED
    BY <1>1, <1>2, <1>3, <2>1, <2>2, Onward, TypesNow
<1>. QED
  BY <1>5, <1>6, <1>7

LEMMA ConfirmStep ==
    ASSUME LifecycleInv, NEW g \in Guids, NEW won \in BOOLEAN, Confirm(g, won)
    PROVE  LifecycleInv'
<1>1. /\ ~effects["rank"].busy /\ g \in awaiting /\ awaiting' = awaiting \ {g}
      /\ IF pending[g] = None \/ g \in finalized
         THEN UNCHANGED <<match, pending, finalized, tally, effects>>
         ELSE Finalize("rank", match, pending[g], IF won THEN "won" ELSE "lost",
                       [pending EXCEPT ![g] = None], Busy)
      /\ UNCHANGED <<settings, blocked, replay, session, recapOf, resetDone, era, tables>>
  BY DEF Confirm
<1>2. /\ LifecycleTypeOK /\ match \in MatchRecords /\ "rank" \in Threads
      /\ {blocked', replay', resetDone'} \subseteq BOOLEAN
  BY <1>1, TypesNow, ThreadsAre DEF LifecycleInv
<1>3. settings.tracker
  BY <1>1 DEF LifecycleInv, RecapsFollow
<1>4. CASE pending[g] = None \/ g \in finalized
  <2>1. /\ UNCHANGED <<settings, match, blocked, replay, pending, finalized, session, recapOf,
                       resetDone, tally, era, effects, matchRows, sessionRows, rowOf>>
        /\ awaiting' \subseteq awaiting
    BY <1>1, <1>4 DEF tables
  <2>2. LifecycleTypeOK'
    BY <1>2, <2>1 DEF LifecycleTypeOK
  <2>3. PendingSound' /\ EntriesSound' /\ Generations'
    BY <2>1 DEF LifecycleInv, PendingSound, EntriesSound, Generations, Counts
  <2>4. EffectsSound' /\ SavesApart'
    <3>1. \A t, u : Saves(t, u)' = Saves(t, u)
      BY <2>1 DEF Saves
    <3>2. SavesApart'
      BY <2>1, <3>1 DEF LifecycleInv, SavesApart
    <3>. QED
      BY <2>1, <3>2 DEF LifecycleInv, EffectsSound, Nothing
  <2>5. RowsFollow' /\ (~settings.reset => SplitsFollow')
    BY <2>1 DEF LifecycleInv, RowsFollow, RowFor, SplitsFollow
  <2>. QED
    BY <1>3, <2>1, <2>2, <2>3, <2>4, <2>5 DEF LifecycleInv
<1>5. CASE pending[g] # None /\ g \notin finalized
  <2>. DEFINE left == [pending EXCEPT ![g] = None]
              result == IF won THEN "won" ELSE "lost"
  <2>1. Closes(match, pending[g], left)
    BY <1>5, ClosesPending
  <2>2. result \in Results /\ Finalize("rank", match, pending[g], result, left, Busy)
    BY <1>1, <1>5 DEF Results
  <2>. HIDE DEF left, result
  <2>3. Finalized("rank", match, pending[g], left)
    BY <1>2, <2>1, <2>2, FinalizeCases DEF Closes
  <2>. QED
    BY <1>1, <1>2, <1>3, <2>1, <2>3, ClosingStep DEF Closing
<1>. QED
  BY <1>4, <1>5

\* The match was left early, and waits for its result.
LEMMA DestroyedPendingStep ==
    ASSUME LifecycleInv, NEW m \in MatchRecords, NEW likely \in Results,
           m.gen = match.gen, m.round = match.round, m.fit, m.round, m.guid # NoGuid,
           m.kind \notin {"casual", "training"}, ~replay, match.inMatch, ~match.over,
           DestroyedPending(m, likely), NextEvent, EventKeeps,
           {blocked', replay', resetDone'} \subseteq BOOLEAN
    PROVE  LifecycleInv'
<1>. DEFINE c == CaptureOf(m)
            fx == effects'["telemetry"]
<1>1. /\ LifecycleTypeOK /\ recapOf < session /\ PendingSound /\ EntriesSound /\ Generations
      /\ EffectsSound /\ SavesApart /\ RowsFollow
      /\ (~settings.tracker => RecapsFollow) /\ (~settings.reset => SplitsFollow)
      /\ UNCHANGED <<settings, session, recapOf, era, awaiting, matchRows, sessionRows, rowOf,
                     finalized, tally>>
      /\ ~effects["telemetry"].busy
  BY DEF LifecycleInv, EventKeeps, tables, DestroyedPending, NextEvent
<1>2. /\ match \in MatchRecords /\ session \in Sessions /\ tally \in [Sessions -> Seq(Entry)]
      /\ pending \in [Guids -> Capture \cup {None}] /\ effects \in [Threads -> Effects]
      /\ era \in Nat /\ m.guid \in Guids /\ m.gen \in Int /\ match.gen \in Int
  BY <1>1, TypesNow DEF MatchRecords, AnyGuid, Generation
<1>3. /\ c \in Capture /\ c.guid = m.guid /\ c.gen = match.gen /\ c.session = session
      /\ c.era = era /\ Counts(c)
  BY <1>1, CaptureFacts DEF Counts
<1>. HIDE DEF c
<1>4. /\ pending' \in [Guids -> Capture \cup {None}]
      /\ \A g \in Guids : pending'[g] = pending[g] \/ (g = m.guid /\ pending'[g] = c)
  <2>. DEFINE C == Capture
  <2>1. pending \in [Guids -> C \cup {None}] /\ c \in C
        /\ pending' = [pending EXCEPT ![m.guid] = IF @ = None THEN c ELSE @]
    BY <1>2, <1>3 DEF DestroyedPending, c
  <2>. HIDE DEF C
  <2>2. /\ pending' \in [Guids -> C \cup {None}]
        /\ \A g \in Guids : pending'[g] = pending[g] \/ (g = m.guid /\ pending'[g] = c)
    BY <2>1
  <2>. QED
    BY <2>2 DEF C
<1>5. /\ match' \in MatchRecords /\ match'.gen = match.gen /\ ~match'.inMatch
  BY DEF DestroyedPending, MatchRecords
<1>6. /\ \A g \in Guids : pending[g] # None => pending[g].gen # match.gen
      /\ \A s \in Sessions : \A i \in DOMAIN tally[s] : tally[s][i].gen # match.gen
  BY <1>1 DEF PendingSound, EntriesSound
<1>7. PendingSound'
  <2>. SUFFICES ASSUME NEW g \in Guids, pending'[g] # None
                PROVE  /\ Counts(pending'[g]) /\ pending'[g].guid = g
                       /\ pending'[g].session <= session /\ pending'[g].gen <= match'.gen
                       /\ pending'[g].gen = match'.gen => ~match'.inMatch
    BY <1>1 DEF PendingSound, Counts
  <2>1. CASE pending'[g] = pending[g]
    BY <1>1, <1>5, <2>1 DEF PendingSound
  <2>2. CASE g = m.guid /\ pending'[g] = c
    <3>1. session <= session /\ match.gen <= match.gen
      BY <1>2, LifecycleAssumption DEF Sessions
    <3>. QED
      BY <1>3, <1>5, <2>2, <3>1
  <2>. QED
    BY <1>4, <2>1, <2>2
<1>8. EntriesSound'
  <2>. SUFFICES ASSUME NEW s \in Sessions, NEW i \in DOMAIN tally[s]
                PROVE  /\ s <= session /\ tally[s][i].gen <= match'.gen
                       /\ tally[s][i].gen = match'.gen =>
                              ~match'.inMatch \/ (match'.over /\ match'.round)
                       /\ tally[s][i].guid # NoGuid => tally[s][i].guid \in finalized
    BY <1>1 DEF EntriesSound
  <2>. QED
    BY <1>1, <1>5 DEF EntriesSound
<1>9. Generations'
  <2>1. \A g, h \in Guids : pending'[g] # None /\ pending'[h] # None /\ g # h =>
            pending'[g].gen # pending'[h].gen
    BY <1>1, <1>3, <1>4, <1>6 DEF Generations
  <2>2. \A s \in Sessions : \A i \in DOMAIN tally[s] : \A g \in Guids :
            pending'[g] # None => pending'[g].gen # tally[s][i].gen
    BY <1>1, <1>3, <1>4, <1>6 DEF Generations
  <2>. QED
    BY <1>1, <2>1, <2>2 DEF Generations
<1>10. \E save \in Snapshot \cup {None} :
           /\ save # None => save.provisional
           /\ Emits("telemetry", [Busy EXCEPT !.ask = m.guid, !.save = save])
           /\ Holds(fx, FALSE, None, save, None, m.guid) /\ fx.busy
  <2>. DEFINE save == IF likely = "none" \/ ~Counts(c) THEN None
                      ELSE SnapshotOf(c, likely = "won", TRUE)
              new == [Busy EXCEPT !.ask = m.guid, !.save = save]
  <2>1. (likely = "won") \in BOOLEAN
    OBVIOUS
  <2>2. save \in Snapshot \cup {None} /\ (save # None => save.provisional)
    BY <1>3, <2>1, EntryOfFacts
  <2>3. effects' = [effects EXCEPT !["telemetry"] = new]
    BY DEF DestroyedPending, Emit, c
  <2>. HIDE DEF save
  <2>4. Holds(new, FALSE, None, save, None, m.guid) /\ new.busy
    BY <1>2, <2>2, BusyFacts
  <2>5. new \in Effects
    BY <2>4 DEF Holds
  <2>. HIDE DEF new
  <2>6. Emits("telemetry", new) /\ fx = new
    <3>1. Emits("telemetry", new)
      BY <1>2, <2>3, <2>5, ThreadsAre, EmitsFacts
    <3>. QED
      BY <3>1 DEF Emits
  <2>. QED
    BY <2>2, <2>4, <2>6 DEF new
<1>11. /\ fx.close = FALSE /\ fx.persist = None /\ fx.update = None /\ fx.busy
       /\ fx.save # None => fx.save.provisional
       /\ effects'["rank"] = effects["rank"] /\ effects' \in [Threads -> Effects]
  BY <1>10, ThreadsAre DEF Holds, Emits
<1>12. Holds(effects["telemetry"], FALSE, None, None, None, None)
  BY <1>1, NothingFacts, ThreadsAre DEF EffectsSound
<1>. HIDE DEF fx
<1>13. EffectsSound'
  <2>1. ASSUME NEW u \in Threads
        PROVE  /\ ~effects'[u].busy => effects'[u] = Nothing
               /\ effects'[u].close => effects'[u].persist = None
               /\ effects'[u].close \/ effects'[u].persist # None =>
                      effects'[u].save = None /\ effects'[u].update = None
    <3>1. CASE u = "telemetry"
      BY <1>11, <3>1 DEF fx
    <3>2. CASE u = "rank"
      BY <1>1, <1>11, <3>2, ThreadsAre DEF EffectsSound
    <3>. QED
      BY <3>1, <3>2, ThreadsAre
  <2>. QED
    BY <1>1, <1>11, <2>1 DEF EffectsSound, Nothing
<1>14. SavesApart' /\ RowsFollow'
  <2>1. SavesKept
    BY <1>11, <1>12, ThreadsAre DEF SavesKept, Holds, fx
  <2>. QED
    BY <1>1, <1>2, <2>1, SavesStep, RowsStep
<1>15. ~settings.tracker => RecapsFollow'
  BY <1>1, <1>11, <1>12, RecapsStep DEF Holds, fx
<1>16. ~settings.reset => SplitsFollow'
  <2>1. era' \in Nat /\ era <= era'
    BY <1>1, <1>2
  <2>2. \A g \in Guids : pending'[g] # None =>
            pending'[g] = pending[g] \/ (pending'[g].era = era /\ pending'[g].session = session)
    BY <1>3, <1>4
  <2>. QED
    BY <1>1, <1>2, <2>1, <2>2, SplitsStep
<1>17. LifecycleTypeOK'
  BY <1>1, <1>4, <1>5, <1>11 DEF LifecycleTypeOK, MatchRecords
<1>. QED
  BY <1>1, <1>7, <1>8, <1>9, <1>13, <1>14, <1>15, <1>16, <1>17 DEF LifecycleInv

LEMMA MatchDestroyedStep ==
    ASSUME LifecycleInv, NEW g \in AnyGuid, NEW result \in Results, NEW forfeit \in BOOLEAN,
           NEW likely \in Results, MatchDestroyed(g, result, forfeit, likely)
    PROVE  LifecycleInv'
<1>. DEFINE m == Attached(g)
            gone == [m EXCEPT !.inMatch = FALSE, !.fit = FALSE]
            known == IF result # "none" THEN result ELSE IF forfeit THEN "lost" ELSE "none"
            finalizable == m.guid = NoGuid \/ m.guid \notin finalized
            void == [m EXCEPT !.over = TRUE, !.inMatch = FALSE, !.fit = FALSE]
<1>1. /\ LifecycleTypeOK /\ match \in MatchRecords
      /\ m \in MatchRecords /\ m.gen = match.gen /\ m.inMatch = match.inMatch
      /\ m.over = match.over /\ m.round = match.round
  BY TypesNow, AttachedFacts DEF LifecycleInv
<1>2. /\ NextEvent /\ m.inMatch /\ replay' = FALSE /\ EventKeeps /\ UNCHANGED blocked
      /\ \/ /\ m.over
            /\ match' = gone
            /\ UNCHANGED <<pending, finalized, tally, effects>>
         \/ /\ ~m.over
            /\ result # "none" \/ (ValidEarlyExit(m) /\ forfeit)
            /\ IF finalizable
               THEN Finalize("telemetry", gone, CaptureOf(m), known, pending, Busy)
               ELSE match' = gone /\ UNCHANGED <<pending, finalized, tally, effects>>
         \/ ~m.over /\ DestroyedVoid(m)
         \/ ~m.over /\ ValidEarlyExit(m) /\ DestroyedPending(m, likely)
  BY DEF MatchDestroyed
<1>3. /\ {blocked', replay', resetDone'} \subseteq BOOLEAN
      /\ ~effects["telemetry"].busy /\ "telemetry" \in Threads
      /\ UNCHANGED <<settings, session, recapOf, era, tables>> /\ awaiting' \subseteq awaiting
  BY <1>1, <1>2, TypesNow, NextEventFacts, ThreadsAre DEF EventKeeps
<1>4. gone \in MatchRecords /\ Ended(match, gone) /\ ~gone.inMatch
  <2>1. /\ gone \in MatchRecords /\ ~gone.inMatch /\ gone.gen = m.gen /\ gone.over = m.over
        /\ gone.round = m.round
    BY <1>1 DEF MatchRecords
  <2>. QED
    BY <1>1, <2>1 DEF Ended
<1>5. CASE match' = gone /\ UNCHANGED <<pending, finalized, tally, effects>>
  <2>1. GoesOn(match, match')
    BY <1>1, <1>4, <1>5, EndedGoesOn
  <2>. QED
    BY <1>1, <1>2, <1>3, <1>4, <1>5, <2>1, Onward, TypesNow
<1>6. CASE ~m.over /\ Finalize("telemetry", gone, CaptureOf(m), known, pending, Busy)
  <2>1. known \in Results
    BY DEF Results
  <2>. HIDE DEF gone, known
  <2>2. Closes(gone, CaptureOf(m), pending)
    BY <1>1, <1>2, <1>4, <1>6, ClosesCurrent
  <2>3. Finalized("telemetry", gone, CaptureOf(m), pending)
    BY <1>1, <1>3, <1>4, <1>6, <2>1, <2>2, FinalizeCases DEF Closes
  <2>. QED
    BY <1>3, <2>2, <2>3, ClosingStep DEF Closing
<1>7. CASE ~m.over /\ DestroyedVoid(m)
  <2>1. /\ match' = void /\ finalized' = Record(finalized, m.guid) /\ Emit(Busy)
        /\ UNCHANGED <<pending, tally>>
    BY <1>7 DEF DestroyedVoid
  <2>2. /\ void \in MatchRecords /\ ~void.inMatch /\ void.gen = m.gen /\ void.over
        /\ void.round = m.round
    BY <1>1 DEF MatchRecords
  <2>3. GoesOn(match, void)
    BY <1>1, <2>2 DEF GoesOn, MatchRecords, Generation
  <2>4. finalized \subseteq finalized' /\ finalized' \subseteq Guids
    BY <1>1, <2>1, TypesNow DEF Record, MatchRecords, AnyGuid
  <2>5. \E fx \in Effects, x \in BOOLEAN :
            Emit(fx) /\ fx.busy /\ Holds(fx, x, None, None, None, None)
    BY <2>1, BusyFacts DEF Holds
  <2>. HIDE DEF void
  <2>. QED
    BY <1>1, <1>2, <1>3, <2>1, <2>2, <2>3, <2>4, <2>5, Onward, TypesNow
<1>8. CASE ~m.over /\ ValidEarlyExit(m) /\ DestroyedPending(m, likely)
  <2>. HIDE DEF m
  <2>. QED
    BY <1>1, <1>2, <1>3, <1>8, DestroyedPendingStep DEF ValidEarlyExit
<1>. QED
  BY <1>2, <1>5, <1>6, <1>7, <1>8

LEMMA TwoHoursPassStep ==
    ASSUME LifecycleInv, TwoHoursPass
    PROVE  LifecycleInv'
<1>1. /\ LifecycleTypeOK /\ recapOf < session /\ PendingSound /\ EntriesSound /\ Generations
      /\ EffectsSound /\ SavesApart /\ RowsFollow
      /\ (~settings.tracker => RecapsFollow) /\ (~settings.reset => SplitsFollow)
      /\ era < settings.gaps /\ era' = era + 1
      /\ UNCHANGED <<settings, match, blocked, replay, pending, finalized, session, recapOf,
                     resetDone, tally, effects, awaiting, matchRows, sessionRows, rowOf>>
  BY DEF LifecycleInv, TwoHoursPass, tables
<1>2. era \in Nat /\ settings \in Settings /\ settings.gaps \in Nat
  BY <1>1, TypesNow, LifecycleAssumption DEF LifecycleTypeOK
<1>3. LifecycleTypeOK'
  <2>1. era' \in 0..settings.gaps
    BY <1>1, <1>2
  <2>2. era' \in Gaps
    BY <1>2, <2>1 DEF Gaps
  <2>. QED
    BY <1>1, <2>2 DEF LifecycleTypeOK
<1>4. PendingSound' /\ EntriesSound' /\ Generations'
  BY <1>1 DEF PendingSound, EntriesSound, Generations, Counts
<1>5. EffectsSound' /\ SavesApart' /\ RowsFollow'
  <2>1. \A t, u : Saves(t, u)' = Saves(t, u)
    BY <1>1 DEF Saves
  <2>2. SavesApart'
    BY <1>1, <2>1 DEF SavesApart
  <2>3. RowsFollow'
    BY <1>1, TypesNow, RowsStep DEF SavesKept
  <2>. QED
    BY <1>1, <2>2, <2>3 DEF EffectsSound, Nothing
<1>6. ~settings.tracker => RecapsFollow'
  BY <1>1, RecapsStep
<1>7. ~settings.reset => SplitsFollow'
  BY <1>1, <1>2, TypesNow, SplitsStep
<1>. QED
  BY <1>1, <1>3, <1>4, <1>5, <1>6, <1>7 DEF LifecycleInv

-----------------------------------------------------------------------------
\* Sessions are closed.

\* What a session that closes may become: the next one, with its recap if it has matches.
LEMMA NewSessionFacts ==
    ASSUME LifecycleInv, NewSession(session)
    PROVE  /\ session' = session + 1 /\ session' \in Sessions
           /\ recapOf' \in 0..MaxSession /\ recapOf' < session'
           /\ recapOf' = IF tally[session] # <<>> THEN session ELSE recapOf
<1>1. /\ session \in Sessions /\ settings \in Settings /\ recapOf \in 0..MaxSession
      /\ recapOf < session
  BY DEF LifecycleInv, LifecycleTypeOK
<1>2. settings.sessions \in Nat /\ settings.sessions <= MaxSession
  BY <1>1, LifecycleAssumption
<1>. QED
  BY <1>1, <1>2, LifecycleAssumption DEF NewSession, Sessions

\* After a pause, a session has a match older than everything that comes later.
LEMMA SplitByPause ==
    ASSUME LifecycleInv, SplitsFollow, Inactive, session' = session + 1,
           UNCHANGED <<tally, era, pending>>
    PROVE  SplitsFollow'
<1>1. /\ session \in Sessions /\ tally \in [Sessions -> Seq(Entry)] /\ session \in Int
  BY LifecycleAssumption DEF LifecycleInv, LifecycleTypeOK, Sessions
<1>. SUFFICES ASSUME NEW s \in Sessions, s < session + 1
              PROVE  \E i \in DOMAIN tally[s] :
                        /\ tally[s][i].era < era
                        /\ \A t \in Sessions : \A j \in DOMAIN tally[t] :
                               s < t => tally[s][i].era < tally[t][j].era
                        /\ \A g \in Guids : pending[g] # None /\ s < pending[g].session =>
                               tally[s][i].era < pending[g].era
  BY DEF SplitsFollow
<1>2. CASE s = session
  <2>1. /\ tally[session] # <<>>
        /\ \A i \in DOMAIN tally[session] : tally[session][i].era < era
    BY DEF Inactive
  <2>2. 1 \in DOMAIN tally[session]
    <3>. DEFINE E == Entry
    <3>1. tally[session] \in Seq(E)
      BY <1>1
    <3>. HIDE DEF E
    <3>. QED
      BY <2>1, <3>1
  <2>3. \A t \in Sessions : \A j \in DOMAIN tally[t] : ~(session < t)
    BY <1>1, LifecycleAssumption DEF LifecycleInv, EntriesSound, Sessions
  <2>4. \A g \in Guids : pending[g] # None => ~(session < pending[g].session)
    <3>. SUFFICES ASSUME NEW g \in Guids, pending[g] # None
                  PROVE  ~(session < pending[g].session)
      OBVIOUS
    <3>1. pending[g] \in Capture /\ pending[g].session <= session
      BY DEF LifecycleInv, LifecycleTypeOK, PendingSound
    <3>2. pending[g].session \in Int
      BY <3>1, LifecycleAssumption DEF Capture, Sessions
    <3>. QED
      BY <1>1, <3>1, <3>2
  <2>. QED
    BY <1>2, <2>1, <2>2, <2>3, <2>4
<1>3. CASE s # session
  <2>1. s < session
    BY <1>1, <1>3, LifecycleAssumption DEF Sessions
  <2>. QED
    BY <2>1 DEF SplitsFollow
<1>. QED
  BY <1>2, <1>3

\* The session closes, and its recap waits to be saved if it has matches.
LEMMA RecapsOfClosed ==
    ASSUME LifecycleInv, RecapsFollow, NewSession(session), RecapNow(session) \in Recap,
           UNCHANGED <<awaiting, rowOf, sessionRows, tally>>,
           effects'["rank"] = effects["rank"],
           effects["telemetry"].persist = None, effects["telemetry"].update = None,
           effects'["telemetry"].update = None,
           effects'["telemetry"].persist =
               IF tally[session] # <<>> THEN RecapNow(session) ELSE None
    PROVE  RecapsFollow'
<1>1. /\ session' = session + 1 /\ session \in Sessions /\ session # 0
      /\ recapOf' = IF tally[session] # <<>> THEN session ELSE recapOf
      /\ rowOf \in [Sessions -> 0..Len(sessionRows)]
  BY NewSessionFacts, LifecycleAssumption DEF LifecycleInv, LifecycleTypeOK, Sessions
<1>2. \A s \in Sessions : s \in Int
  BY LifecycleAssumption DEF Sessions
<1>3. /\ \A s \in Sessions : rowOf[s] # 0 => s < session /\ sessionRows[rowOf[s]].of = s
      /\ recapOf # 0 => rowOf[recapOf] # 0
      /\ \A k \in 1..Len(sessionRows) :
             IF sessionRows[k].of = 0 THEN sessionRows[k].tally = <<>>
             ELSE /\ rowOf[sessionRows[k].of] = k
                  /\ sessionRows[k].tally = tally[sessionRows[k].of]
  BY DEF RecapsFollow
<1>4. rowOf[session] = 0
  BY <1>1, <1>2, <1>3
<1>5. \A s \in Sessions : rowOf[s] # 0 => s < session'
  BY <1>1, <1>2, <1>3
<1>6. /\ RecapNow(session).of = session /\ RecapNow(session).tally = tally[session]
      /\ RecapNow(session) # None
  BY NoneAssumption DEF RecapNow
<1>7. awaiting' = {} /\ effects'["rank"] = Nothing
  BY DEF RecapsFollow
<1>. QED
  BY <1>1, <1>3, <1>4, <1>5, <1>6, <1>7 DEF RecapsFollow

LEMMA RecapType ==
    ASSUME LifecycleTypeOK
    PROVE  RecapNow(session) \in Recap
<1>1. session \in Sessions
  BY DEF LifecycleTypeOK
<1>2. tally[session] \in Seq(Entry)
  BY DEF LifecycleTypeOK
<1>. QED
  BY <1>1, <1>2 DEF RecapNow, Recap

LEMMA DisconnectStep ==
    ASSUME LifecycleInv, NEW closed \in BOOLEAN, NEW fifth \in BOOLEAN, Disconnect(closed, fifth)
    PROVE  LifecycleInv'
<1>. DEFINE reset == settings.reset /\ ~resetDone /\ (closed \/ fifth)
            close == ~settings.reset /\ Inactive
            recap == (reset \/ close) /\ tally[session] # <<>>
            new == IF recap THEN [Busy EXCEPT !.persist = RecapNow(session)] ELSE Nothing
            fx == effects'["telemetry"]
<1>1. /\ LifecycleTypeOK /\ recapOf < session /\ PendingSound /\ EntriesSound /\ Generations
      /\ EffectsSound /\ SavesApart /\ RowsFollow
      /\ (~settings.tracker => RecapsFollow) /\ (~settings.reset => SplitsFollow)
  BY DEF LifecycleInv
<1>2. /\ ~effects["telemetry"].busy /\ resetDone' = (resetDone \/ reset)
      /\ IF reset \/ close THEN NewSession(session) ELSE UNCHANGED <<session, recapOf>>
      /\ Cleared /\ effects' = [effects EXCEPT !["telemetry"] = new]
      /\ UNCHANGED <<settings, replay, pending, finalized, tally, era, awaiting,
                     matchRows, sessionRows, rowOf>>
  BY DEF Disconnect, Emit, tables
<1>3. /\ match \in MatchRecords /\ session \in Sessions /\ tally \in [Sessions -> Seq(Entry)]
      /\ pending \in [Guids -> Capture \cup {None}] /\ effects \in [Threads -> Effects]
      /\ era \in Nat /\ session \in Int /\ {blocked, replay, resetDone} \subseteq BOOLEAN
  BY <1>1, TypesNow, LifecycleAssumption DEF Sessions
<1>4. /\ match' \in MatchRecords /\ match'.gen = match.gen /\ ~match'.inMatch
      /\ blocked' \in BOOLEAN
  <2>1. match' = [match EXCEPT !.inMatch = FALSE, !.guid = NoGuid, !.over = FALSE,
                               !.round = FALSE, !.fit = FALSE, !.kind = "unset"]
    BY <1>2 DEF Cleared
  <2>2. NoGuid \in AnyGuid /\ "unset" \in Kinds
    BY DEF AnyGuid, Kinds
  <2>3. match' \in MatchRecords /\ match'.gen = match.gen /\ match'.inMatch = FALSE
    BY <1>3, <2>1, <2>2 DEF MatchRecords
  <2>4. blocked' \in BOOLEAN
    BY <1>2, <1>3 DEF Cleared
  <2>. QED
    BY <2>3, <2>4
<1>5. GoesOn(match, match')
  BY <1>3, <1>4 DEF GoesOn, MatchRecords, Generation
<1>6. /\ Holds(new, FALSE, IF recap THEN RecapNow(session) ELSE None, None, None, None)
      /\ new.busy \/ new = Nothing
  <2>1. RecapNow(session) \in Recap
    BY <1>1, RecapType
  <2>2. CASE recap
    BY <2>1, <2>2, BusyFacts
  <2>3. CASE ~recap
    BY <2>3, NothingFacts
  <2>. QED
    BY <2>2, <2>3
<1>. HIDE DEF new
<1>7. /\ fx = new /\ effects'["rank"] = effects["rank"] /\ effects' \in [Threads -> Effects]
  <2>1. Emits("telemetry", new)
    BY <1>2, <1>3, <1>6, EmitsFacts, ThreadsAre DEF Holds
  <2>. QED
    BY <2>1, ThreadsAre DEF Emits
<1>8. Holds(effects["telemetry"], FALSE, None, None, None, None)
  BY <1>1, <1>2, NothingFacts, ThreadsAre DEF EffectsSound
<1>9. /\ fx.close = FALSE /\ fx.save = None /\ fx.update = None
      /\ fx.persist = IF recap THEN RecapNow(session) ELSE None
      /\ fx.busy \/ fx = Nothing
  BY <1>6, <1>7 DEF Holds
<1>. HIDE DEF fx
<1>10. EffectsSound'
  <2>1. ASSUME NEW u \in Threads
        PROVE  /\ ~effects'[u].busy => effects'[u] = Nothing
               /\ effects'[u].close => effects'[u].persist = None
               /\ effects'[u].close \/ effects'[u].persist # None =>
                      effects'[u].save = None /\ effects'[u].update = None
    <3>1. CASE u = "telemetry"
      BY <1>9, <3>1 DEF fx
    <3>2. CASE u = "rank"
      BY <1>1, <1>7, <3>2, ThreadsAre DEF EffectsSound
    <3>. QED
      BY <3>1, <3>2, ThreadsAre
  <2>. QED
    BY <1>1, <1>7, <2>1 DEF EffectsSound, Nothing
<1>11. SavesApart' /\ RowsFollow'
  <2>1. SavesKept
    BY <1>7, <1>8, <1>9, ThreadsAre DEF SavesKept, Holds, fx
  <2>. QED
    BY <1>1, <1>2, <1>3, <2>1, SavesStep, RowsStep
<1>12. /\ session' \in Sessions /\ session <= session' /\ recapOf' < session'
       /\ recapOf' \in 0..MaxSession
  <2>1. CASE reset \/ close
    BY <1>2, <1>3, <2>1, NewSessionFacts
  <2>2. CASE ~(reset \/ close)
    BY <1>1, <1>2, <1>3, <2>2 DEF LifecycleTypeOK
  <2>. QED
    BY <2>1, <2>2
<1>13. PendingSound' /\ EntriesSound' /\ Generations'
  BY <1>1, <1>2, <1>3, <1>4, <1>5, <1>12, MatchStep
<1>14. ASSUME ~settings.tracker
       PROVE  RecapsFollow'
  <2>1. CASE reset \/ close
    <3>1. NewSession(session) /\ RecapNow(session) \in Recap
      BY <1>1, <1>2, <2>1, RecapType
    <3>2. fx.persist = IF tally[session] # <<>> THEN RecapNow(session) ELSE None
      BY <1>9, <2>1
    <3>. QED
      BY <1>1, <1>2, <1>7, <1>8, <1>9, <1>14, <3>1, <3>2, RecapsOfClosed DEF Holds, fx
  <2>2. CASE ~(reset \/ close)
    <3>1. fx.persist = None /\ UNCHANGED <<session, recapOf>>
      BY <1>2, <1>9, <2>2
    <3>. QED
      BY <1>1, <1>2, <1>7, <1>8, <1>9, <1>14, <3>1, RecapsStep DEF Holds, fx
  <2>. QED
    BY <2>1, <2>2
<1>15. ASSUME ~settings.reset
       PROVE  SplitsFollow'
  <2>1. CASE close
    <3>1. session' = session + 1
      BY <1>2, <2>1, NewSessionFacts
    <3>. QED
      BY <1>1, <1>2, <1>15, <2>1, <3>1, SplitByPause
  <2>2. CASE ~close
    <3>1. session' = session /\ era <= era'
      BY <1>2, <1>3, <1>15, <2>2
    <3>. QED
      BY <1>1, <1>2, <1>3, <1>15, <3>1, SplitsStep
  <2>. QED
    BY <2>1, <2>2
<1>16. LifecycleTypeOK'
  <2>1. resetDone' \in BOOLEAN
    BY <1>2, <1>3
  <2>. QED
    BY <1>1, <1>2, <1>4, <1>7, <1>12, <2>1 DEF LifecycleTypeOK, MatchRecords
<1>. QED
  BY <1>2, <1>10, <1>11, <1>12, <1>13, <1>14, <1>15, <1>16 DEF LifecycleInv

LEMMA RouteCloseStep ==
    ASSUME LifecycleInv, NEW t \in Threads, RouteClose(t)
    PROVE  LifecycleInv'
<1>. DEFINE fx == effects'["telemetry"]
            old == effects["telemetry"]
<1>1. /\ LifecycleTypeOK /\ recapOf < session /\ PendingSound /\ EntriesSound /\ Generations
      /\ EffectsSound /\ SavesApart /\ RowsFollow
      /\ (~settings.tracker => RecapsFollow) /\ (~settings.reset => SplitsFollow)
  BY DEF LifecycleInv
<1>2. /\ effects[t].close
      /\ IF Inactive
         THEN /\ NewSession(session)
              /\ effects' = [effects EXCEPT ![t].close = FALSE, ![t].persist = RecapNow(session)]
         ELSE /\ effects' = [effects EXCEPT ![t].close = FALSE]
              /\ UNCHANGED <<session, recapOf>>
      /\ UNCHANGED <<settings, match, blocked, replay, pending, finalized, resetDone, tally, era,
                     awaiting, matchRows, sessionRows, rowOf>>
  BY DEF RouteClose, tables
<1>3. t = "telemetry"
  BY <1>1, <1>2, ThreadsAre DEF EffectsSound
<1>4. /\ match \in MatchRecords /\ session \in Sessions /\ tally \in [Sessions -> Seq(Entry)]
      /\ pending \in [Guids -> Capture \cup {None}] /\ effects \in [Threads -> Effects]
      /\ era \in Nat /\ session \in Int /\ RecapNow(session) \in Recap
  BY <1>1, TypesNow, RecapType, LifecycleAssumption DEF Sessions
<1>5. old \in Effects /\ old.persist = None /\ old.save = None /\ old.update = None /\ old.busy
  BY <1>1, <1>2, <1>3, <1>4, NothingFacts DEF EffectsSound, Holds
<1>6. /\ fx \in Effects /\ fx.close = FALSE /\ fx.save = None /\ fx.update = None /\ fx.busy
      /\ fx.persist = IF Inactive THEN RecapNow(session) ELSE None
      /\ effects'["rank"] = effects["rank"] /\ effects' \in [Threads -> Effects]
  <2>. DEFINE R == Recap \cup {None}
              S == Snapshot \cup {None}
              A == Guids \cup {None}
              T == Threads
  <2>1. /\ None \in R /\ RecapNow(session) \in R /\ effects \in [T -> Effects] /\ t \in T
        /\ "rank" \in T /\ t # "rank"
    BY <1>3, <1>4, ThreadsAre
  <2>2. Effects = [close : BOOLEAN, persist : R, save : S, update : R, ask : A, busy : BOOLEAN]
    BY DEF Effects
  <2>. HIDE DEF R, S, A, T
  <2>3. CASE Inactive
    <3>. DEFINE r == RecapNow(session)
    <3>. HIDE DEF r
    <3>1. effects' = [effects EXCEPT ![t].close = FALSE, ![t].persist = r] /\ r \in R
      BY <1>2, <2>1, <2>3 DEF r
    <3>2. /\ fx \in Effects /\ fx.close = FALSE /\ fx.save = old.save /\ fx.update = old.update
          /\ fx.busy = old.busy /\ fx.persist = r
          /\ effects'["rank"] = effects["rank"] /\ effects' \in [T -> Effects]
      BY <1>3, <2>1, <2>2, <3>1, ZenonT(60)
    <3>. QED
      BY <1>5, <2>3, <3>2 DEF T, r
  <2>4. CASE ~Inactive
    <3>1. effects' = [effects EXCEPT ![t].close = FALSE]
      BY <1>2, <2>4
    <3>2. /\ fx \in Effects /\ fx.close = FALSE /\ fx.save = old.save /\ fx.update = old.update
          /\ fx.busy = old.busy /\ fx.persist = old.persist
          /\ effects'["rank"] = effects["rank"] /\ effects' \in [T -> Effects]
      BY <1>3, <2>1, <2>2, <3>1
    <3>. QED
      BY <1>5, <2>4, <3>2 DEF T
  <2>. QED
    BY <2>3, <2>4
<1>. HIDE DEF fx, old
<1>7. EffectsSound'
  <2>1. ASSUME NEW u \in Threads
        PROVE  /\ ~effects'[u].busy => effects'[u] = Nothing
               /\ effects'[u].close => effects'[u].persist = None
               /\ effects'[u].close \/ effects'[u].persist # None =>
                      effects'[u].save = None /\ effects'[u].update = None
    <3>1. CASE u = "telemetry"
      BY <1>6, <3>1 DEF fx
    <3>2. CASE u = "rank"
      BY <1>1, <1>6, <3>2, ThreadsAre DEF EffectsSound
    <3>. QED
      BY <3>1, <3>2, ThreadsAre
  <2>. QED
    BY <1>1, <1>6, <2>1 DEF EffectsSound, Nothing
<1>8. SavesApart' /\ RowsFollow'
  <2>1. SavesKept
    BY <1>5, <1>6, ThreadsAre DEF SavesKept, fx, old
  <2>. QED
    BY <1>1, <1>2, <1>4, <2>1, SavesStep, RowsStep
<1>9. /\ session' \in Sessions /\ session <= session' /\ recapOf' < session'
      /\ recapOf' \in 0..MaxSession
  <2>1. CASE Inactive
    BY <1>2, <1>4, <2>1, NewSessionFacts
  <2>2. CASE ~Inactive
    BY <1>1, <1>2, <1>4, <2>2 DEF LifecycleTypeOK
  <2>. QED
    BY <2>1, <2>2
<1>10. PendingSound' /\ EntriesSound' /\ Generations'
  <2>1. GoesOn(match, match') /\ match' \in MatchRecords
    BY <1>2, <1>4 DEF GoesOn, MatchRecords, Generation
  <2>. QED
    BY <1>1, <1>2, <1>4, <1>9, <2>1, MatchStep
<1>11. ASSUME ~settings.tracker
       PROVE  RecapsFollow'
  <2>1. CASE Inactive
    <3>1. NewSession(session) /\ tally[session] # <<>>
      BY <1>2, <2>1 DEF Inactive
    <3>. QED
      BY <1>1, <1>2, <1>4, <1>5, <1>6, <1>11, <2>1, <3>1, RecapsOfClosed DEF fx, old
  <2>2. CASE ~Inactive
    BY <1>1, <1>2, <1>5, <1>6, <1>11, <2>2, RecapsStep DEF fx, old
  <2>. QED
    BY <2>1, <2>2
<1>12. ASSUME ~settings.reset
       PROVE  SplitsFollow'
  <2>1. CASE Inactive
    <3>1. session' = session + 1
      BY <1>2, <2>1, NewSessionFacts
    <3>. QED
      BY <1>1, <1>2, <1>12, <2>1, <3>1, SplitByPause
  <2>2. CASE ~Inactive
    <3>1. session' = session /\ era <= era'
      BY <1>2, <1>4, <2>2
    <3>. QED
      BY <1>1, <1>2, <1>4, <1>12, <3>1, SplitsStep
  <2>. QED
    BY <2>1, <2>2
<1>13. LifecycleTypeOK'
  BY <1>1, <1>2, <1>6, <1>9 DEF LifecycleTypeOK, MatchRecords
<1>. QED
  BY <1>2, <1>7, <1>8, <1>9, <1>10, <1>11, <1>12, <1>13 DEF LifecycleInv

-----------------------------------------------------------------------------
\* The router carries out what the reducer asked for.

RowsOf(rows, g) == {r \in rows : r.guid = g}

LEMMA RoutedRows ==
    ASSUME LifecycleInv, NEW t \in Threads, matchRows' = Saved(matchRows, effects[t].save),
           effects' = [effects EXCEPT ![t] = Nothing], UNCHANGED <<tally, finalized>>
    PROVE  SavesApart' /\ RowsFollow' /\ matchRows' \subseteq Snapshot
<1>. DEFINE snap == effects[t].save
            same == {r \in matchRows : snap.guid # NoGuid /\ r.guid = snap.guid}
            resolves == \E r \in same : r.provisional /\ ~snap.provisional
<1>1. /\ LifecycleTypeOK /\ SavesApart /\ RowsFollow
      /\ effects \in [Threads -> Effects] /\ tally \in [Sessions -> Seq(Entry)]
      /\ matchRows \subseteq Snapshot
  BY TypesNow DEF LifecycleInv, LifecycleTypeOK
<1>2. snap \in Snapshot \cup {None}
  BY <1>1, EffectsFields
<1>3. Emits(t, Nothing)
  BY <1>1, NothingFacts, EmitsFacts DEF Holds
<1>4. /\ effects'[t].save = None
      /\ \A u \in Threads : u # t => effects'[u] = effects[u]
  BY <1>3, NothingFacts DEF Emits, Holds
<1>5. matchRows' = IF snap = None \/ (same # {} /\ ~resolves) THEN matchRows
                   ELSE (matchRows \ same) \cup {snap}
  BY DEF Saved
<1>6. \A r \in matchRows' : r \in matchRows \/ (r = snap /\ snap # None)
  BY <1>5
<1>7. matchRows' \subseteq Snapshot
  BY <1>1, <1>2, <1>6
<1>8. ASSUME NEW u \in Threads, NEW g, Saves(u, g)'
      PROVE  u # t /\ Saves(u, g)
  BY <1>4, <1>8 DEF Saves
<1>9. SavesApart'
  <2>. SUFFICES ASSUME NEW g \in Guids
                PROVE  /\ \A r \in matchRows' : r.guid = g /\ ~r.provisional => g \in finalized
                       /\ \A u \in Threads : Saves(u, g)' =>
                              /\ g \in finalized
                              /\ \A r \in matchRows' : r.guid = g => r.provisional
                              /\ \A v \in Threads : Saves(v, g)' => v = u
    BY DEF SavesApart
  <2>1. \A r \in matchRows' : r.guid = g /\ ~r.provisional => r \in matchRows \/ Saves(t, g)
    BY <1>6 DEF Saves
  <2>2. \A r \in matchRows' : r.guid = g /\ ~r.provisional => g \in finalized
    BY <1>1, <2>1 DEF SavesApart
  <2>3. ASSUME NEW u \in Threads, Saves(u, g)'
        PROVE  /\ g \in finalized
               /\ \A r \in matchRows' : r.guid = g => r.provisional
               /\ \A v \in Threads : Saves(v, g)' => v = u
    <3>1. Saves(u, g) /\ u # t
      BY <1>8, <2>3
    <3>2. ~Saves(t, g)
      BY <1>1, <3>1 DEF SavesApart
    <3>3. \A v \in Threads : Saves(v, g)' => v = u
      BY <1>1, <1>8, <3>1 DEF SavesApart
    <3>4. ASSUME NEW r \in matchRows', r.guid = g
          PROVE  r.provisional
      BY <1>1, <2>1, <3>1, <3>2, <3>4 DEF SavesApart
    <3>. QED
      BY <1>1, <3>1, <3>3, <3>4 DEF SavesApart
  <2>. QED
    BY <2>2, <2>3
<1>10. RowsFollow'
  <2>. SUFFICES ASSUME NEW s \in Sessions, NEW i \in DOMAIN tally[s], tally[s][i].guid # NoGuid
                PROVE  \/ RowsOf(matchRows', tally[s][i].guid) = {RowFor(tally[s][i])}
                       \/ \E u \in Threads : effects'[u].save = RowFor(tally[s][i])
    BY DEF RowsFollow, RowsOf, RowFor
  <2>. DEFINE e == tally[s][i]
              g == e.guid
  <2>1. /\ e \in Entry /\ RowFor(e) # None /\ RowFor(e).guid = g /\ ~RowFor(e).provisional
        /\ g \in Guids
    BY <1>1, EntriesAre, RowForFacts DEF Entry, AnyGuid
  <2>2. \/ RowsOf(matchRows, g) = {RowFor(e)}
        \/ \E u \in Threads : effects[u].save = RowFor(e)
    BY <1>1 DEF RowsFollow, RowsOf
  <2>. HIDE DEF e
  <2>3. ASSUME NEW u \in Threads, effects[u].save = RowFor(e), u # t
        PROVE  effects'[u].save = RowFor(e)
    BY <1>4, <2>3
  <2>4. CASE snap = RowFor(e)
    <3>1. Saves(t, g)
      BY <2>1, <2>4 DEF Saves
    <3>2. \A r \in matchRows : r.guid = g => r.provisional
      BY <1>1, <2>1, <3>1 DEF SavesApart
    <3>3. snap.guid = g /\ g # NoGuid /\ ~snap.provisional /\ snap # None
      BY <2>1, <2>4, LifecycleAssumption
    <3>4. same = RowsOf(matchRows, g)
      BY <3>3 DEF RowsOf
    <3>5. matchRows' = (matchRows \ same) \cup {snap}
      BY <1>5, <3>2, <3>3, <3>4 DEF RowsOf
    <3>6. RowsOf(matchRows', g) = {snap}
      BY <3>3, <3>4, <3>5 DEF RowsOf
    <3>. QED
      BY <2>4, <3>6 DEF e
  <2>5. CASE RowsOf(matchRows, g) = {RowFor(e)} /\ snap # RowFor(e)
    <3>1. RowFor(e) \in matchRows
      BY <2>5 DEF RowsOf
    <3>2. snap # None /\ snap.guid = g => snap.provisional
      BY <1>1, <2>1, <3>1 DEF Saves, SavesApart
    <3>3. RowsOf(matchRows', g) = RowsOf(matchRows, g)
      <4>1. CASE snap # None /\ snap.guid = g
        <5>1. RowFor(e) \in same
          BY <2>1, <3>1, <4>1, LifecycleAssumption
        <5>2. matchRows' = matchRows
          BY <1>5, <3>2, <4>1, <5>1
        <5>. QED
          BY <5>2
      <4>2. CASE snap = None
        BY <1>5, <4>2
      <4>3. CASE snap # None /\ snap.guid # g
        BY <1>5, <4>3 DEF RowsOf
      <4>. QED
        BY <4>1, <4>2, <4>3
    <3>. QED
      BY <2>5, <3>3 DEF e
  <2>. QED
    BY <2>2, <2>3, <2>4, <2>5 DEF e
<1>. QED
  BY <1>7, <1>9, <1>10

\* What SaveSession and UpdateSession do to the saved sessions.
LEMMA SaveSessionFacts ==
    ASSUME sessionRows \in Seq(SessionRow), rowOf \in [Sessions -> 0..Len(sessionRows)],
           NEW recap \in Recap, SaveSession(recap)
    PROVE  /\ sessionRows' \in Seq(SessionRow) /\ rowOf' \in [Sessions -> 0..Len(sessionRows')]
           /\ Len(sessionRows') = Len(sessionRows) + 1 /\ Len(sessionRows) \in Nat
           /\ sessionRows'[Len(sessionRows) + 1] = recap
           /\ \A k \in 1..Len(sessionRows) : sessionRows'[k] = sessionRows[k]
           /\ recap.of \in Sessions => rowOf'[recap.of] = Len(sessionRows) + 1
           /\ \A s \in Sessions : s # recap.of => rowOf'[s] = rowOf[s]
<1>. DEFINE R == SessionRow
<1>1. /\ sessionRows \in Seq(R) /\ recap \in R
      /\ sessionRows' = Append(sessionRows, recap)
      /\ rowOf' = [rowOf EXCEPT ![recap.of] = Len(sessionRows) + 1]
  BY DEF SaveSession, Recap, SessionRow, Sessions
<1>. HIDE DEF R
<1>2. /\ sessionRows' \in Seq(R) /\ Len(sessionRows') = Len(sessionRows) + 1
      /\ Len(sessionRows) \in Nat /\ sessionRows'[Len(sessionRows) + 1] = recap
      /\ \A k \in 1..Len(sessionRows) : sessionRows'[k] = sessionRows[k]
  BY <1>1
<1>3. /\ rowOf' \in [Sessions -> 0..(Len(sessionRows) + 1)]
      /\ recap.of \in Sessions => rowOf'[recap.of] = Len(sessionRows) + 1
      /\ \A s \in Sessions : s # recap.of => rowOf'[s] = rowOf[s]
  <2>. DEFINE n == Len(sessionRows)
  <2>1. n \in Nat /\ rowOf \in [Sessions -> 0..n] /\ rowOf' = [rowOf EXCEPT ![recap.of] = n + 1]
    BY <1>1, <1>2
  <2>. HIDE DEF n
  <2>2. rowOf \in [Sessions -> 0..(n + 1)] /\ n + 1 \in 0..(n + 1)
    BY <2>1
  <2>3. rowOf' \in [Sessions -> 0..(n + 1)]
    BY <2>1, <2>2
  <2>4. /\ recap.of \in Sessions => rowOf'[recap.of] = n + 1
        /\ \A s \in Sessions : s # recap.of => rowOf'[s] = rowOf[s]
    BY <2>1
  <2>. QED
    BY <2>3, <2>4 DEF n
<1>. QED
  BY <1>2, <1>3 DEF R

LEMMA UpdateSessionFacts ==
    ASSUME sessionRows \in Seq(SessionRow), NEW row \in 1..Len(sessionRows), NEW recap \in Recap,
           sessionRows' = [sessionRows EXCEPT ![row].tally = recap.tally]
    PROVE  /\ sessionRows' \in Seq(SessionRow) /\ Len(sessionRows') = Len(sessionRows)
           /\ sessionRows'[row].of = sessionRows[row].of
           /\ sessionRows'[row].tally = recap.tally
           /\ \A k \in 1..Len(sessionRows) : k # row => sessionRows'[k] = sessionRows[k]
<1>. DEFINE S == Seq(Entry)
            N == 0..MaxSession
            R == [of : N, tally : S]
<1>1. SessionRow = R /\ recap.tally \in S
  BY DEF SessionRow, Recap
<1>2. sessionRows \in Seq(R) /\ sessionRows[row] \in R
  <2>1. sessionRows \in Seq(R)
    BY <1>1
  <2>. HIDE DEF R
  <2>. QED
    BY <2>1
<1>. HIDE DEF S, N
<1>3. [sessionRows[row] EXCEPT !.tally = recap.tally] \in R
  BY <1>1, <1>2
<1>4. /\ [sessionRows[row] EXCEPT !.tally = recap.tally].of = sessionRows[row].of
      /\ [sessionRows[row] EXCEPT !.tally = recap.tally].tally = recap.tally
  BY <1>2
<1>. DEFINE new == [sessionRows[row] EXCEPT !.tally = recap.tally]
<1>5. sessionRows' = [sessionRows EXCEPT ![row] = new]
  OBVIOUS
<1>. HIDE DEF R, new
<1>6. /\ sessionRows' \in Seq(R) /\ Len(sessionRows') = Len(sessionRows)
      /\ sessionRows'[row] = new
      /\ \A k \in 1..Len(sessionRows) : k # row => sessionRows'[k] = sessionRows[k]
  BY <1>2, <1>3, <1>5 DEF new
<1>. QED
  BY <1>1, <1>4, <1>6 DEF new

\* The jobs for the saved sessions.
SessionJobs(fx) ==
    IF fx.persist # None THEN SaveSession(fx.persist)
    ELSE IF fx.update # None THEN UpdateSession(fx.update)
    ELSE UNCHANGED <<sessionRows, rowOf>>

LEMMA RoutedSessionTypes ==
    ASSUME LifecycleTypeOK, NEW fx \in Effects, SessionJobs(fx)
    PROVE  sessionRows' \in Seq(SessionRow) /\ rowOf' \in [Sessions -> 0..Len(sessionRows')]
<1>1. /\ sessionRows \in Seq(SessionRow) /\ rowOf \in [Sessions -> 0..Len(sessionRows)]
      /\ fx.persist \in Recap \cup {None} /\ fx.update \in Recap \cup {None}
  BY EffectsFields DEF LifecycleTypeOK
<1>2. Len(sessionRows) \in Nat
  BY <1>1
<1>3. CASE fx.persist # None
  BY <1>1, <1>3, SaveSessionFacts DEF SessionJobs
<1>4. CASE fx.persist = None /\ fx.update # None
  <2>. DEFINE row == IF rowOf[fx.update.of] # 0 THEN rowOf[fx.update.of] ELSE Len(sessionRows)
  <2>1. fx.update \in Recap /\ UpdateSession(fx.update)
    BY <1>1, <1>4 DEF SessionJobs
  <2>2. CASE row = 0
    BY <1>1, <2>1, <2>2, SaveSessionFacts DEF UpdateSession
  <2>3. CASE row # 0
    <3>1. /\ sessionRows' = [sessionRows EXCEPT ![row].tally = fx.update.tally]
          /\ UNCHANGED rowOf
      BY <2>1, <2>3 DEF UpdateSession
    <3>2. row \in 1..Len(sessionRows)
      BY <1>1, <1>2, <2>1, <2>3 DEF Recap
    <3>. HIDE DEF row
    <3>. QED
      BY <1>1, <2>1, <3>1, <3>2, UpdateSessionFacts
  <2>. QED
    BY <2>2, <2>3
<1>5. CASE fx.persist = None /\ fx.update = None
  BY <1>1, <1>5 DEF SessionJobs
<1>. QED
  BY <1>3, <1>4, <1>5

LEMMA RoutedRecaps ==
    ASSUME LifecycleInv, RecapsFollow, SessionJobs(effects["telemetry"]),
           effects' = [effects EXCEPT !["telemetry"] = Nothing], awaiting' = {},
           UNCHANGED <<tally, session, recapOf>>
    PROVE  RecapsFollow'
<1>. DEFINE fx == effects["telemetry"]
<1>1. /\ sessionRows \in Seq(SessionRow) /\ rowOf \in [Sessions -> 0..Len(sessionRows)]
      /\ recapOf \in 0..MaxSession /\ session \in Sessions /\ recapOf < session
      /\ effects \in [Threads -> Effects] /\ EffectsSound
  BY TypesNow DEF LifecycleInv, LifecycleTypeOK
<1>2. /\ recapOf # 0 => recapOf \in Sessions
      /\ Len(sessionRows) \in Nat /\ \A s \in Sessions : s \in Int
  BY <1>1, LifecycleAssumption DEF Sessions
<1>3. /\ effects'["rank"] = Nothing /\ effects'["telemetry"].persist = None
      /\ effects'["telemetry"].update = None
  <2>1. Emits("telemetry", Nothing)
    BY <1>1, NothingFacts, EmitsFacts, ThreadsAre DEF Holds
  <2>. QED
    BY <2>1, NothingFacts, ThreadsAre DEF Emits, Holds, RecapsFollow
<1>4. fx \in Effects /\ fx.persist \in Recap \cup {None} /\ fx.update \in Recap \cup {None}
  BY <1>1, EffectsFields, ThreadsAre
<1>5. /\ \A s \in Sessions : rowOf[s] # 0 => s < session /\ sessionRows[rowOf[s]].of = s
      /\ \A k \in 1..Len(sessionRows) :
             IF sessionRows[k].of = 0 THEN sessionRows[k].tally = <<>>
             ELSE /\ rowOf[sessionRows[k].of] = k
                  /\ \/ sessionRows[k].tally = tally[sessionRows[k].of]
                     \/ fx.update # None /\ fx.update.of = sessionRows[k].of
      /\ fx.persist # None =>
             /\ fx.persist.of = recapOf /\ recapOf # 0 /\ rowOf[recapOf] = 0
             /\ fx.persist.tally = tally[recapOf]
      /\ fx.update # None =>
             /\ fx.update.of = recapOf /\ recapOf # 0
             /\ fx.update.tally = tally[recapOf]
      /\ recapOf # 0 => rowOf[recapOf] # 0 \/ fx.persist # None
  BY DEF RecapsFollow
<1>6. fx.persist # None => fx.update = None
  BY <1>1, ThreadsAre DEF EffectsSound
<1>7. \A k \in 1..Len(sessionRows) : sessionRows[k].of # 0 => sessionRows[k].of \in Sessions
  <2>. DEFINE R == SessionRow
  <2>1. sessionRows \in Seq(R)
    BY <1>1
  <2>. HIDE DEF R
  <2>2. \A k \in 1..Len(sessionRows) : sessionRows[k] \in R
    BY <2>1
  <2>3. \A r \in R : r.of \in 0..MaxSession
    BY DEF R, SessionRow
  <2>. QED
    BY <2>2, <2>3 DEF Sessions
<1>. HIDE DEF fx
<1>. SUFFICES /\ \A s \in Sessions : rowOf'[s] # 0 =>
                     s < session /\ sessionRows'[rowOf'[s]].of = s
              /\ \A k \in 1..Len(sessionRows') :
                     IF sessionRows'[k].of = 0 THEN sessionRows'[k].tally = <<>>
                     ELSE /\ rowOf'[sessionRows'[k].of] = k
                          /\ sessionRows'[k].tally = tally[sessionRows'[k].of]
              /\ recapOf # 0 => rowOf'[recapOf] # 0
  BY <1>3 DEF RecapsFollow
<1>8. CASE fx.persist # None
  <2>. DEFINE n == Len(sessionRows) + 1
              r == fx.persist
  <2>1. r \in Recap /\ SaveSession(r)
    BY <1>4, <1>8 DEF SessionJobs, fx
  <2>2. /\ r.of = recapOf /\ recapOf # 0 /\ rowOf[recapOf] = 0 /\ r.tally = tally[recapOf]
        /\ recapOf \in Sessions /\ fx.update = None
    BY <1>2, <1>5, <1>6, <1>8
  <2>. HIDE DEF r
  <2>3. /\ Len(sessionRows') = n /\ sessionRows'[n] = r
        /\ \A k \in 1..Len(sessionRows) : sessionRows'[k] = sessionRows[k]
        /\ rowOf'[recapOf] = n
        /\ \A s \in Sessions : s # recapOf => rowOf'[s] = rowOf[s]
    BY <1>1, <2>1, <2>2, SaveSessionFacts
  <2>4. \A s \in Sessions : rowOf[s] # 0 => rowOf[s] \in 1..Len(sessionRows)
    BY <1>1, <1>2
  <2>5. ASSUME NEW k \in 1..n
        PROVE  IF sessionRows'[k].of = 0 THEN sessionRows'[k].tally = <<>>
               ELSE /\ rowOf'[sessionRows'[k].of] = k
                    /\ sessionRows'[k].tally = tally[sessionRows'[k].of]
    <3>1. CASE k = n
      BY <2>2, <2>3, <3>1
    <3>2. CASE k # n
      <4>1. k \in 1..Len(sessionRows)
        BY <1>2, <3>2
      <4>2. sessionRows[k].of # 0 => sessionRows[k].of # recapOf /\ sessionRows[k].of \in Sessions
        BY <1>5, <1>7, <2>2, <4>1
      <4>. QED
        BY <1>5, <2>2, <2>3, <4>1, <4>2
    <3>. QED
      BY <3>1, <3>2
  <2>6. ASSUME NEW s \in Sessions, rowOf'[s] # 0
        PROVE  s < session /\ sessionRows'[rowOf'[s]].of = s
    <3>1. CASE s = recapOf
      BY <1>1, <2>2, <2>3, <3>1
    <3>2. CASE s # recapOf
      BY <1>5, <2>3, <2>4, <2>6, <3>2
    <3>. QED
      BY <3>1, <3>2
  <2>. QED
    BY <1>2, <2>3, <2>5, <2>6
<1>9. CASE fx.persist = None /\ fx.update # None
  <2>. DEFINE r == fx.update
              row == rowOf[recapOf]
  <2>1. /\ r \in Recap /\ UpdateSession(r) /\ r.of = recapOf /\ recapOf \in Sessions
        /\ row # 0 /\ r.tally = tally[recapOf] /\ recapOf # 0
    BY <1>2, <1>4, <1>5, <1>9 DEF SessionJobs, fx
  <2>. HIDE DEF r
  <2>2. row \in 1..Len(sessionRows) /\ sessionRows[row].of = recapOf
    BY <1>1, <1>2, <1>5, <2>1
  <2>3. sessionRows' = [sessionRows EXCEPT ![row].tally = r.tally] /\ rowOf' = rowOf
    BY <2>1 DEF UpdateSession
  <2>. HIDE DEF row
  <2>4. /\ Len(sessionRows') = Len(sessionRows) /\ sessionRows'[row].of = recapOf
        /\ sessionRows'[row].tally = tally[recapOf]
        /\ \A k \in 1..Len(sessionRows) : k # row => sessionRows'[k] = sessionRows[k]
    BY <1>1, <2>1, <2>2, <2>3, UpdateSessionFacts
  <2>5. ASSUME NEW k \in 1..Len(sessionRows)
        PROVE  IF sessionRows'[k].of = 0 THEN sessionRows'[k].tally = <<>>
               ELSE /\ rowOf'[sessionRows'[k].of] = k
                    /\ sessionRows'[k].tally = tally[sessionRows'[k].of]
    <3>1. CASE k = row
      BY <2>1, <2>3, <2>4, <3>1, <1>2, <2>2, <1>5 DEF row
    <3>2. CASE k # row
      <4>1. sessionRows[k].of # 0 => sessionRows[k].of # recapOf
        BY <1>5, <3>2 DEF row
      <4>. QED
        BY <1>5, <2>1, <2>3, <2>4, <3>2, <4>1 DEF r
    <3>. QED
      BY <3>1, <3>2
  <2>6. ASSUME NEW s \in Sessions, rowOf[s] # 0
        PROVE  s < session /\ sessionRows'[rowOf[s]].of = s
    <3>1. rowOf[s] \in 1..Len(sessionRows)
      BY <1>1, <1>2, <2>6
    <3>. QED
      BY <1>5, <2>2, <2>4, <2>6, <3>1
  <2>. QED
    BY <2>1, <2>3, <2>4, <2>5, <2>6 DEF row
<1>10. CASE fx.persist = None /\ fx.update = None
  BY <1>5, <1>10 DEF SessionJobs, fx
<1>. QED
  BY <1>8, <1>9, <1>10

LEMMA RouteJobsStep ==
    ASSUME LifecycleInv, NEW t \in Threads, RouteJobs(t)
    PROVE  LifecycleInv'
<1>. DEFINE fx == effects[t]
<1>1. /\ LifecycleTypeOK /\ recapOf < session /\ PendingSound /\ EntriesSound /\ Generations
      /\ EffectsSound /\ SavesApart /\ RowsFollow
      /\ (~settings.tracker => RecapsFollow) /\ (~settings.reset => SplitsFollow)
  BY DEF LifecycleInv
<1>2. /\ fx.busy /\ matchRows' = Saved(matchRows, fx.save) /\ SessionJobs(fx)
      /\ awaiting' = IF fx.ask # None /\ settings.tracker THEN awaiting \cup {fx.ask}
                     ELSE awaiting
      /\ effects' = [effects EXCEPT ![t] = Nothing]
      /\ UNCHANGED <<settings, match, blocked, replay, pending, finalized, session, recapOf,
                     resetDone, tally, era>>
  BY DEF RouteJobs, SessionJobs, memory
<1>3. fx \in Effects /\ fx.ask \in Guids \cup {None}
  BY <1>1, TypesNow, EffectsFields
<1>4. SavesApart' /\ RowsFollow' /\ matchRows' \subseteq Snapshot
  BY <1>2, RoutedRows
<1>5. sessionRows' \in Seq(SessionRow) /\ rowOf' \in [Sessions -> 0..Len(sessionRows')]
  BY <1>1, <1>2, <1>3, RoutedSessionTypes
<1>6. Emits(t, Nothing)
  BY <1>1, <1>2, TypesNow, NothingFacts, EmitsFacts DEF Holds
<1>7. EffectsSound'
  <2>1. Holds(Nothing, FALSE, None, None, None, None) /\ effects'[t] = Nothing
    BY <1>6, NothingFacts DEF Emits
  <2>2. ASSUME NEW u \in Threads
        PROVE  /\ ~effects'[u].busy => effects'[u] = Nothing
               /\ effects'[u].close => effects'[u].persist = None
               /\ effects'[u].close \/ effects'[u].persist # None =>
                      effects'[u].save = None /\ effects'[u].update = None
    <3>1. CASE u = t
      BY <2>1, <3>1 DEF Holds
    <3>2. CASE u # t
      BY <1>1, <1>6, <3>2 DEF Emits, EffectsSound
    <3>. QED
      BY <3>1, <3>2
  <2>3. ~effects'["rank"].close /\ effects'["rank"].persist = None /\ effects'["rank"].ask = None
    BY <1>1, <1>6, <2>1, ThreadsAre DEF Emits, EffectsSound, Holds
  <2>. QED
    BY <2>2, <2>3 DEF EffectsSound, Nothing
<1>8. ASSUME ~settings.tracker
      PROVE  RecapsFollow'
  <2>1. t = "telemetry"
    BY <1>1, <1>2, <1>8, NothingFacts, ThreadsAre DEF RecapsFollow, Holds
  <2>2. awaiting' = {}
    BY <1>1, <1>2, <1>8 DEF RecapsFollow
  <2>. QED
    BY <1>1, <1>2, <1>8, <2>1, <2>2, RoutedRecaps
<1>9. LifecycleTypeOK'
  <2>1. awaiting' \subseteq Guids
    BY <1>1, <1>2, <1>3 DEF LifecycleTypeOK
  <2>. QED
    BY <1>1, <1>2, <1>4, <1>5, <1>6, <2>1 DEF LifecycleTypeOK, Emits
<1>10. PendingSound' /\ EntriesSound' /\ Generations' /\ (~settings.reset => SplitsFollow')
  BY <1>1, <1>2 DEF PendingSound, EntriesSound, Generations, Counts, SplitsFollow
<1>. QED
  BY <1>1, <1>2, <1>4, <1>7, <1>8, <1>9, <1>10 DEF LifecycleInv

-----------------------------------------------------------------------------
\* The invariant is one, and what it gives.

LEMMA LifecycleInit ==
    ASSUME Init
    PROVE  LifecycleInv
<1>1. /\ settings \in Settings /\ blocked = FALSE /\ replay = FALSE /\ resetDone = FALSE
      /\ match = [inMatch |-> FALSE, guid |-> NoGuid, gen |-> 0, over |-> FALSE,
                  round |-> FALSE, fit |-> FALSE, kind |-> "unset"]
      /\ pending = [g \in Guids |-> None] /\ finalized = {} /\ session = 1 /\ recapOf = 0
      /\ tally = [s \in Sessions |-> <<>>] /\ era = 0
      /\ effects = [t \in Threads |-> Nothing] /\ awaiting = {} /\ matchRows = {}
      /\ sessionRows = <<[of |-> 0, tally |-> <<>>]>> /\ rowOf = [s \in Sessions |-> 0]
  BY DEF Init
<1>2. 1 \in Sessions /\ 0 \in 0..MaxSession /\ 0 \in Generation /\ 0 \notin Sessions
  BY LifecycleAssumption DEF Sessions, Generation
<1>3. match \in MatchRecords
  BY <1>1, <1>2 DEF MatchRecords, AnyGuid, Kinds
<1>4. 0 \in Gaps
  <2>1. settings.gaps \in Nat
    BY <1>1, LifecycleAssumption
  <2>. QED
    BY <1>1, <2>1 DEF Gaps
<1>5. tally \in [Sessions -> Seq(Entry)] /\ \A s \in Sessions : DOMAIN tally[s] = {}
  <2>. DEFINE E == Entry
  <2>1. <<>> \in Seq(E) /\ DOMAIN <<>> = {}
    OBVIOUS
  <2>. HIDE DEF E
  <2>2. tally \in [Sessions -> Seq(E)]
    BY <1>1, <2>1
  <2>3. \A s \in Sessions : DOMAIN tally[s] = {}
    BY <1>1
  <2>. QED
    BY <2>2, <2>3 DEF E
<1>6. effects \in [Threads -> Effects] /\ \A t \in Threads : effects[t] = Nothing
  BY <1>1, NothingFacts DEF Holds
<1>7. /\ sessionRows \in Seq(SessionRow) /\ Len(sessionRows) = 1
      /\ sessionRows[1].of = 0 /\ sessionRows[1].tally = <<>>
  <2>. DEFINE r == [of |-> 0, tally |-> <<>>]
              E == Entry
  <2>1. <<>> \in Seq(E)
    OBVIOUS
  <2>2. r \in SessionRow
    BY <1>2, <2>1 DEF SessionRow
  <2>3. r.of = 0 /\ r.tally = <<>>
    OBVIOUS
  <2>4. sessionRows = <<r>>
    BY <1>1
  <2>. HIDE DEF r
  <2>. QED
    BY <2>2, <2>3, <2>4
<1>8. LifecycleTypeOK
  <2>1. pending \in [Guids -> Capture \cup {None}]
    BY <1>1
  <2>2. rowOf \in [Sessions -> 0..Len(sessionRows)]
    BY <1>1, <1>7
  <2>. QED
    BY <1>1, <1>2, <1>3, <1>4, <1>5, <1>6, <1>7, <2>1, <2>2 DEF LifecycleTypeOK, MatchRecords
<1>9. PendingSound /\ EntriesSound /\ Generations
  BY <1>1, <1>5 DEF PendingSound, EntriesSound, Generations
<1>10. EffectsSound /\ SavesApart /\ RowsFollow
  BY <1>1, <1>5, <1>6, NothingFacts, ThreadsAre
     DEF EffectsSound, SavesApart, Saves, RowsFollow, Holds
<1>11. RecapsFollow
  BY <1>1, <1>2, <1>6, <1>7, NothingFacts, ThreadsAre DEF RecapsFollow, Holds
<1>12. SplitsFollow
  BY <1>1, LifecycleAssumption DEF SplitsFollow, Sessions
<1>13. recapOf < session
  BY <1>1
<1>. QED
  BY <1>8, <1>9, <1>10, <1>11, <1>12, <1>13 DEF LifecycleInv

LEMMA LifecycleStep ==
    ASSUME LifecycleInv, [Next]_vars
    PROVE  LifecycleInv'
<1>1. ASSUME TelemetryEvent
      PROVE  LifecycleInv'
  BY <1>1, ReplayCreatedStep, RoundStartedStep, IdentityLostStep, MatchCreatedStep,
     UpdateStateStep, MatchEndedStep, MatchDestroyedStep DEF TelemetryEvent
<1>2. ASSUME UNCHANGED vars
      PROVE  LifecycleInv'
  <2>1. UNCHANGED <<settings, match, blocked, replay, pending, finalized, session, recapOf,
                    resetDone, tally, era, effects, awaiting, matchRows, sessionRows, rowOf>>
    BY <1>2 DEF vars, memory, tables
  <2>2. \A t, u : Saves(t, u)' = Saves(t, u)
    BY <2>1 DEF Saves
  <2>3. LifecycleTypeOK' /\ PendingSound' /\ EntriesSound' /\ Generations'
    BY <2>1 DEF LifecycleInv, LifecycleTypeOK, PendingSound, EntriesSound, Generations, Counts
  <2>4. SavesApart' /\ EffectsSound'
    BY <2>1, <2>2 DEF LifecycleInv, SavesApart, EffectsSound, Nothing
  <2>5. RowsFollow' /\ (~settings.tracker => RecapsFollow')
    BY <2>1, RecapsStep DEF LifecycleInv, RowsFollow, RowFor
  <2>6. ~settings.reset => SplitsFollow'
    BY <2>1 DEF LifecycleInv, SplitsFollow
  <2>. QED
    BY <2>1, <2>3, <2>4, <2>5, <2>6 DEF LifecycleInv
<1>. QED
  BY <1>1, <1>2, DisconnectStep, TwoHoursPassStep, ConfirmStep, RouteCloseStep, RouteJobsStep
     DEF Next

THEOREM LifecycleIsSound == Spec => []LifecycleInv
<1>1. Init => LifecycleInv
  BY LifecycleInit
<1>2. LifecycleInv /\ [Next]_vars => LifecycleInv'
  BY LifecycleStep
<1>. QED
  BY <1>1, <1>2, PTL DEF Spec

LEMMA CountedAre ==
    ASSUME NEW p \in Counted
    PROVE  p[1] \in Sessions /\ p[2] \in DOMAIN tally[p[1]] /\ p = <<p[1], p[2]>>
BY DEF Counted

LEMMA CountedHas ==
    ASSUME NEW s \in Sessions, NEW i \in DOMAIN tally[s]
    PROVE  /\ <<s, i>> \in Counted /\ <<s, i>>[1] = s
           /\ EntryAt(<<s, i>>) = tally[s][i]
BY DEF Counted, EntryAt

LEMMA OnceAndSaved ==
    ASSUME LifecycleInv
    PROVE  GamesCountedAndSaved
<1>1. CountedOnce
  <2>. SUFFICES ASSUME NEW p \in Counted, NEW q \in Counted, p # q
                PROVE  IF EntryAt(p).guid # NoGuid THEN EntryAt(p).guid # EntryAt(q).guid
                       ELSE EntryAt(p).gen # EntryAt(q).gen
    BY DEF CountedOnce
  <2>1. /\ p[1] \in Sessions /\ p[2] \in DOMAIN tally[p[1]] /\ p = <<p[1], p[2]>>
        /\ q[1] \in Sessions /\ q[2] \in DOMAIN tally[q[1]] /\ q = <<q[1], q[2]>>
    BY CountedAre
  <2>2. p[1] # q[1] \/ p[2] # q[2]
    BY <2>1
  <2>. QED
    BY <2>1, <2>2 DEF LifecycleInv, Generations, EntryAt
<1>2. CountedIsSaved
  <2>. SUFFICES ASSUME Quiet, NEW p \in Counted, EntryAt(p).guid # NoGuid
                PROVE  {r \in matchRows : r.guid = EntryAt(p).guid} = {RowFor(EntryAt(p))}
    BY DEF CountedIsSaved, RowFor
  <2>1. p[1] \in Sessions /\ p[2] \in DOMAIN tally[p[1]] /\ EntryAt(p) = tally[p[1]][p[2]]
    BY CountedAre DEF EntryAt
  <2>2. \A t \in Threads : effects[t].save = None
    BY NothingFacts DEF Quiet, LifecycleInv, EffectsSound, Holds
  <2>3. RowFor(EntryAt(p)) # None
    BY <2>1, EntriesAre, RowForFacts, TypesNow DEF LifecycleInv
  <2>. QED
    BY <2>1, <2>2, <2>3 DEF LifecycleInv, RowsFollow
<1>. QED
  BY <1>1, <1>2 DEF GamesCountedAndSaved, LifecycleInv

LEMMA SavedAsCounted ==
    ASSUME LifecycleInv
    PROVE  SessionsAreSound
<1>1. SessionsSavedAsCounted
  <2>. SUFFICES ASSUME Quiet, ~settings.tracker
                PROVE  /\ \A i \in 1..Len(sessionRows) :
                              sessionRows[i].tally = IF sessionRows[i].of = 0 THEN <<>>
                                                     ELSE tally[sessionRows[i].of]
                       /\ recapOf # 0 => rowOf[recapOf] # 0
    BY DEF SessionsSavedAsCounted
  <2>1. effects["telemetry"].update = None /\ effects["telemetry"].persist = None
    BY NothingFacts, ThreadsAre DEF Quiet, LifecycleInv, EffectsSound, Holds
  <2>. QED
    BY <2>1 DEF LifecycleInv, RecapsFollow
<1>2. SessionsSplitByGap
  <2>. SUFFICES ASSUME ~settings.reset, NEW p \in Counted, NEW q \in Counted, p[1] < q[1]
                PROVE  \E r \in Counted : r[1] = p[1] /\ EntryAt(r).era < EntryAt(q).era
    BY DEF SessionsSplitByGap
  <2>1. /\ p[1] \in Sessions /\ q[1] \in Sessions /\ q[2] \in DOMAIN tally[q[1]]
        /\ EntryAt(q) = tally[q[1]][q[2]]
    BY CountedAre DEF EntryAt
  <2>2. p[1] < session
    <3>1. q[1] <= session /\ session \in Sessions
      BY <2>1, TypesNow DEF LifecycleInv, EntriesSound
    <3>. QED
      BY <2>1, <3>1, LifecycleAssumption DEF Sessions
  <2>3. PICK i \in DOMAIN tally[p[1]] :
            \A t \in Sessions : \A j \in DOMAIN tally[t] :
                p[1] < t => tally[p[1]][i].era < tally[t][j].era
    BY <2>1, <2>2 DEF LifecycleInv, SplitsFollow
  <2>4. tally[p[1]][i].era < EntryAt(q).era
    BY <2>1, <2>3
  <2>5. /\ <<p[1], i>> \in Counted /\ <<p[1], i>>[1] = p[1]
        /\ EntryAt(<<p[1], i>>) = tally[p[1]][i]
    BY <2>1, CountedHas
  <2>. QED
    BY <2>4, <2>5
<1>. QED
  BY <1>1, <1>2 DEF SessionsAreSound

-----------------------------------------------------------------------------
\* What the runs check, for every instance.

\* However many matches and sessions there are, and however events, confirmations, disconnects
\* and the router interleave, a match is counted at most once, and once the effects are routed
\* a counted match has one row, with the counted result (FinalizeCapturedMatch,
\* ConfirmPendingDestroyedMatch, EffectRouter::Route, SaveMatch).
THEOREM GamesAreCountedAndSaved == Spec => []GamesCountedAndSaved
<1>1. LifecycleInv => GamesCountedAndSaved
  BY OnceAndSaved
<1>. QED
  BY <1>1, LifecycleIsSound, PTL

\* A match that was left early and waits for its result always counts when the result comes:
\* nothing it was captured with changes while it waits (IsValidEarlyCompetitiveExit,
\* ClassifyMatchEnd).
THEOREM PendingAlwaysCounts == Spec => []PendingWillCount
<1>1. LifecycleInv => PendingWillCount
  BY DEF LifecycleInv, PendingSound, PendingWillCount
<1>. QED
  BY <1>1, LifecycleIsSound, PTL

\* Saved sessions say what was counted in them when no confirmation comes late, and where
\* sessions do not end with the game they are split by a pause of two hours only
\* (MatchState::StartNewSession, CloseSessionIfInactive, AsyncSaveSession, AsyncUpdateSession).
THEOREM SessionsStaySound == Spec => []SessionsAreSound
<1>1. LifecycleInv => SessionsAreSound
  BY SavedAsCounted
<1>. QED
  BY <1>1, LifecycleIsSound, PTL

\* The result of a match left early, whenever it comes and from whichever thread, does not
\* touch the match that is on by then (isCurrentMatch in FinalizeCapturedMatch).
THEOREM LateResultsSpareMatch == Spec => LateResultSparesMatch
<1>. DEFINE Spares == \A g \in Guids :
                (pending[g] # None /\ pending'[g] = None /\ match.inMatch) => match' = match
<1>1. ASSUME LifecycleInv, [Next]_vars
      PROVE  Spares
  <2>. SUFFICES ASSUME NEW g \in Guids, pending[g] # None, pending'[g] = None, match.inMatch
                PROVE  match' = match
    OBVIOUS
  <2>1. /\ LifecycleTypeOK /\ match \in MatchRecords
        /\ pending \in [Guids -> Capture \cup {None}] /\ NoGuid \notin Guids
    BY <1>1, TypesNow, LifecycleAssumption DEF LifecycleInv
  <2>2. ASSUME NEW t \in Threads, NEW h \in Guids, NEW result, pending[h] # None,
               Finalize(t, match, pending[h], result, [pending EXCEPT ![h] = None], Busy)
        PROVE  match' = match
    <3>1. pending[h].gen # match.gen
      BY <1>1, <2>2 DEF LifecycleInv, PendingSound
    <3>2. ~IsCurrent(pending[h], match)
      BY <3>1 DEF IsCurrent
    <3>. QED
      BY <2>2, <3>2 DEF Finalize
  <2>3. pending' # pending
    OBVIOUS
  <2>4. CASE \E h \in AnyGuid, result \in Results : MatchEnded(h, result)
    <3>1. PICK h \in AnyGuid, result \in Results : MatchEnded(h, result)
      BY <2>4
    <3>2. CASE h # NoGuid /\ pending[h] # None
      <4>1. h \in Guids /\ "telemetry" \in Threads
        BY <3>2, ThreadsAre DEF AnyGuid
      <4>. QED
        BY <2>2, <3>1, <3>2, <4>1 DEF MatchEnded
    <3>3. CASE ~(h # NoGuid /\ pending[h] # None)
      BY <2>3, <3>1, <3>3 DEF MatchEnded, Finalize
    <3>. QED
      BY <3>2, <3>3
  <2>5. CASE \E h \in AnyGuid, result, likely \in Results, forfeit \in BOOLEAN :
                 MatchDestroyed(h, result, forfeit, likely)
    <3>1. PICK h \in AnyGuid, result \in Results, likely \in Results, forfeit \in BOOLEAN :
              MatchDestroyed(h, result, forfeit, likely)
      BY <2>5
    <3>. DEFINE m == Attached(h)
    <3>2. DestroyedPending(m, likely)
      BY <2>3, <3>1 DEF MatchDestroyed, Finalize, DestroyedVoid
    <3>3. m \in MatchRecords /\ CaptureOf(m) \in Capture
      BY <2>1, <3>1, AttachedFacts, CaptureFacts
    <3>. HIDE DEF m
    <3>4. pending' = [pending EXCEPT ![m.guid] = IF @ = None THEN CaptureOf(m) ELSE @]
      BY <3>2 DEF DestroyedPending
    <3>5. CaptureOf(m) # None
      BY <3>3, NoneAssumption
    <3>6. pending'[g] # None
      BY <2>1, <3>4, <3>5
    <3>. QED
      BY <3>6
  <2>6. CASE \E h \in Guids, won \in BOOLEAN : Confirm(h, won)
    <3>1. PICK h \in Guids, won \in BOOLEAN : Confirm(h, won)
      BY <2>6
    <3>2. CASE pending[h] = None \/ h \in finalized
      BY <2>3, <3>1, <3>2 DEF Confirm
    <3>3. CASE ~(pending[h] = None \/ h \in finalized)
      <4>1. "rank" \in Threads
        BY ThreadsAre
      <4>. QED
        BY <2>2, <3>1, <3>3, <4>1 DEF Confirm
    <3>. QED
      BY <3>2, <3>3
  <2>7. CASE \/ ReplayCreated \/ RoundStarted \/ IdentityLost \/ TwoHoursPass
             \/ \E h \in AnyGuid : MatchCreated(h)
             \/ \E other, seen \in BOOLEAN, kind \in Kinds : UpdateState(other, kind, seen)
             \/ \E closed, fifth \in BOOLEAN : Disconnect(closed, fifth)
             \/ \E t \in Threads : RouteClose(t) \/ RouteJobs(t)
             \/ UNCHANGED vars
    BY <2>3, <2>7 DEF ReplayCreated, RoundStarted, IdentityLost, TwoHoursPass, MatchCreated,
                      UpdateState, Disconnect, RouteClose, RouteJobs, vars, memory
  <2>. QED
    BY <1>1, <2>4, <2>5, <2>6, <2>7 DEF Next, TelemetryEvent
<1>. QED
  BY <1>1, LifecycleIsSound, PTL DEF Spec, LateResultSparesMatch
=============================================================================
