---------------------------- MODULE RemoteConfig ----------------------------
(***************************************************************************)
(* RemoteConfig: what the server announces (notes and seasons), fetched by *)
(* a worker thread, kept in a cache file, and the notes the user has put   *)
(* away; and the table of seasons, which the configuration fills and a     *)
(* rank that starts again from no matches extends (ObserveRankedSeason).   *)
(*                                                                         *)
(* A file that is written when the program dies is unreadable afterwards,  *)
(* which is how a missing one reads.  The clock goes forward only.  Time   *)
(* is counted in days, and a season starts at one of RealStarts.  A        *)
(* player's number of matches is that of whichever provider answered       *)
(* (AccountManager): one may be behind the other, so it is any number.     *)
(***************************************************************************)
EXTENDS Naturals, Sequences, SequencesExt, FiniteSets, FiniteSetsExt

CONSTANTS
  Bodies,      \* what the server may answer
  RealStarts,  \* the day each season really starts
  Players,     \* the tracked accounts
  MaxAge,      \* kMaxCacheAgeSeconds, in days
  MaxNotes,    \* kMaxAnnouncements
  MaxPutAway,  \* kMaxDismissedIds
  LastDay,     \* bound: the clock
  MaxRuns      \* bound: how often the program is started

ASSUME RemoteConfigAssumption ==
  /\ RealStarts \in Seq(Nat) /\ MaxAge \in Nat \ {0} /\ MaxNotes \in Nat /\ MaxPutAway \in Nat \ {0}
  /\ LastDay \in Nat \ {0} /\ MaxRuns \in Nat

\* The world: a season starts after the one before, and the server tells its start rightly.
ASSUME CalendarAssumption ==
  /\ \A m, n \in DOMAIN RealStarts : m < n => RealStarts[m] < RealStarts[n]
  /\ \A b \in Bodies : \A s \in b.seasons :
       s.season \in DOMAIN RealStarts /\ s.start = RealStarts[s.season] /\ s.end \in Nat

VARIABLES
  today, body,      \* the clock, what the server answers
  held, cacheFile,  \* m_snapshot with m_lastFetchedAt (0: none), and its file
  putAway, putAwayFile,  \* m_dismissedIds and their file
  fetcher,          \* the worker: where it is, and when it last finished a fetch
  seasons,          \* the table Seasons
  observations,     \* RankedSeasonObservation
  fellBehind,       \* a number of matches fell although no season had begun: a provider was behind
  dismissed,        \* the notes the user has put away
  runs

remoteVars == <<today, body, held, cacheFile, putAway, putAwayFile, fetcher, seasons,
                observations, fellBehind, dismissed, runs>>
remoteServerVars == <<today, body>>
putAwayVars == <<putAway, putAwayFile, dismissed>>
rankedCounts == <<observations, fellBehind>>
seasonTable == <<seasons, rankedCounts>>

NoConfig == [config |-> [notes |-> <<>>, seasons |-> {}], at |-> 0]
StartedBy(day) == {n \in DOMAIN RealStarts : RealStarts[n] <= day}

RemoteInit ==
  /\ today = 1 /\ body \in Bodies /\ held = NoConfig /\ cacheFile = NoConfig
  /\ putAway = {} /\ putAwayFile = {} /\ dismissed = {}
  /\ fetcher = [at |-> "down", done |-> 0]
  /\ seasons = << >> /\ observations = << >> /\ fellBehind = FALSE /\ runs = 0

-----------------------------------------------------------------------------
\* A season that is not in order makes the whole of them unusable, but not the configuration.
SeasonsInOrder(listed) ==
  \A s, t \in listed : s.start < s.end /\ (s.season = t.season => s = t)

ParseConfigJson(answer) ==
  [notes |-> SubSeq(answer.notes, 1, Min({MaxNotes, Len(answer.notes)})),
   seasons |-> IF SeasonsInOrder(answer.seasons) THEN answer.seasons ELSE {}]

IsFresh(c) == c.at > 0 /\ today - c.at < MaxAge

\* LoadCachedConfigLocked, and whether what it read may still be used.
LoadCachedConfig == IF IsFresh(cacheFile) THEN cacheFile ELSE NoConfig

\* SaveCachedConfigLocked: what is written is read again as it was.
SaveCachedConfig(c) == cacheFile' = c

\* The server's seasons replace those that are there.
UpsertSeasons(listed) ==
  [n \in DOMAIN seasons \cup {s.season : s \in listed} |->
     IF \E s \in listed : s.season = n
     THEN LET s == CHOOSE s \in listed : s.season = n
          IN [start |-> s.start, end |-> s.end, by |-> "server"]
     ELSE seasons[n]]

\* Start: the files are read and the seasons stored before the worker runs.
StartRemote ==
  /\ fetcher.at = "down" /\ runs < MaxRuns /\ runs' = runs + 1
  /\ held' = LoadCachedConfig
  /\ seasons' = UpsertSeasons(held'.config.seasons)
  /\ putAway' = putAwayFile /\ fetcher' = [at |-> "fetching", done |-> today]
  /\ UNCHANGED <<remoteServerVars, cacheFile, putAwayFile, dismissed, rankedCounts>>

\* FetchOnce: an answer is taken over, kept in the file, and passed on after the mutex is released.
FetchAnswered ==
  /\ fetcher.at = "fetching"
  /\ held' = [config |-> ParseConfigJson(body), at |-> today] /\ SaveCachedConfig(held')
  /\ fetcher' = [at |-> "telling", done |-> today]
  /\ UNCHANGED <<remoteServerVars, putAwayVars, seasonTable, runs>>

TellSeasons ==
  /\ fetcher.at = "telling" /\ seasons' = UpsertSeasons(held.config.seasons)
  /\ fetcher' = [fetcher EXCEPT !.at = "waiting"]
  /\ UNCHANGED <<remoteServerVars, held, cacheFile, putAwayVars, rankedCounts, runs>>

\* Without OmniNet (Available) it does nothing, whatever the age of what is there.
FetchUnavailable ==
  /\ fetcher.at = "fetching" /\ fetcher' = [fetcher EXCEPT !.at = "waiting"]
  /\ UNCHANGED <<remoteServerVars, held, cacheFile, putAwayVars, seasonTable, runs>>

\* Without an answer, or with one that cannot be used: what is there stays while it is fresh.
FetchFailed ==
  /\ fetcher.at = "fetching" /\ fetcher' = [at |-> "waiting", done |-> today]
  /\ held' = IF IsFresh(held) THEN held ELSE LoadCachedConfig
  /\ UNCHANGED <<remoteServerVars, cacheFile, putAwayVars, seasonTable, runs>>

WaitEnds ==
  /\ fetcher.at = "waiting" /\ fetcher' = [fetcher EXCEPT !.at = "fetching"]
  /\ UNCHANGED <<remoteServerVars, held, cacheFile, putAwayVars, seasonTable, runs>>

\* The program ends, or dies; it may die while it writes the cache.
RemoteStops ==
  /\ fetcher.at # "down" /\ fetcher' = [at |-> "down", done |-> 0]
  /\ held' = NoConfig /\ putAway' = {}
  /\ \/ UNCHANGED cacheFile
     \/ fetcher.at = "telling" /\ cacheFile' = NoConfig
  /\ UNCHANGED <<remoteServerVars, putAwayFile, dismissed, seasonTable, runs>>

-----------------------------------------------------------------------------
Ends(note) == note.ends > 0 /\ today >= note.ends

\* ActiveAnnouncements.
Notices ==
  {note \in ToSet(held.config.notes) : ~(note.dismissible /\ note.id \in putAway) /\ ~Ends(note)}

\* SaveDismissedLocked.
StoredPutAway(ids) == ids

\* When as many are put away as may be kept, any one of them is forgotten.
DismissAnnouncement(id) ==
  /\ fetcher.at # "down"
  /\ \E note \in Notices : note.id = id /\ note.dismissible
  /\ \E forgotten \in IF Cardinality(putAway) >= MaxPutAway THEN {{o} : o \in putAway} ELSE {{}} :
       /\ putAway' = (putAway \ forgotten) \cup {id}
       /\ dismissed' = (dismissed \ forgotten) \cup {id}
  /\ putAwayFile' = StoredPutAway(putAway')
  /\ UNCHANGED <<remoteServerVars, held, cacheFile, fetcher, seasonTable, runs>>

\* The program dies while it writes that file.
DismissCutOff ==
  /\ fetcher.at # "down" /\ (\E note \in Notices : note.dismissible)
  /\ putAwayFile' = {} /\ putAway' = {} /\ dismissed' = {}
  /\ fetcher' = [at |-> "down", done |-> 0] /\ held' = NoConfig
  /\ UNCHANGED <<remoteServerVars, cacheFile, seasonTable, runs>>

-----------------------------------------------------------------------------
StartedSeasons == {n \in DOMAIN seasons : seasons[n].start <= today}

\* The season that started last: of two with one start, the later one.
LatestSeason ==
  CHOOSE n \in StartedSeasons :
    \A m \in StartedSeasons : \/ seasons[m].start < seasons[n].start
                              \/ seasons[m].start = seasons[n].start /\ m <= n

\* Mutant: fewer matches than before always begin a season.
AnyReset(old) == StartedSeasons # {}

\* The older number of matches is one of the season that is the latest now.
OfLatestSeason(old) == StartedSeasons # {} /\ old.at >= seasons[LatestSeason].start

\* ObserveRankedSeason: a player's matches have become fewer, so a season has begun that nobody
\* announced.  INSERT OR IGNORE leaves a season alone that is there.
ObserveRankedSeason(p, matches) ==
  LET known == p \in DOMAIN observations
      fewer == known /\ matches < observations[p].matches
      reset == fewer /\ OfLatestSeason(observations[p])
      next == LatestSeason + 1
  IN
  /\ fetcher.at # "down" /\ (known => today > observations[p].at)
  /\ observations' = [q \in DOMAIN observations \cup {p} |->
                        IF q = p THEN [matches |-> matches, at |-> today] ELSE observations[q]]
  /\ fellBehind' = \/ fellBehind
                   \/ fewer /\ StartedBy(observations[p].at) = StartedBy(today)
  /\ seasons' = IF ~reset \/ next \in DOMAIN seasons THEN seasons
                ELSE [n \in DOMAIN seasons \cup {next} |->
                        IF n \in DOMAIN seasons THEN seasons[n]
                        ELSE [start |-> today, end |-> today, by |-> "observed"]]
  /\ UNCHANGED <<remoteServerVars, held, cacheFile, putAwayVars, fetcher, runs>>

-----------------------------------------------------------------------------
\* The seasons by their starts, the last one first.
Newer(n) ==
  {m \in DOMAIN seasons :
     \/ seasons[m].start > seasons[n].start
     \/ seasons[m].start = seasons[n].start /\ m > n}
NextStart(n) == Min({seasons[m].start : m \in Newer(n)})

\* The days whose matches GetSeasonSummaries counts for a season: a last one whose end nobody knows
\* goes on.
SummaryDays(n) ==
  {day \in seasons[n].start .. LastDay :
     IF Newer(n) # {} THEN day < NextStart(n)
     ELSE seasons[n].end > seasons[n].start => day <= seasons[n].end}

\* The days the history's filter by season asks for.
FilterDays(n) ==
  IF Newer(n) # {} THEN seasons[n].start .. (NextStart(n) - 1)
  ELSE (seasons[n].start .. seasons[n].end) \cap (0 .. LastDay)

-----------------------------------------------------------------------------
\* The world: days pass, the server's answer changes.
DayPasses ==
  /\ today < LastDay /\ today' = today + 1
  /\ UNCHANGED <<body, held, cacheFile, putAwayVars, fetcher, seasonTable, runs>>

ServerChanges ==
  /\ body' \in Bodies \ {body}
  /\ UNCHANGED <<today, held, cacheFile, putAwayVars, fetcher, seasonTable, runs>>

RemoteNext ==
  \/ StartRemote \/ FetchAnswered \/ TellSeasons \/ FetchUnavailable \/ FetchFailed \/ WaitEnds
  \/ RemoteStops
  \/ \E b \in Bodies : \E note \in ToSet(b.notes) : DismissAnnouncement(note.id)
  \/ DismissCutOff
  \/ \E p \in Players, matches \in 0..1 : ObserveRankedSeason(p, matches)
  \/ DayPasses \/ ServerChanges

RemoteSpec == RemoteInit /\ [][RemoteNext]_remoteVars

-----------------------------------------------------------------------------
RemoteTypeOK ==
  /\ today \in 1..LastDay /\ body \in Bodies /\ held.at <= today /\ cacheFile.at <= today
  /\ fetcher.at \in {"down", "fetching", "telling", "waiting"} /\ putAway \subseteq putAwayFile
  /\ \A n \in DOMAIN seasons : seasons[n].by \in {"server", "observed"}

\* What the program shows was fresh enough when it last heard from the server or looked for the
\* want of an answer, and what it shows again after a restart was so then.
ShownIsFresh == held = NoConfig \/ fetcher.done - held.at < MaxAge

\* A note the user has put away does not come back, restarts included, unless it was forgotten for
\* a newer one or the program died while it wrote the file.
DismissedStaysAway == \A note \in Notices : note.dismissible => note.id \notin dismissed

\* The seasons of the configuration that is in use are in the table as the server gave them,
\* whatever was observed before or since.
ServerSeasonsHold ==
  fetcher.at = "waiting" =>
    \A s \in held.config.seasons :
      seasons[s.season] = [start |-> s.start, end |-> s.end, by |-> "server"]

\* A season that was observed has begun: however many players start again from fewer matches, and
\* whether or not the server has announced a season that began meanwhile, one reset is one season.
\* (A number that fell within a season, since a provider was behind, makes up a season.)
ObservedHasBegun ==
  ~fellBehind =>
    \A n \in DOMAIN seasons : seasons[n].by = "observed" => n \in StartedBy(today)

\* A season's summary and the history's filter speak of the same days, except for a last season
\* that was only observed: the filter then asks for its first moment alone.
FilterIsSummary ==
  \A n \in DOMAIN seasons :
    \/ SummaryDays(n) = FilterDays(n) \cap (0 .. LastDay)
    \/ Newer(n) = {} /\ seasons[n].by = "observed"
=============================================================================
