----------------------------- MODULE Tournaments -----------------------------
(***************************************************************************)
(* The tournament schedule: a worker thread that looks every second at the *)
(* configuration and the account and fetches the schedule of the user's    *)
(* region, and the UI thread's reminder before a tournament starts.        *)
(*                                                                         *)
(* A fetch lies between two steps of the worker, in which the user may     *)
(* sign out or choose another region.  The clock counts minutes; the UI    *)
(* thread looks at the schedule in every one of them.                      *)
(***************************************************************************)
EXTENDS Naturals, Sequences, SequencesExt, FiniteSets, FiniteSetsExt

CONSTANTS
  Regions,      \* the regions
  NoRegion,     \* none is chosen, or none is found
  Schedule,     \* of each region: its tournaments in order, [start, standard]
  Lead,         \* tournament_reminder_minutes
  RefetchAfter, \* minutes until a schedule is fetched again (1800 s; a fifth of it after a failure)
  LastMinute,   \* bound: the clock
  MaxSettings   \* bound: how often something is set

ASSUME TournamentsAssumption ==
  /\ NoRegion \notin Regions /\ Lead \in Nat \ {0} /\ RefetchAfter \in Nat \ {0}
  /\ LastMinute \in Nat /\ MaxSettings \in Nat

\* What ParseSchedule makes of an answer: it sorts the tournaments by their starts.
ASSUME ScheduleAssumption ==
  \A r \in Regions :
    /\ Schedule[r] \in Seq([start : Nat, standard : BOOLEAN])
    /\ \A i, j \in DOMAIN Schedule[r] : i <= j => Schedule[r][i].start <= Schedule[r][j].start

Starts == UNION {{s.start : s \in ToSet(Schedule[r])} : r \in Regions}

VARIABLES
  minute,     \* the clock
  user,       \* signed in, a tournament widget is shown, tournament_region, what is detected,
              \* and whether only standard tournaments matter
  scheduler,  \* the worker: where it is, the settings it last saw, m_refresh, nextFetch
  fetching,   \* the snapshot it is about to publish
  schedule,   \* m_snapshot
  fired,      \* ReminderTracker::m_fired
  reminded,   \* of each start: how often it was announced
  looked,     \* the UI thread has looked in this minute
  imminent,   \* starts that were listed when it looked in the minute before
  settingsLeft

tournamentVars == <<minute, user, scheduler, fetching, schedule, fired, reminded, looked, imminent,
                    settingsLeft>>
uiThreadVars == <<fired, reminded, looked, imminent>>

EmptySchedule == [status |-> "disabled", region |-> NoRegion, of |-> NoRegion, slots |-> <<>>,
                  fetched |-> FALSE]

TournamentsInit ==
  /\ minute = 0
  /\ user \in [signedIn : BOOLEAN, shown : {TRUE}, region : Regions \cup {NoRegion},
               detected : {NoRegion}, standardOnly : BOOLEAN]
  /\ scheduler = [at |-> "looking", signedIn |-> FALSE, shown |-> FALSE, region |-> NoRegion,
                  refresh |-> FALSE, next |-> 0, began |-> 0]
  /\ fetching = EmptySchedule /\ schedule = EmptySchedule
  /\ fired = {} /\ reminded = [t \in Starts |-> 0] /\ looked = FALSE /\ imminent = {}
  /\ settingsLeft = MaxSettings

-----------------------------------------------------------------------------
\* The region that was chosen; if none, DetectRegion's; if it finds none, the one there was.
RegionFor(value) ==
  IF user.region # NoRegion THEN user.region
  ELSE IF user.detected # NoRegion THEN user.detected ELSE value.region

\* The tournaments of another region are dropped at once.
ForRegion(value, region) ==
  IF region = schedule.region THEN [value EXCEPT !.region = region]
  ELSE [value EXCEPT !.region = region, !.of = NoRegion, !.slots = <<>>, !.fetched = FALSE]

\* Nothing of the account's is shown once it has been signed out.
Checked(value) ==
  IF user.signedIn THEN value ELSE [EmptySchedule EXCEPT !.status = "signedOut"]

Changed ==
  \/ user.signedIn # scheduler.signedIn \/ user.shown # scheduler.shown
  \/ user.region # scheduler.region

Seen(at, next) ==
  [at |-> at, signedIn |-> user.signedIn, shown |-> user.shown, region |-> user.region,
   refresh |-> FALSE, next |-> next, began |-> minute]

\* One turn of the worker's loop, up to the request.
Look ==
  LET value == IF Changed THEN EmptySchedule ELSE schedule
      wanted == user.signedIn /\ user.shown
      region == RegionFor(value)
  IN
  /\ scheduler.at = "looking" /\ (Changed \/ scheduler.refresh \/ minute >= scheduler.next)
  /\ \/ /\ wanted /\ region # NoRegion
        /\ fetching' = [ForRegion(value, region) EXCEPT !.status = "loading"]
        /\ schedule' = fetching' /\ scheduler' = Seen("fetching", scheduler.next)
     \/ /\ ~(wanted /\ region # NoRegion)
        /\ schedule' = Checked([value EXCEPT
             !.status = CASE ~user.signedIn -> "signedOut" [] ~user.shown -> "disabled"
                          [] OTHER -> "noRegion",
             !.slots = IF wanted THEN @ ELSE <<>>, !.of = IF wanted THEN @ ELSE NoRegion])
        /\ scheduler' = Seen("looking", minute + 1) /\ UNCHANGED fetching
  /\ UNCHANGED <<minute, user, uiThreadVars, settingsLeft>>

\* Fetch returns: with the schedule, or without; a token that is refused twice signs the user out.
FetchReturns(answer) ==
  LET region == fetching.region
      got == IF answer = "schedule"
             THEN [fetching EXCEPT !.slots = Schedule[region], !.of = region, !.fetched = TRUE]
             ELSE fetching
      known == [got EXCEPT !.status = IF got.fetched THEN "ready" ELSE "unavailable"]
  IN
  /\ scheduler.at = "fetching"
  /\ user' = IF answer = "refused" THEN [user EXCEPT !.signedIn = FALSE] ELSE user
  /\ schedule' = IF answer = "refused" THEN [EmptySchedule EXCEPT !.status = "signedOut"]
                 ELSE Checked(known)
  /\ scheduler' = [scheduler EXCEPT
       !.at = "looking",
       !.next = scheduler.began + IF answer = "schedule" THEN RefetchAfter ELSE 1]
  /\ UNCHANGED <<minute, fetching, uiThreadVars, settingsLeft>>

FetchEnds == \E answer \in {"schedule", "nothing", "refused"} : FetchReturns(answer)

-----------------------------------------------------------------------------
\* NextSlot: the first of those that have not started and that matter.
Matters(slot) == ~user.standardOnly \/ slot.standard
Upcoming == {i \in DOMAIN schedule.slots :
               schedule.slots[i].start > minute /\ Matters(schedule.slots[i])}
NextSlot == schedule.slots[Min(Upcoming)]

\* ShouldFire first forgets the starts that have passed.
StillToCome == {t \in fired : t > minute}

\* The UI thread's RefreshTournaments.
RefreshTournaments ==
  LET asked == user.signedIn /\ Upcoming # {}
      due == asked /\ NextSlot.start - minute <= Lead /\ NextSlot.start \notin StillToCome
      listed == {s \in ToSet(schedule.slots) : user.signedIn /\ Matters(s)}
  IN
  /\ ~looked /\ looked' = TRUE
  /\ fired' = IF asked THEN StillToCome \cup (IF due THEN {NextSlot.start} ELSE {}) ELSE fired
  /\ reminded' = IF due THEN [reminded EXCEPT ![NextSlot.start] = @ + 1] ELSE reminded
  /\ imminent' = {s.start : s \in listed} \cap {minute + 1}
  /\ UNCHANGED <<minute, user, scheduler, fetching, schedule, settingsLeft>>

MinutePasses ==
  /\ minute < LastMinute /\ looked /\ minute' = minute + 1 /\ looked' = FALSE
  /\ UNCHANGED <<user, scheduler, fetching, schedule, fired, reminded, imminent, settingsLeft>>

\* The user, and the game, which writes the files a region is detected from.
Sets(u) == settingsLeft > 0 /\ settingsLeft' = settingsLeft - 1 /\ user' = u

UserSets ==
  /\ \/ Sets([user EXCEPT !.signedIn = ~@])
     \/ Sets([user EXCEPT !.shown = ~@])
     \/ \E r \in (Regions \cup {NoRegion}) \ {user.region} : Sets([user EXCEPT !.region = r])
     \/ \E r \in Regions \ {user.detected} : Sets([user EXCEPT !.detected = r])
  /\ UNCHANGED <<minute, scheduler, fetching, schedule, uiThreadVars>>

RequestRefresh ==
  /\ settingsLeft > 0 /\ settingsLeft' = settingsLeft - 1
  /\ ~scheduler.refresh /\ scheduler' = [scheduler EXCEPT !.refresh = TRUE]
  /\ UNCHANGED <<minute, user, fetching, schedule, uiThreadVars>>

TournamentsNext ==
  \/ Look \/ FetchEnds \/ RefreshTournaments \/ MinutePasses \/ UserSets \/ RequestRefresh

\* The worker's loop goes on, and a request has a time limit.
TournamentsSpec ==
  /\ TournamentsInit /\ [][TournamentsNext]_tournamentVars
  /\ WF_tournamentVars(Look) /\ WF_tournamentVars(FetchEnds)

-----------------------------------------------------------------------------
TournamentsTypeOK ==
  /\ scheduler.at \in {"looking", "fetching"} /\ schedule.region \in Regions \cup {NoRegion}
  /\ schedule.status \in
       {"signedOut", "disabled", "noRegion", "loading", "ready", "unavailable"}
  /\ fired \subseteq Starts /\ imminent \subseteq Starts

\* The tournaments that are listed are those of the region that is named with them, whatever was
\* chosen or detected while they were fetched.
SlotsOfRegion ==
  /\ schedule.of \in {NoRegion, schedule.region} /\ (schedule.slots # <<>> => schedule.of # NoRegion)
  /\ schedule.status = "ready" => schedule.of = schedule.region

\* A start is announced once, and one that was listed a minute before has been announced by then.
RemindedOnce ==
  /\ \A t \in Starts : reminded[t] <= 1
  /\ \A t \in imminent : reminded[t] = 1

\* A user who stays signed out sees no tournaments for long.
SignedOutSeesNone == ~user.signedIn ~> (user.signedIn \/ schedule.slots = <<>>)
=============================================================================
