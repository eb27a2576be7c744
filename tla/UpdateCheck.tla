----------------------------- MODULE UpdateCheck -----------------------------
(***************************************************************************)
(* Looking for a new version: ExternalUpdaterLauncher, which the render    *)
(* thread and the settings ask for a background check at the same time,    *)
(* and its one thread, which runs the installed updater with --check.      *)
(* Time is counted in the five minutes a failed check waits.               *)
(***************************************************************************)
EXTENDS Naturals, Sequences, SequencesExt

CONSTANTS
  Requesters,  \* the threads that start background checks
  LastMoment,  \* bound: the last moment time goes to
  MaxChecks,   \* bound: how many checks are started
  HourInSteps  \* kPeriodicUpdateCheckIntervalMs / kFailedUpdateCheckRetryMs (12)

ASSUME UpdateCheckAssumption ==
  LastMoment \in Nat \ {0} /\ MaxChecks \in Nat /\ HourInSteps \in Nat \ {0}

Never == 0
Reasons == {"initial", "settings", "periodic"}

VARIABLES
  moment,                    \* the time
  lastAttempt, lastSuccess,  \* g_lastUpdateCheckAttemptMs, g_lastSuccessfulUpdateCheckMs
  attemptIsLater,            \* whether the first is the greater one, in milliseconds
  inProgress,                \* g_updateCheckInProgress
  requester,                 \* what each requester does, with the reason it gave
  checkThread,               \* g_updateThread: "none", "running", "leaving", "ended" (joinable)
  terminated,                \* a joinable thread was assigned to
  checks,                    \* when and why checks were started and when they ended, in order
  program                    \* "running", "exiting", "ended"

updateCheckVars == <<moment, lastAttempt, lastSuccess, attemptIsLater, inProgress, requester,
                     checkThread, terminated, checks, program>>

-----------------------------------------------------------------------------
UpdateCheckInit ==
  /\ moment = 1 /\ lastAttempt = Never /\ lastSuccess = Never
  /\ attemptIsLater = FALSE /\ inProgress = FALSE
  /\ requester = [r \in Requesters |-> [at |-> "idle", reason |-> "initial"]]
  /\ checkThread = "none" /\ terminated = FALSE /\ checks = <<>> /\ program = "running"

TimeGoes ==
  /\ moment < LastMoment /\ moment' = moment + 1
  /\ UNCHANGED <<lastAttempt, lastSuccess, attemptIsLater, inProgress, requester, checkThread,
                 terminated, checks, program>>

MinimumIntervalFor(reason) ==
  CASE reason = "initial" -> 0 [] reason = "settings" -> 1 [] reason = "periodic" -> HourInSteps

UpdateCheckAllowed(reason) ==
  /\ ~(attemptIsLater /\ moment - lastAttempt < 1)
  /\ \/ MinimumIntervalFor(reason) = 0 \/ lastSuccess = Never
     \/ moment - lastSuccess >= MinimumIntervalFor(reason)

RequesterOnly == UNCHANGED <<moment, lastSuccess, program>>
Goes(r, at) == requester' = [requester EXCEPT ![r].at = at]

\* StartBackgroundUpdateCheck, to its first gate.  ("initial" is asked for once, by App.)
RequestCheck(r, reason) ==
  /\ requester[r].at = "idle" /\ program = "running" /\ Len(checks) < MaxChecks
  /\ reason = "initial" => checks = <<>>
  /\ UpdateCheckAllowed(reason)
  /\ requester' = [requester EXCEPT ![r] = [at |-> "passed", reason |-> reason]]
  /\ RequesterOnly
  /\ UNCHANGED <<lastAttempt, attemptIsLater, inProgress, checkThread, terminated, checks>>

\* compare_exchange_strong.
ClaimSlot(r) ==
  IF inProgress THEN Goes(r, "idle") /\ UNCHANGED inProgress
  ELSE Goes(r, "claimed") /\ inProgress' = TRUE

Claim(r) ==
  /\ requester[r].at = "passed" /\ ClaimSlot(r) /\ RequesterOnly
  /\ UNCHANGED <<lastAttempt, attemptIsLater, checkThread, terminated, checks>>

AllowedAgain(reason) == UpdateCheckAllowed(reason)

Recheck(r) ==
  /\ requester[r].at = "claimed"
  /\ IF AllowedAgain(requester[r].reason)
     THEN /\ lastAttempt' = moment /\ attemptIsLater' = TRUE /\ Goes(r, "joining")
          /\ checks' = Append(checks, [reason |-> requester[r].reason, start |-> moment,
                                       ok |-> FALSE, end |-> Never])
          /\ UNCHANGED inProgress
     ELSE /\ inProgress' = FALSE /\ Goes(r, "idle")
          /\ UNCHANGED <<lastAttempt, attemptIsLater, checks>>
  /\ RequesterOnly /\ UNCHANGED <<checkThread, terminated>>

\* join() is not needed, or returns.
ThreadIsOver == checkThread \in {"none", "ended"}

\* What is left of the last thread then.
AfterJoin == "none"

\* The last thread is joined and replaced, under g_updateThreadMutex.
StartThread(r) ==
  /\ requester[r].at = "joining" /\ ThreadIsOver /\ Goes(r, "idle")
  /\ terminated' = (terminated \/ AfterJoin # "none") /\ checkThread' = "running"
  /\ RequesterOnly /\ UNCHANGED <<lastAttempt, attemptIsLater, inProgress, checks>>

\* RunInstalledUpdaterCheck: the updater answers, or fails, or is not done after 20 seconds.
CheckAnswers ==
  /\ checkThread = "running" /\ checks # <<>> /\ Last(checks).end = Never
  /\ \E ok \in BOOLEAN :
       /\ checks' = [checks EXCEPT ![Len(checks)].ok = ok, ![Len(checks)].end = moment]
       /\ lastSuccess' = IF ok THEN moment ELSE lastSuccess
       /\ attemptIsLater' = (attemptIsLater /\ ~ok)
  /\ UNCHANGED <<moment, lastAttempt, inProgress, requester, checkThread, terminated, program>>

ClearFlag == inProgress' = FALSE

\* The thread's last statement, after which another one may be asked for ...
ReleaseSlot ==
  /\ checkThread = "running" /\ inProgress /\ checks # <<>> /\ Last(checks).end # Never
  /\ ClearFlag /\ checkThread' = "leaving"
  /\ UNCHANGED <<moment, lastAttempt, lastSuccess, attemptIsLater, requester, terminated, checks,
                 program>>

\* ... and its end.
ThreadEnds ==
  /\ checkThread = "leaving" /\ checkThread' = "ended"
  /\ UNCHANGED <<moment, lastAttempt, lastSuccess, attemptIsLater, inProgress, requester,
                 terminated, checks, program>>

\* App::Stop: the windows and their threads are stopped first ...
Close ==
  /\ program = "running" /\ program' = "exiting"
  /\ UNCHANGED <<moment, lastAttempt, lastSuccess, attemptIsLater, inProgress, requester,
                 checkThread, terminated, checks>>

\* ... and when nobody is in StartBackgroundUpdateCheck any more, the thread is joined.
ShutdownBackgroundTasks ==
  /\ program = "exiting" /\ \A r \in Requesters : requester[r].at = "idle"
  /\ ThreadIsOver /\ program' = "ended" /\ checkThread' = "none"
  /\ UNCHANGED <<moment, lastAttempt, lastSuccess, attemptIsLater, inProgress, requester,
                 terminated, checks>>

RequesterGoesOn(r) == Claim(r) \/ Recheck(r) \/ StartThread(r)
ThreadGoesOn == CheckAnswers \/ ReleaseSlot \/ ThreadEnds

UpdateCheckNext ==
  \/ TimeGoes \/ (\E r \in Requesters, reason \in Reasons : RequestCheck(r, reason))
  \/ (\E r \in Requesters : RequesterGoesOn(r)) \/ ThreadGoesOn
  \/ Close \/ ShutdownBackgroundTasks

\* Threads are scheduled, and the wait for the updater has a limit.
UpdateCheckFairness ==
  /\ \A r \in Requesters : WF_updateCheckVars(RequesterGoesOn(r))
  /\ WF_updateCheckVars(ThreadGoesOn) /\ WF_updateCheckVars(ShutdownBackgroundTasks)

UpdateCheckSpec == UpdateCheckInit /\ [][UpdateCheckNext]_updateCheckVars /\ UpdateCheckFairness

-----------------------------------------------------------------------------
UpdateCheckTypeOK ==
  /\ moment \in 1..LastMoment /\ lastAttempt \in 0..moment /\ lastSuccess \in 0..moment
  /\ inProgress \in BOOLEAN /\ attemptIsLater \in BOOLEAN /\ terminated \in BOOLEAN
  /\ requester \in [Requesters -> [at : {"idle", "passed", "claimed", "joining"},
                                   reason : Reasons]]
  /\ checkThread \in {"none", "running", "leaving", "ended"}
  /\ program \in {"running", "exiting", "ended"}

\* A thread is joined before it is replaced and never ended by force, and one requester at a
\* time prepares a check (ARCHITECTURE.md: at most one background update-check thread).
OneCheckThread ==
  /\ ~terminated
  /\ \A r, s \in Requesters :
       requester[r].at \in {"claimed", "joining"} /\ requester[s].at \in {"claimed", "joining"}
         => r = s

\* A failed check is not followed by another within five minutes, nor a successful one by one
\* that the settings or the clock asked for before their interval is over, although two threads
\* may ask at once.
ChecksAreSpaced ==
  \A i \in 2..Len(checks) :
    LET before == checks[i - 1]
    IN checks[i].start - before.start >=
         IF before.ok THEN MinimumIntervalFor(checks[i].reason) ELSE 1

\* Closing the program ends: the join waits for one check at most.
ExitIsNotHeldUp == program = "exiting" ~> program = "ended"

\* The slot is given back: a check that failed or was refused does not prevent all later ones.
SlotIsGivenBack == inProgress ~> ~inProgress
=============================================================================
