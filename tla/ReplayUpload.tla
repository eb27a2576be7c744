----------------------------- MODULE ReplayUpload -----------------------------
(***************************************************************************)
(* Replay files: the worker thread finds them and records them in table    *)
(* ReplayUploads, the upload thread sends the pending ones to Ballchasing  *)
(* and records what it answered.  The program may stop or crash anywhere,  *)
(* an answer may be lost, the user may change the settings meanwhile, and  *)
(* a file may be deleted, or held open by whoever writes it.               *)
(*                                                                         *)
(* Times are abstracted: a wait (back-off, Retry-After, 5 s for a match    *)
(* result) is a flag that a step of time sets.  Which match a file belongs *)
(* to is guessed by the worker thread and is a free choice here.           *)
(***************************************************************************)
EXTENDS Naturals, FiniteSets

CONSTANTS
  Files,        \* the replay files that may appear
  BatchLimit,   \* how many pending records the upload thread takes at once (5)
  MaxAttempts,  \* how many attempts an upload has (5)
  MaxCrashes,   \* bound: how often the program ends and starts again
  MaxChanges,   \* bound: how often the user changes a setting or asks for a retry
  MaxTouches    \* bound: how often a file is opened or closed by somebody, or deleted

NoReplay == "noFile"

ASSUME ReplayUploadAssumption ==
  /\ MaxAttempts \in Nat \ {0} /\ MaxCrashes \in Nat /\ MaxChanges \in Nat
  /\ MaxTouches \in Nat /\ NoReplay \notin Files /\ IsFiniteSet(Files) /\ BatchLimit \in Nat \ {0}

Undiscovered == [state |-> "unknown", attempts |-> 0, guid |-> FALSE, id |-> 0]
States == {"unknown", "pending", "uploading", "done", "duplicate", "failed", "skipped"}
SettledStates == {"done", "duplicate", "failed", "skipped"}

VARIABLES
  disk,      \* the files in the replay directories
  locked,    \* those that cannot be opened
  record,    \* ReplayUploads: state, attempts, whether a match is attributed, and the id
  due,       \* next_attempt_at has come
  old,       \* created_at is more than kMatchResultWaitLimitSeconds ago
  verdict,   \* what Matches says of the file's match: "none", "fits", "unfit" the filters
  scanned,   \* the worker thread has made its initial scan
  batch,     \* the files whose pending records the upload thread has taken
  uploadOf,  \* the file the upload thread is working on
  step,      \* how far it has got: "idle", "marked", "sent"
  settings,  \* auto_upload_replays, filters on, ballchasing_token
  rejected,  \* ballchasingTokenRejected
  server,    \* the files Ballchasing has
  left,      \* files left in state uploading because the token had been cleared
  crashes, changes, touches

replayVars == <<disk, locked, record, due, old, verdict, scanned, batch, uploadOf, step, settings,
                rejected, server, left, crashes, changes, touches>>
fileVars == <<disk, locked, touches>>
worldVars == <<fileVars, due, old, verdict>>
countVars == <<crashes, changes>>
threadVars == <<scanned, batch, uploadOf, step, left>>

TokenStates == {"none", "bad", "good"}

ReplayInit ==
  /\ disk \in SUBSET Files /\ locked = {}
  /\ record = [f \in Files |-> Undiscovered]
  /\ due = Files /\ old = {} /\ verdict = [f \in Files |-> "none"]
  /\ scanned = FALSE /\ batch = {} /\ uploadOf = NoReplay /\ step = "idle"
  /\ settings \in [upload : {TRUE}, filters : BOOLEAN, token : {"bad", "good"}]
  /\ rejected = FALSE /\ server = {} /\ left = {}
  /\ crashes = 0 /\ changes = 0 /\ touches = 0

SetState(f, state, attempts) == record' = [record EXCEPT ![f].state = state, ![f].attempts = attempts]

-----------------------------------------------------------------------------
\* The world.

NewFile(f) ==
  /\ f \notin disk /\ disk' = disk \cup {f}
  /\ UNCHANGED <<locked, touches, record, due, old, verdict, threadVars, settings, rejected, server,
                 countVars>>

Touch == touches < MaxTouches /\ touches' = touches + 1

\* Somebody opens or closes the file, or deletes it.
LockOrUnlock(f) ==
  /\ Touch /\ f \in disk
  /\ locked' = IF f \in locked THEN locked \ {f} ELSE locked \cup {f}
  /\ UNCHANGED <<disk, record, due, old, verdict, threadVars, settings, rejected, server, countVars>>

DeleteFile(f) ==
  /\ Touch /\ f \in disk \ locked /\ disk' = disk \ {f}
  /\ UNCHANGED <<locked, record, due, old, verdict, threadVars, settings, rejected, server, countVars>>

\* A record waits for the result of the match its file is attributed to.  What Matches says, and
\* that the wait becomes too long, is told of such records only; when a result was there before the
\* file was found it is told at once.
AwaitsResult(f) ==
  /\ settings.filters /\ record[f].state = "pending" /\ record[f].guid /\ verdict[f] = "none"

MatchSaved(f) ==
  /\ AwaitsResult(f)
  /\ \E v \in {"fits", "unfit"} : verdict' = [verdict EXCEPT ![f] = v]
  /\ UNCHANGED <<fileVars, record, due, old, threadVars, settings, rejected, server, countVars>>

\* next_attempt_at comes.
BecomesDue(f) ==
  /\ f \notin due /\ due' = due \cup {f}
  /\ UNCHANGED <<fileVars, old, verdict, record, threadVars, settings, rejected, server, countVars>>

BecomesOld(f) ==
  /\ f \notin old /\ AwaitsResult(f) /\ old' = old \cup {f}
  /\ UNCHANGED <<fileVars, due, verdict, record, threadVars, settings, rejected, server, countVars>>

Change == changes < MaxChanges /\ changes' = changes + 1

\* The user changes the upload setting or the token; a new token is tried again.  With uploading
\* and saving both off the worker thread forgets that it has scanned.
ChangeSettings ==
  /\ Change
  /\ \E upload \in BOOLEAN, token \in TokenStates :
       /\ settings' = [settings EXCEPT !.upload = upload, !.token = token]
       /\ rejected' = IF token # settings.token THEN FALSE ELSE rejected
       /\ scanned' \in IF upload THEN {scanned} ELSE {scanned, FALSE}
  /\ UNCHANGED <<worldVars, record, batch, uploadOf, step, left, server, crashes>>

\* RetryFailedReplayUploads.
RetryFailed ==
  /\ Change
  /\ record' = [f \in Files |-> IF record[f].state = "failed"
                                THEN [record[f] EXCEPT !.state = "pending"] ELSE record[f]]
  /\ due' = due \cup {f \in Files : record[f].state = "failed"}
  /\ UNCHANGED <<fileVars, old, verdict, threadVars, settings, rejected, server, crashes>>

-----------------------------------------------------------------------------
\* The worker thread.

IsFileReady(f) == f \in disk \ locked

\* Mutant: INSERT OR REPLACE.
ReplaceRecord(f, new) == new

\* RecordDiscoveredReplay: INSERT OR IGNORE.
Discovered(f, new) == IF record[f] = Undiscovered THEN new ELSE record[f]

\* ScanReplayDirectories(true), when the loop becomes active.
InitialScan ==
  /\ ~scanned /\ settings.upload /\ scanned' = TRUE
  /\ record' = [f \in Files |-> IF f \in disk
                                THEN Discovered(f, [Undiscovered EXCEPT !.state = "skipped"])
                                ELSE record[f]]
  /\ UNCHANGED <<worldVars, batch, uploadOf, step, left, settings, rejected, server, countVars>>

NextReplayId == 1 + Cardinality({f \in Files : record[f] # Undiscovered})

\* ScanReplayDirectories(false) finds a new file.
Scan(f) ==
  /\ scanned /\ IsFileReady(f) /\ record[f] = Undiscovered
  /\ \E guid \in BOOLEAN :
       record' = [record EXCEPT ![f] =
         [state |-> IF settings.upload THEN "pending" ELSE "skipped",
          attempts |-> 0, guid |-> guid, id |-> NextReplayId]]
  /\ UNCHANGED <<worldVars, threadVars, settings, rejected, server, countVars>>

-----------------------------------------------------------------------------
\* The upload thread.

\* Mutant: a replay waits for its match result for ever.
NeverTooOld(f) == FALSE

TooOld(f) == f \in old

\* EvaluateReplayFilter, and what ProcessPendingUploads makes of it.
Filtered(f) ==
  IF ~settings.filters THEN "upload"
  ELSE IF ~record[f].guid THEN "skip"
  ELSE IF verdict[f] = "none" THEN IF TooOld(f) THEN "skip" ELSE "wait"
  ELSE IF verdict[f] = "unfit" THEN "skip" ELSE "upload"

\* GetPendingReplayUploads: those that are due, the first ones by their ids.
Pending == {f \in Files : record[f].state = "pending" /\ f \in due}
Ahead(f) == {g \in Pending : record[g].id < record[f].id}

\* ProcessPendingUploads takes some records ...
TakeBatch ==
  /\ uploadOf = NoReplay /\ batch = {}
  /\ settings.upload /\ settings.token # "none" /\ ~rejected
  /\ batch' = {f \in Pending : Cardinality(Ahead(f)) < BatchLimit}
  /\ UNCHANGED <<worldVars, record, scanned, uploadOf, step, left, settings, rejected, server,
                 countVars>>

\* ... and goes through them; one whose file cannot be opened is left as it is.
ProcessPendingUploads(f) ==
  /\ uploadOf = NoReplay /\ f \in batch /\ (\A g \in batch : record[f].id <= record[g].id)
  /\ batch' = batch \ {f}
  /\ \/ /\ Filtered(f) = "skip"
        /\ SetState(f, "skipped", record[f].attempts)
        /\ UNCHANGED <<due, uploadOf, step>>
     \/ /\ Filtered(f) = "wait"
        /\ due' = due \ {f} /\ UNCHANGED <<record, uploadOf, step>>
     \/ /\ Filtered(f) = "upload" /\ IsFileReady(f)
        /\ SetState(f, "uploading", record[f].attempts)
        /\ uploadOf' = f /\ step' = "marked" /\ UNCHANGED due
     \/ Filtered(f) = "upload" /\ ~IsFileReady(f) /\ UNCHANGED <<record, due, uploadOf, step>>
  /\ UNCHANGED <<fileVars, old, verdict, scanned, left, settings, rejected, server, countVars>>

\* UploadReplayRecord reads the settings again; without a token it returns, the record as it is.
BeginUpload ==
  /\ step = "marked"
  /\ IF settings.token = "none"
     THEN left' = left \cup {uploadOf} /\ uploadOf' = NoReplay /\ step' = "idle"
     ELSE step' = "sent" /\ UNCHANGED <<left, uploadOf>>
  /\ UNCHANGED <<worldVars, record, scanned, batch, settings, rejected, server, countVars>>

\* The answers: 201, 409, 401 or 403, 400 and other errors, and 0, 429 or 5xx.  With the last
\* the replay may have arrived all the same.
Answers(f) ==
  {"refused", "broken"} \cup (IF settings.token = "bad" THEN {"token"} ELSE {})
    \cup (IF settings.token # "good" THEN {} ELSE IF f \in server THEN {"conflict"} ELSE {"created"})

\* EvaluateUploadResponse.
EvaluateUploadResponse(answer, attempts) ==
  CASE answer = "created" -> "done"
    [] answer = "conflict" -> "duplicate"
    [] answer = "token" -> "pending"
    [] answer = "refused" -> "failed"
    [] answer = "broken" -> IF attempts + 1 >= MaxAttempts THEN "failed" ELSE "pending"

Arrives(answer) ==
  \/ answer = "created" /\ server' = server \cup {uploadOf}
  \/ answer = "broken" /\ settings.token = "good" /\ server' = server \cup {uploadOf}
  \/ answer # "created" /\ UNCHANGED server

\* The rest of UploadReplayRecord.
FinishUpload ==
  /\ step = "sent"
  /\ \E answer \in Answers(uploadOf) :
       LET state == EvaluateUploadResponse(answer, record[uploadOf].attempts)
       IN /\ SetState(uploadOf, state,
                 record[uploadOf].attempts + (IF answer = "token" THEN 0 ELSE 1))
          /\ rejected' = (rejected \/ answer = "token")
          /\ due' = IF state = "pending" /\ answer # "token" THEN due \ {uploadOf} ELSE due
          /\ Arrives(answer)
  /\ uploadOf' = NoReplay /\ step' = "idle"
  /\ UNCHANGED <<fileVars, old, verdict, scanned, batch, left, settings, countVars>>

\* Mutant: nothing is recovered.
NothingRecovered == record

\* RecoverStuckUploadingReplays, in the constructor.
Recovered == [f \in Files |-> IF record[f].state = "uploading"
                              THEN [record[f] EXCEPT !.state = "pending"] ELSE record[f]]

\* The program ends wherever it is (what it was sending may have arrived) and starts again.
CrashAndRestart ==
  /\ crashes < MaxCrashes /\ crashes' = crashes + 1
  /\ server' \in {server} \cup (IF step = "sent" /\ settings.token = "good"
                                THEN {server \cup {uploadOf}} ELSE {})
  /\ record' = Recovered
  /\ scanned' = FALSE /\ batch' = {} /\ uploadOf' = NoReplay /\ step' = "idle"
  /\ rejected' = FALSE /\ left' = {}
  /\ UNCHANGED <<worldVars, settings, changes>>

UploadThread ==
  TakeBatch \/ (\E f \in Files : ProcessPendingUploads(f)) \/ BeginUpload \/ FinishUpload

ReplayNext ==
  \/ \E f \in Files : \/ NewFile(f) \/ LockOrUnlock(f) \/ DeleteFile(f) \/ MatchSaved(f)
                       \/ BecomesDue(f) \/ BecomesOld(f) \/ Scan(f)
  \/ InitialScan \/ UploadThread
  \/ ChangeSettings \/ RetryFailed \/ CrashAndRestart

\* Time passes, and the upload thread goes on.
ReplayFairness ==
  /\ WF_replayVars(UploadThread)
  /\ \A f \in Files : WF_replayVars(BecomesDue(f)) /\ WF_replayVars(BecomesOld(f))

ReplaySpec == ReplayInit /\ [][ReplayNext]_replayVars /\ ReplayFairness

-----------------------------------------------------------------------------
ReplayTypeOK ==
  /\ {disk, batch, due, old, server, left} \subseteq SUBSET Files /\ locked \subseteq disk
  /\ record \in [Files -> [state : States, attempts : 0..(MaxAttempts + MaxChanges),
                           guid : BOOLEAN, id : Nat]]
  /\ verdict \in [Files -> {"none", "fits", "unfit"}]
  /\ settings \in [upload : BOOLEAN, filters : BOOLEAN, token : TokenStates]
  /\ uploadOf \in Files \cup {NoReplay} /\ step \in {"idle", "marked", "sent"}
  /\ {scanned, rejected} \subseteq BOOLEAN /\ touches \in 0..MaxTouches

\* What is recorded as uploaded is on the server, whatever answers were lost and however often
\* it had to be sent.
UploadedIsOnServer ==
  \A f \in Files : record[f].state \in {"done", "duplicate"} => f \in server

\* A record says "uploading" only while it is being uploaded: one that a crash left is taken up
\* again.  The exception: the token was cleared between the mark and the upload.
UploadingIsUploaded ==
  \A f \in Files : record[f].state = "uploading" => uploadOf = f \/ f \in left

\* A restart, whose initial scan skips the files it finds, gives up no upload that was pending.
RestartKeepsUploads ==
  [][\A f \in Files : record[f].state \in {"pending", "uploading"} /\ scanned' # scanned
       => record'[f].state \in {"pending", "uploading"}]_replayVars

\* The file cannot be opened, or so many others that are ahead of it cannot that they fill every
\* batch: the thread leaves such records pending, and takes the same ones again.
Obstructed(f) ==
  \/ ~IsFileReady(f)
  \/ Cardinality({g \in Files : /\ record[g].state = "pending" /\ ~IsFileReady(g)
                                /\ record[g].id < record[f].id}) >= BatchLimit

\* Every pending upload comes to an end, as long as uploads are on, the token is accepted, and in
\* the end nothing obstructs it.
UploadsSettle ==
  \A f \in Files :
    <>[]~Obstructed(f) =>
      ((record[f].state = "pending" /\ settings.upload)
         ~> (record[f].state \in SettledStates \/ ~settings.upload \/ settings.token = "none"
               \/ rejected \/ f \in left))
=============================================================================
