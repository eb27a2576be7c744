------------------------------ MODULE Telemetry ------------------------------
(***************************************************************************)
(* TelemetryManager: the milestones, which any thread may record and the   *)
(* worker sends every hour, and the heartbeats, which tell the server how  *)
(* many minutes the program was open.                                      *)
(*                                                                         *)
(* Milestones are kept in two settings of the database: RecordMilestone    *)
(* hands its write to the database's queue after releasing the mutex, the  *)
(* worker writes directly.  An answer of the server may be lost.           *)
(***************************************************************************)
EXTENDS Naturals, Sequences, FiniteSets

CONSTANTS
  Milestones,    \* kinds of milestones
  Recorders,     \* threads that record them
  TicksAMinute,  \* ticks of the clock that are a minute
  MaxOpen,       \* kMaxOpenMinutes
  LastTick,      \* bound: the clock
  MaxStarts      \* bound: how often the program is started again

ASSUME TelemetryAssumption ==
  /\ TicksAMinute \in Nat \ {0} /\ MaxOpen \in Nat /\ LastTick \in Nat /\ MaxStarts \in Nat

VARIABLES
  reported,   \* m_reportedMask
  unsent,     \* m_pendingMask
  toStore,    \* of each thread: the set it is about to hand to the database's queue, if any
  writes,     \* the database's queue: values of milestones_pending
  stored,     \* the settings milestones_reported and milestones_pending
  flush,      \* the worker: where FlushPendingMilestones is, and what it holds
  received,   \* by the server, of the milestones
  recorded,   \* since the program started
  clock, lastAccounting, startedAt,  \* m_lastAccountingUnbiasedTime, and the program's start
  accounted,  \* minutes the server acknowledged since the program started
  starts

telemetryVars == <<reported, unsent, toStore, writes, stored, flush, received, recorded, clock,
                   lastAccounting, startedAt, accounted, starts>>
milestoneVars == <<reported, unsent, toStore, writes, stored, flush, received, recorded>>
heartbeatVars == <<clock, lastAccounting, startedAt, accounted>>

NoFlush == [at |-> "idle", flushed |-> {}, reported |-> {}, pending |-> {}]
NothingToStore == <<>>

TelemetryInit ==
  /\ reported = {} /\ unsent = {} /\ toStore = [r \in Recorders |-> NothingToStore]
  /\ writes = <<>> /\ stored = [reported |-> {}, pending |-> {}] /\ flush = NoFlush
  /\ received = {} /\ recorded = {}
  /\ clock = 0 /\ lastAccounting = 0 /\ startedAt = 0 /\ accounted = 0 /\ starts = 0

-----------------------------------------------------------------------------
RecordMilestone(r, m) ==
  /\ toStore[r] = NothingToStore /\ m \notin reported \cup unsent
  /\ unsent' = unsent \cup {m} /\ recorded' = recorded \cup {m}
  /\ toStore' = [toStore EXCEPT ![r] = <<unsent'>>]
  /\ UNCHANGED <<reported, writes, stored, flush, received, starts>> /\ UNCHANGED heartbeatVars

AsyncSetSetting(r) ==
  /\ toStore[r] # NothingToStore
  /\ writes' = writes \o toStore[r] /\ toStore' = [toStore EXCEPT ![r] = NothingToStore]
  /\ UNCHANGED <<reported, unsent, stored, flush, received, recorded, starts>>
  /\ UNCHANGED heartbeatVars

\* The database's worker.
StoreSetting ==
  /\ writes # <<>> /\ writes' = Tail(writes) /\ stored' = [stored EXCEPT !.pending = Head(writes)]
  /\ UNCHANGED <<reported, unsent, toStore, flush, received, recorded, starts>>
  /\ UNCHANGED heartbeatVars

-----------------------------------------------------------------------------
SendMilestones ==
  /\ flush.at = "idle" /\ unsent # {}
  /\ flush' = [NoFlush EXCEPT !.at = "sent", !.flushed = unsent]
  /\ UNCHANGED <<reported, unsent, toStore, writes, stored, received, recorded, starts>>
  /\ UNCHANGED heartbeatVars

\* flushedMask.
Flushed == flush.flushed

MilestonesAnswered ==
  /\ flush.at = "sent" /\ received' = received \cup flush.flushed
  /\ unsent' = unsent \ Flushed /\ reported' = reported \cup Flushed
  /\ flush' = [flush EXCEPT !.at = "reported", !.reported = reported', !.pending = unsent']
  /\ UNCHANGED <<toStore, writes, stored, recorded, starts>> /\ UNCHANGED heartbeatVars

\* The server does not get them, or gets them and its answer is lost.
MilestonesFail ==
  /\ flush.at = "sent" /\ flush' = NoFlush
  /\ received' \in {received, received \cup flush.flushed}
  /\ UNCHANGED <<reported, unsent, toStore, writes, stored, recorded, starts>>
  /\ UNCHANGED heartbeatVars

StoreReported ==
  /\ flush.at = "reported" /\ flush' = [flush EXCEPT !.at = "pending"]
  /\ stored' = [stored EXCEPT !.reported = flush.reported]
  /\ UNCHANGED <<reported, unsent, toStore, writes, received, recorded, starts>>
  /\ UNCHANGED heartbeatVars

StorePending ==
  /\ flush.at = "pending" /\ flush' = NoFlush
  /\ stored' = [stored EXCEPT !.pending = flush.pending]
  /\ UNCHANGED <<reported, unsent, toStore, writes, received, recorded, starts>>
  /\ UNCHANGED heartbeatVars

-----------------------------------------------------------------------------
Tick ==
  /\ clock < LastTick /\ clock' = clock + 1
  /\ UNCHANGED <<lastAccounting, startedAt, accounted, starts>> /\ UNCHANGED milestoneVars

\* CalculateHeartbeatMinutes.
Minutes(elapsed) ==
  LET m == elapsed \div TicksAMinute IN IF m < MaxOpen THEN m ELSE MaxOpen

Remainder(elapsed) == elapsed % TicksAMinute

\* SendHeartbeatInternal, when the server acknowledges; otherwise nothing changes.
Heartbeat ==
  LET elapsed == clock - lastAccounting IN
  /\ elapsed > 0 /\ flush.at = "idle"
  /\ accounted' = accounted + Minutes(elapsed)
  /\ lastAccounting' = clock - Remainder(elapsed)
  /\ UNCHANGED <<clock, startedAt, starts>> /\ UNCHANGED milestoneVars

LoadMasks == stored

\* Initialize, after the program was closed or killed.
StartTelemetry ==
  /\ starts < MaxStarts /\ starts' = starts + 1
  /\ reported' = LoadMasks.reported /\ unsent' = LoadMasks.pending
  /\ toStore' = [r \in Recorders |-> NothingToStore] /\ writes' = <<>> /\ flush' = NoFlush
  /\ recorded' = {} /\ lastAccounting' = clock /\ startedAt' = clock /\ accounted' = 0
  /\ UNCHANGED <<stored, received, clock>>

TelemetryNext ==
  \/ \E r \in Recorders : (\E m \in Milestones : RecordMilestone(r, m)) \/ AsyncSetSetting(r)
  \/ StoreSetting \/ SendMilestones \/ MilestonesAnswered \/ MilestonesFail
  \/ StoreReported \/ StorePending \/ Tick \/ Heartbeat \/ StartTelemetry

\* The worker goes on; the server answers if it is asked often enough.
TelemetrySpec ==
  /\ TelemetryInit /\ [][TelemetryNext]_telemetryVars
  /\ WF_telemetryVars(SendMilestones) /\ SF_telemetryVars(MilestonesAnswered)
  /\ WF_telemetryVars(StoreReported) /\ WF_telemetryVars(StorePending)

-----------------------------------------------------------------------------
TelemetryTypeOK ==
  /\ {reported, unsent, received, recorded} \subseteq SUBSET Milestones
  /\ \A r \in Recorders : Len(toStore[r]) <= 1
  /\ flush.at \in {"idle", "sent", "reported", "pending"}
  /\ {clock, lastAccounting, startedAt} \subseteq 0..LastTick /\ starts \in 0..MaxStarts

\* What counts as reported, in memory or in the database, the server has received.
ReportedWasReceived == reported \cup stored.reported \cup flush.reported \subseteq received

\* What was reported stays reported: it is recorded and sent once, over any number of starts.
ReportedForGood == [][stored.reported \subseteq stored'.reported]_telemetryVars

\* What this program recorded is sent in the end, as long as it runs.
RecordedIsSent ==
  \A m \in Milestones : m \in recorded ~> (m \in received \/ m \notin recorded)

\* Heartbeats account for every minute once, whatever was left of the last one.
MinutesAreExact ==
  clock - startedAt < MaxOpen * TicksAMinute =>
    accounted * TicksAMinute + (clock - lastAccounting) = clock - startedAt
=============================================================================
