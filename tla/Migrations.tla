----------------------------- MODULE Migrations -----------------------------
(***************************************************************************)
(* What a start of the program does to the database file before anything   *)
(* else uses it: DatabaseManager::Initialize with Migrations, that is the  *)
(* repair of foreign keys, the backup, the migration steps, each in a      *)
(* transaction of its own, and the correction of arena names.  A statement *)
(* or a copy may fail and the program may be killed anywhere; SQLite then  *)
(* undoes the transaction that was open.                                   *)
(***************************************************************************)
EXTENDS Integers, Sequences, FiniteSets, FiniteSetsExt, SequencesExt

CONSTANTS
  Rows,           \* the rows of tables with a foreign key, or that are referred to
  Parent,         \* the row each refers to, NoRow for none
  Nullable,       \* those whose reference may be NULL
  RepairPasses,   \* how often the repair looks again (8)
  NoRow,
  FirstVersions,  \* the versions the file may have at first
  MaxStartups     \* bound: how often the program is started

ASSUME MigrationsAssumption ==
  /\ NoRow \notin Rows /\ Parent \in [Rows -> Rows \cup {NoRow}] /\ Nullable \subseteq Rows
  /\ RepairPasses \in Nat /\ MaxStartups \in Nat

VARIABLES
  db,        \* the file, as of the last commit: user_version, the tables, the reference of each
             \* row there is, how often arena names were corrected, its flag
  tx,        \* the same inside the open transaction
  backups,   \* the copies of the file, with the reason and the version they are named after
  launch,    \* where the start is: "off", "repair", "backup", "step", "ensure", "arena", "open",
             \* "refused"; the next pass or step, and the version it began with
  launches,  \* how often the program was started
  uncopied   \* the backup before the last migration could not be made

migrationVars == <<db, tx, backups, launch, launches, uncopied>>

\* What each step creates: tables, and the column that one adds.
StepTables ==
  <<{"Matches", "MatchPlayers", "Settings"}, {"MatchPlayerStats", "MatchLocalStats"},
    {"Sessions", "Matches.session_id"}, {"ReplayUploads"},
    {"TrackedAccounts", "TrackedAccountRanks"}, {"PlayerNotes"}, {}, {"MatchEvents"},
    {"TrackedAccountRankObservations"}, {"PlayerTags"}, {"MatchAnalytics"},
    {"Seasons", "TrackedAccountRewards", "RankedSeasonObservation"}>>

\* The steps whose CREATE TABLE fails when there is such a table.
NotIfExists == {2, 3}

LatestVersion == Len(StepTables)

\* A file of a newer program is not considered.
ASSUME VersionsAssumption == FirstVersions \subseteq 0..LatestVersion

TablesAt(version) == UNION {StepTables[n] : n \in 1..version}

Off == [at |-> "off", next |-> 0, from |-> 0]

-----------------------------------------------------------------------------
\* A database of any version, which another program may have left with orphans; MatchAnalytics
\* may be missing from one of another build.
MigrationInit ==
  /\ \E version \in FirstVersions, rows \in SUBSET Rows, odd \in BOOLEAN :
       db = [version |-> version, refs |-> [r \in rows |-> Parent[r]],
               corrected |-> 0, flag |-> FALSE,
               tables |-> IF odd THEN TablesAt(version) \ {"MatchAnalytics"} ELSE TablesAt(version)]
  /\ tx = db /\ backups = {} /\ launch = Off /\ launches = 0 /\ uncopied = FALSE

Orphans(refs) == {r \in DOMAIN refs : refs[r] # NoRow /\ refs[r] \notin DOMAIN refs}

Launch ==
  /\ launch = Off /\ launches < MaxStartups /\ launches' = launches + 1
  /\ launch' = [at |-> IF Orphans(db.refs) = {} THEN "backup" ELSE "repair", next |-> 0,
                from |-> db.version]
  /\ UNCHANGED <<db, tx, backups, uncopied>>

\* The program ends or is killed: what was not committed is gone.
EndOfProgram ==
  /\ launch # Off /\ launch' = Off /\ tx' = db
  /\ UNCHANGED <<db, backups, launches, uncopied>>

Refuse == launch' = [launch EXCEPT !.at = "refused"] /\ tx' = db

-----------------------------------------------------------------------------
\* RepairForeignKeyViolations.

StopUncopied == [launch EXCEPT !.at = "refused"]

\* The copy the repair wants first.
BackupBeforeRepair ==
  /\ launch.at = "repair" /\ launch.next = 0
  /\ \/ /\ backups' = backups \cup {[why |-> "repair", version |-> 0, content |-> db]}
        /\ launch' = [launch EXCEPT !.next = 1]
     \/ launch' = StopUncopied /\ UNCHANGED backups
  /\ UNCHANGED <<db, tx, launches, uncopied>>

\* RepairForeignKeyViolation, for the violations that were listed.
RepairOrphans(refs) ==
  LET kept == DOMAIN refs \ (Orphans(refs) \ Nullable)
  IN [r \in kept |-> IF r \in Orphans(refs) THEN NoRow ELSE refs[r]]

RepairPass ==
  /\ launch.at = "repair" /\ launch.next \in 1..RepairPasses /\ Orphans(tx.refs) # {}
  /\ \/ /\ tx' = [tx EXCEPT !.refs = RepairOrphans(tx.refs)]
        /\ launch' = [launch EXCEPT !.next = @ + 1]
     \/ Refuse
  /\ UNCHANGED <<db, backups, launches, uncopied>>

NoOrphansLeft == Orphans(tx.refs) = {}

CommitRepair ==
  /\ launch.at = "repair" /\ launch.next > 0
  /\ Orphans(tx.refs) = {} \/ launch.next > RepairPasses
  /\ \/ NoOrphansLeft /\ db' = tx /\ launch' = [launch EXCEPT !.at = "backup"] /\ UNCHANGED tx
     \/ Refuse /\ UNCHANGED db
  /\ UNCHANGED <<backups, launches, uncopied>>

-----------------------------------------------------------------------------
\* Migrate.

NeedsBackup == db.tables # {} /\ db.version < LatestVersion

\* BackupDatabaseBeforeMigration: older copies go first, and a failure is only logged.
BackupBeforeMigration ==
  /\ launch.at = "backup" /\ launch' = [launch EXCEPT !.at = "step", !.next = db.version + 1]
  /\ IF NeedsBackup
     THEN \E copied \in BOOLEAN :
            /\ uncopied' = ~copied
            /\ backups' = {b \in backups : b.why # "migration"} \cup
                 IF copied THEN {[why |-> "migration", version |-> db.version, content |-> db]}
                 ELSE {}
     ELSE UNCHANGED <<backups, uncopied>>
  /\ UNCHANGED <<db, tx, launches>>

\* The statements of a step, with the version.
Stepped(n) == [db EXCEPT !.tables = @ \cup StepTables[n], !.version = n]

RunStep ==
  /\ launch.at = "step" /\ launch.next <= LatestVersion
  /\ LET n == launch.next
     IN \/ /\ n \in NotIfExists => StepTables[n] \cap db.tables = {}
           /\ db' = Stepped(n) /\ tx' = db' /\ launch' = [launch EXCEPT !.next = n + 1]
        \/ launch' = [launch EXCEPT !.at = "ensure"] /\ UNCHANGED <<db, tx>>
  /\ UNCHANGED <<backups, launches, uncopied>>

StepsDone ==
  /\ launch.at = "step" /\ launch.next > LatestVersion
  /\ launch' = [launch EXCEPT !.at = "ensure"]
  /\ UNCHANGED <<db, tx, backups, launches, uncopied>>

\* MatchAnalytics is made sure of, and without the first tables the program does not start.
EnsureTables ==
  /\ launch.at = "ensure"
  /\ \E made \in BOOLEAN :
       db' = IF made THEN [db EXCEPT !.tables = @ \cup {"MatchAnalytics"}] ELSE db
  /\ tx' = db'
  /\ launch' = [launch EXCEPT !.at = IF StepTables[1] \subseteq db.tables THEN "arena"
                                     ELSE "refused"]
  /\ UNCHANGED <<backups, launches, uncopied>>

CorrectedOnce == [db EXCEPT !.corrected = @ + 1, !.flag = TRUE]

\* RepairArenaNames: the names and the flag in one transaction, or neither.
RepairArenaNames ==
  /\ launch.at = "arena" /\ launch' = [launch EXCEPT !.at = "open"]
  /\ db' \in {db, IF ~db.flag THEN CorrectedOnce ELSE db} /\ tx' = db'
  /\ UNCHANGED <<backups, launches, uncopied>>

MigrationNext ==
  \/ Launch \/ EndOfProgram
  \/ BackupBeforeRepair \/ RepairPass \/ CommitRepair
  \/ BackupBeforeMigration \/ RunStep \/ StepsDone \/ EnsureTables \/ RepairArenaNames

MigrationSpec == MigrationInit /\ [][MigrationNext]_migrationVars

-----------------------------------------------------------------------------
MigrationTypeOK ==
  /\ db.version \in 0..LatestVersion /\ DOMAIN db.refs \subseteq Rows
  /\ launch.at \in {"off", "repair", "backup", "step", "ensure", "arena", "open", "refused"}
  /\ launches \in 0..MaxStartups /\ \A b \in backups : b.why \in {"repair", "migration"}

\* Whenever the program is killed or a step fails, the tables are those of the version the file
\* says it has, and a next launch finds none that a later step would fail on.
SchemaIsWhole ==
  db.tables \ {"MatchAnalytics"} = TablesAt(db.version) \ {"MatchAnalytics"}

\* When the program is used, every reference leads to a row, or is NULL.
ReferencesHold == launch.at \notin {"off", "repair", "refused"} => Orphans(db.refs) = {}

\* The repair takes no row but those whose own reference, followed up, leads nowhere, and each
\* reference that is left is the one it was; one that may be NULL only costs itself.
RepairIsExact ==
  [][LET old == db.refs
         new == db'.refs
     IN launch.at = "repair" /\ new # old =>
          /\ \A r \in DOMAIN old :
               r \in DOMAIN new <=> r \in Nullable \/ old[r] \in DOMAIN new \cup {NoRow}
          /\ \A r \in DOMAIN new : new[r] = IF old[r] \in DOMAIN new THEN old[r] ELSE NoRow
    ]_migrationVars

\* Nothing is repaired that was not copied first.
RepairedAfterBackup ==
  [][launch.at = "repair" /\ db' # db => \E b \in backups : b.content = db]_migrationVars

\* A migration starts from a file that was copied, unless the copy failed.
MigratedAfterBackup ==
  [][db'.version > db.version /\ launch.next = launch.from + 1 /\ db.tables # {} =>
       uncopied \/ \E b \in backups : b.content = db]_migrationVars

\* Names are corrected once: a second correction would change names that are right by now.
NamesCorrectedOnce == db.corrected <= 1
=============================================================================
