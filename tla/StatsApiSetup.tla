---------------------------- MODULE StatsApiSetup ----------------------------
(***************************************************************************)
(* Rocket League sends match data only when an ini file of its own says    *)
(* so.  The program finds and reads the file, asks whether to turn the     *)
(* Stats API on, and has its updater, a process that may have to ask       *)
(* Windows for permission, rewrite the file; a background task of the      *)
(* interface waits for that process, up to a limit.                        *)
(***************************************************************************)
EXTENDS Integers, SequencesExt

CONSTANTS
  Ports,        \* the ports the program may be set to
  NoPath,       \* an empty path
  NoFile,       \* a file that is not there
  FirstFiles,   \* what DefaultStatsAPI.ini and TAStatsAPI.ini may be at first
  SampleLength, \* bound: the lines of the files the rewriting is checked on
  MaxFileEdits,     \* bound: how often others than the program change a file
  MaxTroubles,  \* bound: how often something fails
  MaxRepairs,   \* bound: how many updaters are started
  MaxPathChecks     \* bound: how often the user goes to the settings

ASSUME SetupAssumption ==
  /\ Ports \subseteq Nat \ {0} /\ Ports # {}
  /\ {SampleLength, MaxFileEdits, MaxTroubles, MaxRepairs, MaxPathChecks} \subseteq Nat

VARIABLES
  files,       \* the two files
  copies,     \* their copies, *.omnistats.bak
  gameRuns,        \* Rocket League is running
  setup,       \* the settings: path, port, check_stats_api_config_on_startup
  outcome,      \* statsApiResult: status and path
  prompt,      \* m_statsApiPrompt
  task,        \* the background task: kind, stage, path, port, updater, repaired, verified
  completion,  \* BackgroundTaskService::m_completion: the kind of its task and the result
  updaters,    \* the updater processes: path, port, target, lines, stage, elevated, code
  rest,        \* what the files hold besides the two values
  mixed,       \* files that changed between an updater's reading and writing them
  touched,       \* a file changed since a repair was last verified
  truncated,   \* the files an updater has emptied so far
  used         \* how much of the bounds is used up

setupVars == <<files, copies, gameRuns, setup, outcome, prompt, task, completion, updaters,
               rest, mixed, touched, truncated, used>>
onDisk == <<files, copies>>
ghosts == <<rest, mixed, touched, truncated>>

Places == {"default", "ta"}

-----------------------------------------------------------------------------
\* The lines of a file, as far as the program tells them apart.

Line(k, n) == [key |-> k, value |-> n]
Exporter == Line("section", 1)
OtherSection == Line("section", 0)
BlankLine == Line("blank", 0)
Sent(n) == Line("rate", n)
PortOf(n) == Line("port", n)
Rate == 30

LOCAL Unset == -1

\* Of several values the last counts, and only in the exporter's section.
ReadExporterValues(lines) ==
  FoldLeft(LAMBDA s, l :
             IF l.key = "section" THEN [s EXCEPT !.in = l.value = 1]
             ELSE IF s.in /\ l.key \in {"rate", "port"} THEN [s EXCEPT ![l.key] = l.value] ELSE s,
           [in |-> FALSE, rate |-> Unset, port |-> Unset], lines)

\* A value that is missing is put behind the last setting of the section.
CloseSection(s, port) ==
  LET missing == (IF s.rate THEN <<>> ELSE <<Sent(Rate)>>)
                 \o (IF s.port THEN <<>> ELSE <<PortOf(port)>>)
  IN [s EXCEPT !.out = SubSeq(@, 1, s.at) \o missing \o SubSeq(@, s.at + 1, Len(@)),
               !.rate = TRUE, !.port = TRUE]

Rewritten(s, l, port) ==
  CASE l.key = "section" ->
         LET c == IF s.in THEN CloseSection(s, port) ELSE s
             out == Append(c.out, l)
         IN [c EXCEPT !.in = l.value = 1, !.out = out, !.saw = @ \/ l.value = 1,
                      !.at = IF l.value = 1 THEN Len(out) ELSE @]
    [] s.in /\ l.key \in {"rate", "port"} ->
         LET new == IF l.key = "rate" THEN Sent(Rate) ELSE PortOf(port)
             out == IF s[l.key] THEN s.out ELSE Append(s.out, new)
         IN [s EXCEPT !.out = out, ![l.key] = TRUE, !.at = Len(out)]
    [] s.in /\ l.key = "setting" -> [s EXCEPT !.out = Append(@, l), !.at = Len(s.out) + 1]
    [] OTHER -> [s EXCEPT !.out = Append(@, l)]

Trimmed(lines) ==
  SubSeq(lines, 1, CHOOSE n \in 0..Len(lines) :
                     /\ \A i \in n + 1..Len(lines) : lines[i] = BlankLine
                     /\ n > 0 => lines[n] # BlankLine)

RewriteExporterSection(lines, port) ==
  LET start == [out |-> <<>>, in |-> FALSE, saw |-> FALSE, rate |-> FALSE, port |-> FALSE,
                at |-> 0]
      read == FoldLeft(LAMBDA s, l : Rewritten(s, l, port), start, lines)
      s == IF read.in THEN CloseSection(read, port) ELSE read
      before == Trimmed(s.out)
  IN IF s.saw THEN s.out
     ELSE before \o (IF before = <<>> THEN <<>> ELSE <<BlankLine>>)
          \o <<Exporter, Sent(Rate), PortOf(port)>>

-----------------------------------------------------------------------------
\* Finding and reading the file.

EffectiveConfigPath(p) == IF p = "default" /\ files["ta"] # NoFile THEN "ta" ELSE p

\* The folders above a running game tell where the file would be, there or not.
DetectConfigPathFromRunningProcess == IF gameRuns THEN "default" ELSE NoPath

\* Else it must be where Steam, Epic, Heroic or Legendary keep the game.
DetectConfigPath ==
  IF DetectConfigPathFromRunningProcess # NoPath THEN DetectConfigPathFromRunningProcess
  ELSE IF files["default"] # NoFile THEN "default" ELSE NoPath

StatusOf(lines, port) ==
  LET v == ReadExporterValues(lines)
  IN CASE v.rate = Unset -> "MissingPacketSendRate"
       [] v.rate = 0 -> "DisabledPacketSendRate"
       [] v.rate \notin {Unset, 0, Rate} -> "WrongPacketSendRate"
       [] v.rate = Rate /\ v.port = Unset -> "MissingPort"
       [] v.rate = Rate /\ v.port \notin {Unset, port} -> "WrongPort"
       [] OTHER -> "Valid"

VerifyConfig(p, port) ==
  IF p = NoPath THEN [status |-> "NotFound", path |-> NoPath]
  ELSE LET q == EffectiveConfigPath(p)
       IN [status |-> IF files[q] = NoFile THEN "NotFound" ELSE StatusOf(files[q], port),
           path |-> q]

-----------------------------------------------------------------------------
NoTask == [kind |-> "none", stage |-> "idle", path |-> NoPath, port |-> 0, updater |-> 0,
           repaired |-> FALSE]
NoCompletion == [kind |-> "none", result |-> [status |-> "NotFound", path |-> NoPath]]

Rest(lines) == SelectSeq(lines, LAMBDA l : l.key = "setting")

OpenStatsApiFixIfNeeded(check, r) ==
  IF ~check \/ r.status = "Valid" THEN "Hidden"
  ELSE IF r.path = NoPath THEN "NotFound" ELSE "Asking"

\* The program starts, reads the file and asks, when it is not as it should be.
SetupInit ==
  /\ files \in FirstFiles
  /\ copies = [p \in Places |-> NoFile]
  /\ gameRuns \in BOOLEAN
  /\ setup \in [path : {NoPath, "default"}, port : {CHOOSE p \in Ports : TRUE}, check : BOOLEAN]
  /\ outcome = VerifyConfig(IF setup.path = NoPath THEN DetectConfigPath ELSE setup.path,
                           setup.port)
  /\ prompt = OpenStatsApiFixIfNeeded(setup.check, outcome)
  /\ task = NoTask /\ completion = NoCompletion /\ updaters = <<>>
  /\ rest = [p \in Places |-> IF files[p] = NoFile THEN <<>> ELSE Rest(files[p])]
  /\ mixed = {} /\ touched = FALSE /\ truncated = {}
  /\ used = [edits |-> 0, troubles |-> 0, checks |-> 0]

Trouble == used.troubles < MaxTroubles /\ used' = [used EXCEPT !.troubles = @ + 1]

-----------------------------------------------------------------------------
\* CheckStatsApi.

PathToCheck ==
  IF setup.path # NoPath THEN setup.path
  ELSE IF DetectConfigPath # NoPath THEN DetectConfigPath ELSE outcome.path

Check ==
  /\ outcome' = VerifyConfig(PathToCheck, setup.port)
  /\ UNCHANGED <<task>>

\* A task of another kind in its way: nothing is started, and the user is told.
TaskRuns == task.stage # "idle"

StartRepair ==
  /\ task' = [NoTask EXCEPT !.kind = "repair", !.stage = "launch", !.path = PathToCheck,
                            !.port = setup.port]
  /\ UNCHANGED outcome

\* Without a path nothing is repaired, and the caller is told that all is well.
Repair(next) ==
  \/ PathToCheck = NoPath /\ Check /\ prompt' = next
  \/ PathToCheck # NoPath /\ ~TaskRuns /\ StartRepair /\ prompt' = next
  \/ PathToCheck # NoPath /\ TaskRuns /\ UNCHANGED <<task, outcome, prompt>>

\* The buttons of the prompt.
PromptFix ==
  /\ prompt \in {"Asking", "Failed"} /\ Len(updaters) < MaxRepairs
  /\ Repair("Repairing")
  /\ UNCHANGED <<onDisk, gameRuns, setup, completion, updaters, ghosts, used>>

PromptClose ==
  /\ prompt \in {"Asking", "Repaired", "Failed", "NotFound"}
  /\ prompt' = "Hidden"
  /\ UNCHANGED <<onDisk, gameRuns, setup, outcome, task, completion, updaters, ghosts, used>>

PromptNever ==
  /\ prompt = "Asking"
  /\ prompt' = "Hidden" /\ setup' = [setup EXCEPT !.check = FALSE]
  /\ UNCHANGED <<onDisk, gameRuns, outcome, task, completion, updaters, ghosts, used>>

\* The settings lie behind the prompt: their buttons wait until it is closed.  Opening them
\* looks at the file again, the prompt being there or not.
MayCheck == used.checks < MaxPathChecks /\ used' = [used EXCEPT !.checks = @ + 1]

OpenSettings ==
  /\ MayCheck /\ Check
  /\ UNCHANGED <<onDisk, gameRuns, setup, prompt, completion, updaters, ghosts>>

SettingsFix ==
  /\ MayCheck /\ prompt = "Hidden" /\ outcome.status # "Valid" /\ outcome.path # NoPath
  /\ Len(updaters) < MaxRepairs
  /\ Repair("Hidden")
  /\ UNCHANGED <<onDisk, gameRuns, setup, completion, updaters, ghosts>>

\* The path typed or chosen must be that of a file; an empty one is taken too.
ValidateStatsApiPath(p) == p # NoPath => files[p] # NoFile

SetPath(p) ==
  /\ MayCheck /\ prompt = "Hidden" /\ p # setup.path
  /\ ValidateStatsApiPath(p)
  /\ setup' = [setup EXCEPT !.path = p]
  /\ outcome' = VerifyConfig(IF p # NoPath THEN p
                            ELSE IF DetectConfigPath # NoPath THEN DetectConfigPath ELSE outcome.path,
                            setup.port)
  /\ UNCHANGED <<onDisk, gameRuns, prompt, task, completion, updaters, ghosts>>

\* Export, merge, delete and the support bundle use the same one task.
StartOther ==
  /\ MayCheck /\ prompt = "Hidden" /\ ~TaskRuns
  /\ task' = [NoTask EXCEPT !.kind = "other", !.stage = "verify"]
  /\ UNCHANGED <<onDisk, gameRuns, setup, outcome, prompt, completion, updaters, ghosts>>

-----------------------------------------------------------------------------
\* The task of a repair.

NewUpdater == [path |-> task.path, port |-> task.port, target |-> NoPath, lines |-> <<>>,
               stage |-> "begin", elevated |-> FALSE, code |-> 0]

LaunchUpdater ==
  /\ task.stage = "launch"
  /\ \/ /\ Len(updaters) < MaxRepairs
        /\ updaters' = Append(updaters, NewUpdater)
        /\ task' = [task EXCEPT !.stage = "wait", !.updater = Len(updaters) + 1]
        /\ UNCHANGED used
     \/ /\ Trouble /\ task' = [task EXCEPT !.stage = "verify"] /\ UNCHANGED updaters
  /\ UNCHANGED <<onDisk, gameRuns, setup, outcome, prompt, completion, ghosts>>

\* It waits for the process to end, or gives up: the process goes on.
WaitForRepairProcess ==
  /\ task.stage = "wait"
  /\ \/ /\ updaters[task.updater].stage = "ended"
        /\ task' = [task EXCEPT !.stage = "verify",
                                !.repaired = updaters[task.updater].code = 0]
        /\ UNCHANGED used
     \/ /\ updaters[task.updater].stage # "ended" /\ Trouble
        /\ task' = [task EXCEPT !.stage = "verify"]
  /\ UNCHANGED <<onDisk, gameRuns, setup, outcome, prompt, completion, updaters, ghosts>>

\* What the task leaves takes the place of what the one before left.
TaskEnds ==
  /\ task.stage = "verify"
  /\ completion' = [kind |-> task.kind,
                    result |-> IF task.kind = "repair" THEN VerifyConfig(task.path, task.port)
                               ELSE NoCompletion.result]
  /\ task' = NoTask /\ touched' = IF task.kind = "repair" THEN FALSE ELSE touched
  /\ UNCHANGED <<onDisk, gameRuns, setup, outcome, prompt, updaters, rest, mixed, truncated, used>>

PublishCompletion ==
  /\ completion.kind # "none" /\ completion' = NoCompletion
  /\ IF completion.kind = "repair"
     THEN /\ outcome' = completion.result
          /\ prompt' = IF prompt # "Repairing" THEN prompt
                       ELSE IF completion.result.status = "Valid" THEN "Repaired" ELSE "Failed"
     ELSE UNCHANGED <<outcome, prompt>>
  /\ UNCHANGED <<onDisk, gameRuns, setup, task, updaters, ghosts, used>>

-----------------------------------------------------------------------------
\* The updater: FixConfigStrictHeadless, and once more with permission.

\* What comes back is 2 when there is no file, and 3, 4 or 5 when Windows is in the way.
Ended(i, code) ==
  updaters' = [updaters EXCEPT ![i] =
    IF code \in {3, 4, 5} /\ ~@.elevated THEN [@ EXCEPT !.stage = "permission"]
    ELSE [@ EXCEPT !.stage = "ended", !.code = code]]

BackUp(i) ==
  LET q == EffectiveConfigPath(updaters[i].path)
  IN /\ updaters[i].stage = "begin"
     /\ \/ files[q] = NoFile /\ Ended(i, 2) /\ UNCHANGED <<copies, used>>
        \/ files[q] # NoFile /\ copies[q] = NoFile /\ Trouble /\ Ended(i, 3) /\ UNCHANGED copies
        \/ /\ files[q] # NoFile
           /\ copies' = [copies EXCEPT ![q] = IF @ = NoFile THEN files[q] ELSE @]
           /\ updaters' = [updaters EXCEPT ![i].target = q, ![i].stage = "read"]
           /\ UNCHANGED used
     /\ UNCHANGED <<files, gameRuns, setup, outcome, prompt, task, completion, ghosts>>

Emptied(q) == \E j \in DOMAIN updaters : updaters[j].stage = "write" /\ updaters[j].target = q

ReadFile(i) ==
  LET q == updaters[i].target
  IN /\ updaters[i].stage = "read"
     /\ \/ /\ files[q] = NoFile /\ Ended(i, 4) /\ UNCHANGED mixed
        \/ /\ files[q] # NoFile
           /\ updaters' = [updaters EXCEPT ![i].lines = files[q], ![i].stage = "truncate"]
           /\ mixed' = IF Emptied(q) THEN mixed \cup {q} ELSE mixed
     /\ UNCHANGED <<onDisk, gameRuns, setup, outcome, prompt, task, completion, rest, touched,
                    truncated, used>>

\* Opening the file to write empties it.
Truncate(i) ==
  LET q == updaters[i].target
  IN /\ updaters[i].stage = "truncate"
     /\ \/ /\ Trouble /\ Ended(i, 5) /\ UNCHANGED <<files, mixed, touched, truncated>>
        \/ /\ files' = [files EXCEPT ![q] = <<>>] /\ touched' = TRUE
           /\ truncated' = truncated \cup {q}
           /\ updaters' = [updaters EXCEPT ![i].stage = "write"]
           /\ mixed' = IF files[q] # updaters[i].lines THEN mixed \cup {q} ELSE mixed
           /\ UNCHANGED used
     /\ UNCHANGED <<copies, gameRuns, setup, outcome, prompt, task, completion, rest>>

\* A disk that is full keeps what could be written: less than the whole.
WriteFile(i) ==
  LET q == updaters[i].target
      new == RewriteExporterSection(updaters[i].lines, updaters[i].port)
  IN /\ updaters[i].stage = "write" /\ touched' = TRUE
     /\ \/ files' = [files EXCEPT ![q] = new] /\ Ended(i, 0) /\ UNCHANGED <<mixed, used>>
        \/ /\ Trouble /\ Ended(i, 5)
           /\ files' = [files EXCEPT ![q] = SubSeq(new, 1, Len(new) \div 2)]
           /\ mixed' = mixed \cup {q}
     /\ UNCHANGED <<copies, gameRuns, setup, outcome, prompt, task, completion, rest, truncated>>

\* Windows asks the user.
Permission(i) ==
  /\ updaters[i].stage = "permission"
  /\ \/ /\ updaters' = [updaters EXCEPT ![i].stage = "begin", ![i].elevated = TRUE]
        /\ UNCHANGED used
     \/ /\ Trouble
        /\ updaters' = [updaters EXCEPT ![i].stage = "ended", ![i].code = 5]
  /\ UNCHANGED <<onDisk, gameRuns, setup, outcome, prompt, task, completion, ghosts>>

-----------------------------------------------------------------------------
\* The game, Steam and the user with an editor.

GameRuns ==
  /\ gameRuns' = ~gameRuns /\ used.edits < MaxFileEdits /\ used' = [used EXCEPT !.edits = @ + 1]
  /\ UNCHANGED <<onDisk, setup, outcome, prompt, task, completion, updaters, ghosts>>

Edited(p, f) ==
  /\ used.edits < MaxFileEdits /\ used' = [used EXCEPT !.edits = @ + 1]
  /\ f # files[p] /\ files' = [files EXCEPT ![p] = f] /\ touched' = TRUE
  /\ rest' = [rest EXCEPT ![p] = IF f = NoFile THEN <<>> ELSE Rest(f)]
  /\ mixed' = IF Emptied(p) THEN mixed \cup {p} ELSE mixed \ {p}
  /\ UNCHANGED <<copies, gameRuns, setup, outcome, prompt, task, completion, updaters, truncated>>

SetupNext ==
  \/ PromptFix \/ PromptClose \/ PromptNever \/ OpenSettings \/ SettingsFix \/ StartOther
  \/ \E p \in Places \cup {NoPath} : SetPath(p)
  \/ LaunchUpdater \/ WaitForRepairProcess \/ TaskEnds \/ PublishCompletion
  \/ \E i \in DOMAIN updaters :
       BackUp(i) \/ ReadFile(i) \/ Truncate(i) \/ WriteFile(i) \/ Permission(i)
  \/ GameRuns
  \/ \E p \in Places : \E f \in {g[p] : g \in FirstFiles} : Edited(p, f)

-----------------------------------------------------------------------------
\* Every variable has the values the code gives it.
SetupTypeOK ==
  /\ DOMAIN files = Places /\ DOMAIN copies = Places
  /\ prompt \in {"Hidden", "Asking", "Repairing", "Repaired", "Failed", "NotFound"}
  /\ task.kind \in {"none", "repair", "other"}
  /\ task.stage \in {"idle", "launch", "wait", "verify"}
  /\ outcome.path \in Places \cup {NoPath} /\ setup.port \in Ports
  /\ \A i \in DOMAIN updaters :
       /\ updaters[i].stage \in {"begin", "read", "truncate", "write", "permission", "ended"}
       /\ updaters[i].code \in {0, 2, 3, 4, 5}

\* RewriteExporterSection on every short file: the file then says what the program needs, and
\* says it once, every other line is where it was, a file without the section gets it at its
\* end, and doing it again changes nothing.  No variable matters: it is looked at at the start.
RewriteIsRight == SetupInit =>
  LET lines == {Exporter, OtherSection, Sent(0), PortOf(0), Line("setting", 0), Line("blank", 0),
                Line("comment", 0)}
      port == CHOOSE p \in Ports : TRUE
      InExporter(f, i) ==
        \E j \in 1..i : f[j] = Exporter /\ \A k \in j + 1..i : f[k].key # "section"
      Kept(f) == LET wanted == {i \in DOMAIN f : ~(f[i].key \in {"rate", "port"} /\ InExporter(f, i))}
                     order == SetToSortSeq(wanted, <)
                 IN [n \in DOMAIN order |-> f[order[n]]]
  IN \A n \in 0..SampleLength : \A f \in [1..n -> lines] :
       LET g == RewriteExporterSection(f, port)
       IN /\ StatusOf(g, port) = "Valid"
          /\ \A k \in {"rate", "port"} :
               Cardinality({i \in DOMAIN g : g[i].key = k /\ InExporter(g, i)}) = 1
          /\ RewriteExporterSection(g, port) = g
          /\ IF Exporter \in Range(f) THEN Kept(g) = Kept(f)
             ELSE IsPrefix(Trimmed(f), g) /\ Len(g) <= Len(Trimmed(f)) + 4

\* While the prompt says that the repair is under way, which it does without a button, the repair
\* is, or its result is about to be shown.
RepairIsUnderWay ==
  prompt = "Repairing" => "repair" \in {task.kind, completion.kind}

\* When the prompt says that it was repaired, the file the game reads is as it should be, unless
\* it changed since it was verified.
RepairedIsTrue ==
  prompt = "Repaired" /\ ~touched =>
    LET read == files[IF files["ta"] # NoFile THEN "ta" ELSE "default"]
    IN read # NoFile /\ StatusOf(read, setup.port) = "Valid"

\* Whatever else a file says stays there, unless it changed between an updater's reading and
\* writing it, or the writing was cut off.
RestIsKept ==
  \A p \in Places :
    files[p] # NoFile /\ ~Emptied(p) /\ p \notin mixed => Rest(files[p]) = rest[p]

\* A file the updater emptied has a copy.
NeverWithoutBackup == \A p \in truncated : copies[p] # NoFile

\* The copy is the file as it was before the program first touched it: no later repair
\* replaces it.
BackupIsKept == \A p \in Places : copies[p] # NoFile => copies'[p] = copies[p]
BackupsAreKept == [][BackupIsKept]_setupVars
=============================================================================
