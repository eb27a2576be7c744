----------------------------- MODULE ConfigStore -----------------------------
(***************************************************************************)
(* The settings: Config, which keeps them in memory and in config.json,    *)
(* its saver thread, which writes them half a second after a change, and   *)
(* SecretStore, which encrypts the credentials among them for the user     *)
(* that is logged on (DPAPI) and keeps what it cannot decrypt.             *)
(*                                                                         *)
(* One ordinary setting and one credential stand for all.  Every write of  *)
(* the file goes through a temporary file.  It may fail, leaving the old   *)
(* one, or be cut off by a full disk, which nobody notices, and the        *)
(* program may be killed at any moment.                                    *)
(***************************************************************************)
EXTENDS Naturals

CONSTANTS
  Credentials,   \* values of the credential
  NoCredential,  \* none is set
  MaxUpdates,    \* bound: changes of a setting or of the credential
  MaxLaunches,   \* bound: launches of the program
  MaxFailures    \* bound: writes that fail

ASSUME ConfigStoreAssumption ==
  /\ NoCredential \notin Credentials
  /\ MaxUpdates \in Nat /\ MaxLaunches \in Nat /\ MaxFailures \in Nat

VARIABLES
  file,      \* config.json
  inMemory,  \* Current: the setting and the credential
  cipher,    \* m_savedCiphertexts: the credential as it was read or written last
  known,     \* m_encryptedPlaintexts: what that ciphertext is known to be of
  dpapi,     \* this session can encrypt, and decrypt what was encrypted for the user
  running,   \* the program: "off" (never started, or killed), "on", "stopping" or "ended"
  saver,     \* the saver thread: "waiting", "delaying", "writing" or "over"
  pending,   \* s_pendingSave
  behind,    \* the file is not what is in memory
  failed,    \* the last write failed
  configUpdates, configLaunches, writeFailures

configVars == <<file, inMemory, cipher, known, dpapi, running, saver, pending, behind, failed,
                configUpdates, configLaunches, writeFailures>>

\* A credential on disk: encrypted for the user, for the machine (older releases), or in the clear.
Cell(form, c) == [form |-> form, of |-> c]
Blank == Cell("blank", NoCredential)
Cells == {Blank} \cup {Cell(form, c) : form \in {"user", "machine", "plain"}, c \in Credentials}

File(setting, cell) == [state |-> "whole", setting |-> setting, cell |-> cell]
NoConfigFile == [state |-> "missing", setting |-> 0, cell |-> Blank]
Unreadable == [state |-> "corrupt", setting |-> 0, cell |-> Blank]

Defaults == [setting |-> 0, credential |-> NoCredential]

-----------------------------------------------------------------------------
\* SaveSecretField: the ciphertext is still right, or of a credential that could not be decrypted.
KeepsCipher(credential, c, k) ==
  c # Blank /\ k = credential

\* What is written when the credential cannot be encrypted.
Unencrypted(credential, c) == c

\* SaveSecretField: the ciphertext that is written, and then what it is known to be of.
Ciphertext(credential, c, k) ==
  IF KeepsCipher(credential, c, k) THEN c
  ELSE IF credential = NoCredential THEN Blank
  ELSE IF dpapi' THEN Cell("user", credential) ELSE Unencrypted(credential, c)

KnownAs(credential, c, k) ==
  IF KeepsCipher(credential, c, k) \/ ~dpapi' THEN k ELSE credential

\* SaveInternal, with m = the settings in memory and the secret store's c and k.
SaveInternal(m, c, k) ==
  LET text == Ciphertext(m.credential, c, k) IN
  /\ cipher' = IF m.credential # NoCredential /\ ~dpapi' THEN c ELSE text
  /\ known' = KnownAs(m.credential, c, k)
  /\ \/ /\ file' = File(m.setting, text) /\ behind' = FALSE /\ failed' = FALSE
        /\ UNCHANGED writeFailures
     \/ /\ writeFailures < MaxFailures /\ writeFailures' = writeFailures + 1
        /\ failed' = TRUE /\ UNCHANGED behind
        /\ file' \in {IF file.state = "corrupt" THEN NoConfigFile ELSE file, Unreadable}

-----------------------------------------------------------------------------
ConfigInit ==
  /\ file \in {NoConfigFile, Unreadable} \cup {File(0, cell) : cell \in Cells}
  /\ inMemory = Defaults /\ cipher = Blank /\ known = NoCredential /\ dpapi = TRUE
  /\ running = "off" /\ saver = "over" /\ pending = FALSE /\ behind = FALSE /\ failed = FALSE
  /\ configUpdates = 0 /\ configLaunches = 0 /\ writeFailures = 0

\* LoadSecretField.
Decrypted(cell) ==
  IF cell.form = "user" /\ ~dpapi' THEN NoCredential ELSE cell.of

CipherOf(cell) == IF cell.form = "plain" THEN Blank ELSE cell
KnownOf(cell) == IF cell.form = "user" /\ dpapi' THEN cell.of ELSE NoCredential

\* Load of a file that is missing or cannot be parsed: the defaults, which are saved at once.
LoadDefaults ==
  /\ file.state # "whole" /\ inMemory' = Defaults /\ pending' = FALSE
  /\ SaveInternal(Defaults, Blank, NoCredential)

\* Load; credentials of older releases are encrypted anew and saved when that works.
LoadFile ==
  LET m == [setting |-> file.setting, credential |-> Decrypted(file.cell)]
      legacy == file.cell.form \in {"machine", "plain"}
  IN /\ file.state = "whole" /\ inMemory' = m
     /\ pending' \in BOOLEAN  \* fields of older releases are brought up to date
     /\ IF legacy /\ dpapi'
        THEN SaveInternal(m, Cell("user", m.credential), m.credential)
        ELSE /\ cipher' = CipherOf(file.cell) /\ known' = KnownOf(file.cell)
             /\ behind' = FALSE /\ failed' = FALSE /\ UNCHANGED <<file, writeFailures>>

\* Config::Load and InitSaver.
LaunchWithConfig ==
  /\ running \in {"off", "ended"} /\ configLaunches < MaxLaunches
  /\ configLaunches' = configLaunches + 1 /\ dpapi' \in BOOLEAN
  /\ LoadDefaults \/ LoadFile
  /\ running' = "on" /\ saver' = "waiting" /\ UNCHANGED configUpdates

\* Config::Update, which marks a save as pending.
UpdateConfig ==
  /\ running = "on" /\ configUpdates < MaxUpdates /\ configUpdates' = configUpdates + 1
  /\ \/ inMemory' = [inMemory EXCEPT !.setting = configUpdates']
     \/ \E c \in Credentials \cup {NoCredential} : inMemory' = [inMemory EXCEPT !.credential = c]
  /\ pending' = TRUE /\ behind' = (behind \/ inMemory' # inMemory)
  /\ UNCHANGED <<file, cipher, known, dpapi, running, saver, failed, configLaunches,
                 writeFailures>>

\* Config::Save, which TokenStore and the onboarding call after an update.
SaveNow ==
  /\ running = "on" /\ behind /\ UNCHANGED dpapi
  /\ SaveInternal(inMemory, cipher, known)
  /\ UNCHANGED <<inMemory, running, saver, pending, configUpdates, configLaunches>>

-----------------------------------------------------------------------------
WakeSaver ==
  /\ saver = "waiting" /\ (pending \/ running # "on")
  /\ saver' = IF running # "on" THEN "over" ELSE "delaying"
  /\ UNCHANGED <<file, inMemory, cipher, known, dpapi, running, pending, behind, failed,
                 configUpdates, configLaunches, writeFailures>>

\* Half a second later, or when the program stops: s_pendingSave.exchange(false).
TakePending ==
  /\ saver = "delaying"
  /\ saver' = IF pending THEN "writing" ELSE "waiting"
  /\ pending' = FALSE
  /\ UNCHANGED <<file, inMemory, cipher, known, dpapi, running, behind, failed, configUpdates,
                 configLaunches, writeFailures>>

SaverWrites ==
  /\ saver = "writing" /\ saver' = "wrote" /\ UNCHANGED dpapi
  /\ SaveInternal(inMemory, cipher, known)
  /\ UNCHANGED <<inMemory, running, pending, configUpdates, configLaunches>>

\* What was updated since the mark was taken is still pending.
MarkAfterWrite == pending

SaverGoesOn ==
  /\ saver = "wrote" /\ saver' = IF running = "on" THEN "waiting" ELSE "over"
  /\ pending' = MarkAfterWrite
  /\ UNCHANGED <<file, inMemory, cipher, known, dpapi, running, behind, failed, configUpdates,
                 configLaunches, writeFailures>>

\* ShutdownSaver: the thread is stopped and joined, ...
ShutdownSaver ==
  /\ running = "on" /\ running' = "stopping"
  /\ UNCHANGED <<file, inMemory, cipher, known, dpapi, saver, pending, behind, failed,
                 configUpdates, configLaunches, writeFailures>>

\* ... and what is pending then is saved.
SaverJoined ==
  /\ running = "stopping" /\ saver = "over" /\ running' = "ended" /\ pending' = FALSE
  /\ UNCHANGED <<inMemory, dpapi, saver, configUpdates, configLaunches>>
  /\ IF pending THEN SaveInternal(inMemory, cipher, known)
     ELSE UNCHANGED <<file, cipher, known, behind, failed, writeFailures>>

\* The program is killed.
Killed ==
  /\ running \in {"on", "stopping"} /\ running' = "off" /\ saver' = "over"
  /\ inMemory' = Defaults /\ cipher' = Blank /\ known' = NoCredential
  /\ pending' = FALSE /\ behind' = FALSE /\ failed' = FALSE
  /\ UNCHANGED <<file, dpapi, configUpdates, configLaunches, writeFailures>>

SaverThread == WakeSaver \/ TakePending \/ SaverWrites \/ SaverGoesOn

ConfigNext ==
  \/ LaunchWithConfig \/ UpdateConfig \/ SaveNow \/ SaverThread
  \/ ShutdownSaver \/ SaverJoined \/ Killed

\* The saver thread runs, and a shutdown that waits for it goes on.
ConfigSpec ==
  ConfigInit /\ [][ConfigNext]_configVars
  /\ WF_configVars(SaverThread) /\ WF_configVars(SaverJoined)

-----------------------------------------------------------------------------
ConfigTypeOK ==
  /\ file.state \in {"whole", "missing", "corrupt"} /\ file.cell \in Cells
  /\ file.setting \in 0..MaxUpdates /\ inMemory.setting \in 0..MaxUpdates
  /\ inMemory.credential \in Credentials \cup {NoCredential} /\ cipher \in Cells
  /\ known \in Credentials \cup {NoCredential} /\ dpapi \in BOOLEAN
  /\ running \in {"off", "on", "stopping", "ended"}
  /\ saver \in {"waiting", "delaying", "writing", "wrote", "over"}
  /\ {pending, behind, failed} \subseteq BOOLEAN
  /\ configUpdates \in 0..MaxUpdates /\ configLaunches \in 0..MaxLaunches
  /\ writeFailures \in 0..MaxFailures

\* A session that can encrypt has on disk the credential that is set, and none once it is cleared.
CredentialIsOnDisk ==
  running \in {"on", "ended"} /\ dpapi /\ ~behind /\ ~failed =>
    file.cell = IF inMemory.credential = NoCredential THEN Blank
                ELSE Cell("user", inMemory.credential)

\* No write puts a credential on disk in the clear.
NeverInTheClear == [][file'.cell.form = "plain" => file' = file]_configVars

\* A ciphertext that a session cannot replace by one of its own outlives the session, unless a
\* full disk cuts the whole file off.
CiphertextIsKept ==
  [][file.cell.form \in {"user", "machine"} /\ ~dpapi' =>
       file'.cell = file.cell \/ file'.state = "corrupt"]_configVars

\* A change reaches the disk, during the session or when it ends, unless the write itself fails.
UpdatesReachDisk == behind ~> (~behind \/ failed \/ running = "off")
=============================================================================
