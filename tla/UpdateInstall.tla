---------------------------- MODULE UpdateInstall ----------------------------
(***************************************************************************)
(* Installing a new version: the program starts OmniStatsUpdater.exe with  *)
(* the version it was told of and its process id, and exits; the updater   *)
(* waits for that, unless somebody ran it without an id, fetches and       *)
(* verifies the signed manifest again, downloads the package, checks it,   *)
(* starts Windows Installer and ends.  The user may start the program      *)
(* meanwhile.  The server may change what it serves at any time, and       *)
(* manifest and package do not have to fit together: they, and what        *)
(* Windows Installer does with them, are external.  A second updater while *)
(* one is at work or its installer runs is left out: that bounds the model *)
(* to one update at a time.                                                *)
(*                                                                         *)
(* A version is its components, each a sequence of digits, NotADigit being *)
(* any other character.  A package is known by the version inside it,      *)
(* which the SHA-256 in the manifest and the certificate stand for.        *)
(***************************************************************************)
EXTENDS Naturals, Sequences, SequencesExt

CONSTANTS
  Versions,    \* the versions there are, as sequences of components
  MaxReleases  \* bound: how often the server changes what it serves

ASSUME UpdateInstallAssumption == Versions \subseteq Seq(Seq(Nat)) /\ MaxReleases \in Nat

NotADigit == 10

VARIABLES
  installed,     \* the version of OmniStats.exe on the disk
  manifest,      \* the version the server's manifest names, with the hash of its package
  package,       \* what the server gives out as OmniStats.msi
  releases,      \* how often it changed one of them
  offered,       \* updateAvailableVersion
  app,           \* OmniStats.exe: "running", "exiting", "ended"
  updater        \* the updater that installs, and then its installer: where it is, the version
                 \* it goes for, what it downloaded, and the process it was told to wait for:
                 \* "none", "alive" or "gone"

serverState == <<manifest, package, releases>>
installVars == <<installed, serverState, offered, app, updater>>

NoOffer == <<>>
NoUpdater == [at |-> "none", version |-> <<>>, got |-> <<>>, parent |-> "none"]

-----------------------------------------------------------------------------
\* A component without its leading zeros; one with another character in it counts as nothing.
Component(version, i) ==
  IF i > Len(version) \/ NotADigit \in ToSet(version[i]) THEN <<>>
  ELSE LET digits == version[i]
           first == {k \in DOMAIN digits : digits[k] # 0}
       IN IF first = {} THEN <<>>
          ELSE SubSeq(digits, CHOOSE k \in first : \A l \in first : k <= l, Len(digits))

FirstDifference(places) == CHOOSE k \in places : \A l \in places : k <= l

Before(a, b) ==
  LET places == {k \in 1..Len(a) : a[k] # b[k]}
  IN places # {} /\ a[FirstDifference(places)] < b[FirstDifference(places)]

DigitsLess(a, b) == IF Len(a) # Len(b) THEN Len(b) > Len(a) ELSE Before(a, b)

\* The first component that differs decides.
IsNewerVersion(current, latest) ==
  LET longest == IF Len(current) > Len(latest) THEN Len(current) ELSE Len(latest)
      differ == {i \in 1..longest : Component(current, i) # Component(latest, i)}
      first == FirstDifference(differ)
  IN differ # {} /\ DigitsLess(Component(current, first), Component(latest, first))

-----------------------------------------------------------------------------
InstallInit ==
  /\ installed \in Versions /\ manifest \in Versions /\ package = manifest /\ releases = 0
  /\ offered = NoOffer /\ app = "running" /\ updater = NoUpdater

\* The server: a new manifest (the package it names comes before or after), or another package.
NewRelease ==
  /\ releases < MaxReleases /\ releases' = releases + 1
  /\ \/ manifest' \in Versions /\ UNCHANGED package
     \/ package' \in Versions /\ UNCHANGED manifest
  /\ UNCHANGED <<installed, offered, app, updater>>

\* ReleaseManifestVerifier::VerifyManifest, for a manifest whose signature fits.
Acceptable(version) == ~IsNewerVersion(version, installed)

\* A successful check (UpdateCheck) tells the user of the version the manifest names.
LearnVersion ==
  /\ app = "running" /\ Acceptable(manifest)
  /\ offered' = IF IsNewerVersion(installed, manifest) THEN manifest ELSE NoOffer
  /\ UNCHANGED <<installed, serverState, app, updater>>

\* StartInteractiveUpdate: the updater is started and the program told to exit.
StartInteractiveUpdate ==
  /\ app = "running" /\ offered # NoOffer /\ app' = "exiting" /\ updater = NoUpdater
  /\ updater' = [at |-> "waiting", version |-> offered, got |-> <<>>, parent |-> "alive"]
  /\ UNCHANGED <<installed, serverState, offered>>

\* --apply, or a process id that cannot be read.
RunUpdaterByHand ==
  /\ updater = NoUpdater /\ updater' = [NoUpdater EXCEPT !.at = "waiting"]
  /\ UNCHANGED <<installed, serverState, offered, app>>

\* The program ends, told to or by the user; an updater it started sees that.
Exit ==
  /\ app \in {"running", "exiting"} /\ app' = "ended" /\ offered' = NoOffer
  /\ updater' = IF updater.parent = "alive" THEN [updater EXCEPT !.parent = "gone"] ELSE updater
  /\ UNCHANGED <<installed, serverState>>

UpdaterOnly == UNCHANGED <<serverState, offered>>

\* For 15 seconds; the program may take longer.
AwaitProgram ==
  updater' = IF updater.parent = "gone" THEN [updater EXCEPT !.at = "ready"] ELSE NoUpdater

WaitForExit ==
  /\ updater.at = "waiting" /\ UpdaterOnly /\ UNCHANGED <<installed, app>>
  /\ IF updater.parent # "none" THEN AwaitProgram ELSE updater' = [updater EXCEPT !.at = "ready"]

\* FetchAndVerify.
FetchManifest ==
  /\ updater.at = "ready" /\ UpdaterOnly /\ UNCHANGED <<installed, app>>
  /\ \/ /\ Acceptable(manifest)
        /\ updater' = [updater EXCEPT !.at = "fetched", !.version = manifest]
     \/ updater' = NoUpdater

\* DownloadFile deletes what it could not download.
Download ==
  /\ updater.at = "fetched" /\ UpdaterOnly /\ UNCHANGED <<installed, app>>
  /\ \/ updater' = [updater EXCEPT !.at = "downloaded", !.got = package]
     \/ updater' = NoUpdater

\* VerifyMsiPackage.
PackageFits == updater.got = updater.version

\* LaunchSilentMsiUpgrade, and the updater ends.
LaunchInstaller ==
  /\ updater.at = "downloaded" /\ UpdaterOnly /\ UNCHANGED <<installed, app>>
  /\ \/ PackageFits /\ updater' = [updater EXCEPT !.at = "installing"]
     \/ updater' = NoUpdater

\* Windows Installer, which starts the program when it is done.
Install ==
  /\ updater.at = "installing" /\ UpdaterOnly /\ updater' = NoUpdater
  /\ \/ installed' = updater.got /\ app' = "running"
     \/ UNCHANGED <<installed, app>>

\* The user starts the program, whatever the updater does.
StartProgram ==
  /\ app = "ended" /\ app' = "running"
  /\ UpdaterOnly /\ UNCHANGED <<installed, updater>>

InstallNext ==
  \/ NewRelease \/ LearnVersion \/ StartInteractiveUpdate \/ RunUpdaterByHand \/ Exit
  \/ WaitForExit \/ FetchManifest \/ Download \/ LaunchInstaller \/ Install \/ StartProgram

InstallSpec == InstallInit /\ [][InstallNext]_installVars

-----------------------------------------------------------------------------
InstallTypeOK ==
  /\ {installed, manifest, package} \subseteq Versions /\ releases \in 0..MaxReleases
  /\ offered \in Versions \cup {NoOffer} /\ app \in {"running", "exiting", "ended"}
  /\ updater.at \in {"none", "waiting", "ready", "fetched", "downloaded", "installing"}
  /\ updater.parent \in {"none", "alive", "gone"}

\* The value of a version, component by component.
Value(digits) == FoldLeft(LAMBDA n, d : 10 * n + d, 0, digits)
Older(a, b) ==
  LET differ == {i \in 1..3 : Value(Component(a, i)) # Value(Component(b, i))}
  IN differ # {} /\ Value(Component(a, FirstDifference(differ)))
                      < Value(Component(b, FirstDifference(differ)))

\* No update ever replaces the program by an older version, whatever the server serves between
\* the check, the manifest and the package.
NeverOlder == [][~Older(installed', installed)]_installVars

\* An update never replaces the files under the program that asked for it, however long that takes
\* to exit.  (It may replace them under one that was started since.)
AskerHasEnded == [][installed' # installed => updater.parent # "alive"]_installVars
=============================================================================
