------------------------------- MODULE FirstRun -------------------------------
(***************************************************************************)
(* The start of the program: the window of the first run, which collects   *)
(* the consent to the terms; the services that wait for it; the question   *)
(* put once to users who have no account yet; and the settings these       *)
(* decisions are kept in, which are written to disk a while later and may  *)
(* be lost by a crash.                                                     *)
(***************************************************************************)
EXTENDS Integers

CONSTANTS
  FirstSettings,  \* what the settings may say at first
  OmniNetAvailable,      \* OmniNet is available: the wizard has a page for the account
  MaxLaunched,        \* bound: how often the program is started again
  MaxTaken       \* bound: what the user does in the settings and with the account

ASSUME FirstRunAssumption ==
  /\ FirstSettings \subseteq [consent : BOOLEAN, done : BOOLEAN, asked : BOOLEAN,
                              token : BOOLEAN, key : BOOLEAN]
  /\ OmniNetAvailable \in BOOLEAN /\ {MaxLaunched, MaxTaken} \subseteq Nat

VARIABLES
  prefs,     \* the settings: HasCurrentConsent, onboarding_completed, account_link_prompt_shown,
            \* whether there is a refresh token and an API key of old
  written,    \* those on disk
  unseen,   \* the render loop has yet to see the latest settings
  mine,    \* the interface's copy, m_config
  run,      \* the program is up; m_consentHandler is set; how often the services were started
  account,  \* the state of the account, and whether the interface has yet to see it
  wizard,   \* the window: visible, step, the link shown in place of the browser
  waiting,  \* m_accountPromptPending
  menu,     \* the settings are open
  asks,   \* how often the question opened them
  excused,  \* how often a crash or a half-seen change made it forgotten
  unsaved,  \* the consent could not be written
  budgets      \* how much of the bounds is used up

firstRunVars ==
  <<prefs, written, unseen, mine, run, account, wizard, waiting, menu, asks, excused, unsaved, budgets>>

StepCount == IF OmniNetAvailable THEN 5 ELSE 4
Hidden == [visible |-> FALSE, step |-> 0, fallback |-> FALSE]

-----------------------------------------------------------------------------
\* SyncFromConfig, as far as the interface sees it.
Synced(c, state) ==
  IF c.token THEN "in" ELSE IF c.key /\ state # "error" THEN "migrating"
  ELSE IF state = "in" THEN "out" ELSE state

SetStep(n) == IF n < 0 THEN 0 ELSE IF n >= StepCount THEN StepCount - 1 ELSE n

\* CheckAccountLinkPrompt, by the settings m the interface knows: it may have to wait, or open
\* the settings and remember it.
WaitsForMigration(m, state) == m.done /\ ~m.asked /\ state = "migrating"
AsksNow(m, state) == m.done /\ ~m.asked /\ state \notin {"migrating", "in"} /\ ~m.token

CheckAccountLinkPrompt(m, state, c) ==
  /\ waiting' = WaitsForMigration(m, state)
  /\ IF AsksNow(m, state)
     THEN /\ menu' = TRUE /\ prefs' = [c EXCEPT !.asked = TRUE] /\ unseen' = TRUE
          /\ asks' = IF menu THEN asks ELSE asks + 1
     ELSE menu' = menu /\ prefs' = c /\ UNCHANGED asks

\* What the wizard shows of the account is looked up anew.
RefreshOnboarding(w, state) == [w EXCEPT !.fallback = @ /\ state = "awaiting"]

-----------------------------------------------------------------------------
FirstRunInit ==
  /\ prefs \in FirstSettings /\ written = prefs /\ mine = prefs /\ unseen = FALSE
  /\ run = [up |-> FALSE, armed |-> FALSE, started |-> 0]
  /\ account = [state |-> "out", new |-> FALSE]
  /\ wizard = Hidden /\ waiting = FALSE /\ menu = FALSE
  /\ asks = 0 /\ excused = 0 /\ unsaved = FALSE /\ budgets = [runs |-> 0, clicks |-> 0]

\* The account client reads the settings when it is made, whether or not there is a consent.
LaunchProgram ==
  LET state == Synced(prefs, "out")
  IN /\ ~run.up
     /\ run' = [up |-> TRUE, armed |-> ~prefs.consent, started |-> IF prefs.consent THEN 1 ELSE 0]
     /\ account' = [state |-> state, new |-> FALSE]
     /\ IF ~prefs.done \/ ~prefs.consent
        THEN /\ wizard' = [Hidden EXCEPT !.visible = TRUE] /\ mine' = prefs
             /\ UNCHANGED <<prefs, unseen, waiting, menu, asks>>
        ELSE /\ CheckAccountLinkPrompt(prefs, state, prefs)
             /\ unseen' = AsksNow(prefs, state)
             /\ mine' = prefs' /\ UNCHANGED wizard
     /\ UNCHANGED <<written, excused, unsaved, budgets>>

\* A frame sees that the settings changed: the services start if they waited for the consent, and
\* the interface, unless it is hidden, asks by the copy it has and then replaces that copy by
\* what the frame read, which is older than an answer just given.
Frame ==
  LET starts == run.armed /\ prefs.consent
      state == IF starts THEN Synced(prefs, account.state) ELSE account.state
  IN /\ run.up /\ unseen
     /\ run' = IF starts THEN [run EXCEPT !.armed = FALSE, !.started = @ + 1] ELSE run
     /\ IF mine.asked THEN /\ unseen' = FALSE /\ UNCHANGED <<prefs, waiting, menu, asks>>
        ELSE /\ CheckAccountLinkPrompt(mine, state, prefs) /\ unseen' = AsksNow(mine, state)
     /\ mine' = prefs
     /\ account' = [state |-> state, new |-> account.new \/ state # account.state]
     /\ UNCHANGED <<written, wizard, excused, unsaved, budgets>>

\* A frame sees that the account's state changed, or has a question waiting.
StatusFrame ==
  /\ run.up /\ ~unseen /\ (account.new \/ waiting)
  /\ account' = [account EXCEPT !.new = FALSE]
  /\ wizard' = IF wizard.visible /\ account.new THEN RefreshOnboarding(wizard, account.state)
               ELSE wizard
  /\ IF waiting
     THEN /\ CheckAccountLinkPrompt(mine, account.state, prefs)
          /\ unseen' = AsksNow(mine, account.state) /\ mine' = prefs'
     ELSE UNCHANGED <<prefs, unseen, mine, waiting, menu, asks>>
  /\ UNCHANGED <<written, run, excused, unsaved, budgets>>

-----------------------------------------------------------------------------
\* The wizard's buttons.

\* Update and Save: the consent is on disk before anything else happens, if the disk takes it.
AcceptTerms ==
  LET c == [prefs EXCEPT !.consent = TRUE]
  IN /\ run.up /\ wizard.visible /\ ~mine.consent
     /\ \/ written' = c /\ UNCHANGED unsaved
        \/ unsaved' = TRUE /\ UNCHANGED written
     /\ IF c.done
        THEN /\ wizard' = Hidden
             /\ CheckAccountLinkPrompt(c, account.state, c) /\ mine' = prefs'
        ELSE /\ wizard' = RefreshOnboarding([wizard EXCEPT !.step = 0], account.state)
             /\ prefs' = c /\ mine' = c /\ UNCHANGED <<waiting, menu, asks>>
     /\ unseen' = TRUE
     /\ UNCHANGED <<run, account, excused, budgets>>

\* Next and Back; on the page of the account, Next only as Set up later or Continue.
Turn(by) ==
  /\ run.up /\ wizard.visible /\ mine.consent
  /\ IF by > 0 THEN wizard.step < StepCount - 1 ELSE wizard.step > 0
  /\ by > 0 /\ OmniNetAvailable /\ wizard.step = 2 => account.state \notin {"awaiting", "migrating"}
  /\ LET n == SetStep(wizard.step + by)
     IN wizard' = RefreshOnboarding([wizard EXCEPT !.step = n,
                                       !.fallback = @ /\ n = wizard.step], account.state)
  /\ UNCHANGED <<prefs, written, unseen, mine, run, account, waiting, menu, asks, excused,
                 unsaved, budgets>>

\* Finish on the last page, Skip setup on each.
FinishOnboarding ==
  /\ run.up /\ wizard.visible /\ prefs.consent
  /\ prefs' = [prefs EXCEPT !.done = TRUE, !.asked = TRUE] /\ unseen' = TRUE
  /\ mine' = prefs' /\ wizard' = Hidden
  /\ UNCHANGED <<written, run, account, waiting, menu, asks, excused, unsaved, budgets>>

Clicks == run.up /\ budgets.clicks < MaxTaken /\ budgets' = [budgets EXCEPT !.clicks = @ + 1]

\* The link instead of the browser, on the card that waits for the approval.
ToggleFallback ==
  /\ Clicks /\ account.state = "awaiting" /\ wizard.visible
  /\ wizard' = RefreshOnboarding([wizard EXCEPT !.fallback = ~@], account.state)
  /\ UNCHANGED <<prefs, written, unseen, mine, run, account, waiting, menu, asks, excused, unsaved>>

\* The settings are opened and closed with a key; closed at once, before the interface knows that
\* the question was put, they may be opened by it once more.
ToggleMenu ==
  /\ Clicks /\ menu' = ~menu
  /\ excused' = IF menu /\ (unseen \/ ~mine.asked) /\ prefs.asked THEN excused + 1 ELSE excused
  /\ UNCHANGED <<prefs, written, unseen, mine, run, account, wizard, waiting, asks, unsaved>>

-----------------------------------------------------------------------------
\* The account, signed in and out in the wizard or in the settings.

Becomes(state, c) ==
  /\ account' = [state |-> state, new |-> TRUE] /\ prefs' = c /\ unseen' = (unseen \/ c # prefs)
  /\ UNCHANGED <<written, mine, run, wizard, waiting, menu, asks, excused, unsaved>>

SignIn ==
  /\ Clicks /\ account.state \in {"out", "error"} /\ (menu \/ (wizard.visible /\ mine.consent))
  /\ Becomes("awaiting", prefs)

CancelSignIn == Clicks /\ account.state = "awaiting" /\ Becomes("out", prefs)
SignOut == Clicks /\ account.state = "in" /\ Becomes("out", [prefs EXCEPT !.token = FALSE])

\* The server's answers.
Answered ==
  /\ run.up /\ UNCHANGED budgets
  /\ \/ /\ account.state \in {"awaiting", "migrating"}
        /\ Becomes("in", [prefs EXCEPT !.token = TRUE, !.key = FALSE])
     \/ account.state = "migrating" /\ Becomes("error", prefs)

-----------------------------------------------------------------------------
\* The saver's thread.
SaveLater ==
  /\ run.up /\ written # prefs /\ written' = prefs /\ unsaved' = FALSE
  /\ UNCHANGED <<prefs, unseen, mine, run, account, wizard, waiting, menu, asks, excused, budgets>>

\* The program ends; what a crash did not let the saver write is gone.  The next one may ask for
\* consent to newer terms.
Down(c) ==
  /\ run.up /\ budgets.runs < MaxLaunched /\ budgets' = [budgets EXCEPT !.runs = @ + 1]
  /\ \E consent \in {c.consent, FALSE} : prefs' = [c EXCEPT !.consent = consent]
  /\ written' = prefs' /\ mine' = prefs' /\ unseen' = FALSE
  /\ run' = [up |-> FALSE, armed |-> FALSE, started |-> 0]
  /\ account' = [state |-> "out", new |-> FALSE] /\ wizard' = Hidden
  /\ waiting' = FALSE /\ menu' = FALSE /\ unsaved' = FALSE /\ UNCHANGED asks

Quit == Down(prefs) /\ UNCHANGED excused
Crash ==
  /\ Down(written) /\ excused' = IF prefs.asked /\ ~written.asked THEN excused + 1 ELSE excused

FirstRunNext ==
  \/ LaunchProgram \/ Frame \/ StatusFrame \/ AcceptTerms \/ Turn(1) \/ Turn(-1) \/ FinishOnboarding
  \/ ToggleFallback \/ ToggleMenu \/ SignIn \/ CancelSignIn \/ SignOut \/ Answered
  \/ SaveLater \/ Quit \/ Crash

-----------------------------------------------------------------------------
\* Every variable has the values the code gives it.
FirstRunTypeOK ==
  /\ account.state \in {"out", "awaiting", "migrating", "in", "error"}
  /\ wizard.step \in 0..StepCount - 1
  /\ {wizard.visible, wizard.fallback, waiting, menu, unseen, unsaved} \subseteq BOOLEAN
  /\ run.started \in Nat /\ asks \in Nat /\ excused \in Nat

\* The services start once, when there is a consent, and by one that a crash does not take back
\* unless the disk refused it; and they start at the latest in the frame that sees the consent.
ServicesFollowConsent ==
  /\ run.started <= 1
  /\ run.started = 1 => prefs.consent /\ (written.consent \/ unsaved)
  /\ run.up /\ prefs.consent /\ ~unseen => run.started = 1

\* The wizard is there exactly until it is finished and the terms are accepted, and until they
\* are it shows nothing else.
WizardStands ==
  /\ run.up => (wizard.visible <=> ~(prefs.consent /\ prefs.done))
  /\ run.up /\ ~prefs.consent => wizard.step = 0

\* The account's question opens the settings once in all, except after a crash that made the
\* program forget it, or when the settings are closed within the frame that opened them.
AskedOnce == asks <= 1 + excused

\* The question is put off only as long as the account is being moved.
PutOffForMigration == waiting /\ ~account.new => account.state = "migrating"

\* The wizard's link is shown only while an approval is awaited.
FallbackWhileAwaiting ==
  wizard.visible /\ wizard.fallback /\ ~account.new => account.state = "awaiting"
=============================================================================
