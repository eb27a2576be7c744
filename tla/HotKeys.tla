------------------------------- MODULE HotKeys -------------------------------
(***************************************************************************)
(* The keyboard thread of InputManager: the hotkeys it keeps registered    *)
(* with Windows, the actions they stand for, and the capture of a new      *)
(* binding in the settings.  While a hotkey is registered nobody else sees *)
(* its key, the game included.  Windows' part (a key belongs to one hotkey *)
(* at most, a press of it is posted to the thread) is external.            *)
(***************************************************************************)
EXTENDS Naturals, Sequences

CONSTANTS
  KeyCodes,    \* the keys that may be bound
  DefaultKey,  \* the configuration's default: the key of each hotkey
  MaxRebinds,  \* bound: how many bindings are changed
  MaxPresses   \* bound: how many presses wait in the thread's queue

\* Two hotkeys that are always registered, and the panning one.
HotKeyIds == <<"session", "expand", "pan">>
Ids == {"session", "expand", "pan"}
Unbound == "none"

ASSUME HotKeysAssumption ==
  /\ Unbound \notin KeyCodes /\ DefaultKey \in [Ids -> KeyCodes]
  /\ MaxRebinds \in Nat /\ MaxPresses \in Nat

VARIABLES
  bound,       \* the configuration: the key of each hotkey
  cached,      \* what RefreshConfigCache last copied of it
  registered,  \* registeredSessionKey and so on
  presses,     \* the WM_HOTKEY messages waiting: the hotkey, and the capture it was pressed in
  overlay,     \* showSessionView, showGraphView, showLifetimeGraph
  capture,     \* inputCaptureActive: the hotkey a key is wanted for
  pressedKey,  \* lastKeyboardKeyPressed
  loop,        \* where the thread is in its pass, whether it saw a capture, the message it has
  rebinds      \* how many captures were begun and bindings cleared

hotKeyVars == <<bound, cached, registered, presses, overlay, capture, pressedKey, loop, rebinds>>

NoCapture == "off"
NoPress == [hotKey |-> "session", during |-> 0]
Top == [at |-> "top", next |-> 1, capturing |-> FALSE, press |-> NoPress]
AllUnregistered == [i \in Ids |-> Unbound]

-----------------------------------------------------------------------------
HotKeyInit ==
  /\ bound = DefaultKey /\ cached = bound /\ registered = AllUnregistered /\ presses = <<>>
  /\ overlay = [session |-> FALSE, graph |-> FALSE, lifetime |-> FALSE]
  /\ capture = NoCapture /\ pressedKey = Unbound /\ loop = Top /\ rebinds = 0

\* The capture that is on, by its number: 0 for none.
CaptureNumber == IF capture = NoCapture THEN 0 ELSE rebinds

\* The user presses a key: Windows posts it to the thread that registered it; else the window
\* that has the focus gets it (HandleWindowMessage), and remembers it during a capture.
PressKey(k) ==
  LET owners == {i \in Ids : registered[i] = k}
  IN /\ IF owners # {}
        THEN /\ Len(presses) < MaxPresses /\ UNCHANGED pressedKey
             /\ presses' = Append(presses, [hotKey |-> CHOOSE i \in owners : TRUE,
                                           during |-> CaptureNumber])
        ELSE capture # NoCapture /\ pressedKey' = k /\ UNCHANGED presses
     /\ UNCHANGED <<bound, cached, registered, overlay, capture, loop, rebinds>>

\* InputCaptureService.
BeginCapture(i) ==
  /\ capture = NoCapture /\ rebinds < MaxRebinds /\ rebinds' = rebinds + 1
  /\ capture' = i /\ pressedKey' = Unbound
  /\ UNCHANGED <<bound, cached, registered, presses, overlay, loop>>

FinishCapture ==
  /\ capture # NoCapture /\ pressedKey # Unbound
  /\ bound' = [bound EXCEPT ![capture] = pressedKey] /\ capture' = NoCapture
  /\ UNCHANGED <<cached, registered, presses, overlay, pressedKey, loop, rebinds>>

\* Escape, or the settings are left.
CancelCapture ==
  /\ capture # NoCapture /\ capture' = NoCapture
  /\ UNCHANGED <<bound, cached, registered, presses, overlay, pressedKey, loop, rebinds>>

ClearBind(i) ==
  /\ capture = NoCapture /\ rebinds < MaxRebinds /\ rebinds' = rebinds + 1
  /\ bound' = [bound EXCEPT ![i] = Unbound]
  /\ UNCHANGED <<cached, registered, presses, overlay, capture, pressedKey, loop>>

-----------------------------------------------------------------------------
\* KeyboardThreadLoop.

WhileCapturing == AllUnregistered

\* RefreshConfigCache, and the look at inputCaptureActive.
BeginPass ==
  /\ loop.at = "top" /\ cached' = bound
  /\ IF capture # NoCapture
     THEN /\ loop' = [Top EXCEPT !.at = "messages", !.capturing = TRUE]
          /\ registered' = WhileCapturing
     ELSE /\ loop' = [Top EXCEPT !.at = "register"]
          /\ UNCHANGED registered
  /\ UNCHANGED <<bound, presses, overlay, capture, pressedKey, rebinds>>

\* Mutant: a key that changed is registered while the hotkey still has the old one.
KeepsOld(i) == registered

WithoutOld(i) == [registered EXCEPT ![i] = Unbound]

\* registerHotKeyIfNeeded: Windows refuses a key that another hotkey has.
RegisterHotKeyIfNeeded(i) ==
  IF registered[i] = cached[i] THEN registered
  ELSE LET free == WithoutOld(i)
       IN IF cached[i] = Unbound \/ \E j \in Ids : free[j] = cached[i] THEN free
          ELSE [free EXCEPT ![i] = cached[i]]

Wanted(i) == i = "pan" => overlay.graph

RegisterNext ==
  /\ loop.at = "register" /\ loop.next \in DOMAIN HotKeyIds
  /\ LET i == HotKeyIds[loop.next]
     IN registered' = IF Wanted(i) THEN RegisterHotKeyIfNeeded(i)
                      ELSE [registered EXCEPT ![i] = Unbound]
  /\ loop' = IF loop.next = Len(HotKeyIds) THEN [loop EXCEPT !.at = "messages"]
             ELSE [loop EXCEPT !.next = @ + 1]
  /\ UNCHANGED <<bound, cached, presses, overlay, capture, pressedKey, rebinds>>

\* ExpandActiveView: text, session graph, lifetime graph.
Expanded ==
  IF ~overlay.session THEN overlay
  ELSE IF ~overlay.graph THEN [overlay EXCEPT !.graph = TRUE, !.lifetime = FALSE]
  ELSE IF ~overlay.lifetime THEN [overlay EXCEPT !.lifetime = TRUE]
  ELSE [overlay EXCEPT !.graph = FALSE, !.lifetime = FALSE]

\* ToggleSessionView.
SessionToggled ==
  IF overlay.session THEN [session |-> FALSE, graph |-> FALSE, lifetime |-> FALSE]
  ELSE [overlay EXCEPT !.session = TRUE]

\* HandleHotKeyAction.  (Panning moves the graph's offset only.)
AfterHotKey(i) ==
  CASE i = "session" -> SessionToggled [] i = "expand" -> Expanded [] i = "pan" -> overlay

\* Mutant: nobody looks whether a capture is on.
AlwaysActs == TRUE

MayAct == capture = NoCapture

\* A message is taken, and dropped during a capture ...
TakePress ==
  /\ loop.at = "messages" /\ presses # <<>> /\ presses' = Tail(presses)
  /\ loop' = IF MayAct THEN [loop EXCEPT !.at = "acting", !.press = Head(presses)] ELSE loop
  /\ UNCHANGED <<bound, cached, registered, overlay, capture, pressedKey, rebinds>>

\* ... and else acted on.  The user may have begun a capture in between.
HandleHotKey ==
  /\ loop.at = "acting" /\ overlay' = AfterHotKey(loop.press.hotKey)
  /\ loop' = [loop EXCEPT !.at = "messages", !.press = NoPress]
  /\ UNCHANGED <<bound, cached, registered, presses, capture, pressedKey, rebinds>>

EndPass ==
  /\ loop.at = "messages" /\ presses = <<>> /\ loop' = Top
  /\ UNCHANGED <<bound, cached, registered, presses, overlay, capture, pressedKey, rebinds>>

KeyboardThread == BeginPass \/ RegisterNext \/ TakePress \/ HandleHotKey \/ EndPass

HotKeyNext ==
  \/ \E k \in KeyCodes : PressKey(k)
  \/ \E i \in Ids : BeginCapture(i) \/ ClearBind(i)
  \/ FinishCapture \/ CancelCapture \/ KeyboardThread

\* The thread is scheduled, and nobody presses keys faster than it handles the messages: again and
\* again the last one is handled, and the pass ends, before the next one comes.
HandleLast == presses = <<>> /\ HandleHotKey
HotKeyFairness ==
  WF_hotKeyVars(KeyboardThread) /\ SF_hotKeyVars(HandleLast) /\ SF_hotKeyVars(EndPass)

HotKeySpec == HotKeyInit /\ [][HotKeyNext]_hotKeyVars /\ HotKeyFairness

-----------------------------------------------------------------------------
HotKeyTypeOK ==
  /\ {bound, cached, registered} \subseteq [Ids -> KeyCodes \cup {Unbound}]
  /\ \A n \in DOMAIN presses : presses[n].hotKey \in Ids /\ presses[n].during \in 0..MaxRebinds
  /\ overlay \in [session : BOOLEAN, graph : BOOLEAN, lifetime : BOOLEAN]
  /\ capture \in Ids \cup {NoCapture} /\ pressedKey \in KeyCodes \cup {Unbound}
  /\ rebinds \in 0..MaxRebinds

\* A hotkey listens on no key but its own: once a pass has registered them each has the key the
\* configuration gave it then, or none, and none has one when the pass saw a capture.
KeysAreConfigured ==
  loop.at \in {"messages", "acting"} =>
    \A i \in Ids : registered[i] \in {Unbound, IF loop.capturing THEN Unbound ELSE cached[i]}

\* A key that is pressed for a new binding, while its hotkey is still registered, does not change
\* the view during that capture: the message that may is one from before it, which the thread had
\* taken already.
NothingHappensInCapture ==
  [][overlay' # overlay /\ capture # NoCapture => loop.press.during # CaptureNumber]_hotKeyVars

\* Whatever was bound or cleared meanwhile: in the end every hotkey that is wanted has its key,
\* unless two of them want the same one.  (The thread registers hotkeys in its passes.)
KeysInPlace ==
  \A i \in Ids :
    \/ \E j \in Ids \ {i} : bound[j] = bound[i]
    \/ registered[i] = IF Wanted(i) THEN bound[i] ELSE Unbound
HotKeysSettle ==
  \A g \in BOOLEAN :
    <>[](capture = NoCapture /\ overlay.graph = g) /\ []<>(loop.at = "register") => <>[]KeysInPlace

\* During a capture every key reaches the window in the end: a key that is somebody's hotkey can
\* be bound again.
CaptureSeesKeys == capture # NoCapture ~> capture = NoCapture \/ registered = AllUnregistered

\* The arrow keys are given back to the game when the graph is closed.
PanKeysGivenBack == ~overlay.graph ~> overlay.graph \/ registered["pan"] = Unbound
=============================================================================
