---------------------------- MODULE OverlayLayout ----------------------------
(***************************************************************************)
(* The cards on the overlay: the boxes the settings hold (OverlayLayout),  *)
(* the copy of them the interface draws and drags (RmlUiController's       *)
(* m_config), and what the user does to them with the pointer, the toolbox *)
(* and the settings window.  Where a box is dropped, what it snaps to and  *)
(* how large it is drawn are inputs; the copy is refreshed once per frame, *)
(* and the input thread and other savers write the settings in between.    *)
(***************************************************************************)
EXTENDS Integers, SequencesExt

CONSTANTS
  SavedLayouts, \* what config.json may hold at start: of an old version, or damaged
  NoLayout,     \* a config.json without an overlay_layout
  MaxEdits,     \* bound: what the user does to the layout
  MaxCommits    \* bound: settings saved elsewhere, and the layout's hotkey

ASSUME OverlayLayoutAssumption == {MaxEdits, MaxCommits} \subseteq Nat

VARIABLES
  layout,  \* Config: the boxes, disabledWidgets, toolboxOpen, a floating card's position
  copy,    \* m_config
  gesture,    \* m_drag
  editing, \* dashboardLayoutEditMode
  wanted,  \* ghost: the cards put on the overlay, and not taken off it since
  twice,   \* ghost: the settings made a box with an id that was taken
  edited

layoutVars == <<layout, copy, gesture, editing, wanted, twice, edited>>

OverlayCards == {"roster", "rank", "lobby"}
Spots == {0, 1}             \* places on the screen
Auto == 0 Small == 1 Fit == 2 \* a box's size: not set, less than its cards need, enough
LayoutVersion == 5

-----------------------------------------------------------------------------
Placed(boxes) == UNION {ToSet(boxes[i].cards) : i \in DOMAIN boxes}
Where(boxes, id) == SelectInSeq(boxes, LAMBDA box : box.id = id)
Without(boxes, id) == SelectSeq(boxes, LAMBDA box : box.id # id)
NotEmpty(boxes) == SelectSeq(boxes, LAMBDA box : box.cards # <<>>)
NewBox(id, at, size, cards) == [id |-> id, at |-> at, size |-> size, cards |-> cards]

DefaultOverlayLayout ==
  [version |-> LayoutVersion, toolbox |-> FALSE, disabled |-> {},
   boxes |-> <<NewBox(<<"lobby_ranks", 0>>, 0, Auto, <<"lobby">>),
               NewBox(<<"main_stack", 0>>, 0, Fit, <<"roster", "rank">>)>>]

\* Versions 2 and 3: a box with the lobby's ranks is sized automatically again.
ResetLobby(boxes) ==
  [i \in DOMAIN boxes |->
     IF "lobby" \in ToSet(boxes[i].cards) THEN [boxes[i] EXCEPT !.size = Auto] ELSE boxes[i]]

\* Version 5: the rank becomes a card of its own, below the roster.
SplitRank(boxes) ==
  LET i == SelectInSeq(boxes, LAMBDA box : "roster" \in ToSet(box.cards))
      below == SelectInSeq(boxes[i].cards, LAMBDA card : card = "roster") + 1
  IN IF "rank" \in Placed(boxes) \/ i = 0 THEN boxes
     ELSE [boxes EXCEPT ![i].cards = InsertAt(@, below, "rank")]

\* Each card in the first box that has it; no empty boxes.
Distinct(cards) ==
  FoldLeft(LAMBDA done, card : IF card \in ToSet(done) THEN done ELSE Append(done, card),
           <<>>, cards)
Deduplicate(boxes) ==
  NotEmpty(FoldLeft(LAMBDA done, box :
             Append(done, [box EXCEPT !.cards =
               SelectSeq(Distinct(@), LAMBDA card : card \notin Placed(done))]), <<>>, boxes))

Sanitize(l) ==
  LET lobby == IF l.version < 3 THEN ResetLobby(l.boxes) ELSE l.boxes
      rank == IF l.version < 5 THEN SplitRank(lobby) ELSE lobby
  IN [l EXCEPT !.version = LayoutVersion, !.boxes = Deduplicate(rank)]

\* Config::Load.
LoadLayout(file) == IF file = NoLayout THEN DefaultOverlayLayout ELSE Sanitize(file)

\* WidgetSettings::Enabled, for a card no other setting hides.
EnabledCards(l) == Placed(l.boxes) \ l.disabled

-----------------------------------------------------------------------------
NothingHeld == [kind |-> "none", id |-> <<"", 0>>, card |-> "", at |-> 0, dock |-> FALSE]

LayoutInit ==
  /\ \E file \in SavedLayouts \cup {NoLayout} :
       layout = [cards |-> LoadLayout(file), float |-> 0, other |-> 0]
  /\ copy = layout /\ gesture = NothingHeld /\ editing = FALSE
  /\ wanted = EnabledCards(layout.cards) /\ twice = FALSE
  /\ edited = [edits |-> 0, commits |-> 0]

Edits == edited.edits < MaxEdits /\ edited' = [edited EXCEPT !.edits = @ + 1]
Commits == edited.commits < MaxCommits /\ edited' = [edited EXCEPT !.commits = @ + 1]

\* RenderOverlayContainer repairs the boxes drawn that are too small for their cards, in the
\* settings and not in the copy.
DrawBoxes(drawn) ==
  layout' = [drawn EXCEPT !.cards.boxes =
    [i \in DOMAIN @ |-> IF @[i].size = Small /\ (editing \/ ToSet(@[i].cards) \subseteq
                            EnabledCards(drawn.cards))
                        THEN [@[i] EXCEPT !.size = Fit] ELSE @[i]]]

\* Config::Update, m_config = Config::Read() and RebuildOverlay.
Writes(new) == copy' = new /\ DrawBoxes(new)
WritesLayout(l) == Writes([layout EXCEPT !.cards = l])
WritesBoxes(boxes) == WritesLayout(Sanitize([layout.cards EXCEPT !.boxes = boxes]))

\* "container_" and the time, which is never the same again.
NewId == <<"container", edited'.edits>>

-----------------------------------------------------------------------------
\* The pointer.

Begins(drag) ==
  /\ gesture.kind = "none" /\ Edits /\ gesture' = drag
  /\ UNCHANGED <<layout, copy, editing, wanted, twice>>

\* A drag of a box, or of its edge: with other boxes as targets if the layout is edited.
BeginBox(kind, i) ==
  Begins([NothingHeld EXCEPT !.kind = kind, !.id = copy.cards.boxes[i].id,
            !.at = copy.cards.boxes[Where(copy.cards.boxes, copy.cards.boxes[i].id)].at,
            !.dock = editing])

BeginWidget(i, card) ==
  /\ editing /\ card \in ToSet(copy.cards.boxes[i].cards)
  /\ Begins([NothingHeld EXCEPT !.kind = "card", !.id = copy.cards.boxes[i].id, !.card = card])

\* RenderOverlayToolbox: only the cards that are in no box.
BeginToolbox(card) ==
  /\ editing /\ copy.cards.toolbox /\ card \notin Placed(copy.cards.boxes)
  /\ Begins([NothingHeld EXCEPT !.kind = "toolbox", !.card = card])

BeginFloating == Begins([NothingHeld EXCEPT !.kind = "float", !.at = copy.float])

\* HandleMouseMove: the box follows in the copy, and on the screen.
MovePointer(at) ==
  /\ gesture' = [gesture EXCEPT !.at = at]
  /\ \/ /\ gesture.kind = "move" /\ Where(copy.cards.boxes, gesture.id) # 0
        /\ copy' = [copy EXCEPT !.cards.boxes[Where(copy.cards.boxes, gesture.id)].at = at]
     \/ gesture.kind = "float" /\ copy' = [copy EXCEPT !.float = at]
  /\ UNCHANGED <<layout, editing, wanted, twice, edited>>

\* The edge of a box: never less than its cards need.
ResizeBox ==
  /\ gesture.kind = "resize" /\ Where(copy.cards.boxes, gesture.id) # 0
  /\ copy' = [copy EXCEPT !.cards.boxes[Where(copy.cards.boxes, gesture.id)].size = Fit]
  /\ UNCHANGED <<layout, gesture, editing, wanted, twice, edited>>

\* Put cards at the top or the bottom of a box, which is sized automatically again.
Joined(boxes, i, cards, top) ==
  [boxes EXCEPT ![i] = [@ EXCEPT !.size = Auto,
                                 !.cards = IF top THEN cards \o @ ELSE @ \o cards]]
Detached(boxes, card, at) == Append(boxes, NewBox(NewId, at, Fit, <<card>>))
PutCard(boxes, card, target, top, at) ==
  IF Where(boxes, target) = 0 THEN Detached(boxes, card, at)
  ELSE Joined(boxes, Where(boxes, target), <<card>>, top)

\* The box the pointer is over, if any.
NoTarget == <<"", 0>>
Targets == {copy.cards.boxes[i].id : i \in DOMAIN copy.cards.boxes} \ {gesture.id}
Released == gesture' = NothingHeld /\ UNCHANGED <<editing, twice, edited>>

DropToolbox(target, top, at) ==
  /\ gesture.kind = "toolbox" /\ Released
  /\ wanted' = wanted \cup ({gesture.card} \ layout.cards.disabled)
  /\ IF gesture.card \in Placed(layout.cards.boxes) THEN Writes(layout)
     ELSE WritesBoxes(PutCard(layout.cards.boxes, gesture.card, target, top, at))

DropWidget(target, top, at) ==
  LET boxes == layout.cards.boxes
      i == Where(boxes, gesture.id)
      left == NotEmpty([boxes EXCEPT ![i].cards = SelectSeq(@, LAMBDA c : c # gesture.card)])
  IN /\ gesture.kind = "card" /\ Released /\ UNCHANGED wanted
     /\ IF i = 0 \/ gesture.card \notin ToSet(boxes[i].cards) THEN Writes(layout)
        ELSE WritesBoxes(PutCard(left, gesture.card, target, top, at))

\* Back over the box it came from: nothing happens.
DropAtHome ==
  gesture.kind = "card" /\ Released /\ UNCHANGED <<layout, copy, wanted>>

DropFloating ==
  /\ gesture.kind = "float" /\ Released /\ UNCHANGED wanted
  /\ Writes([layout EXCEPT !.float = copy.float])

\* The whole layout of the copy is written.
DropBox(target, top) ==
  LET boxes == copy.cards.boxes
      i == Where(boxes, gesture.id)
      others == RemoveAt(boxes, i)
      docked == Joined(others, Where(others, target), boxes[i].cards, top)
      dock == gesture.kind = "move" /\ gesture.dock /\ target # NoTarget /\ i # 0
  IN /\ gesture.kind \in {"move", "resize"} /\ Released /\ UNCHANGED wanted
     /\ WritesLayout(IF dock THEN Sanitize([copy.cards EXCEPT !.boxes = docked]) ELSE copy.cards)

DropsAt(target) ==
  \E top \in BOOLEAN, at \in Spots :
    DropToolbox(target, top, at) \/ DropWidget(target, top, at) \/ DropBox(target, top)

-----------------------------------------------------------------------------
\* The toolbox, the buttons on the boxes, and the settings window.

ClickedOn == gesture.kind = "none" /\ Edits /\ UNCHANGED <<gesture, editing>>

AddWidget(card) ==
  /\ ClickedOn /\ editing /\ copy.cards.toolbox /\ card \notin Placed(copy.cards.boxes)
  /\ wanted' = wanted \cup ({card} \ layout.cards.disabled) /\ UNCHANGED twice
  /\ IF card \in Placed(layout.cards.boxes) THEN Writes(layout)
     ELSE WritesBoxes(Detached(layout.cards.boxes, card, 0))

RemoveWidget(i, card) ==
  LET boxes == layout.cards.boxes
      j == Where(boxes, copy.cards.boxes[i].id)
  IN /\ ClickedOn /\ editing /\ card \in ToSet(copy.cards.boxes[i].cards)
     /\ wanted' = wanted \ {card} /\ UNCHANGED twice
     /\ WritesBoxes(IF j = 0 THEN boxes
          ELSE NotEmpty([boxes EXCEPT ![j].cards = SelectSeq(@, LAMBDA c : c # card)]))

RemoveContainer(i) ==
  /\ ClickedOn /\ editing /\ wanted' = wanted \ ToSet(copy.cards.boxes[i].cards)
  /\ UNCHANGED twice
  /\ WritesBoxes(Without(layout.cards.boxes, copy.cards.boxes[i].id))

ToggleToolbox ==
  /\ ClickedOn /\ editing /\ UNCHANGED <<wanted, twice>>
  /\ WritesLayout([layout.cards EXCEPT !.toolbox = ~@])

ResetOverlay ==
  /\ ClickedOn /\ wanted' = OverlayCards /\ twice' = FALSE
  /\ WritesLayout(DefaultOverlayLayout)

\* WidgetSettings::SetEnabled: a card that is in no box gets one of its own.
SetEnabled(card, enabled) ==
  LET l == [layout.cards EXCEPT !.disabled = IF enabled THEN @ \ {card} ELSE @ \cup {card}]
      id == <<card, 0>>
      makes == enabled /\ card \notin Placed(l.boxes)
  IN /\ ClickedOn
     /\ wanted' = IF enabled THEN wanted \cup {card} ELSE wanted \ {card}
     /\ twice' = (twice \/ (makes /\ Where(l.boxes, id) # 0))
     /\ WritesLayout(IF makes
          THEN Sanitize([l EXCEPT !.boxes = Append(@, NewBox(id, 0, Auto, <<card>>))]) ELSE l)

\* position-widget and finish-position.
PositionCards(enable) ==
  /\ gesture.kind = "none" /\ Edits /\ editing' = enable /\ UNCHANGED <<gesture, wanted, twice>>
  /\ Writes([layout EXCEPT !.cards.toolbox = FALSE])

-----------------------------------------------------------------------------
\* Other threads, and the frame.

\* The hotkey: the input thread writes to the settings.
ToggleDashboardEditMode ==
  /\ Commits /\ editing' = ~editing
  /\ layout' = IF editing THEN layout ELSE [layout EXCEPT !.cards.toolbox = FALSE]
  /\ UNCHANGED <<copy, gesture, wanted, twice>>

SaveElsewhere ==
  /\ Commits /\ layout' = [layout EXCEPT !.other = @ + 1]
  /\ UNCHANGED <<copy, gesture, editing, wanted, twice>>

\* RmlUiController::Update: what is being dragged stays where it is in the copy.
TakeSettings ==
  LET i == Where(copy.cards.boxes, gesture.id)
      j == Where(layout.cards.boxes, gesture.id)
      flying == gesture.kind \in {"move", "resize"} /\ i # 0 /\ j # 0
      kept == IF flying THEN [layout EXCEPT !.cards.boxes[j].at = copy.cards.boxes[i].at,
                                            !.cards.boxes[j].size = copy.cards.boxes[i].size]
              ELSE layout
  IN /\ copy' = IF gesture.kind = "float" THEN [kept EXCEPT !.float = copy.float] ELSE kept
     /\ UNCHANGED <<layout, gesture, editing, wanted, twice, edited>>

\* The program ends, and starts with what it saved.
Relaunch ==
  /\ Commits /\ layout' = [layout EXCEPT !.cards = LoadLayout(layout.cards)]
  /\ copy' = layout' /\ gesture' = NothingHeld /\ editing' = FALSE /\ UNCHANGED <<wanted, twice>>

LayoutNext ==
  \/ \E i \in DOMAIN copy.cards.boxes :
       \/ \E kind \in {"move", "resize"} : BeginBox(kind, i)
       \/ \E card \in OverlayCards : BeginWidget(i, card) \/ RemoveWidget(i, card)
       \/ RemoveContainer(i)
  \/ \E card \in OverlayCards :
       \/ BeginToolbox(card) \/ AddWidget(card)
       \/ \E enabled \in BOOLEAN : SetEnabled(card, enabled)
  \/ BeginFloating \/ (\E at \in Spots : MovePointer(at)) \/ ResizeBox
  \/ (\E target \in Targets \cup {NoTarget} : DropsAt(target)) \/ DropAtHome \/ DropFloating
  \/ ToggleToolbox \/ ResetOverlay \/ (\E enable \in BOOLEAN : PositionCards(enable))
  \/ ToggleDashboardEditMode \/ SaveElsewhere \/ TakeSettings \/ Relaunch

LayoutSpec == LayoutInit /\ [][LayoutNext]_layoutVars

-----------------------------------------------------------------------------
\* The values the layout and its copy may take.
LayoutTypeOK ==
  /\ \A l \in {layout, copy} :
       /\ l.cards.version = LayoutVersion /\ l.cards.toolbox \in BOOLEAN
       /\ l.cards.disabled \subseteq OverlayCards /\ l.float \in Spots /\ l.other \in Nat
       /\ \A i \in DOMAIN l.cards.boxes :
            /\ ToSet(l.cards.boxes[i].cards) \subseteq OverlayCards
            /\ l.cards.boxes[i].at \in Spots /\ l.cards.boxes[i].size \in {Auto, Small, Fit}
  /\ gesture.kind \in {"none", "move", "resize", "card", "toolbox", "float"} /\ gesture.at \in Spots
  /\ wanted \subseteq OverlayCards /\ {editing, twice} \subseteq BOOLEAN

\* However the cards are dragged, docked, added and removed, and whatever an old file held:
\* no card is in two places, no box is empty, and (unless the settings made the same box
\* twice) a box's id names one box.
EachCardOnce ==
  \A l \in {layout.cards, copy.cards} :
    /\ \A i, j \in DOMAIN l.boxes :
         /\ i # j => ToSet(l.boxes[i].cards) \cap ToSet(l.boxes[j].cards) = {}
         /\ i # j /\ ~twice => l.boxes[i].id # l.boxes[j].id
    /\ \A i \in DOMAIN l.boxes : l.boxes[i].cards # <<>> /\ IsInjective(l.boxes[i].cards)

\* A card that was put on the overlay is on it until it is taken off: no drop, repair,
\* migration or restart loses it.
CardsAreKept == twice \/ EnabledCards(layout.cards) = wanted

\* The next start finds the layout as it was left: what a migration did once it does not do
\* again (a rank card that was removed stays removed).
LayoutIsSettled == LoadLayout(layout.cards) = layout.cards

\* While nothing is dragged the user sees the boxes that are saved, where they are saved.
CopyIsSaved ==
  LET Seen(l) == [i \in DOMAIN l.cards.boxes |->
                   <<l.cards.boxes[i].id, l.cards.boxes[i].at, l.cards.boxes[i].cards>>]
  IN gesture.kind = "none" => Seen(copy) = Seen(layout) /\ copy.float = layout.float

\* A box that is dragged stays under the pointer, whatever is saved meanwhile, and is saved
\* where it was let go.
DropsWhereShown ==
  [][gesture' = NothingHeld /\ edited' = edited =>
       /\ gesture.kind = "float" => layout'.float = gesture.at
       /\ gesture.kind = "move" /\ ~twice =>
          \A i \in DOMAIN layout'.cards.boxes :
            layout'.cards.boxes[i].id = gesture.id => layout'.cards.boxes[i].at = gesture.at
    ]_layoutVars

\* A drop disturbs no other box: the other boxes keep their places, and settings saved
\* meanwhile elsewhere are kept.
DropsKeepTheRest ==
  [][gesture.kind # "none" /\ gesture' = NothingHeld /\ edited' = edited =>
       /\ layout'.other = layout.other /\ layout'.cards.disabled = layout.cards.disabled
       /\ \A i \in DOMAIN layout.cards.boxes, j \in DOMAIN layout'.cards.boxes :
            LET old == layout.cards.boxes[i] new == layout'.cards.boxes[j]
            IN old.id = new.id /\ old.id # gesture.id /\ ~twice => old.at = new.at
    ]_layoutVars
=============================================================================
