--------------------------- MODULE DashboardLayout ---------------------------
(***************************************************************************)
(* The cards of the dashboard: their columns and their order in the        *)
(* settings (DashboardLayout), the drag that moves one to the slot that is *)
(* highlighted, and the settings window that shows and hides them.  What   *)
(* a slot's index counts is what was drawn when the drag began; what the   *)
(* settings hold is all cards, the ones not shown too.                     *)
(***************************************************************************)
EXTENDS Integers, SequencesExt, FiniteSetsExt

CONSTANTS
  SavedBoards, \* what config.json may hold at start
  MaxArranged, \* bound: what the user does
  MaxToggled   \* bound: the hotkey, and restarts

ASSUME DashboardLayoutAssumption == {MaxArranged, MaxToggled} \subseteq Nat

VARIABLES
  board,     \* Config: the placements, in the order they are stored
  allowed,   \* the older settings that show a card (second_monitor_show_roster, ...)
  arranging, \* dashboardLayoutEditMode
  grip,      \* m_drag: the card, the slot highlighted, and whether the layout was being edited
  hides,     \* ghost: the cards taken off the dashboard, and not put back since
  arranged

boardVars == <<board, allowed, arranging, grip, hides, arranged>>

Panels == {"roster", "stats", "graph", "modes"}
Flagged == {"roster", "modes"} \* cards that an older setting can hide as well
Zones == <<"left", "right", "hidden">>
Placement(card, zone, order) == [card |-> card, zone |-> zone, order |-> order, on |-> TRUE]
Index(seq, e) == SelectInSeq(seq, LAMBDA x : x = e)
RankOf(zone) == Index(Zones, zone)

DefaultLayout ==
  <<Placement("roster", "left", 0), Placement("stats", "left", 1),
    Placement("graph", "right", 0), Placement("modes", "hidden", 0)>>

AllIds == <<"roster", "stats", "graph", "modes">>
Find(places, card) == SelectInSeq(places, LAMBDA p : p.card = card)

\* Every card once, its first placement or the default one; stored by zone, then by order.
SanitizeBoard(places) ==
  LET valid == [i \in DOMAIN AllIds |->
                  LET k == Find(places, AllIds[i]) d == Find(DefaultLayout, AllIds[i])
                  IN IF k # 0 THEN places[k] ELSE DefaultLayout[d]]
      Before(i, j) ==
        \/ RankOf(valid[i].zone) < RankOf(valid[j].zone)
        \/ /\ valid[i].zone = valid[j].zone
           /\ valid[i].order < valid[j].order \/ (valid[i].order = valid[j].order /\ i < j)
      sorted == SetToSortSeq(DOMAIN valid, Before)
  IN [k \in DOMAIN sorted |->
        [valid[sorted[k]] EXCEPT !.order =
           Quantify(DOMAIN valid, LAMBDA j : /\ valid[j].zone = valid[sorted[k]].zone
                                             /\ Before(j, sorted[k]))]]

CardsOf(places) == [i \in DOMAIN places |-> places[i].card]
InZone(places, zone) == SelectSeq(places, LAMBDA p : p.zone = zone)

\* WidgetSettings::Enabled, on the dashboard.
PanelEnabled(places, flags, card) ==
  /\ card \in Flagged => card \in flags
  /\ \E i \in DOMAIN places : /\ places[i].card = card
                              /\ places[i].zone # "hidden" /\ places[i].on

\* RebuildDashboard: what is drawn in a zone, top to bottom.
Drawn(places, flags, edit, zone) ==
  SelectSeq(CardsOf(InZone(places, zone)), LAMBDA c : edit \/ PanelEnabled(places, flags, c))

-----------------------------------------------------------------------------
Nowhere == [zone |-> "", index |-> 0]
NoGrip == [card |-> "", aim |-> Nowhere, edit |-> FALSE]

ShownOn(places, flags) == {card \in Panels : PanelEnabled(places, flags, card)}

BoardInit ==
  /\ board \in {SanitizeBoard(places) : places \in SavedBoards}
  /\ allowed \in {{}, Flagged} /\ arranging = FALSE /\ grip = NoGrip
  /\ hides = Panels \ ShownOn(board, allowed)
  /\ arranged = [done |-> 0, toggled |-> 0]

Arranges == arranged.done < MaxArranged /\ arranged' = [arranged EXCEPT !.done = @ + 1]
Toggles == arranged.toggled < MaxToggled /\ arranged' = [arranged EXCEPT !.toggled = @ + 1]

\* The title of a card that is drawn is pressed.
BeginPanel(card) ==
  /\ grip.card = "" /\ Arranges
  /\ \E z \in ToSet(Zones) : /\ z = "hidden" => arranging
                             /\ card \in ToSet(Drawn(board, allowed, arranging, z))
  /\ grip' = [NoGrip EXCEPT !.card = card, !.edit = arranging]
  /\ UNCHANGED <<board, allowed, arranging, hides>>

\* Over a slot, the upper or the lower half of a card, or below a zone's cards (index -1).
AimAt(zone, index) ==
  /\ grip.card # "" /\ zone = "hidden" => grip.edit
  /\ index <= Len(Drawn(board, allowed, grip.edit, zone))
  /\ grip' = [grip EXCEPT !.aim = [zone |-> zone, index |-> index]]
  /\ UNCHANGED <<board, allowed, arranging, hides, arranged>>

AimNowhere ==
  /\ grip.card # "" /\ grip' = [grip EXCEPT !.aim = Nowhere]
  /\ UNCHANGED <<board, allowed, arranging, hides, arranged>>

\* An index of the zone with the card in it, as one of the zone without it.
TargetIndex(places, card, zone, index) ==
  LET current == Find(InZone(places, zone), card)
      others == Len(InZone(places, zone)) - (IF current # 0 THEN 1 ELSE 0)
      wish == IF index < 0 THEN others ELSE index
      target == IF current # 0 /\ current - 1 < wish THEN wish - 1 ELSE wish
  IN IF target > others THEN others ELSE target

MoveDashboardWidget(places, card, zone, index) ==
  LET others == SelectSeq(CardsOf(InZone(places, zone)), LAMBDA c : c # card)
      order == InsertAt(others, TargetIndex(places, card, zone, index) + 1, card)
      moved == [i \in DOMAIN places |->
                  IF places[i].card = card THEN [places[i] EXCEPT !.zone = zone, !.on = TRUE]
                  ELSE places[i]]
  IN SanitizeBoard([i \in DOMAIN moved |->
       IF Contains(order, moved[i].card)
       THEN [moved[i] EXCEPT !.order = Index(order, moved[i].card) - 1] ELSE moved[i]])

DropPanel ==
  /\ grip.card # "" /\ grip' = NoGrip
  /\ IF grip.aim = Nowhere THEN UNCHANGED <<board, hides>>
     ELSE /\ board' = MoveDashboardWidget(board, grip.card, grip.aim.zone, grip.aim.index)
          /\ hides' = IF grip.aim.zone = "hidden" THEN hides \cup {grip.card}
                      ELSE hides \ ({grip.card} \cap (allowed \cup (Panels \ Flagged)))
  /\ UNCHANGED <<allowed, arranging, arranged>>

-----------------------------------------------------------------------------
\* The settings window.

\* WidgetSettings::SetEnabled: a hidden card returns at the end of the right column.
SetPanelEnabled(card, enabled) ==
  LET set == [i \in DOMAIN board |->
                IF board[i].card # card THEN board[i]
                ELSE IF enabled /\ board[i].zone = "hidden"
                     THEN [board[i] EXCEPT !.on = TRUE, !.zone = "right", !.order = Len(board)]
                     ELSE [board[i] EXCEPT !.on = enabled]]
  IN /\ grip.card = "" /\ Arranges /\ board' = SanitizeBoard(set)
     /\ allowed' = IF enabled THEN allowed \cup ({card} \cap Flagged) ELSE allowed
     /\ hides' = IF enabled THEN hides \ {card} ELSE hides \cup {card}
     /\ UNCHANGED <<arranging, grip>>

ResetDashboard ==
  /\ grip.card = "" /\ Arranges /\ board' = DefaultLayout
  /\ hides' = Panels \ ShownOn(board', allowed) /\ UNCHANGED <<allowed, arranging, grip>>

\* The button, or the hotkey (while a card is dragged too: what is drawn stays).
EditDashboard ==
  Toggles /\ arranging' = ~arranging /\ UNCHANGED <<board, allowed, grip, hides>>

RestartDashboard ==
  /\ Toggles /\ board' = SanitizeBoard(board) /\ arranging' = FALSE /\ grip' = NoGrip
  /\ UNCHANGED <<allowed, hides>>

BoardNext ==
  \/ \E card \in Panels :
       BeginPanel(card) \/ \E enabled \in BOOLEAN : SetPanelEnabled(card, enabled)
  \/ (\E zone \in ToSet(Zones), index \in -1 .. Cardinality(Panels) : AimAt(zone, index))
  \/ AimNowhere \/ DropPanel \/ ResetDashboard \/ EditDashboard \/ RestartDashboard

BoardSpec == BoardInit /\ [][BoardNext]_boardVars

-----------------------------------------------------------------------------
\* The values the variables take.
BoardTypeOK ==
  /\ \A i \in DOMAIN board : /\ board[i].card \in Panels /\ board[i].zone \in ToSet(Zones)
                             /\ board[i].order \in Nat /\ board[i].on \in BOOLEAN
  /\ allowed \subseteq Flagged /\ hides \subseteq Panels /\ arranging \in BOOLEAN
  /\ grip.card \in Panels \cup {""} /\ grip.aim.index \in -1 .. Cardinality(Panels)

\* Every card has one place, and each zone counts its cards from 0, top to bottom, whatever
\* the file held and wherever cards were dropped.
BoardIsWhole ==
  /\ Len(board) = Cardinality(Panels) /\ ToSet(CardsOf(board)) = Panels
  /\ \A zone \in ToSet(Zones) :
       LET cards == InZone(board, zone) IN \A i \in DOMAIN cards : cards[i].order = i - 1
  /\ SanitizeBoard(board) = board

\* A card taken off the dashboard does not come back, and one put on it does not go, by
\* moving other cards or by starting again.
HiddenStaysHidden == ShownOn(board, allowed) = Panels \ hides

OwnSlotOrOtherZone ==
  grip.aim.index >= 0 \/ Find(InZone(board, grip.aim.zone), grip.card) = 0

\* A card lands in the slot that was highlighted (when the layout was edited, so that all
\* cards were drawn; below the cards of another zone it is the last), and the other cards keep
\* their columns and the order they are in.
LandsWhereAimed ==
  [][grip.card # "" /\ grip'.card = "" /\ arranged' = arranged =>
       /\ \A zone \in ToSet(Zones) :
            LET OtherCards(places) == SelectSeq(CardsOf(InZone(places, zone)),
                                            LAMBDA c : c # grip.card)
            IN OtherCards(board') = OtherCards(board)
       /\ grip.edit /\ grip.aim # Nowhere /\ OwnSlotOrOtherZone =>
            LET old == CardsOf(InZone(board, grip.aim.zone))
                new == CardsOf(InZone(board', grip.aim.zone))
                above == IF grip.aim.index < 0 THEN ToSet(old)
                         ELSE {old[i] : i \in 1 .. grip.aim.index}
            IN \A i \in DOMAIN new : new[i] = grip.card =>
                 {new[j] : j \in 1 .. (i - 1)} = above \ {grip.card}
    ]_boardVars
=============================================================================
