------------------------------ MODULE TuiProofs ------------------------------
(***************************************************************************)
(* For any interfaces and however many things fail or are changed beside   *)
(* the terminal interface: types, the link after a MAC change, the         *)
(* terminal at the end, and what the hotspot tab shows.  Each of the last  *)
(* three needs what holds between the steps as well: what change_mac has   *)
(* done so far, that the terminal was given back before others have it,    *)
(* that a snapshot nobody has made wrong is right at any time.             *)
(***************************************************************************)
EXTENDS Tui, SequenceTheorems, TLAPS

----------------------------------------------------------------------------
(* Types: lists *)

LEMMA ListType ==
  ASSUME NEW T \in SUBSET Interface, NEW S \in SUBSET T
  PROVE  List(S) \in Seq(T)
<1>1. List(S) \in Seq(S) BY ConstantsAssumption
<1> QED BY <1>1, SeqMonotonic

LEMMA GetType ==
  ASSUME NEW T, NEW list \in Seq(T), NEW i \in Nat
  PROVE  /\ Get(list, i) \in T \cup {None}
         /\ i < Len(list) => Get(list, i) \in T
<1>1. Len(list) \in Nat BY LenProperties
<1>2. ASSUME i < Len(list) PROVE list[i + 1] \in T
  <2>1. i + 1 \in 1..Len(list) BY <1>1, <1>2
  <2> QED BY <2>1, ElementOfSeq
<1> QED BY <1>2 DEF Get

LEMMA WorldFields ==
  ASSUME world \in Worlds
  PROVE  /\ world.here \in SUBSET Interface /\ world.gateway \in Interface \cup {None}
         /\ world.ap \in Wifi \cup {None}
BY DEF Worlds

LEMMA WifiDevicesType ==
  ASSUME world \in Worlds
  PROVE  WifiDevices \in Seq(Wifi) /\ world.here \cap Wifi \in SUBSET Wifi
<1>1. world.here \cap Wifi \in SUBSET Wifi OBVIOUS
<1>2. Wifi \in SUBSET Interface BY ConstantsAssumption
<1> QED BY <1>1, <1>2, ListType DEF WifiDevices

LEMMA UplinksType ==
  ASSUME world \in Worlds, NEW ap, NEW known
  PROVE  Uplinks(ap, known) \in Seq(Interface)
<1> DEFINE wired == world.here \ ({ap} \cup known)
<1>1. /\ wired \cap {world.gateway} \in SUBSET Interface
      /\ wired \ {world.gateway} \in SUBSET Interface
  BY WorldFields
<1>2. List(wired \cap {world.gateway}) \in Seq(Interface) BY <1>1, ListType
<1>3. List(wired \ {world.gateway}) \in Seq(Interface) BY <1>1, ListType
<1>4. Uplinks(ap, known) = List(wired \cap {world.gateway}) \o List(wired \ {world.gateway})
  BY DEF Uplinks
<1> HIDE DEF wired
<1> QED BY <1>2, <1>3, <1>4, ConcatProperties

LEMMA FetchedType ==
  ASSUME TypeOK, NEW ap, NEW known, NEW list \in {Uplinks(ap, known), <<>>}
  PROVE  list \in Seq(Interface)
<1>1. Uplinks(ap, known) \in Seq(Interface) BY UplinksType DEF TypeOK
<1>2. <<>> \in Seq(Interface) BY EmptySeq
<1> QED BY <1>1, <1>2

LEMMA SelFields ==
  ASSUME TypeOK
  PROVE  /\ sel.wifi \in Seq(Wifi) /\ sel.known \in SUBSET Wifi /\ sel.w \in Nat
         /\ sel.uplinks \in Seq(Interface) /\ sel.u \in Nat
         /\ Len(sel.wifi) \in Nat /\ Len(sel.uplinks) \in Nat
         /\ sel.wifi # <<>> => Len(sel.wifi) > 0
         /\ sel.uplinks # <<>> => Len(sel.uplinks) > 0
<1>1. /\ sel.wifi \in Seq(Wifi) /\ sel.known \in SUBSET Wifi /\ sel.w \in Nat
      /\ sel.uplinks \in Seq(Interface) /\ sel.u \in Nat
  BY DEF TypeOK, Selections
<1>2. /\ Len(sel.wifi) \in Nat /\ Len(sel.uplinks) \in Nat
      /\ sel.wifi # <<>> => Len(sel.wifi) # 0
      /\ sel.uplinks # <<>> => Len(sel.uplinks) # 0
  BY <1>1, LenProperties, EmptySeq
<1> QED BY <1>1, <1>2

LEMMA SelectedType ==
  ASSUME TypeOK
  PROVE  Selected \in Wifi \cup {None}
BY SelFields, GetType DEF Selected

----------------------------------------------------------------------------
(* Types: what the steps share *)

LEMMA BudgetType ==
  ASSUME TypeOK, Works \/ Trouble
  PROVE  budget' \in Nat
BY DEF TypeOK, Works, Trouble

LEMMA TermType ==
  ASSUME NEW t \in Terminals
  PROVE  /\ Left(t) \in Terminals /\ Entered(t) \in Terminals
         /\ [t EXCEPT !.raw = TRUE] \in Terminals /\ [t EXCEPT !.raw = FALSE] \in Terminals
         /\ [t EXCEPT !.broken = TRUE] \in Terminals /\ [t EXCEPT !.gone = TRUE] \in Terminals
BY DEF Left, Entered, Terminals

LEMMA RefusedType ==
  ASSUME TypeOK, NEW t \in Terminals, Refused(t)
  PROVE  term' \in Terminals /\ budget' \in Nat
<1>1. Works \/ Trouble BY DEF Refused
<1>2. term' \in Terminals BY TermType DEF Refused
<1> QED BY <1>1, <1>2, BudgetType

LEMMA NoSnapshotType == NoSnapshot \in Snapshots
BY DEF NoSnapshot, Snapshots

LEMMA GoneType ==
  ASSUME NEW to \in Labels, Gone(to)
  PROVE  pc' \in Labels /\ ui' \in Screens /\ sel' \in Selections /\ snap' \in Snapshots
<1>1. NothingListed \in Selections BY EmptySeq DEF NothingListed, Selections
<1>2. FirstScreen \in Screens BY DEF FirstScreen, Screens
<1> QED BY <1>1, <1>2, NoSnapshotType DEF Gone

LEMMA EndLabels ==
  {"ended", "failed", "panic", "killed", "spin", "top", "draw", "poll", "batch"} \subseteq Labels
BY DEF Labels

LEMMA ExitType ==
  ASSUME TypeOK, NEW to \in Labels, Exit(to), Works \/ Trouble, UNCHANGED <<mac, world>>
  PROVE  TypeOK'
<1>1. /\ pc' \in Labels /\ ui' \in Screens /\ sel' \in Selections /\ snap' \in Snapshots
  BY GoneType DEF Exit
<1>2. term' \in Terminals BY TermType DEF Exit, TypeOK
<1>3. budget' \in Nat BY BudgetType
<1> QED BY <1>1, <1>2, <1>3 DEF TypeOK

LEMMA HangUpType ==
  ASSUME TypeOK, NEW t \in Terminals, HangUp(t), UNCHANGED <<mac, world>>
  PROVE  TypeOK'
<1>1. /\ pc' \in Labels /\ ui' \in Screens /\ sel' \in Selections /\ snap' \in Snapshots
  BY GoneType, EndLabels DEF HangUp
<1>2. term' \in Terminals /\ budget' \in Nat BY RefusedType DEF HangUp
<1> QED BY <1>1, <1>2 DEF TypeOK

(* A step that changes nothing but the point in the program.               *)
LEMMA MoveType ==
  ASSUME TypeOK, pc' \in Labels, UNCHANGED <<screen, mac, world>>, term' \in Terminals,
         Works \/ Trouble
  PROVE  TypeOK'
BY BudgetType DEF TypeOK, screen

(* An event that changes what is shown, and nothing else.                  *)
LEMMA OnlyUi ==
  ASSUME TypeOK, ui' \in Screens, Stays, Works, UNCHANGED <<sel, snap, world>>
  PROVE  TypeOK'
BY BudgetType DEF TypeOK, Stays

(* An event that selects.                                                  *)
LEMMA OnlySel ==
  ASSUME TypeOK, sel' \in Selections, Stays, Works \/ Trouble, UNCHANGED <<ui, snap, world>>
  PROVE  TypeOK'
BY BudgetType DEF TypeOK, Stays

LEMMA ShowTabType ==
  ASSUME TypeOK, NEW tab \in 0..3, ShowTab(tab)
  PROVE  TypeOK'
<1>1. ui' \in Screens BY DEF ShowTab, TypeOK, Screens
<1> QED BY <1>1, OnlyUi DEF ShowTab

LEMMA ToggleType ==
  ASSUME TypeOK, ToggleHotspot
  PROVE  world' \in Worlds /\ snap' \in Snapshots /\ budget' \in Nat
<1>1. CASE Selected = None
  BY <1>1, BudgetType DEF ToggleHotspot, TypeOK
<1>2. CASE Selected # None
  <2>1. PICK active \in BOOLEAN :
          Reading(Selected, active) /\ IF active THEN Stop ELSE Start(Selected)
    BY <1>2 DEF ToggleHotspot
  <2>2. Works \/ Trouble BY <2>1 DEF Reading
  <2>3. PICK ap \in {world.ap, None, Selected} : world' = [world EXCEPT !.ap = ap]
    BY <2>1 DEF Stop, Start
  <2>4. ap \in Wifi \cup {None} BY <2>3, SelectedType, WorldFields DEF TypeOK
  <2>5. world' \in Worlds BY <2>3, <2>4 DEF TypeOK, Worlds
  <2>6. snap' \in Snapshots BY <1>2, NoSnapshotType DEF ToggleHotspot
  <2> QED BY <2>2, <2>5, <2>6, BudgetType
<1> QED BY <1>1, <1>2

LEMMA ModNat ==
  ASSUME NEW a \in Nat, NEW b \in Nat, b > 0
  PROVE  a % b \in Nat /\ a % b < b
OBVIOUS

LEMMA ActivateType ==
  ASSUME TypeOK, NEW field \in 0..5, Activate(field)
  PROVE  TypeOK'
<1>1. ui' \in Screens
  <2> DEFINE editing == field \in {1, 2}
             mode == IF field = 3 THEN Toggled(ui.mode) ELSE ui.mode
  <2>1. editing \in BOOLEAN OBVIOUS
  <2>2. mode \in {"nat", "isolated"} BY DEF TypeOK, Screens, Toggled
  <2>3. ui' = [ui EXCEPT !.field = field, !.editing = editing, !.mode = mode]
    BY DEF Activate
  <2> HIDE DEF editing, mode
  <2> QED BY <2>1, <2>2, <2>3 DEF TypeOK, Screens
<1>2. sel' \in Selections
  <2>1. CASE field = 4 /\ ChoosesUplink
    <3>1. Len(sel.uplinks) \in Nat /\ Len(sel.uplinks) > 0 BY <2>1, SelFields DEF ChoosesUplink
    <3>2. (sel.u + 1) % Len(sel.uplinks) \in Nat BY <3>1, SelFields, ModNat
    <3> QED BY <2>1, <3>2 DEF Activate, TypeOK, Selections
  <2>2. CASE ~(field = 4 /\ ChoosesUplink)
    BY <2>2 DEF Activate, TypeOK
  <2> QED BY <2>1, <2>2
<1>3. world' \in Worlds /\ snap' \in Snapshots /\ budget' \in Nat
  <2>1. CASE field = 5 BY <2>1, ToggleType DEF Activate
  <2>2. CASE field # 5 BY <2>2, BudgetType DEF Activate, TypeOK
  <2> QED BY <2>1, <2>2
<1> QED BY <1>1, <1>2, <1>3 DEF Activate, Stays, TypeOK

LEMMA ShowDeviceType ==
  ASSUME TypeOK, NEW w \in Nat, NEW clamps \in BOOLEAN, ShowDevice(w, clamps)
  PROVE  TypeOK'
<1>1. PICK list \in {Uplinks(Get(sel.wifi, w), sel.known), <<>>} :
        /\ Works \/ Trouble
        /\ sel' = [sel EXCEPT !.w = w, !.uplinks = list,
                            !.u = IF clamps THEN Clamp(@, list) ELSE @]
  BY DEF ShowDevice, Fetched
<1>2. list \in Seq(Interface) BY FetchedType
<1>3. (IF clamps THEN Clamp(sel.u, list) ELSE sel.u) \in Nat BY SelFields DEF Clamp
<1>4. sel' \in Selections BY <1>1, <1>2, <1>3 DEF TypeOK, Selections
<1> QED BY <1>1, <1>4, OnlySel DEF ShowDevice

----------------------------------------------------------------------------
(* Types: the steps *)

LEMMA InitType == Init => TypeOK
<1> SUFFICES ASSUME Init PROVE TypeOK
  OBVIOUS
<1>1. NothingListed \in Selections BY EmptySeq DEF NothingListed, Selections
<1>2. FirstScreen \in Screens BY DEF FirstScreen, Screens
<1>3. NoChange \in Links BY DEF NoChange, Links
<1>4. term \in Terminals BY DEF Init, Terminals
<1>5. world \in Worlds BY ConstantsAssumption DEF Init
<1> QED BY <1>1, <1>2, <1>3, <1>4, <1>5, NoSnapshotType DEF Init, TypeOK, Labels

LEMMA EventType ==
  ASSUME TypeOK, Events
  PROVE  TypeOK'
<1>1. CASE EditKey
  <2>1. ui' \in Screens BY <1>1 DEF EditKey, TypeOK, Screens
  <2> QED BY <1>1, <2>1, OnlyUi DEF EditKey
<1>2. CASE ClickTab BY <1>2, ShowTabType DEF ClickTab
<1>3. CASE ScrollTab
  <2>1. PICK step \in {1, 3} : ShowTab((ui.tab + step) % 4) BY <1>3 DEF ScrollTab
  <2>2. (ui.tab + step) % 4 \in 0..3
    <3>1. ui.tab \in 0..3 BY DEF TypeOK, Screens
    <3> QED BY <3>1
  <2> QED BY <2>1, <2>2, ShowTabType
<1>4. CASE TabKey BY <1>4, ShowTabType DEF TabKey
<1>5. CASE FieldKey
  <2>1. PICK step \in {1, 5} : ui' = [ui EXCEPT !.field = (@ + step) % 6] BY <1>5 DEF FieldKey
  <2>2. (ui.field + step) % 6 \in 0..5
    <3>1. ui.field \in 0..5 BY DEF TypeOK, Screens
    <3> QED BY <3>1
  <2>3. ui' \in Screens BY <2>1, <2>2 DEF TypeOK, Screens
  <2> QED BY <1>5, <2>3, OnlyUi DEF FieldKey
<1>6. CASE ScanKey
  <2>1. ui' \in Screens BY <1>6 DEF ScanKey, TypeOK, Screens
  <2> QED BY <1>6, <2>1, OnlyUi DEF ScanKey
<1>7. CASE ClickField BY <1>7, ActivateType DEF ClickField
<1>8. CASE EnterKey
  <2>1. ui.field \in 0..5 BY DEF TypeOK, Screens
  <2> QED BY <1>8, <2>1, ActivateType DEF EnterKey
<1>9. CASE HotspotKey BY <1>9, ToggleType DEF HotspotKey, Stays, TypeOK
<1>10. CASE SpaceKey
  <2>1. CASE Activate(ui.field)
    <3>1. ui.field \in 0..5 BY DEF TypeOK, Screens
    <3> QED BY <2>1, <3>1, ActivateType
  <2>2. CASE sel.wifi # <<>> /\ ShowDevice((sel.w + 1) % Len(sel.wifi), FALSE)
    <3>1. (sel.w + 1) % Len(sel.wifi) \in Nat BY <2>2, SelFields, ModNat
    <3> QED BY <2>2, <3>1, ShowDeviceType
  <2> QED BY <1>10, <2>1, <2>2 DEF SpaceKey
<1>11. CASE ModeKey
  <2>1. ui' \in Screens BY <1>11 DEF ModeKey, TypeOK, Screens, Toggled
  <2> QED BY <1>11, <2>1, OnlyUi DEF ModeKey
<1>12. CASE LeftKey
  <2>1. CASE /\ sel.wifi # <<>>
             /\ ShowDevice(IF sel.w > 0 THEN sel.w - 1 ELSE Len(sel.wifi) - 1, TRUE)
    <3>1. (IF sel.w > 0 THEN sel.w - 1 ELSE Len(sel.wifi) - 1) \in Nat BY <2>1, SelFields
    <3> QED BY <2>1, <3>1, ShowDeviceType
  <2> DEFINE u == IF sel.u > 0 THEN sel.u - 1 ELSE Len(sel.uplinks) - 1
  <2>2. CASE ChoosesUplink /\ u < Len(sel.uplinks) /\ sel' = [sel EXCEPT !.u = u]
             /\ UNCHANGED <<pc, ui, snap, term, mac, world>> /\ Works
    <3>1. u \in Nat BY <2>2, SelFields DEF ChoosesUplink
    <3>2. sel' \in Selections BY <2>2, <3>1 DEF TypeOK, Selections
    <3> QED BY <2>2, <3>2, OnlySel DEF Stays
  <2>3. CASE Exit("panic") /\ Works /\ UNCHANGED <<mac, world>>
    BY <2>3, EndLabels, ExitType
  <2> QED BY <1>12, <2>1, <2>2, <2>3 DEF LeftKey
<1>13. CASE RightKey
  <2>1. CASE /\ sel.wifi # <<>>
             /\ ShowDevice(IF sel.w + 1 < Len(sel.wifi) THEN sel.w + 1 ELSE 0, TRUE)
    <3>1. (IF sel.w + 1 < Len(sel.wifi) THEN sel.w + 1 ELSE 0) \in Nat BY SelFields
    <3> QED BY <2>1, <3>1, ShowDeviceType
  <2> DEFINE u == IF sel.u + 1 < Len(sel.uplinks) THEN sel.u + 1 ELSE 0
  <2>2. CASE sel' = [sel EXCEPT !.u = u] /\ Stays /\ Works /\ UNCHANGED <<ui, snap, world>>
    <3>1. u \in Nat BY SelFields
    <3>2. sel' \in Selections BY <2>2, <3>1 DEF TypeOK, Selections
    <3> QED BY <2>2, <3>2, OnlySel
  <2> QED BY <1>13, <2>1, <2>2 DEF RightKey
<1>14. CASE RefreshKey
  <2> DEFINE wifi == WifiDevices
             w == IF sel.w >= Len(wifi) /\ wifi # <<>> THEN Len(wifi) - 1 ELSE sel.w
             known == SetOf(wifi)
  <2>1. PICK list \in {Uplinks(Get(wifi, w), known), <<>>} :
          /\ Works \/ Trouble
          /\ sel' = [wifi |-> wifi, known |-> known, w |-> w,
                     uplinks |-> list, u |-> Clamp(sel.u, list)]
    BY <1>14 DEF RefreshKey, Fetched
  <2>2. list \in Seq(Interface) BY FetchedType
  <2>3. wifi \in Seq(Wifi) BY WifiDevicesType DEF TypeOK
  <2>4. w \in Nat
    <3>1. Len(wifi) \in Nat /\ (wifi # <<>> => Len(wifi) > 0) BY <2>3, LenProperties, EmptySeq
    <3> QED BY <3>1, SelFields
  <2>5. known \in SUBSET Wifi
    <3>1. \A i \in DOMAIN wifi : wifi[i] \in Wifi BY <2>3, LenProperties, ElementOfSeq
    <3> QED BY <3>1 DEF SetOf
  <2>6. Clamp(sel.u, list) \in Nat BY SelFields DEF Clamp
  <2> HIDE DEF wifi, w, known
  <2>7. sel' \in Selections BY <2>1, <2>2, <2>3, <2>4, <2>5, <2>6 DEF Selections
  <2> QED BY <1>14, <2>1, <2>7, OnlySel DEF RefreshKey
<1>15. CASE QuitKey BY <1>15, EndLabels, ExitType DEF QuitKey
<1>16. CASE MacKey
  <2>1. mac' \in Links BY <1>16 DEF MacKey, Links
  <2> QED BY <1>16, <2>1, BudgetType DEF MacKey, TypeOK, screen, Labels
<1>17. ASSUME NEW to \in {"nmtui", "prompt"}, Leave(to) PROVE TypeOK'
  <2>1. CASE pc' = to /\ term' = Left(term) /\ Works /\ UNCHANGED <<screen, mac, world>>
    <3>1. to \in Labels BY DEF Labels
    <3>2. term' \in Terminals BY <2>1, TermType DEF TypeOK
    <3> QED BY <2>1, <3>1, <3>2, MoveType
  <2>2. CASE HangUp(term) /\ UNCHANGED <<mac, world>>
    BY <2>2, HangUpType DEF TypeOK
  <2>3. CASE HangUp([term EXCEPT !.raw = FALSE]) /\ UNCHANGED <<mac, world>>
    <3>1. [term EXCEPT !.raw = FALSE] \in Terminals BY TermType DEF TypeOK
    <3> QED BY <2>3, <3>1, HangUpType
  <2> QED BY <1>17, <2>1, <2>2, <2>3 DEF Leave
<1>18. CASE NmtuiKey BY <1>17, <1>18 DEF NmtuiKey
<1>19. CASE ReceiveKey BY <1>17, <1>19 DEF ReceiveKey
<1> QED
  BY <1>1, <1>2, <1>3, <1>4, <1>5, <1>6, <1>7, <1>8, <1>9, <1>10, <1>11, <1>12, <1>13,
     <1>14, <1>15, <1>16, <1>18, <1>19 DEF Events

LEMMA RunsType ==
  ASSUME TypeOK, Runs
  PROVE  TypeOK'
<1>t. /\ term \in Terminals /\ Left(term) \in Terminals /\ Entered(term) \in Terminals
      /\ [term EXCEPT !.raw = TRUE] \in Terminals
  BY TermType DEF TypeOK
<1>1. CASE EnableRawMode
  <2>1. term' \in Terminals /\ (Works \/ Trouble)
    BY <1>1, <1>t, RefusedType DEF EnableRawMode, Refused
  <2> QED BY <1>1, <2>1, MoveType DEF EnableRawMode, Labels
<1>2. CASE EnterScreen
  <2>1. term' \in Terminals /\ (Works \/ Trouble)
    BY <1>2, <1>t, RefusedType DEF EnterScreen, Refused
  <2> QED BY <1>2, <2>1, MoveType DEF EnterScreen, Labels
<1>3. CASE FirstLists
  <2> DEFINE known == world.here \cap Wifi
             wifi == WifiDevices
             ap == Get(WifiDevices, 0)
  <2>1. CASE \E list \in {Uplinks(ap, known), <<>>} :
               /\ pc' = "top" /\ (Works \/ Trouble) /\ UNCHANGED <<term, ui, snap, mac, world>>
               /\ sel' = [wifi |-> wifi, known |-> known, w |-> 0, uplinks |-> list, u |-> 0]
    <3>1. PICK list \in {Uplinks(ap, known), <<>>} :
            sel' = [wifi |-> wifi, known |-> known, w |-> 0, uplinks |-> list, u |-> 0]
      BY <2>1
    <3>2. list \in Seq(Interface) BY FetchedType
    <3>3. wifi \in Seq(Wifi) /\ known \in SUBSET Wifi BY WifiDevicesType DEF TypeOK
    <3> HIDE DEF known, wifi, ap
    <3>4. sel' \in Selections BY <3>1, <3>2, <3>3 DEF Selections
    <3> QED BY <2>1, <3>4, BudgetType DEF TypeOK, Labels
  <2>2. CASE Exit("failed") /\ Trouble /\ UNCHANGED <<mac, world>>
    BY <2>2, EndLabels, ExitType
  <2> QED BY <1>3, <2>1, <2>2 DEF FirstLists, Fetched
<1>4. CASE LoopTop
  <2> DEFINE w == IF sel.w < Len(sel.wifi) THEN sel.w
                  ELSE IF sel.wifi = <<>> THEN 0 ELSE Len(sel.wifi) - 1
             device == Get(sel.wifi, w)
  <2>1. w \in Nat BY SelFields
  <2>2. device \in Wifi \cup {None} BY <2>1, SelFields, GetType
  <2>3. sel' = [sel EXCEPT !.w = w] BY <1>4 DEF LoopTop
  <2>4. \/ \E active \in BOOLEAN, stale \in BOOLEAN :
             /\ Works \/ Trouble
             /\ snap' = [iface |-> device, active |-> active, old |-> FALSE, stale |-> stale]
        \/ snap' = snap /\ Works
    BY <1>4 DEF LoopTop, Reading
  <2> HIDE DEF w, device
  <2>5. sel' \in Selections BY <2>1, <2>3 DEF TypeOK, Selections
  <2>6. snap' \in Snapshots
    <3>1. ASSUME NEW active \in BOOLEAN, NEW stale \in BOOLEAN
          PROVE  [iface |-> device, active |-> active, old |-> FALSE, stale |-> stale]
                   \in Snapshots
      BY <2>2 DEF Snapshots
    <3>2. CASE snap' = snap BY <3>2 DEF TypeOK
    <3> QED BY <2>4, <3>1, <3>2
  <2> QED BY <1>4, <2>4, <2>5, <2>6, BudgetType DEF LoopTop, TypeOK, Labels
<1>5. ASSUME HangUp(term), UNCHANGED <<mac, world>> PROVE TypeOK'
  BY <1>5, <1>t, HangUpType
<1>6. CASE Draw
  <2>1. CASE Exit("panic") /\ Works /\ UNCHANGED <<mac, world>>
    <3>1. "panic" \in Labels BY EndLabels
    <3> QED BY <2>1, <3>1, ExitType
  <2>2. CASE pc' = "poll" /\ UNCHANGED <<screen, term, mac, world>> /\ Works
    BY <2>2, <1>t, EndLabels, MoveType
  <2> QED BY <1>5, <1>6, <2>1, <2>2 DEF Draw
<1>7. CASE Poll
  <2>1. CASE pc' \in {"top", "batch"} /\ UNCHANGED <<screen, term, mac, world>> /\ Works
    BY <2>1, <1>t, EndLabels, MoveType
  <2> QED BY <1>5, <1>7, <2>1 DEF Poll
<1>8. CASE EndBatch
  <2>1. CASE pc' = "top" /\ mac' = NoChange /\ UNCHANGED <<screen, term, world>> /\ Works
    <3>1. mac' \in Links BY <2>1 DEF NoChange, Links
    <3> QED BY <2>1, <3>1, BudgetType DEF TypeOK, screen, Labels
  <2>2. CASE Gone("spin") /\ UNCHANGED <<mac, term, world>> /\ Works
    <3>1. /\ pc' \in Labels /\ ui' \in Screens /\ sel' \in Selections /\ snap' \in Snapshots
      BY <2>2, EndLabels, GoneType
    <3> QED BY <2>2, <3>1, BudgetType DEF TypeOK
  <2> QED BY <1>5, <1>8, <2>1, <2>2 DEF EndBatch
<1>9. CASE LinkDown
  <2>1. mac' \in Links BY <1>9 DEF LinkDown, TypeOK, Links
  <2> QED BY <1>9, <2>1, BudgetType DEF LinkDown, TypeOK, screen, Labels
<1>10. CASE Macchanger
  BY <1>10, <1>t, MoveType DEF Macchanger, Labels
<1>11. CASE LinkUp
  <2>1. mac' \in Links BY <1>11 DEF LinkUp, TypeOK, Links
  <2> QED BY <1>11, <2>1, BudgetType DEF LinkUp, TypeOK, screen, Labels
<1> QED
  BY <1>1, <1>2, <1>3, <1>4, <1>6, <1>7, <1>8, <1>9, <1>10, <1>11 DEF Runs

LEMMA ChangesType ==
  ASSUME TypeOK, NEW w \in Worlds, Changes(w)
  PROVE  TypeOK'
<1>1. snap' \in Snapshots BY DEF Changes, TypeOK, Snapshots
<1>2. world' \in Worlds BY DEF Changes
<1> QED BY <1>1, <1>2, BudgetType DEF Changes, TypeOK

LEMMA OthersType ==
  ASSUME TypeOK, Others
  PROVE  TypeOK'
<1>t. /\ term \in Terminals /\ Entered(term) \in Terminals
      /\ [term EXCEPT !.raw = TRUE] \in Terminals /\ [term EXCEPT !.gone = TRUE] \in Terminals
  BY TermType DEF TypeOK
<1>w. /\ world.here \in SUBSET Interface /\ world.gateway \in Interface \cup {None}
      /\ world.ap \in Wifi \cup {None} /\ world \in Worlds
  BY WorldFields DEF TypeOK
<1>1. ASSUME CannotTakeBack, UNCHANGED <<mac, world>> PROVE TypeOK'
  BY <1>1, <1>t, HangUpType DEF CannotTakeBack
<1>2. ASSUME TakeBack, UNCHANGED <<screen, mac, world>> PROVE TypeOK'
  BY <1>2, <1>t, EndLabels, MoveType DEF TakeBack
<1>3. CASE NmtuiReturns
  <2>1. CASE TakeBack /\ sel' = [sel EXCEPT !.wifi = WifiDevices]
             /\ UNCHANGED <<ui, snap, mac, world>>
    <3>1. WifiDevices \in Seq(Wifi) BY <1>w, WifiDevicesType
    <3>2. sel' \in Selections BY <2>1, <3>1 DEF TypeOK, Selections
    <3> QED BY <1>t, <2>1, <3>2, EndLabels, BudgetType DEF TakeBack, TypeOK
  <2> QED BY <1>1, <1>3, <2>1 DEF NmtuiReturns
<1>4. CASE Answered BY <1>4, <1>t, MoveType DEF Answered, Labels
<1>5. CASE Cancelled BY <1>1, <1>2, <1>5 DEF Cancelled
<1>6. CASE ReceiverReturns BY <1>1, <1>2, <1>6 DEF ReceiverReturns
<1>7. CASE CtrlC
  <2>1. /\ pc' \in Labels /\ ui' \in Screens /\ sel' \in Selections /\ snap' \in Snapshots
    BY <1>7, EndLabels, GoneType DEF CtrlC
  <2> QED BY <1>7, <2>1, BudgetType DEF CtrlC, TypeOK
<1>8. CASE Hangup
  <2>1. /\ pc' \in Labels /\ ui' \in Screens /\ sel' \in Selections /\ snap' \in Snapshots
    BY <1>8, EndLabels, GoneType DEF Hangup, screen, TypeOK
  <2> QED BY <1>8, <1>t, <2>1, BudgetType DEF Hangup, TypeOK
<1>9. CASE TwoSeconds
  <2>1. snap' \in Snapshots BY <1>9 DEF TwoSeconds, TypeOK, Snapshots
  <2> QED BY <1>9, <2>1, BudgetType DEF TwoSeconds, TypeOK
<1>10. CASE Plug
  <2>1. PICK i \in Interface, here \in SUBSET Interface :
          Changes([here |-> here, gateway |-> Kept(world.gateway, here),
                   ap |-> Kept(world.ap, here)])
    <3>1. PICK i \in Interface :
            LET here == IF i \in world.here THEN world.here \ {i} ELSE world.here \cup {i}
            IN Changes([here |-> here, gateway |-> Kept(world.gateway, here),
                        ap |-> Kept(world.ap, here)])
      BY <1>10 DEF Plug
    <3> DEFINE here == IF i \in world.here THEN world.here \ {i} ELSE world.here \cup {i}
    <3>2. here \in SUBSET Interface BY <1>w
    <3> HIDE DEF here
    <3> QED BY <3>1, <3>2 DEF here
  <2>2. /\ Kept(world.gateway, here) \in Interface \cup {None}
        /\ Kept(world.ap, here) \in Wifi \cup {None}
    BY <1>w DEF Kept
  <2> QED BY <2>1, <2>2, ChangesType DEF Worlds
<1>11. CASE GatewayChanges
  <2>1. PICK i \in Interface \cup {None} : Changes([world EXCEPT !.gateway = i])
    BY <1>11, <1>w DEF GatewayChanges
  <2>2. [world EXCEPT !.gateway = i] \in Worlds BY <1>w DEF Worlds
  <2> QED BY <2>1, <2>2, ChangesType
<1>12. CASE ApChanges
  <2>1. PICK i \in Wifi \cup {None} : Changes([world EXCEPT !.ap = i])
    BY <1>12, <1>w DEF ApChanges
  <2>2. [world EXCEPT !.ap = i] \in Worlds BY <1>w DEF Worlds
  <2> QED BY <2>1, <2>2, ChangesType
<1> QED
  BY <1>3, <1>4, <1>5, <1>6, <1>7, <1>8, <1>9, <1>10, <1>11, <1>12 DEF Others

LEMMA TypeStep == TypeOK /\ [Next]_vars => TypeOK'
<1> SUFFICES ASSUME TypeOK, [Next]_vars PROVE TypeOK'
  OBVIOUS
<1>1. CASE Next BY <1>1, EventType, RunsType, OthersType DEF Next
<1>2. CASE UNCHANGED vars BY <1>2 DEF vars, TypeOK
<1> QED BY <1>1, <1>2

(* Every variable keeps its type, whatever is found, toggled, selected and *)
(* unplugged; no index goes below 0 (main.rs 1854, 1875, 2122).            *)
THEOREM TypeCorrect == Spec => []TypeOK
<1> QED BY InitType, TypeStep, PTL DEF Spec

----------------------------------------------------------------------------
(* The link *)

(* What change_mac has done so far: the link is as it was until `ip link   *)
(* set down` succeeds, is then down, and is set up only if it was.         *)
LinkKept ==
  /\ LinkAsBefore
  /\ pc = "down" => mac.up = mac.was
  /\ pc = "change" => ~mac.up
  /\ pc = "up" => mac.was

LEMMA LinkStep ==
  ASSUME TypeOK, LinkKept, Next
  PROVE  LinkKept'
<1> USE DEF LinkKept, LinkAsBefore, TypeOK, Links
<1>1. CASE EditKey
  BY <1>1 DEF EditKey, Stays, Event
<1>2. CASE ClickTab
  BY <1>2 DEF ClickTab, ShowTab, Stays, Event
<1>3. CASE ScrollTab
  BY <1>3 DEF ScrollTab, ShowTab, Stays, Event
<1>4. CASE TabKey
  BY <1>4 DEF TabKey, ShowTab, Stays, Key, Event
<1>5. CASE FieldKey
  BY <1>5 DEF FieldKey, Stays, Key, Event
<1>6. CASE ScanKey
  BY <1>6 DEF ScanKey, Stays, Key, Event
<1>7. CASE ClickField
  BY <1>7 DEF ClickField, Activate, Stays, Event
<1>8. CASE EnterKey
  BY <1>8 DEF EnterKey, Activate, Stays, Key, Event
<1>9. CASE HotspotKey
  BY <1>9 DEF HotspotKey, Stays, Key, Event
<1>10. CASE SpaceKey
  BY <1>10 DEF SpaceKey, Activate, ShowDevice, Stays, Key, Event
<1>11. CASE ModeKey
  BY <1>11 DEF ModeKey, Stays, Key, Event
<1>12. CASE LeftKey
  BY <1>12 DEF LeftKey, ShowDevice, Stays, Key, Event, Exit, Gone, Left
<1>13. CASE RightKey
  BY <1>13 DEF RightKey, ShowDevice, Stays, Key, Event
<1>14. CASE RefreshKey
  BY <1>14 DEF RefreshKey, Stays, Key, Event
<1>15. CASE QuitKey
  BY <1>15 DEF QuitKey, Key, Event, Exit, Gone, Left
<1>16. CASE MacKey
  BY <1>16 DEF MacKey, Key, Event
<1>17. CASE NmtuiKey
  BY <1>17 DEF NmtuiKey, Leave, Key, Event, HangUp, Refused, Gone, Left
<1>18. CASE ReceiveKey
  BY <1>18 DEF ReceiveKey, Leave, Key, Event, HangUp, Refused, Gone, Left
<1>19. CASE EnableRawMode
  BY <1>19 DEF EnableRawMode, Refused
<1>20. CASE EnterScreen
  BY <1>20 DEF EnterScreen, Refused, Left, Entered
<1>21. CASE FirstLists
  BY <1>21 DEF FirstLists, Exit, Gone, Left
<1>22. CASE LoopTop
  BY <1>22 DEF LoopTop
<1>23. CASE Draw
  BY <1>23 DEF Draw, Exit, HangUp, Refused, Gone, Left
<1>24. CASE Poll
  BY <1>24 DEF Poll, HangUp, Refused, Gone
<1>25. CASE EndBatch
  <2>1. CASE pc' = "top" /\ mac' = NoChange
    BY <2>1 DEF NoChange
  <2>2. CASE pc = "batch" /\ pc' \in {"ended", "spin"} /\ UNCHANGED mac
    BY <2>2
  <2> QED BY <1>25, <2>1, <2>2 DEF EndBatch, HangUp, Gone
<1>26. CASE LinkDown
  BY <1>26 DEF LinkDown
<1>27. CASE Macchanger
  BY <1>27 DEF Macchanger
<1>28. CASE LinkUp
  BY <1>28 DEF LinkUp
<1>29. CASE NmtuiReturns
  BY <1>29 DEF NmtuiReturns, TakeBack, CannotTakeBack, HangUp, Refused, Gone, Entered
<1>30. CASE Answered
  BY <1>30 DEF Answered
<1>31. CASE Cancelled
  BY <1>31 DEF Cancelled, TakeBack, CannotTakeBack, HangUp, Refused, Gone, Entered
<1>32. CASE ReceiverReturns
  BY <1>32 DEF ReceiverReturns, TakeBack, CannotTakeBack, HangUp, Refused, Gone, Entered
<1>33. CASE CtrlC
  BY <1>33 DEF CtrlC, Gone
<1>34. CASE Hangup
  BY <1>34 DEF Hangup, Gone, Over
<1>35. CASE TwoSeconds
  BY <1>35 DEF TwoSeconds, Over
<1>36. CASE Plug
  BY <1>36 DEF Plug, Changes, Over
<1>37. CASE GatewayChanges
  BY <1>37 DEF GatewayChanges, Changes, Over
<1>38. CASE ApChanges
  BY <1>38 DEF ApChanges, Changes, Over
<1> QED
  BY <1>1, <1>2, <1>3, <1>4, <1>5, <1>6, <1>7, <1>8, <1>9, <1>10, <1>11,
     <1>12, <1>13, <1>14, <1>15, <1>16, <1>17, <1>18, <1>19, <1>20, <1>21,
     <1>22, <1>23, <1>24, <1>25, <1>26, <1>27, <1>28, <1>29, <1>30, <1>31,
     <1>32, <1>33, <1>34, <1>35, <1>36, <1>37, <1>38
  DEF Next, Events, Runs, Others

(* Whatever of a MAC change fails, and wherever it ends, the interface's   *)
(* link is up or down as it was before (main.rs 370-402).                  *)
THEOREM LinkRestored == Spec => []LinkAsBefore
<1>1. Init => LinkKept
  BY DEF Init, NoChange, LinkKept, LinkAsBefore
<1>2. TypeOK /\ LinkKept /\ [Next]_vars => LinkKept'
  <2>1. CASE UNCHANGED vars BY <2>1 DEF vars, LinkKept, LinkAsBefore
  <2> QED BY <2>1, LinkStep
<1>3. LinkKept => LinkAsBefore
  BY DEF LinkKept
<1> QED BY <1>1, <1>2, <1>3, TypeCorrect, PTL DEF Spec

----------------------------------------------------------------------------
(* The terminal *)

(* And while others have the terminal and Ctrl-C may end everything: a     *)
(* terminal that is there has been given back.                             *)
TerminalKept ==
  /\ TerminalRestored
  /\ pc \in {"prompt", "receive"} /\ ~term.gone => ~term.raw /\ ~term.alt

LEMMA TerminalStep ==
  ASSUME TypeOK, TerminalKept, Next
  PROVE  TerminalKept'
<1> USE DEF TerminalKept, TerminalRestored, Over, TypeOK, Terminals
<1>1. CASE EditKey
  BY <1>1 DEF EditKey, Stays, Event
<1>2. CASE ClickTab
  BY <1>2 DEF ClickTab, ShowTab, Stays, Event
<1>3. CASE ScrollTab
  BY <1>3 DEF ScrollTab, ShowTab, Stays, Event
<1>4. CASE TabKey
  BY <1>4 DEF TabKey, ShowTab, Stays, Key, Event
<1>5. CASE FieldKey
  BY <1>5 DEF FieldKey, Stays, Key, Event
<1>6. CASE ScanKey
  BY <1>6 DEF ScanKey, Stays, Key, Event
<1>7. CASE ClickField
  BY <1>7 DEF ClickField, Activate, Stays, Event
<1>8. CASE EnterKey
  BY <1>8 DEF EnterKey, Activate, Stays, Key, Event
<1>9. CASE HotspotKey
  BY <1>9 DEF HotspotKey, Stays, Key, Event
<1>10. CASE SpaceKey
  BY <1>10 DEF SpaceKey, Activate, ShowDevice, Stays, Key, Event
<1>11. CASE ModeKey
  BY <1>11 DEF ModeKey, Stays, Key, Event
<1>12. CASE LeftKey
  BY <1>12 DEF LeftKey, ShowDevice, Stays, Key, Event, Exit, Gone, Left
<1>13. CASE RightKey
  BY <1>13 DEF RightKey, ShowDevice, Stays, Key, Event
<1>14. CASE RefreshKey
  BY <1>14 DEF RefreshKey, Stays, Key, Event
<1>15. CASE QuitKey
  BY <1>15 DEF QuitKey, Key, Event, Exit, Gone, Left
<1>16. CASE MacKey
  BY <1>16 DEF MacKey, Key, Event
<1>17. CASE NmtuiKey
  BY <1>17 DEF NmtuiKey, Leave, Key, Event, HangUp, Refused, Gone, Left
<1>18. CASE ReceiveKey
  BY <1>18 DEF ReceiveKey, Leave, Key, Event, HangUp, Refused, Gone, Left
<1>19. CASE EnableRawMode
  BY <1>19 DEF EnableRawMode, Refused
<1>20. CASE EnterScreen
  BY <1>20 DEF EnterScreen, Refused, Left, Entered
<1>21. CASE FirstLists
  BY <1>21 DEF FirstLists, Exit, Gone, Left
<1>22. CASE LoopTop
  BY <1>22 DEF LoopTop
<1>23. CASE Draw
  BY <1>23 DEF Draw, Exit, HangUp, Refused, Gone, Left
<1>24. CASE Poll
  BY <1>24 DEF Poll, HangUp, Refused, Gone
<1>25. CASE EndBatch
  BY <1>25 DEF EndBatch, HangUp, Refused, Gone, NoChange
<1>26. CASE LinkDown
  BY <1>26 DEF LinkDown
<1>27. CASE Macchanger
  BY <1>27 DEF Macchanger
<1>28. CASE LinkUp
  BY <1>28 DEF LinkUp
<1>29. CASE NmtuiReturns
  BY <1>29 DEF NmtuiReturns, TakeBack, CannotTakeBack, HangUp, Refused, Gone, Entered
<1>30. CASE Answered
  BY <1>30 DEF Answered
<1>31. CASE Cancelled
  BY <1>31 DEF Cancelled, TakeBack, CannotTakeBack, HangUp, Refused, Gone, Entered
<1>32. CASE ReceiverReturns
  BY <1>32 DEF ReceiverReturns, TakeBack, CannotTakeBack, HangUp, Refused, Gone, Entered
<1>33. CASE CtrlC
  BY <1>33 DEF CtrlC, Gone
<1>34. CASE Hangup
  BY <1>34 DEF Hangup, Gone, Over
<1>35. CASE TwoSeconds
  BY <1>35 DEF TwoSeconds, Over
<1>36. CASE Plug
  BY <1>36 DEF Plug, Changes, Over
<1>37. CASE GatewayChanges
  BY <1>37 DEF GatewayChanges, Changes, Over
<1>38. CASE ApChanges
  BY <1>38 DEF ApChanges, Changes, Over
<1> QED
  BY <1>1, <1>2, <1>3, <1>4, <1>5, <1>6, <1>7, <1>8, <1>9, <1>10, <1>11,
     <1>12, <1>13, <1>14, <1>15, <1>16, <1>17, <1>18, <1>19, <1>20, <1>21,
     <1>22, <1>23, <1>24, <1>25, <1>26, <1>27, <1>28, <1>29, <1>30, <1>31,
     <1>32, <1>33, <1>34, <1>35, <1>36, <1>37, <1>38
  DEF Next, Events, Runs, Others

(* However the interface ends, a terminal that is there and of which no    *)
(* call has failed is out of raw mode and of the alternate screen          *)
(* (TerminalCleanup and the panic hook, main.rs 889-912).                  *)
THEOREM TerminalGivenBack == Spec => []TerminalRestored
<1>1. Init => TerminalKept
  BY DEF Init, TerminalKept, TerminalRestored, Over
<1>2. TypeOK /\ TerminalKept /\ [Next]_vars => TerminalKept'
  <2>1. CASE UNCHANGED vars BY <2>1 DEF vars, TerminalKept, TerminalRestored, Over
  <2> QED BY <2>1, TerminalStep
<1>3. TerminalKept => TerminalRestored
  BY DEF TerminalKept
<1> QED BY <1>1, <1>2, <1>3, TypeCorrect, PTL DEF Spec

----------------------------------------------------------------------------
(* The screen *)

(* What is edited is shown.                                                *)
EditingShown == ui.editing => ui.tab = 3 /\ ui.field \in {1, 2}

(* A snapshot that nobody has made wrong is right, at any time.            *)
SnapshotTrue ==
  snap.iface # None /\ ~snap.stale => snap.active = (world.ap = snap.iface)

(* What LoopTop hands to Draw.                                             *)
DrawFresh ==
  pc = "draw" /\ ui.tab = 3 /\ sel.wifi # <<>> =>
    Selected # None /\ snap.iface = Selected /\ ~snap.old

ScreenKept == EditingShown /\ SnapshotTrue /\ DrawFresh

LEMMA EditingStep ==
  ASSUME TypeOK, EditingShown, Next
  PROVE  EditingShown'
<1> USE DEF EditingShown, TypeOK, Screens
<1>1. CASE EditKey
  BY <1>1 DEF EditKey
<1>2. CASE ClickTab
  BY <1>2 DEF ClickTab, ShowTab
<1>3. CASE ScrollTab
  BY <1>3 DEF ScrollTab, ShowTab
<1>4. CASE TabKey
  BY <1>4 DEF TabKey, ShowTab
<1>5. CASE FieldKey
  BY <1>5 DEF FieldKey, Key
<1>6. CASE ScanKey
  BY <1>6 DEF ScanKey, Key
<1>7. CASE ClickField
  <2>1. PICK field \in 0..5 : Activate(field) /\ ui.tab = 3 BY <1>7 DEF ClickField
  <2> QED BY <2>1 DEF Activate
<1>8. CASE EnterKey
  BY <1>8 DEF EnterKey, Activate, Key
<1>9. CASE HotspotKey
  BY <1>9 DEF HotspotKey
<1>10. CASE SpaceKey
  BY <1>10 DEF SpaceKey, Activate, ShowDevice, Key
<1>11. CASE ModeKey
  BY <1>11 DEF ModeKey, Key
<1>12. CASE LeftKey
  BY <1>12 DEF LeftKey, ShowDevice, Exit, Gone, FirstScreen
<1>13. CASE RightKey
  BY <1>13 DEF RightKey, ShowDevice
<1>14. CASE RefreshKey
  BY <1>14 DEF RefreshKey
<1>15. CASE QuitKey
  BY <1>15 DEF QuitKey, Exit, Gone, FirstScreen
<1>16. CASE MacKey
  BY <1>16 DEF MacKey, screen
<1>17. CASE NmtuiKey
  BY <1>17 DEF NmtuiKey, Leave, HangUp, Gone, FirstScreen, screen
<1>18. CASE ReceiveKey
  BY <1>18 DEF ReceiveKey, Leave, HangUp, Gone, FirstScreen, screen
<1>19. CASE EnableRawMode
  BY <1>19 DEF EnableRawMode, screen
<1>20. CASE EnterScreen
  BY <1>20 DEF EnterScreen, screen
<1>21. CASE FirstLists
  BY <1>21 DEF FirstLists, Exit, Gone, FirstScreen
<1>22. CASE LoopTop
  BY <1>22 DEF LoopTop
<1>23. CASE Draw
  BY <1>23 DEF Draw, Exit, HangUp, Gone, FirstScreen, screen
<1>24. CASE Poll
  BY <1>24 DEF Poll, HangUp, Gone, FirstScreen, screen
<1>25. CASE EndBatch
  BY <1>25 DEF EndBatch, HangUp, Gone, FirstScreen, screen
<1>26. CASE LinkDown
  BY <1>26 DEF LinkDown, screen
<1>27. CASE Macchanger
  BY <1>27 DEF Macchanger, screen
<1>28. CASE LinkUp
  BY <1>28 DEF LinkUp, screen
<1>29. CASE NmtuiReturns
  BY <1>29 DEF NmtuiReturns, TakeBack, CannotTakeBack, HangUp, Gone, FirstScreen
<1>30. CASE Answered
  BY <1>30 DEF Answered, screen
<1>31. CASE Cancelled
  BY <1>31 DEF Cancelled, TakeBack, CannotTakeBack, HangUp, Gone, FirstScreen, screen
<1>32. CASE ReceiverReturns
  BY <1>32 DEF ReceiverReturns, TakeBack, CannotTakeBack, HangUp, Gone, FirstScreen, screen
<1>33. CASE CtrlC
  BY <1>33 DEF CtrlC, Gone, FirstScreen
<1>34. CASE Hangup
  BY <1>34 DEF Hangup, Gone, FirstScreen, screen
<1>35. CASE TwoSeconds
  BY <1>35 DEF TwoSeconds
<1>36. CASE Plug
  BY <1>36 DEF Plug, Changes
<1>37. CASE GatewayChanges
  BY <1>37 DEF GatewayChanges, Changes
<1>38. CASE ApChanges
  BY <1>38 DEF ApChanges, Changes
<1> QED
  BY <1>1, <1>2, <1>3, <1>4, <1>5, <1>6, <1>7, <1>8, <1>9, <1>10, <1>11,
     <1>12, <1>13, <1>14, <1>15, <1>16, <1>17, <1>18, <1>19, <1>20, <1>21,
     <1>22, <1>23, <1>24, <1>25, <1>26, <1>27, <1>28, <1>29, <1>30, <1>31,
     <1>32, <1>33, <1>34, <1>35, <1>36, <1>37, <1>38
  DEF Next, Events, Runs, Others

(* A step leaves the snapshot and the system alone, drops the snapshot, or *)
(* is one of three: it is read, two seconds pass, or others change things. *)
LEMMA SnapshotSteps ==
  ASSUME Next
  PROVE  \/ UNCHANGED <<world, snap>> \/ snap' = NoSnapshot
         \/ LoopTop \/ TwoSeconds \/ \E w : Changes(w)
<1>1. CASE EditKey
  BY <1>1 DEF EditKey
<1>2. CASE ClickTab
  BY <1>2 DEF ClickTab, ShowTab
<1>3. CASE ScrollTab
  BY <1>3 DEF ScrollTab, ShowTab
<1>4. CASE TabKey
  BY <1>4 DEF TabKey, ShowTab
<1>5. CASE FieldKey
  BY <1>5 DEF FieldKey
<1>6. CASE ScanKey
  BY <1>6 DEF ScanKey
<1>7. CASE ClickField
  <2>1. ToggleHotspot \/ UNCHANGED <<world, snap>> BY <1>7 DEF ClickField, Activate
  <2> QED BY <2>1 DEF ToggleHotspot
<1>8. CASE EnterKey
  <2>1. ToggleHotspot \/ UNCHANGED <<world, snap>> BY <1>8 DEF EnterKey, Activate
  <2> QED BY <2>1 DEF ToggleHotspot
<1>9. CASE HotspotKey
  <2>1. ToggleHotspot \/ UNCHANGED <<world, snap>> BY <1>9 DEF HotspotKey
  <2> QED BY <2>1 DEF ToggleHotspot
<1>10. CASE SpaceKey
  <2>1. ToggleHotspot \/ UNCHANGED <<world, snap>> BY <1>10 DEF SpaceKey, Activate, ShowDevice
  <2> QED BY <2>1 DEF ToggleHotspot
<1>11. CASE ModeKey
  BY <1>11 DEF ModeKey
<1>12. CASE LeftKey
  BY <1>12 DEF LeftKey, ShowDevice, Exit, Gone, NoSnapshot
<1>13. CASE RightKey
  BY <1>13 DEF RightKey, ShowDevice
<1>14. CASE RefreshKey
  BY <1>14 DEF RefreshKey
<1>15. CASE QuitKey
  BY <1>15 DEF QuitKey, Exit, Gone, NoSnapshot
<1>16. CASE MacKey
  BY <1>16 DEF MacKey, screen
<1>17. CASE NmtuiKey
  BY <1>17 DEF NmtuiKey, Leave, HangUp, Gone, NoSnapshot, screen
<1>18. CASE ReceiveKey
  BY <1>18 DEF ReceiveKey, Leave, HangUp, Gone, NoSnapshot, screen
<1>19. CASE EnableRawMode
  BY <1>19 DEF EnableRawMode, screen
<1>20. CASE EnterScreen
  BY <1>20 DEF EnterScreen, screen
<1>21. CASE FirstLists
  BY <1>21 DEF FirstLists, Exit, Gone, NoSnapshot
<1>22. CASE LoopTop
  BY <1>22
<1>23. CASE Draw
  BY <1>23 DEF Draw, Exit, HangUp, Gone, NoSnapshot, screen
<1>24. CASE Poll
  BY <1>24 DEF Poll, HangUp, Gone, NoSnapshot, screen
<1>25. CASE EndBatch
  BY <1>25 DEF EndBatch, HangUp, Gone, NoSnapshot, screen
<1>26. CASE LinkDown
  BY <1>26 DEF LinkDown, screen
<1>27. CASE Macchanger
  BY <1>27 DEF Macchanger, screen
<1>28. CASE LinkUp
  BY <1>28 DEF LinkUp, screen
<1>29. CASE NmtuiReturns
  BY <1>29 DEF NmtuiReturns, TakeBack, CannotTakeBack, HangUp, Gone, NoSnapshot
<1>30. CASE Answered
  BY <1>30 DEF Answered, screen
<1>31. CASE Cancelled
  BY <1>31 DEF Cancelled, TakeBack, CannotTakeBack, HangUp, Gone, NoSnapshot, screen
<1>32. CASE ReceiverReturns
  BY <1>32 DEF ReceiverReturns, TakeBack, CannotTakeBack, HangUp, Gone, NoSnapshot, screen
<1>33. CASE CtrlC
  BY <1>33 DEF CtrlC, Gone, NoSnapshot
<1>34. CASE Hangup
  BY <1>34 DEF Hangup, Gone, NoSnapshot, screen
<1>35. CASE TwoSeconds
  BY <1>35
<1>36. CASE Plug
  BY <1>36 DEF Plug
<1>37. CASE GatewayChanges
  BY <1>37 DEF GatewayChanges
<1>38. CASE ApChanges
  BY <1>38 DEF ApChanges
<1> QED
  BY <1>1, <1>2, <1>3, <1>4, <1>5, <1>6, <1>7, <1>8, <1>9, <1>10, <1>11,
     <1>12, <1>13, <1>14, <1>15, <1>16, <1>17, <1>18, <1>19, <1>20, <1>21,
     <1>22, <1>23, <1>24, <1>25, <1>26, <1>27, <1>28, <1>29, <1>30, <1>31,
     <1>32, <1>33, <1>34, <1>35, <1>36, <1>37, <1>38
  DEF Next, Events, Runs, Others

LEMMA SnapshotStep ==
  ASSUME TypeOK, SnapshotTrue, Next
  PROVE  SnapshotTrue'
<1>1. CASE UNCHANGED <<world, snap>> BY <1>1 DEF SnapshotTrue
<1>2. CASE snap' = NoSnapshot BY <1>2 DEF SnapshotTrue, NoSnapshot
<1>3. CASE LoopTop
  <2>1. UNCHANGED world BY <1>3 DEF LoopTop
  <2> DEFINE w == IF sel.w < Len(sel.wifi) THEN sel.w
                  ELSE IF sel.wifi = <<>> THEN 0 ELSE Len(sel.wifi) - 1
             device == Get(sel.wifi, w)
  <2>2. \/ snap' = snap
        \/ \E active \in BOOLEAN :
             snap' = [iface |-> device, active |-> active, old |-> FALSE,
                      stale |-> active # (world.ap = device)]
    BY <1>3 DEF LoopTop
  <2> HIDE DEF w, device
  <2>3. CASE snap' = snap BY <2>1, <2>3 DEF SnapshotTrue
  <2>4. ASSUME NEW active \in BOOLEAN,
               snap' = [iface |-> device, active |-> active, old |-> FALSE,
                        stale |-> active # (world.ap = device)]
        PROVE  SnapshotTrue'
    <3>1. snap'.iface = device /\ snap'.active = active BY <2>4
    <3>2. snap'.stale = (active # (world.ap = device)) BY <2>4
    <3> QED BY <2>1, <3>1, <3>2 DEF SnapshotTrue
  <2> QED BY <2>2, <2>3, <2>4
<1>4. CASE TwoSeconds
  BY <1>4 DEF TwoSeconds, SnapshotTrue, TypeOK, Snapshots
<1>5. ASSUME NEW w, Changes(w) PROVE SnapshotTrue'
  BY <1>5 DEF Changes, SnapshotTrue, NoSnapshot, TypeOK, Snapshots
<1> QED BY <1>1, <1>2, <1>3, <1>4, <1>5, SnapshotSteps

(* Nothing happens between LoopTop and Draw but a hangup, or a change that *)
(* the snapshot is marked with.                                            *)
LEMMA DrawSteps ==
  ASSUME Next, pc' = "draw"
  PROVE  \/ LoopTop
         \/ pc = "draw" /\ UNCHANGED <<ui, sel, snap>>
         \/ pc = "draw" /\ \E w : Changes(w)
<1>1. CASE EditKey
  BY <1>1 DEF EditKey, Stays, Event
<1>2. CASE ClickTab
  BY <1>2 DEF ClickTab, ShowTab, Stays, Event
<1>3. CASE ScrollTab
  BY <1>3 DEF ScrollTab, ShowTab, Stays, Event
<1>4. CASE TabKey
  BY <1>4 DEF TabKey, ShowTab, Stays, Key, Event
<1>5. CASE FieldKey
  BY <1>5 DEF FieldKey, Stays, Key, Event
<1>6. CASE ScanKey
  BY <1>6 DEF ScanKey, Stays, Key, Event
<1>7. CASE ClickField
  BY <1>7 DEF ClickField, Activate, Stays, Event
<1>8. CASE EnterKey
  BY <1>8 DEF EnterKey, Activate, Stays, Key, Event
<1>9. CASE HotspotKey
  BY <1>9 DEF HotspotKey, Stays, Key, Event
<1>10. CASE SpaceKey
  BY <1>10 DEF SpaceKey, Activate, ShowDevice, Stays, Key, Event
<1>11. CASE ModeKey
  BY <1>11 DEF ModeKey, Stays, Key, Event
<1>12. CASE LeftKey
  BY <1>12 DEF LeftKey, ShowDevice, Stays, Key, Event, Exit, Gone
<1>13. CASE RightKey
  BY <1>13 DEF RightKey, ShowDevice, Stays, Key, Event
<1>14. CASE RefreshKey
  BY <1>14 DEF RefreshKey, Stays, Key, Event
<1>15. CASE QuitKey
  BY <1>15 DEF QuitKey, Key, Event, Exit, Gone
<1>16. CASE MacKey
  BY <1>16 DEF MacKey, Key, Event
<1>17. CASE NmtuiKey
  BY <1>17 DEF NmtuiKey, Leave, Key, Event, HangUp, Gone
<1>18. CASE ReceiveKey
  BY <1>18 DEF ReceiveKey, Leave, Key, Event, HangUp, Gone
<1>19. CASE EnableRawMode
  BY <1>19 DEF EnableRawMode
<1>20. CASE EnterScreen
  BY <1>20 DEF EnterScreen
<1>21. CASE FirstLists
  BY <1>21 DEF FirstLists, Exit, Gone
<1>22. CASE LoopTop
  BY <1>22
<1>23. CASE Draw
  BY <1>23 DEF Draw, Exit, HangUp, Gone
<1>24. CASE Poll
  BY <1>24 DEF Poll, HangUp, Gone
<1>25. CASE EndBatch
  BY <1>25 DEF EndBatch, HangUp, Gone
<1>26. CASE LinkDown
  BY <1>26 DEF LinkDown
<1>27. CASE Macchanger
  BY <1>27 DEF Macchanger
<1>28. CASE LinkUp
  BY <1>28 DEF LinkUp
<1>29. CASE NmtuiReturns
  BY <1>29 DEF NmtuiReturns, TakeBack, CannotTakeBack, HangUp, Gone
<1>30. CASE Answered
  BY <1>30 DEF Answered
<1>31. CASE Cancelled
  BY <1>31 DEF Cancelled, TakeBack, CannotTakeBack, HangUp, Gone
<1>32. CASE ReceiverReturns
  BY <1>32 DEF ReceiverReturns, TakeBack, CannotTakeBack, HangUp, Gone
<1>33. CASE CtrlC
  BY <1>33 DEF CtrlC, Gone
<1>34. CASE Hangup
  BY <1>34 DEF Hangup, Gone, screen
<1>35. CASE TwoSeconds
  BY <1>35 DEF TwoSeconds
<1>36. CASE Plug
  BY <1>36 DEF Plug, Changes
<1>37. CASE GatewayChanges
  BY <1>37 DEF GatewayChanges, Changes
<1>38. CASE ApChanges
  BY <1>38 DEF ApChanges, Changes
<1> QED
  BY <1>1, <1>2, <1>3, <1>4, <1>5, <1>6, <1>7, <1>8, <1>9, <1>10, <1>11,
     <1>12, <1>13, <1>14, <1>15, <1>16, <1>17, <1>18, <1>19, <1>20, <1>21,
     <1>22, <1>23, <1>24, <1>25, <1>26, <1>27, <1>28, <1>29, <1>30, <1>31,
     <1>32, <1>33, <1>34, <1>35, <1>36, <1>37, <1>38
  DEF Next, Events, Runs, Others

LEMMA DrawStep ==
  ASSUME TypeOK, DrawFresh, Next
  PROVE  DrawFresh'
<1> SUFFICES ASSUME pc' = "draw", ui'.tab = 3, sel'.wifi # <<>>
             PROVE  Selected' # None /\ snap'.iface = Selected' /\ ~snap'.old
  BY DEF DrawFresh
<1>1. CASE LoopTop
  <2> DEFINE w == IF sel.w < Len(sel.wifi) THEN sel.w
                  ELSE IF sel.wifi = <<>> THEN 0 ELSE Len(sel.wifi) - 1
             device == Get(sel.wifi, w)
  <2>1. sel' = [sel EXCEPT !.w = w] /\ ui' = ui BY <1>1 DEF LoopTop
  <2>2. sel'.wifi = sel.wifi /\ sel'.w = w BY <2>1 DEF TypeOK, Selections
  <2>3. Selected' = device BY <2>2 DEF Selected, Get
  <2>4. w \in Nat /\ w < Len(sel.wifi) BY <2>2, SelFields
  <2>5. device \in Wifi BY <2>4, SelFields, GetType
  <2>6. device # None BY <2>5, ConstantsAssumption
  <2>7. \/ \E active, stale :
             snap' = [iface |-> device, active |-> active, old |-> FALSE, stale |-> stale]
        \/ snap' = snap /\ snap.iface = device /\ ~snap.old
    BY <1>1, <2>1, <2>6 DEF LoopTop
  <2> HIDE DEF w, device
  <2>8. snap'.iface = device /\ ~snap'.old BY <2>7
  <2> QED BY <2>3, <2>6, <2>8
<1>2. CASE pc = "draw" /\ UNCHANGED <<ui, sel, snap>>
  BY <1>2 DEF DrawFresh, Selected, Get
<1>3. CASE pc = "draw" /\ \E w : Changes(w)
  <2>1. PICK w : Changes(w) BY <1>3
  <2>2. ui' = ui /\ sel' = sel BY <2>1 DEF Changes
  <2>3. Selected' = Selected BY <2>2 DEF Selected, Get
  <2>4. snap'.iface = snap.iface /\ snap'.old = snap.old
    BY <2>1 DEF Changes, TypeOK, Snapshots
  <2> QED BY <1>3, <2>2, <2>3, <2>4 DEF DrawFresh
<1> QED BY <1>1, <1>2, <1>3, DrawSteps

(* The hotspot tab shows the device selected with its status, not older    *)
(* than two seconds and wrong only where others changed it or nmcli failed *)
(* (main.rs 974-985, 1195-1260), and keys for a text are no commands.      *)
THEOREM ScreenIsTrue == Spec => []ScreenAgrees
<1>1. Init => ScreenKept
  BY DEF Init, FirstScreen, NoSnapshot, ScreenKept, EditingShown, SnapshotTrue, DrawFresh
<1>2. TypeOK /\ ScreenKept /\ [Next]_vars => ScreenKept'
  <2>1. CASE UNCHANGED vars
    BY <2>1 DEF vars, ScreenKept, EditingShown, SnapshotTrue, DrawFresh, Selected, Get
  <2> QED BY <2>1, EditingStep, SnapshotStep, DrawStep DEF ScreenKept
<1>3. ScreenKept => ScreenAgrees
  BY DEF ScreenKept, EditingShown, SnapshotTrue, DrawFresh, ScreenAgrees
<1> QED BY <1>1, <1>2, <1>3, TypeCorrect, PTL DEF Spec
=============================================================================
