-------------------------------- MODULE Tui --------------------------------
(***************************************************************************)
(* `dfnet` without arguments: the terminal interface (main.rs 815-2275)    *)
(* and the MAC change it makes (370-402).  One thread draws, waits for     *)
(* input, and works off every event there is before it draws again; what   *)
(* it shows are lists, indices into them and a cached hotspot status, read *)
(* at different times from a system that changes beside it.                *)
(*                                                                         *)
(* `pc` is the next call; in "batch" any event may be read.  Texts, the    *)
(* adapter table and its cursor, scan results and colours are left out:    *)
(* a MAC change may be of any interface, and whether an SSID or a          *)
(* password is acceptable is a choice.  A hotspot start or stop, command   *)
(* by command in module Hotspot, is one step here with all its outcomes.   *)
(***************************************************************************)
EXTENDS Integers, Sequences

CONSTANTS
  Interface,    \* names of network interfaces
  List(_),      \* a set of them, in the order `ip` and `nmcli` list them
  Wifi,         \* those that are Wi-Fi devices
  None,
  Found,        \* what dfnet may find: interfaces, default route, dfnet-hotspot
  MaxTroubles   \* bound: calls that fail and changes made by others

Worlds == [here : SUBSET Interface, gateway : Interface \cup {None}, ap : Wifi \cup {None}]

ASSUME ConstantsAssumption ==
  /\ \A S \in SUBSET Interface : List(S) \in Seq(S)
  /\ Wifi \subseteq Interface /\ None \notin Interface
  /\ Found \subseteq Worlds
  /\ MaxTroubles \in Nat

VARIABLES
  pc,
  ui,      \* current_tab, hotspot_selected_field, is_editing_text, routing_mode
  sel,     \* wifi_devs, wifi_names, uplink_ifaces and the two indices (from 0)
  snap,    \* hotspot_snapshot; `stale` is history: wrong, or changed since
  mac,     \* the link of the interface of a MAC change: before, now, stuck
  term,    \* the terminal: raw mode, alternate screen, gone, and whether a
           \* call on it failed while it was there
  world,   \* interfaces that exist, default-route device, dfnet-hotspot's device
  budget   \* troubles so far

vars == <<pc, ui, sel, snap, mac, term, world, budget>>

Works == UNCHANGED budget
Trouble == budget < MaxTroubles /\ budget' = budget + 1

NoSnapshot == [iface |-> None, active |-> FALSE, old |-> FALSE, stale |-> FALSE]
NoChange == [was |-> FALSE, up |-> FALSE, stuck |-> FALSE]
FirstScreen == [tab |-> 0, field |-> 0, editing |-> FALSE, mode |-> "isolated"]
NothingListed == [wifi |-> <<>>, known |-> {}, w |-> 0, uplinks |-> <<>>, u |-> 0]

----------------------------------------------------------------------------
(* Lists *)

Get(list, i) == IF i < Len(list) THEN list[i + 1] ELSE None

(* nmcli or, if it knows none, sysfs.                                      *)
WifiDevices == List(world.here \cap Wifi)

(* Everything but the AP and the known Wi-Fi devices, the default route's  *)
(* device first (of the others, address and state are left out).           *)
Uplinks(ap, known) ==
  LET wired == world.here \ ({ap} \cup known)
  IN List(wired \cap {world.gateway}) \o List(wired \ {world.gateway})

(* `ip` fails and the list is empty.                                       *)
Fetched(list, real) == IF list = real THEN Works ELSE list = <<>> /\ Trouble

(* The clamp that follows a fetch of the uplinks.                          *)
Clamp(i, list) == IF i >= Len(list) /\ list # <<>> THEN 0 ELSE i

Selected == Get(sel.wifi, sel.w)
SetOf(list) == {list[i] : i \in DOMAIN list}

----------------------------------------------------------------------------
(* The terminal *)

Left(t) == IF t.gone THEN t ELSE [t EXCEPT !.raw = FALSE, !.alt = FALSE]
Entered(t) == [t EXCEPT !.raw = TRUE, !.alt = TRUE]

screen == <<ui, sel, snap>>

(* The screen goes with the process.                                       *)
Gone(to) ==
  pc' = to /\ ui' = FirstScreen /\ sel' = NothingListed /\ snap' = NoSnapshot

(* Mutant: the guard that restores the terminal is made after the screen.  *)
ExitUncleaned(to) ==
  Gone(to) /\ term' = (IF pc = "password" THEN term ELSE Left(term))

(* TerminalCleanup, the end of run_tui, or the panic hook.                 *)
Exit(to) == Gone(to) /\ term' = Left(term)

(* A call on a terminal that has gone, or that fails all the same.         *)
Refused(t) == \/ term.gone /\ term' = t /\ Works
              \/ ~term.gone /\ term' = [t EXCEPT !.broken = TRUE] /\ Trouble

(* hung_up: terminal and cleanup are forgotten, nothing is restored.       *)
HangUp(t) == Gone("ended") /\ Refused(t)

EnableRawMode ==
  /\ pc = "start"
  /\ \/ ~term.gone /\ pc' = "screen" /\ term' = [term EXCEPT !.raw = TRUE] /\ Works
     \/ pc' = "failed" /\ Refused(term)
  /\ UNCHANGED <<screen, mac, world>>

EnterScreen ==
  /\ pc = "screen"
  /\ \/ ~term.gone /\ pc' = "password" /\ term' = Entered(term) /\ Works
     \/ pc' = "failed" /\ Refused(Left(term))
  /\ UNCHANGED <<screen, mac, world>>

(* random_password()? and the first lists.                                 *)
FirstLists ==
  /\ pc = "password"
  /\ \/ LET known == world.here \cap Wifi
            real == Uplinks(Get(WifiDevices, 0), known)
        IN \E list \in {real, <<>>} :
             /\ pc' = "top" /\ Fetched(list, real) /\ UNCHANGED term
             /\ sel' = [wifi |-> WifiDevices, known |-> known, w |-> 0,
                        uplinks |-> list, u |-> 0]
             /\ UNCHANGED <<ui, snap>>
     \/ Exit("failed") /\ Trouble
  /\ UNCHANGED <<mac, world>>

----------------------------------------------------------------------------
(* The loop: clamp and snapshot, draw, wait, work off the events *)

(* is_hotspot_active(iface): a failing nmcli says no.                      *)
Reading(iface, active) ==
  IF active = (world.ap = iface) THEN Works ELSE ~active /\ Trouble

LoopTop ==
  /\ pc = "top" /\ pc' = "draw"
  /\ LET w == IF sel.w < Len(sel.wifi) THEN sel.w
              ELSE IF sel.wifi = <<>> THEN 0 ELSE Len(sel.wifi) - 1
         device == Get(sel.wifi, w)
     IN /\ sel' = [sel EXCEPT !.w = w]
        /\ IF ui.tab = 3 /\ device # None /\ (snap.iface # device \/ snap.old)
           THEN \E active \in BOOLEAN :
                  /\ Reading(device, active)
                  /\ snap' = [iface |-> device, active |-> active, old |-> FALSE,
                              stale |-> active # (world.ap = device)]
           ELSE snap' = snap /\ Works
  /\ UNCHANGED <<ui, mac, term, world>>

(* What the hotspot tab indexes or unwraps: the uplink, the snapshot.      *)
DrawPanics ==
  /\ ui.tab = 3 /\ sel.wifi # <<>>
  /\ \/ snap.iface = None
     \/ ui.mode = "nat" /\ sel.uplinks # <<>> /\ sel.u >= Len(sel.uplinks)

Draw ==
  /\ pc = "draw"
  /\ \/ DrawPanics /\ Exit("panic") /\ Works
     \/ ~DrawPanics /\ pc' = "poll" /\ UNCHANGED <<screen, term>> /\ Works
     \/ ~DrawPanics /\ HangUp(term)
  /\ UNCHANGED <<mac, world>>

(* Mutant: poll_fd takes a hangup for input.                               *)
PollReadable ==
  /\ pc = "poll"
  /\ \/ pc' \in {"top", "batch"} /\ UNCHANGED <<screen, term>> /\ Works
     \/ ~term.gone /\ HangUp(term)
  /\ UNCHANGED <<mac, world>>

(* poll_stdin: nothing for 200 ms or EINTR, input, or a hangup.            *)
Poll ==
  /\ pc = "poll"
  /\ \/ ~term.gone /\ pc' \in {"top", "batch"} /\ UNCHANGED <<screen, term>> /\ Works
     \/ HangUp(term)
  /\ UNCHANGED <<mac, world>>

(* event::poll and event::read: no event left, or an error; on a terminal  *)
(* that has gone since the poll, crossterm may read for ever (853-860).    *)
EndBatch ==
  /\ pc = "batch"
  /\ \/ pc' = "top" /\ mac' = NoChange /\ UNCHANGED <<screen, term>> /\ Works
     \/ HangUp(term) /\ UNCHANGED mac
     \/ term.gone /\ Gone("spin") /\ UNCHANGED <<mac, term>> /\ Works
  /\ UNCHANGED world

----------------------------------------------------------------------------
(* Events.  Those that crossterm had read before a hangup are left out. *)

Event == pc = "batch" /\ ~term.gone
Key == Event /\ ~(ui.tab = 3 /\ ui.editing)
Stays == UNCHANGED <<pc, term, mac>>

(* Keys while a text is edited: Esc and Enter; what was typed stays.       *)
EditKey ==
  /\ Event /\ ui.tab = 3 /\ ui.editing
  /\ ui' = [ui EXCEPT !.editing = FALSE]
  /\ Stays /\ Works /\ UNCHANGED <<sel, snap, world>>

ShowTab(tab) ==
  /\ ui' = [ui EXCEPT !.tab = tab, !.editing = FALSE]
  /\ Stays /\ Works /\ UNCHANGED <<sel, snap, world>>

ClickTab == Event /\ \E tab \in 0..3 : ShowTab(tab)
ScrollTab == Event /\ \E step \in {1, 3} : ShowTab((ui.tab + step) % 4)
TabKey == Key /\ \E tab \in 0..3 : ShowTab(tab)

FieldKey ==
  /\ Key /\ ui.tab = 3
  /\ \E step \in {1, 5} : ui' = [ui EXCEPT !.field = (@ + step) % 6]
  /\ Stays /\ Works /\ UNCHANGED <<sel, snap, world>>

(* s: the scan's results are shown, or it failed.                          *)
ScanKey ==
  /\ Key
  /\ ui' = [ui EXCEPT !.tab = 1]
  /\ Stays /\ Works /\ UNCHANGED <<sel, snap, world>>

Toggled(mode) == IF mode = "nat" THEN "isolated" ELSE "nat"
ChoosesUplink == ui.mode = "nat" /\ sel.uplinks # <<>>

(* The uplink a start is given: the selected one, or else, in              *)
(* start_hotspot_with_routing, the default route's device.                 *)
ChosenUplink ==
  IF Get(sel.uplinks, sel.u) # None THEN Get(sel.uplinks, sel.u) ELSE world.gateway

(* start_hotspot_with_routing: it is refused and nothing happens, or what  *)
(* ran is stopped and iface is up, or is rolled back, or cannot be.        *)
Start(iface) ==
  \E ap \in {world.ap, None, iface} :
    /\ ap # world.ap /\ ui.mode = "nat" =>
         ChosenUplink = world.gateway /\ world.gateway \notin {None, iface}
    /\ ap = iface /\ ap # world.ap => iface \in world.here
    /\ world' = [world EXCEPT !.ap = ap]

(* stop_hotspot_with_routing succeeds, or fails before or after the AP is  *)
(* down.                                                                   *)
Stop == \E ap \in {world.ap, None} : world' = [world EXCEPT !.ap = ap]

(* Mutant: the snapshot stays until it is two seconds old.                 *)
ToggleKeepsSnapshot ==
  IF Selected = None THEN UNCHANGED <<world, snap>> /\ Works
  ELSE /\ \E active \in BOOLEAN :
            Reading(Selected, active) /\ IF active THEN Stop ELSE Start(Selected)
       /\ UNCHANGED snap

(* Start or stop, by what nmcli says now.                                  *)
ToggleHotspot ==
  IF Selected = None THEN UNCHANGED <<world, snap>> /\ Works
  ELSE /\ \E active \in BOOLEAN :
            Reading(Selected, active) /\ IF active THEN Stop ELSE Start(Selected)
       /\ snap' = NoSnapshot

(* Enter, Space or a click on a field of the hotspot tab.                  *)
Activate(field) ==
  /\ ui' = [ui EXCEPT !.field = field, !.editing = field \in {1, 2},
                      !.mode = IF field = 3 THEN Toggled(@) ELSE @]
  /\ sel' = IF field = 4 /\ ChoosesUplink
            THEN [sel EXCEPT !.u = (@ + 1) % Len(sel.uplinks)] ELSE sel
  /\ IF field = 5 THEN ToggleHotspot ELSE UNCHANGED <<world, snap>> /\ Works
  /\ Stays

ClickField == Event /\ ui.tab = 3 /\ \E field \in 0..5 : Activate(field)
EnterKey == Key /\ ui.tab = 3 /\ Activate(ui.field)

HotspotKey ==
  /\ Key /\ ui.tab = 3 /\ ToggleHotspot
  /\ Stays /\ UNCHANGED <<ui, sel>>

(* Another Wi-Fi device is selected; the uplinks are fetched for it.       *)
ShowDevice(w, clamps) ==
  /\ LET real == Uplinks(Get(sel.wifi, w), sel.known)
     IN \E list \in {real, <<>>} :
          /\ Fetched(list, real)
          /\ sel' = [sel EXCEPT !.w = w, !.uplinks = list,
                              !.u = IF clamps THEN Clamp(@, list) ELSE @]
  /\ Stays /\ UNCHANGED <<ui, snap, world>>

(* Space on the device field does not clamp the uplink's index.            *)
SpaceKey ==
  /\ Key /\ ui.tab = 3
  /\ \/ ui.field # 0 /\ Activate(ui.field)
     \/ /\ ui.field = 0 /\ sel.wifi # <<>>
        /\ ShowDevice((sel.w + 1) % Len(sel.wifi), FALSE)

ModeKey ==
  /\ Key /\ ui.tab = 3 /\ ui.field = 3
  /\ ui' = [ui EXCEPT !.mode = Toggled(@)]
  /\ Stays /\ Works /\ UNCHANGED <<sel, snap, world>>

(* Mutant: the index is decremented without the test for 0.                *)
LeftUnguarded ==
  /\ Key /\ ui.tab = 3 /\ ui.field = 4 /\ ChoosesUplink
  /\ sel' = [sel EXCEPT !.u = @ - 1]
  /\ Stays /\ Works /\ UNCHANGED <<ui, snap, world>>

(* Left; the name of the uplink selected is shown, and a stale index is    *)
(* out of range here, too.                                                 *)
LeftKey ==
  /\ Key /\ ui.tab = 3
  /\ \/ /\ ui.field = 0 /\ sel.wifi # <<>>
        /\ ShowDevice(IF sel.w > 0 THEN sel.w - 1 ELSE Len(sel.wifi) - 1, TRUE)
     \/ /\ ui.field = 4 /\ ChoosesUplink
        /\ LET u == IF sel.u > 0 THEN sel.u - 1 ELSE Len(sel.uplinks) - 1
           IN IF u < Len(sel.uplinks)
              THEN sel' = [sel EXCEPT !.u = u] /\ UNCHANGED <<pc, ui, snap, term>>
              ELSE Exit("panic")
        /\ Works /\ UNCHANGED <<mac, world>>

RightKey ==
  /\ Key /\ ui.tab = 3
  /\ \/ /\ ui.field = 0 /\ sel.wifi # <<>>
        /\ ShowDevice(IF sel.w + 1 < Len(sel.wifi) THEN sel.w + 1 ELSE 0, TRUE)
     \/ /\ ui.field = 4 /\ ChoosesUplink
        /\ sel' = [sel EXCEPT !.u = IF @ + 1 < Len(sel.uplinks) THEN @ + 1 ELSE 0]
        /\ Stays /\ Works /\ UNCHANGED <<ui, snap, world>>

(* r: everything is read again, the indices are clamped.                   *)
RefreshKey ==
  /\ Key
  /\ LET wifi == WifiDevices
         w == IF sel.w >= Len(wifi) /\ wifi # <<>> THEN Len(wifi) - 1 ELSE sel.w
         real == Uplinks(Get(wifi, w), SetOf(wifi))
     IN \E list \in {real, <<>>} :
          /\ Fetched(list, real)
          /\ sel' = [wifi |-> wifi, known |-> SetOf(wifi), w |-> w,
                     uplinks |-> list, u |-> Clamp(sel.u, list)]
  /\ Stays /\ UNCHANGED <<ui, snap, world>>

QuitKey ==
  /\ Key /\ Exit("ended")
  /\ Works /\ UNCHANGED <<mac, world>>

----------------------------------------------------------------------------
(* change_mac: the link down, macchanger, the link up if it was up *)

MacKey ==
  /\ Key /\ ui.tab = 0
  /\ pc' = "down"
  /\ \E was \in BOOLEAN : mac' = [was |-> was, up |-> was, stuck |-> FALSE]
  /\ Works /\ UNCHANGED <<screen, term, world>>

LinkDown ==
  /\ pc = "down"
  /\ \/ pc' = "change" /\ mac' = [mac EXCEPT !.up = FALSE] /\ Works
     \/ pc' = "batch" /\ UNCHANGED mac /\ Trouble
  /\ UNCHANGED <<screen, term, world>>

(* Mutant: the error of macchanger is returned at once.                    *)
MacchangerRaises ==
  /\ pc = "change"
  /\ \/ pc' = (IF mac.was THEN "up" ELSE "batch") /\ Works
     \/ pc' = "batch" /\ Trouble
  /\ UNCHANGED <<screen, mac, term, world>>

(* Its result is kept until the link is up again.                          *)
Macchanger ==
  /\ pc = "change"
  /\ pc' = (IF mac.was THEN "up" ELSE "batch")
  /\ Works \/ Trouble
  /\ UNCHANGED <<screen, mac, term, world>>

LinkUp ==
  /\ pc = "up" /\ pc' = "batch"
  /\ \/ mac' = [mac EXCEPT !.up = TRUE] /\ Works
     \/ mac' = [mac EXCEPT !.stuck = TRUE] /\ Trouble
  /\ UNCHANGED <<screen, term, world>>

----------------------------------------------------------------------------
(* n and l: the terminal is given to nmtui, or to the questions and to     *)
(* `dfnet receive`, and taken back *)

Leave(to) ==
  /\ Key
  /\ \/ pc' = to /\ term' = Left(term) /\ Works /\ UNCHANGED screen
     \/ HangUp(term) \/ HangUp([term EXCEPT !.raw = FALSE])
  /\ UNCHANGED <<mac, world>>

NmtuiKey == Leave("nmtui")
ReceiveKey == ui.tab = 2 /\ Leave("prompt")

TakeBack ==
  ~term.gone /\ pc' = "batch" /\ term' = Entered(term) /\ Works
CannotTakeBack == HangUp(term) \/ HangUp([term EXCEPT !.raw = TRUE])

(* The devices are read again; the names known as Wi-Fi, the uplinks and   *)
(* the indices stay as they are.                                           *)
NmtuiReturns ==
  /\ pc = "nmtui"
  /\ \/ TakeBack /\ sel' = [sel EXCEPT !.wifi = WifiDevices] /\ UNCHANGED <<ui, snap>>
     \/ CannotTakeBack
  /\ UNCHANGED <<mac, world>>

(* Every answer is right, and the receiver is started.                     *)
Answered ==
  /\ pc = "prompt" /\ ~term.gone /\ pc' = "receive"
  /\ Works /\ UNCHANGED <<screen, mac, term, world>>

(* A wrong answer or the end of the input.                                 *)
Cancelled ==
  /\ pc = "prompt"
  /\ (TakeBack /\ UNCHANGED screen) \/ CannotTakeBack
  /\ UNCHANGED <<mac, world>>

ReceiverReturns ==
  /\ pc = "receive"
  /\ (TakeBack /\ UNCHANGED screen) \/ CannotTakeBack
  /\ UNCHANGED <<mac, world>>

----------------------------------------------------------------------------
(* Others *)

Over == pc \in {"ended", "failed", "panic", "killed"}

(* Without raw mode Ctrl-C is a signal to the whole foreground group.      *)
CtrlC ==
  /\ pc \in {"prompt", "receive"} /\ ~term.gone
  /\ Gone("killed")
  /\ Works /\ UNCHANGED <<mac, term, world>>

(* The terminal goes away.  SIGHUP comes with it and ends dfnet at any     *)
(* call, unless dfnet was started to ignore it.                            *)
Hangup ==
  /\ ~term.gone /\ ~Over
  /\ term' = [term EXCEPT !.gone = TRUE]
  /\ UNCHANGED <<pc, screen>> \/ Gone("killed")
  /\ Works /\ UNCHANGED <<mac, world>>

(* Two seconds pass; not between the look at the clock and the drawing.    *)
(* What happens to snapshot and system after a hangup is left out: no      *)
(* event is read any more.                                                 *)
TwoSeconds ==
  /\ snap # NoSnapshot /\ ~snap.old /\ pc # "draw" /\ ~Over /\ ~term.gone
  /\ snap' = [snap EXCEPT !.old = TRUE]
  /\ Works /\ UNCHANGED <<pc, ui, sel, mac, term, world>>

Changes(w) ==
  /\ ~Over /\ ~term.gone /\ Trouble
  /\ world' = w
  /\ snap' = IF w.ap # world.ap /\ snap # NoSnapshot
             THEN [snap EXCEPT !.stale = TRUE] ELSE snap
  /\ UNCHANGED <<pc, ui, sel, mac, term>>

Kept(i, here) == IF i \in here THEN i ELSE None

(* An adapter is plugged in or out.                                        *)
Plug ==
  \E i \in Interface :
    LET here == IF i \in world.here THEN world.here \ {i} ELSE world.here \cup {i}
    IN Changes([here |-> here, gateway |-> Kept(world.gateway, here),
                ap |-> Kept(world.ap, here)])

GatewayChanges ==
  \E i \in (world.here \ {world.gateway}) \cup {None} :
    Changes([world EXCEPT !.gateway = i])

(* `dfnet hotspot` in a shell, NetworkManager or the driver.               *)
ApChanges ==
  \E i \in ((world.here \cap Wifi) \cup {None}) \ {world.ap} :
    Changes([world EXCEPT !.ap = i])

----------------------------------------------------------------------------
Init ==
  /\ pc = "start"
  /\ ui = FirstScreen /\ sel = NothingListed /\ snap = NoSnapshot /\ mac = NoChange
  /\ term = [raw |-> FALSE, alt |-> FALSE, gone |-> FALSE, broken |-> FALSE]
  /\ world \in Found
  /\ budget = 0

Events == \/ EditKey \/ ClickTab \/ ScrollTab \/ TabKey \/ FieldKey \/ ScanKey
          \/ ClickField \/ EnterKey \/ HotspotKey \/ SpaceKey \/ ModeKey
          \/ LeftKey \/ RightKey \/ RefreshKey \/ QuitKey \/ MacKey
          \/ NmtuiKey \/ ReceiveKey

(* Calls that return by themselves: the program's own, and its one-shot    *)
(* commands ...                                                            *)
Runs == \/ EnableRawMode \/ EnterScreen \/ FirstLists
        \/ LoopTop \/ Draw \/ Poll \/ EndBatch
        \/ LinkDown \/ Macchanger \/ LinkUp

(* ... and what reads from a terminal that has gone does.                  *)
RunsOn == term.gone /\ (Runs \/ NmtuiReturns \/ Cancelled)

Others == \/ NmtuiReturns \/ Answered \/ Cancelled \/ ReceiverReturns
          \/ CtrlC \/ Hangup \/ TwoSeconds
          \/ Plug \/ GatewayChanges \/ ApChanges

Next == Events \/ Runs \/ Others

Spec == Init /\ [][Next]_vars /\ WF_vars(RunsOn)

----------------------------------------------------------------------------
(* Properties *)

Labels == {"start", "screen", "password", "top", "draw", "poll", "batch", "spin",
           "down", "change", "up", "nmtui", "prompt", "receive",
           "ended", "failed", "panic", "killed"}
Screens == [tab : 0..3, field : 0..5, editing : BOOLEAN, mode : {"nat", "isolated"}]
Selections == [wifi : Seq(Wifi), known : SUBSET Wifi, w : Nat,
               uplinks : Seq(Interface), u : Nat]
Snapshots == [iface : Wifi \cup {None}, active : BOOLEAN, old : BOOLEAN, stale : BOOLEAN]
Links == [was : BOOLEAN, up : BOOLEAN, stuck : BOOLEAN]
Terminals == [raw : BOOLEAN, alt : BOOLEAN, gone : BOOLEAN, broken : BOOLEAN]

(* Every variable keeps its type; the indices, which the code subtracts    *)
(* from as unsigned numbers, do not go below 0.                            *)
TypeOK ==
  /\ pc \in Labels /\ ui \in Screens /\ sel \in Selections /\ snap \in Snapshots
  /\ mac \in Links /\ term \in Terminals /\ world \in Worlds /\ budget \in Nat

(* What the hotspot tab is about to show is the device selected and its    *)
(* status, read at most two seconds ago and wrong only if somebody else    *)
(* has changed it since or nmcli failed, whatever was toggled, refreshed   *)
(* and selected in the batch before; and a text is only ever edited where  *)
(* it is shown, so that no key meant for a text is a command elsewhere.    *)
ScreenAgrees ==
  /\ pc = "draw" /\ ui.tab = 3 /\ sel.wifi # <<>> =>
       /\ Selected # None /\ snap.iface = Selected /\ ~snap.old
       /\ snap.stale \/ snap.active = (world.ap = Selected)
  /\ ui.editing => ui.tab = 3 /\ ui.field \in {1, 2}

(* However dfnet ends - by a key, a `?` while it starts, a panic, Ctrl-C   *)
(* while a child has the terminal - a terminal that is there, and of which *)
(* no call has failed, is out of raw mode and of the alternate screen.     *)
TerminalRestored ==
  Over /\ ~term.gone /\ ~term.broken => ~term.raw /\ ~term.alt

(* "MAC operations restore the interface's original up/down state": when   *)
(* one has returned, with or without an error, unless setting the link up  *)
(* failed itself.                                                          *)
LinkAsBefore ==
  pc \notin {"down", "change", "up", "killed"} => mac.up = mac.was \/ mac.stuck

(* "When its terminal goes away, the TUI ends quietly": wherever it is, if *)
(* it is not waiting for a receiver, which may listen for ever, or caught  *)
(* in crossterm's read (the race that the comment of poll_fd concedes).    *)
HangupEnds == term.gone ~> (Over \/ pc \in {"receive", "spin"})

----------------------------------------------------------------------------
(* What the code takes for granted *)

(* The uplink's index is in range when the tab is drawn, the snapshot is   *)
(* there (main.rs 1202, 1255), and the name shown after Left is.           *)
NoPanic == pc # "panic"
=============================================================================
