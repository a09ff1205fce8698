------------------------------ MODULE Hotspot ------------------------------
(***************************************************************************)
(* `dfnet hotspot start | stop` and `dfnet route enable | isolate | reset` *)
(* (main.rs, routing.rs).  dfnet keeps no daemon: every invocation works   *)
(* its way through a list of external commands (nmcli, iptables, sysctl,   *)
(* nft), any of which can fail, and can be killed after each; what it      *)
(* leaves behind - rules, profile, forwarding record - is the state the    *)
(* next invocation finds.                                                  *)
(*                                                                         *)
(* `pc` is the next external command, `me.stage` the function that called  *)
(* the subroutine it belongs to, so the firewall and stop routines are     *)
(* written once.                                                           *)
(*   clear     start_hotspot_with_routing: stop what is running            *)
(*   isolate   enable_isolated_routing      activate  start_hotspot        *)
(*   nat       enable_nat_routing           undo nat  its error branch     *)
(*   rollback  start's error branch         stop, reset                    *)
(***************************************************************************)
EXTENDS Naturals, Sequences

CONSTANTS
  Ap,           \* Wi-Fi interfaces
  Uplink,       \* other interfaces
  None,
  MaxCommands,  \* bound: invocations of dfnet
  MaxFaults,    \* bound: external commands that fail
  MaxKills,     \* bound: invocations killed
  MaxMoves      \* bound: steps of NetworkManager, the administrator, the AP

ASSUME ConstantsAssumption ==
  /\ None \notin Ap \cup Uplink
  /\ {MaxCommands, MaxFaults, MaxKills, MaxMoves} \subseteq Nat

VARIABLES
  pc, me,   \* this invocation: next command and locals
  rules,    \* the tagged rules in the firewall (their order is left out)
  nm,       \* NetworkManager's dfnet-hotspot: profiles, active devices and
            \* nm-shared tables
  host,     \* net.ipv4.ip_forward, default route, another shared connection
  record,   \* /run/dfnet/ip_forward.json
  report,   \* what the last invocation returned
  past,     \* history, for the properties only
  budget    \* the bounded choices made so far

world == <<rules, nm, host, record>>
vars == <<pc, me, world, report, past, budget>>

----------------------------------------------------------------------------
(* Rules.  Every rule carries the tag dfnet:<ap>. *)

Chains == <<"INPUT", "FORWARD", "POSTROUTING", "INPUT6", "FORWARD6">>
Guards == <<"in", "out", "input", "in6", "out6", "input6">>
Ingest == <<"dhcp dns", "dns receiver", "established">>
NatRules == <<"masquerade", "return", "accept">>

GuardKinds == {"in", "out", "input", "in6", "out6", "input6"}
NatKinds == {"masquerade", "return", "accept"}
Kinds == GuardKinds \cup NatKinds \cup {"dhcp dns", "dns receiver", "established"}

ChainOf(kind) ==
  CASE kind \in {"in", "out", "return", "accept"} -> "FORWARD"
    [] kind \in {"in6", "out6"}                   -> "FORWARD6"
    [] kind = "input6"                            -> "INPUT6"
    [] kind = "masquerade"                        -> "POSTROUTING"
    [] OTHER                                      -> "INPUT"

Rule == [kind : Kinds, ap : Ap, up : Uplink \cup {None}]
Of(kind, ap, up) == [kind |-> kind, ap |-> ap, up |-> up]
GuardsOf(ap) == {Of(kind, ap, None) : kind \in GuardKinds}

(* owned_rule: an empty name owns every tagged rule.                       *)
Owned(r, ap) == ap = None \/ r.ap = ap

(* remove_owned keeps DROP rules unless it was called by teardown_routing. *)
KeepDrops == me.stage \in {"isolate", "nat", "undo nat"}
Target == IF me.stage = "clear" THEN me.old ELSE me.iface
Listed == {r \in rules : /\ ChainOf(r.kind) = Chains[me.k]
                         /\ Owned(r, Target)
                         /\ ~(KeepDrops /\ r.kind \in GuardKinds)}

(* configured_mode: what `route status` says of an AP.                     *)
Mode(ap) ==
  LET has(kind, up) == Of(kind, ap, up) \in rules
      accepts == {r \in rules : r.kind = "accept" /\ r.ap = ap}
  IN CASE \E kind \in {"in", "out", "in6", "out6"} : ~has(kind, None) -> {"none"}
       [] accepts = {} -> {"isolated"}
       [] OTHER -> {IF has("masquerade", r.up) /\ has("return", r.up)
                    THEN r.up ELSE "none" : r \in accepts}

----------------------------------------------------------------------------
(* Steps *)

Idle == [cmd |-> "none", iface |-> None, up |-> None, stage |-> "none",
         old |-> None, k |-> 1, left |-> {}, bad |-> FALSE,
         now |-> "none", blind |-> FALSE]

Works == UNCHANGED budget
Fault == /\ budget.faults < MaxFaults
         /\ budget' = [budget EXCEPT !.faults = @ + 1]
Move  == /\ budget.moves < MaxMoves
         /\ budget' = [budget EXCEPT !.moves = @ + 1]

Step(from, to) == pc = from /\ pc' = to

(* The command returns its result, which start and stop have appended to   *)
(* the audit log (a failure to do so is ignored).                          *)
Finish(status) ==
  /\ pc' = "idle"
  /\ me' = Idle
  /\ report' = [cmd |-> me.cmd, iface |-> me.iface, up |-> me.up,
                status |-> status]

Sweep(stage) ==
  /\ pc' = "chain"
  /\ me' = [me EXCEPT !.stage = stage, !.k = 1, !.left = {}, !.bad = FALSE]
  /\ UNCHANGED report

Goto(to, stage) ==
  /\ pc' = to
  /\ me' = [me EXCEPT !.stage = stage, !.k = 1]
  /\ UNCHANGED report

(* Mutant: enable_nat_routing returns its error at once.                   *)
RaiseAtOnce ==
  IF me.cmd = "start" /\ me.stage \in {"activate", "nat", "undo nat"}
  THEN Goto("query", "rollback")
  ELSE Finish("error")

(* An error returned from the command at pc.  Inside enable_nat_routing's  *)
(* closure the rules set so far are removed and the guards kept; inside    *)
(* start's closure the start is rolled back; elsewhere `?` returns it.     *)
Raise ==
  \/ /\ me.stage = "nat" /\ pc \in {"ingest", "nat"}
     /\ Sweep("undo nat")
  \/ /\ ~(me.stage = "nat" /\ pc \in {"ingest", "nat"})
     /\ me.cmd = "start" /\ me.stage \in {"activate", "nat", "undo nat"}
     /\ Goto("query", "rollback")
  \/ /\ ~(me.stage = "nat" /\ pc \in {"ingest", "nat"})
     /\ ~(me.cmd = "start" /\ me.stage \in {"activate", "nat", "undo nat"})
     /\ Finish("error")

----------------------------------------------------------------------------
Init ==
  /\ pc = "idle"
  /\ me = Idle
  /\ rules = {}
  /\ nm = [profiles |-> {}, active |-> {}, tables |-> {}]
  /\ \E forward \in BOOLEAN, route \in Uplink \cup {None}, others \in BOOLEAN :
       /\ others => forward
       /\ host = [forward |-> forward, route |-> route, others |-> others]
  /\ record = "none"
  /\ report = [cmd |-> "none", iface |-> None, up |-> None, status |-> "ok"]
  /\ past = [origin |-> "none", dirty |-> FALSE, killed |-> FALSE,
              raced |-> FALSE]
  /\ budget = [commands |-> 0, faults |-> 0, kills |-> 0, moves |-> 0]

Command(cmd, iface, up, stage, first) ==
  /\ pc = "idle"
  /\ budget.commands < MaxCommands
  /\ pc' = first
  /\ me' = [Idle EXCEPT !.cmd = cmd, !.iface = iface, !.up = up, !.stage = stage]
  /\ budget' = [budget EXCEPT !.commands = @ + 1]
  /\ UNCHANGED <<world, report, past>>

(* An uplink means NAT; without one the AP's clients are isolated.         *)
HotspotStart ==
  \E ap \in Ap, up \in Uplink \cup {None} :
    Command("start", ap, up, "clear", IF up = None THEN "old device" ELSE "validate")

HotspotStop ==
  \E ap \in Ap \cup {None} : Command("stop", ap, None, "stop", "old device")

RouteEnable ==
  \E ap \in Ap, up \in Uplink : Command("enable", ap, up, "nat", "validate")

RouteIsolate ==
  \E ap \in Ap : Command("isolate", ap, None, "isolate", "link")

(* The operator stops the hotspot first, as the README asks.               *)
RouteReset ==
  /\ nm.active = {}
  /\ \E ap \in Ap \cup {None} : Command("reset", ap, None, "reset", "chain")

(* An external command fails and changes nothing.                          *)
CommandFails ==
  /\ pc \in {"validate", "old device", "query", "down", "list", "delete",
             "remember", "write record", "link", "guard", "ingest", "nat",
             "radio", "add", "forwarding", "address", "read record", "others",
             "sysctl", "forget"}
  /\ Fault
  /\ Raise
  /\ UNCHANGED <<world, past>>

----------------------------------------------------------------------------
(* validate_uplink and stop_hotspot *)

(* validate_uplink: it must be the default route's interface.              *)
Validate ==
  /\ pc = "validate"
  /\ IF host.route = me.up
     THEN Goto(IF me.stage = "clear" THEN "old device" ELSE "forwarding", me.stage)
     ELSE Raise
  /\ Works /\ UNCHANGED <<world, past>>

(* managed_hotspot_device, as start and stop call it.                      *)
OldDevice ==
  /\ pc = "old device"
  /\ \E dev \in IF nm.active = {} THEN {None} ELSE nm.active :
       \/ /\ me.cmd = "start"
          /\ pc' = "query" /\ me' = [me EXCEPT !.old = dev] /\ UNCHANGED report
       \/ /\ me.cmd = "stop"
          /\ dev = me.iface \/ None \in {dev, me.iface}
          /\ pc' = "query" /\ UNCHANGED report
          /\ me' = [me EXCEPT !.iface = IF dev = None THEN @ ELSE dev]
       \/ /\ me.cmd = "stop" /\ dev # None /\ me.iface \notin {None, dev}
          /\ Raise
  /\ Works /\ UNCHANGED <<world, past>>

Query ==
  /\ Step("query", IF nm.active = {} THEN "list" ELSE "down")
  /\ Works /\ UNCHANGED <<me, world, report, past>>

(* NetworkManager sometimes leaves its nm-shared table behind.             *)
Down ==
  /\ Step("down", "list")
  /\ \E tables \in {nm.tables, nm.tables \ nm.active} :
       nm' = [nm EXCEPT !.active = {}, !.tables = tables]
  /\ Works /\ UNCHANGED <<me, rules, host, record, report, past>>

(* What follows stop_hotspot: the rules of the old device, of the failed   *)
(* start, of the stopped hotspot; or nothing to clear.                     *)
Stopped ==
  IF me.stage = "clear" /\ me.old = None
  THEN Goto("remember", "clear")
  ELSE Sweep(me.stage)

ListProfiles ==
  /\ pc = "list"
  /\ IF nm.profiles = {} THEN Stopped ELSE Goto("delete", me.stage)
  /\ Works /\ UNCHANGED <<world, past>>

DeleteProfile ==
  /\ pc = "delete"
  /\ nm' = [nm EXCEPT !.profiles = {}]
  /\ Stopped
  /\ Works /\ UNCHANGED <<rules, host, record, past>>

----------------------------------------------------------------------------
(* remember_ip_forwarding *)

(* get_ip_forwarding, when it can be read.                                 *)
Forwarding == IF host.forward THEN "on" ELSE "off"

(* The value is read, then fs::write creates the file, empty at first.     *)
Recording ==
  /\ pc' = "write record"
  /\ me' = [me EXCEPT !.now = Forwarding]
  /\ record' = "torn"
  /\ past' = [past EXCEPT !.origin = IF @ = "none" THEN me'.now ELSE @]
  /\ UNCHANGED report

(* Mutant: every start records what it finds.                              *)
RememberAgain ==
  /\ pc = "remember"
  /\ Recording
  /\ Works /\ UNCHANGED <<rules, nm, host>>

(* An existing record is kept, whatever it holds.                          *)
Remember ==
  /\ pc = "remember"
  /\ \/ record # "none" /\ Goto("link", "isolate") /\ UNCHANGED <<record, past>>
     \/ record = "none" /\ Recording
  /\ Works /\ UNCHANGED <<rules, nm, host>>

(* Mutant: the fields of ForwardingState are swapped.                      *)
WriteRecordSwapped ==
  /\ pc = "write record"
  /\ record' = me.iface
  /\ Goto("link", "isolate")
  /\ Works /\ UNCHANGED <<rules, nm, host, past>>

WriteRecord ==
  /\ pc = "write record"
  /\ record' = me.now
  /\ Goto("link", "isolate")
  /\ Works /\ UNCHANGED <<rules, nm, host, past>>

----------------------------------------------------------------------------
(* prepare_routing, remove_owned, allow_ingest *)

(* `ip link show dev`: the interface exists.                               *)
Link ==
  /\ pc = "link"
  /\ Goto("guard", me.stage)
  /\ Works /\ UNCHANGED <<world, past>>

(* `rule`: inserted unless it is there.                                    *)
Insert(kind, up) ==
  /\ rules' = rules \cup {Of(kind, me.iface, up)}
  /\ Works /\ UNCHANGED <<nm, host, record, past>>

Again == pc' = pc /\ me' = [me EXCEPT !.k = @ + 1] /\ UNCHANGED report

(* Mutant: the loop over the families ends with the first.                 *)
SetGuardFirstFamily ==
  /\ pc = "guard"
  /\ Insert(Guards[me.k], None)
  /\ IF me.k < 3 THEN Again ELSE Sweep(me.stage)

(* Mutant: a guard set again on an AP that has rules; none is removed.     *)
SetGuardOnly ==
  /\ pc = "guard"
  /\ Insert(Guards[me.k], None)
  /\ IF me.k < Len(Guards) THEN Again ELSE Goto("ingest", me.stage)

SetGuard ==
  /\ pc = "guard"
  /\ Insert(Guards[me.k], None)
  /\ IF me.k < Len(Guards) THEN Again ELSE Sweep(me.stage)

Dirty == past' = [past EXCEPT !.dirty = TRUE]

(* A chain is listed; one that cannot be listed is counted and passed.     *)
ListChain ==
  /\ Step("chain", "remove")
  /\ \/ me' = [me EXCEPT !.left = Listed] /\ UNCHANGED past /\ Works
     \/ me' = [me EXCEPT !.left = {}, !.bad = TRUE] /\ Dirty /\ Fault
  /\ UNCHANGED <<world, report>>

(* Mutant: the first rule found is deleted, the loop ends.                 *)
RemoveRuleOnce ==
  /\ Step("remove", "remove")
  /\ \E r \in me.left : /\ rules' = rules \ {r}
                        /\ me' = [me EXCEPT !.left = {}]
  /\ Works /\ UNCHANGED <<nm, host, record, report, past>>

(* A rule that cannot be deleted, or is gone, is counted and passed.       *)
RemoveRule ==
  /\ Step("remove", "remove")
  /\ \E r \in me.left :
       \/ /\ r \in rules /\ rules' = rules \ {r}
          /\ me' = [me EXCEPT !.left = @ \ {r}]
          /\ UNCHANGED past /\ Works
       \/ /\ me' = [me EXCEPT !.left = @ \ {r}, !.bad = TRUE]
          /\ IF r \in rules THEN Fault ELSE Works
          /\ Dirty /\ UNCHANGED rules
  /\ UNCHANGED <<nm, host, record, report>>

NextChain ==
  /\ me.left = {} /\ me.k < Len(Chains)
  /\ Step("remove", "chain")
  /\ me' = [me EXCEPT !.k = @ + 1]
  /\ Works /\ UNCHANGED <<world, report, past>>

(* Where remove_owned returns to.                                          *)
Swept ==
  /\ pc = "remove" /\ me.left = {} /\ me.k = Len(Chains)
  /\ \/ (me.bad \/ me.stage = "undo nat") /\ Raise
     \/ /\ ~me.bad
        /\ \/ me.stage = "clear" /\ Goto("remember", "clear")
           \/ me.stage \in {"isolate", "nat"} /\ Goto("ingest", me.stage)
           \/ me.stage \in {"rollback", "stop"} /\ Goto("read record", me.stage)
           \/ me.stage = "reset" /\ Finish("ok")
  /\ Works /\ UNCHANGED <<world, past>>

SetIngest ==
  /\ pc = "ingest"
  /\ Insert(Ingest[me.k], None)
  /\ \/ me.k < Len(Ingest) /\ Again
     \/ /\ me.k = Len(Ingest)
        /\ \/ me.stage = "nat" /\ Goto("nat", "nat")
           \/ me.stage = "isolate" /\ me.cmd = "start" /\ Goto("radio", "activate")
           \/ me.stage = "isolate" /\ me.cmd = "isolate" /\ Finish("ok")

----------------------------------------------------------------------------
(* start_hotspot and enable_nat_routing *)

Radio ==
  /\ pc = "radio"
  /\ Goto("add", me.stage)
  /\ Works /\ UNCHANGED <<world, past>>

AddProfile ==
  /\ pc = "add"
  /\ nm' = [nm EXCEPT !.profiles = @ \cup {me.iface}]
  /\ Goto("up", me.stage)
  /\ Works /\ UNCHANGED <<rules, host, record, past>>

(* NetworkManager's shared method switches forwarding on and makes a table.*)
Activated ==
  \E ap \in nm.profiles :
    /\ nm' = [nm EXCEPT !.active = @ \cup {ap}, !.tables = @ \cup {ap}]
    /\ host' = [host EXCEPT !.forward = TRUE]

(* nmcli can fail after the AP came up.                                    *)
Up ==
  /\ pc = "up"
  /\ \/ /\ Activated
        /\ IF me.up = None THEN Finish("ok") ELSE Goto("validate", "nat")
        /\ Works
     \/ /\ Activated \/ UNCHANGED <<nm, host>>
        /\ Raise
        /\ Fault
  /\ UNCHANGED <<rules, record, past>>

CheckForwarding ==
  /\ pc = "forwarding"
  /\ IF host.forward THEN Goto("address", me.stage) ELSE Raise
  /\ Works /\ UNCHANGED <<world, past>>

Address ==
  /\ pc = "address"
  /\ Goto("link", me.stage)
  /\ Works /\ UNCHANGED <<world, past>>

SetNat ==
  /\ pc = "nat"
  /\ Insert(NatRules[me.k], me.up)
  /\ IF me.k < Len(NatRules) THEN Again ELSE Finish("ok")

----------------------------------------------------------------------------
(* restore_after_hotspot *)

(* forwarding_action, with what is known when it is called: a value that   *)
(* cannot be read is taken for "on".                                       *)
Disables(before, now, others) == before = "off" /\ now # "off" /\ ~others

(* ip_forward cannot be read: nobody is asked for the other connections.   *)
Unread ==
  /\ pc' = IF Disables(record, "unknown", FALSE) THEN "sysctl" ELSE "forget"
  /\ me' = [me EXCEPT !.blind = TRUE]
  /\ UNCHANGED report

ReadRecord ==
  /\ pc = "read record"
  /\ \/ record = "torn" /\ Raise /\ Works
     \/ record = "none" /\ Goto("table", me.stage) /\ Works
     \/ /\ record \in {"on", "off"}
        /\ Goto(IF Disables(record, Forwarding, FALSE) THEN "others" ELSE "forget",
                me.stage)
        /\ Works
     \/ record \in {"on", "off"} /\ Unread /\ Fault
  /\ UNCHANGED <<world, past>>

(* other_shared_connections                                                *)
AskOthers ==
  /\ pc = "others"
  /\ Goto(IF Disables("off", "on", host.others) THEN "sysctl" ELSE "forget", me.stage)
  /\ Works /\ UNCHANGED <<world, past>>

(* set_ip_forwarding: the new value is read back, which can fail.          *)
SwitchOff ==
  /\ pc = "sysctl"
  /\ host' = [host EXCEPT !.forward = FALSE]
  /\ \/ Goto("forget", me.stage) /\ Works
     \/ Raise /\ Fault
  /\ UNCHANGED <<rules, nm, record, past>>

Forget ==
  /\ pc = "forget"
  /\ record' = "none"
  /\ past' = [past EXCEPT !.origin = "none", !.raced = FALSE]
  /\ Goto("table", me.stage)
  /\ Works /\ UNCHANGED <<rules, nm, host>>

(* remove_stale_nm_shared_table: a failure is a warning.                   *)
RemoveTable ==
  /\ pc = "table"
  /\ \/ nm' = [nm EXCEPT !.tables = @ \ {me.iface}] /\ Works
     \/ UNCHANGED nm /\ Fault
  /\ Finish(IF me.cmd = "stop" THEN "ok" ELSE "error")
  /\ UNCHANGED <<rules, host, record, past>>

----------------------------------------------------------------------------
(* The environment.  A move during an invocation races with it. *)

Moved(h) ==
  /\ host' = h
  /\ Move /\ UNCHANGED <<pc, me, rules, record, report>>

Racing == past.raced \/ pc # "idle"

(* The driver or the administrator takes the AP down.                      *)
ApLost ==
  /\ nm.active # {}
  /\ \E tables \in {nm.tables, nm.tables \ nm.active} :
       nm' = [nm EXCEPT !.active = {}, !.tables = tables]
  /\ Moved(host) /\ past' = [past EXCEPT !.raced = Racing]

(* Another shared connection comes or goes; NetworkManager switches        *)
(* forwarding on for it.                                                   *)
OtherConnection ==
  /\ Moved([host EXCEPT !.others = ~@, !.forward = @ \/ ~host.others])
  /\ past' = [past EXCEPT !.raced = Racing]
  /\ UNCHANGED nm

AdminForwarding ==
  /\ Moved([host EXCEPT !.forward = ~@])
  /\ past' = [past EXCEPT !.raced = Racing]
  /\ UNCHANGED nm

RouteChanges ==
  /\ \E up \in Uplink \cup {None} : Moved([host EXCEPT !.route = up])
  /\ past' = [past EXCEPT !.raced = Racing]
  /\ UNCHANGED nm

(* Ctrl-C, SIGKILL: dfnet handles no signal here.                          *)
Kill ==
  /\ pc # "idle"
  /\ budget.kills < MaxKills
  /\ budget' = [budget EXCEPT !.kills = @ + 1]
  /\ Finish("killed")
  /\ past' = [past EXCEPT !.killed = TRUE]
  /\ UNCHANGED world

----------------------------------------------------------------------------
Commands == HotspotStart \/ HotspotStop \/ RouteEnable \/ RouteIsolate \/ RouteReset

Runs == \/ CommandFails \/ Validate \/ OldDevice
        \/ Query \/ Down \/ ListProfiles \/ DeleteProfile
        \/ Remember \/ WriteRecord
        \/ Link \/ SetGuard \/ ListChain \/ RemoveRule \/ NextChain \/ Swept
        \/ SetIngest \/ Radio \/ AddProfile \/ Up
        \/ CheckForwarding \/ Address \/ SetNat
        \/ ReadRecord \/ AskOthers \/ SwitchOff \/ Forget \/ RemoveTable

Environment ==
  ApLost \/ OtherConnection \/ AdminForwarding \/ RouteChanges \/ Kill

Next == Commands \/ Runs \/ Environment

Spec == Init /\ [][Next]_vars

----------------------------------------------------------------------------
(* Properties *)

Stages == {"none", "clear", "isolate", "activate", "nat", "undo nat",
           "rollback", "stop", "reset"}

Labels == {"idle", "validate", "old device", "query", "down", "list", "delete",
           "remember", "write record", "link", "guard", "chain", "remove",
           "ingest", "radio", "add", "up", "forwarding", "address", "nat",
           "read record", "others", "sysctl", "forget", "table"}

CommandNames == {"none", "start", "stop", "enable", "isolate", "reset"}

Locals == [cmd : CommandNames, iface : Ap \cup {None}, up : Uplink \cup {None},
           stage : Stages, old : Ap \cup {None}, k : 1..6, left : SUBSET Rule,
           bad : BOOLEAN, now : {"none", "on", "off"}, blind : BOOLEAN]

Managers == [profiles : SUBSET Ap, active : SUBSET Ap, tables : SUBSET Ap]
Hosts == [forward : BOOLEAN, route : Uplink \cup {None}, others : BOOLEAN]
Reports == [cmd : CommandNames, iface : Ap \cup {None}, up : Uplink \cup {None},
            status : {"ok", "error", "killed"}]
Histories == [origin : {"none", "on", "off"}, dirty : BOOLEAN,
              killed : BOOLEAN, raced : BOOLEAN]
Budgets == [commands : Nat, faults : Nat, kills : Nat, moves : Nat]

(* Every variable keeps its type.                                          *)
TypeOK ==
  /\ pc \in Labels
  /\ me \in Locals
  /\ rules \in SUBSET Rule
  /\ nm \in Managers
  /\ host \in Hosts
  /\ record \in {"none", "torn", "on", "off"}
  /\ report \in Reports
  /\ past \in Histories
  /\ budget \in Budgets

(* While an AP is up, both families block forwarding from and to it and    *)
(* new connections to the host: from before the activation, through every  *)
(* reconfiguration, failure, rollback and kill, until it is down (main.rs  *)
(* 677: "guards must exist before NetworkManager activates sharing").      *)
GuardsWhileActive == \A ap \in nm.active : GuardsOf(ap) \subseteq rules

(* The invocation of `cmd` returns `status` in this step.                  *)
Returns(cmd, status) ==
  pc # "idle" /\ pc' = "idle" /\ report'.cmd = cmd /\ report'.status = status

(* A stop that reports success, and a start that failed and was rolled     *)
(* back to the end, leave no AP, no profile, no rule of the interface and  *)
(* no record.                                                              *)
CleanEnd ==
  [][ Returns("stop", "ok") \/ (Returns("start", "error") /\ pc = "table") =>
        /\ nm'.active = {} /\ nm'.profiles = {}
        /\ \A r \in rules' : ~Owned(r, report'.iface)
        /\ record' = "none" ]_vars

(* Traffic is never accepted from an AP to an uplink without being         *)
(* masqueraded - while rules are set, removed or left by a kill - and      *)
(* between invocations an AP has all NAT rules for one uplink or none: a   *)
(* set-up that failed half way is taken back.  (Unless iptables failed to  *)
(* remove a rule, or, for the latter, a kill prevented it.)                *)
NatIsWhole ==
  past.dirty \/
    /\ \A r \in rules : r.kind = "accept" => Of("masquerade", r.ap, r.up) \in rules
    /\ pc = "idle" /\ ~past.killed => \A ap \in Ap :
         LET nat == {r \in rules : r.ap = ap /\ r.kind \in NatKinds}
         IN nat = {} \/ \E up \in Uplink : nat = {Of(kind, ap, up) : kind \in NatKinds}

(* What a successful command promised is what `route status` reads back    *)
(* from the rules: the uplink, or isolation with no NAT rule left over     *)
(* from an earlier mode.                                                   *)
StatusAgrees ==
  [][ \A cmd \in {"start", "enable", "isolate"} : Returns(cmd, "ok") =>
        (Mode(report.iface) = {IF report.up = None THEN "isolated" ELSE report.up})'
   ]_vars

(* When the record is given up, forwarding is what it was before the first *)
(* start since the last record, restarts, failed and killed commands       *)
(* notwithstanding, unless another connection shares IPv4 or the           *)
(* environment raced with a command; and only if it was off, and nobody    *)
(* else needs it, is it switched off - except by an invocation that cannot *)
(* read it: that one does not ask who else does (routing.rs 218).          *)
ForwardingRestored ==
  [][ /\ record # "none" /\ record' = "none" /\ past.origin = "off" =>
           ~host.forward \/ host.others \/ past.raced
      /\ pc = "sysctl" /\ host'.forward # host.forward =>
           past.origin = "off" /\ (~host.others \/ past.raced \/ me.blind) ]_vars

----------------------------------------------------------------------------
(* What a comment says and the code does not do *)

(* routing.rs "kept under /run so a later `hotspot stop`, possibly from    *)
(* another process, can put it back": a stop no command of which fails     *)
(* does, if the hotspot is the one it names.                               *)
StopPutsItBack ==
  [][ /\ \E status \in {"ok", "error"} : Returns("stop", status)
      /\ pc # "old device" /\ budget.faults = 0 /\ past.origin = "off"
      => ~host'.forward \/ host.others \/ past.raced ]_vars
=============================================================================
