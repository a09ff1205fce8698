--------------------------- MODULE HotspotProofs ---------------------------
(***************************************************************************)
(* The properties of Hotspot for any interfaces, uplinks and bounds.       *)
(*                                                                         *)
(* The first invariant says where each stage of an invocation may be       *)
(* (Staged), what the loops have done so far (Counted), that guards are    *)
(* only removed when NetworkManager holds no AP (Unguarding), that they    *)
(* are complete from the last one set until the activation (Armed), and    *)
(* that the only profile an activation can find is that of the interface   *)
(* just armed (OneProfile): GuardsWhileActive.                             *)
(*                                                                         *)
(* Recorded ties the record to what forwarding was when it was made, step  *)
(* by step of restore_after_hotspot: ForwardingRestored.                   *)
(*                                                                         *)
(* Firm says which chains a sweep is through with and that nothing it is   *)
(* to remove is left in them (SweptSoFar), which NAT rules an AP being set *)
(* up has (SetUp), that every other AP has all or none and that accepted   *)
(* traffic is masqueraded (Wholeness), and what a stop or a rollback has   *)
(* taken away (TakenDown): NatIsWhole, CleanEnd, StatusAgrees.             *)
(***************************************************************************)
EXTENDS Hotspot, TLAPS

Sweepers == {"clear", "isolate", "nat", "undo nat", "rollback", "stop", "reset"}

(* Which stages reach which command.                                       *)
Staged ==
  /\ pc = "idle" => me = Idle
  /\ pc \in {"remember", "write record"} => me.stage = "clear"
  /\ pc \in {"radio", "add", "up"} => me.stage = "activate"
  /\ pc \in {"link", "guard", "ingest"} => me.stage \in {"isolate", "nat"}
  /\ pc \in {"nat", "forwarding", "address"} => me.stage = "nat"
  /\ pc \in {"chain", "remove"} => me.stage \in Sweepers
  /\ pc \in {"query", "down", "list", "delete"} =>
       me.stage \in {"clear", "rollback", "stop"}
  /\ pc = "validate" => me.stage \in {"clear", "nat"}
  /\ pc = "old device" => me.stage \in {"clear", "stop"}
  /\ pc \in {"read record", "others", "sysctl", "forget", "table"} =>
       me.stage \in {"rollback", "stop"}
  /\ me.stage \in {"clear", "activate", "rollback"} => me.cmd = "start"
  /\ me.stage \in {"isolate", "nat", "undo nat"} =>
       me.cmd \in {"start", "enable", "isolate"}
  /\ me.cmd \in {"start", "enable", "isolate"} => me.iface \in Ap

(* How far the loops are.                                                  *)
Counted ==
  /\ pc \in {"ingest", "nat"} => me.k <= 3
  /\ pc \in {"chain", "remove"} => me.k <= 5
  /\ pc = "guard" =>
       \A j \in 1..6 : j < me.k => Of(Guards[j], me.iface, None) \in rules

(* remove_owned takes guards only when no AP is up.                        *)
Unguarding ==
  /\ pc \in {"list", "delete"} => nm.active = {}
  /\ pc \in {"chain", "remove"} /\ ~KeepDrops => nm.active = {}
  /\ pc = "remove" /\ KeepDrops => \A r \in me.left : r.kind \notin GuardKinds

(* The interface is guarded from the last guard on until it is up.         *)
Armed ==
  \/ pc \in {"chain", "remove", "ingest"} /\ me.stage = "isolate"
  \/ pc \in {"radio", "add", "up"}
  => GuardsOf(me.iface) \subseteq rules

(* The profile brought up is the one just added.                           *)
OneProfile ==
  /\ pc \in {"remember", "write record", "radio", "add"} => nm.profiles = {}
  /\ pc \in {"chain", "remove"} /\ me.stage = "clear" => nm.profiles = {}
  /\ me.stage = "isolate" /\ me.cmd = "start" => nm.profiles = {}
  /\ pc = "up" => nm.profiles = {me.iface}

Control == Staged /\ Counted /\ Unguarding /\ Armed /\ OneProfile
IInv == TypeOK /\ Control /\ GuardsWhileActive

----------------------------------------------------------------------------
(* The rule lists name every kind they should. *)

LEMMA RuleLists ==
  /\ \A j \in 1..6 : Guards[j] \in GuardKinds
  /\ \A j \in 1..3 : Ingest[j] \in Kinds /\ NatRules[j] \in Kinds
  /\ Len(Guards) = 6 /\ Len(Ingest) = 3 /\ Len(NatRules) = 3 /\ Len(Chains) = 5
<1>1. \A j \in 1..6 : j = 1 \/ j = 2 \/ j = 3 \/ j = 4 \/ j = 5 \/ j = 6
  OBVIOUS
<1>2. \A j \in 1..3 : j = 1 \/ j = 2 \/ j = 3
  OBVIOUS
<1>4. \A j \in 1..6 : Guards[j] \in GuardKinds
  <2> SUFFICES ASSUME NEW j \in 1..6 PROVE Guards[j] \in GuardKinds
    OBVIOUS
  <2>1. CASE j = 1 BY <2>1 DEF Guards, GuardKinds
  <2>2. CASE j = 2 BY <2>2 DEF Guards, GuardKinds
  <2>3. CASE j = 3 BY <2>3 DEF Guards, GuardKinds
  <2>4. CASE j = 4 BY <2>4 DEF Guards, GuardKinds
  <2>5. CASE j = 5 BY <2>5 DEF Guards, GuardKinds
  <2>6. CASE j = 6 BY <2>6 DEF Guards, GuardKinds
  <2> QED BY <1>1, <2>1, <2>2, <2>3, <2>4, <2>5, <2>6
<1>6. \A j \in 1..3 : Ingest[j] \in Kinds /\ NatRules[j] \in Kinds
  <2> SUFFICES ASSUME NEW j \in 1..3 PROVE Ingest[j] \in Kinds /\ NatRules[j] \in Kinds
    OBVIOUS
  <2>1. CASE j = 1
    <3>1. Ingest[1] \in Kinds BY DEF Ingest, Kinds
    <3>2. NatRules[1] \in Kinds BY DEF NatRules, Kinds, NatKinds
    <3> QED BY <2>1, <3>1, <3>2
  <2>2. CASE j = 2
    <3>1. Ingest[2] \in Kinds BY DEF Ingest, Kinds
    <3>2. NatRules[2] \in Kinds BY DEF NatRules, Kinds, NatKinds
    <3> QED BY <2>2, <3>1, <3>2
  <2>3. CASE j = 3
    <3>1. Ingest[3] \in Kinds BY DEF Ingest, Kinds
    <3>2. NatRules[3] \in Kinds BY DEF NatRules, Kinds, NatKinds
    <3> QED BY <2>3, <3>1, <3>2
  <2> QED BY <1>2, <2>1, <2>2, <2>3
<1>7. Len(Guards) = 6 /\ Len(Ingest) = 3 /\ Len(NatRules) = 3 /\ Len(Chains) = 5
  BY DEF Guards, Ingest, NatRules, Chains
<1> QED BY <1>4, <1>6, <1>7

(* Six guards, one of each kind.                                           *)
LEMMA GuardsComplete ==
  ASSUME NEW ap, NEW R, \A j \in 1..6 : Of(Guards[j], ap, None) \in R
  PROVE  GuardsOf(ap) \subseteq R
<1>1. /\ Guards[1] = "in" /\ Guards[2] = "out" /\ Guards[3] = "input"
      /\ Guards[4] = "in6" /\ Guards[5] = "out6" /\ Guards[6] = "input6"
  BY DEF Guards
<1>2. 1 \in 1..6 /\ 2 \in 1..6 /\ 3 \in 1..6 /\ 4 \in 1..6 /\ 5 \in 1..6 /\ 6 \in 1..6
  OBVIOUS
<1>3. /\ Of("in", ap, None) \in R /\ Of("out", ap, None) \in R
      /\ Of("input", ap, None) \in R /\ Of("in6", ap, None) \in R
      /\ Of("out6", ap, None) \in R /\ Of("input6", ap, None) \in R
  BY <1>1, <1>2
<1> QED BY <1>3 DEF GuardsOf, GuardKinds

(* Where control goes keeps the type of the locals.                        *)
LEMMA IdleType == Idle \in Locals
BY DEF Idle, Locals, CommandNames, Stages

LEMMA GotoType ==
  ASSUME TypeOK, NEW to \in Labels, NEW stage \in Stages, Goto(to, stage)
  PROVE  pc' \in Labels /\ me' \in Locals /\ report' \in Reports
<1>1. me \in Locals /\ report \in Reports /\ 1 \in 1..6 BY DEF TypeOK
<1>2. [me EXCEPT !.stage = stage, !.k = 1] \in Locals BY <1>1 DEF Locals
<1> QED BY <1>1, <1>2 DEF Goto

(* The invocation that cannot read ip_forward.                             *)
LEMMA UnreadFacts ==
  ASSUME TypeOK, Unread
  PROVE  /\ pc' \in {"sysctl", "forget"} /\ me' \in Locals /\ UNCHANGED report
         /\ me'.stage = me.stage /\ me'.k = me.k /\ me'.left = me.left
         /\ me'.cmd = me.cmd /\ me'.iface = me.iface /\ me'.up = me.up
         /\ me'.bad = me.bad /\ me'.blind
<1>1. me \in Locals /\ me' = [me EXCEPT !.blind = TRUE] BY DEF TypeOK, Unread
<1>2. me' \in Locals BY <1>1 DEF Locals
<1>3. pc' \in {"sysctl", "forget"} /\ UNCHANGED report BY DEF Unread
<1> QED BY <1>1, <1>2, <1>3 DEF Locals

LEMMA SweepType ==
  ASSUME TypeOK, NEW stage \in Stages, Sweep(stage)
  PROVE  pc' \in Labels /\ me' \in Locals /\ report' \in Reports
<1>1. me \in Locals /\ report \in Reports /\ 1 \in 1..6 BY DEF TypeOK
<1>2. [me EXCEPT !.stage = stage, !.k = 1, !.left = {}, !.bad = FALSE] \in Locals
  BY <1>1 DEF Locals
<1>3. "chain" \in Labels BY DEF Labels
<1> QED BY <1>1, <1>2, <1>3 DEF Sweep

LEMMA FinishType ==
  ASSUME TypeOK, NEW status \in {"ok", "error", "killed"}, Finish(status)
  PROVE  pc' \in Labels /\ me' \in Locals /\ report' \in Reports
<1>1. me \in Locals BY DEF TypeOK
<1>2. "idle" \in Labels BY DEF Labels
<1>3. [cmd |-> me.cmd, iface |-> me.iface, up |-> me.up, status |-> status] \in Reports
  BY <1>1 DEF Locals, Reports
<1> QED BY <1>2, <1>3, IdleType DEF Finish

LEMMA RaiseType ==
  ASSUME TypeOK, Raise
  PROVE  pc' \in Labels /\ me' \in Locals /\ report' \in Reports
<1>1. "undo nat" \in Stages /\ "rollback" \in Stages /\ "query" \in Labels
  BY DEF Stages, Labels
<1> QED BY <1>1, SweepType, GotoType, FinishType DEF Raise

LEMMA AgainType ==
  ASSUME TypeOK, me.k <= 5, Again
  PROVE  pc' \in Labels /\ me' \in Locals /\ report' \in Reports
<1>1. me \in Locals /\ me.k \in 1..6 BY DEF TypeOK, Locals
<1>2. me.k + 1 \in 1..6 BY <1>1
<1> QED BY <1>1, <1>2 DEF Again, TypeOK, Locals

LEMMA BudgetType ==
  ASSUME TypeOK
  PROVE  Works \/ Fault \/ Move => budget' \in Budgets
BY DEF TypeOK, Works, Fault, Move, Budgets

LEMMA InsertType ==
  ASSUME TypeOK, NEW kind \in Kinds, NEW up \in Uplink \cup {None}, me.iface \in Ap,
         Insert(kind, up)
  PROVE  /\ rules' \in SUBSET Rule /\ budget' \in Budgets
         /\ UNCHANGED <<nm, host, record, past>>
<1>1. Of(kind, me.iface, up) \in Rule BY DEF Of, Rule
<1> QED BY <1>1, BudgetType DEF Insert, TypeOK

LEMMA Counting ==
  \A n \in 1..6 : /\ n < 5 => n + 1 \in 1..6 /\ n + 1 <= 5
                  /\ n < 6 => n <= 5
                  /\ n <= 3 => n <= 5 /\ n \in 1..3
                  /\ n < 3 => n + 1 <= 3
                  /\ ~(n < 6) => n = 6
                  /\ n <= 5 /\ n # 5 => n < 5
                  /\ \A j \in 1..6 : j < n + 1 => j < n \/ j = n
OBVIOUS

LEMMA StageTypes ==
  ASSUME TypeOK
  PROVE  /\ me.stage \in Stages /\ me.cmd \in CommandNames
         /\ me.iface \in Ap \cup {None} /\ me.up \in Uplink \cup {None}
         /\ me.k \in 1..6 /\ me.left \in SUBSET Rule
BY DEF TypeOK, Locals

LEMMA LabelTypes ==
  /\ {"idle", "validate", "old device", "query", "down", "list", "delete",
      "remember", "write record", "link", "guard", "chain", "remove",
      "ingest", "radio", "add", "up", "forwarding", "address", "nat",
      "read record", "others", "sysctl", "forget", "table"} \subseteq Labels
  /\ {"none", "clear", "isolate", "activate", "nat", "undo nat",
      "rollback", "stop", "reset"} \subseteq Stages
BY DEF Labels, Stages

----------------------------------------------------------------------------
(* Type correctness *)

(* An invocation's step that only moves control, in a world of the right   *)
(* type, keeps the type.                                                   *)
LEMMA ControlType ==
  ASSUME TypeOK, pc' \in Labels, me' \in Locals, report' \in Reports,
         rules' \in SUBSET Rule, nm' \in Managers, host' \in Hosts,
         record' \in {"none", "torn", "on", "off"}, past' \in Histories,
         budget' \in Budgets
  PROVE  TypeOK'
BY DEF TypeOK

LEMMA SameWorld ==
  ASSUME TypeOK
  PROVE  /\ UNCHANGED rules => rules' \in SUBSET Rule
         /\ UNCHANGED nm => nm' \in Managers
         /\ UNCHANGED host => host' \in Hosts
         /\ UNCHANGED record => record' \in {"none", "torn", "on", "off"}
         /\ UNCHANGED past => past' \in Histories
         /\ UNCHANGED report => report' \in Reports
         /\ UNCHANGED me => me' \in Locals
         /\ UNCHANGED pc => pc' \in Labels
BY DEF TypeOK

LEMMA TypeInit == Init => TypeOK
<1> SUFFICES ASSUME Init PROVE TypeOK
  OBVIOUS
<1>1. me \in Locals /\ pc \in Labels BY IdleType, LabelTypes DEF Init
<1>2. host \in Hosts BY DEF Init, Hosts
<1>3. nm \in Managers BY DEF Init, Managers
<1>4. report \in Reports BY DEF Init, Reports, CommandNames
<1>5. past \in Histories /\ budget \in Budgets BY DEF Init, Histories, Budgets
<1> QED BY <1>1, <1>2, <1>3, <1>4, <1>5 DEF Init, TypeOK

LEMMA CommandType ==
  ASSUME TypeOK, NEW cmd \in CommandNames, NEW iface \in Ap \cup {None},
         NEW up \in Uplink \cup {None}, NEW stage \in Stages, NEW first \in Labels,
         Command(cmd, iface, up, stage, first)
  PROVE  TypeOK'
<1>1. me' \in Locals
  <2>1. [Idle EXCEPT !.cmd = cmd, !.iface = iface, !.up = up, !.stage = stage] \in Locals
    BY IdleType DEF Locals
  <2> QED BY <2>1 DEF Command
<1>2. budget' \in Budgets BY DEF Command, TypeOK, Budgets
<1>3. pc' = first /\ UNCHANGED <<rules, nm, host, record, report, past>>
  BY DEF Command, world
<1> QED BY <1>1, <1>2, <1>3, SameWorld, ControlType

LEMMA CommandsType ==
  ASSUME TypeOK, Commands
  PROVE  TypeOK'
<1> USE DEF CommandNames
<1>1. CASE HotspotStart
  BY <1>1, CommandType, LabelTypes DEF HotspotStart
<1>2. CASE HotspotStop
  BY <1>2, CommandType, LabelTypes DEF HotspotStop
<1>3. CASE RouteEnable
  BY <1>3, CommandType, LabelTypes DEF RouteEnable
<1>4. CASE RouteIsolate
  BY <1>4, CommandType, LabelTypes DEF RouteIsolate
<1>5. CASE RouteReset
  BY <1>5, CommandType, LabelTypes DEF RouteReset
<1> QED BY <1>1, <1>2, <1>3, <1>4, <1>5 DEF Commands

LEMMA StoppedType ==
  ASSUME TypeOK, Stopped
  PROVE  pc' \in Labels /\ me' \in Locals /\ report' \in Reports
<1>1. CASE me.stage = "clear" /\ me.old = None
  <2>1. Goto("remember", "clear") BY <1>1 DEF Stopped
  <2> QED BY <2>1, GotoType, LabelTypes
<1>2. CASE ~(me.stage = "clear" /\ me.old = None)
  <2>1. Sweep(me.stage) BY <1>2 DEF Stopped
  <2> QED BY <2>1, SweepType, StageTypes
<1> QED BY <1>1, <1>2

(* The steps that look or fail and leave the world alone.                  *)
LEMMA LookingType ==
  ASSUME TypeOK,
         \/ CommandFails \/ Validate \/ OldDevice \/ Query \/ ListProfiles \/ Link
         \/ NextChain \/ Swept \/ Radio \/ CheckForwarding \/ Address
         \/ ReadRecord \/ AskOthers
  PROVE  TypeOK'
<1>1. /\ UNCHANGED <<rules, nm, host, record, past>>
      /\ budget' \in Budgets
  BY BudgetType DEF CommandFails, Validate, OldDevice, Query, ListProfiles, Link, NextChain,
     Swept, Radio, CheckForwarding, Address, ReadRecord, AskOthers, world
<1>3. me.k \in 1..6 BY StageTypes
<1>2. pc' \in Labels /\ me' \in Locals /\ report' \in Reports
  <2> USE StageTypes, LabelTypes, GotoType, RaiseType, SweepType, FinishType
  <2>1. CASE CommandFails BY <2>1 DEF CommandFails
  <2>2. CASE Validate BY <2>2 DEF Validate
  <2>3. CASE OldDevice
    <3>1. PICK dev \in IF nm.active = {} THEN {None} ELSE nm.active :
            \/ /\ me.cmd = "start"
               /\ pc' = "query" /\ me' = [me EXCEPT !.old = dev] /\ UNCHANGED report
            \/ /\ me.cmd = "stop"
               /\ dev = me.iface \/ None \in {dev, me.iface}
               /\ pc' = "query" /\ UNCHANGED report
               /\ me' = [me EXCEPT !.iface = IF dev = None THEN @ ELSE dev]
            \/ /\ me.cmd = "stop" /\ dev # None /\ me.iface \notin {None, dev}
               /\ Raise
      BY <2>3 DEF OldDevice
    <3>2. dev \in Ap \cup {None} BY <3>1 DEF TypeOK, Managers
    <3>3. /\ [me EXCEPT !.old = dev] \in Locals
          /\ [me EXCEPT !.iface = IF dev = None THEN @ ELSE dev] \in Locals
      BY <3>2 DEF TypeOK, Locals
    <3>4. "query" \in Labels BY DEF Labels
    <3> QED BY <3>1, <3>3, <3>4, SameWorld
  <2>4. CASE Query BY <2>4, SameWorld DEF Query, Step, Labels
  <2>5. CASE ListProfiles BY <2>5, StoppedType DEF ListProfiles
  <2>6. CASE Link BY <2>6 DEF Link
  <2>7. CASE NextChain
    <3>1. me.k + 1 \in 1..6
      <4>1. me.k < Len(Chains) BY <2>7 DEF NextChain
      <4>2. Len(Chains) = 5 BY RuleLists
      <4> QED BY <4>1, <4>2, <1>3, Counting
    <3>2. [me EXCEPT !.k = @ + 1] \in Locals BY <3>1 DEF TypeOK, Locals
    <3> QED BY <2>7, <3>2, SameWorld DEF NextChain, Step, Labels
  <2>8. CASE Swept
    <3>1. \/ Raise
          \/ Goto("remember", "clear")
          \/ Goto("ingest", me.stage)
          \/ Goto("read record", me.stage)
          \/ Finish("ok")
      BY <2>8 DEF Swept
    <3>2. CASE Raise BY <3>2
    <3>3. CASE Goto("remember", "clear") BY <3>3
    <3>4. CASE Goto("ingest", me.stage) BY <3>4
    <3>5. CASE Goto("read record", me.stage) BY <3>5
    <3>6. CASE Finish("ok") BY <3>6
    <3> QED BY <3>1, <3>2, <3>3, <3>4, <3>5, <3>6
  <2>9. CASE Radio BY <2>9 DEF Radio
  <2>10. CASE CheckForwarding BY <2>10 DEF CheckForwarding
  <2>11. CASE Address BY <2>11 DEF Address
  <2>12. CASE ReadRecord
    <3>1. CASE Unread
      <4>1. report' \in Reports BY <3>1, UnreadFacts DEF TypeOK
      <4> QED BY <3>1, <4>1, UnreadFacts
    <3> QED BY <2>12, <3>1 DEF ReadRecord
  <2>13. CASE AskOthers BY <2>13 DEF AskOthers
  <2> QED BY <2>1, <2>2, <2>3, <2>4, <2>5, <2>6, <2>7, <2>8, <2>9, <2>10, <2>11, <2>12, <2>13
<1> QED BY <1>1, <1>2, SameWorld, ControlType

(* The steps that change the firewall.                                     *)
LEMMA RulesType ==
  ASSUME TypeOK, Staged, Counted, SetGuard \/ SetIngest \/ SetNat \/ ListChain \/ RemoveRule
  PROVE  TypeOK'
<1>0. me.k \in 1..6 /\ me.stage \in Stages /\ me.up \in Uplink \cup {None}
  BY StageTypes
<1>1. CASE SetGuard
  <2>1. me.iface \in Ap BY <1>1 DEF SetGuard, Staged
  <2>2. Guards[me.k] \in Kinds
    <3>1. Guards[me.k] \in GuardKinds BY <1>0, RuleLists
    <3> QED BY <3>1 DEF Kinds
  <2>3. /\ rules' \in SUBSET Rule /\ budget' \in Budgets
        /\ UNCHANGED <<nm, host, record, past>>
    <3>1. Insert(Guards[me.k], None) BY <1>1 DEF SetGuard
    <3> QED BY <3>1, <2>1, <2>2, InsertType
  <2>4. pc' \in Labels /\ me' \in Locals /\ report' \in Reports
    <3>1. CASE me.k < Len(Guards)
      <4>1. Again BY <1>1, <3>1 DEF SetGuard
      <4>2. me.k < 6 BY <3>1, RuleLists
      <4>3. me.k <= 5 BY <4>2, <1>0, Counting
      <4> QED BY <4>1, <4>3, AgainType
    <3>2. CASE ~(me.k < Len(Guards))
      <4>1. Sweep(me.stage) BY <1>1, <3>2 DEF SetGuard
      <4> QED BY <4>1, <1>0, SweepType
    <3> QED BY <3>1, <3>2
  <2> QED BY <2>3, <2>4, SameWorld, ControlType
<1>2. CASE SetIngest
  <2>1. me.iface \in Ap BY <1>2 DEF SetIngest, Staged
  <2>2. me.k <= 3 BY <1>2 DEF SetIngest, Counted
  <2>3. Ingest[me.k] \in Kinds
    <3>1. me.k \in 1..3 BY <2>2, <1>0, Counting
    <3> QED BY <3>1, RuleLists
  <2>4. /\ rules' \in SUBSET Rule /\ budget' \in Budgets
        /\ UNCHANGED <<nm, host, record, past>>
    <3>1. Insert(Ingest[me.k], None) BY <1>2 DEF SetIngest
    <3> QED BY <3>1, <2>1, <2>3, <1>0, InsertType
  <2>5. pc' \in Labels /\ me' \in Locals /\ report' \in Reports
    <3>1. Again \/ Goto("nat", "nat") \/ Goto("radio", "activate") \/ Finish("ok")
      BY <1>2 DEF SetIngest
    <3>2. CASE Again
      <4>1. me.k <= 5 BY <2>2, <1>0, Counting
      <4> QED BY <3>2, <4>1, AgainType
    <3>3. CASE Goto("nat", "nat") BY <3>3, GotoType, LabelTypes
    <3>4. CASE Goto("radio", "activate") BY <3>4, GotoType, LabelTypes
    <3>5. CASE Finish("ok") BY <3>5, FinishType
    <3> QED BY <3>1, <3>2, <3>3, <3>4, <3>5
  <2> QED BY <2>4, <2>5, SameWorld, ControlType
<1>3. CASE SetNat
  <2>1. me.iface \in Ap BY <1>3 DEF SetNat, Staged
  <2>2. me.k <= 3 BY <1>3 DEF SetNat, Counted
  <2>3. NatRules[me.k] \in Kinds
    <3>1. me.k \in 1..3 BY <2>2, <1>0, Counting
    <3> QED BY <3>1, RuleLists
  <2>4. /\ rules' \in SUBSET Rule /\ budget' \in Budgets
        /\ UNCHANGED <<nm, host, record, past>>
    <3>1. Insert(NatRules[me.k], me.up) BY <1>3 DEF SetNat
    <3> QED BY <3>1, <2>1, <2>3, <1>0, InsertType
  <2>5. pc' \in Labels /\ me' \in Locals /\ report' \in Reports
    <3>1. Again \/ Finish("ok") BY <1>3 DEF SetNat
    <3>2. CASE Again
      <4>1. me.k <= 5 BY <2>2, <1>0, Counting
      <4> QED BY <3>2, <4>1, AgainType
    <3>3. CASE Finish("ok") BY <3>3, FinishType
    <3> QED BY <3>1, <3>2, <3>3
  <2> QED BY <2>4, <2>5, SameWorld, ControlType
<1>4. CASE ListChain
  <2>1. Listed \in SUBSET Rule BY DEF Listed, TypeOK
  <2>2. /\ [me EXCEPT !.left = Listed] \in Locals
        /\ [me EXCEPT !.left = {}, !.bad = TRUE] \in Locals
    BY <2>1 DEF TypeOK, Locals
  <2>3. past' \in Histories BY <1>4 DEF ListChain, Dirty, TypeOK, Histories
  <2>4. budget' \in Budgets BY <1>4, BudgetType DEF ListChain
  <2>5. pc' = "remove" /\ pc' \in Labels /\ me' \in Locals /\ UNCHANGED <<rules, nm, host, record, report>>
    BY <1>4, <2>2, LabelTypes DEF ListChain, Step, world
  <2> QED BY <2>3, <2>4, <2>5, SameWorld, ControlType
<1>5. CASE RemoveRule
  <2>1. PICK r \in me.left :
          \/ /\ r \in rules /\ rules' = rules \ {r}
             /\ me' = [me EXCEPT !.left = @ \ {r}]
             /\ UNCHANGED past /\ Works
          \/ /\ me' = [me EXCEPT !.left = @ \ {r}, !.bad = TRUE]
             /\ IF r \in rules THEN Fault ELSE Works
             /\ Dirty /\ UNCHANGED rules
    BY <1>5 DEF RemoveRule
  <2>2. /\ [me EXCEPT !.left = @ \ {r}] \in Locals
        /\ [me EXCEPT !.left = @ \ {r}, !.bad = TRUE] \in Locals
    BY DEF TypeOK, Locals
  <2>3. rules' \in SUBSET Rule BY <2>1 DEF TypeOK
  <2>4. past' \in Histories BY <2>1 DEF Dirty, TypeOK, Histories
  <2>5. budget' \in Budgets BY <2>1, BudgetType
  <2>6. pc' = "remove" /\ pc' \in Labels /\ me' \in Locals /\ UNCHANGED <<nm, host, record, report>>
    BY <1>5, <2>1, <2>2, LabelTypes DEF RemoveRule, Step
  <2> QED BY <2>3, <2>4, <2>5, <2>6, SameWorld, ControlType
<1> QED BY <1>1, <1>2, <1>3, <1>4, <1>5

(* The steps that change NetworkManager, the host or the record.           *)
LEMMA WorldType ==
  ASSUME TypeOK, Staged,
         \/ Down \/ DeleteProfile \/ Remember \/ WriteRecord \/ AddProfile \/ Up
         \/ SwitchOff \/ Forget \/ RemoveTable
  PROVE  TypeOK'
<1> USE StageTypes, LabelTypes
<1>1. CASE Down
  <2>1. nm' \in Managers BY <1>1 DEF Down, TypeOK, Managers
  <2>2. pc' = "list" /\ budget' \in Budgets /\ UNCHANGED <<me, rules, host, record, report, past>>
    BY <1>1, BudgetType DEF Down, Step
  <2> QED BY <2>1, <2>2, SameWorld, ControlType
<1>2. CASE DeleteProfile
  <2>1. nm' \in Managers BY <1>2 DEF DeleteProfile, TypeOK, Managers
  <2>2. pc' \in Labels /\ me' \in Locals /\ report' \in Reports
    BY <1>2, StoppedType DEF DeleteProfile
  <2>3. budget' \in Budgets /\ UNCHANGED <<rules, host, record, past>>
    BY <1>2, BudgetType DEF DeleteProfile
  <2> QED BY <2>1, <2>2, <2>3, SameWorld, ControlType
<1>3. CASE Remember
  <2>1. budget' \in Budgets /\ UNCHANGED <<rules, nm, host>>
    BY <1>3, BudgetType DEF Remember
  <2>2. CASE Goto("link", "isolate") /\ UNCHANGED <<record, past>>
    BY <2>1, <2>2, GotoType, SameWorld, ControlType
  <2>3. CASE Recording
    <3>1. \A v \in {"on", "off"} :
            [me EXCEPT !.now = v] \in Locals /\ [me EXCEPT !.now = v].now = v
      BY DEF TypeOK, Locals
    <3>2. me' \in Locals /\ me'.now \in {"on", "off"}
      BY <2>3, <3>1 DEF Recording, Forwarding
    <3>3. past' \in Histories
      BY <2>3, <3>2 DEF Recording, TypeOK, Histories
    <3>4. pc' = "write record" /\ record' = "torn" /\ UNCHANGED report
      BY <2>3 DEF Recording
    <3> QED BY <2>1, <3>2, <3>3, <3>4, SameWorld, ControlType
  <2> QED BY <1>3, <2>2, <2>3 DEF Remember
<1>4. CASE WriteRecord
  <2>1. record' \in {"none", "torn", "on", "off"} BY <1>4 DEF WriteRecord, TypeOK, Locals
  <2>2. pc' \in Labels /\ me' \in Locals /\ report' \in Reports
    BY <1>4, GotoType DEF WriteRecord
  <2>3. budget' \in Budgets /\ UNCHANGED <<rules, nm, host, past>>
    BY <1>4, BudgetType DEF WriteRecord
  <2> QED BY <2>1, <2>2, <2>3, SameWorld, ControlType
<1>5. CASE AddProfile
  <2>1. me.iface \in Ap BY <1>5 DEF AddProfile, Staged
  <2>2. nm' \in Managers BY <1>5, <2>1 DEF AddProfile, TypeOK, Managers
  <2>3. pc' \in Labels /\ me' \in Locals /\ report' \in Reports
    BY <1>5, GotoType DEF AddProfile
  <2>4. budget' \in Budgets /\ UNCHANGED <<rules, host, record, past>>
    BY <1>5, BudgetType DEF AddProfile
  <2> QED BY <2>2, <2>3, <2>4, SameWorld, ControlType
<1>6. CASE Up
  <2>1. nm' \in Managers /\ host' \in Hosts /\ past' \in Histories
    <3>1. CASE Activated
      <4>1. PICK ap \in nm.profiles :
              nm' = [nm EXCEPT !.active = @ \cup {ap}, !.tables = @ \cup {ap}]
        BY <3>1 DEF Activated
      <4>2. nm' \in Managers BY <4>1 DEF TypeOK, Managers
      <4>3. host' \in Hosts BY <3>1 DEF Activated, TypeOK, Hosts
      <4>4. past' \in Histories BY <1>6 DEF Up, TypeOK
      <4> QED BY <4>2, <4>3, <4>4
    <3> QED BY <1>6, <3>1, SameWorld DEF Up
  <2>2. pc' \in Labels /\ me' \in Locals /\ report' \in Reports
    BY <1>6, GotoType, FinishType, RaiseType DEF Up
  <2>3. budget' \in Budgets /\ UNCHANGED <<rules, record>>
    BY <1>6, BudgetType DEF Up
  <2> QED BY <2>1, <2>2, <2>3, SameWorld, ControlType
<1>7. CASE SwitchOff
  <2>1. host' \in Hosts BY <1>7 DEF SwitchOff, TypeOK, Hosts
  <2>2. pc' \in Labels /\ me' \in Locals /\ report' \in Reports
    BY <1>7, GotoType, RaiseType DEF SwitchOff
  <2>3. budget' \in Budgets /\ UNCHANGED <<rules, nm, record, past>>
    BY <1>7, BudgetType DEF SwitchOff
  <2> QED BY <2>1, <2>2, <2>3, SameWorld, ControlType
<1>8. CASE Forget
  <2>1. past' \in Histories BY <1>8 DEF Forget, TypeOK, Histories
  <2>2. pc' \in Labels /\ me' \in Locals /\ report' \in Reports
    BY <1>8, GotoType DEF Forget
  <2>3. record' = "none" /\ budget' \in Budgets /\ UNCHANGED <<rules, nm, host>>
    BY <1>8, BudgetType DEF Forget
  <2> QED BY <2>1, <2>2, <2>3, SameWorld, ControlType
<1>9. CASE RemoveTable
  <2>1. nm' \in Managers BY <1>9 DEF RemoveTable, TypeOK, Managers
  <2>2. pc' \in Labels /\ me' \in Locals /\ report' \in Reports
    BY <1>9, FinishType DEF RemoveTable
  <2>3. budget' \in Budgets /\ UNCHANGED <<rules, host, record, past>>
    BY <1>9, BudgetType DEF RemoveTable
  <2> QED BY <2>1, <2>2, <2>3, SameWorld, ControlType
<1> QED BY <1>1, <1>2, <1>3, <1>4, <1>5, <1>6, <1>7, <1>8, <1>9

LEMMA EnvironmentType ==
  ASSUME TypeOK, Environment
  PROVE  TypeOK'
<1>1. CASE Kill
  <2>1. pc' \in Labels /\ me' \in Locals /\ report' \in Reports
    BY <1>1, FinishType DEF Kill
  <2>2. past' \in Histories BY <1>1 DEF Kill, TypeOK, Histories
  <2>3. budget' \in Budgets BY <1>1 DEF Kill, TypeOK, Budgets
  <2>4. UNCHANGED <<rules, nm, host, record>> BY <1>1 DEF Kill, world
  <2> QED BY <2>1, <2>2, <2>3, <2>4, SameWorld, ControlType
<1>2. CASE ApLost \/ OtherConnection \/ AdminForwarding \/ RouteChanges
  <2> USE DEF ApLost, OtherConnection, AdminForwarding, RouteChanges, Moved
  <2>1. nm' \in Managers BY <1>2 DEF TypeOK, Managers
  <2>2. host' \in Hosts BY <1>2 DEF TypeOK, Hosts
  <2>3. past' \in Histories BY <1>2 DEF TypeOK, Histories, Racing, Hosts
  <2>4. budget' \in Budgets /\ UNCHANGED <<pc, me, rules, record, report>>
    BY <1>2, BudgetType
  <2> QED BY <2>1, <2>2, <2>3, <2>4, SameWorld, ControlType
<1> QED BY <1>1, <1>2 DEF Environment

LEMMA TypeNext ==
  ASSUME TypeOK, Staged, Counted, [Next]_vars
  PROVE  TypeOK'
<1>1. CASE Next
  BY <1>1, CommandsType, LookingType, RulesType, WorldType, EnvironmentType
     DEF Next, Runs
<1>2. CASE UNCHANGED vars
  BY <1>2 DEF vars, world, TypeOK
<1> QED BY <1>1, <1>2
----------------------------------------------------------------------------
(* Control *)

(* What the control operators leave in the locals.                         *)
LEMMA GotoFacts ==
  ASSUME TypeOK, NEW to, NEW stage, Goto(to, stage)
  PROVE  /\ pc' = to /\ me'.stage = stage /\ me'.k = 1
         /\ me'.cmd = me.cmd /\ me'.iface = me.iface /\ me'.left = me.left
BY DEF Goto, TypeOK, Locals

LEMMA SweepFacts ==
  ASSUME TypeOK, NEW stage, Sweep(stage)
  PROVE  /\ pc' = "chain" /\ me'.stage = stage /\ me'.k = 1
         /\ me'.cmd = me.cmd /\ me'.iface = me.iface /\ me'.left = {}
BY DEF Sweep, TypeOK, Locals

LEMMA AgainFacts ==
  ASSUME TypeOK, Again
  PROVE  /\ pc' = pc /\ me'.stage = me.stage /\ me'.k = me.k + 1
         /\ me'.cmd = me.cmd /\ me'.iface = me.iface /\ me'.left = me.left
BY DEF Again, TypeOK, Locals

LEMMA IdleFacts ==
  /\ Idle.stage = "none" /\ Idle.k = 1 /\ Idle.cmd = "none" /\ Idle.left = {}
BY DEF Idle

(* A loop that starts has done nothing yet.                                *)
LEMMA FreshCount ==
  ASSUME me'.k = 1
  PROVE  Counted'
<1>1. 1 <= 3 /\ 1 <= 5 /\ \A j \in 1..6 : ~(j < 1) OBVIOUS
<1>2. me'.k <= 3 /\ me'.k <= 5 /\ \A j \in 1..6 : ~(j < me'.k) BY <1>1, Zenon
<1> QED BY <1>2, Zenon DEF Counted

(* An idle process is under control.                                       *)
LEMMA FinishControl ==
  ASSUME NEW status, Finish(status)
  PROVE  Control'
<1>1. pc' = "idle" /\ me' = Idle BY DEF Finish
<1>2. /\ me'.stage = "none" /\ me'.cmd = "none" BY <1>1, IdleFacts
<1>3. Staged' BY <1>1, <1>2 DEF Staged
<1>4. Counted' BY <1>1 DEF Counted
<1>5. Unguarding' BY <1>1 DEF Unguarding
<1>6. Armed' BY <1>1 DEF Armed
<1>7. OneProfile' BY <1>1, <1>2 DEF OneProfile
<1> QED BY <1>3, <1>4, <1>5, <1>6, <1>7 DEF Control

(* After a start's error branch or enable_nat_routing's, too.              *)
LEMMA RaiseControl ==
  ASSUME TypeOK, Control, Raise
  PROVE  Control'
<1>1. CASE me.stage = "nat" /\ pc \in {"ingest", "nat"} /\ Sweep("undo nat")
  <2>1. /\ pc' = "chain" /\ me'.stage = "undo nat" /\ me'.k = 1
        /\ me'.cmd = me.cmd /\ me'.iface = me.iface
    BY <1>1, SweepFacts
  <2>2. Staged' BY <1>1, <2>1 DEF Control, Staged, Sweepers
  <2>3. Counted' BY <2>1, FreshCount
  <2>4. Unguarding' BY <2>1 DEF Unguarding, KeepDrops
  <2>5. Armed' BY <2>1 DEF Armed
  <2>6. OneProfile' BY <2>1 DEF OneProfile
  <2> QED BY <2>2, <2>3, <2>4, <2>5, <2>6 DEF Control
<1>2. CASE me.cmd = "start" /\ Goto("query", "rollback")
  <2>1. /\ pc' = "query" /\ me'.stage = "rollback" /\ me'.k = 1
        /\ me'.cmd = me.cmd /\ me'.iface = me.iface
    BY <1>2, GotoFacts
  <2>2. Staged' BY <1>2, <2>1 DEF Control, Staged
  <2>3. Counted' BY <2>1, FreshCount
  <2>4. Unguarding' BY <2>1 DEF Unguarding
  <2>5. Armed' BY <2>1 DEF Armed
  <2>6. OneProfile' BY <2>1 DEF OneProfile
  <2> QED BY <2>2, <2>3, <2>4, <2>5, <2>6 DEF Control
<1>3. CASE Finish("error") BY <1>3, FinishControl
<1> QED BY <1>1, <1>2, <1>3 DEF Raise

(* stop_hotspot ends with no AP and no profile.                            *)
LEMMA StoppedControl ==
  ASSUME TypeOK, Control, pc \in {"list", "delete"}, Stopped,
         nm'.active = {}, nm'.profiles = {}
  PROVE  Control'
<1>0. me.stage \in {"clear", "rollback", "stop"} BY DEF Control, Staged
<1>1. CASE me.stage = "clear" /\ me.old = None
  <2>0. Goto("remember", "clear") BY <1>1 DEF Stopped
  <2>1. /\ pc' = "remember" /\ me'.stage = "clear" /\ me'.k = 1
        /\ me'.cmd = me.cmd /\ me'.iface = me.iface
    BY <2>0, GotoFacts
  <2>2. Staged' BY <1>1, <2>1 DEF Control, Staged
  <2>3. Counted' BY <2>1, FreshCount
  <2>4. Unguarding' BY <2>1 DEF Unguarding
  <2>5. Armed' BY <2>1 DEF Armed
  <2>6. OneProfile' BY <2>1 DEF OneProfile
  <2> QED BY <2>2, <2>3, <2>4, <2>5, <2>6 DEF Control
<1>2. CASE ~(me.stage = "clear" /\ me.old = None)
  <2>0. Sweep(me.stage) BY <1>2 DEF Stopped
  <2>1. /\ pc' = "chain" /\ me'.stage = me.stage /\ me'.k = 1
        /\ me'.cmd = me.cmd /\ me'.iface = me.iface
    BY <2>0, SweepFacts
  <2>2. Staged' BY <1>0, <2>1 DEF Control, Staged, Sweepers
  <2>3. Counted' BY <2>1, FreshCount
  <2>4. Unguarding' BY <2>1 DEF Unguarding
  <2>5. Armed' BY <1>0, <2>1 DEF Armed
  <2>6. OneProfile' BY <1>0, <2>1 DEF OneProfile
  <2> QED BY <2>2, <2>3, <2>4, <2>5, <2>6 DEF Control
<1> QED BY <1>1, <1>2

(* Nothing moved but the environment.                                      *)
LEMMA SameControl ==
  ASSUME Control, UNCHANGED <<pc, me, rules>>, nm'.profiles = nm.profiles,
         nm'.active = nm.active \/ nm'.active = {}
  PROVE  Control'
<1>1. Staged' BY DEF Control, Staged
<1>2. Counted' BY DEF Control, Counted
<1>3. Unguarding' BY DEF Control, Unguarding, KeepDrops
<1>4. Armed' BY DEF Control, Armed
<1>5. OneProfile' BY DEF Control, OneProfile
<1> QED BY <1>1, <1>2, <1>3, <1>4, <1>5 DEF Control

(* Guards stay if no rule goes and no AP comes up.                         *)
LEMMA GuardsKept ==
  ASSUME GuardsWhileActive, rules \subseteq rules',
         nm'.active \subseteq nm.active
  PROVE  GuardsWhileActive'
BY DEF GuardsWhileActive, GuardsOf, Of

LEMMA CommandFacts ==
  ASSUME NEW cmd, NEW iface, NEW up, NEW stage, NEW first,
         Command(cmd, iface, up, stage, first)
  PROVE  /\ pc' = first /\ me'.stage = stage /\ me'.k = 1 /\ me'.cmd = cmd
         /\ me'.iface = iface /\ me'.left = {}
<1>1. me' = [Idle EXCEPT !.cmd = cmd, !.iface = iface, !.up = up, !.stage = stage]
  BY DEF Command
<1>2. pc' = first BY DEF Command
<1> QED BY <1>1, <1>2 DEF Idle

LEMMA CommandControl ==
  ASSUME TypeOK, Control, Commands
  PROVE  Control'
<1>1. CASE HotspotStart
  <2>1. PICK ap \in Ap, up \in Uplink \cup {None} :
          Command("start", ap, up, "clear",
                  IF up = None THEN "old device" ELSE "validate")
    BY <1>1 DEF HotspotStart
  <2>2. /\ pc' \in {"old device", "validate"} /\ me'.stage = "clear"
        /\ me'.cmd = "start" /\ me'.iface \in Ap /\ me'.k = 1
    BY <2>1, CommandFacts
  <2>3. Staged' BY <2>2 DEF Staged
  <2>4. Counted' BY <2>2, FreshCount
  <2>5. Unguarding' BY <2>2 DEF Unguarding
  <2>6. Armed' BY <2>2 DEF Armed
  <2>7. OneProfile' BY <2>2 DEF OneProfile
  <2> QED BY <2>3, <2>4, <2>5, <2>6, <2>7 DEF Control
<1>2. CASE HotspotStop
  <2>1. PICK ap \in Ap \cup {None} : Command("stop", ap, None, "stop", "old device")
    BY <1>2 DEF HotspotStop
  <2>2. pc' = "old device" /\ me'.stage = "stop" /\ me'.cmd = "stop" /\ me'.k = 1
    BY <2>1, CommandFacts
  <2>3. Staged' BY <2>2 DEF Staged
  <2>4. Counted' BY <2>2, FreshCount
  <2>5. Unguarding' BY <2>2 DEF Unguarding
  <2>6. Armed' BY <2>2 DEF Armed
  <2>7. OneProfile' BY <2>2 DEF OneProfile
  <2> QED BY <2>3, <2>4, <2>5, <2>6, <2>7 DEF Control
<1>3. CASE RouteEnable
  <2>1. PICK ap \in Ap, up \in Uplink : Command("enable", ap, up, "nat", "validate")
    BY <1>3 DEF RouteEnable
  <2>2. pc' = "validate" /\ me'.stage = "nat" /\ me'.cmd = "enable" /\ me'.iface \in Ap /\ me'.k = 1
    BY <2>1, CommandFacts
  <2>3. Staged' BY <2>2 DEF Staged
  <2>4. Counted' BY <2>2, FreshCount
  <2>5. Unguarding' BY <2>2 DEF Unguarding
  <2>6. Armed' BY <2>2 DEF Armed
  <2>7. OneProfile' BY <2>2 DEF OneProfile
  <2> QED BY <2>3, <2>4, <2>5, <2>6, <2>7 DEF Control
<1>4. CASE RouteIsolate
  <2>1. PICK ap \in Ap : Command("isolate", ap, None, "isolate", "link")
    BY <1>4 DEF RouteIsolate
  <2>2. pc' = "link" /\ me'.stage = "isolate" /\ me'.cmd = "isolate" /\ me'.iface \in Ap /\ me'.k = 1
    BY <2>1, CommandFacts
  <2>3. Staged' BY <2>2 DEF Staged
  <2>4. Counted' BY <2>2, FreshCount
  <2>5. Unguarding' BY <2>2 DEF Unguarding
  <2>6. Armed' BY <2>2 DEF Armed
  <2>7. OneProfile' BY <2>2 DEF OneProfile
  <2> QED BY <2>3, <2>4, <2>5, <2>6, <2>7 DEF Control
<1>5. CASE RouteReset
  <2>1. PICK ap \in Ap \cup {None} : Command("reset", ap, None, "reset", "chain")
    BY <1>5 DEF RouteReset
  <2>2. pc' = "chain" /\ me'.stage = "reset" /\ me'.cmd = "reset" /\ me'.k = 1
    BY <2>1, CommandFacts
  <2>3. nm'.active = {} BY <1>5, <2>1 DEF RouteReset, Command, world
  <2>4. Staged' BY <2>2 DEF Staged, Sweepers
  <2>5. Counted' BY <2>2, FreshCount
  <2>6. Unguarding' BY <2>2, <2>3 DEF Unguarding
  <2>7. Armed' BY <2>2 DEF Armed
  <2>8. OneProfile' BY <2>2 DEF OneProfile
  <2> QED BY <2>4, <2>5, <2>6, <2>7, <2>8 DEF Control
<1> QED BY <1>1, <1>2, <1>3, <1>4, <1>5 DEF Commands

(* One step of an invocation that leaves the world alone.                  *)
LEMMA LookingControl ==
  ASSUME TypeOK, Control, UNCHANGED <<rules, nm>>,
         \/ CommandFails \/ Validate \/ OldDevice \/ Query \/ ListProfiles \/ Link
         \/ NextChain \/ Swept \/ Radio \/ CheckForwarding \/ Address
         \/ ReadRecord \/ AskOthers
  PROVE  Control'
<1>1. CASE Raise BY <1>1, RaiseControl
<1>2. ASSUME NEW to \in {"old device", "query", "forwarding", "address", "radio", "add",
                         "read record", "others", "sysctl", "forget", "table"},
             NEW stage, Goto(to, stage), Staged',
             to \in {"radio", "add"} => /\ GuardsOf(me.iface) \subseteq rules
                                       /\ nm.profiles = {},
             stage = "isolate" => me.stage = "isolate"
      PROVE  Control'
  <2>1. /\ pc' = to /\ me'.stage = stage /\ me'.k = 1
        /\ me'.cmd = me.cmd /\ me'.iface = me.iface /\ me'.left = me.left
    BY <1>2, GotoFacts
  <2>2. Counted' BY <2>1, FreshCount
  <2>3. Unguarding' BY <2>1, <1>2 DEF Unguarding
  <2>4. Armed' BY <2>1, <1>2 DEF Armed, Control
  <2>5. OneProfile' BY <2>1, <1>2 DEF OneProfile, Control
  <2> QED BY <1>2, <2>2, <2>3, <2>4, <2>5 DEF Control
<1>3. CASE CommandFails BY <1>3, <1>1 DEF CommandFails
<1>4. CASE Validate
  <2>1. CASE me.stage = "clear" /\ Goto("old device", me.stage)
    <3>1. /\ pc' = "old device" /\ me'.stage = me.stage
          /\ me'.cmd = me.cmd /\ me'.iface = me.iface
      BY <2>1, GotoFacts
    <3>2. Staged' BY <2>1, <3>1 DEF Control, Staged
    <3> QED BY <2>1, <3>2, <1>2
  <2>2. CASE me.stage = "nat" /\ Goto("forwarding", me.stage)
    <3>1. /\ pc' = "forwarding" /\ me'.stage = me.stage
          /\ me'.cmd = me.cmd /\ me'.iface = me.iface
      BY <2>2, GotoFacts
    <3>2. Staged' BY <2>2, <3>1 DEF Control, Staged
    <3> QED BY <2>2, <3>2, <1>2
  <2>3. me.stage \in {"clear", "nat"} BY <1>4 DEF Validate, Control, Staged
  <2> QED BY <1>1, <1>4, <2>1, <2>2, <2>3 DEF Validate
<1>5. CASE OldDevice
  <2>1. CASE pc' = "query" /\ me'.stage = me.stage /\ me'.k = me.k /\ me'.cmd = me.cmd
             /\ (me.cmd = "start" => me'.iface = me.iface) /\ me.cmd \in {"start", "stop"}
    <3>1. me.stage \in {"clear", "stop"} BY <1>5 DEF OldDevice, Control, Staged
    <3>2. Staged' BY <2>1, <3>1 DEF Control, Staged
    <3>3. Counted' BY <2>1 DEF Counted
    <3>4. Unguarding' BY <2>1 DEF Unguarding
    <3>5. Armed' BY <2>1, <3>1 DEF Armed
    <3>6. OneProfile' BY <2>1, <3>1 DEF OneProfile
    <3> QED BY <3>2, <3>3, <3>4, <3>5, <3>6 DEF Control
  <2>2. PICK dev \in IF nm.active = {} THEN {None} ELSE nm.active :
          \/ /\ me.cmd = "start"
             /\ pc' = "query" /\ me' = [me EXCEPT !.old = dev] /\ UNCHANGED report
          \/ /\ me.cmd = "stop"
             /\ dev = me.iface \/ None \in {dev, me.iface}
             /\ pc' = "query" /\ UNCHANGED report
             /\ me' = [me EXCEPT !.iface = IF dev = None THEN @ ELSE dev]
          \/ /\ me.cmd = "stop" /\ dev # None /\ me.iface \notin {None, dev}
             /\ Raise
    BY <1>5 DEF OldDevice
  <2>3. CASE me.cmd = "start" /\ pc' = "query" /\ me' = [me EXCEPT !.old = dev]
    BY <2>1, <2>3 DEF TypeOK, Locals
  <2>4. CASE me.cmd = "stop" /\ pc' = "query"
             /\ me' = [me EXCEPT !.iface = IF dev = None THEN @ ELSE dev]
    BY <2>1, <2>4 DEF TypeOK, Locals
  <2> QED BY <1>1, <2>2, <2>3, <2>4
<1>6. CASE Query
  <2>1. /\ pc = "query" /\ me' = me
        /\ (pc' = "list" /\ nm.active = {}) \/ pc' = "down"
    BY <1>6 DEF Query, Step
  <2>2. me.stage \in {"clear", "rollback", "stop"} BY <2>1 DEF Control, Staged
  <2>3. Staged' BY <2>1, <2>2 DEF Control, Staged
  <2>4. Counted' BY <2>1 DEF Counted
  <2>5. Unguarding' BY <2>1 DEF Unguarding
  <2>6. Armed' BY <2>1, <2>2 DEF Armed
  <2>7. OneProfile' BY <2>1, <2>2 DEF OneProfile
  <2> QED BY <2>3, <2>4, <2>5, <2>6, <2>7 DEF Control
<1>7. CASE ListProfiles
  <2>1. pc = "list" /\ nm'.active = {} /\ nm' = nm
    BY <1>7 DEF ListProfiles, Control, Unguarding
  <2>2. CASE nm.profiles = {} /\ Stopped BY <2>1, <2>2, StoppedControl
  <2>3. CASE Goto("delete", me.stage)
    <3>1. /\ pc' = "delete" /\ me'.stage = me.stage /\ me'.k = 1
          /\ me'.cmd = me.cmd /\ me'.iface = me.iface
      BY <2>3, GotoFacts
    <3>2. me.stage \in {"clear", "rollback", "stop"} BY <2>1 DEF Control, Staged
    <3>3. Staged' BY <3>1, <3>2 DEF Control, Staged
    <3>4. Counted' BY <3>1, FreshCount
    <3>5. Unguarding' BY <2>1, <3>1 DEF Unguarding
    <3>6. Armed' BY <3>1, <3>2 DEF Armed
    <3>7. OneProfile' BY <3>1, <3>2 DEF OneProfile
    <3> QED BY <3>3, <3>4, <3>5, <3>6, <3>7 DEF Control
  <2> QED BY <1>7, <2>2, <2>3 DEF ListProfiles
<1>8. CASE Link
  <2>1. /\ pc' = "guard" /\ me'.stage = me.stage /\ me'.k = 1
        /\ me'.cmd = me.cmd /\ me'.iface = me.iface
    BY <1>8, GotoFacts DEF Link
  <2>2. me.stage \in {"isolate", "nat"} BY <1>8 DEF Link, Control, Staged
  <2>3. Staged' BY <2>1, <2>2 DEF Control, Staged
  <2>4. Counted' BY <2>1, FreshCount
  <2>5. Unguarding' BY <2>1 DEF Unguarding
  <2>6. Armed' BY <2>1 DEF Armed
  <2>7. OneProfile' BY <2>1, <2>2 DEF OneProfile, Control
  <2> QED BY <2>3, <2>4, <2>5, <2>6, <2>7 DEF Control
<1>9. CASE NextChain
  <2>1. me.k <= 5 /\ me.k # 5 /\ me.k \in 1..6
    <3>1. me.k < Len(Chains) BY <1>9 DEF NextChain
    <3>2. me.k < 5 BY <3>1, RuleLists
    <3>3. me.k \in 1..6 BY StageTypes
    <3> QED BY <3>2, <3>3
  <2>2. me'.k <= 5
    <3>1. me'.k = me.k + 1 BY <1>9 DEF NextChain, TypeOK, Locals
    <3> QED BY <3>1, <2>1, Counting
  <2>3. /\ pc = "remove" /\ pc' = "chain" /\ me'.stage = me.stage
        /\ me'.cmd = me.cmd /\ me'.iface = me.iface /\ me'.left = me.left
    BY <1>9 DEF NextChain, Step, TypeOK, Locals
  <2>4. Staged' BY <2>3 DEF Control, Staged
  <2>5. Counted' BY <2>2, <2>3 DEF Counted
  <2>6. Unguarding' BY <2>3 DEF Unguarding, KeepDrops, Control
  <2>7. Armed' BY <2>3 DEF Armed, Control
  <2>8. OneProfile' BY <2>3 DEF OneProfile, Control
  <2> QED BY <2>4, <2>5, <2>6, <2>7, <2>8 DEF Control
<1>10. CASE Swept
  <2>1. /\ pc = "remove"
        /\ \/ Raise
           \/ me.stage = "clear" /\ Goto("remember", "clear")
           \/ me.stage \in {"isolate", "nat"} /\ Goto("ingest", me.stage)
           \/ me.stage \in {"rollback", "stop"} /\ Goto("read record", me.stage)
           \/ Finish("ok")
    BY <1>10 DEF Swept
  <2>2. CASE me.stage = "clear" /\ Goto("remember", "clear")
    <3>1. /\ pc' = "remember" /\ me'.stage = "clear" /\ me'.k = 1
          /\ me'.cmd = me.cmd /\ me'.iface = me.iface
      BY <2>2, GotoFacts
    <3>2. nm.profiles = {} BY <2>1, <2>2 DEF Control, OneProfile
    <3>3. Staged' BY <2>2, <3>1 DEF Control, Staged
    <3>4. Counted' BY <3>1, FreshCount
    <3>5. Unguarding' BY <3>1 DEF Unguarding
    <3>6. Armed' BY <3>1 DEF Armed
    <3>7. OneProfile' BY <3>1, <3>2 DEF OneProfile
    <3> QED BY <3>3, <3>4, <3>5, <3>6, <3>7 DEF Control
  <2>3. CASE me.stage \in {"isolate", "nat"} /\ Goto("ingest", me.stage)
    <3>1. /\ pc' = "ingest" /\ me'.stage = me.stage /\ me'.k = 1
          /\ me'.cmd = me.cmd /\ me'.iface = me.iface
      BY <2>3, GotoFacts
    <3>3. Staged' BY <2>3, <3>1 DEF Control, Staged
    <3>4. Counted' BY <3>1, FreshCount
    <3>5. Unguarding' BY <3>1 DEF Unguarding
    <3>6. Armed' BY <2>1, <3>1 DEF Armed, Control
    <3>7. OneProfile' BY <2>3, <3>1 DEF OneProfile, Control
    <3> QED BY <3>3, <3>4, <3>5, <3>6, <3>7 DEF Control
  <2>4. CASE me.stage \in {"rollback", "stop"} /\ Goto("read record", me.stage)
    <3>1. /\ pc' = "read record" /\ me'.stage = me.stage
          /\ me'.cmd = me.cmd /\ me'.iface = me.iface
      BY <2>4, GotoFacts
    <3>2. Staged' BY <2>4, <3>1 DEF Control, Staged
    <3> QED BY <2>4, <3>2, <1>2
  <2> QED BY <2>1, <1>1, <2>2, <2>3, <2>4, FinishControl
<1>11. CASE Radio
  <2>1. me.stage = "activate" /\ Goto("add", me.stage)
    BY <1>11 DEF Radio, Control, Staged
  <2>2. pc' = "add" /\ me'.stage = me.stage /\ me'.cmd = me.cmd /\ me'.iface = me.iface
    BY <2>1, GotoFacts
  <2>3. Staged' BY <2>1, <2>2 DEF Control, Staged
  <2>4. GuardsOf(me.iface) \subseteq rules /\ nm.profiles = {}
    BY <1>11 DEF Radio, Control, Armed, OneProfile
  <2> QED BY <2>1, <2>3, <2>4, <1>2
<1>12. CASE CheckForwarding
  <2>1. CASE Goto("address", me.stage)
    <3>1. me.stage = "nat" BY <1>12 DEF CheckForwarding, Control, Staged
    <3>2. pc' = "address" /\ me'.stage = me.stage /\ me'.cmd = me.cmd /\ me'.iface = me.iface
      BY <2>1, GotoFacts
    <3>3. Staged' BY <3>1, <3>2 DEF Control, Staged
    <3> QED BY <2>1, <3>1, <3>3, <1>2
  <2> QED BY <1>1, <1>12, <2>1 DEF CheckForwarding
<1>13. CASE Address
  <2>1. me.stage = "nat" /\ Goto("link", me.stage)
    BY <1>13 DEF Address, Control, Staged
  <2>2. /\ pc' = "link" /\ me'.stage = me.stage /\ me'.k = 1
        /\ me'.cmd = me.cmd /\ me'.iface = me.iface
    BY <2>1, GotoFacts
  <2>3. Staged' BY <2>1, <2>2 DEF Control, Staged
  <2>4. Counted' BY <2>2, FreshCount
  <2>5. Unguarding' BY <2>2 DEF Unguarding
  <2>6. Armed' BY <2>2 DEF Armed
  <2>7. OneProfile' BY <2>1, <2>2 DEF OneProfile
  <2> QED BY <2>3, <2>4, <2>5, <2>6, <2>7 DEF Control
<1>14. CASE ReadRecord \/ AskOthers
  <2>1. me.stage \in {"rollback", "stop"}
    BY <1>14 DEF ReadRecord, AskOthers, Control, Staged
  <2>2. \/ Raise \/ Unread
        \/ \E to \in {"others", "sysctl", "forget", "table"} : Goto(to, me.stage)
    BY <1>14 DEF ReadRecord, AskOthers
  <2>3. ASSUME NEW to \in {"others", "sysctl", "forget", "table"}, Goto(to, me.stage)
        PROVE  Control'
    <3>1. pc' = to /\ me'.stage = me.stage /\ me'.cmd = me.cmd /\ me'.iface = me.iface
      BY <2>3, GotoFacts
    <3>2. Staged' BY <2>1, <3>1 DEF Control, Staged
    <3> QED BY <2>1, <2>3, <3>2, <1>2
  <2>4. CASE Unread
    <3>1. Staged' BY <2>1, <2>4, UnreadFacts DEF Control, Staged
    <3>2. Counted' /\ Unguarding' /\ Armed'
      BY <2>4, UnreadFacts DEF Counted, Unguarding, Armed
    <3>3. OneProfile' BY <2>1, <2>4, UnreadFacts DEF OneProfile, Control
    <3> QED BY <3>1, <3>2, <3>3 DEF Control
  <2> QED BY <1>1, <2>2, <2>3, <2>4
<1> QED BY <1>3, <1>4, <1>5, <1>6, <1>7, <1>8, <1>9, <1>10, <1>11, <1>12, <1>13, <1>14

(* One step that changes the firewall.                                     *)
LEMMA RulesControl ==
  ASSUME TypeOK, Control, SetGuard \/ SetIngest \/ SetNat \/ ListChain \/ RemoveRule
  PROVE  Control'
<1>0. me.k \in 1..6 /\ me.stage \in Stages BY StageTypes
<1>1. CASE SetGuard
  <2>1. /\ pc = "guard" /\ rules' = rules \cup {Of(Guards[me.k], me.iface, None)}
        /\ nm' = nm
    BY <1>1 DEF SetGuard, Insert
  <2>2. me.stage \in {"isolate", "nat"} BY <2>1 DEF Control, Staged
  <2>3. \A j \in 1..6 : j < me.k + 1 => Of(Guards[j], me.iface, None) \in rules'
    <3>1. \A j \in 1..6 : j < me.k => Of(Guards[j], me.iface, None) \in rules
      BY <2>1 DEF Control, Counted
    <3>2. SUFFICES ASSUME NEW j \in 1..6, j < me.k + 1
                   PROVE  Of(Guards[j], me.iface, None) \in rules'
      OBVIOUS
    <3>3. j < me.k \/ j = me.k BY <1>0, <3>2, Counting
    <3> QED BY <2>1, <3>1, <3>3, Zenon
  <2>4. CASE me.k < Len(Guards)
    <3>1. Again BY <1>1, <2>4 DEF SetGuard
    <3>2. /\ pc' = "guard" /\ me'.stage = me.stage /\ me'.k = me.k + 1
          /\ me'.cmd = me.cmd /\ me'.iface = me.iface
      BY <2>1, <3>1, AgainFacts
    <3>3. Staged' BY <2>2, <3>2 DEF Control, Staged
    <3>4. Counted' BY <2>3, <3>2, Zenon DEF Counted
    <3>5. Unguarding' BY <3>2 DEF Unguarding
    <3>6. Armed' BY <3>2 DEF Armed
    <3>7. OneProfile' BY <2>1, <2>2, <3>2 DEF OneProfile, Control
    <3> QED BY <3>3, <3>4, <3>5, <3>6, <3>7 DEF Control
  <2>5. CASE ~(me.k < Len(Guards))
    <3>1. Sweep(me.stage) BY <1>1, <2>5 DEF SetGuard
    <3>2. /\ pc' = "chain" /\ me'.stage = me.stage /\ me'.k = 1
          /\ me'.cmd = me.cmd /\ me'.iface = me.iface
      BY <3>1, SweepFacts
    <3>3. \A j \in 1..6 : Of(Guards[j], me.iface, None) \in rules'
      <4>1. ~(me.k < 6) BY <2>5, RuleLists
      <4>2. me.k = 6 BY <4>1, <1>0, Counting
      <4>3. \A j \in 1..6 : j < 6 + 1 OBVIOUS
      <4> QED BY <2>3, <4>2, <4>3, Zenon
    <3>4. GuardsOf(me.iface) \subseteq rules' BY <3>3, GuardsComplete, Zenon
    <3>5. Staged' BY <2>2, <3>2 DEF Control, Staged, Sweepers
    <3>6. Counted' BY <3>2, FreshCount
    <3>7. Unguarding' BY <2>2, <3>2 DEF Unguarding, KeepDrops
    <3>8. Armed' BY <3>2, <3>4 DEF Armed
    <3>9. OneProfile' BY <2>1, <2>2, <3>2 DEF OneProfile, Control
    <3> QED BY <3>5, <3>6, <3>7, <3>8, <3>9 DEF Control
  <2> QED BY <2>4, <2>5
<1>2. CASE SetIngest
  <2>1. pc = "ingest" /\ rules \subseteq rules' /\ nm' = nm
    BY <1>2 DEF SetIngest, Insert
  <2>2. me.stage \in {"isolate", "nat"} BY <2>1 DEF Control, Staged
  <2>3. \/ me.k < Len(Ingest) /\ Again
        \/ me.stage = "nat" /\ Goto("nat", "nat")
        \/ me.stage = "isolate" /\ me.cmd = "start" /\ Goto("radio", "activate")
        \/ Finish("ok")
    BY <1>2 DEF SetIngest
  <2>4. CASE me.k < Len(Ingest) /\ Again
    <3>1. /\ pc' = "ingest" /\ me'.stage = me.stage /\ me'.k = me.k + 1
          /\ me'.cmd = me.cmd /\ me'.iface = me.iface
      BY <2>1, <2>4, AgainFacts
    <3>2. me'.k <= 3
      <4>1. me.k < 3 BY <2>4, RuleLists
      <4>2. me.k + 1 <= 3 BY <4>1, <1>0, Counting
      <4> QED BY <3>1, <4>2
    <3>3. Staged' BY <2>2, <3>1 DEF Control, Staged
    <3>4. Counted' BY <3>1, <3>2, Zenon DEF Counted
    <3>5. Unguarding' BY <3>1 DEF Unguarding
    <3>6. Armed' BY <2>1, <3>1 DEF Armed, Control
    <3>7. OneProfile' BY <2>1, <2>2, <3>1 DEF OneProfile, Control
    <3> QED BY <3>3, <3>4, <3>5, <3>6, <3>7 DEF Control
  <2>5. CASE me.stage = "nat" /\ Goto("nat", "nat")
    <3>1. /\ pc' = "nat" /\ me'.stage = me.stage /\ me'.k = 1
          /\ me'.cmd = me.cmd /\ me'.iface = me.iface
      BY <2>5, GotoFacts
    <3>2. Staged' BY <2>5, <3>1 DEF Control, Staged
    <3>3. Counted' BY <3>1, FreshCount
    <3>4. Unguarding' BY <3>1 DEF Unguarding
    <3>5. Armed' BY <3>1 DEF Armed
    <3>6. OneProfile' BY <2>5, <3>1 DEF OneProfile
    <3> QED BY <3>2, <3>3, <3>4, <3>5, <3>6 DEF Control
  <2>6. CASE me.stage = "isolate" /\ me.cmd = "start" /\ Goto("radio", "activate")
    <3>1. /\ pc' = "radio" /\ me'.stage = "activate" /\ me'.k = 1
          /\ me'.cmd = me.cmd /\ me'.iface = me.iface
      BY <2>6, GotoFacts
    <3>2. GuardsOf(me.iface) \subseteq rules' /\ nm'.profiles = {}
      BY <2>1, <2>6 DEF Control, Armed, OneProfile
    <3>3. Staged' BY <2>6, <3>1 DEF Control, Staged
    <3>4. Counted' BY <3>1, FreshCount
    <3>5. Unguarding' BY <3>1 DEF Unguarding
    <3>6. Armed' BY <3>1, <3>2 DEF Armed
    <3>7. OneProfile' BY <3>1, <3>2 DEF OneProfile
    <3> QED BY <3>3, <3>4, <3>5, <3>6, <3>7 DEF Control
  <2> QED BY <2>3, <2>4, <2>5, <2>6, FinishControl
<1>3. CASE SetNat
  <2>1. /\ pc = "nat" /\ rules \subseteq rules' /\ nm' = nm
        /\ (me.k < Len(NatRules) /\ Again) \/ Finish("ok")
    BY <1>3 DEF SetNat, Insert
  <2>2. CASE me.k < Len(NatRules) /\ Again
    <3>1. /\ pc' = "nat" /\ me'.stage = me.stage /\ me'.k = me.k + 1
          /\ me'.cmd = me.cmd /\ me'.iface = me.iface
      BY <2>1, <2>2, AgainFacts
    <3>2. me'.k <= 3
      <4>1. me.k < 3 BY <2>2, RuleLists
      <4>2. me.k + 1 <= 3 BY <4>1, <1>0, Counting
      <4> QED BY <3>1, <4>2
    <3>3. Staged' BY <2>1, <3>1 DEF Control, Staged
    <3>4. Counted' BY <3>1, <3>2, Zenon DEF Counted
    <3>5. Unguarding' BY <3>1 DEF Unguarding
    <3>6. Armed' BY <3>1 DEF Armed
    <3>7. OneProfile' BY <2>1, <3>1, <3>3 DEF OneProfile, Staged
    <3> QED BY <3>3, <3>4, <3>5, <3>6, <3>7 DEF Control
  <2> QED BY <2>1, <2>2, FinishControl
<1>4. CASE ListChain
  <2>1. /\ pc = "chain" /\ pc' = "remove" /\ nm' = nm /\ rules' = rules
        /\ me'.stage = me.stage /\ me'.k = me.k /\ me'.cmd = me.cmd
        /\ me'.iface = me.iface /\ me'.left \in {Listed, {}}
    BY <1>4 DEF ListChain, Step, world, TypeOK, Locals
  <2>2. KeepDrops => \A r \in me'.left : r.kind \notin GuardKinds
    BY <2>1 DEF Listed
  <2>3. Staged' BY <2>1 DEF Control, Staged
  <2>4. Counted' BY <2>1 DEF Control, Counted
  <2>5. Unguarding' BY <2>1, <2>2 DEF Control, Unguarding, KeepDrops
  <2>6. Armed' BY <2>1 DEF Armed, Control
  <2>7. OneProfile' BY <2>1 DEF OneProfile, Control
  <2> QED BY <2>3, <2>4, <2>5, <2>6, <2>7 DEF Control
<1>5. CASE RemoveRule
  <2>1. PICK r \in me.left :
          /\ rules' = rules \ {r} \/ rules' = rules
          /\ me'.left = me.left \ {r} /\ me'.stage = me.stage /\ me'.k = me.k
          /\ me'.cmd = me.cmd /\ me'.iface = me.iface
    BY <1>5 DEF RemoveRule, TypeOK, Locals
  <2>2. pc = "remove" /\ pc' = "remove" /\ nm' = nm BY <1>5 DEF RemoveRule, Step
  <2>3. Staged' BY <2>1, <2>2 DEF Control, Staged
  <2>4. Counted' BY <2>1, <2>2 DEF Control, Counted
  <2>5. Unguarding' BY <2>1, <2>2 DEF Control, Unguarding, KeepDrops
  <2>6. Armed'
    <3>1. SUFFICES ASSUME me.stage = "isolate"
                   PROVE  GuardsOf(me.iface) \subseteq rules'
      BY <2>1, <2>2 DEF Armed
    <3>2. GuardsOf(me.iface) \subseteq rules BY <2>2, <3>1 DEF Control, Armed
    <3>3. r.kind \notin GuardKinds
      BY <2>1, <2>2, <3>1 DEF Control, Unguarding, KeepDrops
    <3>4. r \notin GuardsOf(me.iface) BY <3>3 DEF GuardsOf, Of
    <3> QED BY <2>1, <3>2, <3>4
  <2>7. OneProfile' BY <2>1, <2>2 DEF OneProfile, Control
  <2> QED BY <2>3, <2>4, <2>5, <2>6, <2>7 DEF Control
<1> QED BY <1>1, <1>2, <1>3, <1>4, <1>5

(* One step that changes NetworkManager, the host or the record.           *)
LEMMA WorldControl ==
  ASSUME TypeOK, Control,
         \/ Down \/ DeleteProfile \/ Remember \/ WriteRecord \/ AddProfile \/ Up
         \/ SwitchOff \/ Forget \/ RemoveTable
  PROVE  Control'
<1>1. CASE Down
  <2>1. /\ pc = "down" /\ pc' = "list" /\ me' = me /\ rules' = rules
        /\ nm'.active = {} /\ nm'.profiles = nm.profiles
    BY <1>1 DEF Down, Step, TypeOK, Managers
  <2>2. me.stage \in {"clear", "rollback", "stop"} BY <2>1 DEF Control, Staged
  <2>3. Staged' BY <2>1, <2>2 DEF Control, Staged
  <2>4. Counted' BY <2>1 DEF Counted
  <2>5. Unguarding' BY <2>1 DEF Unguarding
  <2>6. Armed' BY <2>1, <2>2 DEF Armed
  <2>7. OneProfile' BY <2>1, <2>2 DEF OneProfile
  <2> QED BY <2>3, <2>4, <2>5, <2>6, <2>7 DEF Control
<1>2. CASE DeleteProfile
  <2>1. pc = "delete" /\ Stopped /\ nm'.active = nm.active /\ nm'.profiles = {}
    BY <1>2 DEF DeleteProfile, TypeOK, Managers
  <2>2. nm.active = {} BY <2>1 DEF Control, Unguarding
  <2> QED BY <2>1, <2>2, StoppedControl
<1>3. CASE Remember
  <2>1. /\ pc = "remember" /\ rules' = rules /\ nm' = nm
        /\ Goto("link", "isolate") \/ Recording
    BY <1>3 DEF Remember
  <2>2. me.stage = "clear" /\ me.cmd = "start" /\ nm.profiles = {}
    BY <2>1 DEF Control, Staged, OneProfile
  <2>3. CASE Goto("link", "isolate")
    <3>1. /\ pc' = "link" /\ me'.stage = "isolate" /\ me'.k = 1
          /\ me'.cmd = me.cmd /\ me'.iface = me.iface
      BY <2>3, GotoFacts
    <3>2. Staged' BY <2>2, <3>1 DEF Control, Staged
    <3>3. Counted' BY <3>1, FreshCount
    <3>4. Unguarding' BY <3>1 DEF Unguarding
    <3>5. Armed' BY <3>1 DEF Armed
    <3>6. OneProfile' BY <2>1, <2>2, <3>1 DEF OneProfile
    <3> QED BY <3>2, <3>3, <3>4, <3>5, <3>6 DEF Control
  <2>4. CASE Recording
    <3>1. /\ pc' = "write record" /\ me'.stage = me.stage
          /\ me'.cmd = me.cmd /\ me'.iface = me.iface
      BY <2>4 DEF Recording, TypeOK, Locals
    <3>2. Staged' BY <2>2, <3>1 DEF Control, Staged
    <3>3. Counted' BY <3>1 DEF Counted
    <3>4. Unguarding' BY <3>1 DEF Unguarding
    <3>5. Armed' BY <2>2, <3>1 DEF Armed
    <3>6. OneProfile' BY <2>1, <2>2, <3>1 DEF OneProfile
    <3> QED BY <3>2, <3>3, <3>4, <3>5, <3>6 DEF Control
  <2> QED BY <2>1, <2>3, <2>4
<1>4. CASE WriteRecord
  <2>1. /\ pc = "write record" /\ rules' = rules /\ nm' = nm /\ Goto("link", "isolate")
    BY <1>4 DEF WriteRecord
  <2>2. me.stage = "clear" /\ me.cmd = "start" /\ nm.profiles = {}
    BY <2>1 DEF Control, Staged, OneProfile
  <2>3. /\ pc' = "link" /\ me'.stage = "isolate" /\ me'.k = 1
        /\ me'.cmd = me.cmd /\ me'.iface = me.iface
    BY <2>1, GotoFacts
  <2>4. Staged' BY <2>2, <2>3 DEF Control, Staged
  <2>5. Counted' BY <2>3, FreshCount
  <2>6. Unguarding' BY <2>3 DEF Unguarding
  <2>7. Armed' BY <2>3 DEF Armed
  <2>8. OneProfile' BY <2>1, <2>2, <2>3 DEF OneProfile
  <2> QED BY <2>4, <2>5, <2>6, <2>7, <2>8 DEF Control
<1>5. CASE AddProfile
  <2>1. /\ pc = "add" /\ rules' = rules /\ Goto("up", me.stage)
        /\ nm'.profiles = nm.profiles \cup {me.iface}
    BY <1>5 DEF AddProfile, TypeOK, Managers
  <2>2. me.stage = "activate" /\ nm.profiles = {} /\ GuardsOf(me.iface) \subseteq rules
    BY <2>1 DEF Control, Staged, OneProfile, Armed
  <2>3. /\ pc' = "up" /\ me'.stage = "activate" /\ me'.k = 1
        /\ me'.cmd = me.cmd /\ me'.iface = me.iface
    BY <2>1, <2>2, GotoFacts
  <2>4. Staged' BY <2>2, <2>3 DEF Control, Staged
  <2>5. Counted' BY <2>3, FreshCount
  <2>6. Unguarding' BY <2>3 DEF Unguarding
  <2>7. Armed' BY <2>1, <2>2, <2>3 DEF Armed
  <2>8. OneProfile' BY <2>1, <2>2, <2>3 DEF OneProfile
  <2> QED BY <2>4, <2>5, <2>6, <2>7, <2>8 DEF Control
<1>6. CASE Up
  <2>1. pc = "up" /\ (Finish("ok") \/ Goto("validate", "nat") \/ Raise)
    BY <1>6 DEF Up
  <2>2. CASE Goto("validate", "nat")
    <3>1. /\ pc' = "validate" /\ me'.stage = "nat" /\ me'.k = 1
          /\ me'.cmd = me.cmd /\ me'.iface = me.iface
      BY <2>2, GotoFacts
    <3>2. me.cmd = "start" BY <2>1 DEF Control, Staged
    <3>3. Staged' BY <3>1, <3>2 DEF Control, Staged
    <3>4. Counted' BY <3>1, FreshCount
    <3>5. Unguarding' BY <3>1 DEF Unguarding
    <3>6. Armed' BY <3>1 DEF Armed
    <3>7. OneProfile' BY <3>1 DEF OneProfile
    <3> QED BY <3>3, <3>4, <3>5, <3>6, <3>7 DEF Control
  <2> QED BY <2>1, <2>2, FinishControl, RaiseControl
<1>7. CASE SwitchOff \/ Forget
  <2>0. CASE Raise BY <2>0, RaiseControl
  <2> SUFFICES ASSUME ~Raise PROVE Control' BY <2>0
  <2>1. \E to \in {"forget", "table"} : Goto(to, me.stage)
    BY <1>7 DEF SwitchOff, Forget
  <2>2. me.stage \in {"rollback", "stop"}
    BY <1>7 DEF SwitchOff, Forget, Control, Staged
  <2>3. /\ pc' \in {"forget", "table"} /\ me'.stage = me.stage /\ me'.k = 1
        /\ me'.cmd = me.cmd /\ me'.iface = me.iface
    BY <2>1, GotoFacts
  <2>4. Staged' BY <2>2, <2>3 DEF Control, Staged
  <2>5. Counted' BY <2>3, FreshCount
  <2>6. Unguarding' BY <2>3 DEF Unguarding
  <2>7. Armed' BY <2>3 DEF Armed
  <2>8. OneProfile' BY <2>2, <2>3 DEF OneProfile
  <2> QED BY <2>4, <2>5, <2>6, <2>7, <2>8 DEF Control
<1>8. CASE RemoveTable
  <2>1. \E status \in {"ok", "error"} : Finish(status) BY <1>8 DEF RemoveTable
  <2> QED BY <2>1, FinishControl
<1> QED BY <1>1, <1>2, <1>3, <1>4, <1>5, <1>6, <1>7, <1>8

LEMMA EnvironmentControl ==
  ASSUME TypeOK, Control, Environment
  PROVE  Control'
<1>1. CASE Kill BY <1>1, FinishControl DEF Kill
<1>2. CASE ApLost
  <2>1. /\ UNCHANGED <<pc, me, rules>> /\ nm'.active = {}
        /\ nm'.profiles = nm.profiles
    BY <1>2 DEF ApLost, Moved, TypeOK, Managers
  <2> QED BY <2>1, SameControl
<1>3. CASE OtherConnection \/ AdminForwarding \/ RouteChanges
  <2>1. UNCHANGED <<pc, me, rules, nm>>
    BY <1>3 DEF OtherConnection, AdminForwarding, RouteChanges, Moved
  <2> QED BY <2>1, SameControl
<1> QED BY <1>1, <1>2, <1>3 DEF Environment

----------------------------------------------------------------------------
(* Guards *)

(* Only RemoveRule takes rules away and only Up brings an AP up.           *)
LEMMA GuardsNext ==
  ASSUME TypeOK, Control, GuardsWhileActive, Next
  PROVE  GuardsWhileActive'
<1>1. CASE RemoveRule
  <2>1. PICK r \in me.left : rules' = rules \ {r} \/ rules' = rules
    BY <1>1 DEF RemoveRule
  <2>2. pc = "remove" /\ nm' = nm BY <1>1 DEF RemoveRule, Step
  <2>3. CASE nm.active = {} BY <2>2, <2>3 DEF GuardsWhileActive
  <2>4. CASE KeepDrops
    <3>1. r.kind \notin GuardKinds BY <2>2, <2>4 DEF Control, Unguarding
    <3>2. \A ap : r \notin GuardsOf(ap) BY <3>1 DEF GuardsOf, Of
    <3> QED BY <2>1, <2>2, <3>2 DEF GuardsWhileActive
  <2> QED BY <2>2, <2>3, <2>4 DEF Control, Unguarding
<1>2. CASE Up
  <2>1. pc = "up" /\ rules' = rules /\ (Activated \/ nm' = nm) BY <1>2 DEF Up
  <2>2. CASE Activated
    <3>1. PICK ap \in nm.profiles :
            nm' = [nm EXCEPT !.active = @ \cup {ap}, !.tables = @ \cup {ap}]
      BY <2>2 DEF Activated
    <3>2. ap = me.iface BY <2>1 DEF Control, OneProfile
    <3>3. GuardsOf(me.iface) \subseteq rules BY <2>1 DEF Control, Armed
    <3>4. nm'.active = nm.active \cup {ap} BY <3>1 DEF TypeOK, Managers
    <3> QED BY <2>1, <3>2, <3>3, <3>4 DEF GuardsWhileActive
  <2>3. CASE nm' = nm BY <2>1, <2>3, GuardsKept
  <2> QED BY <2>1, <2>2, <2>3
<1>3. CASE Commands \/ SetGuard \/ SetIngest \/ SetNat \/ ListChain
  <2>1. rules \subseteq rules' /\ nm' = nm
    BY <1>3 DEF Commands, HotspotStart, HotspotStop, RouteEnable, RouteIsolate,
       RouteReset, Command, world, SetGuard, SetIngest, SetNat, Insert, ListChain
  <2> QED BY <2>1, GuardsKept
<1>4. CASE \/ CommandFails \/ Validate \/ OldDevice \/ Query \/ ListProfiles \/ Link
           \/ NextChain \/ Swept \/ Radio \/ CheckForwarding \/ Address
           \/ ReadRecord \/ AskOthers \/ Remember \/ WriteRecord \/ SwitchOff \/ Forget
  <2>1. rules' = rules /\ nm' = nm
    BY <1>4 DEF CommandFails, Validate, OldDevice, Query, ListProfiles, Link,
       NextChain, Swept, Radio, CheckForwarding, Address, ReadRecord, AskOthers,
       Remember, WriteRecord, SwitchOff, Forget, world
  <2> QED BY <2>1, GuardsKept
<1>5. CASE Down \/ DeleteProfile \/ AddProfile \/ RemoveTable
  <2>1. rules' = rules BY <1>5 DEF Down, DeleteProfile, AddProfile, RemoveTable
  <2>2. nm'.active = nm.active \/ nm'.active = {}
    BY <1>5 DEF Down, DeleteProfile, AddProfile, RemoveTable, TypeOK, Managers
  <2> QED BY <2>1, <2>2, GuardsKept
<1>6. CASE Environment
  <2>1. rules' = rules
    BY <1>6 DEF Environment, Kill, world, ApLost, OtherConnection, AdminForwarding,
       RouteChanges, Moved
  <2>2. nm'.active = nm.active \/ nm'.active = {}
    BY <1>6 DEF Environment, Kill, world, ApLost, OtherConnection, AdminForwarding,
       RouteChanges, Moved, TypeOK, Managers
  <2> QED BY <2>1, <2>2, GuardsKept
<1> QED BY <1>1, <1>2, <1>3, <1>4, <1>5, <1>6 DEF Next, Runs

----------------------------------------------------------------------------
(* The theorems *)

LEMMA InvInit == Init => IInv
<1> SUFFICES ASSUME Init PROVE IInv
  OBVIOUS
<1>1. TypeOK BY TypeInit
<1>2. /\ pc = "idle" /\ me = Idle /\ me.stage = "none" /\ me.cmd = "none"
      /\ nm.active = {}
  BY IdleFacts DEF Init
<1>3. Staged BY <1>2 DEF Staged
<1>4. Counted BY <1>2 DEF Counted
<1>5. Unguarding BY <1>2 DEF Unguarding
<1>6. Armed BY <1>2 DEF Armed
<1>7. OneProfile BY <1>2 DEF OneProfile
<1>8. GuardsWhileActive BY <1>2 DEF GuardsWhileActive
<1> QED BY <1>1, <1>3, <1>4, <1>5, <1>6, <1>7, <1>8 DEF IInv, Control

LEMMA InvNext == IInv /\ [Next]_vars => IInv'
<1> SUFFICES ASSUME IInv, [Next]_vars PROVE IInv'
  OBVIOUS
<1>1. TypeOK /\ Control /\ GuardsWhileActive /\ Staged /\ Counted
  BY DEF IInv, Control
<1>2. TypeOK' BY <1>1, TypeNext
<1>3. CASE Next
  <2>1. Control'
    <3>1. CASE Commands BY <1>1, <3>1, CommandControl
    <3>2. CASE \/ CommandFails \/ Validate \/ OldDevice \/ Query \/ ListProfiles \/ Link
               \/ NextChain \/ Swept \/ Radio \/ CheckForwarding \/ Address
               \/ ReadRecord \/ AskOthers
      <4>1. UNCHANGED <<rules, nm>>
        BY <3>2 DEF CommandFails, Validate, OldDevice, Query, ListProfiles, Link,
           NextChain, Swept, Radio, CheckForwarding, Address, ReadRecord, AskOthers, world
      <4> QED BY <1>1, <3>2, <4>1, LookingControl
    <3>3. CASE SetGuard \/ SetIngest \/ SetNat \/ ListChain \/ RemoveRule
      BY <1>1, <3>3, RulesControl
    <3>4. CASE \/ Down \/ DeleteProfile \/ Remember \/ WriteRecord \/ AddProfile \/ Up
               \/ SwitchOff \/ Forget \/ RemoveTable
      BY <1>1, <3>4, WorldControl
    <3>5. CASE Environment BY <1>1, <3>5, EnvironmentControl
    <3> QED BY <1>3, <3>1, <3>2, <3>3, <3>4, <3>5 DEF Next, Runs
  <2>2. GuardsWhileActive' BY <1>1, <1>3, GuardsNext
  <2> QED BY <1>2, <2>1, <2>2 DEF IInv
<1>4. CASE UNCHANGED vars
  <2>1. UNCHANGED <<pc, me, rules, nm>> BY <1>4 DEF vars, world
  <2>2. Control' BY <1>1, <2>1, SameControl
  <2>3. GuardsWhileActive' BY <1>1, <2>1, GuardsKept
  <2> QED BY <1>2, <2>2, <2>3 DEF IInv
<1> QED BY <1>3, <1>4

(* TypeOK holds for any interfaces, uplinks and bounds.                    *)
THEOREM TypeCorrect == Spec => []TypeOK
<1>1. IInv => TypeOK BY DEF IInv
<1> QED BY <1>1, InvInit, InvNext, PTL DEF Spec

(* However many interfaces, restarts, failing commands, kills and          *)
(* environment moves: an AP that is up is guarded (main.rs 677).           *)
THEOREM GuardsStay == Spec => []GuardsWhileActive
<1>1. IInv => GuardsWhileActive BY DEF IInv
<1> QED BY <1>1, InvInit, InvNext, PTL DEF Spec

----------------------------------------------------------------------------
(* The forwarding record *)

(* The record is what forwarding was when it was made, and an invocation   *)
(* that gives it up has seen to forwarding.                                *)
Recorded ==
  /\ record = "none" <=> past.origin = "none"
  /\ record \in {"on", "off"} => past.origin = record
  /\ pc = "write record" => record = "torn" /\ past.origin = me.now
  /\ pc \in {"others", "sysctl", "forget"} => record \in {"on", "off"}
  /\ pc \in {"others", "sysctl"} => record = "off"
  /\ pc = "sysctl" => ~host.others \/ past.raced \/ me.blind
  /\ pc = "forget" /\ record = "off" => ~host.forward \/ host.others \/ past.raced
  /\ pc = "table" => record = "none"


LEMMA RaiseGoes ==
  ASSUME Raise
  PROVE  pc' \in {"chain", "query", "idle"}
BY DEF Raise, Sweep, Goto, Finish

LEMMA RecordedKept ==
  ASSUME Recorded, UNCHANGED record, past'.origin = past.origin,
         pc' \notin {"write record", "others", "sysctl", "forget", "table"}
  PROVE  Recorded'
BY DEF Recorded

LEMMA RecordedCommands ==
  ASSUME Recorded, Commands
  PROVE  Recorded'
<1>1. UNCHANGED <<record, past>> /\ pc' \in {"old device", "validate", "link", "chain"}
  BY DEF Commands, HotspotStart, HotspotStop, RouteEnable, RouteIsolate, RouteReset,
     Command, world
<1> QED BY <1>1, RecordedKept

LEMMA RecordedLooking ==
  ASSUME Recorded,
         \/ CommandFails \/ Validate \/ OldDevice \/ Query \/ Down \/ ListProfiles
         \/ DeleteProfile \/ Link \/ SetGuard \/ NextChain \/ Swept \/ SetIngest
         \/ Radio \/ AddProfile \/ Up \/ CheckForwarding \/ Address \/ SetNat
  PROVE  Recorded'
<1>1. UNCHANGED <<record, past>>
  BY DEF CommandFails, Validate, OldDevice, Query, Down, ListProfiles,
     DeleteProfile, Link, SetGuard, NextChain, Swept, SetIngest, Radio, AddProfile, Up,
     CheckForwarding, Address, SetNat, Insert, world
<1>2. pc' \notin {"write record", "others", "sysctl", "forget", "table"}
  <2>1. CASE CommandFails \/ Validate \/ OldDevice \/ Query \/ Down
    BY <2>1, RaiseGoes DEF CommandFails, Validate, OldDevice, Query, Down, Goto, Step
  <2>2. CASE ListProfiles \/ DeleteProfile \/ Link \/ Radio \/ AddProfile \/ Address
    BY <2>2 DEF ListProfiles, DeleteProfile, Stopped, Link, Radio, AddProfile, Address,
       Goto, Sweep
  <2>3. CASE SetGuard \/ NextChain \/ SetIngest \/ SetNat
    BY <2>3 DEF SetGuard, NextChain, SetIngest, SetNat, Again, Goto, Sweep, Step, Finish
  <2>4. CASE Swept \/ Up \/ CheckForwarding
    BY <2>4, RaiseGoes DEF Swept, Up, CheckForwarding, Goto, Finish
  <2> QED BY <2>1, <2>2, <2>3, <2>4
<1> QED BY <1>1, <1>2, RecordedKept

LEMMA RecordedRules ==
  ASSUME TypeOK, Recorded, ListChain \/ RemoveRule
  PROVE  Recorded'
<1>1. UNCHANGED record /\ pc' = "remove"
  BY DEF ListChain, RemoveRule, Step, world
<1>2. past'.origin = past.origin
  BY DEF ListChain, RemoveRule, Dirty, TypeOK, Histories
<1> QED BY <1>1, <1>2, RecordedKept

(* remember_ip_forwarding.                                                 *)
LEMMA RecordedRemember ==
  ASSUME TypeOK, Recorded, Remember \/ WriteRecord
  PROVE  Recorded'
<1>0. me \in Locals /\ past \in Histories BY DEF TypeOK
<1>1. CASE WriteRecord
  <2>1. /\ pc = "write record" /\ pc' = "link" /\ record' = me.now /\ UNCHANGED past
    BY <1>1 DEF WriteRecord, Goto
  <2>2. me.now = past.origin /\ record = "torn" /\ past.origin # "none"
    BY <2>1 DEF Recorded
  <2> QED BY <2>1, <2>2 DEF Recorded
<1>2. CASE Goto("link", "isolate") /\ UNCHANGED <<record, past>>
  <2>1. pc' = "link" BY <1>2 DEF Goto
  <2> QED BY <1>2, <2>1, RecordedKept
<1>3. CASE record = "none" /\ Recording
  <2>1. pc' = "write record" /\ record' = "torn" BY <1>3 DEF Recording
  <2>2. me'.now \in {"on", "off"}
    <3>1. me' = [me EXCEPT !.now = Forwarding] BY <1>3 DEF Recording
    <3>2. me'.now = Forwarding BY <1>0, <3>1 DEF Locals
    <3> QED BY <3>2 DEF Forwarding
  <2>3. past.origin = "none" BY <1>3 DEF Recorded
  <2>4. past'.origin = me'.now BY <1>0, <1>3, <2>3 DEF Recording, Histories
  <2> QED BY <2>1, <2>2, <2>4 DEF Recorded
<1> QED BY <1>1, <1>2, <1>3 DEF Remember

(* restore_after_hotspot.                                                  *)
LEMMA RecordedRestore ==
  ASSUME TypeOK, Recorded, ReadRecord \/ AskOthers \/ SwitchOff \/ Forget \/ RemoveTable
  PROVE  Recorded'
<1>0. past \in Histories /\ host \in Hosts BY DEF TypeOK
<1>1. CASE ReadRecord
  <2>1. UNCHANGED <<record, past, host>> BY <1>1 DEF ReadRecord, world
  <2>2. CASE record = "torn" /\ Raise BY <2>1, <2>2, RaiseGoes, RecordedKept
  <2>3. CASE record = "none" /\ Goto("table", me.stage)
    BY <2>1, <2>3 DEF Recorded, Goto
  <2>4. CASE /\ record \in {"on", "off"}
             /\ Goto(IF Disables(record, Forwarding, FALSE) THEN "others" ELSE "forget",
                     me.stage)
    <3>1. CASE Disables(record, Forwarding, FALSE)
      <4>1. pc' = "others" /\ record = "off" BY <2>4, <3>1 DEF Goto, Disables
      <4> QED BY <2>1, <4>1 DEF Recorded
    <3>2. CASE ~Disables(record, Forwarding, FALSE)
      <4>1. pc' = "forget" BY <2>4, <3>2 DEF Goto
      <4>2. record = "off" => ~host.forward BY <3>2 DEF Disables, Forwarding
      <4> QED BY <2>1, <2>4, <4>1, <4>2 DEF Recorded
    <3> QED BY <3>1, <3>2
  <2>5. CASE record \in {"on", "off"} /\ Unread
    <3>1. pc' = IF record = "off" THEN "sysctl" ELSE "forget"
      <4>1. "unknown" # "off" OBVIOUS
      <4> QED BY <2>5, <4>1 DEF Unread, Disables
    <3>2. me'.blind BY <2>5, UnreadFacts
    <3> QED BY <2>1, <2>5, <3>1, <3>2 DEF Recorded
  <2> QED BY <1>1, <2>2, <2>3, <2>4, <2>5 DEF ReadRecord
<1>2. CASE AskOthers
  <2>1. UNCHANGED <<record, past, host>> /\ record = "off"
    BY <1>2 DEF AskOthers, world, Recorded
  <2>2. CASE host.others
    <3>1. pc' = "forget" BY <1>2, <2>2 DEF AskOthers, Goto, Disables
    <3> QED BY <2>1, <2>2, <3>1 DEF Recorded
  <2>3. CASE ~host.others
    <3>1. pc' = "sysctl" BY <1>2, <2>3 DEF AskOthers, Goto, Disables
    <3> QED BY <2>1, <2>3, <3>1 DEF Recorded
  <2> QED BY <2>2, <2>3
<1>3. CASE SwitchOff
  <2>0. CASE Raise BY <1>3, <2>0, RaiseGoes, RecordedKept DEF SwitchOff
  <2> SUFFICES ASSUME ~Raise PROVE Recorded' BY <2>0
  <2>1. /\ UNCHANGED <<record, past>> /\ record \in {"on", "off"} /\ pc' = "forget"
        /\ host' = [host EXCEPT !.forward = FALSE]
    BY <1>3 DEF SwitchOff, Goto, Recorded
  <2>2. host'.forward = FALSE BY <1>0, <2>1 DEF Hosts
  <2> QED BY <2>1, <2>2 DEF Recorded
<1>4. CASE Forget
  <2>1. pc' = "table" /\ record' = "none" BY <1>4 DEF Forget, Goto
  <2>2. past'.origin = "none" BY <1>0, <1>4 DEF Forget, Histories
  <2> QED BY <2>1, <2>2 DEF Recorded
<1>5. CASE RemoveTable
  <2>1. UNCHANGED <<record, past>> /\ pc' = "idle" BY <1>5 DEF RemoveTable, Finish
  <2> QED BY <2>1, RecordedKept
<1> QED BY <1>1, <1>2, <1>3, <1>4, <1>5

LEMMA RecordedEnvironment ==
  ASSUME TypeOK, Recorded, Environment
  PROVE  Recorded'
<1>0. past \in Histories BY DEF TypeOK
<1>1. CASE Kill
  <2>1. /\ UNCHANGED record /\ pc' = "idle" /\ past' = [past EXCEPT !.killed = TRUE]
    BY <1>1 DEF Kill, Finish, world
  <2>2. past'.origin = past.origin BY <1>0, <2>1 DEF Histories
  <2> QED BY <2>1, <2>2, RecordedKept
<1>2. CASE ApLost \/ OtherConnection \/ AdminForwarding \/ RouteChanges
  <2>1. UNCHANGED <<pc, me, record>> /\ past' = [past EXCEPT !.raced = Racing]
    BY <1>2 DEF ApLost, OtherConnection, AdminForwarding, RouteChanges, Moved
  <2>2. past'.origin = past.origin /\ (pc # "idle" => past'.raced)
    BY <1>0, <2>1 DEF Histories, Racing
  <2> QED BY <2>1, <2>2 DEF Recorded
<1> QED BY <1>1, <1>2 DEF Environment

LEMMA RecordedNext ==
  ASSUME TypeOK, Recorded, Next
  PROVE  Recorded'
BY RecordedCommands, RecordedLooking, RecordedRules, RecordedRemember, RecordedRestore,
   RecordedEnvironment DEF Next, Runs

LEMMA RecordedAlways == Spec => []Recorded
<1>1. Init => Recorded BY DEF Init, Recorded
<1>2. TypeOK /\ Recorded /\ [Next]_vars => Recorded'
  <2> SUFFICES ASSUME TypeOK, Recorded, [Next]_vars PROVE Recorded' OBVIOUS
  <2>1. CASE UNCHANGED vars BY <2>1 DEF vars, world, Recorded
  <2> QED BY <2>1, RecordedNext
<1> QED BY <1>1, <1>2, TypeCorrect, PTL DEF Spec

(* Only Forget gives the record up.                                        *)
LEMMA GivenUp ==
  ASSUME Recorded, Next, record # "none", record' = "none"
  PROVE  Forget
<1>1. CASE Commands
  BY <1>1 DEF Commands, HotspotStart, HotspotStop, RouteEnable, RouteIsolate, RouteReset,
     Command, world
<1>2. CASE Environment
  BY <1>2 DEF Environment, Kill, ApLost, OtherConnection, AdminForwarding, RouteChanges,
     Moved, world
<1>3. CASE \/ CommandFails \/ Validate \/ OldDevice \/ Query \/ Down \/ ListProfiles
           \/ DeleteProfile \/ Link \/ SetGuard \/ NextChain \/ Swept \/ SetIngest
           \/ Radio \/ AddProfile \/ Up \/ CheckForwarding \/ Address \/ SetNat
           \/ ListChain \/ RemoveRule \/ ReadRecord \/ AskOthers \/ SwitchOff \/ RemoveTable
  BY <1>3 DEF CommandFails, Validate, OldDevice, Query, Down, ListProfiles,
     DeleteProfile, Link, SetGuard, NextChain, Swept, SetIngest, Radio, AddProfile, Up,
     CheckForwarding, Address, SetNat, Insert, ListChain, RemoveRule, ReadRecord,
     AskOthers, SwitchOff, RemoveTable, world
<1>4. CASE Remember BY <1>4 DEF Remember, Recording
<1>5. CASE WriteRecord BY <1>5 DEF WriteRecord, Recorded
<1> QED BY <1>1, <1>2, <1>3, <1>4, <1>5 DEF Next, Runs

(* Forwarding is as it was, or somebody else's, when the record goes, and  *)
(* is switched off only if it was off (restore_after_hotspot).             *)
THEOREM Restored == Spec => ForwardingRestored
<1>1. Recorded /\ [Next]_vars =>
      [ /\ record # "none" /\ record' = "none" /\ past.origin = "off" =>
             ~host.forward \/ host.others \/ past.raced
        /\ pc = "sysctl" /\ host'.forward # host.forward =>
             past.origin = "off" /\ (~host.others \/ past.raced \/ me.blind) ]_vars
  <2> SUFFICES ASSUME Recorded, Next
               PROVE  /\ record # "none" /\ record' = "none" /\ past.origin = "off" =>
                           ~host.forward \/ host.others \/ past.raced
                      /\ pc = "sysctl" /\ host'.forward # host.forward =>
                           past.origin = "off" /\ (~host.others \/ past.raced \/ me.blind)
    OBVIOUS
  <2>1. ASSUME record # "none", record' = "none", past.origin = "off"
        PROVE  ~host.forward \/ host.others \/ past.raced
    BY <2>1, GivenUp DEF Forget, Recorded
  <2>2. ASSUME pc = "sysctl"
        PROVE  past.origin = "off" /\ (~host.others \/ past.raced \/ me.blind)
    BY <2>2 DEF Recorded
  <2> QED BY <2>1, <2>2
<1> QED BY <1>1, RecordedAlways, PTL DEF Spec, ForwardingRestored

----------------------------------------------------------------------------
(* NAT rules, what is taken down, what is reported *)

(* The NAT rules of an AP; complete for one uplink, or absent.             *)
NatOf(ap) == {r \in rules : r.ap = ap /\ r.kind \in NatKinds}
AllOf(ap, up) == {Of(kind, ap, up) : kind \in NatKinds}
Whole(ap) == NatOf(ap) = {} \/ \E up \in Uplink : NatOf(ap) = AllOf(ap, up)

Sweeping == pc \in {"chain", "remove"}

(* What remove_owned is to remove.                                         *)
Sweepable(r) == Owned(r, Target) /\ ~(KeepDrops /\ r.kind \in GuardKinds)

(* The chains it is through with, and the one it is at.                    *)
SweptSoFar ==
  /\ Sweeping /\ ~me.bad =>
       \A j \in 1..5 : j < me.k =>
         \A r \in rules : ChainOf(r.kind) = Chains[j] => ~Sweepable(r)
  /\ Sweeping => me.k <= 5
  /\ pc = "remove" => \A r \in me.left : Sweepable(r) /\ ChainOf(r.kind) = Chains[me.k]
  /\ pc = "remove" /\ ~me.bad => Listed \subseteq me.left
  /\ me.bad => past.dirty

(* The uplink of an invocation.                                            *)
Directed ==
  /\ me.stage = "nat" => me.up \in Uplink
  /\ me.cmd = "isolate" => me.up = None

(* The rules of an AP that is being set up.                                *)
SetUp ==
  /\ pc \in {"ingest", "radio", "add", "up"} => NatOf(me.iface) = {}
  /\ pc = "nat" =>
       NatOf(me.iface) = {Of(NatRules[j], me.iface, me.up) : j \in 1..(me.k - 1)}
  /\ (Sweeping \/ pc \in {"ingest", "nat"}) /\ me.stage \in {"isolate", "nat"} =>
       GuardsOf(me.iface) \subseteq rules

(* The rules between the steps, and the AP whose NAT may be incomplete.    *)
Accepting == \A r \in rules : r.kind = "accept" => Of("masquerade", r.ap, r.up) \in rules
Excused(ap) == \/ Sweeping /\ Target \in {ap, None}
               \/ pc = "nat" /\ me.iface = ap
Wholeness ==
  ~past.dirty =>
    /\ Accepting
    /\ ~past.killed => \A ap \in Ap : Whole(ap) \/ Excused(ap)

(* What a stop and a rollback have taken away already.                     *)
Ending == {"read record", "others", "sysctl", "forget", "table"}
TakenDown ==
  /\ pc \in Ending \/ (Sweeping /\ me.stage \in {"rollback", "stop"}) =>
       nm.active = {} /\ nm.profiles = {}
  /\ pc \in Ending => \A r \in rules : ~Owned(r, me.iface)

Firm == SweptSoFar /\ Directed /\ SetUp /\ Wholeness /\ TakenDown

----------------------------------------------------------------------------
(* The rules *)

LEMMA ChainFacts ==
  /\ ChainOf("accept") = Chains[2] /\ ChainOf("masquerade") = Chains[3]
  /\ \A kind \in NatKinds : ChainOf(kind) \in {Chains[2], Chains[3]}
  /\ \A j \in 1..5 : Chains[j] = Chains[3] => j = 3
  /\ \A kind : ChainOf(kind) \in {Chains[1], Chains[2], Chains[3], Chains[4], Chains[5]}
  /\ "accept" \in NatKinds /\ "masquerade" \in NatKinds
  /\ \A kind \in NatKinds : kind \notin GuardKinds
<1>1. /\ Chains[1] = "INPUT" /\ Chains[2] = "FORWARD" /\ Chains[3] = "POSTROUTING"
      /\ Chains[4] = "INPUT6" /\ Chains[5] = "FORWARD6"
  BY DEF Chains
<1>2. ChainOf("accept") = "FORWARD" /\ ChainOf("masquerade") = "POSTROUTING"
      /\ ChainOf("return") = "FORWARD"
  BY DEF ChainOf
<1>3. \A j \in 1..5 : j = 1 \/ j = 2 \/ j = 3 \/ j = 4 \/ j = 5 OBVIOUS
<1>4. \A j \in 1..5 : Chains[j] = Chains[3] => j = 3 BY <1>1, <1>3
<1>5. \A kind : ChainOf(kind) \in
        {"INPUT", "FORWARD", "POSTROUTING", "INPUT6", "FORWARD6"}
  BY DEF ChainOf
<1>6. \A kind \in NatKinds : kind = "masquerade" \/ kind = "return" \/ kind = "accept"
  BY DEF NatKinds
<1>7. \A kind \in NatKinds : kind \notin GuardKinds BY <1>6 DEF GuardKinds
<1>8. "accept" \in NatKinds /\ "masquerade" \in NatKinds BY DEF NatKinds
<1> QED BY <1>1, <1>2, <1>4, <1>5, <1>6, <1>7, <1>8

(* Without a sweep or a set-up at work every AP is whole.                  *)
LEMMA WholeNow ==
  ASSUME Firm, ~Sweeping, pc # "nat", ~past.dirty, ~past.killed
  PROVE  \A ap \in Ap : Whole(ap)
BY DEF Firm, Wholeness, Excused

(* A rule of another kind changes nothing for NAT.                         *)
LEMMA NatSame ==
  ASSUME NEW r, r.kind \notin NatKinds, rules' = rules \cup {r}
  PROVE  /\ \A ap : NatOf(ap)' = NatOf(ap)
         /\ \A ap : Whole(ap) => Whole(ap)'
         /\ Accepting => Accepting'
<1>1. ASSUME NEW ap PROVE NatOf(ap)' = NatOf(ap) BY DEF NatOf
<1>2. ASSUME NEW ap, Whole(ap) PROVE Whole(ap)' BY <1>1, <1>2 DEF Whole, AllOf
<1>3. r.kind # "accept" BY ChainFacts
<1> QED BY <1>1, <1>2, <1>3 DEF Accepting

LEMMA RulesSame ==
  ASSUME rules' = rules
  PROVE  /\ \A ap : NatOf(ap)' = NatOf(ap)
         /\ \A ap : Whole(ap)' <=> Whole(ap)
         /\ Accepting' <=> Accepting
BY DEF NatOf, Whole, AllOf, Accepting

(* What the control operators leave in the other locals.                   *)
LEMMA LocalsKept ==
  ASSUME TypeOK
  PROVE  /\ \A to, stage : Goto(to, stage) =>
              me'.up = me.up /\ me'.old = me.old /\ me'.bad = me.bad /\ me'.now = me.now
         /\ \A stage : Sweep(stage) =>
              me'.up = me.up /\ me'.old = me.old /\ ~me'.bad /\ me'.now = me.now
         /\ Again =>
              me'.up = me.up /\ me'.old = me.old /\ me'.bad = me.bad /\ me'.now = me.now
         /\ ~Idle.bad /\ Idle.up = None
BY DEF Goto, Sweep, Again, TypeOK, Locals, Idle

----------------------------------------------------------------------------
(* The ways control goes on *)

LEMMA FinishFirm ==
  ASSUME Firm, NEW status, Finish(status),
         ~past'.dirty => Accepting' /\ (~past'.killed => \A ap \in Ap : Whole(ap)')
  PROVE  Firm'
<1>1. /\ pc' = "idle" /\ me'.stage = "none" /\ me'.cmd = "none" /\ ~me'.bad
  BY DEF Finish, Idle
<1>2. SweptSoFar' BY <1>1 DEF SweptSoFar, Sweeping
<1>3. Directed' BY <1>1 DEF Directed
<1>4. SetUp' BY <1>1 DEF SetUp, Sweeping
<1>5. Wholeness' BY DEF Wholeness
<1>6. TakenDown' BY <1>1 DEF TakenDown, Sweeping, Ending
<1> QED BY <1>2, <1>3, <1>4, <1>5, <1>6 DEF Firm

LEMMA GotoFirm ==
  ASSUME TypeOK, Firm, NEW to, NEW stage, Goto(to, stage), UNCHANGED past,
         to \notin {"chain", "remove"},
         ~past.dirty => Accepting' /\ (~past.killed => \A ap \in Ap : Whole(ap)'),
         stage = "nat" => me.up \in Uplink,
         SetUp', TakenDown'
  PROVE  Firm'
<1>1. /\ pc' = to /\ me'.stage = stage /\ me'.cmd = me.cmd /\ me'.up = me.up
      /\ me'.bad = me.bad
  BY GotoFacts, LocalsKept
<1>2. SweptSoFar' BY <1>1 DEF Firm, SweptSoFar, Sweeping
<1>3. Directed' BY <1>1 DEF Firm, Directed
<1>5. Wholeness' BY DEF Wholeness
<1> QED BY <1>2, <1>3, <1>5 DEF Firm

LEMMA SweepFirm ==
  ASSUME TypeOK, Firm, NEW stage, Sweep(stage), UNCHANGED past,
         ~past.dirty => /\ Accepting'
                        /\ ~past.killed => \A ap \in Ap : Whole(ap)' \/ Excused(ap)',
         stage = "nat" => me.up \in Uplink,
         stage \in {"isolate", "nat"} => GuardsOf(me.iface) \subseteq rules',
         stage \in {"rollback", "stop"} => nm'.active = {} /\ nm'.profiles = {}
  PROVE  Firm'
<1>1. /\ pc' = "chain" /\ me'.stage = stage /\ me'.cmd = me.cmd /\ me'.up = me.up
      /\ ~me'.bad /\ me'.k = 1 /\ me'.iface = me.iface
  BY SweepFacts, LocalsKept
<1>2. SweptSoFar'
  <2>1. 1 <= 5 /\ \A j \in 1..5 : ~(j < 1) OBVIOUS
  <2> QED BY <1>1, <2>1 DEF SweptSoFar
<1>3. Directed' BY <1>1 DEF Firm, Directed
<1>4. SetUp'
  <2>1. GuardsOf(me.iface)' = GuardsOf(me.iface) BY <1>1 DEF GuardsOf, Of
  <2> QED BY <1>1, <2>1 DEF SetUp
<1>5. Wholeness' BY DEF Wholeness
<1>6. TakenDown' BY <1>1 DEF TakenDown, Sweeping, Ending
<1> QED BY <1>2, <1>3, <1>4, <1>5, <1>6 DEF Firm

(* A label that nothing is said of.                                        *)
LEMMA Elsewhere ==
  ASSUME pc' \notin {"chain", "remove", "ingest", "radio", "add", "up", "nat"} \cup Ending
  PROVE  SetUp' /\ TakenDown'
BY DEF SetUp, TakenDown, Sweeping

LEMMA RaiseFirm ==
  ASSUME TypeOK, Control, Firm, Raise, UNCHANGED <<rules, past>>,
         Sweeping /\ ~past.dirty /\ ~past.killed => \A ap \in Ap : Whole(ap)
  PROVE  Firm'
<1>0. ~past.dirty => Accepting' BY RulesSame DEF Firm, Wholeness
<1>1. CASE me.stage = "nat" /\ pc \in {"ingest", "nat"} /\ Sweep("undo nat")
  <2>1. /\ pc' = "chain" /\ me'.stage = "undo nat" /\ me'.iface = me.iface
        /\ me.iface \in Ap
    BY <1>1, SweepFacts DEF Control, Staged
  <2>2. \A ap \in Ap : Excused(ap) => Excused(ap)'
    BY <1>1, <2>1 DEF Excused, Sweeping, Target
  <2>3. ~past.dirty /\ ~past.killed => \A ap \in Ap : Whole(ap)' \/ Excused(ap)'
    BY <2>2, RulesSame DEF Firm, Wholeness
  <2> QED BY <1>0, <1>1, <2>3, SweepFirm
<1>2. ASSUME ~(me.stage = "nat" /\ pc \in {"ingest", "nat"})
      PROVE  ~past.dirty /\ ~past.killed => \A ap \in Ap : Whole(ap)'
  <2>1. pc # "nat" BY <1>2 DEF Control, Staged
  <2> QED BY <2>1, WholeNow, RulesSame
<1>3. CASE ~(me.stage = "nat" /\ pc \in {"ingest", "nat"}) /\ Goto("query", "rollback")
  <2>1. pc' = "query" BY <1>3, GotoFacts
  <2>2. SetUp' /\ TakenDown' BY <2>1, Elsewhere DEF Ending
  <2> QED BY <1>0, <1>2, <1>3, <2>2, GotoFirm
<1>4. CASE ~(me.stage = "nat" /\ pc \in {"ingest", "nat"}) /\ Finish("error")
  BY <1>0, <1>2, <1>4, FinishFirm
<1> QED BY <1>1, <1>3, <1>4 DEF Raise

LEMMA PassFirm ==
  ASSUME Firm, pc' \notin {"chain", "remove"}, me'.bad => past'.dirty,
         me'.stage = "nat" => me'.up \in Uplink, me'.cmd = "isolate" => me'.up = None,
         ~past'.dirty => Accepting' /\ (~past'.killed => \A ap \in Ap : Whole(ap)'),
         SetUp', TakenDown'
  PROVE  Firm'
<1>1. SweptSoFar' BY DEF SweptSoFar, Sweeping
<1>2. Directed' BY DEF Directed
<1>3. Wholeness' BY DEF Wholeness
<1> QED BY <1>1, <1>2, <1>3 DEF Firm

(* Where nothing is set or removed, the rules stay as they are.            *)
LEMMA WholeKept ==
  ASSUME Firm, ~Sweeping, pc # "nat", rules' = rules
  PROVE  ~past.dirty => Accepting' /\ (~past.killed => \A ap \in Ap : Whole(ap)')
BY WholeNow, RulesSame DEF Firm, Wholeness

(* On to another label that nothing is said of.                            *)
LEMMA QuietFirm ==
  ASSUME TypeOK, Firm, NEW to, NEW stage, Goto(to, stage), UNCHANGED <<rules, past>>,
         ~Sweeping, pc # "nat", stage = "nat" => me.up \in Uplink,
         to \notin {"chain", "remove", "ingest", "radio", "add", "up", "nat"} \cup Ending
  PROVE  Firm'
<1>1. pc' = to BY GotoFacts
<1>2. SetUp' /\ TakenDown' BY <1>1, Elsewhere
<1> QED BY <1>2, WholeKept, GotoFirm

(* stop_hotspot ends.                                                      *)
LEMMA StoppedFirm ==
  ASSUME TypeOK, Control, Firm, pc \in {"list", "delete"}, Stopped,
         UNCHANGED <<rules, past>>, nm'.active = {}, nm'.profiles = {}
  PROVE  Firm'
<1>0. ~Sweeping /\ pc # "nat" /\ me.stage \in {"clear", "rollback", "stop"}
  BY DEF Sweeping, Control, Staged
<1>1. CASE Goto("remember", "clear") BY <1>0, <1>1, QuietFirm DEF Ending
<1>2. CASE Sweep(me.stage)
  <2>1. ~past.dirty =>
          Accepting' /\ (~past.killed => \A ap \in Ap : Whole(ap)' \/ Excused(ap)')
    BY <1>0, WholeKept
  <2> QED BY <1>0, <1>2, <2>1, SweepFirm
<1> QED BY <1>1, <1>2 DEF Stopped

----------------------------------------------------------------------------
(* The steps *)

LEMMA NoneBefore == 1 <= 5 /\ \A j \in 1..5 : ~(j < 1)
OBVIOUS

LEMMA CommandFirm ==
  ASSUME TypeOK, Firm, NEW cmd, NEW iface, NEW up, NEW stage, NEW first,
         Command(cmd, iface, up, stage, first),
         first \in {"old device", "validate", "link", "chain"},
         first = "chain" => stage = "reset",
         stage = "nat" => up \in Uplink, cmd = "isolate" => up = None
  PROVE  Firm'
<1>1. /\ pc = "idle" /\ UNCHANGED <<rules, past>> /\ pc' = first
      /\ me' = [Idle EXCEPT !.cmd = cmd, !.iface = iface, !.up = up, !.stage = stage]
  BY DEF Command, world
<1>2. /\ me'.stage = stage /\ me'.up = up /\ me'.cmd = cmd /\ ~me'.bad /\ me'.k = 1
  BY <1>1 DEF Idle
<1>3. ~past'.dirty => Accepting' /\ (~past'.killed => \A ap \in Ap : Whole(ap)')
  BY <1>1, WholeKept DEF Sweeping
<1>4. CASE first # "chain"
  <2>1. SetUp' /\ TakenDown' BY <1>1, <1>4, Elsewhere DEF Ending
  <2> QED BY <1>1, <1>2, <1>3, <1>4, <2>1, PassFirm
<1>5. CASE first = "chain"
  <2>1. SweptSoFar'
    <3>1. pc' = "chain" /\ me'.k = 1 /\ ~me'.bad BY <1>1, <1>2, <1>5
    <3> QED BY <3>1, NoneBefore, Zenon DEF SweptSoFar
  <2>2. Directed' BY <1>2 DEF Directed
  <2>3. SetUp' BY <1>1, <1>2, <1>5 DEF SetUp
  <2>4. Wholeness' BY <1>3 DEF Wholeness
  <2>5. TakenDown' BY <1>1, <1>2, <1>5 DEF TakenDown, Ending
  <2> QED BY <2>1, <2>2, <2>3, <2>4, <2>5 DEF Firm
<1> QED BY <1>4, <1>5

LEMMA CommandsFirm ==
  ASSUME TypeOK, Firm, Commands
  PROVE  Firm'
<1>2. CASE HotspotStart
  <2>1. PICK ap \in Ap, up \in Uplink \cup {None} :
          Command("start", ap, up, "clear", IF up = None THEN "old device" ELSE "validate")
    BY <1>2 DEF HotspotStart
  <2>2. CASE up = None
    <3>1. Command("start", ap, up, "clear", "old device") BY <2>1, <2>2
    <3>2. /\ "start" # "isolate" /\ "clear" # "nat" /\ "old device" # "chain"
          /\ "old device" \in {"old device", "validate", "link", "chain"}
      OBVIOUS
    <3> QED BY <3>1, <3>2, CommandFirm, Zenon
  <2>3. CASE up # None
    <3>1. Command("start", ap, up, "clear", "validate") BY <2>1, <2>3
    <3>2. /\ "start" # "isolate" /\ "clear" # "nat" /\ "validate" # "chain"
          /\ "validate" \in {"old device", "validate", "link", "chain"}
      OBVIOUS
    <3> QED BY <3>1, <3>2, CommandFirm, Zenon
  <2> QED BY <2>2, <2>3
<1>3. CASE HotspotStop
  <2>1. PICK ap \in Ap \cup {None} : Command("stop", ap, None, "stop", "old device")
    BY <1>3 DEF HotspotStop
  <2> QED BY <2>1, CommandFirm
<1>4. CASE RouteEnable
  <2>1. PICK ap \in Ap, up \in Uplink : Command("enable", ap, up, "nat", "validate")
    BY <1>4 DEF RouteEnable
  <2> QED BY <2>1, CommandFirm
<1>5. CASE RouteIsolate
  <2>1. PICK ap \in Ap : Command("isolate", ap, None, "isolate", "link")
    BY <1>5 DEF RouteIsolate
  <2> QED BY <2>1, CommandFirm
<1>6. CASE RouteReset
  <2>1. PICK ap \in Ap \cup {None} : Command("reset", ap, None, "reset", "chain")
    BY <1>6 DEF RouteReset
  <2> QED BY <2>1, CommandFirm
<1> QED BY <1>2, <1>3, <1>4, <1>5, <1>6 DEF Commands

LEMMA LookingFirm ==
  ASSUME TypeOK, Control, Firm,
         \/ CommandFails \/ Validate \/ OldDevice \/ Query \/ Down \/ ListProfiles
         \/ DeleteProfile \/ Link \/ CheckForwarding \/ Address
  PROVE  Firm'
<1>0. /\ UNCHANGED <<rules, past>> /\ ~Sweeping
  BY DEF CommandFails, Validate, OldDevice, Query, Down, ListProfiles, DeleteProfile, Link,
     CheckForwarding, Address, world, Sweeping, Step
<1>1. CASE Raise BY <1>0, <1>1, RaiseFirm
<1>2. CASE CommandFails BY <1>1, <1>2 DEF CommandFails
<1>3. CASE Validate \/ Link \/ CheckForwarding \/ Address
  <2>1. /\ pc # "nat"
        /\ \/ Raise
           \/ \E to \in {"old device", "forwarding", "guard", "address", "link"} :
                Goto(to, me.stage)
    BY <1>3 DEF Validate, Link, CheckForwarding, Address
  <2>2. me.stage = "nat" => me.up \in Uplink BY DEF Firm, Directed
  <2> QED BY <1>0, <1>1, <2>1, <2>2, QuietFirm DEF Ending
<1>4. ASSUME pc' \in {"query", "list", "down"}, pc # "nat", me'.stage = me.stage,
             me'.cmd = me.cmd, me'.up = me.up, me'.bad = me.bad
      PROVE  Firm'
  <2>1. SetUp' /\ TakenDown' BY <1>4, Elsewhere DEF Ending
  <2>2. /\ me.bad => past.dirty
        /\ me.stage = "nat" => me.up \in Uplink
        /\ me.cmd = "isolate" => me.up = None
    BY DEF Firm, SweptSoFar, Directed
  <2> QED BY <1>0, <1>4, <2>1, <2>2, WholeKept, PassFirm
<1>5. CASE OldDevice
  <2>1. PICK dev \in IF nm.active = {} THEN {None} ELSE nm.active :
          \/ /\ me.cmd = "start"
             /\ pc' = "query" /\ me' = [me EXCEPT !.old = dev] /\ UNCHANGED report
          \/ /\ me.cmd = "stop"
             /\ dev = me.iface \/ None \in {dev, me.iface}
             /\ pc' = "query" /\ UNCHANGED report
             /\ me' = [me EXCEPT !.iface = IF dev = None THEN @ ELSE dev]
          \/ /\ me.cmd = "stop" /\ dev # None /\ me.iface \notin {None, dev}
             /\ Raise
    BY <1>5 DEF OldDevice
  <2>2. pc = "old device" BY <1>5 DEF OldDevice
  <2>3. CASE /\ pc' = "query"
             /\ \/ me' = [me EXCEPT !.old = dev]
                \/ me' = [me EXCEPT !.iface = IF dev = None THEN @ ELSE dev]
    <3>1. /\ me'.stage = me.stage /\ me'.cmd = me.cmd /\ me'.up = me.up
          /\ me'.bad = me.bad
      BY <2>3 DEF TypeOK, Locals
    <3> QED BY <1>4, <2>2, <2>3, <3>1
  <2> QED BY <1>1, <2>1, <2>3
<1>6. CASE Query \/ Down
  <2>1. pc' \in {"list", "down"} /\ pc # "nat" /\ me' = me
    BY <1>6 DEF Query, Down, Step
  <2> QED BY <1>4, <2>1
<1>7. CASE ListProfiles
  <2>1. pc = "list" /\ nm'.active = {} /\ nm' = nm
    BY <1>7 DEF ListProfiles, Control, Unguarding, world
  <2>2. CASE nm.profiles = {} /\ Stopped BY <1>0, <2>1, <2>2, StoppedFirm
  <2>3. CASE Goto("delete", me.stage)
    <3>1. me.stage # "nat" BY <2>1 DEF Control, Staged
    <3> QED BY <1>0, <2>1, <2>3, <3>1, QuietFirm DEF Ending
  <2> QED BY <1>7, <2>2, <2>3 DEF ListProfiles
<1>8. CASE DeleteProfile
  <2>1. pc = "delete" /\ Stopped /\ nm'.active = nm.active /\ nm'.profiles = {}
    BY <1>8 DEF DeleteProfile, TypeOK, Managers
  <2>2. nm.active = {} BY <2>1 DEF Control, Unguarding
  <2> QED BY <1>0, <2>1, <2>2, StoppedFirm
<1> QED BY <1>2, <1>3, <1>5, <1>6, <1>7, <1>8

----------------------------------------------------------------------------
(* remove_owned *)

LEMMA SameSweep ==
  ASSUME me'.stage = me.stage, me'.old = me.old, me'.iface = me.iface
  PROVE  /\ Target' = Target /\ (KeepDrops' <=> KeepDrops)
         /\ \A r : Sweepable(r)' <=> Sweepable(r)
BY DEF Target, KeepDrops, Sweepable, Owned

(* A step of a sweep that removes only what it is to remove.               *)
LEMMA SweepingFirm ==
  ASSUME Firm, Sweeping, Sweeping', UNCHANGED nm,
         me'.stage = me.stage, me'.old = me.old, me'.iface = me.iface,
         me'.cmd = me.cmd, me'.up = me.up,
         rules' \subseteq rules, \A r \in rules : r \in rules' \/ Sweepable(r),
         ~past'.dirty => ~past.dirty /\ past'.killed = past.killed /\ Accepting',
         SweptSoFar'
  PROVE  Firm'
<1>1. /\ pc \in {"chain", "remove"} /\ pc' \in {"chain", "remove"}
  BY DEF Sweeping
<1>2. Directed' BY DEF Firm, Directed
<1>3. SetUp'
  <2>1. SUFFICES ASSUME me.stage \in {"isolate", "nat"}
                 PROVE  GuardsOf(me.iface) \subseteq rules'
    BY <1>1 DEF SetUp, GuardsOf, Of
  <2>2. GuardsOf(me.iface) \subseteq rules BY <2>1 DEF Firm, SetUp
  <2>3. ASSUME NEW r \in GuardsOf(me.iface) PROVE ~Sweepable(r)
    <3>1. r.kind \in GuardKinds BY <2>3 DEF GuardsOf, Of
    <3> QED BY <2>1, <3>1 DEF Sweepable, KeepDrops
  <2> QED BY <2>2, <2>3
<1>4. Wholeness'
  <2>1. SUFFICES ASSUME ~past.dirty, ~past.killed, NEW ap \in Ap
                 PROVE  Whole(ap)' \/ Excused(ap)'
    BY DEF Wholeness
  <2>2. Whole(ap) \/ Excused(ap) BY <2>1 DEF Firm, Wholeness
  <2>3. CASE Target \in {ap, None}
    BY <2>3, SameSweep DEF Excused
  <2>4. CASE Target \notin {ap, None}
    <3>1. \A r \in rules : r.ap = ap => r \in rules'
      BY <2>4 DEF Sweepable, Owned
    <3>2. NatOf(ap)' = NatOf(ap) BY <3>1 DEF NatOf
    <3>3. Whole(ap) BY <1>1, <2>2, <2>4 DEF Excused
    <3> QED BY <3>2, <3>3 DEF Whole, AllOf
  <2> QED BY <2>3, <2>4
<1>5. TakenDown' BY <1>1 DEF Firm, TakenDown, Ending, Sweeping
<1> QED BY <1>2, <1>3, <1>4, <1>5 DEF Firm

LEMMA ListChainFirm ==
  ASSUME TypeOK, Firm, ListChain
  PROVE  Firm'
<1>1. /\ pc = "chain" /\ pc' = "remove" /\ UNCHANGED <<rules, nm>>
      /\ \/ me' = [me EXCEPT !.left = Listed] /\ UNCHANGED past
         \/ me' = [me EXCEPT !.left = {}, !.bad = TRUE] /\ Dirty
  BY DEF ListChain, Step, world
<1>2. /\ me'.stage = me.stage /\ me'.old = me.old /\ me'.iface = me.iface
      /\ me'.cmd = me.cmd /\ me'.up = me.up /\ me'.k = me.k
      /\ \/ me'.left = Listed /\ me'.bad = me.bad /\ UNCHANGED past
         \/ me'.left = {} /\ me'.bad /\ past'.dirty
  BY <1>1 DEF Dirty, TypeOK, Locals, Histories
<1>3. Sweeping /\ Sweeping' BY <1>1 DEF Sweeping
<1>4. Listed' = Listed BY <1>1, <1>2, SameSweep DEF Listed
<1>5. \A r : Sweepable(r)' <=> Sweepable(r) BY <1>2, SameSweep
<1>6. \A r \in Listed : Sweepable(r) /\ ChainOf(r.kind) = Chains[me.k]
  BY DEF Listed, Sweepable
<1>7. SweptSoFar'
  <2>1. /\ me.k <= 5
        /\ me.bad => past.dirty
        /\ ~me.bad => \A j \in 1..5 : j < me.k =>
             \A r \in rules : ChainOf(r.kind) = Chains[j] => ~Sweepable(r)
    BY <1>3 DEF Firm, SweptSoFar
  <2> QED BY <1>1, <1>2, <1>4, <1>5, <1>6, <2>1 DEF SweptSoFar
<1>8. ~past'.dirty => ~past.dirty /\ past'.killed = past.killed /\ Accepting'
  BY <1>1, <1>2, RulesSame DEF Firm, Wholeness
<1> QED BY <1>1, <1>2, <1>3, <1>7, <1>8, SweepingFirm

(* The filter chain's accept goes before the masquerading it relies on.    *)
LEMMA RemoveRuleFirm ==
  ASSUME TypeOK, Firm, RemoveRule
  PROVE  Firm'
<1>0. pc = "remove" /\ pc' = "remove" /\ UNCHANGED nm
  BY DEF RemoveRule, Step
<1>1. PICK r \in me.left :
        /\ me'.stage = me.stage /\ me'.old = me.old /\ me'.iface = me.iface
        /\ me'.cmd = me.cmd /\ me'.up = me.up /\ me'.k = me.k
        /\ me'.left = me.left \ {r}
        /\ \/ rules' = rules \ {r} /\ me'.bad = me.bad /\ UNCHANGED past
           \/ rules' = rules /\ me'.bad /\ past'.dirty
  BY DEF RemoveRule, Dirty, TypeOK, Locals, Histories
<1>2. Sweeping /\ Sweeping' BY <1>0 DEF Sweeping
<1>3. \A x : Sweepable(x)' <=> Sweepable(x) BY <1>1, SameSweep
<1>4. Sweepable(r) /\ ChainOf(r.kind) = Chains[me.k]
  BY <1>0 DEF Firm, SweptSoFar
<1>5. rules' \subseteq rules /\ \A x \in rules : x \in rules' \/ Sweepable(x)
  BY <1>1, <1>4
<1>6. /\ me.k <= 5
      /\ me.bad => past.dirty
      /\ ~me.bad => \A j \in 1..5 : j < me.k =>
           \A x \in rules : ChainOf(x.kind) = Chains[j] => ~Sweepable(x)
      /\ \A x \in me.left : Sweepable(x) /\ ChainOf(x.kind) = Chains[me.k]
      /\ ~me.bad => Listed \subseteq me.left
  BY <1>0, <1>2 DEF Firm, SweptSoFar
<1>7. SweptSoFar'
  <2>1. ~me'.bad => Listed' \subseteq me'.left
    <3>1. SUFFICES ASSUME ~me'.bad, NEW x \in Listed' PROVE x \in me'.left
      OBVIOUS
    <3>2. rules' = rules \ {r} /\ ~me.bad BY <1>1, <3>1
    <3>3. x \in Listed /\ x # r
      BY <1>1, <3>1, <3>2, SameSweep DEF Listed
    <3> QED BY <1>1, <1>6, <3>2, <3>3
  <2> QED BY <1>0, <1>1, <1>3, <1>5, <1>6, <2>1 DEF SweptSoFar
<1>8. ASSUME ~past'.dirty
      PROVE  ~past.dirty /\ past'.killed = past.killed /\ Accepting'
  <2>1. rules' = rules \ {r} /\ UNCHANGED past /\ ~me.bad BY <1>1, <1>6, <1>8
  <2>2. Accepting BY <1>8, <2>1 DEF Firm, Wholeness
  <2>3. SUFFICES ASSUME NEW a \in rules', a.kind = "accept",
                        Of("masquerade", a.ap, a.up) = r
                 PROVE  FALSE
    BY <1>8, <2>1, <2>2 DEF Accepting
  <2>4. r.kind = "masquerade" /\ r.ap = a.ap BY <2>3 DEF Of
  <2>5. me.k = 3
    <3>1. me.k \in 1..5 BY <1>6, StageTypes
    <3> QED BY <1>4, <2>4, <3>1, ChainFacts
  <2>6. Sweepable(a)
    <3>1. a.kind \notin GuardKinds BY <2>3, ChainFacts
    <3> QED BY <1>4, <2>4, <3>1 DEF Sweepable, Owned
  <2>7. ChainOf(a.kind) = Chains[2] BY <2>3, ChainFacts
  <2>8. 2 \in 1..5 /\ 2 < 3 OBVIOUS
  <2>9. a \in rules BY <2>1, <2>3
  <2> QED BY <1>6, <2>1, <2>5, <2>6, <2>7, <2>8, <2>9
<1> QED BY <1>0, <1>1, <1>2, <1>5, <1>7, <1>8, SweepingFirm

LEMMA NextChainFirm ==
  ASSUME TypeOK, Firm, NextChain
  PROVE  Firm'
<1>0. /\ pc = "remove" /\ pc' = "chain" /\ UNCHANGED <<rules, nm, past>>
      /\ me.left = {} /\ me.k < 5 /\ me' = [me EXCEPT !.k = @ + 1]
  BY RuleLists DEF NextChain, Step, world
<1>1. /\ me'.stage = me.stage /\ me'.old = me.old /\ me'.iface = me.iface
      /\ me'.cmd = me.cmd /\ me'.up = me.up /\ me'.k = me.k + 1 /\ me'.bad = me.bad
  BY <1>0 DEF TypeOK, Locals
<1>2. Sweeping /\ Sweeping' BY <1>0 DEF Sweeping
<1>3. \A x : Sweepable(x)' <=> Sweepable(x) BY <1>1, SameSweep
<1>4. /\ me.bad => past.dirty
      /\ ~me.bad => \A j \in 1..5 : j < me.k =>
           \A x \in rules : ChainOf(x.kind) = Chains[j] => ~Sweepable(x)
      /\ ~me.bad => Listed = {}
  BY <1>0, <1>2 DEF Firm, SweptSoFar
<1>5. me.k \in 1..6 /\ me.k + 1 <= 5 BY <1>0, StageTypes, Counting
<1>6. ASSUME ~me.bad, NEW j \in 1..5, j < me.k + 1, NEW x \in rules,
             ChainOf(x.kind) = Chains[j]
      PROVE  ~Sweepable(x)
  <2>1. j < me.k \/ j = me.k BY <1>5, <1>6, Counting
  <2>2. CASE j < me.k BY <1>4, <1>6, <2>2
  <2>3. CASE j = me.k
    <3>1. x \notin Listed BY <1>4, <1>6
    <3> QED BY <1>6, <2>3, <3>1 DEF Listed, Sweepable
  <2> QED BY <2>1, <2>2, <2>3
<1>7. SweptSoFar'
  <2>1. ~me'.bad => \A j \in 1..5 : j < me'.k =>
          \A x \in rules' : ChainOf(x.kind) = Chains[j] => ~Sweepable(x)'
    BY <1>0, <1>1, <1>3, <1>6, Zenon
  <2>2. me'.k <= 5 /\ (me'.bad => past'.dirty) BY <1>0, <1>1, <1>4, <1>5
  <2> QED BY <1>0, <2>1, <2>2, Zenon DEF SweptSoFar
<1>8. ~past'.dirty => ~past.dirty /\ past'.killed = past.killed /\ Accepting'
  BY <1>0, RulesSame DEF Firm, Wholeness
<1> QED BY <1>0, <1>1, <1>2, <1>7, <1>8, SweepingFirm

(* After the last chain nothing is left to remove.                         *)
LEMMA SweptAll ==
  ASSUME Firm, pc = "remove", me.left = {}, me.k = 5, ~me.bad
  PROVE  \A r \in rules : ~Sweepable(r)
<1>1. /\ \A j \in 1..5 : j < 5 =>
           \A r \in rules : ChainOf(r.kind) = Chains[j] => ~Sweepable(r)
      /\ Listed = {}
  BY DEF Firm, SweptSoFar, Sweeping
<1>2. SUFFICES ASSUME NEW r \in rules, Sweepable(r) PROVE FALSE
  OBVIOUS
<1>3. ChainOf(r.kind) # Chains[5] BY <1>1, <1>2 DEF Listed, Sweepable
<1>4. /\ 1 \in 1..5 /\ 2 \in 1..5 /\ 3 \in 1..5 /\ 4 \in 1..5
      /\ 1 < 5 /\ 2 < 5 /\ 3 < 5 /\ 4 < 5
  OBVIOUS
<1>5. ChainOf(r.kind) \notin {Chains[1], Chains[2], Chains[3], Chains[4]}
  BY <1>1, <1>2, <1>4
<1> QED BY <1>3, <1>5, ChainFacts

(* No AP that was swept has a NAT rule.                                    *)
LEMMA Bare ==
  ASSUME \A r \in rules : ~Sweepable(r)
  PROVE  \A ap : Target \in {ap, None} => NatOf(ap) = {}
BY ChainFacts DEF NatOf, Sweepable, Owned

LEMMA SweptFirm ==
  ASSUME TypeOK, Control, Firm, Swept
  PROVE  Firm'
<1>0. /\ pc = "remove" /\ Sweeping /\ me.left = {} /\ me.k = 5
      /\ UNCHANGED <<rules, nm, past>>
  BY RuleLists DEF Swept, world, Sweeping
<1>1. ASSUME ~me.bad
      PROVE  ~past.dirty =>
               Accepting' /\ (~past.killed => \A ap \in Ap : Whole(ap)')
  <2>1. ASSUME ~past.dirty, ~past.killed, NEW ap \in Ap PROVE Whole(ap)
    <3>1. CASE Target \in {ap, None}
      <4>1. NatOf(ap) = {} BY <1>0, <1>1, <3>1, SweptAll, Bare
      <4> QED BY <4>1 DEF Whole
    <3>2. CASE Target \notin {ap, None}
      BY <1>0, <2>1, <3>2 DEF Firm, Wholeness, Excused
    <3> QED BY <3>1, <3>2
  <2> QED BY <1>0, <2>1, RulesSame DEF Firm, Wholeness
<1>2. CASE Raise
  <2>1. me.bad => past.dirty BY DEF Firm, SweptSoFar
  <2>2. Sweeping /\ ~past.dirty /\ ~past.killed => \A ap \in Ap : Whole(ap)
    BY <1>0, <1>1, <2>1, RulesSame
  <2> QED BY <1>0, <1>2, <2>2, RaiseFirm
<1>3. CASE ~me.bad /\ Goto("remember", "clear")
  <2>1. pc' = "remember" BY <1>3, GotoFacts
  <2>2. SetUp' /\ TakenDown' BY <2>1, Elsewhere DEF Ending
  <2> QED BY <1>0, <1>1, <1>3, <2>2, GotoFirm
<1>4. CASE ~me.bad /\ me.stage \in {"isolate", "nat"} /\ Goto("ingest", me.stage)
  <2>1. /\ pc' = "ingest" /\ me'.stage = me.stage /\ me'.iface = me.iface
    BY <1>4, GotoFacts
  <2>2. Target = me.iface BY <1>4 DEF Target
  <2>3. NatOf(me.iface) = {} /\ GuardsOf(me.iface) \subseteq rules
    BY <1>0, <1>4, <2>2, SweptAll, Bare DEF Firm, SetUp
  <2>4. SetUp' BY <1>0, <2>1, <2>3 DEF SetUp, NatOf, GuardsOf, Of
  <2>5. TakenDown' BY <2>1 DEF TakenDown, Sweeping, Ending
  <2>6. me.stage = "nat" => me.up \in Uplink BY DEF Firm, Directed
  <2> QED BY <1>0, <1>1, <1>4, <2>4, <2>5, <2>6, GotoFirm
<1>5. CASE ~me.bad /\ me.stage \in {"rollback", "stop"} /\ Goto("read record", me.stage)
  <2>1. /\ pc' = "read record" /\ me'.stage = me.stage /\ me'.iface = me.iface
    BY <1>5, GotoFacts
  <2>2. Target = me.iface /\ ~KeepDrops BY <1>5 DEF Target, KeepDrops
  <2>3. \A r \in rules : ~Owned(r, me.iface)
    BY <1>0, <1>5, <2>2, SweptAll DEF Sweepable
  <2>4. nm.active = {} /\ nm.profiles = {}
    BY <1>0, <1>5 DEF Firm, TakenDown
  <2>5. SetUp' BY <2>1 DEF SetUp, Sweeping
  <2>6. TakenDown' BY <1>0, <2>1, <2>3, <2>4 DEF TakenDown, Owned, Sweeping
  <2> QED BY <1>0, <1>1, <1>5, <2>5, <2>6, GotoFirm
<1>6. CASE ~me.bad /\ Finish("ok")
  BY <1>0, <1>1, <1>6, FinishFirm
<1> QED BY <1>2, <1>3, <1>4, <1>5, <1>6 DEF Swept

----------------------------------------------------------------------------
(* prepare_routing, allow_ingest, enable_nat_routing *)

LEMMA GuardKind ==
  /\ \A kind \in GuardKinds : kind \notin NatKinds
  /\ \A j \in 1..3 : Ingest[j] \notin NatKinds
  /\ NatRules[1] = "masquerade" /\ NatRules[2] = "return" /\ NatRules[3] = "accept"
<1>1. \A j \in 1..3 : j = 1 \/ j = 2 \/ j = 3 OBVIOUS
<1>2. Ingest[1] \notin NatKinds /\ Ingest[2] \notin NatKinds /\ Ingest[3] \notin NatKinds
  BY DEF Ingest, NatKinds
<1>3. \A j \in 1..3 : Ingest[j] \notin NatKinds
  <2> SUFFICES ASSUME NEW j \in 1..3 PROVE Ingest[j] \notin NatKinds OBVIOUS
  <2> QED BY <1>1, <1>2
<1>4. \A kind \in GuardKinds : kind \notin NatKinds BY ChainFacts
<1>5. NatRules[1] = "masquerade" /\ NatRules[2] = "return" /\ NatRules[3] = "accept"
  BY DEF NatRules
<1> QED BY <1>3, <1>4, <1>5

(* A rule that is not NAT's leaves the APs whole.                          *)
LEMMA OtherRule ==
  ASSUME Firm, ~Sweeping, pc # "nat", NEW kind, kind \notin NatKinds,
         rules' = rules \cup {Of(kind, me.iface, None)}
  PROVE  /\ ~past.dirty => Accepting' /\ (~past.killed => \A ap \in Ap : Whole(ap)')
         /\ \A ap : NatOf(ap)' = NatOf(ap)
<1>1. Of(kind, me.iface, None).kind \notin NatKinds BY DEF Of
<1>2. /\ \A ap : NatOf(ap)' = NatOf(ap)
      /\ \A ap : Whole(ap) => Whole(ap)'
      /\ Accepting => Accepting'
  BY <1>1, NatSame
<1>3. ~past.dirty => Accepting BY DEF Firm, Wholeness
<1>4. ~past.dirty /\ ~past.killed => \A ap \in Ap : Whole(ap) BY WholeNow
<1> QED BY <1>2, <1>3, <1>4

LEMMA SetGuardFirm ==
  ASSUME TypeOK, Control, Firm, SetGuard
  PROVE  Firm'
<1>1. /\ pc = "guard" /\ rules' = rules \cup {Of(Guards[me.k], me.iface, None)}
      /\ UNCHANGED <<nm, past>> /\ me.k \in 1..6
  BY StageTypes DEF SetGuard, Insert
<1>2. Guards[me.k] \notin NatKinds BY <1>1, RuleLists, GuardKind
<1>3. ~past.dirty => Accepting' /\ (~past.killed => \A ap \in Ap : Whole(ap)')
  BY <1>1, <1>2, OtherRule DEF Sweeping
<1>4. /\ me.bad => past.dirty
      /\ me.stage = "nat" => me.up \in Uplink
      /\ me.cmd = "isolate" => me.up = None
  BY DEF Firm, SweptSoFar, Directed
<1>5. CASE me.k < Len(Guards)
  <2>1. Again BY <1>1, <1>5 DEF SetGuard
  <2>2. /\ pc' = "guard" /\ me'.stage = me.stage /\ me'.cmd = me.cmd
        /\ me'.up = me.up /\ me'.bad = me.bad
    BY <1>1, <2>1, AgainFacts, LocalsKept
  <2>3. SetUp' /\ TakenDown' BY <2>2, Elsewhere DEF Ending
  <2> QED BY <1>1, <1>3, <1>4, <2>2, <2>3, PassFirm
<1>6. CASE ~(me.k < Len(Guards))
  <2>1. Sweep(me.stage) BY <1>1, <1>6 DEF SetGuard
  <2>2. me.k = 6 BY <1>1, <1>6, RuleLists, Counting
  <2>3. ASSUME NEW j \in 1..6 PROVE Of(Guards[j], me.iface, None) \in rules'
    <3>1. \A i \in 1..6 : i < 6 => Of(Guards[i], me.iface, None) \in rules
      BY <1>1, <2>2 DEF Control, Counted
    <3>2. j < 6 \/ j = 6 BY <2>3
    <3> QED BY <1>1, <2>2, <3>1, <3>2
  <2>4. GuardsOf(me.iface) \subseteq rules' BY <2>3, GuardsComplete, Zenon
  <2>5. me.stage \notin {"rollback", "stop"} BY <1>1 DEF Control, Staged
  <2> QED BY <1>1, <1>3, <1>4, <2>1, <2>4, <2>5, SweepFirm
<1> QED BY <1>5, <1>6

LEMMA SetIngestFirm ==
  ASSUME TypeOK, Control, Firm, SetIngest
  PROVE  Firm'
<1>1. /\ pc = "ingest" /\ rules' = rules \cup {Of(Ingest[me.k], me.iface, None)}
      /\ UNCHANGED <<nm, past>> /\ me.k \in 1..3 /\ me.stage \in {"isolate", "nat"}
  BY StageTypes, Counting DEF SetIngest, Insert, Control, Counted, Staged
<1>2. Ingest[me.k] \notin NatKinds BY <1>1, GuardKind
<1>3. /\ ~past.dirty => Accepting' /\ (~past.killed => \A ap \in Ap : Whole(ap)')
      /\ \A ap : NatOf(ap)' = NatOf(ap)
  BY <1>1, <1>2, OtherRule DEF Sweeping
<1>4. /\ me.bad => past.dirty
      /\ me.stage = "nat" => me.up \in Uplink
      /\ me.cmd = "isolate" => me.up = None
      /\ NatOf(me.iface) = {} /\ GuardsOf(me.iface) \subseteq rules
  BY <1>1 DEF Firm, SweptSoFar, Directed, SetUp
<1>5. CASE me.k < Len(Ingest) /\ Again
  <2>1. /\ pc' = "ingest" /\ me'.stage = me.stage /\ me'.cmd = me.cmd
        /\ me'.up = me.up /\ me'.bad = me.bad /\ me'.iface = me.iface
    BY <1>1, <1>5, AgainFacts, LocalsKept
  <2>2. SetUp' BY <1>1, <1>3, <1>4, <2>1 DEF SetUp, NatOf, GuardsOf, Of
  <2>3. TakenDown' BY <2>1 DEF TakenDown, Sweeping, Ending
  <2> QED BY <1>1, <1>3, <1>4, <2>1, <2>2, <2>3, PassFirm
<1>6. CASE me.stage = "nat" /\ Goto("nat", "nat")
  <2>1. pc' = "nat" /\ me'.stage = "nat" /\ me'.k = 1 /\ me'.iface = me.iface
    BY <1>6, GotoFacts
  <2>2. 1..(1 - 1) = {} OBVIOUS
  <2>3. {Of(NatRules[j], me.iface, me.up) : j \in 1..(me.k - 1)}' = {}
    BY <2>1, <2>2
  <2>4. NatOf(me.iface)' = {} BY <1>3, <1>4, <2>1 DEF NatOf
  <2>5. SetUp' BY <1>1, <1>4, <2>1, <2>3, <2>4 DEF SetUp, GuardsOf, Of
  <2>6. TakenDown' BY <2>1 DEF TakenDown, Sweeping, Ending
  <2> QED BY <1>1, <1>3, <1>4, <1>6, <2>5, <2>6, GotoFirm
<1>7. CASE me.stage = "isolate" /\ Goto("radio", "activate")
  <2>1. pc' = "radio" /\ me'.stage = "activate" /\ me'.iface = me.iface
    BY <1>7, GotoFacts
  <2>2. SetUp' BY <1>3, <1>4, <2>1 DEF SetUp, NatOf, Sweeping
  <2>3. TakenDown' BY <2>1 DEF TakenDown, Sweeping, Ending
  <2> QED BY <1>1, <1>3, <1>7, <2>2, <2>3, GotoFirm
<1>8. CASE Finish("ok") BY <1>1, <1>3, <1>8, FinishFirm
<1> QED BY <1>5, <1>6, <1>7, <1>8 DEF SetIngest

(* The NAT rules grow one by one, up to all three.                         *)
LEMMA NatGrows ==
  ASSUME TypeOK, Control, Firm, SetNat
  PROVE  /\ pc = "nat" /\ rules' = rules \cup {Of(NatRules[me.k], me.iface, me.up)}
         /\ UNCHANGED <<nm, past>> /\ me.k \in 1..3 /\ me.stage = "nat"
         /\ me.up \in Uplink /\ GuardsOf(me.iface) \subseteq rules
         /\ NatOf(me.iface) = {Of(NatRules[j], me.iface, me.up) : j \in 1..(me.k - 1)}
         /\ {r \in rules' : r.ap = me.iface /\ r.kind \in NatKinds}
              = {Of(NatRules[j], me.iface, me.up) : j \in 1..me.k}
<1>1. /\ pc = "nat" /\ rules' = rules \cup {Of(NatRules[me.k], me.iface, me.up)}
      /\ UNCHANGED <<nm, past>> /\ me.k \in 1..3 /\ me.stage = "nat"
  BY StageTypes, Counting DEF SetNat, Insert, Control, Counted, Staged
<1>2. /\ me.up \in Uplink
      /\ NatOf(me.iface) = {Of(NatRules[j], me.iface, me.up) : j \in 1..(me.k - 1)}
      /\ GuardsOf(me.iface) \subseteq rules
  BY <1>1 DEF Firm, SweptSoFar, Directed, SetUp, Sweeping
<1>3. NatRules[me.k] \in NatKinds
  BY <1>1, GuardKind DEF NatKinds
<1>4. {r \in rules' : r.ap = me.iface /\ r.kind \in NatKinds}
        = {Of(NatRules[j], me.iface, me.up) : j \in 1..me.k}
  <2>1. \A j \in 1..me.k : j \in 1..(me.k - 1) \/ j = me.k BY <1>1
  <2>2. \A j \in 1..(me.k - 1) : j \in 1..me.k BY <1>1
  <2>3. me.k \in 1..me.k BY <1>1
  <2>4. {r \in rules' : r.ap = me.iface /\ r.kind \in NatKinds}
          = NatOf(me.iface) \cup {Of(NatRules[me.k], me.iface, me.up)}
    BY <1>1, <1>3 DEF NatOf, Of
  <2> QED BY <1>2, <2>1, <2>2, <2>3, <2>4
<1> QED BY <1>1, <1>2, <1>4

LEMMA NatComplete ==
  ASSUME TypeOK, Control, Firm, SetNat, ~(me.k < Len(NatRules))
  PROVE  /\ me.up \in Uplink /\ GuardsOf(me.iface) \subseteq rules'
         /\ {r \in rules' : r.ap = me.iface /\ r.kind \in NatKinds}
              = AllOf(me.iface, me.up)
<1>1. me.k = 3 BY NatGrows, RuleLists
<1>2. \A j \in 1..3 : NatRules[j] \in NatKinds BY GuardKind DEF NatKinds
<1>3. \A kind \in NatKinds : \E j \in 1..3 : NatRules[j] = kind
  <2>1. 1 \in 1..3 /\ 2 \in 1..3 /\ 3 \in 1..3 OBVIOUS
  <2> QED BY <2>1, GuardKind DEF NatKinds
<1>4. {r \in rules' : r.ap = me.iface /\ r.kind \in NatKinds} = AllOf(me.iface, me.up)
  BY <1>1, <1>2, <1>3, NatGrows DEF AllOf
<1> QED BY <1>4, NatGrows

LEMMA SetNatFirm ==
  ASSUME TypeOK, Control, Firm, SetNat
  PROVE  Firm'
<1>1. /\ pc = "nat" /\ rules' = rules \cup {Of(NatRules[me.k], me.iface, me.up)}
      /\ UNCHANGED <<nm, past>> /\ me.k \in 1..3 /\ me.stage = "nat"
  BY NatGrows
<1>2. /\ me.bad => past.dirty
      /\ me.up \in Uplink
      /\ me.cmd = "isolate" => me.up = None
      /\ NatOf(me.iface) = {Of(NatRules[j], me.iface, me.up) : j \in 1..(me.k - 1)}
      /\ GuardsOf(me.iface) \subseteq rules
  BY NatGrows DEF Firm, SweptSoFar, Directed
<1>4. {r \in rules' : r.ap = me.iface /\ r.kind \in NatKinds}
        = {Of(NatRules[j], me.iface, me.up) : j \in 1..me.k}
  BY NatGrows
<1>5. ASSUME ~past.dirty PROVE Accepting'
  <2>1. Accepting BY <1>5 DEF Firm, Wholeness
  <2>2. SUFFICES ASSUME NatRules[me.k] = "accept"
                 PROVE  Of("masquerade", me.iface, me.up) \in rules
    BY <1>1, <2>1 DEF Accepting, Of
  <2>3. me.k # 1 BY <2>2, GuardKind
  <2>4. 1 \in 1..(me.k - 1) BY <1>1, <2>3
  <2>5. Of(NatRules[1], me.iface, me.up) \in NatOf(me.iface) BY <1>2, <2>4
  <2> QED BY <2>5, GuardKind DEF NatOf
<1>6. ASSUME ~past.dirty, ~past.killed, NEW ap \in Ap, ap # me.iface
      PROVE  Whole(ap)'
  <2>1. Whole(ap) BY <1>1, <1>6 DEF Firm, Wholeness, Excused, Sweeping
  <2>2. NatOf(ap)' = NatOf(ap) BY <1>1, <1>6 DEF NatOf, Of
  <2> QED BY <2>1, <2>2 DEF Whole, AllOf
<1>7. CASE me.k < Len(NatRules) /\ Again
  <2>1. /\ pc' = "nat" /\ me'.stage = me.stage /\ me'.cmd = me.cmd /\ me'.k = me.k + 1
        /\ me'.up = me.up /\ me'.bad = me.bad /\ me'.iface = me.iface
    BY <1>1, <1>7, AgainFacts, LocalsKept
  <2>2. me'.k - 1 = me.k BY <1>1, <2>1
  <2>3. SetUp' BY <1>1, <1>2, <1>4, <2>1, <2>2 DEF SetUp, NatOf, GuardsOf, Of
  <2>4. TakenDown' BY <2>1 DEF TakenDown, Sweeping, Ending
  <2>5. Directed' BY <1>2, <2>1 DEF Directed
  <2>6. SweptSoFar' BY <1>1, <1>2, <2>1 DEF SweptSoFar, Sweeping
  <2>7. Wholeness' BY <1>1, <1>5, <1>6, <2>1 DEF Wholeness, Excused
  <2> QED BY <2>3, <2>4, <2>5, <2>6, <2>7 DEF Firm
<1>8. CASE ~(me.k < Len(NatRules)) /\ Finish("ok")
  <2>2. {r \in rules' : r.ap = me.iface /\ r.kind \in NatKinds}
          = AllOf(me.iface, me.up)
    BY <1>8, NatComplete
  <2>3. \E up \in Uplink : {r \in rules' : r.ap = me.iface /\ r.kind \in NatKinds}
                             = AllOf(me.iface, up)
    BY <1>2, <2>2
  <2>4. ASSUME NEW ap, ap = me.iface PROVE Whole(ap)'
    BY <2>3, <2>4 DEF Whole, NatOf, AllOf
  <2> QED BY <1>1, <1>5, <1>6, <1>8, <2>4, FinishFirm
<1> QED BY <1>7, <1>8 DEF SetNat

----------------------------------------------------------------------------
(* remember_ip_forwarding, start_hotspot, restore_after_hotspot *)

LEMMA StartFirm ==
  ASSUME TypeOK, Control, Firm,
         Remember \/ WriteRecord \/ Radio \/ AddProfile \/ Up
  PROVE  Firm'
<1>0. /\ UNCHANGED rules /\ ~Sweeping /\ pc # "nat"
      /\ past'.dirty = past.dirty /\ past'.killed = past.killed
  <2>1. CASE WriteRecord \/ Radio \/ AddProfile \/ Up
    BY <2>1 DEF WriteRecord, Radio, AddProfile, Up, Sweeping, world
  <2>2. CASE Remember
    <3>1. UNCHANGED rules /\ pc = "remember" /\ (UNCHANGED past \/ Recording)
      BY <2>2 DEF Remember
    <3>2. past'.dirty = past.dirty /\ past'.killed = past.killed
      BY <3>1 DEF Recording, TypeOK, Histories
    <3> QED BY <3>1, <3>2 DEF Sweeping
  <2> QED BY <2>1, <2>2
<1>1. /\ me.bad => past'.dirty
      /\ me.stage = "nat" => me.up \in Uplink
      /\ me.cmd = "isolate" => me.up = None
  BY <1>0 DEF Firm, SweptSoFar, Directed
<1>2. ~past'.dirty => Accepting' /\ (~past'.killed => \A ap \in Ap : Whole(ap)')
  BY <1>0, WholeKept
<1>3. ASSUME NEW to \in {"link", "add", "up", "validate"},
             NEW stage \in {"isolate", "nat", "activate"}, Goto(to, stage),
             stage = "nat" => me.up \in Uplink,
             to \in {"add", "up"} => NatOf(me.iface) = {}
      PROVE  Firm'
  <2>1. /\ pc' = to /\ me'.stage = stage /\ me'.cmd = me.cmd /\ me'.iface = me.iface
        /\ me'.up = me.up /\ me'.bad = me.bad
    BY <1>3, GotoFacts, LocalsKept
  <2>2. SetUp' BY <1>0, <1>3, <2>1 DEF SetUp, NatOf, Sweeping
  <2>3. TakenDown' BY <1>3, <2>1 DEF TakenDown, Sweeping, Ending
  <2> QED BY <1>1, <1>2, <1>3, <2>1, <2>2, <2>3, PassFirm
<1>4. CASE Remember
  <2>1. CASE Goto("link", "isolate") BY <1>3, <2>1
  <2>2. CASE Recording
    <3>1. /\ pc' = "write record" /\ me'.stage = me.stage /\ me'.cmd = me.cmd
          /\ me'.up = me.up /\ me'.bad = me.bad
      BY <2>2 DEF Recording, TypeOK, Locals
    <3>2. SetUp' /\ TakenDown' BY <3>1, Elsewhere DEF Ending
    <3> QED BY <1>1, <1>2, <3>1, <3>2, PassFirm
  <2> QED BY <1>4, <2>1, <2>2 DEF Remember
<1>5. CASE WriteRecord
  <2>1. Goto("link", "isolate") BY <1>5 DEF WriteRecord
  <2> QED BY <1>3, <2>1
<1>6. CASE Radio \/ AddProfile
  <2>1. /\ me.stage = "activate" /\ NatOf(me.iface) = {}
        /\ Goto("add", me.stage) \/ Goto("up", me.stage)
    BY <1>6 DEF Radio, AddProfile, Control, Staged, Firm, SetUp
  <2>2. Goto("add", "activate") \/ Goto("up", "activate") BY <2>1
  <2> QED BY <1>3, <2>1, <2>2
<1>7. CASE Up
  <2>1. UNCHANGED past /\ pc = "up" BY <1>7 DEF Up
  <2>2. CASE me.up = None /\ Finish("ok") BY <1>2, <2>2, FinishFirm
  <2>3. CASE me.up # None /\ Goto("validate", "nat")
    <3>1. me.up \in Uplink BY <2>3, StageTypes
    <3> QED BY <1>3, <2>3, <3>1
  <2>4. CASE Raise BY <1>0, <2>1, <2>4, RaiseFirm
  <2> QED BY <1>7, <2>2, <2>3, <2>4 DEF Up
<1> QED BY <1>4, <1>5, <1>6, <1>7

LEMMA RestoreFirm ==
  ASSUME TypeOK, Control, Firm,
         ReadRecord \/ AskOthers \/ SwitchOff \/ Forget \/ RemoveTable
  PROVE  Firm'
<1>0. /\ pc \in Ending /\ UNCHANGED rules
      /\ past'.dirty = past.dirty /\ past'.killed = past.killed
  BY DEF ReadRecord, AskOthers, SwitchOff, Forget, RemoveTable, Ending, world, TypeOK,
     Histories
<1>1. ~Sweeping /\ pc # "nat" /\ me.stage \in {"rollback", "stop"}
  BY <1>0 DEF Ending, Sweeping, Control, Staged
<1>2. ~past'.dirty => Accepting' /\ (~past'.killed => \A ap \in Ap : Whole(ap)')
  BY <1>0, <1>1, WholeKept
<1>3. /\ me.bad => past'.dirty
      /\ me.cmd = "isolate" => me.up = None
      /\ nm.active = {} /\ nm.profiles = {}
      /\ \A r \in rules : ~Owned(r, me.iface)
  BY <1>0 DEF Firm, SweptSoFar, Directed, TakenDown
<1>4. ASSUME NEW to \in Ending, Goto(to, me.stage), UNCHANGED nm
      PROVE  Firm'
  <2>1. /\ pc' = to /\ me'.stage = me.stage /\ me'.cmd = me.cmd
        /\ me'.iface = me.iface /\ me'.up = me.up /\ me'.bad = me.bad
    BY <1>4, GotoFacts, LocalsKept
  <2>2. SetUp' BY <1>4, <2>1 DEF SetUp, Sweeping, Ending
  <2>3. TakenDown' BY <1>0, <1>3, <1>4, <2>1 DEF TakenDown, Owned
  <2> QED BY <1>1, <1>2, <1>3, <1>4, <2>1, <2>2, <2>3, PassFirm DEF Ending
<1>5. CASE ReadRecord
  <2>1. CASE Raise
    <3>1. UNCHANGED <<rules, past>> BY <1>5 DEF ReadRecord, world
    <3> QED BY <1>1, <2>1, <3>1, RaiseFirm
  <2>2. ASSUME NEW to \in {"table", "others", "forget"}, Goto(to, me.stage)
        PROVE  Firm'
    BY <1>4, <1>5, <2>2 DEF Ending, ReadRecord, world
  <2>3. CASE Unread
    <3>1. UNCHANGED <<rules, nm, past>> BY <1>5 DEF ReadRecord, world
    <3>2. SetUp' BY <2>3, UnreadFacts DEF SetUp, Sweeping, Ending
    <3>3. TakenDown' BY <1>0, <1>3, <2>3, <3>1, UnreadFacts DEF TakenDown, Owned
    <3>4. pc' \notin {"chain", "remove"} BY <2>3, UnreadFacts
    <3>5. me'.stage # "nat" /\ (me'.cmd = "isolate" => me'.up = None)
      BY <1>1, <1>3, <2>3, UnreadFacts
    <3>6. me'.bad => past'.dirty BY <1>3, <2>3, UnreadFacts
    <3>7. ~past'.dirty => Accepting' /\ (~past'.killed => \A ap \in Ap : Whole(ap)')
      BY <1>2, <3>1
    <3> QED BY <3>2, <3>3, <3>4, <3>5, <3>6, <3>7, PassFirm
  <2> QED BY <1>5, <2>1, <2>2, <2>3 DEF ReadRecord
<1>6. CASE AskOthers
  <2>1. ASSUME NEW to \in {"sysctl", "forget"}, Goto(to, me.stage) PROVE Firm'
    BY <1>4, <1>6, <2>1 DEF Ending, AskOthers, world
  <2> QED BY <1>6, <2>1 DEF AskOthers
<1>7. CASE SwitchOff \/ Forget
  <2>1. ASSUME NEW to \in {"forget", "table"}, Goto(to, me.stage) PROVE Firm'
    BY <1>4, <1>7, <2>1 DEF Ending, SwitchOff, Forget
  <2>2. CASE SwitchOff /\ Raise
    <3>1. UNCHANGED <<rules, past>> BY <2>2 DEF SwitchOff
    <3> QED BY <1>1, <2>2, <3>1, RaiseFirm
  <2> QED BY <1>7, <2>1, <2>2 DEF SwitchOff, Forget
<1>8. CASE RemoveTable
  <2>1. PICK status : Finish(status) BY <1>8 DEF RemoveTable
  <2> QED BY <1>2, <2>1, FinishFirm
<1> QED BY <1>5, <1>6, <1>7, <1>8

(* The environment changes no rule; a kill leaves them as they are.        *)
LEMMA SameFirm ==
  ASSUME Firm, UNCHANGED <<pc, me, rules>>, nm'.profiles = nm.profiles,
         nm'.active = nm.active \/ nm'.active = {},
         past'.dirty = past.dirty, past'.killed = past.killed
  PROVE  Firm'
<1>1. /\ \A r : Sweepable(r)' <=> Sweepable(r)
      /\ Listed' = Listed /\ Target' = Target /\ (Sweeping' <=> Sweeping)
  BY DEF Sweepable, Listed, Target, KeepDrops, Owned, Sweeping
<1>2. SweptSoFar' BY <1>1 DEF Firm, SweptSoFar
<1>3. Directed' BY DEF Firm, Directed
<1>4. SetUp' BY <1>1 DEF Firm, SetUp, NatOf, GuardsOf, Of
<1>5. Wholeness' BY <1>1, RulesSame DEF Firm, Wholeness, Excused
<1>6. TakenDown' BY <1>1 DEF Firm, TakenDown, Owned
<1> QED BY <1>2, <1>3, <1>4, <1>5, <1>6 DEF Firm

LEMMA EnvironmentFirm ==
  ASSUME TypeOK, Firm, Environment
  PROVE  Firm'
<1>1. CASE Kill
  <2>1. /\ Finish("killed") /\ UNCHANGED rules
        /\ past'.killed /\ past'.dirty = past.dirty
    BY <1>1 DEF Kill, world, TypeOK, Histories
  <2> QED BY <2>1, RulesSame, FinishFirm DEF Firm, Wholeness
<1>2. CASE ApLost \/ OtherConnection \/ AdminForwarding \/ RouteChanges
  <2>1. /\ UNCHANGED <<pc, me, rules>> /\ past' = [past EXCEPT !.raced = Racing]
        /\ nm' = nm \/ (nm'.active = {} /\ nm'.profiles = nm.profiles)
    BY <1>2 DEF ApLost, OtherConnection, AdminForwarding, RouteChanges, Moved, TypeOK,
       Managers
  <2>2. past'.dirty = past.dirty /\ past'.killed = past.killed
    BY <2>1 DEF TypeOK, Histories
  <2> QED BY <2>1, <2>2, SameFirm
<1> QED BY <1>1, <1>2 DEF Environment

LEMMA FirmInit == Init => Firm
<1> SUFFICES ASSUME Init PROVE Firm OBVIOUS
<1>1. pc = "idle" /\ me = Idle /\ rules = {} BY DEF Init
<1>2. ~me.bad /\ me.stage = "none" /\ me.cmd = "none" BY <1>1 DEF Idle
<1>3. SweptSoFar BY <1>1, <1>2 DEF SweptSoFar, Sweeping
<1>4. Directed BY <1>2 DEF Directed
<1>5. SetUp BY <1>1 DEF SetUp, Sweeping
<1>6. Wholeness BY <1>1 DEF Wholeness, Accepting, Whole, NatOf
<1>7. TakenDown BY <1>1 DEF TakenDown, Sweeping, Ending
<1> QED BY <1>3, <1>4, <1>5, <1>6, <1>7 DEF Firm

LEMMA FirmNext ==
  ASSUME TypeOK, Control, Firm, Next
  PROVE  Firm'
<1>1. CASE Commands BY <1>1, CommandsFirm
<1>2. CASE Environment BY <1>2, EnvironmentFirm
<1>3. CASE \/ CommandFails \/ Validate \/ OldDevice \/ Query \/ Down \/ ListProfiles
           \/ DeleteProfile \/ Link \/ CheckForwarding \/ Address
  BY <1>3, LookingFirm
<1>4. CASE SetGuard \/ ListChain \/ RemoveRule \/ NextChain \/ Swept \/ SetIngest \/ SetNat
  BY <1>4, SetGuardFirm, ListChainFirm, RemoveRuleFirm, NextChainFirm, SweptFirm,
     SetIngestFirm, SetNatFirm
<1>5. CASE Remember \/ WriteRecord \/ Radio \/ AddProfile \/ Up BY <1>5, StartFirm
<1>6. CASE ReadRecord \/ AskOthers \/ SwitchOff \/ Forget \/ RemoveTable
  BY <1>6, RestoreFirm
<1> QED BY <1>1, <1>2, <1>3, <1>4, <1>5, <1>6 DEF Next, Runs

LEMMA FirmAlways == Spec => [](TypeOK /\ Control /\ Firm)
<1>1. TypeOK /\ Control /\ Firm /\ [Next]_vars => Firm'
  <2> SUFFICES ASSUME TypeOK, Control, Firm, [Next]_vars PROVE Firm' OBVIOUS
  <2>1. CASE UNCHANGED vars
    <3>1. UNCHANGED <<pc, me, rules, nm, past>> BY <2>1 DEF vars, world
    <3> QED BY <3>1, SameFirm
  <2> QED BY <2>1, FirmNext
<1>2. IInv => TypeOK /\ Control BY DEF IInv
<1> QED BY <1>1, <1>2, FirmInit, InvInit, InvNext, PTL DEF Spec

----------------------------------------------------------------------------
(* What the commands leave behind when they return *)

(* `route reset` alone sweeps in the stage of that name.                   *)
Resetting == me.stage = "reset" => me.cmd = "reset"

LEMMA ResettingNext ==
  ASSUME TypeOK, Resetting, Next
  PROVE  Resetting'
<1>1. CASE me'.stage = me.stage /\ me'.cmd = me.cmd BY <1>1 DEF Resetting
<1>2. CASE me'.stage # "reset" BY <1>2 DEF Resetting
<1>3. ASSUME NEW to, NEW stage \in {me.stage, "clear", "isolate", "activate", "nat"},
             Goto(to, stage)
      PROVE  Resetting'
  BY <1>1, <1>2, <1>3, GotoFacts
<1>4. ASSUME NEW status, Finish(status) PROVE Resetting'
  BY <1>2, <1>4, IdleFacts DEF Finish
<1>5. ASSUME Raise PROVE Resetting'
  <2>1. CASE Sweep("undo nat")
    <3>1. me'.stage = "undo nat" BY <2>1, SweepFacts
    <3> QED BY <1>2, <3>1
  <2>2. CASE Goto("query", "rollback") BY <1>2, <2>2, GotoFacts
  <2> QED BY <1>4, <1>5, <2>1, <2>2 DEF Raise
<1>6. ASSUME Sweep(me.stage) PROVE Resetting' BY <1>1, <1>6, SweepFacts
<1>7. ASSUME Stopped PROVE Resetting' BY <1>3, <1>6, <1>7 DEF Stopped
<1>8. ASSUME Again PROVE Resetting' BY <1>1, <1>8, AgainFacts
<1>9. CASE Commands
  <2>1. ASSUME NEW cmd, NEW iface, NEW up, NEW stage, NEW first,
               Command(cmd, iface, up, stage, first), stage = "reset" => cmd = "reset"
        PROVE  Resetting'
    BY <2>1, CommandFacts DEF Resetting
  <2> QED BY <1>9, <2>1 DEF Commands, HotspotStart, HotspotStop, RouteEnable,
             RouteIsolate, RouteReset
<1>10. CASE OldDevice \/ Query \/ Down \/ ListChain \/ RemoveRule \/ NextChain
  <2>1. Raise \/ (me'.stage = me.stage /\ me'.cmd = me.cmd)
    BY <1>10 DEF OldDevice, Query, Down, ListChain, RemoveRule, NextChain, TypeOK, Locals
  <2> QED BY <1>1, <1>5, <2>1
<1>11. CASE \/ CommandFails \/ Validate \/ ListProfiles \/ DeleteProfile \/ Link
            \/ CheckForwarding \/ Address \/ Radio \/ AddProfile \/ WriteRecord
  BY <1>11, <1>3, <1>5, <1>7
  DEF CommandFails, Validate, ListProfiles, DeleteProfile, Link, CheckForwarding,
      Address, Radio, AddProfile, WriteRecord
<1>12. CASE Remember
  <2>1. CASE Recording BY <1>1, <2>1 DEF Recording, TypeOK, Locals
  <2> QED BY <1>3, <1>12, <2>1 DEF Remember
<1>13. CASE SetGuard \/ Swept \/ SetIngest \/ Up \/ SetNat
  <2>1. CASE SetGuard \/ SetNat BY <1>4, <1>6, <1>8, <2>1 DEF SetGuard, SetNat
  <2>2. CASE Swept BY <1>3, <1>4, <1>5, <2>2 DEF Swept
  <2>3. CASE SetIngest \/ Up BY <1>3, <1>4, <1>5, <1>8, <2>3 DEF SetIngest, Up
  <2> QED BY <1>13, <2>1, <2>2, <2>3
<1>14. CASE ReadRecord \/ AskOthers \/ SwitchOff \/ Forget \/ RemoveTable
  <2>1. CASE Unread BY <1>1, <2>1, UnreadFacts
  <2> QED BY <1>14, <1>3, <1>4, <1>5, <2>1
         DEF ReadRecord, AskOthers, SwitchOff, Forget, RemoveTable
<1>15. CASE Environment
  <2>1. CASE Kill BY <1>4, <2>1 DEF Kill
  <2>2. CASE ApLost \/ OtherConnection \/ AdminForwarding \/ RouteChanges
    BY <1>1, <2>2 DEF ApLost, OtherConnection, AdminForwarding, RouteChanges, Moved
  <2> QED BY <1>15, <2>1, <2>2 DEF Environment
<1> QED BY <1>9, <1>10, <1>11, <1>12, <1>13, <1>14, <1>15 DEF Next, Runs

LEMMA ResettingAlways == Spec => []Resetting
<1>1. Init => Resetting BY IdleFacts DEF Init, Resetting
<1>2. TypeOK /\ Resetting /\ [Next]_vars => Resetting'
  BY ResettingNext DEF vars, Resetting
<1> QED BY <1>1, <1>2, TypeCorrect, PTL DEF Spec

(* Where a command can return, and what.                                   *)
LEMMA Returning ==
  ASSUME Next, pc # "idle", pc' = "idle", report'.status # "killed"
  PROVE  \/ RemoveTable
         \/ pc # "table" /\ Raise
         \/ (Swept /\ me.stage = "reset" /\ Finish("ok"))
         \/ (SetIngest /\ me.stage = "isolate" /\ me.cmd = "isolate" /\ Finish("ok"))
         \/ (Up /\ me.up = None /\ Finish("ok"))
         \/ (SetNat /\ ~(me.k < Len(NatRules)) /\ Finish("ok"))
<1>1. CASE Commands
  BY <1>1 DEF Commands, HotspotStart, HotspotStop, RouteEnable, RouteIsolate, RouteReset,
     Command
<1>2. CASE Environment
  BY <1>2 DEF Environment, Kill, Finish, ApLost, OtherConnection, AdminForwarding,
     RouteChanges, Moved
<1>3. CASE CommandFails \/ Validate \/ CheckForwarding
  BY <1>3 DEF CommandFails, Validate, CheckForwarding, Goto
<1>4. CASE OldDevice BY <1>4 DEF OldDevice
<1>5. CASE \/ Query \/ Down \/ ListProfiles \/ DeleteProfile \/ Remember \/ WriteRecord
           \/ Link \/ SetGuard \/ ListChain \/ RemoveRule \/ NextChain \/ Radio
           \/ AddProfile \/ Address \/ AskOthers \/ Forget
  BY <1>5 DEF Query, Down, ListProfiles, DeleteProfile, Remember, Recording, WriteRecord,
     Link, SetGuard, ListChain, RemoveRule, NextChain, Radio, AddProfile, Address,
     AskOthers, Forget, Goto, Sweep, Again, Stopped, Step
<1>6. CASE Swept \/ SetIngest \/ Up \/ SetNat
  BY <1>6 DEF Swept, SetIngest, Up, SetNat, Goto, Again
<1>7. CASE ReadRecord \/ SwitchOff BY <1>7 DEF ReadRecord, Unread, SwitchOff, Goto
<1> QED BY <1>1, <1>2, <1>3, <1>4, <1>5, <1>6, <1>7 DEF Next, Runs

(* The route status of an isolated AP and of one with NAT.                 *)
LEMMA IsolatedMode ==
  ASSUME GuardsOf(report'.iface) \subseteq rules',
         \A r \in rules' : ~(r.kind = "accept" /\ r.ap = report'.iface)
  PROVE  (Mode(report.iface))' = {"isolated"}
<1>1. \A kind \in {"in", "out", "in6", "out6"} : Of(kind, report'.iface, None) \in rules'
  BY DEF GuardsOf, GuardKinds
<1>2. {r \in rules' : r.kind = "accept" /\ r.ap = report'.iface} = {} OBVIOUS
<1> QED BY <1>1, <1>2 DEF Mode

LEMMA UplinkMode ==
  ASSUME GuardsOf(report'.iface) \subseteq rules', NEW up,
         {r \in rules' : r.ap = report'.iface /\ r.kind \in NatKinds}
           = AllOf(report'.iface, up)
  PROVE  (Mode(report.iface))' = {up}
<1>1. \A kind \in {"in", "out", "in6", "out6"} : Of(kind, report'.iface, None) \in rules'
  BY DEF GuardsOf, GuardKinds
<1>2. \A kind \in NatKinds : Of(kind, report'.iface, up) \in rules' BY DEF AllOf
<1>3. {r \in rules' : r.kind = "accept" /\ r.ap = report'.iface}
        = {Of("accept", report'.iface, up)}
  <2>1. \A r \in rules' : r.kind = "accept" /\ r.ap = report'.iface =>
          r \in AllOf(report'.iface, up)
    BY ChainFacts
  <2>2. \A r \in AllOf(report'.iface, up) : r.kind = "accept" =>
          r = Of("accept", report'.iface, up)
    BY DEF AllOf, Of
  <2>3. Of("accept", report'.iface, up).kind = "accept"
        /\ Of("accept", report'.iface, up).ap = report'.iface
    BY DEF Of
  <2> QED BY <1>2, <2>1, <2>2, <2>3, ChainFacts
<1>4. /\ Of("masquerade", report'.iface, up) \in rules'
      /\ Of("return", report'.iface, up) \in rules'
      /\ Of("accept", report'.iface, up).up = up
  BY <1>2 DEF NatKinds, Of
<1>5. {r \in rules' : r.kind = "accept" /\ r.ap = report'.iface} # {} BY <1>3
<1>6. (Mode(report.iface))'
        = {IF Of("masquerade", report'.iface, r.up) \in rules'
              /\ Of("return", report'.iface, r.up) \in rules'
           THEN r.up ELSE "none" :
             r \in {r \in rules' : r.kind = "accept" /\ r.ap = report'.iface}}
  BY <1>1, <1>5 DEF Mode
<1> QED BY <1>3, <1>4, <1>6

(* NAT is complete or absent, and nothing accepted without masquerading,   *)
(* in whatever order commands fail and are killed (routing.rs              *)
(* enable_nat_routing, remove_owned).                                      *)
THEOREM WholeOrNone == Spec => []NatIsWhole
<1>1. TypeOK /\ Control /\ Firm => NatIsWhole
  <2> SUFFICES ASSUME TypeOK, Firm, ~past.dirty PROVE NatIsWhole BY DEF NatIsWhole
  <2>1. Accepting BY DEF Firm, Wholeness
  <2>2. ASSUME pc = "idle", ~past.killed, NEW ap \in Ap PROVE Whole(ap)
    BY <2>2, WholeNow DEF Sweeping
  <2> QED BY <2>1, <2>2 DEF NatIsWhole, Accepting, Whole, NatOf, AllOf
<1> QED BY <1>1, FirmAlways, PTL

(* A stop that reports success, and a start rolled back to the end, leave  *)
(* nothing (main.rs stop_hotspot, start_hotspot_with_routing).             *)
THEOREM EndsClean == Spec => CleanEnd
<1>1. TypeOK /\ Control /\ Firm /\ Recorded /\ Resetting /\ [Next]_vars =>
      [ Returns("stop", "ok") \/ (Returns("start", "error") /\ pc = "table") =>
          /\ nm'.active = {} /\ nm'.profiles = {}
          /\ \A r \in rules' : ~Owned(r, report'.iface)
          /\ record' = "none" ]_vars
  <2> SUFFICES ASSUME TypeOK, Control, Firm, Recorded, Resetting, Next,
                      Returns("stop", "ok") \/ (Returns("start", "error") /\ pc = "table")
               PROVE  /\ nm'.active = {} /\ nm'.profiles = {}
                      /\ \A r \in rules' : ~Owned(r, report'.iface)
                      /\ record' = "none"
    OBVIOUS
  <2>1. /\ pc # "idle" /\ pc' = "idle" /\ report'.status # "killed"
        /\ \/ report'.cmd = "stop" /\ report'.status = "ok"
           \/ pc = "table"
    BY DEF Returns
  <2>2. ASSUME NEW status, Finish(status)
        PROVE  report'.cmd = me.cmd /\ report'.iface = me.iface /\ report'.status = status
    BY <2>2 DEF Finish
  <2>3. CASE RemoveTable
    <3>1. /\ pc = "table" /\ rules' = rules /\ record' = record
          /\ nm'.active = nm.active /\ nm'.profiles = nm.profiles
          /\ \E status : Finish(status)
      BY <2>3 DEF RemoveTable, TypeOK, Managers
    <3>2. report'.iface = me.iface BY <2>2, <3>1
    <3>3. /\ nm.active = {} /\ nm.profiles = {} /\ record = "none"
          /\ \A r \in rules : ~Owned(r, me.iface)
      BY <3>1 DEF Firm, TakenDown, Ending, Recorded
    <3> QED BY <3>1, <3>2, <3>3
  <2>4. ASSUME ~RemoveTable PROVE FALSE
    <3>1. ASSUME Finish("ok") PROVE me.cmd = "stop"
      <4>1. report'.status = "ok" /\ report'.cmd = me.cmd BY <2>2, <3>1
      <4> QED BY <4>1 DEF Returns
    <3>2. CASE pc # "table" /\ Raise
      <4>1. report'.status = "ok" BY <2>1, <3>2
      <4>2. Finish("error") BY <2>1, <3>2 DEF Raise, Sweep, Goto
      <4> QED BY <2>2, <4>1, <4>2
    <3>3. CASE Swept /\ me.stage = "reset" /\ Finish("ok")
      BY <3>1, <3>3 DEF Resetting
    <3>4. CASE SetIngest /\ me.stage = "isolate" /\ me.cmd = "isolate" /\ Finish("ok")
      BY <3>1, <3>4
    <3>5. CASE Up /\ Finish("ok") BY <3>1, <3>5 DEF Up, Control, Staged
    <3>6. CASE SetNat /\ Finish("ok") BY <3>1, <3>6 DEF SetNat, Control, Staged
    <3> QED BY <2>1, <2>4, <3>2, <3>3, <3>4, <3>5, <3>6, Returning
  <2> QED BY <2>3, <2>4
<1> QED BY <1>1, FirmAlways, RecordedAlways, ResettingAlways, PTL DEF Spec, CleanEnd

(* A success is what `route status` reads back (main.rs hotspot start,     *)
(* route enable, route isolate; routing.rs configured_mode).               *)
THEOREM StatusIsTrue == Spec => StatusAgrees
<1>1. TypeOK /\ Control /\ Firm /\ Resetting /\ [Next]_vars =>
      [ \A cmd \in {"start", "enable", "isolate"} : Returns(cmd, "ok") =>
          (Mode(report.iface) = {IF report.up = None THEN "isolated" ELSE report.up})'
      ]_vars
  <2> SUFFICES ASSUME TypeOK, Control, Firm, Resetting, Next,
                      NEW cmd \in {"start", "enable", "isolate"}, Returns(cmd, "ok")
               PROVE  (Mode(report.iface))'
                        = {IF report'.up = None THEN "isolated" ELSE report'.up}
    OBVIOUS
  <2>1. /\ pc # "idle" /\ pc' = "idle" /\ report'.status = "ok"
        /\ report'.cmd \in {"start", "enable", "isolate"}
    BY DEF Returns
  <2>2. ASSUME NEW status, Finish(status)
        PROVE  /\ report'.cmd = me.cmd /\ report'.iface = me.iface
               /\ report'.up = me.up /\ report'.status = status
    BY <2>2 DEF Finish
  <2>3. CASE RemoveTable
    <3>1. PICK status \in {"ok", "error"} :
            Finish(status) /\ (me.cmd = "stop" \/ status = "error")
      BY <2>3 DEF RemoveTable
    <3> QED BY <2>1, <2>2, <3>1
  <2>4. CASE Raise
    <3>1. Finish("error") BY <2>1, <2>4 DEF Raise, Sweep, Goto
    <3> QED BY <2>1, <2>2, <3>1
  <2>5. CASE Swept /\ me.stage = "reset" /\ Finish("ok")
    BY <2>1, <2>2, <2>5 DEF Resetting
  <2>6. ASSUME Finish("ok"), me.up = None, NatOf(me.iface) = {},
               GuardsOf(me.iface) \subseteq rules, NEW kind, kind \notin NatKinds,
               rules' = rules \/ rules' = rules \cup {Of(kind, me.iface, None)}
        PROVE  (Mode(report.iface))'
                 = {IF report'.up = None THEN "isolated" ELSE report'.up}
    <3>1. report'.iface = me.iface /\ report'.up = None BY <2>2, <2>6
    <3>2. \A r \in rules' : ~(r.kind = "accept" /\ r.ap = me.iface)
      BY <2>6, ChainFacts DEF NatOf, Of
    <3>3. GuardsOf(report'.iface) \subseteq rules' BY <2>6, <3>1 DEF GuardsOf, Of
    <3>4. (Mode(report.iface))' = {"isolated"} BY <3>1, <3>2, <3>3, IsolatedMode
    <3> QED BY <3>1, <3>4
  <2>7. CASE SetIngest /\ me.cmd = "isolate" /\ Finish("ok")
    <3>1. /\ pc = "ingest" /\ rules' = rules \cup {Of(Ingest[me.k], me.iface, None)}
          /\ me.k \in 1..3 /\ me.stage \in {"isolate", "nat"}
      BY <2>7, StageTypes, Counting DEF SetIngest, Insert, Control, Counted, Staged
    <3>2. Ingest[me.k] \notin NatKinds BY <3>1, GuardKind
    <3>3. me.up = None /\ NatOf(me.iface) = {} /\ GuardsOf(me.iface) \subseteq rules
      BY <2>7, <3>1 DEF Firm, Directed, SetUp
    <3> QED BY <2>6, <2>7, <3>1, <3>2, <3>3
  <2>8. CASE Up /\ me.up = None /\ Finish("ok")
    <3>1. pc = "up" /\ rules' = rules BY <2>8 DEF Up
    <3>2. NatOf(me.iface) = {} /\ GuardsOf(me.iface) \subseteq rules
      BY <3>1 DEF Firm, SetUp, Control, Armed
    <3>3. "in" \notin NatKinds BY DEF NatKinds
    <3> QED BY <2>6, <2>8, <3>1, <3>2, <3>3
  <2>9. CASE SetNat /\ ~(me.k < Len(NatRules)) /\ Finish("ok")
    <3>1. /\ report'.iface = me.iface /\ report'.up = me.up /\ me.up \in Uplink
          /\ GuardsOf(me.iface) \subseteq rules'
          /\ {r \in rules' : r.ap = me.iface /\ r.kind \in NatKinds}
               = AllOf(me.iface, me.up)
      BY <2>2, <2>9, NatComplete
    <3>2. GuardsOf(report'.iface) \subseteq rules' BY <3>1 DEF GuardsOf, Of
    <3>3. (Mode(report.iface))' = {me.up} BY <3>1, <3>2, UplinkMode DEF AllOf
    <3>4. me.up # None BY <3>1, ConstantsAssumption
    <3> QED BY <3>1, <3>3, <3>4
  <2> QED BY <2>1, <2>3, <2>4, <2>5, <2>7, <2>8, <2>9, Returning
<1> QED BY <1>1, FirmAlways, ResettingAlways, PTL DEF Spec, StatusAgrees
=============================================================================
