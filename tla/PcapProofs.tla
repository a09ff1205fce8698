----------------------------- MODULE PcapProofs -----------------------------
(***************************************************************************)
(* `dfnet pcap` for any number and size of files, any grace period, any    *)
(* interface to start with and any signals and failures.  The invariant    *)
(* follows the settings: those still to come are as they were, those gone  *)
(* by are quiet while dumpcap may run, and what was changed is in `undo`   *)
(* with its old value until it is restored or its undo fails.  And it      *)
(* follows the files: what dumpcap has named it does not write any more.   *)
(***************************************************************************)
EXTENDS Pcap, SequenceTheorems, WellFoundedInduction, TLAPS

(* dumpcap runs only where it is looked after, with the handlers in place. *)
Attended ==
  /\ dumpcap.state = "running" =>
       /\ handled
       /\ \/ me.pc \in {"start", "receive", "exited", "grace", "look", "stop child"}
          \/ "reap" \in failed /\ me.aborts /\ me.pc \in {"restore", "ended"}
  /\ me.pc \in {"spawn", "start", "receive", "exited", "grace", "look", "drain", "rest",
                "stop child"} => handled
  /\ me.pc \in {"start", "receive", "exited", "grace", "look", "drain", "rest", "record",
                "stop child"} => dumpcap.state # "none"
  /\ me.pc \in {"check", "apply", "spawn"} => dumpcap.state = "none"
  /\ dumpcap.state = "none" => items = {} /\ named = <<>>
  /\ dumpcap.file > 0 => MaxSize > 0

(* A setting of a capture as it is meant to be, as far as it can be read.  *)
QuietAs(s) ==
  /\ s \in {"gro", "lro"} /\ ~opt.keep /\ "features" \notin failed => ~iface[s]
  /\ s = "ipv6" /\ opt.silent => ~iface[s]
  /\ s = "arp" /\ opt.silent /\ "flags" \notin failed => ~iface[s]

(* What the checks have found out.                                         *)
Known ==
  /\ me.pc = "apply" => me.features \/ "features" \in failed
  /\ me.pc \notin {"check", "restore", "ended", "interrupted"} /\ opt.silent /\ opt.ipv4 =>
       "addresses" \in failed

Prepared ==
  /\ me.pc \in {"check", "apply"} =>
       \A n \in 1..Len(Order) : n >= me.next => iface[Order[n]] = opt.iface[Order[n]]
  /\ me.pc = "apply" => \A n \in 1..Len(Order) : n < me.next => QuietAs(Order[n])
  /\ me.pc \notin {"check", "apply", "restore", "ended", "interrupted"} =>
       \A s \in Setting : QuietAs(s)
  /\ me.pc = "check" => me.next = 1 /\ me.undo = <<>>
  /\ Known

(* An undo gives a setting back as it was, or as IPv6 was guessed to be; a *)
(* link is left down that was down or had no carrier.                      *)
Guessed(s) == s = "ipv6" /\ "value" \in failed

GivesBack(u) ==
  IF u.setting = "up" THEN ~u.on /\ ~(opt.iface["up"] /\ opt.carrier)
  ELSE u.on = opt.iface[u.setting] \/ Guessed(u.setting)

AsItWas(s) == \/ iface[s] = opt.iface[s] \/ Guessed(s)
              \/ s = "up" /\ opt.iface[s] /\ ~opt.carrier

Undoable ==
  /\ \A i \in DOMAIN me.undo : GivesBack(me.undo[i])
  /\ \A s \in Setting \ stuck :
       AsItWas(s) \/ \E i \in DOMAIN me.undo : me.undo[i].setting = s
  /\ Ended => me.undo = <<>>

(* An error that is returned without aborting was noted as it happened, or *)
(* came before there was a collection.                                     *)
Reported ==
  /\ me.pc = "check" => done = "none"
  /\ me.pc \in {"check", "apply"} => ~me.aborts
  /\ me.error /\ ~me.aborts =>
       failed \cap {"record", "finish"} # {} \/ (Ended /\ done = "none")
  /\ Ended /\ failed \cap {"record", "finish"} = {} => done # "open"

Closed(f) == dumpcap.state = "running" => f < dumpcap.file

Settled ==
  /\ \A k \in DOMAIN named : Closed(named[k])
  /\ \A i \in items : i.size > 0 => size[i.file] = i.size /\ Closed(i.file)

(* After the directory has been gone through there is no other file.       *)
Complete ==
  /\ me.pc = "record" \/ (me.pc = "restore" /\ ~me.aborts) \/ done = "done" =>
       \A f \in Files : size[f] > 0 => f \in Listed
  /\ done = "done" => Ended /\ ~me.aborts /\ (dumpcap.stats /\ dumpcap.lost => me.code # 0)

IInv == TypeOK /\ Attended /\ Prepared /\ Undoable /\ Reported /\ Settled /\ Complete

----------------------------------------------------------------------------
(* Types *)

LEMMA Bounds ==
  /\ MaxFiles \in Nat /\ MaxSize \in Nat /\ GraceTurns \in Nat
  /\ MaxSignals \in Nat /\ MaxFaults \in Nat
BY ConstantsAssumption

LEMMA Options ==
  ASSUME opt \in Start
  PROVE  /\ opt.keep \in BOOLEAN /\ opt.silent \in BOOLEAN /\ opt.carrier \in BOOLEAN
         /\ opt.iface \in Interface /\ opt.ipv4 \in BOOLEAN
BY ConstantsAssumption

(* The five settings, each once.                                           *)
LEMMA Settings ==
  /\ Len(Order) = 5
  /\ \A n \in 1..5 : Order[n] \in Setting
  /\ \A m, n \in 1..5 : Order[m] = Order[n] => m = n
  /\ \A s \in Setting : \E n \in 1..5 : Order[n] = s
<1>1. /\ Len(Order) = 5 /\ Order[1] = "gro" /\ Order[2] = "lro" /\ Order[3] = "ipv6"
      /\ Order[4] = "arp" /\ Order[5] = "up"
  BY DEF Order
<1>2. \A n \in 1..5 : n = 1 \/ n = 2 \/ n = 3 \/ n = 4 \/ n = 5 OBVIOUS
<1>3. 1 \in 1..5 /\ 2 \in 1..5 /\ 3 \in 1..5 /\ 4 \in 1..5 /\ 5 \in 1..5 OBVIOUS
<1>4. \A n \in 1..5 : Order[n] \in Setting BY <1>1, <1>2 DEF Setting
<1>5. \A m, n \in 1..5 : Order[m] = Order[n] => m = n BY <1>1, <1>2
<1>6. \A s \in Setting : \E n \in 1..5 : Order[n] = s BY <1>1, <1>3 DEF Setting
<1> QED BY <1>1, <1>4, <1>5, <1>6

LEMMA Front ==
  ASSUME NEW S, NEW q \in Seq(S), NEW u \in S
  PROVE  /\ <<u>> \o q \in Seq(S)
         /\ DOMAIN (<<u>> \o q) = 1..(Len(q) + 1)
         /\ (<<u>> \o q)[1] = u
         /\ \A i \in DOMAIN q : i + 1 \in DOMAIN (<<u>> \o q) /\ (<<u>> \o q)[i + 1] = q[i]
         /\ \A i \in DOMAIN (<<u>> \o q) :
              i = 1 \/ (i - 1 \in DOMAIN q /\ (<<u>> \o q)[i] = q[i - 1])
OBVIOUS

LEMMA Rear ==
  ASSUME NEW S, NEW q \in Seq(S), q # <<>>
  PROVE  /\ Head(q) \in S /\ Tail(q) \in Seq(S) /\ 1 \in DOMAIN q /\ Head(q) = q[1]
         /\ \A i \in DOMAIN Tail(q) : i + 1 \in DOMAIN q /\ Tail(q)[i] = q[i + 1]
         /\ \A i \in DOMAIN q : i = 1 \/ (i - 1 \in DOMAIN Tail(q) /\ Tail(q)[i - 1] = q[i])
OBVIOUS

LEMMA Longer ==
  ASSUME NEW S, NEW q \in Seq(S), NEW e \in S
  PROVE  /\ Append(q, e) \in Seq(S)
         /\ \A i \in DOMAIN Append(q, e) :
              (i \in DOMAIN q /\ Append(q, e)[i] = q[i]) \/ Append(q, e)[i] = e
OBVIOUS

(* The label, and the fields that an action of `run` sets.                 *)
LEMMA UndoType ==
  ASSUME iface \in Interface, NEW s \in Setting
  PROVE  Undo(s) \in Undos /\ Undo(s).setting = s
<1>1. iface[s] \in BOOLEAN BY DEF Interface
<1>2. (IF s = "ipv6" THEN iface[s] ELSE s # "up") \in BOOLEAN BY <1>1
<1> QED BY <1>2 DEF Undo, Undos

LEMMA GuessType ==
  ASSUME NEW g \in Guesses
  PROVE  g \in Undos /\ g.setting = "ipv6" /\ g.on = TRUE
<1>1. PICK b \in BOOLEAN : g = [setting |-> "ipv6", on |-> TRUE, blank |-> b]
  BY DEF Guesses
<1>2. "ipv6" \in Setting BY DEF Setting
<1> QED BY <1>1, <1>2 DEF Undos

LEMMA CodeType == Code \in {0, 4, 6, 7}
BY DEF Code

LEMMA AddType ==
  ASSUME TypeOK, NEW f \in Files, NEW to, Add(f, to)
  PROVE  items' \subseteq Item /\ failed' \subseteq Kinds
<1>1. size[f] \in 0..MaxSize /\ 0 \in 0..MaxSize BY Bounds DEF TypeOK
<1>2. \A n \in 0..MaxSize : [file |-> f, size |-> n] \in Item BY DEF Item
<1>3. [file |-> f, size |-> size[f]] \in Item /\ [file |-> f, size |-> 0] \in Item
  BY <1>1, <1>2
<1> HIDE DEF Item
<1> QED BY <1>3 DEF TypeOK, Add, Works, Fault, Faults, Kinds

LEMMA AddGoes ==
  ASSUME NEW f, NEW to, Add(f, to)
  PROVE  Goto(to) \/ Goto("stop child")
BY DEF Add

Pcs == {"check", "apply", "spawn", "start", "receive", "exited", "grace", "look", "drain",
        "rest", "stop child", "record", "restore", "ended", "interrupted"}

LEMMA GotoType ==
  ASSUME me \in Locals, NEW l \in Pcs, Goto(l) \/ Err(l)
  PROVE  me' \in Locals
<1> USE DEF Locals, Pcs
<1>1. CASE Goto(l) BY <1>1 DEF Goto
<1>2. CASE Err(l) BY <1>2 DEF Err
<1> QED BY <1>1, <1>2

LEMMA Sinces ==
  ASSUME me \in Locals, me.since \in 1..GraceTurns
  PROVE  me.since + 1 \in 0..(GraceTurns + 1)
BY Bounds

LEMMA Nexts ==
  ASSUME me \in Locals, me.next <= Len(Order)
  PROVE  me.next + 1 \in 1..(Len(Order) + 1) /\ me.next \in 1..5 /\ Order[me.next] \in Setting
<1>1. me.next \in 1..(Len(Order) + 1) BY DEF Locals
<1>2. Len(Order) = 5 BY Settings
<1>3. me.next \in 1..5 /\ me.next + 1 \in 1..(Len(Order) + 1) BY <1>1, <1>2
<1> QED BY <1>3, Settings

LEMMA MeType ==
  ASSUME TypeOK, [Next]_vars
  PROVE  me' \in Locals
<1>0. me \in Locals BY DEF TypeOK
<1>1. CASE Check
  <2>1. \/ Err("ended")
        \/ \E b \in BOOLEAN : me' = [me EXCEPT !.pc = "apply", !.features = b]
    BY <1>1 DEF Check
  <2>2. CASE \E b \in BOOLEAN : me' = [me EXCEPT !.pc = "apply", !.features = b]
    BY <1>0, <2>2 DEF Locals
  <2> QED BY <1>0, <2>1, <2>2, GotoType DEF Pcs
<1>2. CASE Pass
  <2>1. me.next + 1 \in 1..(Len(Order) + 1) BY <1>2, <1>0, Nexts DEF Pass
  <2> QED BY <1>2, <1>0, <2>1 DEF Pass, Locals
<1>3. CASE Apply
  <2>1. /\ me.next + 1 \in 1..(Len(Order) + 1) /\ Order[me.next] \in Setting
    BY <1>3, <1>0, Nexts DEF Apply
  <2>2. \A v \in {Undo(Order[me.next])} \cup Guesses : v \in Undos
    BY <2>1, UndoType, GuessType DEF TypeOK
  <2>3. me.undo \in Seq(Undos) BY <1>0 DEF Locals
  <2>4. CASE me' = [me EXCEPT !.pc = "restore", !.aborts = TRUE] BY <1>0, <2>4 DEF Locals
  <2>5. ASSUME NEW v \in {Undo(Order[me.next])} \cup Guesses, NEW recorded \in BOOLEAN,
               me' = [me EXCEPT !.next = @ + 1, !.undo = <<v>> \o @, !.aborts = ~recorded,
                                !.pc = IF recorded THEN @ ELSE "restore"]
        PROVE  me' \in Locals
    <3>1. <<v>> \o me.undo \in Seq(Undos) BY <2>2, <2>3, Front
    <3> QED BY <1>0, <2>1, <2>5, <3>1 DEF Locals
  <2> QED BY <1>3, <2>4, <2>5 DEF Apply
<1>4. CASE Handlers
  BY <1>4, <1>0, GotoType DEF Handlers, Pcs
<1>5. CASE Spawn
  BY <1>5, <1>0 DEF Spawn, Goto, Locals
<1>6. CASE RecordStart
  BY <1>6, <1>0, GotoType DEF RecordStart, Pcs
<1>7. CASE Receive
  <2>1. Goto("exited") \/ Goto("stop child") \/ Goto("exited") BY <1>7, AddGoes DEF Receive
  <2> QED BY <1>0, <2>1, GotoType DEF Pcs
<1>8. CASE Exited
  <2>1. \/ Goto("grace") \/ Goto("stop child")
        \/ \E b \in BOOLEAN : me' = [me EXCEPT !.pc = "drain", !.signalled = b]
    BY <1>8, <1>0 DEF Exited, TypeOK, Locals
  <2>2. CASE Goto("grace") \/ Goto("stop child") BY <1>0, <2>2, GotoType DEF Pcs
  <2>3. CASE \E b \in BOOLEAN : me' = [me EXCEPT !.pc = "drain", !.signalled = b]
    BY <1>0, <2>3 DEF Locals
  <2> QED BY <2>1, <2>2, <2>3
<1>9. CASE Grace
  <2>1. \/ Goto("look")
        \/ me.since \in 1..GraceTurns /\ me' = [me EXCEPT !.pc = "look", !.since = @ + 1]
        \/ me' = [me EXCEPT !.pc = "look", !.since = 0]
    BY <1>9 DEF Grace
  <2>2. me.since \in 1..GraceTurns => me.since + 1 \in 0..(GraceTurns + 1)
    BY <1>0, Sinces
  <2>3. 0 \in 0..(GraceTurns + 1) BY Bounds
  <2> QED BY <1>0, <2>1, <2>2, <2>3 DEF Locals, Goto
<1>10. CASE Look
  <2>1. 1 \in 0..(GraceTurns + 1) BY Bounds
  <2> QED BY <1>10, <1>0, <2>1 DEF Look, Goto, Locals
<1>11. CASE Drain
  <2>1. Goto("drain") \/ Goto("stop child") \/ Goto("rest") BY <1>11, AddGoes DEF Drain
  <2> QED BY <1>0, <2>1, GotoType DEF Pcs
<1>12. CASE Rest
  <2>1. Goto("record") \/ Goto("rest") \/ Goto("stop child") BY <1>12, AddGoes DEF Rest
  <2> QED BY <1>0, <2>1, GotoType DEF Pcs
<1>13. CASE StopChild
  BY <1>13, <1>0 DEF StopChild, Locals
<1>14. CASE RecordStop
  BY <1>14, <1>0, GotoType DEF RecordStop, Pcs
<1>15. CASE Restore
  <2>1. /\ me.undo # <<>>
        /\ \E b \in BOOLEAN : me' = [me EXCEPT !.undo = Tail(@), !.error = @ \/ b]
    BY <1>15 DEF Restore
  <2>2. me.undo \in Seq(Undos) BY <1>0 DEF Locals
  <2>3. Tail(me.undo) \in Seq(Undos) BY <2>1, <2>2, Rear
  <2> QED BY <1>0, <2>1, <2>3 DEF Locals
<1>16. CASE Abort
  BY <1>16, <1>0, GotoType DEF Abort, Pcs
<1>17. CASE Unrecorded
  BY <1>17, <1>0, GotoType DEF Unrecorded, Pcs
<1>18. CASE Finish
  <2>1. me' = [me EXCEPT !.pc = "ended", !.code = Code] \/ Err("ended") BY <1>18 DEF Finish
  <2>2. CASE me' = [me EXCEPT !.pc = "ended", !.code = Code]
    BY <1>0, <2>2, CodeType DEF Locals
  <2> QED BY <1>0, <2>1, <2>2, GotoType DEF Pcs
<1>19. CASE Write
  BY <1>19, <1>0 DEF Write
<1>20. CASE Rotate
  BY <1>20, <1>0 DEF Rotate
<1>21. CASE Lose
  BY <1>21, <1>0 DEF Lose
<1>22. CASE End
  BY <1>22, <1>0 DEF End
<1>23. CASE Fill
  BY <1>23, <1>0 DEF Fill
<1>24. CASE Signal
  BY <1>24, <1>0, GotoType DEF Signal, Pcs
<1>25. CASE UNCHANGED vars
  BY <1>25, <1>0 DEF vars
<1> QED BY <1>1, <1>2, <1>3, <1>4, <1>5, <1>6, <1>7, <1>8, <1>9, <1>10, <1>11, <1>12,
      <1>13, <1>14, <1>15, <1>16, <1>17, <1>18, <1>19, <1>20, <1>21, <1>22, <1>23,
      <1>24, <1>25
    DEF Next, Run

LEMMA ChildType ==
  ASSUME TypeOK, [Next]_vars
  PROVE  dumpcap' \in Children
<1>0. dumpcap \in Children BY DEF TypeOK
<1>1. CASE Check
  BY <1>1, <1>0 DEF Check, capture, Children
<1>2. CASE Pass
  BY <1>2, <1>0 DEF Pass, capture, Children
<1>3. CASE Apply
  BY <1>3, <1>0 DEF Apply, capture, Children
<1>4. CASE Handlers
  BY <1>4, <1>0 DEF Handlers, capture, Children
<1>5. CASE Spawn
  BY <1>5, <1>0 DEF Spawn, capture, Children
<1>6. CASE RecordStart
  BY <1>6, <1>0 DEF RecordStart, capture, Children
<1>7. CASE Receive
  BY <1>7, <1>0 DEF Receive, capture, Children
<1>8. CASE Exited
  BY <1>8, <1>0 DEF Exited, capture, Children
<1>9. CASE Grace
  BY <1>9, <1>0 DEF Grace, Killed, Children
<1>10. CASE Look
  BY <1>10, <1>0 DEF Look, capture, Children
<1>11. CASE Drain
  BY <1>11, <1>0 DEF Drain, capture, Children
<1>12. CASE Rest
  BY <1>12, <1>0 DEF Rest, capture, Children
<1>13. CASE StopChild
  BY <1>13, <1>0 DEF StopChild, Killed, Children
<1>14. CASE RecordStop
  BY <1>14, <1>0 DEF RecordStop, capture, Children
<1>15. CASE Restore
  BY <1>15, <1>0 DEF Restore, capture, Children
<1>16. CASE Abort
  BY <1>16, <1>0 DEF Abort, capture, Children
<1>17. CASE Unrecorded
  BY <1>17, <1>0 DEF Unrecorded, capture, Children
<1>18. CASE Finish
  BY <1>18, <1>0 DEF Finish, capture, Children
<1>19. CASE Write
  <2>1. PICK f \in Files : dumpcap' = [dumpcap EXCEPT !.file = f] BY <1>19 DEF Write
  <2>2. f \in 0..MaxFiles BY Bounds DEF Files
  <2> QED BY <1>0, <2>1, <2>2 DEF Children
<1>20. CASE Rotate
  <2>1. dumpcap.file \in 1..(MaxFiles - 1) /\ dumpcap' = [dumpcap EXCEPT !.file = @ + 1]
    BY <1>20 DEF Rotate
  <2>2. dumpcap.file + 1 \in 0..MaxFiles BY <2>1, Bounds
  <2> QED BY <1>0, <2>1, <2>2 DEF Children
<1>21. CASE Lose
  BY <1>21, <1>0 DEF Lose, capture, Children
<1>22. CASE End
  BY <1>22, <1>0 DEF End, capture, Children
<1>23. CASE Fill
  BY <1>23, <1>0 DEF Fill, capture, Children
<1>24. CASE Signal
  <2>1. PICK b \in BOOLEAN : dumpcap' = [dumpcap EXCEPT !.told = b] \/ dumpcap' = dumpcap
    <3>1. (dumpcap.told \/ dumpcap.state = "running") \in BOOLEAN BY <1>0 DEF Children
    <3> QED BY <1>24, <3>1 DEF Signal
  <2> QED BY <1>0, <2>1 DEF Children
<1>25. CASE UNCHANGED vars
  BY <1>25, <1>0 DEF vars, capture, Children
<1> QED BY <1>1, <1>2, <1>3, <1>4, <1>5, <1>6, <1>7, <1>8, <1>9, <1>10, <1>11, <1>12,
      <1>13, <1>14, <1>15, <1>16, <1>17, <1>18, <1>19, <1>20, <1>21, <1>22, <1>23,
      <1>24, <1>25
    DEF Next, Run

LEMMA FilesType ==
  ASSUME TypeOK, Attended, [Next]_vars
  PROVE  size' \in [Files -> 0..MaxSize] /\ named' \in Seq(Files)
<1>0. size \in [Files -> 0..MaxSize] /\ named \in Seq(Files) BY DEF TypeOK
<1>1. CASE Check
  BY <1>1, <1>0 DEF Check, capture
<1>2. CASE Pass
  BY <1>2, <1>0 DEF Pass, capture
<1>3. CASE Apply
  BY <1>3, <1>0 DEF Apply, capture
<1>4. CASE Handlers
  BY <1>4, <1>0 DEF Handlers, capture
<1>5. CASE Spawn
  BY <1>5, <1>0 DEF Spawn, capture
<1>6. CASE RecordStart
  BY <1>6, <1>0 DEF RecordStart, capture
<1>7. CASE Receive
  <2>1. named' = named \/ (named # <<>> /\ named' = Tail(named)) BY <1>7 DEF Receive
  <2> QED BY <1>7, <1>0, <2>1, Rear DEF Receive
<1>8. CASE Exited
  BY <1>8, <1>0 DEF Exited, capture
<1>9. CASE Grace
  BY <1>9, <1>0 DEF Grace, capture
<1>10. CASE Look
  BY <1>10, <1>0 DEF Look, capture
<1>11. CASE Drain
  <2>1. named' = named \/ (named # <<>> /\ named' = Tail(named)) BY <1>11 DEF Drain
  <2> QED BY <1>11, <1>0, <2>1, Rear DEF Drain
<1>12. CASE Rest
  BY <1>12, <1>0 DEF Rest, capture
<1>13. CASE StopChild
  BY <1>13, <1>0 DEF StopChild, capture
<1>14. CASE RecordStop
  BY <1>14, <1>0 DEF RecordStop, capture
<1>15. CASE Restore
  BY <1>15, <1>0 DEF Restore, capture
<1>16. CASE Abort
  BY <1>16, <1>0 DEF Abort, capture
<1>17. CASE Unrecorded
  BY <1>17, <1>0 DEF Unrecorded, capture
<1>18. CASE Finish
  BY <1>18, <1>0 DEF Finish, capture
<1>19. CASE Write
  <2>1. PICK f \in Files : size[f] < MaxSize /\ size' = [size EXCEPT ![f] = @ + 1]
    BY <1>19 DEF Write
  <2>2. size[f] \in 0..MaxSize BY <1>0
  <2>3. size[f] + 1 \in 0..MaxSize BY <2>1, <2>2, Bounds
  <2> QED BY <1>19, <1>0, <2>1, <2>3 DEF Write
<1>20. CASE Rotate
  <2>1. dumpcap.file \in 1..(MaxFiles - 1) /\ size' = [size EXCEPT ![dumpcap.file + 1] = 1]
    BY <1>20 DEF Rotate
  <2>2. dumpcap.file \in Files BY <2>1, Bounds DEF Files
  <2>6. dumpcap.file > 0 BY <2>1, Bounds
  <2>3. MaxSize > 0 BY <2>6 DEF Attended
  <2>4. 1 \in 0..MaxSize BY <2>3, Bounds
  <2>5. named' \in Seq(Files) BY <1>20, <1>0, <2>2, Longer DEF Rotate
  <2> QED BY <1>0, <2>1, <2>4, <2>5
<1>21. CASE Lose
  BY <1>21, <1>0 DEF Lose, capture
<1>22. CASE End
  <2>1. dumpcap.file \in 0..MaxFiles BY DEF TypeOK, Children
  <2>2. dumpcap.file > 0 => dumpcap.file \in Files BY <2>1, Bounds DEF Files
  <2>3. named' = named \/ (dumpcap.file > 0 /\ named' = Append(named, dumpcap.file))
    BY <1>22 DEF End
  <2>4. named' \in Seq(Files) BY <1>0, <2>2, <2>3, Longer
  <2> QED BY <1>22, <1>0, <2>4 DEF End
<1>23. CASE Fill
  BY <1>23, <1>0 DEF Fill, capture
<1>24. CASE Signal
  BY <1>24, <1>0 DEF Signal, capture
<1>25. CASE UNCHANGED vars
  BY <1>25, <1>0 DEF vars, capture
<1> QED BY <1>1, <1>2, <1>3, <1>4, <1>5, <1>6, <1>7, <1>8, <1>9, <1>10, <1>11, <1>12,
      <1>13, <1>14, <1>15, <1>16, <1>17, <1>18, <1>19, <1>20, <1>21, <1>22, <1>23,
      <1>24, <1>25
    DEF Next, Run

(* The file that comes next in the directory.                              *)
LEMMA First ==
  ASSUME NEW S \in SUBSET Files, S # {}
  PROVE  (CHOOSE f \in S : \A g \in S : f <= g) \in S
<1>1. S \subseteq Nat BY Bounds DEF Files
<1>2. PICK f \in S : \A g \in S : ~ (<<g, f>> \in OpToRel(<, Nat))
  BY <1>1, NatLessThanWellFounded, WFMin
<1>3. \A g \in S : ~ (g < f) BY <1>1, <1>2 DEF OpToRel
<1>4. \A g \in S : f <= g BY <1>1, <1>3
<1> QED BY <1>4

LEMMA RestType ==
  ASSUME TypeOK, [Next]_vars
  PROVE  /\ opt' \in Start /\ iface' \in Interface /\ handled' \in BOOLEAN
         /\ items' \subseteq Item /\ done' \in {"none", "open", "aborted", "done"}
         /\ stop' \in BOOLEAN /\ scarce' \in BOOLEAN /\ signals' \in 0..MaxSignals
         /\ stuck' \subseteq Setting /\ failed' \subseteq Kinds
<1>1. CASE Check
  BY <1>1 DEF Check, capture, world, Works, Fault, Faults, Kinds, TypeOK
<1>2. CASE Pass
  BY <1>2 DEF Pass, capture, world, Works, Fault, Faults, Kinds, TypeOK
<1>3. CASE Apply
  <2>1. iface \in Interface BY DEF TypeOK
  <2>2. iface' = iface \/ iface' = [iface EXCEPT ![Order[me.next]] = (Order[me.next] = "up")]
    BY <1>3 DEF Apply
  <2>3. iface' \in Interface BY <2>1, <2>2 DEF Interface
  <2>4. failed' \subseteq Kinds BY <1>3 DEF Apply, Works, Fault, Faults, Kinds, TypeOK
  <2> QED BY <1>3, <2>3, <2>4 DEF Apply, world, TypeOK
<1>4. CASE Handlers
  BY <1>4 DEF Handlers, capture, world, Works, Fault, Faults, Kinds, TypeOK
<1>5. CASE Spawn
  BY <1>5 DEF Spawn, capture, world, Works, Fault, Faults, Kinds, TypeOK
<1>6. CASE RecordStart
  BY <1>6 DEF RecordStart, capture, world, Works, Fault, Faults, Kinds, TypeOK
<1>7. CASE Receive
  <2>1. CASE named # <<>> /\ \E to \in {"exited", "drain"} : Add(Head(named), to)
    <3>1. Head(named) \in Files BY <2>1, Rear DEF TypeOK
    <3>2. items' \subseteq Item /\ failed' \subseteq Kinds BY <2>1, <3>1, AddType
    <3> QED BY <1>7, <3>2 DEF Receive, world, TypeOK
  <2>2. CASE UNCHANGED items /\ Works BY <1>7, <2>2 DEF Receive, world, Works, TypeOK
  <2> QED BY <1>7, <2>1, <2>2 DEF Receive
<1>8. CASE Exited
  BY <1>8 DEF Exited, capture, world, Works, Fault, Faults, Kinds, TypeOK
<1>9. CASE Grace
  BY <1>9 DEF Grace, capture, world, Works, Fault, Faults, Kinds, TypeOK
<1>10. CASE Look
  BY <1>10 DEF Look, capture, world, Works, Fault, Faults, Kinds, TypeOK
<1>11. CASE Drain
  <2>1. CASE named # <<>> /\ \E to \in {"exited", "drain"} : Add(Head(named), to)
    <3>1. Head(named) \in Files BY <2>1, Rear DEF TypeOK
    <3>2. items' \subseteq Item /\ failed' \subseteq Kinds BY <2>1, <3>1, AddType
    <3> QED BY <1>11, <3>2 DEF Drain, world, TypeOK
  <2>2. CASE UNCHANGED items /\ Works BY <1>11, <2>2 DEF Drain, world, Works, TypeOK
  <2> QED BY <1>11, <2>1, <2>2 DEF Drain
<1>12. CASE Rest
  <2> DEFINE left == {f \in Files : size[f] > 0 /\ f \notin Listed}
  <2>1. CASE left = {} BY <1>12, <2>1 DEF Rest, world, Works, TypeOK
  <2>2. CASE left # {}
    <3>1. PICK f \in Files : Add(f, "rest") BY <1>12, <2>2, First DEF Rest
    <3>2. items' \subseteq Item /\ failed' \subseteq Kinds BY <3>1, AddType
    <3> QED BY <1>12, <3>2 DEF Rest, world, TypeOK
  <2> QED BY <2>1, <2>2
<1>13. CASE StopChild
  BY <1>13 DEF StopChild, capture, world, Works, Fault, Faults, Kinds, TypeOK
<1>14. CASE RecordStop
  BY <1>14 DEF RecordStop, capture, world, Works, Fault, Faults, Kinds, TypeOK
<1>15. CASE Restore
  <2>1. iface \in Interface /\ me.undo \in Seq(Undos) BY DEF TypeOK, Locals
  <2>2. Head(me.undo) \in Undos BY <1>15, <2>1, Rear DEF Restore
  <2>3. \/ iface' = iface
        \/ iface' = [iface EXCEPT ![Head(me.undo).setting] = Head(me.undo).on]
    BY <1>15 DEF Restore, PutBack
  <2>4. iface' \in Interface BY <2>1, <2>2, <2>3 DEF Interface, Undos
  <2>5. failed' \subseteq Kinds BY <1>15 DEF Restore, PutBack, Faults, Kinds, TypeOK
  <2>6. Head(me.undo).setting \in Setting BY <2>2 DEF Undos
  <2>7. stuck' \subseteq Setting BY <1>15, <2>6 DEF Restore, PutBack, TypeOK
  <2> QED BY <1>15, <2>4, <2>5, <2>7 DEF Restore, TypeOK
<1>16. CASE Abort
  BY <1>16 DEF Abort, capture, world, Works, Fault, Faults, Kinds, TypeOK
<1>17. CASE Unrecorded
  BY <1>17 DEF Unrecorded, capture, world, Works, Fault, Faults, Kinds, TypeOK
<1>18. CASE Finish
  BY <1>18 DEF Finish, capture, world, Works, Fault, Faults, Kinds, TypeOK
<1>19. CASE Write
  BY <1>19 DEF Write, capture, world, Works, Fault, Faults, Kinds, TypeOK
<1>20. CASE Rotate
  BY <1>20 DEF Rotate, capture, world, Works, Fault, Faults, Kinds, TypeOK
<1>21. CASE Lose
  BY <1>21 DEF Lose, capture, world, Works, Fault, Faults, Kinds, TypeOK
<1>22. CASE End
  BY <1>22 DEF End, capture, world, Works, Fault, Faults, Kinds, TypeOK
<1>23. CASE Fill
  BY <1>23 DEF Fill, capture, world, Works, Fault, Faults, Kinds, TypeOK
<1>24. CASE Signal
  <2>1. signals \in 0..MaxSignals /\ signals < MaxSignals BY <1>24 DEF Signal, TypeOK
  <2>2. signals + 1 \in 0..MaxSignals BY <2>1, Bounds
  <2> QED BY <1>24, <2>2 DEF Signal, TypeOK
<1>25. CASE UNCHANGED vars
  BY <1>25 DEF vars, capture, world, Works, Fault, Faults, Kinds, TypeOK
<1> QED BY <1>1, <1>2, <1>3, <1>4, <1>5, <1>6, <1>7, <1>8, <1>9, <1>10, <1>11, <1>12,
      <1>13, <1>14, <1>15, <1>16, <1>17, <1>18, <1>19, <1>20, <1>21, <1>22, <1>23,
      <1>24, <1>25
    DEF Next, Run

LEMMA TypeStep ==
  ASSUME TypeOK, Attended, [Next]_vars
  PROVE  TypeOK'
BY MeType, ChildType, FilesType, RestType DEF TypeOK

----------------------------------------------------------------------------
(* The parts of the invariant *)

LEMMA MeFields ==
  ASSUME TypeOK
  PROVE  me \in Locals /\ dumpcap \in Children
BY DEF TypeOK

LEMMA FailedGrows ==
  ASSUME [Next]_vars
  PROVE  failed \subseteq failed'
<1>1. CASE Check
  BY <1>1 DEF Check, Err, Works, Fault, Faults
<1>2. CASE Pass
  BY <1>2 DEF Pass, Works, Fault, Faults
<1>3. CASE Apply
  BY <1>3 DEF Apply, Works, Fault, Faults
<1>4. CASE Handlers
  BY <1>4 DEF Handlers, Works, Fault, Faults
<1>5. CASE Spawn
  BY <1>5 DEF Spawn, Works, Fault, Faults
<1>6. CASE RecordStart
  BY <1>6 DEF RecordStart, Works, Fault, Faults
<1>7. CASE Receive
  BY <1>7 DEF Receive, Add, Works, Fault, Faults
<1>8. CASE Exited
  BY <1>8 DEF Exited, Works, Fault, Faults
<1>9. CASE Grace
  BY <1>9 DEF Grace, Killed, Works, Fault, Faults
<1>10. CASE Look
  BY <1>10 DEF Look, Works, Fault, Faults
<1>11. CASE Drain
  BY <1>11 DEF Drain, Add, Works, Fault, Faults
<1>12. CASE Rest
  BY <1>12 DEF Rest, Add, Works, Fault, Faults
<1>13. CASE StopChild
  BY <1>13 DEF StopChild, Killed, Works, Fault, Faults
<1>14. CASE RecordStop
  BY <1>14 DEF RecordStop, Err, Works, Fault, Faults
<1>15. CASE Restore
  BY <1>15 DEF Restore, PutBack, Faults
<1>16. CASE Abort
  BY <1>16 DEF Abort, Err, Works, Fault, Faults
<1>17. CASE Unrecorded
  BY <1>17 DEF Unrecorded, Works, Fault, Faults
<1>18. CASE Finish
  BY <1>18 DEF Finish, Err, Works, Fault, Faults
<1>19. CASE Write
  BY <1>19 DEF Write, Works, Fault, Faults
<1>20. CASE Rotate
  BY <1>20 DEF Rotate, Works, Fault, Faults
<1>21. CASE Lose
  BY <1>21 DEF Lose, Works, Fault, Faults
<1>22. CASE End
  BY <1>22 DEF End, Works, Fault, Faults
<1>23. CASE Fill
  BY <1>23 DEF Fill, Works, Fault, Faults
<1>24. CASE Signal
  BY <1>24 DEF Signal, Works, Fault, Faults
<1>25. CASE UNCHANGED vars
  BY <1>25 DEF vars
<1> QED BY <1>1, <1>2, <1>3, <1>4, <1>5, <1>6, <1>7, <1>8, <1>9, <1>10, <1>11, <1>12,
      <1>13, <1>14, <1>15, <1>16, <1>17, <1>18, <1>19, <1>20, <1>21, <1>22, <1>23,
      <1>24, <1>25
    DEF Next, Run

LEMMA AttendedStep ==
  ASSUME TypeOK, Attended, [Next]_vars
  PROVE  Attended'
<1>0. me \in Locals /\ dumpcap \in Children BY DEF TypeOK
<1>a. failed \subseteq failed' BY FailedGrows
<1>1. CASE Check
  <2>1. /\ me.pc = "check" /\ UNCHANGED <<dumpcap, handled, items, named>>
        /\ me'.pc \in {"ended", "apply"}
    BY <1>1, <1>0 DEF Check, Err, At, capture, Locals
  <2>2. dumpcap.state = "none" BY <2>1 DEF Attended
  <2> QED BY <2>1, <2>2 DEF Attended
<1>2. CASE Pass
  BY <1>2, <1>0 DEF Pass, Attended, At, Goto, Works, capture, world, Locals, Children
<1>3. CASE Apply
  BY <1>3, <1>0 DEF Apply, Attended, At, Goto, Works, capture, world, Locals, Children
<1>4. CASE Handlers
  BY <1>4, <1>0 DEF Handlers, Attended, At, Goto, Works, capture, world, Locals, Children
<1>5. CASE Spawn
  BY <1>5, <1>0 DEF Spawn, Attended, At, Goto, Works, capture, world, Locals, Children
<1>6. CASE RecordStart
  BY <1>6, <1>0 DEF RecordStart, Attended, At, Goto, Works, capture, world, Locals,
      Children
<1>7. CASE Receive
  <2>1. Goto("exited") \/ Goto("stop child") \/ Goto("exited") BY <1>7, AddGoes DEF Receive
  <2>2. UNCHANGED <<dumpcap, handled>> /\ At("receive") BY <1>7 DEF Receive
  <2>6. me.pc = "receive" BY <2>2 DEF At
  <2>3. me'.pc \in {"exited", "exited", "stop child"} BY <1>0, <2>1 DEF Locals, Goto
  <2>4. dumpcap.state # "none" BY <2>2 DEF Attended, At
  <2> QED BY <2>2, <2>3, <2>4, <2>6 DEF Attended
<1>8. CASE Exited
  BY <1>8, <1>0 DEF Exited, Attended, At, Goto, Works, capture, world, Locals, Children
<1>9. CASE Grace
  BY <1>9, <1>0 DEF Grace, Killed, Attended, At, Goto, Works, capture, world, Locals,
      Children
<1>10. CASE Look
  BY <1>10, <1>0 DEF Look, Attended, At, Goto, Works, capture, world, Locals, Children
<1>11. CASE Drain
  <2>1. Goto("drain") \/ Goto("stop child") \/ Goto("rest") BY <1>11, AddGoes DEF Drain
  <2>2. UNCHANGED <<dumpcap, handled>> /\ At("drain") BY <1>11 DEF Drain
  <2>6. me.pc = "drain" BY <2>2 DEF At
  <2>3. me'.pc \in {"drain", "rest", "stop child"} BY <1>0, <2>1 DEF Locals, Goto
  <2>4. dumpcap.state # "none" BY <2>2 DEF Attended, At
  <2>5. handled /\ dumpcap.state # "running" BY <2>6 DEF Attended
  <2> QED BY <2>2, <2>3, <2>4, <2>5, <2>6 DEF Attended
<1>12. CASE Rest
  <2>1. Goto("record") \/ Goto("rest") \/ Goto("stop child") BY <1>12, AddGoes DEF Rest
  <2>2. UNCHANGED <<dumpcap, handled, named>> /\ me.pc = "rest"
    BY <1>12 DEF Rest, At, capture
  <2>3. me'.pc \in {"record", "rest", "stop child"} BY <1>0, <2>1 DEF Locals, Goto
  <2>4. dumpcap.state # "none" /\ dumpcap.state # "running" /\ handled BY <2>2 DEF Attended
  <2> QED BY <2>2, <2>3, <2>4 DEF Attended
<1>13. CASE StopChild
  <2>1. /\ me.pc = "stop child" /\ UNCHANGED <<handled, items, named>>
        /\ handled /\ dumpcap.state # "none"
    BY <1>13 DEF StopChild, At, Attended
  <2>2. CASE dumpcap' = [dumpcap EXCEPT !.told = TRUE] /\ UNCHANGED me
    <3>1. dumpcap'.state = dumpcap.state /\ dumpcap'.file = dumpcap.file
      BY <1>0, <2>2 DEF Children
    <3> QED BY <2>1, <2>2, <3>1 DEF Attended
  <2>3. CASE dumpcap' = Killed(dumpcap) /\ me' = [me EXCEPT !.pc = "restore", !.aborts = TRUE]
    <3>1. /\ dumpcap'.state # "running" /\ dumpcap'.state # "none"
          /\ dumpcap'.file = dumpcap.file /\ me'.pc = "restore"
      BY <1>0, <2>1, <2>3 DEF Killed, Children, Locals
    <3> QED BY <2>1, <3>1 DEF Attended
  <2>4. CASE /\ me' = [me EXCEPT !.pc = "restore", !.aborts = TRUE]
             /\ UNCHANGED dumpcap /\ Fault("reap")
    <3>1. me'.pc = "restore" /\ me'.aborts /\ "reap" \in failed'
      BY <1>0, <2>4 DEF Locals, Fault, Faults
    <3> QED BY <2>1, <2>4, <3>1 DEF Attended
  <2> QED BY <1>13, <2>2, <2>3, <2>4 DEF StopChild
<1>14. CASE RecordStop
  BY <1>14, <1>0 DEF RecordStop, Err, Attended, At, Goto, Works, capture, world, Locals,
      Children
<1>15. CASE Restore
  <2>1. /\ me.pc = "restore" /\ me'.pc = "restore" /\ me'.aborts = me.aborts
        /\ UNCHANGED <<dumpcap, handled, items, named>>
    BY <1>15, <1>0 DEF Restore, At, capture, Locals
  <2> QED BY <1>a, <2>1 DEF Attended
<1>16. CASE Abort
  <2>1. /\ me.pc = "restore" /\ me'.pc = "ended" /\ me'.aborts = me.aborts
        /\ UNCHANGED <<dumpcap, handled, items, named>>
    BY <1>16, <1>0 DEF Abort, Err, At, capture, Locals
  <2> QED BY <1>a, <2>1 DEF Attended
<1>17. CASE Unrecorded
  BY <1>17, <1>0 DEF Unrecorded, Attended, At, Goto, Works, capture, world, Locals, Children
<1>18. CASE Finish
  BY <1>18, <1>0 DEF Finish, Err, Attended, At, Goto, Works, capture, world, Locals,
      Children
<1>19. CASE Write
  <2>1. PICK f \in Files : size[f] < MaxSize /\ dumpcap' = [dumpcap EXCEPT !.file = f]
    BY <1>19 DEF Write
  <2>2. size[f] \in 0..MaxSize BY DEF TypeOK
  <2>3. MaxSize > 0 BY <2>1, <2>2, Bounds
  <2>4. dumpcap'.state = dumpcap.state /\ dumpcap.state = "running"
    BY <1>19, <1>0, <2>1 DEF Write, Children
  <2> QED BY <1>19, <2>3, <2>4 DEF Write, Attended
<1>20. CASE Rotate
  <2>1. dumpcap.file \in 1..(MaxFiles - 1) BY <1>20 DEF Rotate
  <2>2. dumpcap.file > 0 BY <2>1, Bounds
  <2>3. MaxSize > 0 BY <2>2 DEF Attended
  <2>4. dumpcap'.state = dumpcap.state /\ dumpcap.state = "running"
    BY <1>20, <1>0 DEF Rotate, Children
  <2> QED BY <1>20, <2>3, <2>4 DEF Rotate, Attended
<1>21. CASE Lose
  BY <1>21, <1>0 DEF Lose, Attended, At, Goto, Works, capture, world, Locals, Children
<1>22. CASE End
  BY <1>22, <1>0 DEF End, Attended, At, Goto, Works, capture, world, Locals, Children
<1>23. CASE Fill
  BY <1>23, <1>0 DEF Fill, Attended, At, Goto, Works, capture, world, Locals, Children
<1>24. CASE Signal
  <2>1. /\ dumpcap'.state = dumpcap.state /\ dumpcap'.file = dumpcap.file
    BY <1>24, <1>0 DEF Signal, Children
  <2>2. (handled /\ UNCHANGED me) \/ (~handled /\ Goto("interrupted")) BY <1>24 DEF Signal
  <2>3. UNCHANGED <<handled, named, items, failed>> BY <1>24 DEF Signal
  <2>4. CASE handled /\ UNCHANGED me BY <2>1, <2>3, <2>4 DEF Attended
  <2>5. CASE ~handled /\ Goto("interrupted")
    <3>1. me'.pc = "interrupted" BY <1>0, <2>5 DEF Goto, Locals
    <3>2. dumpcap.state # "running" BY <2>5 DEF Attended
    <3> QED BY <2>1, <2>3, <3>1, <3>2 DEF Attended
  <2> QED BY <2>2, <2>4, <2>5
<1>25. CASE UNCHANGED vars
  BY <1>25, <1>0 DEF vars, Attended, At, Goto, Works, capture, world, Locals, Children
<1> QED BY <1>1, <1>2, <1>3, <1>4, <1>5, <1>6, <1>7, <1>8, <1>9, <1>10, <1>11, <1>12,
      <1>13, <1>14, <1>15, <1>16, <1>17, <1>18, <1>19, <1>20, <1>21, <1>22, <1>23,
      <1>24, <1>25
    DEF Next, Run

LEMMA PreparedKept ==
  ASSUME Prepared, UNCHANGED <<opt, iface>>, failed \subseteq failed',
         \/ me'.pc \in {"restore", "ended", "interrupted"}
         \/ /\ me.pc \notin {"check", "apply", "restore", "ended", "interrupted"}
            /\ me'.pc \notin {"check", "apply"}
  PROVE  Prepared'
BY DEF Prepared, Known, QuietAs

LEMMA PreparedSame ==
  ASSUME Prepared, UNCHANGED <<opt, iface, me>>, failed \subseteq failed'
  PROVE  Prepared'
BY DEF Prepared, Known, QuietAs

LEMMA PreparedStep ==
  ASSUME TypeOK, Prepared, [Next]_vars
  PROVE  Prepared'
<1>0. me \in Locals BY DEF TypeOK
<1>a. failed \subseteq failed' BY FailedGrows
<1>1. CASE Check
  <2>1. /\ me.pc = "check" /\ me.next = 1 /\ me.undo = <<>> /\ UNCHANGED <<opt, iface>>
    BY <1>1 DEF Check, At, world, Prepared
  <2>2. CASE Err("ended")
    <3>1. me'.pc = "ended" BY <1>0, <2>2 DEF Err, Locals
    <3> QED BY <1>a, <2>1, <3>1, PreparedKept
  <2>3. ASSUME NEW unread \in SUBSET {"features", "addresses"}, Faults(unread),
               opt.silent /\ opt.ipv4 => "addresses" \in unread,
               me' = [me EXCEPT !.pc = "apply", !.features = "features" \notin unread]
        PROVE  Prepared'
    <3>1. /\ me'.pc = "apply" /\ me'.next = 1
          /\ me'.features = ("features" \notin unread)
      BY <1>0, <2>1, <2>3 DEF Locals
    <3>2. \A n \in 1..Len(Order) : ~ (n < 1) /\ n >= 1 BY Settings
    <3>3. Known' BY <2>1, <2>3, <3>1 DEF Known, Faults
    <3> QED BY <2>1, <3>1, <3>2, <3>3 DEF Prepared
  <2> QED BY <1>1, <2>2, <2>3 DEF Check
<1>2. CASE Pass
  <2>1. /\ me.next <= Len(Order) /\ me' = [me EXCEPT !.next = @ + 1] /\ me.pc = "apply"
        /\ UNCHANGED <<opt, iface>>
        /\ \/ ~Wanted(Order[me.next])
           \/ Order[me.next] = "arp" /\ "flags" \in failed'
           \/ Order[me.next] = "up"
    BY <1>2 DEF Pass, At, world, Fault, Faults
  <2>2. /\ me.next + 1 \in 1..(Len(Order) + 1) /\ me.next \in 1..5
        /\ Order[me.next] \in Setting
    BY <1>0, <2>1, Nexts
  <2>3. me'.pc = "apply" /\ me'.next = me.next + 1 /\ me'.features = me.features
    BY <1>0, <2>1 DEF Locals
  <2>8. \A s : QuietAs(s) => QuietAs(s)' BY <1>a, <2>1 DEF QuietAs
  <2>9. me.features \/ "features" \in failed BY <2>1 DEF Prepared, Known
  <2>4. \A s \in Setting : s = Order[me.next] => QuietAs(s)'
    <3> SUFFICES ASSUME NEW s \in Setting, s = Order[me.next] PROVE QuietAs(s)' OBVIOUS
    <3>1. CASE ~Wanted(s)
      <4>1. QuietAs(s) BY <2>9, <3>1 DEF Wanted, QuietAs
      <4> QED BY <2>8, <4>1
    <3>2. CASE s = "arp" /\ "flags" \in failed' BY <3>2 DEF QuietAs
    <3>3. CASE s = "up" BY <3>3 DEF QuietAs
    <3> QED BY <2>1, <3>1, <3>2, <3>3
  <2>5. \A n \in 1..5 : /\ n < me.next + 1 => n < me.next \/ n = me.next
                        /\ n >= me.next + 1 => n >= me.next
    BY <2>2
  <2>6. \A n \in 1..5 : n < me.next + 1 => QuietAs(Order[n])'
    <3> SUFFICES ASSUME NEW n \in 1..5, n < me.next + 1 PROVE QuietAs(Order[n])' OBVIOUS
    <3>1. CASE n = me.next BY <2>2, <2>4, <3>1
    <3>2. CASE n < me.next
      <4>1. QuietAs(Order[n]) BY <2>1, <3>2, Settings DEF Prepared
      <4> QED BY <2>8, <4>1
    <3> QED BY <2>5, <3>1, <3>2
  <2>7. \A n \in 1..5 : n >= me.next + 1 => iface[Order[n]] = opt.iface[Order[n]]
    BY <2>1, <2>5, Settings DEF Prepared
  <2>10. Known' BY <1>a, <2>1, <2>3, <2>9 DEF Prepared, Known
  <2> HIDE DEF QuietAs
  <2> QED BY <2>1, <2>3, <2>6, <2>7, <2>10, Settings DEF Prepared
<1>3. CASE Apply
  <2> DEFINE s == Order[me.next]
  <2>1. /\ me.next <= Len(Order) /\ me.pc = "apply" /\ UNCHANGED opt /\ Wanted(s)
    BY <1>3 DEF Apply, At, world
  <2>2. /\ me.next + 1 \in 1..(Len(Order) + 1) /\ me.next \in 1..5 /\ s \in Setting
    BY <1>0, <2>1, Nexts
  <2>3. \/ me'.pc = "restore"
        \/ /\ me'.pc = "apply" /\ me'.next = me.next + 1 /\ me'.features = me.features
           /\ iface' = [iface EXCEPT ![s] = (s = "up")]
    BY <1>3, <1>0, <2>1 DEF Apply, Locals, Works
  <2>4. CASE me'.pc = "restore" BY <2>4 DEF Prepared, Known
  <2>5. CASE /\ me'.pc = "apply" /\ me'.next = me.next + 1 /\ me'.features = me.features
             /\ iface' = [iface EXCEPT ![s] = (s = "up")]
    <3>0. iface \in Interface BY DEF TypeOK
    <3>1. /\ iface'[s] = (s = "up")
          /\ \A t \in Setting : t # s => iface'[t] = iface[t]
      BY <2>2, <2>5, <3>0 DEF Interface
    <3>2. \A t \in Setting : t = s => QuietAs(t)' BY <2>1, <3>1 DEF QuietAs
    <3>3. \A t \in Setting : QuietAs(t) /\ t # s => QuietAs(t)'
      BY <1>a, <2>1, <3>1 DEF QuietAs
    <3>4. \A n \in 1..5 : /\ n < me.next + 1 => n < me.next \/ n = me.next
                          /\ n >= me.next + 1 => n >= me.next /\ n # me.next
      BY <2>2
    <3>5. \A n \in 1..5 : n < me.next => QuietAs(Order[n]) BY <2>1, Settings DEF Prepared
    <3>6. \A n \in 1..5 : n < me.next + 1 => QuietAs(Order[n])'
      <4> SUFFICES ASSUME NEW n \in 1..5, n < me.next + 1 PROVE QuietAs(Order[n])' OBVIOUS
      <4>1. CASE Order[n] = s BY <3>2, <4>1, Settings
      <4>2. CASE Order[n] # s
        <5>1. n < me.next BY <3>4, <4>2
        <5>2. QuietAs(Order[n]) /\ Order[n] \in Setting BY <3>5, <5>1, Settings
        <5> QED BY <3>3, <4>2, <5>2
      <4> QED BY <4>1, <4>2
    <3>7. \A n \in 1..5 : n >= me.next + 1 => iface'[Order[n]] = opt.iface[Order[n]]
      <4> SUFFICES ASSUME NEW n \in 1..5, n >= me.next + 1
                   PROVE  iface'[Order[n]] = opt.iface[Order[n]]
        OBVIOUS
      <4>1. n >= me.next /\ n # me.next BY <3>4
      <4>2. Order[n] # s /\ Order[n] \in Setting BY <2>2, <4>1, Settings
      <4>3. iface[Order[n]] = opt.iface[Order[n]] BY <2>1, <4>1, Settings DEF Prepared
      <4> QED BY <3>1, <4>2, <4>3
    <3>8. Known' BY <1>a, <2>1, <2>5 DEF Prepared, Known
    <3> HIDE DEF s
    <3> QED BY <2>1, <2>5, <3>6, <3>7, <3>8, Settings DEF Prepared
  <2> QED BY <2>3, <2>4, <2>5
<1>4. CASE Handlers
  <2>1. /\ me.pc = "apply" /\ me.next > Len(Order) /\ Goto("spawn")
        /\ UNCHANGED <<opt, iface>>
    BY <1>4 DEF Handlers, At, world
  <2>2. me'.pc = "spawn" BY <1>0, <2>1 DEF Goto, Locals
  <2>3. Len(Order) = 5 /\ me.next \in 1..(Len(Order) + 1) BY <1>0, Settings DEF Locals
  <2>4. \A n \in 1..5 : n < me.next BY <2>1, <2>3
  <2>5. \A n \in 1..5 : QuietAs(Order[n]) BY <2>1, <2>4, Settings DEF Prepared
  <2>6. \A s \in Setting : QuietAs(s) BY <2>5, Settings
  <2>7. Known' BY <1>a, <2>1, <2>2 DEF Prepared, Known
  <2> QED BY <1>a, <2>1, <2>2, <2>6, <2>7 DEF Prepared, QuietAs
<1>5. CASE Spawn
  <2>1. UNCHANGED <<opt, iface>> BY <1>5 DEF Spawn, world
  <2>2. \/ me'.pc \in {"restore", "ended", "interrupted"}
        \/ /\ me.pc \notin {"check", "apply", "restore", "ended", "interrupted"}
           /\ me'.pc \notin {"check", "apply"}
    BY <1>5, <1>0 DEF Spawn, At, Goto, Works, Locals
  <2> QED BY <2>1, <2>2, <1>a, PreparedKept
<1>6. CASE RecordStart
  <2>1. UNCHANGED <<opt, iface>> BY <1>6 DEF RecordStart, world
  <2>2. \/ me'.pc \in {"restore", "ended", "interrupted"}
        \/ /\ me.pc \notin {"check", "apply", "restore", "ended", "interrupted"}
           /\ me'.pc \notin {"check", "apply"}
    BY <1>6, <1>0 DEF RecordStart, At, Goto, Works, Locals
  <2> QED BY <2>1, <2>2, <1>a, PreparedKept
<1>7. CASE Receive
  <2>1. Goto("exited") \/ Goto("stop child") \/ Goto("exited") BY <1>7, AddGoes DEF Receive
  <2>2. UNCHANGED <<opt, iface>> /\ me.pc = "receive" BY <1>7 DEF Receive, At, world
  <2>3. me'.pc \in {"exited", "exited", "stop child"} BY <1>0, <2>1 DEF Locals, Goto
  <2> QED BY <2>2, <2>3, <1>a, PreparedKept
<1>8. CASE Exited
  <2>1. UNCHANGED <<opt, iface>> BY <1>8 DEF Exited, world
  <2>2. \/ me'.pc \in {"restore", "ended", "interrupted"}
        \/ /\ me.pc \notin {"check", "apply", "restore", "ended", "interrupted"}
           /\ me'.pc \notin {"check", "apply"}
    BY <1>8, <1>0 DEF Exited, At, Goto, Works, Locals
  <2> QED BY <2>1, <2>2, <1>a, PreparedKept
<1>9. CASE Grace
  <2>1. UNCHANGED <<opt, iface>> BY <1>9 DEF Grace, world
  <2>2. \/ me'.pc \in {"restore", "ended", "interrupted"}
        \/ /\ me.pc \notin {"check", "apply", "restore", "ended", "interrupted"}
           /\ me'.pc \notin {"check", "apply"}
    BY <1>9, <1>0 DEF Grace, Killed, At, Goto, Works, Locals
  <2> QED BY <2>1, <2>2, <1>a, PreparedKept
<1>10. CASE Look
  <2>1. UNCHANGED <<opt, iface>> BY <1>10 DEF Look, world
  <2>2. \/ me'.pc \in {"restore", "ended", "interrupted"}
        \/ /\ me.pc \notin {"check", "apply", "restore", "ended", "interrupted"}
           /\ me'.pc \notin {"check", "apply"}
    BY <1>10, <1>0 DEF Look, At, Goto, Works, Locals
  <2> QED BY <2>1, <2>2, <1>a, PreparedKept
<1>11. CASE Drain
  <2>1. Goto("drain") \/ Goto("stop child") \/ Goto("rest") BY <1>11, AddGoes DEF Drain
  <2>2. UNCHANGED <<opt, iface>> /\ me.pc = "drain" BY <1>11 DEF Drain, At, world
  <2>3. me'.pc \in {"drain", "rest", "stop child"} BY <1>0, <2>1 DEF Locals, Goto
  <2> QED BY <2>2, <2>3, <1>a, PreparedKept
<1>12. CASE Rest
  <2>1. Goto("rest") \/ Goto("stop child") \/ Goto("record") BY <1>12, AddGoes DEF Rest
  <2>2. UNCHANGED <<opt, iface>> /\ me.pc = "rest" BY <1>12 DEF Rest, At, world
  <2>3. me'.pc \in {"rest", "record", "stop child"} BY <1>0, <2>1 DEF Locals, Goto
  <2> QED BY <2>2, <2>3, <1>a, PreparedKept
<1>13. CASE StopChild
  <2>1. UNCHANGED <<opt, iface>> BY <1>13 DEF StopChild, world
  <2>2. \/ me'.pc \in {"restore", "ended", "interrupted"}
        \/ /\ me.pc \notin {"check", "apply", "restore", "ended", "interrupted"}
           /\ me'.pc \notin {"check", "apply"}
    BY <1>13, <1>0 DEF StopChild, Killed, At, Goto, Works, Locals
  <2> QED BY <2>1, <2>2, <1>a, PreparedKept
<1>14. CASE RecordStop
  <2>1. UNCHANGED <<opt, iface>> BY <1>14 DEF RecordStop, world
  <2>2. \/ me'.pc \in {"restore", "ended", "interrupted"}
        \/ /\ me.pc \notin {"check", "apply", "restore", "ended", "interrupted"}
           /\ me'.pc \notin {"check", "apply"}
    BY <1>14, <1>0 DEF RecordStop, Err, At, Goto, Works, Locals
  <2> QED BY <2>1, <2>2, <1>a, PreparedKept
<1>15. CASE Restore
  <2>1. me.pc = "restore" /\ UNCHANGED opt BY <1>15 DEF Restore, At
  <2>2. me'.pc = "restore" BY <1>15, <1>0, <2>1 DEF Restore, Locals
  <2> QED BY <2>2 DEF Prepared, Known
<1>16. CASE Abort
  <2>1. UNCHANGED <<opt, iface>> BY <1>16 DEF Abort, world
  <2>2. \/ me'.pc \in {"restore", "ended", "interrupted"}
        \/ /\ me.pc \notin {"check", "apply", "restore", "ended", "interrupted"}
           /\ me'.pc \notin {"check", "apply"}
    BY <1>16, <1>0 DEF Abort, Err, At, Goto, Works, Locals
  <2> QED BY <2>1, <2>2, <1>a, PreparedKept
<1>17. CASE Unrecorded
  <2>1. UNCHANGED <<opt, iface>> BY <1>17 DEF Unrecorded, world
  <2>2. \/ me'.pc \in {"restore", "ended", "interrupted"}
        \/ /\ me.pc \notin {"check", "apply", "restore", "ended", "interrupted"}
           /\ me'.pc \notin {"check", "apply"}
    BY <1>17, <1>0 DEF Unrecorded, At, Goto, Works, Locals
  <2> QED BY <2>1, <2>2, <1>a, PreparedKept
<1>18. CASE Finish
  <2>1. UNCHANGED <<opt, iface>> BY <1>18 DEF Finish, world
  <2>2. \/ me'.pc \in {"restore", "ended", "interrupted"}
        \/ /\ me.pc \notin {"check", "apply", "restore", "ended", "interrupted"}
           /\ me'.pc \notin {"check", "apply"}
    BY <1>18, <1>0 DEF Finish, Err, At, Goto, Works, Locals
  <2> QED BY <2>1, <2>2, <1>a, PreparedKept
<1>19. CASE Write
  BY <1>19, <1>a, PreparedSame DEF Write, world
<1>20. CASE Rotate
  BY <1>20, <1>a, PreparedSame DEF Rotate, world
<1>21. CASE Lose
  BY <1>21, <1>a, PreparedSame DEF Lose, world
<1>22. CASE End
  BY <1>22, <1>a, PreparedSame DEF End, world
<1>23. CASE Fill
  BY <1>23, <1>a, PreparedSame DEF Fill, world
<1>24. CASE Signal
  <2>1. UNCHANGED me \/ Goto("interrupted") BY <1>24 DEF Signal
  <2>2. CASE UNCHANGED me BY <1>24, <2>2, <1>a, PreparedSame DEF Signal
  <2>3. CASE Goto("interrupted")
    <3>1. me'.pc = "interrupted" BY <1>0, <2>3 DEF Goto, Locals
    <3> QED BY <1>24, <3>1, <1>a, PreparedKept DEF Signal
  <2> QED BY <2>1, <2>2, <2>3
<1>25. CASE UNCHANGED vars
  BY <1>25, <1>a, PreparedSame DEF vars, world
<1> QED BY <1>1, <1>2, <1>3, <1>4, <1>5, <1>6, <1>7, <1>8, <1>9, <1>10, <1>11, <1>12,
      <1>13, <1>14, <1>15, <1>16, <1>17, <1>18, <1>19, <1>20, <1>21, <1>22, <1>23,
      <1>24, <1>25
    DEF Next, Run

LEMMA UndoableKept ==
  ASSUME Undoable, UNCHANGED <<opt, iface, stuck>>, me'.undo = me.undo, failed \subseteq failed',
         me'.pc = "ended" => me.undo = <<>> \/ me.pc = "ended"
  PROVE  Undoable'
<1>1. \A u : GivesBack(u) => GivesBack(u)' BY DEF GivesBack, Guessed
<1>2. \A s : AsItWas(s) => AsItWas(s)' BY DEF AsItWas, Guessed
<1> HIDE DEF GivesBack, AsItWas
<1> QED BY <1>1, <1>2 DEF Undoable, Ended, At

LEMMA Given ==
  ASSUME NEW s \in Setting, Wanted(s), iface[s] = opt.iface[s], iface \in Interface
  PROVE  GivesBack(Undo(s))
BY DEF Wanted, GivesBack, Undo, Setting, Interface

LEMMA GivenBack ==
  ASSUME iface \in Interface, NEW u \in Undos, GivesBack(u), UNCHANGED opt,
         failed \subseteq failed',
         iface' = [iface EXCEPT ![u.setting] = u.on], opt \in Start
  PROVE  \A s \in Setting : /\ s = u.setting => AsItWas(s)'
                            /\ s # u.setting => (AsItWas(s) => AsItWas(s)')
<1>1. u.setting \in Setting BY DEF Undos
<1>2. iface'[u.setting] = u.on /\ \A s \in Setting : s # u.setting => iface'[s] = iface[s]
  BY <1>1 DEF Interface
<1>3. opt.iface[u.setting] \in BOOLEAN /\ opt.carrier \in BOOLEAN /\ u.on \in BOOLEAN
  BY <1>1, Options DEF Interface, Undos
<1>4. \A s \in Setting : s # u.setting => (AsItWas(s) => AsItWas(s)')
  BY <1>2 DEF AsItWas, Guessed
<1>5. AsItWas(u.setting)'
  <2>1. CASE u.setting = "up" BY <1>2, <1>3, <2>1 DEF AsItWas, GivesBack, Guessed
  <2>2. CASE u.setting # "up" BY <1>2, <2>2 DEF AsItWas, GivesBack, Guessed
  <2> QED BY <2>1, <2>2
<1> QED BY <1>4, <1>5

(* What is in `undo`, or given back, through every step.                   *)
LEMMA UndoableStep ==
  ASSUME TypeOK, Prepared, Undoable, [Next]_vars
  PROVE  Undoable'
<1>0. me \in Locals BY DEF TypeOK
<1>a. failed \subseteq failed' BY FailedGrows
<1>1. CASE Check
  <2>1. UNCHANGED <<opt, iface, stuck>> BY <1>1 DEF Check, world
  <2>2. /\ me'.undo = me.undo
        /\ me'.pc = "ended" => me.undo = <<>> \/ me.pc = "ended"
    BY <1>1, <1>0 DEF Check, Err, At, Goto, Works, Locals, Prepared
  <2> QED BY <1>a, <2>1, <2>2, UndoableKept
<1>2. CASE Pass
  <2>1. UNCHANGED <<opt, iface, stuck>> BY <1>2 DEF Pass, world
  <2>2. /\ me'.undo = me.undo
        /\ me'.pc = "ended" => me.undo = <<>> \/ me.pc = "ended"
    BY <1>2, <1>0 DEF Pass, At, Goto, Works, Locals
  <2> QED BY <1>a, <2>1, <2>2, UndoableKept
<1>3. CASE Apply
  <2> DEFINE s == Order[me.next]
  <2>1. /\ me.next <= Len(Order) /\ me.pc = "apply" /\ UNCHANGED <<opt, stuck>> /\ Wanted(s)
    BY <1>3 DEF Apply, At, world
  <2>2. me.next \in 1..5 /\ s \in Setting BY <1>0, <2>1, Nexts
  <2>3. me.next >= me.next BY <2>2
  <2>4. iface[s] = opt.iface[s] BY <2>1, <2>2, <2>3, Settings DEF Prepared
  <2>5. iface \in Interface /\ opt \in Start /\ me.undo \in Seq(Undos)
    BY DEF TypeOK, Locals
  <2>6. CASE UNCHANGED iface /\ me' = [me EXCEPT !.pc = "restore", !.aborts = TRUE]
    <3>1. me'.undo = me.undo /\ me'.pc = "restore" BY <1>0, <2>6 DEF Locals
    <3> QED BY <1>a, <2>1, <2>6, <3>1, UndoableKept
  <2>7. ASSUME NEW v \in {Undo(s)} \cup Guesses, NEW recorded \in BOOLEAN,
               v.setting = s, iface' = [iface EXCEPT ![s] = (s = "up")],
               me' = [me EXCEPT !.next = @ + 1, !.undo = <<v>> \o @, !.aborts = ~recorded,
                                !.pc = IF recorded THEN @ ELSE "restore"],
               Faults({k \in {"value"} : v # Undo(s)} \cup {k \in {"record"} : ~recorded})
        PROVE  Undoable'
    <3> DEFINE u == <<v>> \o me.undo
    <3>1. me'.undo = u /\ me'.pc \in {"apply", "restore"} BY <1>0, <2>1, <2>7 DEF Locals
    <3>2. v \in Undos BY <2>2, <2>5, UndoType, GuessType
    <3>3. GivesBack(v)'
      <4>1. CASE v = Undo(s)
        <5>1. GivesBack(v) BY <2>1, <2>2, <2>4, <2>5, <4>1, Given
        <5> QED BY <1>a, <2>1, <5>1 DEF GivesBack, Guessed
      <4>2. CASE v # Undo(s)
        <5>1. "value" \in failed' BY <2>7, <4>2 DEF Faults
        <5>2. v \in Guesses BY <4>2
        <5>3. v.setting = "ipv6" BY <5>2, GuessType
        <5>4. "ipv6" # "up" OBVIOUS
        <5> QED BY <5>1, <5>3, <5>4 DEF GivesBack, Guessed
      <4> QED BY <4>1, <4>2
    <3>4. /\ DOMAIN u = 1..(Len(me.undo) + 1) /\ u[1] = v
          /\ \A i \in DOMAIN me.undo : i + 1 \in DOMAIN u /\ u[i + 1] = me.undo[i]
          /\ \A i \in DOMAIN u : i = 1 \/ (i - 1 \in DOMAIN me.undo /\ u[i] = me.undo[i - 1])
      BY <2>5, <3>2, Front
    <3>5. \A t \in Setting : t # s => iface'[t] = iface[t] BY <2>5, <2>7 DEF Interface
    <3>6. \A t \in Setting : t # s => (AsItWas(t) => AsItWas(t)')
      BY <1>a, <2>1, <3>5 DEF AsItWas, Guessed
    <3>7. \A w : GivesBack(w) => GivesBack(w)' BY <1>a, <2>1 DEF GivesBack, Guessed
    <3>8. \A i \in DOMAIN u : \A w : w = u[i] => GivesBack(w)'
      <4> SUFFICES ASSUME NEW i \in DOMAIN u, NEW w, w = u[i] PROVE GivesBack(w)' OBVIOUS
      <4>1. CASE i = 1
        <5>1. w = v BY <3>4, <4>1
        <5> QED BY <3>3, <5>1
      <4>2. CASE i - 1 \in DOMAIN me.undo /\ u[i] = me.undo[i - 1]
        <5>1. GivesBack(w) BY <4>2 DEF Undoable
        <5> QED BY <3>7, <5>1
      <4> QED BY <3>4, <4>1, <4>2
    <3>9. 1 \in DOMAIN u
      <4>1. Len(me.undo) \in Nat BY <2>5
      <4> HIDE DEF u
      <4> QED BY <3>4, <4>1
    <3>10. \E i \in DOMAIN u : u[i].setting = s BY <2>7, <3>4, <3>9
    <3>11. \A t \in Setting : (\E i \in DOMAIN me.undo : me.undo[i].setting = t)
                              => \E i \in DOMAIN u : u[i].setting = t
      BY <3>4
    <3>12. \A t \in Setting \ stuck : AsItWas(t)' \/ \E i \in DOMAIN u : u[i].setting = t
      BY <3>6, <3>10, <3>11 DEF Undoable
    <3> HIDE DEF u, s, GivesBack, AsItWas
    <3> QED BY <2>1, <3>1, <3>8, <3>12 DEF Undoable, Ended, At
  <2> QED BY <1>3, <2>6, <2>7 DEF Apply
<1>4. CASE Handlers
  <2>1. UNCHANGED <<opt, iface, stuck>> BY <1>4 DEF Handlers, world
  <2>2. /\ me'.undo = me.undo
        /\ me'.pc = "ended" => me.undo = <<>> \/ me.pc = "ended"
    BY <1>4, <1>0 DEF Handlers, At, Goto, Works, Locals
  <2> QED BY <1>a, <2>1, <2>2, UndoableKept
<1>5. CASE Spawn
  <2>1. UNCHANGED <<opt, iface, stuck>> BY <1>5 DEF Spawn, world
  <2>2. /\ me'.undo = me.undo
        /\ me'.pc = "ended" => me.undo = <<>> \/ me.pc = "ended"
    BY <1>5, <1>0 DEF Spawn, At, Goto, Works, Locals
  <2> QED BY <1>a, <2>1, <2>2, UndoableKept
<1>6. CASE RecordStart
  <2>1. UNCHANGED <<opt, iface, stuck>> BY <1>6 DEF RecordStart, world
  <2>2. /\ me'.undo = me.undo
        /\ me'.pc = "ended" => me.undo = <<>> \/ me.pc = "ended"
    BY <1>6, <1>0 DEF RecordStart, At, Goto, Works, Locals
  <2> QED BY <1>a, <2>1, <2>2, UndoableKept
<1>7. CASE Receive
  <2>1. Goto("exited") \/ Goto("stop child") \/ Goto("exited") BY <1>7, AddGoes DEF Receive
  <2>2. UNCHANGED <<opt, iface, stuck>> BY <1>7 DEF Receive, world
  <2>3. me'.pc \in {"exited", "exited", "stop child"} /\ me'.undo = me.undo
    BY <1>0, <2>1 DEF Locals, Goto
  <2> QED BY <1>a, <2>2, <2>3, UndoableKept
<1>8. CASE Exited
  <2>1. UNCHANGED <<opt, iface, stuck>> BY <1>8 DEF Exited, world
  <2>2. /\ me'.undo = me.undo
        /\ me'.pc = "ended" => me.undo = <<>> \/ me.pc = "ended"
    BY <1>8, <1>0 DEF Exited, At, Goto, Works, Locals
  <2> QED BY <1>a, <2>1, <2>2, UndoableKept
<1>9. CASE Grace
  <2>1. UNCHANGED <<opt, iface, stuck>> BY <1>9 DEF Grace, world
  <2>2. /\ me'.undo = me.undo
        /\ me'.pc = "ended" => me.undo = <<>> \/ me.pc = "ended"
    BY <1>9, <1>0 DEF Grace, Killed, At, Goto, Works, Locals
  <2> QED BY <1>a, <2>1, <2>2, UndoableKept
<1>10. CASE Look
  <2>1. UNCHANGED <<opt, iface, stuck>> BY <1>10 DEF Look, world
  <2>2. /\ me'.undo = me.undo
        /\ me'.pc = "ended" => me.undo = <<>> \/ me.pc = "ended"
    BY <1>10, <1>0 DEF Look, At, Goto, Works, Locals
  <2> QED BY <1>a, <2>1, <2>2, UndoableKept
<1>11. CASE Drain
  <2>1. Goto("drain") \/ Goto("stop child") \/ Goto("rest") BY <1>11, AddGoes DEF Drain
  <2>2. UNCHANGED <<opt, iface, stuck>> BY <1>11 DEF Drain, world
  <2>3. me'.pc \in {"drain", "rest", "stop child"} /\ me'.undo = me.undo
    BY <1>0, <2>1 DEF Locals, Goto
  <2> QED BY <1>a, <2>2, <2>3, UndoableKept
<1>12. CASE Rest
  <2>1. Goto("rest") \/ Goto("stop child") \/ Goto("record") BY <1>12, AddGoes DEF Rest
  <2>2. UNCHANGED <<opt, iface, stuck>> BY <1>12 DEF Rest, world
  <2>3. me'.pc \in {"rest", "record", "stop child"} /\ me'.undo = me.undo
    BY <1>0, <2>1 DEF Locals, Goto
  <2> QED BY <1>a, <2>2, <2>3, UndoableKept
<1>13. CASE StopChild
  <2>1. UNCHANGED <<opt, iface, stuck>> BY <1>13 DEF StopChild, world
  <2>2. /\ me'.undo = me.undo
        /\ me'.pc = "ended" => me.undo = <<>> \/ me.pc = "ended"
    BY <1>13, <1>0 DEF StopChild, Killed, At, Goto, Works, Locals
  <2> QED BY <1>a, <2>1, <2>2, UndoableKept
<1>14. CASE RecordStop
  <2>1. UNCHANGED <<opt, iface, stuck>> BY <1>14 DEF RecordStop, world
  <2>2. /\ me'.undo = me.undo
        /\ me'.pc = "ended" => me.undo = <<>> \/ me.pc = "ended"
    BY <1>14, <1>0 DEF RecordStop, Err, At, Goto, Works, Locals
  <2> QED BY <1>a, <2>1, <2>2, UndoableKept
<1>15. CASE Restore
  <2> DEFINE u == Head(me.undo)
  <2> DEFINE q == Tail(me.undo)
  <2>1. me.pc = "restore" /\ UNCHANGED opt /\ me.undo # <<>> BY <1>15 DEF Restore, At
  <2>2. me'.pc = "restore" /\ me'.undo = q BY <1>15, <1>0, <2>1 DEF Restore, Locals
  <2>3. iface \in Interface /\ opt \in Start /\ me.undo \in Seq(Undos)
    BY DEF TypeOK, Locals
  <2>4. /\ u \in Undos /\ 1 \in DOMAIN me.undo /\ u = me.undo[1]
        /\ \A i \in DOMAIN q : i + 1 \in DOMAIN me.undo /\ q[i] = me.undo[i + 1]
        /\ \A i \in DOMAIN me.undo : i = 1 \/ (i - 1 \in DOMAIN q /\ q[i - 1] = me.undo[i])
    BY <2>1, <2>3, Rear
  <2>5. GivesBack(u) BY <2>4 DEF Undoable
  <2>6. \A v : GivesBack(v) => GivesBack(v)' BY <1>a, <2>1 DEF GivesBack, Guessed
  <2>7. \A i \in DOMAIN q : \A w : w = q[i] => GivesBack(w)'
    <3> SUFFICES ASSUME NEW i \in DOMAIN q, NEW w, w = q[i] PROVE GivesBack(w)' OBVIOUS
    <3>1. GivesBack(w) BY <2>4 DEF Undoable
    <3> QED BY <2>6, <3>1
  <2>8. \/ iface' = [iface EXCEPT ![u.setting] = u.on] /\ UNCHANGED stuck
        \/ UNCHANGED iface /\ stuck' = stuck \cup {u.setting}
    BY <1>15 DEF Restore, PutBack
  <2>9. \A t \in Setting : (\E i \in DOMAIN me.undo : me.undo[i].setting = t)
                           => t = u.setting \/ \E i \in DOMAIN q : q[i].setting = t
    BY <2>4
  <2>10. \A t \in Setting \ stuck' : AsItWas(t)' \/ \E i \in DOMAIN q : q[i].setting = t
    <3> SUFFICES ASSUME NEW t \in Setting, t \notin stuck'
                 PROVE  AsItWas(t)' \/ \E i \in DOMAIN q : q[i].setting = t
      OBVIOUS
    <3>1. t \notin stuck BY <2>8
    <3>2. AsItWas(t) \/ \E i \in DOMAIN me.undo : me.undo[i].setting = t
      BY <3>1 DEF Undoable
    <3>3. CASE iface' = [iface EXCEPT ![u.setting] = u.on]
      <4>1. \A w \in Setting : /\ w = u.setting => AsItWas(w)'
                               /\ w # u.setting => (AsItWas(w) => AsItWas(w)')
        <5> HIDE DEF GivesBack, AsItWas
        <5> QED BY <1>a, <2>1, <2>3, <2>4, <2>5, <3>3, GivenBack
      <4> HIDE DEF AsItWas, u, q
      <4> QED BY <2>9, <3>2, <4>1
    <3>4. CASE UNCHANGED iface /\ stuck' = stuck \cup {u.setting}
      <4>1. t # u.setting BY <3>4
      <4>2. AsItWas(t) => AsItWas(t)' BY <1>a, <2>1, <3>4 DEF AsItWas, Guessed
      <4> HIDE DEF AsItWas, u, q
      <4> QED BY <2>9, <3>2, <4>1, <4>2
    <3> QED BY <2>8, <3>3, <3>4
  <2> HIDE DEF u, q, GivesBack, AsItWas
  <2> QED BY <2>2, <2>7, <2>10 DEF Undoable, Ended, At
<1>16. CASE Abort
  <2>1. UNCHANGED <<opt, iface, stuck>> BY <1>16 DEF Abort, world
  <2>2. /\ me'.undo = me.undo
        /\ me'.pc = "ended" => me.undo = <<>> \/ me.pc = "ended"
    BY <1>16, <1>0 DEF Abort, Err, At, Goto, Works, Locals
  <2> QED BY <1>a, <2>1, <2>2, UndoableKept
<1>17. CASE Unrecorded
  <2>1. UNCHANGED <<opt, iface, stuck>> BY <1>17 DEF Unrecorded, world
  <2>2. /\ me'.undo = me.undo
        /\ me'.pc = "ended" => me.undo = <<>> \/ me.pc = "ended"
    BY <1>17, <1>0 DEF Unrecorded, At, Goto, Works, Locals
  <2> QED BY <1>a, <2>1, <2>2, UndoableKept
<1>18. CASE Finish
  <2>1. UNCHANGED <<opt, iface, stuck>> BY <1>18 DEF Finish, world
  <2>2. /\ me'.undo = me.undo
        /\ me'.pc = "ended" => me.undo = <<>> \/ me.pc = "ended"
    BY <1>18, <1>0 DEF Finish, Err, At, Goto, Works, Locals
  <2> QED BY <1>a, <2>1, <2>2, UndoableKept
<1>19. CASE Write
  <2>1. UNCHANGED <<opt, iface, stuck, me>> BY <1>19 DEF Write, world
  <2> QED BY <1>a, <2>1, UndoableKept
<1>20. CASE Rotate
  <2>1. UNCHANGED <<opt, iface, stuck, me>> BY <1>20 DEF Rotate, world
  <2> QED BY <1>a, <2>1, UndoableKept
<1>21. CASE Lose
  <2>1. UNCHANGED <<opt, iface, stuck, me>> BY <1>21 DEF Lose, world
  <2> QED BY <1>a, <2>1, UndoableKept
<1>22. CASE End
  <2>1. UNCHANGED <<opt, iface, stuck, me>> BY <1>22 DEF End, world
  <2> QED BY <1>a, <2>1, UndoableKept
<1>23. CASE Fill
  <2>1. UNCHANGED <<opt, iface, stuck, me>> BY <1>23 DEF Fill, world
  <2> QED BY <1>a, <2>1, UndoableKept
<1>24. CASE Signal
  <2>1. UNCHANGED <<opt, iface, stuck>> BY <1>24 DEF Signal, world
  <2>2. /\ me'.undo = me.undo
        /\ me'.pc = "ended" => me.undo = <<>> \/ me.pc = "ended"
    BY <1>24, <1>0 DEF Signal, At, Goto, Works, Locals
  <2> QED BY <1>a, <2>1, <2>2, UndoableKept
<1>25. CASE UNCHANGED vars
  <2>1. UNCHANGED <<opt, iface, stuck, me>> BY <1>25 DEF vars, world
  <2> QED BY <1>a, <2>1, UndoableKept
<1> QED BY <1>1, <1>2, <1>3, <1>4, <1>5, <1>6, <1>7, <1>8, <1>9, <1>10, <1>11, <1>12,
      <1>13, <1>14, <1>15, <1>16, <1>17, <1>18, <1>19, <1>20, <1>21, <1>22, <1>23,
      <1>24, <1>25
    DEF Next, Run

LEMMA ReportedStep ==
  ASSUME TypeOK, Reported, [Next]_vars
  PROVE  Reported'
<1>0. me \in Locals BY DEF TypeOK
<1>a. failed \subseteq failed' BY FailedGrows
<1>1. CASE Check
  BY <1>1, <1>0, <1>a DEF Check, Err, At, Goto, Works, Fault, Faults, Locals, Reported, Ended
<1>2. CASE Pass
  BY <1>2, <1>0, <1>a DEF Pass, At, Goto, Works, Fault, Faults, Locals, Reported, Ended
<1>3. CASE Apply
  BY <1>3, <1>0, <1>a DEF Apply, At, Goto, Works, Fault, Faults, Locals, Reported, Ended
<1>4. CASE Handlers
  BY <1>4, <1>0, <1>a DEF Handlers, At, Goto, Works, Fault, Faults, Locals, Reported, Ended
<1>5. CASE Spawn
  <2>1. /\ me.pc = "spawn" /\ me'.pc \in {"start", "restore"} /\ me'.error = me.error
        /\ me'.aborts = me.aborts \/ me'.aborts
    BY <1>5, <1>0 DEF Spawn, At, Goto, Locals
  <2>2. "start" # "ended" /\ "restore" # "ended" /\ "spawn" # "ended" OBVIOUS
  <2> QED BY <1>a, <2>1, <2>2 DEF Reported, Ended, At
<1>6. CASE RecordStart
  BY <1>6, <1>0, <1>a DEF RecordStart, At, Goto, Works, Fault, Faults, Locals, Reported, Ended
<1>7. CASE Receive
  <2>1. Goto("exited") \/ Goto("stop child") \/ Goto("exited") BY <1>7, AddGoes DEF Receive
  <2>2. me'.pc \in {"exited", "stop child"} /\ me'.error = me.error /\ me'.aborts = me.aborts
    BY <1>0, <2>1 DEF Locals, Goto
  <2>3. me.pc = "receive" BY <1>7 DEF Receive, At
  <2> QED BY <1>a, <2>2, <2>3 DEF Reported, Ended, At
<1>8. CASE Exited
  BY <1>8, <1>0, <1>a DEF Exited, At, Goto, Works, Fault, Faults, Locals, Reported, Ended
<1>9. CASE Grace
  BY <1>9, <1>0, <1>a DEF Grace, Killed, At, Goto, Works, Fault, Faults, Locals, Reported, Ended
<1>10. CASE Look
  BY <1>10, <1>0, <1>a DEF Look, At, Goto, Works, Fault, Faults, Locals, Reported, Ended
<1>11. CASE Drain
  <2>1. Goto("drain") \/ Goto("stop child") \/ Goto("rest") BY <1>11, AddGoes DEF Drain
  <2>2. me'.pc \in {"drain", "rest", "stop child"} /\ me'.error = me.error /\ me'.aborts = me.aborts
    BY <1>0, <2>1 DEF Locals, Goto
  <2>3. me.pc = "drain" BY <1>11 DEF Drain, At
  <2> QED BY <1>a, <2>2, <2>3 DEF Reported, Ended, At
<1>12. CASE Rest
  <2>1. Goto("rest") \/ Goto("stop child") \/ Goto("record") BY <1>12, AddGoes DEF Rest
  <2>2. me'.pc \in {"rest", "record", "stop child"} /\ me'.error = me.error /\ me'.aborts = me.aborts
    BY <1>0, <2>1 DEF Locals, Goto
  <2>3. me.pc = "rest" BY <1>12 DEF Rest, At
  <2> QED BY <1>a, <2>2, <2>3 DEF Reported, Ended, At
<1>13. CASE StopChild
  BY <1>13, <1>0, <1>a DEF StopChild, Killed, At, Goto, Works, Fault, Faults, Locals, Reported,
      Ended
<1>14. CASE RecordStop
  BY <1>14, <1>0, <1>a DEF RecordStop, Err, At, Goto, Works, Fault, Faults, Locals, Reported, Ended
<1>15. CASE Restore
  <2>1. /\ me.pc = "restore" /\ me'.pc = "restore" /\ me'.aborts = me.aborts
        /\ me'.error = me.error \/ "record" \in failed'
    BY <1>15, <1>0 DEF Restore, PutBack, Faults, At, Locals
  <2> QED BY <1>a, <2>1 DEF Reported, Ended, At
<1>16. CASE Abort
  BY <1>16, <1>0, <1>a DEF Abort, Err, At, Goto, Works, Fault, Faults, Locals, Reported, Ended
<1>17. CASE Unrecorded
  BY <1>17, <1>0, <1>a DEF Unrecorded, At, Goto, Works, Fault, Faults, Locals, Reported, Ended
<1>18. CASE Finish
  BY <1>18, <1>0, <1>a DEF Finish, Err, At, Goto, Works, Fault, Faults, Locals, Reported, Ended
<1>19. CASE Write
  <2>1. UNCHANGED <<me, done>> BY <1>19 DEF Write, world
  <2> QED BY <1>a, <2>1 DEF Reported, Ended, At
<1>20. CASE Rotate
  <2>1. UNCHANGED <<me, done>> BY <1>20 DEF Rotate, world
  <2> QED BY <1>a, <2>1 DEF Reported, Ended, At
<1>21. CASE Lose
  <2>1. UNCHANGED <<me, done>> BY <1>21 DEF Lose, world
  <2> QED BY <1>a, <2>1 DEF Reported, Ended, At
<1>22. CASE End
  <2>1. UNCHANGED <<me, done>> BY <1>22 DEF End, world
  <2> QED BY <1>a, <2>1 DEF Reported, Ended, At
<1>23. CASE Fill
  <2>1. UNCHANGED <<me, done>> BY <1>23 DEF Fill, world
  <2> QED BY <1>a, <2>1 DEF Reported, Ended, At
<1>24. CASE Signal
  BY <1>24, <1>0, <1>a DEF Signal, At, Goto, Works, Fault, Faults, Locals, Reported, Ended
<1>25. CASE UNCHANGED vars
  <2>1. UNCHANGED <<me, done>> BY <1>25 DEF vars, world
  <2> QED BY <1>a, <2>1 DEF Reported, Ended, At
<1> QED BY <1>1, <1>2, <1>3, <1>4, <1>5, <1>6, <1>7, <1>8, <1>9, <1>10, <1>11, <1>12,
      <1>13, <1>14, <1>15, <1>16, <1>17, <1>18, <1>19, <1>20, <1>21, <1>22, <1>23,
      <1>24, <1>25
    DEF Next, Run

(* Where dumpcap goes on with what it has written so far, or has ended.    *)
LEMMA SettledKept ==
  ASSUME Settled, UNCHANGED <<size, named, items>>,
         dumpcap'.state = "running" => /\ dumpcap.state = "running" \/ (items = {} /\ named = <<>>)
                                       /\ dumpcap'.file = dumpcap.file
  PROVE  Settled'
BY DEF Settled, Closed

LEMMA Growing ==
  ASSUME TypeOK, Settled, NEW g \in Files, size' = [size EXCEPT ![g] = size'[g]],
         dumpcap.state = "running", dumpcap'.state = "running",
         dumpcap.file <= g, g = dumpcap'.file, UNCHANGED items,
         \A k \in DOMAIN named' : named'[k] < g
  PROVE  Settled'
<1>1. size \in [Files -> 0..MaxSize] /\ items \subseteq Item BY DEF TypeOK
<1>2. \A f \in Files : f # g => size'[f] = size[f] BY <1>1
<1>3. \A i \in items : i.file \in Files BY <1>1 DEF Item
<1>4. \A f \in Files : f \in Nat BY Bounds DEF Files
<1>5. dumpcap.file \in Nat BY Bounds DEF TypeOK, Children
<1>6. \A i \in items : i.size > 0 => size[i.file] = i.size /\ i.file < dumpcap.file
  BY DEF Settled, Closed
<1>7. \A i \in items : i.size > 0 => i.file < g /\ i.file # g
  BY <1>3, <1>4, <1>5, <1>6
<1>8. \A i \in items : i.size > 0 => size'[i.file] = i.size BY <1>2, <1>3, <1>6, <1>7
<1> QED BY <1>7, <1>8 DEF Settled, Closed

(* A file that is closed is added as it is.                                *)
LEMMA Adding ==
  ASSUME TypeOK, Settled, NEW f \in Files, NEW to, Add(f, to), Closed(f),
         UNCHANGED <<dumpcap, size>>,
         named' = named \/ (named # <<>> /\ named' = Tail(named))
  PROVE  Settled'
<1>1. \A k \in DOMAIN named' : Closed(named'[k])
  <2>1. \A k \in DOMAIN named : Closed(named[k]) BY DEF Settled
  <2>2. named \in Seq(Files) BY DEF TypeOK
  <2>3. CASE named' = named BY <2>1, <2>3
  <2>4. CASE named # <<>> /\ named' = Tail(named)
    <3>1. \A k \in DOMAIN Tail(named) : k + 1 \in DOMAIN named /\ Tail(named)[k] = named[k + 1]
      BY <2>2, <2>4, Rear
    <3> QED BY <2>1, <2>4, <3>1
  <2> QED BY <2>3, <2>4
<1>2. \A i \in items' : i \in items \/ i = [file |-> f, size |-> size[f]]
                        \/ i = [file |-> f, size |-> 0]
  BY DEF Add
<1>3. ~(0 > 0) OBVIOUS
<1>4. \A i \in items' : i.size > 0 => size[i.file] = i.size /\ Closed(i.file)
  BY <1>2, <1>3 DEF Settled
<1>5. \A g : Closed(g)' <=> Closed(g) BY DEF Closed
<1> HIDE DEF Closed
<1> QED BY <1>1, <1>4, <1>5 DEF Settled

LEMMA SettledStep ==
  ASSUME TypeOK, Attended, Settled, [Next]_vars
  PROVE  Settled'
<1>0. dumpcap \in Children BY DEF TypeOK
<1>1. CASE Check
  <2>1. UNCHANGED <<size, named, items>> BY <1>1 DEF Check, capture
  <2>2. dumpcap'.state = "running" => /\ dumpcap.state = "running" \/ (items = {} /\ named = <<>>)
                                      /\ dumpcap'.file = dumpcap.file
    BY <1>1, <1>0 DEF Check, Err, capture, Children
  <2> QED BY <2>1, <2>2, SettledKept
<1>2. CASE Pass
  <2>1. UNCHANGED <<size, named, items>> BY <1>2 DEF Pass, capture
  <2>2. dumpcap'.state = "running" => /\ dumpcap.state = "running" \/ (items = {} /\ named = <<>>)
                                      /\ dumpcap'.file = dumpcap.file
    BY <1>2, <1>0 DEF Pass, capture, Children
  <2> QED BY <2>1, <2>2, SettledKept
<1>3. CASE Apply
  <2>1. UNCHANGED <<size, named, items>> BY <1>3 DEF Apply, capture
  <2>2. dumpcap'.state = "running" => /\ dumpcap.state = "running" \/ (items = {} /\ named = <<>>)
                                      /\ dumpcap'.file = dumpcap.file
    BY <1>3, <1>0 DEF Apply, capture, Children
  <2> QED BY <2>1, <2>2, SettledKept
<1>4. CASE Handlers
  <2>1. UNCHANGED <<size, named, items>> BY <1>4 DEF Handlers, capture
  <2>2. dumpcap'.state = "running" => /\ dumpcap.state = "running" \/ (items = {} /\ named = <<>>)
                                      /\ dumpcap'.file = dumpcap.file
    BY <1>4, <1>0 DEF Handlers, capture, Children
  <2> QED BY <2>1, <2>2, SettledKept
<1>5. CASE Spawn
  <2>1. /\ UNCHANGED <<size, named, items>> /\ me.pc = "spawn"
        /\ \/ dumpcap' = [dumpcap EXCEPT !.state = "running"] \/ UNCHANGED dumpcap
    BY <1>5 DEF Spawn, At
  <2>2. dumpcap'.file = dumpcap.file /\ dumpcap.state # "running"
    BY <1>0, <2>1 DEF Children, Attended
  <2>3. items = {} /\ named = <<>> BY <2>1 DEF Attended
  <2> QED BY <2>1, <2>2, <2>3, SettledKept
<1>6. CASE RecordStart
  <2>1. UNCHANGED <<size, named, items>> BY <1>6 DEF RecordStart, capture
  <2>2. dumpcap'.state = "running" => /\ dumpcap.state = "running" \/ (items = {} /\ named = <<>>)
                                      /\ dumpcap'.file = dumpcap.file
    BY <1>6, <1>0 DEF RecordStart, capture, Children
  <2> QED BY <2>1, <2>2, SettledKept
<1>7. CASE Receive
  <2>1. UNCHANGED <<dumpcap, size>> BY <1>7 DEF Receive
  <2>2. \/ named # <<>> /\ Add(Head(named), "exited") /\ named' = Tail(named)
        \/ UNCHANGED <<items, named>>
    BY <1>7 DEF Receive
  <2>3. CASE named # <<>> /\ Add(Head(named), "exited") /\ named' = Tail(named)
    <3>1. Head(named) \in Files /\ 1 \in DOMAIN named /\ Head(named) = named[1]
      BY <2>3, Rear DEF TypeOK
    <3>2. Closed(Head(named)) BY <3>1 DEF Settled
    <3> QED BY <2>1, <2>3, <3>1, <3>2, Adding
  <2>4. CASE UNCHANGED <<items, named>> BY <2>1, <2>4, SettledKept
  <2> QED BY <2>2, <2>3, <2>4
<1>8. CASE Exited
  <2>1. UNCHANGED <<size, named, items>> BY <1>8 DEF Exited, capture
  <2>2. dumpcap'.state = "running" => /\ dumpcap.state = "running" \/ (items = {} /\ named = <<>>)
                                      /\ dumpcap'.file = dumpcap.file
    BY <1>8, <1>0 DEF Exited, capture, Children
  <2> QED BY <2>1, <2>2, SettledKept
<1>9. CASE Grace
  <2>1. UNCHANGED <<size, named, items>> BY <1>9 DEF Grace, capture
  <2>2. dumpcap'.state = "running" => /\ dumpcap.state = "running" \/ (items = {} /\ named = <<>>)
                                      /\ dumpcap'.file = dumpcap.file
    BY <1>9, <1>0 DEF Grace, Killed, capture, Children
  <2> QED BY <2>1, <2>2, SettledKept
<1>10. CASE Look
  <2>1. UNCHANGED <<size, named, items>> BY <1>10 DEF Look, capture
  <2>2. dumpcap'.state = "running" => /\ dumpcap.state = "running" \/ (items = {} /\ named = <<>>)
                                      /\ dumpcap'.file = dumpcap.file
    BY <1>10, <1>0 DEF Look, capture, Children
  <2> QED BY <2>1, <2>2, SettledKept
<1>11. CASE Drain
  <2>1. UNCHANGED <<dumpcap, size>> BY <1>11 DEF Drain
  <2>2. \/ named # <<>> /\ Add(Head(named), "drain") /\ named' = Tail(named)
        \/ UNCHANGED <<items, named>>
    BY <1>11 DEF Drain
  <2>3. CASE named # <<>> /\ Add(Head(named), "drain") /\ named' = Tail(named)
    <3>1. Head(named) \in Files /\ 1 \in DOMAIN named /\ Head(named) = named[1]
      BY <2>3, Rear DEF TypeOK
    <3>2. Closed(Head(named)) BY <3>1 DEF Settled
    <3> QED BY <2>1, <2>3, <3>1, <3>2, Adding
  <2>4. CASE UNCHANGED <<items, named>> BY <2>1, <2>4, SettledKept
  <2> QED BY <2>2, <2>3, <2>4
<1>12. CASE Rest
  <2> DEFINE left == {f \in Files : size[f] > 0 /\ f \notin Listed}
  <2>1. UNCHANGED <<dumpcap, size, named>> /\ me.pc = "rest" BY <1>12 DEF Rest, capture, At
  <2>2. CASE left = {} BY <1>12, <2>1, <2>2, SettledKept DEF Rest
  <2>3. CASE left # {}
    <3>1. PICK f \in Files : Add(f, "rest") BY <1>12, <2>3, First DEF Rest
    <3>2. Closed(f) BY <2>1 DEF Attended, Closed
    <3> QED BY <2>1, <3>1, <3>2, Adding
  <2> QED BY <2>2, <2>3
<1>13. CASE StopChild
  <2>1. UNCHANGED <<size, named, items>> BY <1>13 DEF StopChild, capture
  <2>2. dumpcap'.state = "running" => /\ dumpcap.state = "running" \/ (items = {} /\ named = <<>>)
                                      /\ dumpcap'.file = dumpcap.file
    BY <1>13, <1>0 DEF StopChild, Killed, capture, Children
  <2> QED BY <2>1, <2>2, SettledKept
<1>14. CASE RecordStop
  <2>1. UNCHANGED <<size, named, items>> BY <1>14 DEF RecordStop, capture
  <2>2. dumpcap'.state = "running" => /\ dumpcap.state = "running" \/ (items = {} /\ named = <<>>)
                                      /\ dumpcap'.file = dumpcap.file
    BY <1>14, <1>0 DEF RecordStop, Err, capture, Children
  <2> QED BY <2>1, <2>2, SettledKept
<1>15. CASE Restore
  <2>1. UNCHANGED <<size, named, items>> BY <1>15 DEF Restore, capture
  <2>2. dumpcap'.state = "running" => /\ dumpcap.state = "running" \/ (items = {} /\ named = <<>>)
                                      /\ dumpcap'.file = dumpcap.file
    BY <1>15, <1>0 DEF Restore, capture, Children
  <2> QED BY <2>1, <2>2, SettledKept
<1>16. CASE Abort
  <2>1. UNCHANGED <<size, named, items>> BY <1>16 DEF Abort, capture
  <2>2. dumpcap'.state = "running" => /\ dumpcap.state = "running" \/ (items = {} /\ named = <<>>)
                                      /\ dumpcap'.file = dumpcap.file
    BY <1>16, <1>0 DEF Abort, Err, capture, Children
  <2> QED BY <2>1, <2>2, SettledKept
<1>17. CASE Unrecorded
  <2>1. UNCHANGED <<size, named, items>> BY <1>17 DEF Unrecorded, capture
  <2>2. dumpcap'.state = "running" => /\ dumpcap.state = "running" \/ (items = {} /\ named = <<>>)
                                      /\ dumpcap'.file = dumpcap.file
    BY <1>17, <1>0 DEF Unrecorded, capture, Children
  <2> QED BY <2>1, <2>2, SettledKept
<1>18. CASE Finish
  <2>1. UNCHANGED <<size, named, items>> BY <1>18 DEF Finish, capture
  <2>2. dumpcap'.state = "running" => /\ dumpcap.state = "running" \/ (items = {} /\ named = <<>>)
                                      /\ dumpcap'.file = dumpcap.file
    BY <1>18, <1>0 DEF Finish, Err, capture, Children
  <2> QED BY <2>1, <2>2, SettledKept
<1>19. CASE Write
  <2>1. PICK f \in Files :
          /\ f = dumpcap.file \/ (f = 1 /\ dumpcap.file = 0)
          /\ size' = [size EXCEPT ![f] = @ + 1]
          /\ dumpcap' = [dumpcap EXCEPT !.file = f]
    BY <1>19 DEF Write
  <2>2. dumpcap'.file = f /\ dumpcap'.state = "running" /\ dumpcap.state = "running"
    BY <1>19, <1>0, <2>1 DEF Write, Children
  <2>3. dumpcap.file <= f
    <3>1. dumpcap.file \in Nat BY <1>0, Bounds DEF Children
    <3> QED BY <2>1, <3>1
  <2>4. UNCHANGED <<named, items>> BY <1>19 DEF Write
  <2>5. \A k \in DOMAIN named' : named'[k] < f
    <3>1. \A k \in DOMAIN named : named[k] < dumpcap.file BY <2>2 DEF Settled, Closed
    <3>2. \A k \in DOMAIN named : named[k] \in Nat BY Bounds DEF TypeOK, Files
    <3>3. dumpcap.file \in Nat /\ f \in Nat BY <1>0, Bounds DEF Children, Files
    <3> QED BY <2>3, <2>4, <3>1, <3>2, <3>3
  <2>6. size' = [size EXCEPT ![f] = size'[f]] BY <2>1 DEF TypeOK
  <2> QED BY <2>2, <2>3, <2>4, <2>5, <2>6, Growing
<1>20. CASE Rotate
  <2> DEFINE g == dumpcap.file + 1
  <2>1. /\ dumpcap.file \in 1..(MaxFiles - 1) /\ dumpcap.state = "running"
        /\ named' = Append(named, dumpcap.file) /\ UNCHANGED items
        /\ size' = [size EXCEPT ![g] = 1]
    BY <1>20 DEF Rotate
  <2>2. dumpcap'.file = g /\ dumpcap'.state = "running"
    BY <1>20, <1>0 DEF Rotate, Children
  <2>3. dumpcap.file \in Files /\ g \in Files /\ dumpcap.file < g /\ dumpcap.file <= g
    BY <2>1, Bounds DEF Files
  <2>4. \A k \in DOMAIN named' : named'[k] < g
    <3>1. \A k \in DOMAIN named : named[k] < dumpcap.file BY <2>1 DEF Settled, Closed
    <3>2. named \in Seq(Files) BY DEF TypeOK
    <3>3. \A k \in DOMAIN named : named[k] \in Nat /\ dumpcap.file \in Nat
      BY <2>3, <3>2, Bounds DEF Files
    <3>4. \A k \in DOMAIN named : named[k] < g BY <2>3, <3>1, <3>3
    <3>5. \A k \in DOMAIN Append(named, dumpcap.file) :
            (k \in DOMAIN named /\ Append(named, dumpcap.file)[k] = named[k])
            \/ Append(named, dumpcap.file)[k] = dumpcap.file
      BY <2>3, <3>2, Longer
    <3> HIDE DEF g
    <3> QED BY <2>1, <2>3, <3>4, <3>5
  <2>5. size' = [size EXCEPT ![g] = size'[g]] BY <2>1, <2>3 DEF TypeOK
  <2>6. \A h \in Files : h = g => Settled'
    <3> SUFFICES ASSUME NEW h \in Files, h = g PROVE Settled' OBVIOUS
    <3> HIDE DEF g
    <3> QED BY <2>1, <2>2, <2>3, <2>4, <2>5, Growing
  <2> QED BY <2>3, <2>6
<1>21. CASE Lose
  <2>1. UNCHANGED <<size, named, items>> BY <1>21 DEF Lose, capture
  <2>2. dumpcap'.state = "running" => /\ dumpcap.state = "running" \/ (items = {} /\ named = <<>>)
                                      /\ dumpcap'.file = dumpcap.file
    BY <1>21, <1>0 DEF Lose, capture, Children
  <2> QED BY <2>1, <2>2, SettledKept
<1>22. CASE End
  <2>1. dumpcap'.state = "ended" /\ UNCHANGED <<size, items>>
    BY <1>22, <1>0 DEF End, Children
  <2> QED BY <2>1 DEF Settled, Closed
<1>23. CASE Fill
  BY <1>23, SettledKept DEF Fill, capture
<1>24. CASE Signal
  <2>1. UNCHANGED <<size, named, items>> BY <1>24 DEF Signal, capture
  <2>2. dumpcap'.state = "running" => /\ dumpcap.state = "running" \/ (items = {} /\ named = <<>>)
                                      /\ dumpcap'.file = dumpcap.file
    BY <1>24, <1>0 DEF Signal, capture, Children
  <2> QED BY <2>1, <2>2, SettledKept
<1>25. CASE UNCHANGED vars
  BY <1>25, SettledKept DEF vars
<1> QED BY <1>1, <1>2, <1>3, <1>4, <1>5, <1>6, <1>7, <1>8, <1>9, <1>10, <1>11, <1>12,
      <1>13, <1>14, <1>15, <1>16, <1>17, <1>18, <1>19, <1>20, <1>21, <1>22, <1>23,
      <1>24, <1>25
    DEF Next, Run

(* Where the directory has not been gone through before, or nothing is     *)
(* written or listed any more.                                             *)
LEMMA CompleteKept ==
  ASSUME Complete, UNCHANGED done,
         done = "done" => UNCHANGED <<me, dumpcap, size, items>>,
         me'.pc \notin {"record", "restore"} \/ (me'.pc = "restore" /\ me'.aborts)
         \/ /\ me.pc = "record" \/ (me.pc = "restore" /\ ~me.aborts)
            /\ UNCHANGED <<size, items>>
  PROVE  Complete'
BY DEF Complete, Ended, At, Listed

LEMMA CompleteStep ==
  ASSUME TypeOK, Attended, Complete, [Next]_vars
  PROVE  Complete'
<1>0. me \in Locals /\ dumpcap \in Children BY DEF TypeOK
<1>1. CASE Check
  <2>1. me.pc = "check" /\ done' \in {done, "open"} BY <1>1 DEF Check, At
  <2>2. done # "done" /\ done' # "done" BY <2>1 DEF Complete, Ended, At
  <2>3. me'.pc \in {"ended", "apply"} BY <1>1, <1>0 DEF Check, Err, Locals
  <2> QED BY <2>2, <2>3 DEF Complete
<1>2. CASE Pass
  <2>1. UNCHANGED <<size, items, done>> /\ me.pc # "ended"
    BY <1>2 DEF Pass, At, capture, world
  <2>2. done # "done" BY <2>1 DEF Complete, Ended, At
  <2>3. \/ me'.pc \notin {"record", "restore"}
        \/ me'.pc = "restore" /\ me'.aborts
        \/ me.pc = "record" \/ (me.pc = "restore" /\ ~me.aborts)
    BY <1>2, <1>0 DEF Pass, At, Goto, Works, Locals
  <2> QED BY <2>1, <2>2, <2>3, CompleteKept
<1>3. CASE Apply
  <2>1. UNCHANGED <<size, items, done>> /\ me.pc # "ended"
    BY <1>3 DEF Apply, At, capture, world
  <2>2. done # "done" BY <2>1 DEF Complete, Ended, At
  <2>3. \/ me'.pc \notin {"record", "restore"}
        \/ me'.pc = "restore" /\ me'.aborts
        \/ me.pc = "record" \/ (me.pc = "restore" /\ ~me.aborts)
    BY <1>3, <1>0 DEF Apply, At, Goto, Works, Locals
  <2> QED BY <2>1, <2>2, <2>3, CompleteKept
<1>4. CASE Handlers
  <2>1. UNCHANGED <<size, items, done>> /\ me.pc # "ended"
    BY <1>4 DEF Handlers, At, capture, world
  <2>2. done # "done" BY <2>1 DEF Complete, Ended, At
  <2>3. \/ me'.pc \notin {"record", "restore"}
        \/ me'.pc = "restore" /\ me'.aborts
        \/ me.pc = "record" \/ (me.pc = "restore" /\ ~me.aborts)
    BY <1>4, <1>0 DEF Handlers, At, Goto, Works, Locals
  <2> QED BY <2>1, <2>2, <2>3, CompleteKept
<1>5. CASE Spawn
  <2>1. UNCHANGED <<size, items, done>> /\ me.pc # "ended"
    BY <1>5 DEF Spawn, At, capture, world
  <2>2. done # "done" BY <2>1 DEF Complete, Ended, At
  <2>3. \/ me'.pc \notin {"record", "restore"}
        \/ me'.pc = "restore" /\ me'.aborts
        \/ me.pc = "record" \/ (me.pc = "restore" /\ ~me.aborts)
    BY <1>5, <1>0 DEF Spawn, At, Goto, Works, Locals
  <2> QED BY <2>1, <2>2, <2>3, CompleteKept
<1>6. CASE RecordStart
  <2>1. UNCHANGED <<size, items, done>> /\ me.pc # "ended"
    BY <1>6 DEF RecordStart, At, capture, world
  <2>2. done # "done" BY <2>1 DEF Complete, Ended, At
  <2>3. \/ me'.pc \notin {"record", "restore"}
        \/ me'.pc = "restore" /\ me'.aborts
        \/ me.pc = "record" \/ (me.pc = "restore" /\ ~me.aborts)
    BY <1>6, <1>0 DEF RecordStart, At, Goto, Works, Locals
  <2> QED BY <2>1, <2>2, <2>3, CompleteKept
<1>7. CASE Receive
  <2>1. Goto("exited") \/ Goto("stop child") \/ Goto("exited") BY <1>7, AddGoes DEF Receive
  <2>2. UNCHANGED done /\ me.pc = "receive" BY <1>7 DEF Receive, At
  <2>3. me'.pc \in {"exited", "exited", "stop child"} BY <1>0, <2>1 DEF Locals, Goto
  <2>4. done # "done" BY <2>2 DEF Complete, Ended, At
  <2> QED BY <2>2, <2>3, <2>4, CompleteKept
<1>8. CASE Exited
  <2>1. UNCHANGED <<size, items, done>> /\ me.pc # "ended"
    BY <1>8 DEF Exited, At, capture, world
  <2>2. done # "done" BY <2>1 DEF Complete, Ended, At
  <2>3. \/ me'.pc \notin {"record", "restore"}
        \/ me'.pc = "restore" /\ me'.aborts
        \/ me.pc = "record" \/ (me.pc = "restore" /\ ~me.aborts)
    BY <1>8, <1>0 DEF Exited, At, Goto, Works, Locals
  <2> QED BY <2>1, <2>2, <2>3, CompleteKept
<1>9. CASE Grace
  <2>1. UNCHANGED <<size, items, done>> /\ me.pc # "ended"
    BY <1>9 DEF Grace, At, capture, world
  <2>2. done # "done" BY <2>1 DEF Complete, Ended, At
  <2>3. \/ me'.pc \notin {"record", "restore"}
        \/ me'.pc = "restore" /\ me'.aborts
        \/ me.pc = "record" \/ (me.pc = "restore" /\ ~me.aborts)
    BY <1>9, <1>0 DEF Grace, Killed, At, Goto, Works, Locals
  <2> QED BY <2>1, <2>2, <2>3, CompleteKept
<1>10. CASE Look
  <2>1. UNCHANGED <<size, items, done>> /\ me.pc # "ended"
    BY <1>10 DEF Look, At, capture, world
  <2>2. done # "done" BY <2>1 DEF Complete, Ended, At
  <2>3. \/ me'.pc \notin {"record", "restore"}
        \/ me'.pc = "restore" /\ me'.aborts
        \/ me.pc = "record" \/ (me.pc = "restore" /\ ~me.aborts)
    BY <1>10, <1>0 DEF Look, At, Goto, Works, Locals
  <2> QED BY <2>1, <2>2, <2>3, CompleteKept
<1>11. CASE Drain
  <2>1. Goto("drain") \/ Goto("stop child") \/ Goto("rest") BY <1>11, AddGoes DEF Drain
  <2>2. UNCHANGED done /\ me.pc = "drain" BY <1>11 DEF Drain, At
  <2>3. me'.pc \in {"drain", "rest", "stop child"} BY <1>0, <2>1 DEF Locals, Goto
  <2>4. done # "done" BY <2>2 DEF Complete, Ended, At
  <2> QED BY <2>2, <2>3, <2>4, CompleteKept
<1>12. CASE Rest
  <2> DEFINE left == {f \in Files : size[f] > 0 /\ f \notin Listed}
  <2>1. UNCHANGED <<size, done>> /\ me.pc = "rest" BY <1>12 DEF Rest, capture, At
  <2>2. done # "done" BY <2>1 DEF Complete, Ended, At
  <2>3. CASE left = {}
    <3>1. UNCHANGED items BY <1>12, <2>3 DEF Rest
    <3>2. \A f \in Files : size[f] > 0 => f \in Listed BY <2>3
    <3> HIDE DEF left
    <3> QED BY <2>1, <2>2, <3>1, <3>2 DEF Complete, Listed
  <2>4. CASE left # {}
    <3>1. PICK f \in Files : Add(f, "rest") BY <1>12, <2>4, First DEF Rest
    <3>2. me'.pc \in {"rest", "stop child"} BY <1>0, <3>1, AddGoes DEF Locals, Goto
    <3> QED BY <2>1, <2>2, <3>2, CompleteKept
  <2> QED BY <2>3, <2>4
<1>13. CASE StopChild
  <2>1. UNCHANGED <<size, items, done>> /\ me.pc # "ended"
    BY <1>13 DEF StopChild, At, capture, world
  <2>2. done # "done" BY <2>1 DEF Complete, Ended, At
  <2>3. \/ me'.pc \notin {"record", "restore"}
        \/ me'.pc = "restore" /\ me'.aborts
        \/ me.pc = "record" \/ (me.pc = "restore" /\ ~me.aborts)
    BY <1>13, <1>0 DEF StopChild, Killed, At, Goto, Works, Locals
  <2> QED BY <2>1, <2>2, <2>3, CompleteKept
<1>14. CASE RecordStop
  <2>1. UNCHANGED <<size, items, done>> /\ me.pc # "ended"
    BY <1>14 DEF RecordStop, At, capture, world
  <2>2. done # "done" BY <2>1 DEF Complete, Ended, At
  <2>3. \/ me'.pc \notin {"record", "restore"}
        \/ me'.pc = "restore" /\ me'.aborts
        \/ me.pc = "record" \/ (me.pc = "restore" /\ ~me.aborts)
    BY <1>14, <1>0 DEF RecordStop, Err, At, Goto, Works, Locals
  <2> QED BY <2>1, <2>2, <2>3, CompleteKept
<1>15. CASE Restore
  <2>1. UNCHANGED <<size, items, done>> /\ me.pc # "ended"
    BY <1>15 DEF Restore, At, capture, world
  <2>2. done # "done" BY <2>1 DEF Complete, Ended, At
  <2>3. \/ me'.pc \notin {"record", "restore"}
        \/ me'.pc = "restore" /\ me'.aborts
        \/ me.pc = "record" \/ (me.pc = "restore" /\ ~me.aborts)
    BY <1>15, <1>0 DEF Restore, At, Goto, Works, Locals
  <2> QED BY <2>1, <2>2, <2>3, CompleteKept
<1>16. CASE Abort
  <2>1. /\ UNCHANGED <<size, items>> /\ me.pc = "restore" /\ Err("ended")
        /\ done' = "aborted" \/ UNCHANGED done
    BY <1>16 DEF Abort, At, capture
  <2>2. done # "done" /\ done' # "done" BY <2>1 DEF Complete, Ended, At
  <2>3. me'.pc = "ended" BY <1>0, <2>1 DEF Err, Locals
  <2> QED BY <2>2, <2>3 DEF Complete
<1>17. CASE Unrecorded
  <2>1. UNCHANGED <<size, items, done>> /\ me.pc # "ended"
    BY <1>17 DEF Unrecorded, At, capture, world
  <2>2. done # "done" BY <2>1 DEF Complete, Ended, At
  <2>3. \/ me'.pc \notin {"record", "restore"}
        \/ me'.pc = "restore" /\ me'.aborts
        \/ me.pc = "record" \/ (me.pc = "restore" /\ ~me.aborts)
    BY <1>17, <1>0 DEF Unrecorded, At, Goto, Works, Locals
  <2> QED BY <2>1, <2>2, <2>3, CompleteKept
<1>18. CASE Finish
  <2>1. /\ UNCHANGED <<size, items, dumpcap>> /\ me.pc = "restore" /\ ~me.aborts
        /\ \/ me' = [me EXCEPT !.pc = "ended", !.code = Code] /\ done' = "done"
           \/ Err("ended") /\ UNCHANGED done
    BY <1>18 DEF Finish, At, capture
  <2>2. done # "done" BY <2>1 DEF Complete, Ended, At
  <2>3. me'.pc = "ended" BY <1>0, <2>1 DEF Err, Locals
  <2>4. CASE UNCHANGED done BY <2>2, <2>3, <2>4, CompleteKept
  <2>5. CASE me' = [me EXCEPT !.pc = "ended", !.code = Code] /\ done' = "done"
    <3>1. me'.code = Code /\ ~me'.aborts BY <1>0, <2>1, <2>5 DEF Locals
    <3>2. dumpcap.stats /\ dumpcap.lost => Code # 0 BY DEF Code
    <3>3. \A f \in Files : size[f] > 0 => f \in Listed BY <2>1 DEF Complete
    <3> QED BY <2>1, <2>3, <3>1, <3>2, <3>3 DEF Complete, Ended, At, Listed
  <2> QED BY <2>1, <2>4, <2>5
<1>19. CASE Write
  <2>1. UNCHANGED <<me, done>> /\ dumpcap.state = "running" BY <1>19 DEF Write
  <2>2. me.pc \notin {"record", "restore", "ended"} \/ (me.pc # "record" /\ me.aborts)
    BY <2>1 DEF Attended
  <2>3. done # "done" BY <2>2 DEF Complete, Ended, At
  <2> QED BY <2>1, <2>2, <2>3, CompleteKept
<1>20. CASE Rotate
  <2>1. UNCHANGED <<me, done>> /\ dumpcap.state = "running" BY <1>20 DEF Rotate
  <2>2. me.pc \notin {"record", "restore", "ended"} \/ (me.pc # "record" /\ me.aborts)
    BY <2>1 DEF Attended
  <2>3. done # "done" BY <2>2 DEF Complete, Ended, At
  <2> QED BY <2>1, <2>2, <2>3, CompleteKept
<1>21. CASE Lose
  <2>1. UNCHANGED <<me, done>> /\ dumpcap.state = "running" BY <1>21 DEF Lose
  <2>2. me.pc \notin {"record", "restore", "ended"} \/ (me.pc # "record" /\ me.aborts)
    BY <2>1 DEF Attended
  <2>3. done # "done" BY <2>2 DEF Complete, Ended, At
  <2> QED BY <2>1, <2>2, <2>3, CompleteKept
<1>22. CASE End
  <2>1. UNCHANGED <<me, done>> /\ dumpcap.state = "running" BY <1>22 DEF End
  <2>2. me.pc \notin {"record", "restore", "ended"} \/ (me.pc # "record" /\ me.aborts)
    BY <2>1 DEF Attended
  <2>3. done # "done" BY <2>2 DEF Complete, Ended, At
  <2> QED BY <2>1, <2>2, <2>3, CompleteKept
<1>23. CASE Fill
  <2>1. UNCHANGED <<me, dumpcap, size, items, done>> BY <1>23 DEF Fill, capture
  <2> QED BY <2>1 DEF Complete, Ended, At, Listed
<1>24. CASE Signal
  <2>1. UNCHANGED <<size, items, done>> /\ ~Ended BY <1>24 DEF Signal, Ended
  <2>2. done # "done" BY <2>1 DEF Complete
  <2>3. UNCHANGED me \/ Goto("interrupted") BY <1>24 DEF Signal
  <2>4. CASE UNCHANGED me BY <2>1, <2>2, <2>4, CompleteKept DEF Complete, Listed, Ended, At
  <2>5. CASE Goto("interrupted")
    <3>1. me'.pc = "interrupted" BY <1>0, <2>5 DEF Goto, Locals
    <3> QED BY <2>1, <2>2, <3>1, CompleteKept
  <2> QED BY <2>3, <2>4, <2>5
<1>25. CASE UNCHANGED vars
  <2>1. UNCHANGED <<me, dumpcap, size, items, done>> BY <1>25 DEF vars
  <2> QED BY <2>1 DEF Complete, Ended, At, Listed
<1> QED BY <1>1, <1>2, <1>3, <1>4, <1>5, <1>6, <1>7, <1>8, <1>9, <1>10, <1>11, <1>12,
      <1>13, <1>14, <1>15, <1>16, <1>17, <1>18, <1>19, <1>20, <1>21, <1>22, <1>23,
      <1>24, <1>25
    DEF Next, Run

LEMMA Kept ==
  ASSUME [Next]_vars
  PROVE  items \subseteq items'
<1>1. CASE Check
  BY <1>1 DEF Check, Err
<1>2. CASE Pass
  BY <1>2 DEF Pass
<1>3. CASE Apply
  BY <1>3 DEF Apply
<1>4. CASE Handlers
  BY <1>4 DEF Handlers
<1>5. CASE Spawn
  BY <1>5 DEF Spawn
<1>6. CASE RecordStart
  BY <1>6 DEF RecordStart
<1>7. CASE Receive
  BY <1>7 DEF Receive, Add
<1>8. CASE Exited
  BY <1>8 DEF Exited
<1>9. CASE Grace
  BY <1>9 DEF Grace, Killed
<1>10. CASE Look
  BY <1>10 DEF Look
<1>11. CASE Drain
  BY <1>11 DEF Drain, Add
<1>12. CASE Rest
  BY <1>12 DEF Rest, Add
<1>13. CASE StopChild
  BY <1>13 DEF StopChild, Killed
<1>14. CASE RecordStop
  BY <1>14 DEF RecordStop, Err
<1>15. CASE Restore
  BY <1>15 DEF Restore
<1>16. CASE Abort
  BY <1>16 DEF Abort, Err
<1>17. CASE Unrecorded
  BY <1>17 DEF Unrecorded
<1>18. CASE Finish
  BY <1>18 DEF Finish, Err
<1>19. CASE Write
  BY <1>19 DEF Write
<1>20. CASE Rotate
  BY <1>20 DEF Rotate
<1>21. CASE Lose
  BY <1>21 DEF Lose
<1>22. CASE End
  BY <1>22 DEF End
<1>23. CASE Fill
  BY <1>23 DEF Fill
<1>24. CASE Signal
  BY <1>24 DEF Signal
<1>25. CASE UNCHANGED vars
  BY <1>25 DEF vars
<1> QED BY <1>1, <1>2, <1>3, <1>4, <1>5, <1>6, <1>7, <1>8, <1>9, <1>10, <1>11, <1>12,
      <1>13, <1>14, <1>15, <1>16, <1>17, <1>18, <1>19, <1>20, <1>21, <1>22, <1>23,
      <1>24, <1>25
    DEF Next, Run

----------------------------------------------------------------------------
(* The theorems *)

LEMMA Initially == ASSUME Init PROVE IInv
<1>1. opt \in Start /\ iface \in Interface /\ iface = opt.iface
  BY Options DEF Init
<1>2. /\ me = [pc |-> "check", next |-> 1, undo |-> <<>>, error |-> FALSE, aborts |-> FALSE,
               features |-> FALSE, signalled |-> FALSE, since |-> 0, code |-> 0]
      /\ dumpcap = [state |-> "none", told |-> FALSE, ok |-> FALSE, stats |-> FALSE,
                    lost |-> FALSE, file |-> 0]
      /\ size = [f \in Files |-> 0] /\ named = <<>> /\ items = {}
      /\ done = "none" /\ stuck = {} /\ failed = {}
  BY DEF Init
<1>3. /\ 0 \in 0..(GraceTurns + 1) /\ 0 \in 0..MaxFiles /\ 0 \in 0..MaxSize
      /\ 0 \in 0..MaxSignals
  BY Bounds
<1>4. 1 \in 1..(Len(Order) + 1) /\ <<>> \in Seq(Undos) BY Settings
<1>5. me \in Locals BY <1>2, <1>3, <1>4 DEF Locals, Undos
<1>6. dumpcap \in Children BY <1>2, <1>3 DEF Children
<1>7. TypeOK
  <2>1. size \in [Files -> 0..MaxSize] BY <1>2, <1>3
  <2>2. named \in Seq(Files) /\ items \subseteq Item /\ failed \subseteq Kinds BY <1>2
  <2>3. signals \in 0..MaxSignals /\ stop \in BOOLEAN /\ scarce \in BOOLEAN /\ handled \in BOOLEAN
    BY <1>3 DEF Init
  <2>4. done \in {"none", "open", "aborted", "done"} /\ stuck \subseteq Setting BY <1>2
  <2> QED BY <1>1, <1>5, <1>6, <2>1, <2>2, <2>3, <2>4 DEF TypeOK
<1>8. Attended BY <1>2 DEF Attended
<1>9. Prepared
  <2>1. \A n \in 1..Len(Order) : iface[Order[n]] = opt.iface[Order[n]] BY <1>1
  <2> QED BY <1>2, <2>1 DEF Prepared, Known
<1>10. Undoable
  <2>1. DOMAIN me.undo = {} BY <1>2
  <2>2. \A s \in Setting : AsItWas(s) BY <1>1 DEF AsItWas
  <2> QED BY <1>2, <2>1, <2>2 DEF Undoable
<1>11. Reported BY <1>2 DEF Reported, Ended, At
<1>12. Settled
  <2>1. DOMAIN named = {} BY <1>2
  <2> QED BY <1>2, <2>1 DEF Settled
<1>13. Complete
  <2>1. me.pc = "check" /\ done = "none" BY <1>2
  <2> QED BY <2>1 DEF Complete
<1> QED BY <1>7, <1>8, <1>9, <1>10, <1>11, <1>12, <1>13 DEF IInv

LEMMA Invariant == Spec => []IInv
<1>1. IInv /\ [Next]_vars => IInv'
  BY TypeStep, AttendedStep, PreparedStep, UndoableStep, ReportedStep, SettledStep,
     CompleteStep DEF IInv
<1> QED BY Initially, <1>1, PTL DEF Spec

(* Every variable keeps its type.                                          *)
THEOREM TypeCorrect == Spec => []TypeOK
<1>1. IInv => TypeOK BY DEF IInv
<1> QED BY <1>1, Invariant, PTL

(* As long as dumpcap captures, the offloads and a silent interface's own  *)
(* traffic are off, but for what could not be read: no label at which      *)
(* dumpcap may run comes before a setting has been made or after one has   *)
(* been given back, unless a failing try_wait had stop_child leave dumpcap *)
(* alone (pcap.rs 163-182, 346-397, 420-438, 561-566).                     *)
THEOREM Quiet == Spec => []QuietWhileCapturing
<1>1. IInv => QuietWhileCapturing
  <2> SUFFICES ASSUME IInv, dumpcap.state = "running", "reap" \notin failed
               PROVE  QuietWhileCapturing
    BY DEF QuietWhileCapturing
  <2>1. me.pc \notin {"check", "apply", "restore", "ended", "interrupted"}
    BY DEF IInv, Attended
  <2>2. \A s \in Setting : QuietAs(s) BY <2>1 DEF IInv, Prepared
  <2>3. opt.silent /\ opt.ipv4 => "addresses" \in failed BY <2>1 DEF IInv, Prepared, Known
  <2> QED BY <2>2, <2>3 DEF QuietAs, QuietWhileCapturing, Setting
<1> QED BY <1>1, Invariant, PTL

(* A run that has returned has given back each setting whose own undo      *)
(* worked, whatever else failed before and after it, has left no dumpcap   *)
(* behind that could be asked for its state, and has finished the          *)
(* collection, unless a record of the end or the finishing failed          *)
(* (Changes::restore 229-245, run 561-607).                                *)
THEOREM SettingsRestored == Spec => []Restored
<1>1. IInv => Restored
  <2> SUFFICES ASSUME IInv, Ended PROVE Restored BY DEF Restored
  <2>1. dumpcap.state = "running" => "reap" \in failed BY DEF IInv, Attended, Ended, At
  <2>2. me.undo = <<>> BY DEF IInv, Undoable
  <2>3. DOMAIN me.undo = {} BY <2>2
  <2>4. \A s \in Setting \ stuck : AsItWas(s) BY <2>3 DEF IInv, Undoable
  <2>5. failed \cap {"record", "finish"} = {} => done # "open" BY DEF IInv, Reported
  <2> QED BY <2>1, <2>4, <2>5 DEF Restored, AsItWas, Guessed
<1> QED BY <1>1, Invariant, PTL

(* A collection that is done lists every file of the capture, and its exit *)
(* code tells of a loss that dumpcap reported (run 542-560, 609-655).      *)
THEOREM EveryFile == Spec => []EveryFileListed
<1>1. IInv => EveryFileListed BY DEF IInv, Complete, EveryFileListed
<1> QED BY <1>1, Invariant, PTL

(* What has been hashed does not grow: dumpcap names a file once it has    *)
(* closed it, and the directory is gone through after it has ended (run    *)
(* 498-506, 542-560).                                                      *)
THEOREM Unchanging == Spec => HashedIsClosed
<1>1. IInv /\ IInv' /\ [Next]_vars => \A i \in items : i.size > 0 => size'[i.file] = i.size
  <2> SUFFICES ASSUME IInv, IInv', [Next]_vars, NEW i \in items, i.size > 0
               PROVE  size'[i.file] = i.size
    OBVIOUS
  <2>1. items \subseteq items' BY Kept
  <2> QED BY <2>1 DEF IInv, Settled
<1>2. IInv /\ IInv' /\ [Next]_vars
      => [\A i \in items : i.size > 0 => size'[i.file] = i.size]_vars
  BY <1>1
<1> QED BY <1>2, Invariant, PTL DEF Spec, HashedIsClosed
=============================================================================
