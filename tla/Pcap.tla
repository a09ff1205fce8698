-------------------------------- MODULE Pcap --------------------------------
(***************************************************************************)
(* `dfnet pcap` (pcap.rs): one run, from the checks to the exit code.      *)
(* It changes settings of the interface, runs dumpcap beside itself, lists *)
(* and hashes the files that dumpcap closes, stops it, restores the        *)
(* settings and finishes the collection.  Signals, a target that fills, a  *)
(* dumpcap that rotates, loses packets, hangs or fails, and failing calls  *)
(* come at any point.  What a file holds is its number of packets, + 1.    *)
(***************************************************************************)
EXTENDS Naturals, Sequences, FiniteSets

CONSTANTS
  Start,        \* options and interfaces to start with
  MaxFiles,     \* bound: files dumpcap writes
  MaxSize,      \* bound: what a file holds
  GraceTurns,   \* turns of the loop within the grace period
  MaxSignals,   \* bound: Ctrl-C or SIGTERM
  MaxFaults     \* bound: kinds of call that fail

Setting == {"gro", "lro", "ipv6", "arp", "up"}
Files == 1..MaxFiles
Interface == [Setting -> BOOLEAN]

ASSUME ConstantsAssumption ==
  /\ {MaxFiles, MaxSize, GraceTurns, MaxSignals, MaxFaults} \subseteq Nat
  /\ Start \subseteq [keep : BOOLEAN, silent : BOOLEAN, iface : Interface,
                     carrier : BOOLEAN, ipv4 : BOOLEAN]

VARIABLES
  opt,       \* the options, and the interface as it was
  iface,     \* the interface as it is
  me,        \* the locals of run, and what it returns
  handled,   \* SIGINT and SIGTERM have their handler
  dumpcap,   \* the child
  size,      \* capture files on the target, 0 where there is none
  named,     \* names that dumpcap has printed and run has not received
  items,     \* files in the collection, size 0 for one that cannot be hashed
  done,      \* the collection: none yet, open, or how it was finished
  stop,      \* STOP
  scarce,    \* less than MIN_FREE is free
  signals,   \* signals so far
  stuck,     \* history: the settings whose undo failed
  failed     \* history: the kinds of call that failed

vars == <<opt, iface, me, handled, dumpcap, size, named, items, done, stop, scarce,
          signals, stuck, failed>>
capture == <<dumpcap, size, named>>
world == <<opt, stop, scarce, signals, stuck>>

Kinds == {"check", "features", "addresses", "value", "flags", "operstate", "change", "undo",
          "record", "spawn", "hash", "add", "wait", "reap", "finish"}
Works == UNCHANGED failed

(* What failed once may fail again: a full target fails every record.      *)
Faults(kinds) == /\ Cardinality(failed \cup kinds) <= MaxFaults
                 /\ failed' = failed \cup kinds
Fault(kind) == Faults({kind})

At(label) == me.pc = label
Goto(label) == me' = [me EXCEPT !.pc = label]
Err(label) == me' = [me EXCEPT !.pc = label, !.error = TRUE]

Init ==
  /\ opt \in Start /\ iface = opt.iface
  /\ me = [pc |-> "check", next |-> 1, undo |-> <<>>, error |-> FALSE, aborts |-> FALSE,
           features |-> FALSE, signalled |-> FALSE, since |-> 0, code |-> 0]
  /\ handled = FALSE
  /\ dumpcap = [state |-> "none", told |-> FALSE, ok |-> FALSE, stats |-> FALSE,
                lost |-> FALSE, file |-> 0]
  /\ size = [f \in Files |-> 0] /\ named = <<>>
  /\ items = {} /\ done = "none" /\ stop = FALSE /\ scarce = FALSE
  /\ signals = 0 /\ stuck = {} /\ failed = {}

----------------------------------------------------------------------------
(* Preparing the interface *)

Order == <<"gro", "lro", "ipv6", "arp", "up">>

(* GRO and LRO go by the features that were read.  The link is brought up  *)
(* when operstate says down: so it does as well for an interface that is   *)
(* up and has no carrier.                                                  *)
Wanted(s) ==
  /\ s \in {"gro", "lro"} => ~opt.keep /\ me.features /\ iface[s]
  /\ s \in {"ipv6", "arp", "up"} => opt.silent
  /\ s = "arp" => iface[s]
  /\ s = "up" => ~(iface[s] /\ opt.carrier)

(* Refused: no such interface, no dumpcap, a bad target, or IPv4 addresses *)
(* with --silent.  Nobody looks whether `ethtool -k` and `ip addr` worked: *)
(* without their answer no feature is on, and there are no addresses.      *)
Check ==
  /\ At("check")
  /\ \/ Err("ended") /\ Fault("check") /\ UNCHANGED done
     \/ \E unread \in SUBSET {"features", "addresses"} :
          /\ Faults(unread)
          /\ IF opt.silent /\ opt.ipv4 /\ "addresses" \notin unread
             THEN Err("ended") /\ UNCHANGED done
             ELSE /\ me' = [me EXCEPT !.pc = "apply", !.features = "features" \notin unread]
                  /\ done' = "open"
  /\ UNCHANGED <<iface, handled, capture, items, world>>

Undo(s) == [setting |-> s, on |-> IF s = "ipv6" THEN iface[s] ELSE s # "up",
            blank |-> FALSE]

(* What undoes IPv6 when `sysctl -n` failed: 0 if it could not be run, and *)
(* no value at all, which sysctl will refuse, if it printed nothing.       *)
Guesses == {[setting |-> "ipv6", on |-> TRUE, blank |-> b] : b \in BOOLEAN}

(* A setting that is as it should be is passed over; so are ARP, when the  *)
(* flags, and the link, when its state cannot be read.                     *)
Pass ==
  /\ At("apply") /\ me.next <= Len(Order)
  /\ \/ ~Wanted(Order[me.next]) /\ Works
     \/ Order[me.next] = "arp" /\ Fault("flags")
     \/ Order[me.next] = "up" /\ Fault("operstate")
  /\ me' = [me EXCEPT !.next = @ + 1]
  /\ UNCHANGED <<iface, handled, capture, items, done, world>>

(* Changes::apply; a change that fails, or whose record fails, ends it.    *)
Apply ==
  /\ At("apply") /\ me.next <= Len(Order) /\ Wanted(Order[me.next])
  /\ LET s == Order[me.next]
     IN \/ \E u \in {Undo(s)} \cup Guesses, recorded \in BOOLEAN :
             /\ u.setting = s
             /\ iface' = [iface EXCEPT ![s] = (s = "up")]
             /\ me' = [me EXCEPT !.next = @ + 1, !.undo = <<u>> \o @, !.aborts = ~recorded,
                                 !.pc = IF recorded THEN @ ELSE "restore"]
             /\ Faults({k \in {"value"} : u # Undo(s)} \cup {k \in {"record"} : ~recorded})
        \/ /\ me' = [me EXCEPT !.pc = "restore", !.aborts = TRUE]
           /\ UNCHANGED iface /\ Fault("change")
  /\ UNCHANGED <<handled, capture, items, done, world>>

Handlers ==
  /\ At("apply") /\ me.next > Len(Order)
  /\ Goto("spawn") /\ handled' = TRUE
  /\ Works /\ UNCHANGED <<iface, capture, items, done, world>>

Spawn ==
  /\ At("spawn")
  /\ \/ Goto("start") /\ dumpcap' = [dumpcap EXCEPT !.state = "running"] /\ Works
     \/ /\ me' = [me EXCEPT !.pc = "restore", !.aborts = TRUE]
        /\ UNCHANGED dumpcap /\ Fault("spawn")
  /\ UNCHANGED <<iface, handled, size, named, items, done, world>>

(* The record capture_start.                                               *)
RecordStart ==
  /\ At("start")
  /\ (Goto("receive") /\ Works) \/ (Goto("stop child") /\ Fault("record"))
  /\ UNCHANGED <<iface, handled, capture, items, done, world>>

----------------------------------------------------------------------------
(* The loop *)

Listed == {i.file : i \in items}

(* `add`: the next label is "to" unless the item cannot be added.          *)
Add(f, to) ==
  \/ f \in Listed /\ Goto(to) /\ Works /\ UNCHANGED items
  \/ /\ f \notin Listed
     /\ \/ items' = items \cup {[file |-> f, size |-> size[f]]} /\ Goto(to) /\ Works
        \/ items' = items \cup {[file |-> f, size |-> 0]} /\ Goto(to) /\ Fault("hash")
        \/ UNCHANGED items /\ Goto("stop child") /\ Fault("add")

(* Mutant: every file that there is, is listed at once.                    *)
ReceiveAny ==
  /\ At("receive")
  /\ \/ \E f \in Files : size[f] > 0 /\ Add(f, "exited")
     \/ Goto("exited") /\ Works /\ UNCHANGED items
  /\ UNCHANGED <<named, iface, handled, dumpcap, size, done, world>>

Receive ==
  /\ At("receive")
  /\ \/ named # <<>> /\ Add(Head(named), "exited") /\ named' = Tail(named)
     \/ Goto("exited") /\ Works /\ UNCHANGED <<items, named>>
  /\ UNCHANGED <<iface, handled, dumpcap, size, done, world>>

(* Ctrl-C reaches dumpcap directly too.                                    *)
Exited ==
  /\ At("exited")
  /\ \/ dumpcap.state = "running" /\ Goto("grace") /\ Works
     \/ /\ dumpcap.state # "running" /\ Works
        /\ me' = [me EXCEPT !.pc = "drain", !.signalled = @ \/ stop]
     \/ Goto("stop child") /\ Fault("wait")
  /\ UNCHANGED <<iface, handled, capture, items, done, world>>

(* Mutant: dumpcap is waited for.                                          *)
GraceWithoutEnd ==
  /\ At("grace")
  /\ Goto("look")
  /\ Works /\ UNCHANGED <<iface, handled, capture, items, done, world>>

Killed(d) == IF d.state = "running" THEN [d EXCEPT !.state = "killed"] ELSE d

(* Mutant: the time of the signal is kept when dumpcap is killed.          *)
GraceOverAndOver ==
  /\ At("grace")
  /\ \/ me.since = 0 /\ Goto("look") /\ UNCHANGED dumpcap
     \/ /\ me.since > 0
        /\ me' = [me EXCEPT !.pc = "look", !.since = @ + 1]
        /\ dumpcap' \in {dumpcap, Killed(dumpcap)}
  /\ Works /\ UNCHANGED <<iface, handled, size, named, items, done, world>>

(* The grace period ends after GraceTurns turns at the latest.             *)
Grace ==
  /\ At("grace")
  /\ \/ me.since = 0 /\ Goto("look") /\ UNCHANGED dumpcap
     \/ /\ me.since \in 1..GraceTurns
        /\ me' = [me EXCEPT !.pc = "look", !.since = @ + 1] /\ UNCHANGED dumpcap
     \/ /\ me.since > 0
        /\ me' = [me EXCEPT !.pc = "look", !.since = 0] /\ dumpcap' = Killed(dumpcap)
  /\ Works /\ UNCHANGED <<iface, handled, size, named, items, done, world>>

Look ==
  /\ At("look")
  /\ IF ~me.signalled /\ (stop \/ scarce)
     THEN /\ me' = [me EXCEPT !.pc = "receive", !.signalled = TRUE, !.since = 1]
          /\ dumpcap' = [dumpcap EXCEPT !.told = TRUE]
     ELSE Goto("receive") /\ UNCHANGED dumpcap
  /\ Works /\ UNCHANGED <<iface, handled, size, named, items, done, world>>

(* Lines printed before dumpcap exited, until 200 ms pass without one.     *)
Drain ==
  /\ At("drain")
  /\ \/ named # <<>> /\ Add(Head(named), "drain") /\ named' = Tail(named)
     \/ Goto("rest") /\ Works /\ UNCHANGED <<items, named>>
  /\ UNCHANGED <<iface, handled, dumpcap, size, done, world>>

(* Mutant: only the files that dumpcap named.                              *)
RestLeft ==
  /\ At("rest")
  /\ Goto("record") /\ Works
  /\ UNCHANGED <<items, iface, handled, capture, done, world>>

(* The files of the directory, in the order of their names.                *)
Rest ==
  /\ At("rest")
  /\ LET left == {f \in Files : size[f] > 0 /\ f \notin Listed} IN
       IF left = {} THEN Goto("record") /\ Works /\ UNCHANGED items
       ELSE Add(CHOOSE f \in left : \A g \in left : f <= g, "rest")
  /\ UNCHANGED <<iface, handled, capture, done, world>>

----------------------------------------------------------------------------
(* The end *)

(* Mutant: the settings are restored with dumpcap still running.           *)
StopChildLater ==
  /\ At("stop child")
  /\ me' = [me EXCEPT !.pc = "restore", !.aborts = TRUE]
  /\ dumpcap' = [dumpcap EXCEPT !.told = TRUE]
  /\ Works /\ UNCHANGED <<iface, handled, size, named, items, done, world>>

(* SIGINT, and SIGKILL after the grace period.  When dumpcap's state       *)
(* cannot be asked for, it is taken for reaped, and left as it is.         *)
StopChild ==
  /\ At("stop child")
  /\ \/ /\ dumpcap.state = "running" /\ ~dumpcap.told
        /\ dumpcap' = [dumpcap EXCEPT !.told = TRUE] /\ UNCHANGED me /\ Works
     \/ /\ dumpcap.state = "running" => dumpcap.told
        /\ dumpcap' = Killed(dumpcap)
        /\ me' = [me EXCEPT !.pc = "restore", !.aborts = TRUE] /\ Works
     \/ /\ me' = [me EXCEPT !.pc = "restore", !.aborts = TRUE]
        /\ UNCHANGED dumpcap /\ Fault("reap")
  /\ UNCHANGED <<iface, handled, size, named, items, done, world>>

(* capture_stop, whose failure is returned once the settings are restored. *)
RecordStop ==
  /\ At("record")
  /\ (Goto("restore") /\ Works) \/ (Err("restore") /\ Fault("record"))
  /\ UNCHANGED <<iface, handled, capture, items, done, world>>

(* The undo is run, whether it works or not, and recorded or not.          *)
PutBack(u, undone, recorded) ==
  /\ IF undone THEN iface' = [iface EXCEPT ![u.setting] = u.on] /\ UNCHANGED stuck
     ELSE UNCHANGED iface /\ stuck' = stuck \cup {u.setting}
  /\ undone => ~u.blank
  /\ Faults({k \in {"undo"} : ~undone /\ ~u.blank} \cup {k \in {"record"} : ~recorded})

(* Mutant: the first undo that fails ends it.                              *)
RestoreUntilError ==
  /\ At("restore") /\ me.undo # <<>>
  /\ \E undone, recorded \in BOOLEAN :
       /\ PutBack(Head(me.undo), undone, recorded)
       /\ me' = [me EXCEPT !.undo = IF undone THEN Tail(@) ELSE <<>>,
                           !.error = @ \/ ~recorded]
  /\ UNCHANGED <<opt, handled, capture, items, done, stop, scarce, signals>>

(* Changes::restore, newest first; an undo that fails is reported.         *)
Restore ==
  /\ At("restore") /\ me.undo # <<>>
  /\ \E undone, recorded \in BOOLEAN :
       /\ PutBack(Head(me.undo), undone, recorded)
       /\ me' = [me EXCEPT !.undo = Tail(@), !.error = @ \/ ~recorded]
  /\ UNCHANGED <<opt, handled, capture, items, done, stop, scarce, signals>>

(* finish(Aborted); the run returns an error in any case.                  *)
Abort ==
  /\ At("restore") /\ me.undo = <<>> /\ me.aborts
  /\ Err("ended")
  /\ (done' = "aborted" /\ Works) \/ (UNCHANGED done /\ Fault("finish"))
  /\ UNCHANGED <<iface, handled, capture, items, world>>

(* `recorded?; restored?`                                                  *)
Unrecorded ==
  /\ At("restore") /\ me.undo = <<>> /\ ~me.aborts /\ me.error
  /\ Goto("ended") /\ Works
  /\ UNCHANGED <<iface, handled, capture, items, done, world>>

Acquired == \E i \in items : i.size > 0
(* dumpcap's drops are known from the statistics it prints as it ends.     *)
Code ==
  IF ~(dumpcap.ok \/ me.signalled) THEN 6
  ELSE IF ~Acquired THEN 4
  ELSE IF dumpcap.stats /\ dumpcap.lost THEN 7 ELSE 0

Finish ==
  /\ At("restore") /\ me.undo = <<>> /\ ~me.aborts /\ ~me.error
  /\ \/ me' = [me EXCEPT !.pc = "ended", !.code = Code] /\ done' = "done" /\ Works
     \/ Err("ended") /\ UNCHANGED done /\ Fault("finish")
  /\ UNCHANGED <<iface, handled, capture, items, world>>

----------------------------------------------------------------------------
(* dumpcap: it names a file on stdout when it has closed it. *)

Write ==
  /\ dumpcap.state = "running"
  /\ \E f \in Files :
       /\ f = dumpcap.file \/ (f = 1 /\ dumpcap.file = 0)
       /\ size[f] < MaxSize
       /\ size' = [size EXCEPT ![f] = @ + 1]
       /\ dumpcap' = [dumpcap EXCEPT !.file = f]
  /\ UNCHANGED <<iface, me, handled, named, items, done, failed, world>>

Rotate ==
  /\ dumpcap.state = "running" /\ dumpcap.file \in 1..(MaxFiles - 1)
  /\ named' = Append(named, dumpcap.file)
  /\ size' = [size EXCEPT ![dumpcap.file + 1] = 1]
  /\ dumpcap' = [dumpcap EXCEPT !.file = @ + 1]
  /\ UNCHANGED <<iface, me, handled, items, done, failed, world>>

Lose ==
  /\ dumpcap.state = "running" /\ ~dumpcap.lost
  /\ dumpcap' = [dumpcap EXCEPT !.lost = TRUE]
  /\ UNCHANGED <<iface, me, handled, size, named, items, done, failed, world>>

(* At its duration or told to, with its statistics; or it fails.           *)
End ==
  /\ dumpcap.state = "running"
  /\ \/ /\ dumpcap.file > 0
        /\ dumpcap' = [dumpcap EXCEPT !.state = "ended", !.ok = TRUE, !.stats = TRUE]
        /\ named' = Append(named, dumpcap.file)
     \/ dumpcap' = [dumpcap EXCEPT !.state = "ended"] /\ UNCHANGED named
  /\ UNCHANGED <<iface, me, handled, size, items, done, failed, world>>

Fill ==
  /\ ~scarce /\ scarce' = TRUE
  /\ UNCHANGED <<opt, iface, me, handled, capture, items, done, stop, signals, stuck, failed>>

(* Without the handler a signal ends dfnet; Ctrl-C goes to dumpcap as well *)
(* (SIGTERM does not).                                                     *)
Signal ==
  /\ ~At("ended") /\ ~At("interrupted") /\ signals < MaxSignals
  /\ signals' = signals + 1
  /\ IF handled THEN stop' = TRUE /\ UNCHANGED me ELSE UNCHANGED stop /\ Goto("interrupted")
  /\ dumpcap' \in {dumpcap, [dumpcap EXCEPT !.told = @ \/ dumpcap.state = "running"]}
  /\ UNCHANGED <<opt, iface, handled, size, named, items, done, scarce, stuck, failed>>

Run ==
  \/ Check \/ Pass \/ Apply \/ Handlers \/ Spawn \/ RecordStart
  \/ Receive \/ Exited \/ Grace \/ Look \/ Drain \/ Rest
  \/ StopChild \/ RecordStop \/ Restore \/ Abort \/ Unrecorded \/ Finish

Next == Run \/ Write \/ Rotate \/ Lose \/ End \/ Fill \/ Signal

Spec == Init /\ [][Next]_vars

(* The process runs; dumpcap owes nothing, and one that is killed is gone. *)
FairSpec == Spec /\ WF_vars(Run)

----------------------------------------------------------------------------
(* Properties *)

Ended == At("ended")

Undos == [setting : Setting, on : BOOLEAN, blank : BOOLEAN]
Locals == [
  pc : {"check", "apply", "spawn", "start", "receive", "exited", "grace", "look", "drain",
        "rest", "stop child", "record", "restore", "ended", "interrupted"},
  next : 1..(Len(Order) + 1), undo : Seq(Undos),
  error : BOOLEAN, aborts : BOOLEAN, features : BOOLEAN, signalled : BOOLEAN,
  since : 0..(GraceTurns + 1), code : {0, 4, 6, 7}]

Children == [state : {"none", "running", "ended", "killed"}, told : BOOLEAN,
             ok : BOOLEAN, stats : BOOLEAN, lost : BOOLEAN, file : 0..MaxFiles]
Item == [file : Files, size : 0..MaxSize]

(* Every variable keeps its type.                                          *)
TypeOK ==
  /\ opt \in Start /\ iface \in Interface /\ me \in Locals /\ handled \in BOOLEAN
  /\ dumpcap \in Children
  /\ size \in [Files -> 0..MaxSize] /\ named \in Seq(Files) /\ items \subseteq Item
  /\ done \in {"none", "open", "aborted", "done"}
  /\ stop \in BOOLEAN /\ scarce \in BOOLEAN /\ signals \in 0..MaxSignals
  /\ stuck \subseteq Setting /\ failed \subseteq Kinds

(* As long as dumpcap captures, GRO and LRO are off, and a silent          *)
(* interface sends nothing: also on the way out of any failure.  What the  *)
(* code cannot read it leaves alone, so that GRO and LRO stay on after a   *)
(* failing `ethtool -k`, ARP without the flags and IPv4 addresses after a  *)
(* failing `ip addr`; and a dumpcap whose state cannot be asked for is not *)
(* stopped before the settings go back.                                    *)
QuietWhileCapturing ==
  dumpcap.state = "running" /\ "reap" \notin failed =>
    /\ ~opt.keep /\ "features" \notin failed => ~iface["gro"] /\ ~iface["lro"]
    /\ opt.silent => /\ ~iface["ipv6"]
                     /\ iface["arp"] => "flags" \in failed
                     /\ opt.ipv4 => "addresses" \in failed

(* Once the run has returned, with or without an error, no dumpcap is left *)
(* behind that could be asked for its state; each setting is as it was,    *)
(* unless its own undo failed, whatever else failed before and after it    *)
(* (but IPv6 is guessed when its old value could not be read); and the     *)
(* collection is finished, unless a record of the end or the finishing     *)
(* itself failed.  (A link that is up but has no carrier was taken for     *)
(* down, and is left down.)                                                *)
Restored ==
  Ended =>
    /\ dumpcap.state = "running" => "reap" \in failed
    /\ \A s \in Setting \ stuck :
         \/ iface[s] = opt.iface[s]
         \/ s = "ipv6" /\ "value" \in failed
         \/ s = "up" /\ opt.iface[s] /\ ~opt.carrier
    /\ failed \cap {"record", "finish"} = {} => done # "open"

(* A file whose hash is in the collection does not grow any more.          *)
HashedIsClosed ==
  [][\A i \in items : i.size > 0 => size'[i.file] = i.size]_vars

(* A collection that is done lists every file of the capture, whether or   *)
(* not dumpcap named it and whether or not its name arrived in time, and   *)
(* a loss that dumpcap reported is in the exit code.                       *)
EveryFileListed ==
  done = "done" => /\ \A f \in Files : size[f] > 0 => f \in Listed
                   /\ Ended /\ dumpcap.stats /\ dumpcap.lost => me.code # 0

(* A stop, or a target nearly full, ends the capture, even when dumpcap    *)
(* does not react.                                                         *)
StopEnds == (stop \/ scarce) /\ ~At("interrupted") ~> (Ended \/ At("interrupted"))

----------------------------------------------------------------------------
(* What is said and the code does not do *)

(* "Both settings are restored afterwards", on Ctrl-C too.                 *)
RestoredOnSignal ==
  Ended \/ At("interrupted") => \A s \in Setting \ {"up"} : iface[s] = opt.iface[s]
=============================================================================
