-------------------------------- MODULE Ssh --------------------------------
(***************************************************************************)
(* `dfnet ssh start` and `dfnet ssh stop` (ssh.rs), one invocation after   *)
(* the other, call by call, around what they share: the session directory, *)
(* the systemd unit dfnet-sshd, the firewall, the journal.  sshd may fail, *)
(* hang or die at any time, the examiner may log in whenever it listens    *)
(* behind an open port, calls may fail (the questions to systemd as well)  *)
(* and invocations be killed.                                              *)
(* A file is named by the number of the invocation that wrote it.          *)
(* (The sweep of the firewall is one step here; Openings has it in full.)  *)
(***************************************************************************)
EXTENDS Naturals

CONSTANTS
  Endpoint,   \* --bind and --port
  MaxRuns,    \* bound: invocations
  Where,      \* per invocation, the endpoint it is given
  MaxProbes,  \* attempts to connect (50 in the code)
  MaxLogins,  \* bound: logins
  MaxFaults,  \* bound: calls that fail
  MaxKills    \* bound: invocations killed

ASSUME ConstantsAssumption ==
  /\ {MaxRuns, MaxProbes, MaxLogins, MaxFaults, MaxKills} \subseteq Nat
  /\ Where \in [1..MaxRuns -> Endpoint]

VARIABLES
  pc,         \* the next call, or how the last invocation ended
  run,        \* the number of this invocation
  probes,     \* attempts to connect that are left
  seen,       \* logins read from the journal
  dir,        \* the session directory, with the writer of each file
  unit,       \* dfnet-sshd: its state, and whose configuration it read
  rules,      \* endpoints with an opening tagged dfnet-ssh:
  journal,    \* logins accepted since boot
  audit,      \* logins in ssh_stop records, invocations with an ssh_start
  failed,     \* history: a call of this invocation failed
  owed,       \* history: logins accepted before this invocation
  blind,      \* history: starts to which systemd gave no answer
  budget      \* the bounded choices made so far

vars == <<pc, run, probes, seen, dir, unit, rules, journal, audit, failed, owed,
          blind, budget>>
system == <<dir, unit, rules, journal, audit>>

Files == {"keys", "host", "config", "state"}
Login == [number : Nat, key : Nat, by : Nat]
NoDir == [there |-> FALSE, file |-> [f \in Files |-> 0]]
NoUnit == [state |-> "none", by |-> 0]

----------------------------------------------------------------------------
Works == UNCHANGED <<budget, failed>>
Fault == /\ budget.faults < MaxFaults
         /\ budget' = [budget EXCEPT !.faults = @ + 1]
         /\ failed' = TRUE

Step(from, to) == pc = from /\ pc' = to
Alone == UNCHANGED <<run, probes, seen, owed, blind>>
(* `?`                                                                     *)
Breaks(from) == Step(from, "error") /\ Fault /\ UNCHANGED system /\ Alone

Running == unit.state \in {"starting", "listening"}

(* Mutant: a unit that is still starting is not seen.                      *)
UnitActiveListening(answer) == answer = (unit.state = "listening") /\ Works

(* `systemctl is-active`: when it fails, nothing seems to run.             *)
UnitActive(answer) ==
  \/ answer = Running /\ Works
  \/ Running /\ ~answer /\ Fault

Init ==
  /\ pc = "idle" /\ run = 0 /\ probes = 0 /\ seen = {} /\ owed = {}
  /\ dir = NoDir /\ unit = NoUnit /\ rules = {} /\ journal = {}
  /\ blind = {}
  /\ audit = [started |-> {}, logins |-> {}]
  /\ failed = FALSE /\ budget = [faults |-> 0, kills |-> 0]

Ended == pc \in {"idle", "error", "done", "open", "killed"}

(* Mutant: one attempt more (0..=50).                                      *)
AttemptsInclusive == MaxProbes + 1
Attempts == MaxProbes

Begin ==
  /\ Ended /\ run < MaxRuns
  /\ pc' \in {"active", "read state"} /\ run' = run + 1
  /\ probes' = Attempts /\ seen' = {}
  /\ failed' = FALSE /\ owed' = journal
  /\ UNCHANGED <<system, blind, budget>>

----------------------------------------------------------------------------
(* start *)

Active ==
  /\ \E answer \in BOOLEAN :
       UnitActive(answer) /\ Step("active", IF answer THEN "error" ELSE "reset")
  /\ blind' = IF failed' THEN blind \cup {run} ELSE blind
  /\ UNCHANGED system /\ UNCHANGED <<run, probes, seen, owed>>

(* reset-failed, whose result is ignored.                                  *)
ResetUnit(from, to) ==
  /\ Step(from, to)
  /\ \/ unit' = (IF unit.state = "failed" THEN NoUnit ELSE unit) /\ Works
     \/ unit.state = "failed" /\ UNCHANGED unit /\ Fault
  /\ UNCHANGED <<dir, rules, journal, audit>> /\ Alone

(* remove_tagged passes over a rule that it cannot delete.                 *)
SweepRules(from, to) ==
  /\ Step(from, to)
  /\ (rules' = {} /\ Works) \/ (UNCHANGED rules /\ Fault)
  /\ UNCHANGED <<dir, unit, journal, audit>> /\ Alone

(* sshd listens where this invocation would.                               *)
Answers == unit.state = "listening" /\ Where[unit.by] = Where[run]

(* The port must be free, and the key file hold a key.                     *)
Preflight ==
  \/ Breaks("preflight")
  \/ /\ pc = "preflight"
     /\ Step("preflight", IF Answers THEN "error" ELSE "wipe")
     /\ Works /\ UNCHANGED system /\ Alone

(* remove_dir_all                                                          *)
RemoveDir ==
  \/ dir' = NoDir /\ Works
  \/ dir.there /\ dir' \in {dir, [dir EXCEPT !.file["keys"] = 0]} /\ Fault

Wipe ==
  /\ RemoveDir
  /\ Step("wipe", IF dir'.there THEN "error" ELSE "mkdir")
  /\ UNCHANGED <<unit, rules, journal, audit>> /\ Alone

MakeDir ==
  \/ Breaks("mkdir")
  \/ /\ Step("mkdir", "keys")
     /\ dir' = [dir EXCEPT !.there = TRUE]
     /\ Works /\ UNCHANGED <<unit, rules, journal, audit>> /\ Alone

(* create_new, and ssh-keygen, which overwrites no key; either may fail    *)
(* when the file is there, and is not complete.                            *)
WriteFile(name, to) ==
  \/ Breaks(name)
  \/ /\ LET free == dir.there /\ dir.file[name] = 0 IN
          /\ dir' = IF free THEN [dir EXCEPT !.file[name] = run] ELSE dir
          /\ \/ Step(name, IF free THEN to ELSE "error") /\ Works
             \/ Step(name, "error") /\ Fault
     /\ UNCHANGED <<unit, rules, journal, audit>> /\ Alone

(* sshd -t                                                                 *)
Try ==
  \/ Breaks("try")
  \/ Step("try", "opening") /\ Works /\ UNCHANGED system /\ Alone

Open ==
  \/ Breaks("opening")
  \/ /\ Step("opening", "systemd-run")
     /\ rules' = rules \cup {Where[run]}
     /\ Works /\ UNCHANGED <<dir, unit, journal, audit>> /\ Alone

(* systemd refuses a unit that is loaded, failed ones included.            *)
SystemdRun ==
  /\ \/ /\ unit = NoUnit
        /\ Step("systemd-run", "probe")
        /\ unit' = [state |-> "starting", by |-> run] /\ Works
     \/ unit # NoUnit /\ Step("systemd-run", "stop unit") /\ UNCHANGED unit /\ Works
     \/ Step("systemd-run", "stop unit") /\ UNCHANGED unit /\ Fault
  /\ UNCHANGED <<dir, rules, journal, audit>> /\ Alone

(* One attempt to connect, and a look at the unit.                         *)
Probe ==
  /\ pc = "probe"
  /\ \/ Answers /\ pc' = "state" /\ Works /\ UNCHANGED probes
     \/ /\ ~Answers
        /\ \E answer \in BOOLEAN :
             /\ UnitActive(answer)
             /\ pc' = IF ~answer \/ probes <= 1 THEN "stop unit" ELSE "probe"
        /\ probes' = IF probes > 0 THEN probes - 1 ELSE 0
  /\ UNCHANGED system /\ UNCHANGED <<run, seen, owed, blind>>

(* The error branch; every result is ignored.                              *)
StopUnit ==
  /\ Step("stop unit", "reset unit")
  /\ \/ unit' = (IF Running THEN NoUnit ELSE unit) /\ Works
     \/ UNCHANGED unit /\ Fault
  /\ UNCHANGED <<dir, rules, journal, audit>> /\ Alone

(* Mutant: the error is returned with the opening still there.             *)
CloseForgotten ==
  /\ Step("close", "remove")
  /\ Works /\ UNCHANGED system /\ Alone

Close ==
  /\ Step("close", "remove")
  /\ (rules' = rules \ {Where[run]} /\ Works) \/ (UNCHANGED rules /\ Fault)
  /\ UNCHANGED <<dir, unit, journal, audit>> /\ Alone

Remove ==
  /\ Step("remove", "error")
  /\ RemoveDir
  /\ UNCHANGED <<unit, rules, journal, audit>> /\ Alone

AuditStart ==
  /\ Step("audit", "open")
  /\ audit' = [audit EXCEPT !.started = @ \cup {run}]
  /\ Works /\ UNCHANGED <<dir, unit, rules, journal>> /\ Alone

----------------------------------------------------------------------------
(* stop *)

(* Mutant: only the logins of the session that state.json tells of.        *)
ReadJournalOfSession ==
  /\ Step("read state", "stop active")
  /\ seen' = {l \in journal : l.by = dir.file["state"]}
  /\ Works /\ UNCHANGED system /\ UNCHANGED <<run, probes, owed, blind>>

(* state.json, which only the record repeats, and the journal; one that    *)
(* cannot be read is empty.                                                *)
ReadJournal ==
  /\ Step("read state", "stop active")
  /\ (seen' = journal /\ Works) \/ (UNCHANGED seen /\ Fault)
  /\ UNCHANGED system /\ UNCHANGED <<run, probes, owed, blind>>

(* What does not seem to run is not stopped.                               *)
StopActive ==
  \/ Running /\ Breaks("stop active")
  \/ /\ Step("stop active", "stop reset")
     /\ \E answer \in BOOLEAN :
          UnitActive(answer) /\ unit' = IF answer THEN NoUnit ELSE unit
     /\ UNCHANGED <<dir, rules, journal, audit>> /\ Alone

StopWipe ==
  /\ RemoveDir
  /\ Step("stop wipe", IF dir'.there THEN "error" ELSE "audit stop")
  /\ UNCHANGED <<unit, rules, journal, audit>> /\ Alone

AuditStop ==
  /\ Step("audit stop", "done")
  /\ audit' = [audit EXCEPT !.logins = @ \cup seen]
  /\ Works /\ UNCHANGED <<dir, unit, rules, journal>> /\ Alone

----------------------------------------------------------------------------
(* sshd reads its configuration and host key when it starts; it may fail,  *)
(* hang (by doing nothing) or die.                                         *)
Sshd ==
  /\ \/ /\ unit.state = "starting"
        /\ dir.file["config"] # 0 /\ dir.file["host"] # 0
        /\ unit' = [state |-> "listening", by |-> dir.file["config"]]
     \/ Running /\ unit' = [unit EXCEPT !.state = "failed"]
  /\ UNCHANGED <<pc, run, probes, seen, dir, rules, journal, audit,
                 failed, owed, blind, budget>>

(* authorized_keys is read at every login.                                 *)
LogIn ==
  /\ unit.state = "listening" /\ Where[unit.by] \in rules /\ dir.file["keys"] # 0
  /\ \E n \in 1..MaxLogins :
       /\ \A l \in journal : l.number < n
       /\ \A m \in 1..(n - 1) : \E l \in journal : l.number = m
       /\ journal' = journal \cup {[number |-> n, key |-> dir.file["keys"], by |-> unit.by]}
  /\ UNCHANGED <<pc, run, probes, seen, dir, unit, rules, audit, failed, owed,
                 blind, budget>>

Kill ==
  /\ ~Ended /\ budget.kills < MaxKills
  /\ pc' = "killed"
  /\ budget' = [budget EXCEPT !.kills = @ + 1]
  /\ UNCHANGED system /\ UNCHANGED <<run, probes, seen, owed, blind, failed>>

Starting ==
  \/ Active \/ ResetUnit("reset", "sweep") \/ SweepRules("sweep", "preflight")
  \/ Preflight \/ Wipe \/ MakeDir
  \/ WriteFile("keys", "host") \/ WriteFile("host", "config") \/ WriteFile("config", "try")
  \/ Try \/ Open \/ SystemdRun \/ Probe \/ WriteFile("state", "audit") \/ AuditStart
  \/ StopUnit \/ ResetUnit("reset unit", "close") \/ Close \/ Remove

Stopping ==
  \/ ReadJournal \/ StopActive \/ ResetUnit("stop reset", "stop sweep")
  \/ SweepRules("stop sweep", "stop wipe") \/ StopWipe \/ AuditStop

Next == Begin \/ Starting \/ Stopping \/ Kill \/ Sshd \/ LogIn

Spec == Init /\ [][Next]_vars

----------------------------------------------------------------------------
(* Properties *)

Labels == {"idle", "error", "done", "open", "killed", "active", "reset", "sweep",
           "preflight", "wipe", "mkdir", "try", "opening", "systemd-run", "probe",
           "audit", "stop unit", "reset unit", "close", "remove", "read state",
           "stop active", "stop reset", "stop sweep", "stop wipe", "audit stop"}
          \cup Files

Directories == [there : BOOLEAN, file : [Files -> 0..MaxRuns]]
Units == [state : {"none", "starting", "listening", "failed"}, by : 0..MaxRuns]
Records == [started : SUBSET (1..MaxRuns), logins : SUBSET Login]
Budgets == [faults : 0..MaxFaults, kills : 0..MaxKills]

(* Every variable keeps its type.                                          *)
TypeOK ==
  /\ pc \in Labels /\ run \in 0..MaxRuns /\ probes \in 0..MaxProbes
  /\ seen \in SUBSET Login /\ owed \in SUBSET Login /\ journal \in SUBSET Login
  /\ dir \in Directories /\ unit \in Units /\ rules \in SUBSET Endpoint
  /\ audit \in Records /\ failed \in BOOLEAN /\ blind \subseteq 1..MaxRuns
  /\ budget \in Budgets

(* "Only the given public keys log in": whatever starts failed, were       *)
(* killed or were tried again before, a login is with the keys of the      *)
(* session that it enters.  (A start that gets no answer from systemd goes *)
(* on, and puts its keys under an sshd that runs: the one exception.)      *)
OwnKeysOnly == \A l \in journal : l.key = l.by \/ l.key \in blind

(* "stop ends sshd, closes the port, deletes the host key and the keys",   *)
(* in whatever state kills and failures left them; and a start whose sshd  *)
(* does not listen leaves as little.  (Each if its own calls work.)        *)
LeavesNothing ==
  [][ \/ pc = "audit stop" /\ pc' = "done"
      \/ pc = "remove" /\ pc' = "error"
      => failed' \/ (~Running /\ rules = {} /\ ~dir'.there) ]_vars

(* "records every accepted login": a session that died, or whose start was *)
(* killed, has no stop of its own; the next stop records its logins.       *)
EarlierLoginsRecorded == pc = "done" /\ ~failed => owed \subseteq audit.logins
=============================================================================
