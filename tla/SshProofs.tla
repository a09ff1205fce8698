----------------------------- MODULE SshProofs -----------------------------
(***************************************************************************)
(* `dfnet ssh` for any endpoints and ports given, any number of            *)
(* invocations, attempts, logins, failures and kills.  One invocation      *)
(* depends on what all those before it left; the invariant says, by the    *)
(* next call, what of that is gone (`Prepared`, `Swept`, `Stopped`), and   *)
(* of the session that may be running whose files it can read              *)
(* (`OwnSession`).                                                         *)
(***************************************************************************)
EXTENDS Ssh, TLAPS

(* A start until it runs sshd.                                             *)
Preparing == {"reset", "sweep", "preflight", "wipe", "mkdir", "keys", "host", "config",
              "try", "opening", "systemd-run"}

Numbered == pc # "idle" => run > 0

(* A start that had its answer has found no sshd, and none comes up before *)
(* it runs its own; after the directory is wiped the files are its own.    *)
Prepared ==
  /\ pc \in Preparing => ~Running \/ run \in blind
  /\ pc \in {"mkdir", "keys"} => dir.file["keys"] = 0
  /\ pc \in {"mkdir", "keys", "host", "config"} => dir.file["config"] = 0
  /\ pc \in {"host", "config", "try", "opening", "systemd-run"} => dir.file["keys"] = run
  /\ pc \in {"try", "opening", "systemd-run"} => dir.file["config"] = run

(* An sshd that runs finds the keys of its own invocation, or none, or     *)
(* those of a start without an answer; which wrote the configuration as    *)
(* well, if there is one that sshd has yet to read.                        *)
OwnSession ==
  /\ Running => dir.file["keys"] \in {0, unit.by} \cup blind
  /\ dir.file["config"] # 0 => dir.file["keys"] \in {0, dir.file["config"]}

(* Rules left by others go in the sweep; a start that breaks off takes its *)
(* sshd and then its own rule with it.                                     *)
Swept ==
  ~failed =>
    /\ pc \in {"preflight", "wipe", "mkdir", "keys", "host", "config", "try", "opening",
               "remove", "stop wipe", "audit stop"} => rules = {}
    /\ pc \in {"systemd-run", "probe", "stop unit", "reset unit", "close"} =>
         rules \subseteq {Where[run]}
    /\ pc \in {"reset unit", "close", "remove"} => ~Running

(* What stop has ended stays ended while it goes on.                       *)
Stopped ==
  /\ pc \in {"stop reset", "stop sweep", "stop wipe", "audit stop"} /\ ~failed => ~Running
  /\ pc = "audit stop" => ~dir.there

(* Logins of earlier invocations are still in the journal when it is read, *)
(* and what was read reaches the record.                                   *)
Accounted ==
  /\ owed \subseteq journal
  /\ pc \in {"stop active", "stop reset", "stop sweep", "stop wipe", "audit stop"}
     /\ ~failed => owed \subseteq seen
  /\ EarlierLoginsRecorded

IInv == /\ TypeOK /\ Numbered /\ Prepared /\ OwnSession /\ OwnKeysOnly
        /\ Swept /\ Stopped /\ Accounted

----------------------------------------------------------------------------
(* Types *)

LEMMA Bounds ==
  /\ MaxRuns \in Nat /\ MaxProbes \in Nat /\ MaxLogins \in Nat
  /\ MaxFaults \in Nat /\ MaxKills \in Nat
BY ConstantsAssumption

LEMMA Numbers ==
  ASSUME TypeOK, Numbered, pc # "idle"
  PROVE  run \in 1..MaxRuns /\ Where[run] \in Endpoint /\ run \in 0..MaxRuns
<1>1. run \in 0..MaxRuns /\ run > 0 BY DEF TypeOK, Numbered
<1>2. run \in 1..MaxRuns BY <1>1, Bounds
<1> QED BY <1>2, ConstantsAssumption

LEMMA NoThings == NoDir \in Directories /\ NoUnit \in Units
BY Bounds DEF NoDir, NoUnit, Directories, Units

LEMMA BudgetType ==
  ASSUME TypeOK, Works \/ Fault
  PROVE  budget' \in Budgets /\ failed' \in BOOLEAN
<1>1. CASE Works BY <1>1 DEF TypeOK, Works
<1>2. CASE Fault
  <2>1. budget.faults \in 0..MaxFaults BY DEF TypeOK, Budgets
  <2>2. budget.faults + 1 \in 0..MaxFaults BY <1>2, <2>1, Bounds DEF Fault
  <2> QED BY <1>2, <2>2 DEF TypeOK, Fault, Budgets
<1> QED BY <1>1, <1>2

(* An answer, and what it tells.                                           *)
LEMMA Answered ==
  ASSUME NEW answer \in BOOLEAN, UnitActive(answer)
  PROVE  /\ Works \/ Fault
         /\ answer => Running
         /\ ~answer => ~Running \/ failed'
         /\ failed => failed'
BY DEF UnitActive, Works, Fault

(* A unit that failed is cleared, or not; one that runs is left alone.     *)
LEMMA Reset ==
  ASSUME NEW from, NEW to, ResetUnit(from, to)
  PROVE  /\ pc = from /\ pc' = to
         /\ UNCHANGED <<dir, rules, journal, audit, run, probes, seen, owed, blind>>
         /\ unit' \in {unit, NoUnit} /\ (Works \/ Fault)
         /\ failed => failed'
         /\ Running' => Running /\ unit' = unit
BY DEF ResetUnit, Step, Alone, NoUnit, Running, Works, Fault

LEMMA LabelTypes ==
  {"idle", "error", "done", "open", "killed", "active", "reset", "sweep", "preflight",
   "wipe", "mkdir", "try", "opening", "systemd-run", "probe", "audit", "stop unit",
   "reset unit", "close", "remove", "read state", "stop active", "stop reset",
   "stop sweep", "stop wipe", "audit stop", "keys", "host", "config", "state"}
    \subseteq Labels
BY DEF Labels, Files

LEMMA InitType == Init => TypeOK
<1> SUFFICES ASSUME Init PROVE TypeOK
  OBVIOUS
<1>1. audit \in Records /\ budget \in Budgets BY Bounds DEF Init, Records, Budgets
<1>2. 0 \in 0..MaxRuns /\ 0 \in 0..MaxProbes BY Bounds
<1> QED BY <1>1, <1>2, NoThings, LabelTypes DEF Init, TypeOK

(* What a directory, a unit and the rules become is of their type.         *)
LEMMA RemoveDirType ==
  ASSUME TypeOK, RemoveDir
  PROVE  dir' \in Directories /\ (Works \/ Fault)
<1>1. dir \in Directories BY DEF TypeOK
<1>2. [dir EXCEPT !.file["keys"] = 0] \in Directories BY <1>1, Bounds DEF Directories
<1> QED BY <1>1, <1>2, NoThings DEF RemoveDir

LEMMA TypeStep ==
  ASSUME TypeOK, Numbered, Next
  PROVE  TypeOK'
<1>1. CASE Begin
  <2>1. run \in 0..MaxRuns /\ run < MaxRuns /\ run' = run + 1 /\ probes' = MaxProbes
    BY <1>1 DEF TypeOK, Begin, Attempts
  <2>2. run' \in 0..MaxRuns /\ probes' \in 0..MaxProbes BY <2>1, Bounds
  <2> QED BY <1>1, <2>2, LabelTypes DEF TypeOK, Begin, system
<1>2. CASE Active
  <2>1. pc # "idle" /\ (Works \/ Fault) BY <1>2, Answered DEF Active, Step
  <2>2. blind' \subseteq 1..MaxRuns BY <1>2, <2>1, Numbers DEF TypeOK, Active
  <2> QED BY <1>2, <2>1, <2>2, BudgetType, LabelTypes DEF TypeOK, Active, Step, system
<1>3. CASE ResetUnit("reset", "sweep")
  <2>0. /\ pc = "reset" /\ pc' = "sweep"
        /\ UNCHANGED <<dir, rules, journal, audit, run, probes, seen, owed, blind>>
        /\ unit' \in {unit, NoUnit} /\ (Works \/ Fault)
        /\ failed => failed'
        /\ Running' => Running /\ unit' = unit
    BY <1>3, Reset
  <2>1. unit' \in Units BY <2>0, NoThings DEF TypeOK
  <2> QED BY <2>0, <2>1, BudgetType, LabelTypes DEF TypeOK
<1>4. CASE SweepRules("sweep", "preflight")
  BY <1>4, BudgetType, LabelTypes DEF TypeOK, SweepRules, Step, Alone
<1>5. CASE Preflight
  BY <1>5, BudgetType, LabelTypes DEF TypeOK, Preflight, Breaks, Step, Alone, system
<1>6. CASE Wipe
  <2>1. dir' \in Directories /\ (Works \/ Fault) BY <1>6, RemoveDirType DEF Wipe
  <2> QED BY <1>6, <2>1, BudgetType, LabelTypes DEF TypeOK, Wipe, Step, Alone
<1>7. CASE MakeDir
  <2>1. dir' \in Directories
    BY <1>7 DEF TypeOK, MakeDir, Breaks, system, Directories
  <2> QED BY <1>7, <2>1, BudgetType, LabelTypes
      DEF TypeOK, MakeDir, Breaks, Step, Alone, system
<1>8. CASE WriteFile("keys", "host")
  <2>1. /\ dir' \in Directories /\ (Works \/ Fault)
        /\ UNCHANGED <<unit, rules, journal, audit, run, probes, seen, owed, blind>>
    <3>1. dir' = dir \/ dir' = [dir EXCEPT !.file["keys"] = run]
      BY <1>8 DEF WriteFile, Breaks, system
    <3>2. dir' \in Directories
      BY <3>1 DEF TypeOK, Directories, Files
    <3> QED BY <1>8, <3>2 DEF WriteFile, Breaks, Alone, system
  <2>2. pc' \in Labels BY <1>8, LabelTypes DEF WriteFile, Breaks, Step
  <2> QED BY <2>1, <2>2, BudgetType DEF TypeOK
<1>9. CASE WriteFile("host", "config")
  <2>1. /\ dir' \in Directories /\ (Works \/ Fault)
        /\ UNCHANGED <<unit, rules, journal, audit, run, probes, seen, owed, blind>>
    <3>1. dir' = dir \/ dir' = [dir EXCEPT !.file["host"] = run]
      BY <1>9 DEF WriteFile, Breaks, system
    <3>2. dir' \in Directories
      BY <3>1 DEF TypeOK, Directories, Files
    <3> QED BY <1>9, <3>2 DEF WriteFile, Breaks, Alone, system
  <2>2. pc' \in Labels BY <1>9, LabelTypes DEF WriteFile, Breaks, Step
  <2> QED BY <2>1, <2>2, BudgetType DEF TypeOK
<1>10. CASE WriteFile("config", "try")
  <2>1. /\ dir' \in Directories /\ (Works \/ Fault)
        /\ UNCHANGED <<unit, rules, journal, audit, run, probes, seen, owed, blind>>
    <3>1. dir' = dir \/ dir' = [dir EXCEPT !.file["config"] = run]
      BY <1>10 DEF WriteFile, Breaks, system
    <3>2. dir' \in Directories
      BY <3>1 DEF TypeOK, Directories, Files
    <3> QED BY <1>10, <3>2 DEF WriteFile, Breaks, Alone, system
  <2>2. pc' \in Labels BY <1>10, LabelTypes DEF WriteFile, Breaks, Step
  <2> QED BY <2>1, <2>2, BudgetType DEF TypeOK
<1>11. CASE Try
  BY <1>11, BudgetType, LabelTypes DEF TypeOK, Try, Breaks, Step, Alone, system
<1>12. CASE Open
  <2>1. pc # "idle" BY <1>12 DEF Open, Breaks, Step
  <2>2. rules' \in SUBSET Endpoint BY <1>12, <2>1, Numbers DEF TypeOK, Open, Breaks, system
  <2> QED BY <1>12, <2>2, BudgetType, LabelTypes
      DEF TypeOK, Open, Breaks, Step, Alone, system
<1>13. CASE SystemdRun
  <2>1. unit' \in Units
    <3>1. run \in 0..MaxRuns BY DEF TypeOK
    <3>2. [state |-> "starting", by |-> run] \in Units BY <3>1 DEF Units
    <3> QED BY <1>13, <3>2 DEF TypeOK, SystemdRun
  <2> QED BY <1>13, <2>1, BudgetType, LabelTypes DEF TypeOK, SystemdRun, Step, Alone
<1>14. CASE Probe
  <2>1. probes \in 0..MaxProbes BY DEF TypeOK
  <2>2. probes' = probes \/ probes' = IF probes > 0 THEN probes - 1 ELSE 0
    BY <1>14 DEF Probe
  <2>3. probes' \in 0..MaxProbes BY <2>1, <2>2, Bounds
  <2>4. Works \/ Fault BY <1>14, Answered DEF Probe
  <2> QED BY <1>14, <2>3, <2>4, BudgetType, LabelTypes DEF TypeOK, Probe, system
<1>15. CASE WriteFile("state", "audit")
  <2>1. /\ dir' \in Directories /\ (Works \/ Fault)
        /\ UNCHANGED <<unit, rules, journal, audit, run, probes, seen, owed, blind>>
    <3>1. dir' = dir \/ dir' = [dir EXCEPT !.file["state"] = run]
      BY <1>15 DEF WriteFile, Breaks, system
    <3>2. dir' \in Directories
      BY <3>1 DEF TypeOK, Directories, Files
    <3> QED BY <1>15, <3>2 DEF WriteFile, Breaks, Alone, system
  <2>2. pc' \in Labels BY <1>15, LabelTypes DEF WriteFile, Breaks, Step
  <2> QED BY <2>1, <2>2, BudgetType DEF TypeOK
<1>16. CASE AuditStart
  <2>1. pc # "idle" BY <1>16 DEF AuditStart, Step
  <2>2. audit' \in Records BY <1>16, <2>1, Numbers DEF TypeOK, AuditStart, Records
  <2> QED BY <1>16, <2>2, BudgetType, LabelTypes DEF TypeOK, AuditStart, Step, Alone
<1>17. CASE StopUnit
  <2>1. unit' \in Units BY <1>17, NoThings DEF TypeOK, StopUnit
  <2> QED BY <1>17, <2>1, BudgetType, LabelTypes
      DEF TypeOK, StopUnit, Step, Alone
<1>18. CASE ResetUnit("reset unit", "close")
  <2>0. /\ pc = "reset unit" /\ pc' = "close"
        /\ UNCHANGED <<dir, rules, journal, audit, run, probes, seen, owed, blind>>
        /\ unit' \in {unit, NoUnit} /\ (Works \/ Fault)
        /\ failed => failed'
        /\ Running' => Running /\ unit' = unit
    BY <1>18, Reset
  <2>1. unit' \in Units BY <2>0, NoThings DEF TypeOK
  <2> QED BY <2>0, <2>1, BudgetType, LabelTypes DEF TypeOK
<1>19. CASE Close
  BY <1>19, BudgetType, LabelTypes DEF TypeOK, Close, Step, Alone
<1>20. CASE Remove
  <2>1. dir' \in Directories /\ (Works \/ Fault) BY <1>20, RemoveDirType DEF Remove
  <2> QED BY <1>20, <2>1, BudgetType, LabelTypes DEF TypeOK, Remove, Step, Alone
<1>21. CASE ReadJournal
  BY <1>21, BudgetType, LabelTypes DEF TypeOK, ReadJournal, Step, system
<1>22. CASE StopActive
  <2>1. unit' \in Units /\ (Works \/ Fault)
    BY <1>22, NoThings, Answered DEF TypeOK, StopActive, Breaks, system
  <2> QED BY <1>22, <2>1, BudgetType, LabelTypes
      DEF TypeOK, StopActive, Breaks, Step, Alone, system
<1>23. CASE ResetUnit("stop reset", "stop sweep")
  <2>0. /\ pc = "stop reset" /\ pc' = "stop sweep"
        /\ UNCHANGED <<dir, rules, journal, audit, run, probes, seen, owed, blind>>
        /\ unit' \in {unit, NoUnit} /\ (Works \/ Fault)
        /\ failed => failed'
        /\ Running' => Running /\ unit' = unit
    BY <1>23, Reset
  <2>1. unit' \in Units BY <2>0, NoThings DEF TypeOK
  <2> QED BY <2>0, <2>1, BudgetType, LabelTypes DEF TypeOK
<1>24. CASE SweepRules("stop sweep", "stop wipe")
  BY <1>24, BudgetType, LabelTypes DEF TypeOK, SweepRules, Step, Alone
<1>25. CASE StopWipe
  <2>1. dir' \in Directories /\ (Works \/ Fault) BY <1>25, RemoveDirType DEF StopWipe
  <2> QED BY <1>25, <2>1, BudgetType, LabelTypes DEF TypeOK, StopWipe, Step, Alone
<1>26. CASE AuditStop
  <2>1. audit' \in Records BY <1>26 DEF TypeOK, AuditStop, Records
  <2> QED BY <1>26, <2>1, BudgetType, LabelTypes DEF TypeOK, AuditStop, Step, Alone
<1>27. CASE Kill
  <2>1. budget.kills \in 0..MaxKills BY DEF TypeOK, Budgets
  <2>2. budget.kills + 1 \in 0..MaxKills BY <1>27, <2>1, Bounds DEF Kill
  <2>3. budget' \in Budgets BY <1>27, <2>2 DEF TypeOK, Kill, Budgets
  <2> QED BY <1>27, <2>3, LabelTypes DEF TypeOK, Kill, system
<1>28. CASE Sshd
  <2>1. unit' \in Units BY <1>28 DEF TypeOK, Sshd, Units, Directories, Files
  <2> QED BY <1>28, <2>1 DEF TypeOK, Sshd
<1>29. CASE LogIn
  <2>1. PICK n \in 1..MaxLogins :
          journal' = journal \cup {[number |-> n, key |-> dir.file["keys"], by |-> unit.by]}
    BY <1>29 DEF LogIn
  <2>2. dir.file["keys"] \in Nat /\ unit.by \in Nat
    BY Bounds DEF TypeOK, Directories, Units, Files
  <2>3. journal' \in SUBSET Login BY <2>1, <2>2 DEF TypeOK, Login
  <2> QED BY <1>29, <2>3 DEF TypeOK, LogIn
<1> QED BY <1>1, <1>2, <1>3, <1>4, <1>5, <1>6, <1>7, <1>8, <1>9, <1>10, <1>11, <1>12,
      <1>13, <1>14, <1>15, <1>16, <1>17, <1>18, <1>19, <1>20, <1>21, <1>22, <1>23,
      <1>24, <1>25, <1>26, <1>27, <1>28, <1>29
    DEF Next, Starting, Stopping

LEMMA NumberedStep ==
  ASSUME TypeOK, Numbered, Next
  PROVE  Numbered'
<1>1. CASE Begin
  <2>1. run \in 0..MaxRuns /\ run' = run + 1 BY <1>1 DEF TypeOK, Begin
  <2>2. run' > 0 BY <2>1, Bounds
  <2> QED BY <2>2 DEF Numbered
<1>2. CASE pc # "idle" /\ run' = run BY <1>2 DEF Numbered
<1>3. CASE UNCHANGED <<pc, run>> BY <1>3 DEF Numbered
<1>4. Starting => pc # "idle" /\ run' = run
  BY DEF Starting, Active, ResetUnit, SweepRules, Preflight, Wipe, MakeDir, WriteFile, Try,
    Open, SystemdRun, Probe, AuditStart, StopUnit, Close, Remove, Breaks, Step, Alone
<1>5. Stopping => pc # "idle" /\ run' = run
  BY DEF Stopping, ReadJournal, StopActive, ResetUnit, SweepRules, StopWipe, AuditStop,
    Breaks, Step, Alone
<1>6. Kill => pc # "idle" /\ run' = run BY DEF Kill, Ended
<1>7. Sshd \/ LogIn => UNCHANGED <<pc, run>> BY DEF Sshd, LogIn
<1> QED BY <1>1, <1>2, <1>3, <1>4, <1>5, <1>6, <1>7 DEF Next

----------------------------------------------------------------------------
(* The parts of the invariant *)

(* What RemoveDir may leave.                                               *)
LEMMA Removed ==
  ASSUME TypeOK, RemoveDir
  PROVE  /\ dir'.there => dir.there /\ failed'
         /\ dir'.file["keys"] \in {0, dir.file["keys"]}
         /\ dir'.file["config"] \in {0, dir.file["config"]}
         /\ ~dir'.there => dir'.file["keys"] = 0 /\ dir'.file["config"] = 0
         /\ failed => failed'
<1>1. NoDir.there = FALSE /\ NoDir.file["keys"] = 0 /\ NoDir.file["config"] = 0
  BY DEF NoDir, Files
<1>2. dir \in Directories BY DEF TypeOK
<1>3. CASE dir' = NoDir /\ Works BY <1>1, <1>3 DEF Works
<1>4. CASE dir.there /\ dir' = dir /\ Fault BY <1>4 DEF Fault
<1>5. CASE dir.there /\ dir' = [dir EXCEPT !.file["keys"] = 0] /\ Fault
  <2>1. /\ dir'.there /\ dir'.file["keys"] = 0 /\ dir'.file["config"] = dir.file["config"]
    BY <1>2, <1>5 DEF Directories, Files
  <2> QED BY <1>5, <2>1 DEF Fault
<1> QED BY <1>3, <1>4, <1>5 DEF RemoveDir

LEMMA Written ==
  ASSUME TypeOK, NEW name \in Files, dir' = [dir EXCEPT !.file[name] = run]
  PROVE  \A n \in Files : dir'.file[n] = IF n = name THEN run ELSE dir.file[n]
BY DEF TypeOK, Directories

LEMMA NoUnitInactive == ASSUME unit' = NoUnit PROVE ~Running'
BY DEF NoUnit, Running

LEMMA PreparedStep ==
  ASSUME TypeOK, Numbered, Prepared, OwnSession, Next
  PROVE  Prepared'
<1> USE DEF Prepared, Preparing, Running, TypeOK, Directories, Units, Files
<1>1. CASE Begin
  BY <1>1 DEF Begin, Ended, Attempts, system
<1>2. CASE Active
  <2>1. PICK answer \in BOOLEAN :
          UnitActive(answer) /\ Step("active", IF answer THEN "error" ELSE "reset")
    BY <1>2 DEF Active
  <2>2. ~answer => ~Running \/ failed' BY <2>1, Answered
  <2>3. UNCHANGED <<dir, unit, run>> BY <1>2 DEF Active, system
  <2>4. failed' => run \in blind' BY <1>2 DEF Active
  <2>5. pc' = "error" \/ (pc' = "reset" /\ ~answer) BY <2>1 DEF Step
  <2> QED BY <2>2, <2>3, <2>4, <2>5
<1>3. CASE ResetUnit("reset", "sweep")
  <2>0. /\ pc = "reset" /\ pc' = "sweep"
        /\ UNCHANGED <<dir, rules, journal, audit, run, probes, seen, owed, blind>>
        /\ unit' \in {unit, NoUnit} /\ (Works \/ Fault)
        /\ failed => failed'
        /\ Running' => Running /\ unit' = unit
    BY <1>3, Reset
  <2> QED BY <2>0
<1>4. CASE SweepRules("sweep", "preflight")
  BY <1>4 DEF SweepRules, Works, Fault, Step, Alone
<1>5. CASE Preflight
  BY <1>5 DEF Preflight, Breaks, Works, Fault, Step, Alone, system
<1>6. CASE Wipe
  BY <1>6, Removed DEF Wipe, Works, Fault, Step, Alone
<1>7. CASE MakeDir
  BY <1>7 DEF MakeDir, Breaks, Works, Fault, Step, Alone, system
<1>8. CASE WriteFile("keys", "host")
  BY <1>8 DEF WriteFile, Breaks, Works, Fault, Step, Alone, system
<1>9. CASE WriteFile("host", "config")
  BY <1>9 DEF WriteFile, Breaks, Works, Fault, Step, Alone, system
<1>10. CASE WriteFile("config", "try")
  BY <1>10 DEF WriteFile, Breaks, Works, Fault, Step, Alone, system
<1>11. CASE Try
  BY <1>11 DEF Try, Breaks, Works, Fault, Step, Alone, system
<1>12. CASE Open
  BY <1>12 DEF Open, Breaks, Works, Fault, Step, Alone, system
<1>13. CASE SystemdRun
  BY <1>13 DEF SystemdRun, Works, Fault, Step, Alone
<1>14. CASE Probe
  BY <1>14 DEF Probe, Works, system
<1>15. CASE WriteFile("state", "audit")
  BY <1>15 DEF WriteFile, Breaks, Works, Fault, Step, Alone, system
<1>16. CASE AuditStart
  BY <1>16 DEF AuditStart, Works, Step, Alone
<1>17. CASE StopUnit
  BY <1>17 DEF StopUnit, Works, Fault, Step, Alone, NoUnit
<1>18. CASE ResetUnit("reset unit", "close")
  <2>0. /\ pc = "reset unit" /\ pc' = "close"
        /\ UNCHANGED <<dir, rules, journal, audit, run, probes, seen, owed, blind>>
        /\ unit' \in {unit, NoUnit} /\ (Works \/ Fault)
        /\ failed => failed'
        /\ Running' => Running /\ unit' = unit
    BY <1>18, Reset
  <2> QED BY <2>0
<1>19. CASE Close
  BY <1>19 DEF Close, Works, Fault, Step, Alone
<1>20. CASE Remove
  BY <1>20, Removed DEF Remove, Works, Fault, Step, Alone
<1>21. CASE ReadJournal
  BY <1>21 DEF ReadJournal, Works, Fault, Step, system
<1>22. CASE StopActive
  BY <1>22 DEF StopActive, Breaks, Works, Fault, Step, Alone, system, NoUnit
<1>23. CASE ResetUnit("stop reset", "stop sweep")
  <2>0. /\ pc = "stop reset" /\ pc' = "stop sweep"
        /\ UNCHANGED <<dir, rules, journal, audit, run, probes, seen, owed, blind>>
        /\ unit' \in {unit, NoUnit} /\ (Works \/ Fault)
        /\ failed => failed'
        /\ Running' => Running /\ unit' = unit
    BY <1>23, Reset
  <2> QED BY <2>0
<1>24. CASE SweepRules("stop sweep", "stop wipe")
  BY <1>24 DEF SweepRules, Works, Fault, Step, Alone
<1>25. CASE StopWipe
  BY <1>25, Removed DEF StopWipe, Works, Fault, Step, Alone
<1>26. CASE AuditStop
  BY <1>26 DEF AuditStop, Works, Step, Alone
<1>27. CASE Kill
  BY <1>27 DEF Kill, Ended, system
<1>28. CASE Sshd
  BY <1>28 DEF Sshd
<1>29. CASE LogIn
  BY <1>29 DEF LogIn
<1> QED BY <1>1, <1>2, <1>3, <1>4, <1>5, <1>6, <1>7, <1>8, <1>9, <1>10, <1>11, <1>12,
      <1>13, <1>14, <1>15, <1>16, <1>17, <1>18, <1>19, <1>20, <1>21, <1>22, <1>23,
      <1>24, <1>25, <1>26, <1>27, <1>28, <1>29
    DEF Next, Starting, Stopping

LEMMA OwnSessionStep ==
  ASSUME TypeOK, Prepared, OwnSession, Next
  PROVE  OwnSession'
<1> USE DEF OwnSession, Running, TypeOK, Directories, Units, Files
<1>1. CASE Begin
  BY <1>1 DEF Begin, Ended, Attempts, system
<1>2. CASE Active
  <2>1. UNCHANGED <<dir, unit>> /\ blind \subseteq blind' BY <1>2 DEF Active, system
  <2> QED BY <2>1
<1>3. CASE ResetUnit("reset", "sweep")
  <2>0. /\ pc = "reset" /\ pc' = "sweep"
        /\ UNCHANGED <<dir, rules, journal, audit, run, probes, seen, owed, blind>>
        /\ unit' \in {unit, NoUnit} /\ (Works \/ Fault)
        /\ failed => failed'
        /\ Running' => Running /\ unit' = unit
    BY <1>3, Reset
  <2> QED BY <2>0
<1>4. CASE SweepRules("sweep", "preflight")
  BY <1>4 DEF SweepRules, Works, Fault, Step, Alone
<1>5. CASE Preflight
  BY <1>5 DEF Preflight, Breaks, Works, Fault, Step, Alone, system
<1>6. CASE Wipe
  BY <1>6, Removed DEF Wipe, Works, Fault, Step, Alone
<1>7. CASE MakeDir
  BY <1>7 DEF MakeDir, Breaks, Works, Fault, Step, Alone, system
<1>8. CASE WriteFile("keys", "host")
  BY <1>8 DEF WriteFile, Breaks, Works, Fault, Step, Alone, system, Prepared, Preparing
<1>9. CASE WriteFile("host", "config")
  BY <1>9 DEF WriteFile, Breaks, Works, Fault, Step, Alone, system
<1>10. CASE WriteFile("config", "try")
  BY <1>10 DEF WriteFile, Breaks, Works, Fault, Step, Alone, system, Prepared, Preparing
<1>11. CASE Try
  BY <1>11 DEF Try, Breaks, Works, Fault, Step, Alone, system
<1>12. CASE Open
  BY <1>12 DEF Open, Breaks, Works, Fault, Step, Alone, system
<1>13. CASE SystemdRun
  <2>1. CASE unit' = [state |-> "starting", by |-> run] /\ Step("systemd-run", "probe")
    <3>1. unit'.by = run BY <2>1
    <3>2. dir' = dir BY <1>13 DEF SystemdRun
    <3>3. dir.file["keys"] = run /\ dir.file["config"] = run BY <2>1 DEF Step, Prepared
    <3> QED BY <3>1, <3>2, <3>3
  <2>2. CASE unit' = unit
    <3>1. UNCHANGED <<dir, blind>> BY <1>13 DEF SystemdRun, Alone
    <3> QED BY <2>2, <3>1
  <2> QED BY <1>13, <2>1, <2>2 DEF SystemdRun
<1>14. CASE Probe
  BY <1>14 DEF Probe, system
<1>15. CASE WriteFile("state", "audit")
  BY <1>15 DEF WriteFile, Breaks, Works, Fault, Step, Alone, system
<1>16. CASE AuditStart
  BY <1>16 DEF AuditStart, Works, Step, Alone
<1>17. CASE StopUnit
  <2>1. UNCHANGED <<dir, blind>> BY <1>17 DEF StopUnit, Alone
  <2>2. unit' \in {unit, NoUnit} BY <1>17 DEF StopUnit
  <2>3. CASE unit' = unit BY <2>1, <2>3
  <2>4. CASE unit' = NoUnit BY <2>1, <2>4 DEF NoUnit
  <2> QED BY <2>2, <2>3, <2>4
<1>18. CASE ResetUnit("reset unit", "close")
  <2>0. /\ pc = "reset unit" /\ pc' = "close"
        /\ UNCHANGED <<dir, rules, journal, audit, run, probes, seen, owed, blind>>
        /\ unit' \in {unit, NoUnit} /\ (Works \/ Fault)
        /\ failed => failed'
        /\ Running' => Running /\ unit' = unit
    BY <1>18, Reset
  <2> QED BY <2>0
<1>19. CASE Close
  BY <1>19 DEF Close, Works, Fault, Step, Alone
<1>20. CASE Remove
  BY <1>20, Removed DEF Remove, Works, Fault, Step, Alone
<1>21. CASE ReadJournal
  BY <1>21 DEF ReadJournal, Works, Fault, Step, system
<1>22. CASE StopActive
  <2>1. UNCHANGED <<dir, blind>> BY <1>22 DEF StopActive, Breaks, Alone, system
  <2>2. unit' \in {unit, NoUnit} BY <1>22 DEF StopActive, Breaks, system
  <2>3. CASE unit' = unit BY <2>1, <2>3
  <2>4. CASE unit' = NoUnit BY <2>1, <2>4 DEF NoUnit
  <2> QED BY <2>2, <2>3, <2>4
<1>23. CASE ResetUnit("stop reset", "stop sweep")
  <2>0. /\ pc = "stop reset" /\ pc' = "stop sweep"
        /\ UNCHANGED <<dir, rules, journal, audit, run, probes, seen, owed, blind>>
        /\ unit' \in {unit, NoUnit} /\ (Works \/ Fault)
        /\ failed => failed'
        /\ Running' => Running /\ unit' = unit
    BY <1>23, Reset
  <2> QED BY <2>0
<1>24. CASE SweepRules("stop sweep", "stop wipe")
  BY <1>24 DEF SweepRules, Works, Fault, Step, Alone
<1>25. CASE StopWipe
  BY <1>25, Removed DEF StopWipe, Works, Fault, Step, Alone
<1>26. CASE AuditStop
  BY <1>26 DEF AuditStop, Works, Step, Alone
<1>27. CASE Kill
  BY <1>27 DEF Kill, Ended, system
<1>28. CASE Sshd
  BY <1>28 DEF Sshd
<1>29. CASE LogIn
  BY <1>29 DEF LogIn
<1> QED BY <1>1, <1>2, <1>3, <1>4, <1>5, <1>6, <1>7, <1>8, <1>9, <1>10, <1>11, <1>12,
      <1>13, <1>14, <1>15, <1>16, <1>17, <1>18, <1>19, <1>20, <1>21, <1>22, <1>23,
      <1>24, <1>25, <1>26, <1>27, <1>28, <1>29
    DEF Next, Starting, Stopping

LEMMA SweptStep ==
  ASSUME TypeOK, Swept, Prepared, Next
  PROVE  Swept'
<1> USE DEF Swept, Running
<1>1. CASE Begin
  BY <1>1 DEF Begin, Ended, Attempts, system
<1>2. CASE Active
  BY <1>2 DEF Active, Works, Step, Alone, system
<1>3. CASE ResetUnit("reset", "sweep")
  <2>0. /\ pc = "reset" /\ pc' = "sweep"
        /\ UNCHANGED <<dir, rules, journal, audit, run, probes, seen, owed, blind>>
        /\ unit' \in {unit, NoUnit} /\ (Works \/ Fault)
        /\ failed => failed'
        /\ Running' => Running /\ unit' = unit
    BY <1>3, Reset
  <2> QED BY <2>0
<1>4. CASE SweepRules("sweep", "preflight")
  BY <1>4 DEF SweepRules, Works, Fault, Step, Alone
<1>5. CASE Preflight
  BY <1>5 DEF Preflight, Breaks, Works, Fault, Step, Alone, system
<1>6. CASE Wipe
  BY <1>6, Removed DEF Wipe, Works, Fault, Step, Alone
<1>7. CASE MakeDir
  BY <1>7 DEF MakeDir, Breaks, Works, Fault, Step, Alone, system
<1>8. CASE WriteFile("keys", "host")
  BY <1>8 DEF WriteFile, Breaks, Works, Fault, Step, Alone, system
<1>9. CASE WriteFile("host", "config")
  BY <1>9 DEF WriteFile, Breaks, Works, Fault, Step, Alone, system
<1>10. CASE WriteFile("config", "try")
  BY <1>10 DEF WriteFile, Breaks, Works, Fault, Step, Alone, system
<1>11. CASE Try
  BY <1>11 DEF Try, Breaks, Works, Fault, Step, Alone, system
<1>12. CASE Open
  BY <1>12 DEF Open, Breaks, Works, Fault, Step, Alone, system
<1>13. CASE SystemdRun
  BY <1>13 DEF SystemdRun, Works, Fault, Step, Alone
<1>14. CASE Probe
  <2>1. failed => failed' BY <1>14, Answered DEF Probe, Works
  <2>2. /\ pc = "probe" /\ pc' \in {"probe", "state", "stop unit"}
        /\ UNCHANGED <<unit, rules, dir, run>>
    BY <1>14 DEF Probe, system
  <2> QED BY <2>1, <2>2
<1>15. CASE WriteFile("state", "audit")
  BY <1>15 DEF WriteFile, Breaks, Works, Fault, Step, Alone, system
<1>16. CASE AuditStart
  BY <1>16 DEF AuditStart, Works, Step, Alone
<1>17. CASE StopUnit
  <2>1. unit' = NoUnit \/ (unit' = unit /\ ~Running) \/ (unit' = unit /\ failed')
    BY <1>17 DEF StopUnit, Fault
  <2>2. ~Running' \/ (unit' = unit /\ Running /\ failed')
    BY <2>1, NoUnitInactive
  <2>3. UNCHANGED dir /\ UNCHANGED rules /\ pc' = "reset unit" /\ pc = "stop unit"
    BY <1>17 DEF StopUnit, Step
  <2>4. UNCHANGED run BY <1>17 DEF StopUnit, Alone
  <2>5. failed' = failed \/ failed' = TRUE BY <1>17 DEF StopUnit, Works, Fault
  <2> QED BY <2>2, <2>3, <2>4, <2>5
<1>18. CASE ResetUnit("reset unit", "close")
  <2>0. /\ pc = "reset unit" /\ pc' = "close"
        /\ UNCHANGED <<dir, rules, journal, audit, run, probes, seen, owed, blind>>
        /\ unit' \in {unit, NoUnit} /\ (Works \/ Fault)
        /\ failed => failed'
        /\ Running' => Running /\ unit' = unit
    BY <1>18, Reset
  <2> QED BY <2>0
<1>19. CASE Close
  BY <1>19 DEF Close, Works, Fault, Step, Alone
<1>20. CASE Remove
  BY <1>20, Removed DEF Remove, Works, Fault, Step, Alone
<1>21. CASE ReadJournal
  BY <1>21 DEF ReadJournal, Works, Fault, Step, system
<1>22. CASE StopActive
  BY <1>22 DEF StopActive, Breaks, Works, Fault, Step, Alone, system, NoUnit
<1>23. CASE ResetUnit("stop reset", "stop sweep")
  <2>0. /\ pc = "stop reset" /\ pc' = "stop sweep"
        /\ UNCHANGED <<dir, rules, journal, audit, run, probes, seen, owed, blind>>
        /\ unit' \in {unit, NoUnit} /\ (Works \/ Fault)
        /\ failed => failed'
        /\ Running' => Running /\ unit' = unit
    BY <1>23, Reset
  <2> QED BY <2>0
<1>24. CASE SweepRules("stop sweep", "stop wipe")
  BY <1>24 DEF SweepRules, Works, Fault, Step, Alone
<1>25. CASE StopWipe
  BY <1>25, Removed DEF StopWipe, Works, Fault, Step, Alone
<1>26. CASE AuditStop
  BY <1>26 DEF AuditStop, Works, Step, Alone
<1>27. CASE Kill
  BY <1>27 DEF Kill, Ended, system
<1>28. CASE Sshd
  BY <1>28 DEF Sshd
<1>29. CASE LogIn
  BY <1>29 DEF LogIn
<1> QED BY <1>1, <1>2, <1>3, <1>4, <1>5, <1>6, <1>7, <1>8, <1>9, <1>10, <1>11, <1>12,
      <1>13, <1>14, <1>15, <1>16, <1>17, <1>18, <1>19, <1>20, <1>21, <1>22, <1>23,
      <1>24, <1>25, <1>26, <1>27, <1>28, <1>29
    DEF Next, Starting, Stopping

LEMMA StoppedStep ==
  ASSUME TypeOK, Stopped, Next
  PROVE  Stopped'
<1> USE DEF Stopped, Running
<1>1. CASE Begin
  BY <1>1 DEF Begin, Ended, Attempts, system
<1>2. CASE Active
  BY <1>2 DEF Active, Works, Step, Alone, system
<1>3. CASE ResetUnit("reset", "sweep")
  <2>0. /\ pc = "reset" /\ pc' = "sweep"
        /\ UNCHANGED <<dir, rules, journal, audit, run, probes, seen, owed, blind>>
        /\ unit' \in {unit, NoUnit} /\ (Works \/ Fault)
        /\ failed => failed'
        /\ Running' => Running /\ unit' = unit
    BY <1>3, Reset
  <2> QED BY <2>0
<1>4. CASE SweepRules("sweep", "preflight")
  BY <1>4 DEF SweepRules, Works, Fault, Step, Alone
<1>5. CASE Preflight
  BY <1>5 DEF Preflight, Breaks, Works, Fault, Step, Alone, system
<1>6. CASE Wipe
  BY <1>6, Removed DEF Wipe, Works, Fault, Step, Alone
<1>7. CASE MakeDir
  BY <1>7 DEF MakeDir, Breaks, Works, Fault, Step, Alone, system
<1>8. CASE WriteFile("keys", "host")
  BY <1>8 DEF WriteFile, Breaks, Works, Fault, Step, Alone, system
<1>9. CASE WriteFile("host", "config")
  BY <1>9 DEF WriteFile, Breaks, Works, Fault, Step, Alone, system
<1>10. CASE WriteFile("config", "try")
  BY <1>10 DEF WriteFile, Breaks, Works, Fault, Step, Alone, system
<1>11. CASE Try
  BY <1>11 DEF Try, Breaks, Works, Fault, Step, Alone, system
<1>12. CASE Open
  BY <1>12 DEF Open, Breaks, Works, Fault, Step, Alone, system
<1>13. CASE SystemdRun
  BY <1>13 DEF SystemdRun, Works, Fault, Step, Alone
<1>14. CASE Probe
  BY <1>14 DEF Probe, Works, system
<1>15. CASE WriteFile("state", "audit")
  BY <1>15 DEF WriteFile, Breaks, Works, Fault, Step, Alone, system
<1>16. CASE AuditStart
  BY <1>16 DEF AuditStart, Works, Step, Alone
<1>17. CASE StopUnit
  BY <1>17 DEF StopUnit, Works, Fault, Step, Alone, NoUnit
<1>18. CASE ResetUnit("reset unit", "close")
  <2>0. /\ pc = "reset unit" /\ pc' = "close"
        /\ UNCHANGED <<dir, rules, journal, audit, run, probes, seen, owed, blind>>
        /\ unit' \in {unit, NoUnit} /\ (Works \/ Fault)
        /\ failed => failed'
        /\ Running' => Running /\ unit' = unit
    BY <1>18, Reset
  <2> QED BY <2>0
<1>19. CASE Close
  BY <1>19 DEF Close, Works, Fault, Step, Alone
<1>20. CASE Remove
  BY <1>20, Removed DEF Remove, Works, Fault, Step, Alone
<1>21. CASE ReadJournal
  BY <1>21 DEF ReadJournal, Works, Fault, Step, system
<1>22. CASE StopActive
  <2>1. CASE Breaks("stop active")
    BY <2>1 DEF Breaks, Step, Fault, system, Alone
  <2>2. ASSUME NEW answer \in BOOLEAN, UnitActive(answer),
               unit' = IF answer THEN NoUnit ELSE unit
        PROVE  failed' \/ ~Running'
    <3>1. CASE answer BY <2>2, <3>1, NoUnitInactive
    <3>2. CASE ~answer BY <2>2, <3>2, Answered
    <3> QED BY <3>1, <3>2
  <2>3. CASE Step("stop active", "stop reset")
    <3>1. failed' \/ ~Running'
      BY <1>22, <2>2, <2>3 DEF StopActive, Breaks, Fault
    <3> QED BY <2>3, <3>1 DEF Step
  <2> QED BY <1>22, <2>1, <2>3 DEF StopActive
<1>23. CASE ResetUnit("stop reset", "stop sweep")
  <2>0. /\ pc = "stop reset" /\ pc' = "stop sweep"
        /\ UNCHANGED <<dir, rules, journal, audit, run, probes, seen, owed, blind>>
        /\ unit' \in {unit, NoUnit} /\ (Works \/ Fault)
        /\ failed => failed'
        /\ Running' => Running /\ unit' = unit
    BY <1>23, Reset
  <2> QED BY <2>0
<1>24. CASE SweepRules("stop sweep", "stop wipe")
  BY <1>24 DEF SweepRules, Works, Fault, Step, Alone
<1>25. CASE StopWipe
  BY <1>25, Removed DEF StopWipe, Works, Fault, Step, Alone
<1>26. CASE AuditStop
  BY <1>26 DEF AuditStop, Works, Step, Alone
<1>27. CASE Kill
  BY <1>27 DEF Kill, Ended, system
<1>28. CASE Sshd
  BY <1>28 DEF Sshd
<1>29. CASE LogIn
  BY <1>29 DEF LogIn
<1> QED BY <1>1, <1>2, <1>3, <1>4, <1>5, <1>6, <1>7, <1>8, <1>9, <1>10, <1>11, <1>12,
      <1>13, <1>14, <1>15, <1>16, <1>17, <1>18, <1>19, <1>20, <1>21, <1>22, <1>23,
      <1>24, <1>25, <1>26, <1>27, <1>28, <1>29
    DEF Next, Starting, Stopping

LEMMA AccountedStep ==
  ASSUME TypeOK, Accounted, Next
  PROVE  Accounted'
<1> USE DEF Accounted, EarlierLoginsRecorded
<1>1. CASE Begin
  BY <1>1 DEF Begin, Ended, Attempts, system
<1>2. CASE Active
  BY <1>2 DEF Active, Works, Step, Alone, system
<1>3. CASE ResetUnit("reset", "sweep")
  <2>0. /\ pc = "reset" /\ pc' = "sweep"
        /\ UNCHANGED <<dir, rules, journal, audit, run, probes, seen, owed, blind>>
        /\ unit' \in {unit, NoUnit} /\ (Works \/ Fault)
        /\ failed => failed'
        /\ Running' => Running /\ unit' = unit
    BY <1>3, Reset
  <2> QED BY <2>0
<1>4. CASE SweepRules("sweep", "preflight")
  BY <1>4 DEF SweepRules, Works, Fault, Step, Alone
<1>5. CASE Preflight
  BY <1>5 DEF Preflight, Breaks, Works, Fault, Step, Alone, system
<1>6. CASE Wipe
  BY <1>6, Removed DEF Wipe, Works, Fault, Step, Alone
<1>7. CASE MakeDir
  BY <1>7 DEF MakeDir, Breaks, Works, Fault, Step, Alone, system
<1>8. CASE WriteFile("keys", "host")
  BY <1>8 DEF WriteFile, Breaks, Works, Fault, Step, Alone, system
<1>9. CASE WriteFile("host", "config")
  BY <1>9 DEF WriteFile, Breaks, Works, Fault, Step, Alone, system
<1>10. CASE WriteFile("config", "try")
  BY <1>10 DEF WriteFile, Breaks, Works, Fault, Step, Alone, system
<1>11. CASE Try
  BY <1>11 DEF Try, Breaks, Works, Fault, Step, Alone, system
<1>12. CASE Open
  BY <1>12 DEF Open, Breaks, Works, Fault, Step, Alone, system
<1>13. CASE SystemdRun
  BY <1>13 DEF SystemdRun, Works, Fault, Step, Alone
<1>14. CASE Probe
  BY <1>14 DEF Probe, Works, system
<1>15. CASE WriteFile("state", "audit")
  BY <1>15 DEF WriteFile, Breaks, Works, Fault, Step, Alone, system
<1>16. CASE AuditStart
  BY <1>16 DEF AuditStart, Works, Step, Alone
<1>17. CASE StopUnit
  BY <1>17 DEF StopUnit, Works, Fault, Step, Alone
<1>18. CASE ResetUnit("reset unit", "close")
  <2>0. /\ pc = "reset unit" /\ pc' = "close"
        /\ UNCHANGED <<dir, rules, journal, audit, run, probes, seen, owed, blind>>
        /\ unit' \in {unit, NoUnit} /\ (Works \/ Fault)
        /\ failed => failed'
        /\ Running' => Running /\ unit' = unit
    BY <1>18, Reset
  <2> QED BY <2>0
<1>19. CASE Close
  BY <1>19 DEF Close, Works, Fault, Step, Alone
<1>20. CASE Remove
  BY <1>20, Removed DEF Remove, Works, Fault, Step, Alone
<1>21. CASE ReadJournal
  BY <1>21 DEF ReadJournal, Works, Fault, Step, system
<1>22. CASE StopActive
  <2>1. failed => failed' BY <1>22, Answered DEF StopActive, Breaks, Fault
  <2>2. /\ pc = "stop active" /\ pc' \in {"error", "stop reset"}
        /\ UNCHANGED <<journal, audit, seen, owed>>
    BY <1>22 DEF StopActive, Breaks, Step, Alone, system
  <2> QED BY <2>1, <2>2
<1>23. CASE ResetUnit("stop reset", "stop sweep")
  <2>0. /\ pc = "stop reset" /\ pc' = "stop sweep"
        /\ UNCHANGED <<dir, rules, journal, audit, run, probes, seen, owed, blind>>
        /\ unit' \in {unit, NoUnit} /\ (Works \/ Fault)
        /\ failed => failed'
        /\ Running' => Running /\ unit' = unit
    BY <1>23, Reset
  <2> QED BY <2>0
<1>24. CASE SweepRules("stop sweep", "stop wipe")
  BY <1>24 DEF SweepRules, Works, Fault, Step, Alone
<1>25. CASE StopWipe
  BY <1>25, Removed DEF StopWipe, Works, Fault, Step, Alone
<1>26. CASE AuditStop
  BY <1>26 DEF AuditStop, Works, Step, Alone, TypeOK, Records
<1>27. CASE Kill
  BY <1>27 DEF Kill, Ended, system
<1>28. CASE Sshd
  BY <1>28 DEF Sshd
<1>29. CASE LogIn
  BY <1>29 DEF LogIn
<1> QED BY <1>1, <1>2, <1>3, <1>4, <1>5, <1>6, <1>7, <1>8, <1>9, <1>10, <1>11, <1>12,
      <1>13, <1>14, <1>15, <1>16, <1>17, <1>18, <1>19, <1>20, <1>21, <1>22, <1>23,
      <1>24, <1>25, <1>26, <1>27, <1>28, <1>29
    DEF Next, Starting, Stopping

LEMMA OwnKeysStep ==
  ASSUME TypeOK, OwnSession, OwnKeysOnly, Next
  PROVE  OwnKeysOnly'
<1>1. CASE LogIn
  <2>1. PICK n \in 1..MaxLogins :
          journal' = journal \cup {[number |-> n, key |-> dir.file["keys"], by |-> unit.by]}
    BY <1>1 DEF LogIn
  <2>2. dir.file["keys"] = unit.by \/ dir.file["keys"] \in blind
    BY <1>1 DEF LogIn, OwnSession, Running
  <2>3. UNCHANGED blind BY <1>1 DEF LogIn
  <2> QED BY <2>1, <2>2, <2>3 DEF OwnKeysOnly
<1>2. ~LogIn => UNCHANGED journal
  BY DEF Next, Starting, Stopping, Begin, Active, ResetUnit, SweepRules, Preflight, Wipe,
    MakeDir, WriteFile, Try, Open, SystemdRun, Probe, AuditStart, StopUnit, Close, Remove,
    ReadJournal, StopActive, StopWipe, AuditStop, Kill, Sshd, Breaks, system
<1>3. blind \subseteq blind'
  BY DEF Next, Starting, Stopping, Begin, Active, ResetUnit, SweepRules, Preflight, Wipe,
    MakeDir, WriteFile, Try, Open, SystemdRun, Probe, AuditStart, StopUnit, Close, Remove,
    ReadJournal, StopActive, StopWipe, AuditStop, Kill, Sshd, LogIn, Breaks, Alone
<1> QED BY <1>1, <1>2, <1>3 DEF OwnKeysOnly

----------------------------------------------------------------------------
(* Theorems *)

LEMMA InitInv == Init => IInv
<1>1. Init => Numbered /\ Prepared /\ Swept /\ Stopped
  BY DEF Init, Numbered, Prepared, Preparing, Swept, Stopped
<1>2. Init => OwnSession /\ OwnKeysOnly /\ Accounted
  BY DEF Init, OwnSession, Running, NoUnit, NoDir, Files, OwnKeysOnly, Accounted, EarlierLoginsRecorded
<1> QED BY <1>1, <1>2, InitType DEF IInv

LEMMA InvStep == IInv /\ [Next]_vars => IInv'
<1> SUFFICES ASSUME IInv, [Next]_vars PROVE IInv'
  OBVIOUS
<1>1. CASE Next
  BY <1>1, TypeStep, NumberedStep, PreparedStep, OwnSessionStep, OwnKeysStep, SweptStep,
     StoppedStep, AccountedStep
  DEF IInv
<1>2. CASE UNCHANGED vars
  <2> USE <1>2 DEF vars
  <2>1. TypeOK' BY DEF IInv, TypeOK
  <2>2. Numbered' /\ Prepared' BY DEF IInv, Numbered, Prepared, Running
  <2>3. OwnSession' /\ OwnKeysOnly' BY DEF IInv, OwnSession, OwnKeysOnly, Running
  <2>4. Swept' /\ Stopped' BY DEF IInv, Swept, Stopped, Running
  <2>5. Accounted' BY DEF IInv, Accounted, EarlierLoginsRecorded
  <2> QED BY <2>1, <2>2, <2>3, <2>4, <2>5 DEF IInv
<1> QED BY <1>1, <1>2

LEMMA Invariance == Spec => []IInv
<1> QED BY InitInv, InvStep, PTL DEF Spec

(* Every variable keeps its type: for one, the attempts to connect never   *)
(* go below 0 (the loop in start, ssh.rs 214-223).                         *)
THEOREM TypeCorrect == Spec => []TypeOK
<1>1. IInv => TypeOK BY DEF IInv
<1> QED BY <1>1, Invariance, PTL

(* Nobody logs in with the keys of another session than the one entered,   *)
(* whatever starts were killed, failed or were tried again before (ssh.rs  *)
(* start, stop).                                                           *)
THEOREM OwnKeys == Spec => []OwnKeysOnly
<1>1. IInv => OwnKeysOnly BY DEF IInv
<1> QED BY <1>1, Invariance, PTL

(* A stop that succeeds has recorded every login accepted before it, those *)
(* of sessions that had no stop of their own included (ssh.rs stop).       *)
THEOREM LoginsRecorded == Spec => []EarlierLoginsRecorded
<1>1. IInv => EarlierLoginsRecorded BY DEF IInv, Accounted
<1> QED BY <1>1, Invariance, PTL

(* A stop that succeeds, and a start that breaks off because its sshd does *)
(* not listen, leave no sshd, no rule and no directory, if their own calls *)
(* work (ssh.rs start, stop).                                              *)
THEOREM NothingLeft == Spec => LeavesNothing
<1> DEFINE Leaves ==
      \/ pc = "audit stop" /\ pc' = "done"
      \/ pc = "remove" /\ pc' = "error"
      => failed' \/ (~Running /\ rules = {} /\ ~dir'.there)
<1>1. IInv /\ [Next]_vars => [Leaves]_vars
  <2> SUFFICES ASSUME IInv, Next PROVE Leaves
    OBVIOUS
  <2>1. TypeOK /\ Swept /\ Stopped BY DEF IInv
  <2>2. ASSUME pc = "audit stop", pc' = "done" PROVE AuditStop
    BY <2>2 DEF Next, Starting, Stopping, Begin, Ended, Active, ResetUnit, SweepRules,
      Preflight, Wipe, MakeDir, WriteFile, Try, Open, SystemdRun, Probe, AuditStart, StopUnit,
      Close, Remove, ReadJournal, StopActive, StopWipe, Kill, Sshd, LogIn, Breaks, Step
  <2>3. ASSUME pc = "remove", pc' = "error" PROVE Remove
    BY <2>3 DEF Next, Starting, Stopping, Begin, Ended, Active, ResetUnit, SweepRules,
      Preflight, Wipe, MakeDir, WriteFile, Try, Open, SystemdRun, Probe, AuditStart, StopUnit,
      Close, AuditStop, ReadJournal, StopActive, StopWipe, Kill, Sshd, LogIn, Breaks, Step
  <2>4. CASE AuditStop
    BY <2>1, <2>4 DEF AuditStop, Step, Works, Swept, Stopped
  <2>5. CASE Remove
    <3>1. dir'.there => failed' BY <2>1, <2>5, Removed DEF Remove
    <3>2. failed => failed' BY <2>1, <2>5, Removed DEF Remove
    <3> QED BY <2>1, <2>5, <3>1, <3>2 DEF Remove, Step, Swept
  <2> QED BY <2>2, <2>3, <2>4, <2>5
<1> QED BY <1>1, Invariance, PTL DEF Spec, LeavesNothing
=============================================================================
