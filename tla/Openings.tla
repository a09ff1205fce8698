------------------------------ MODULE Openings ------------------------------
(***************************************************************************)
(* The firewall openings of listen.rs, as `dfnet receive` and `dfnet       *)
(* stream` use them, for several invocations on one host.  Each binds its  *)
(* endpoint, sweeps the openings it takes for stale (two listings, one     *)
(* deletion per rule), inserts its own, waits, and removes it; any         *)
(* iptables call can fail and an invocation can be killed between two.     *)
(* The openings of `dfnet ssh` share the chain under another tag.          *)
(***************************************************************************)
EXTENDS Naturals

CONSTANTS
  Shell,      \* where dfnet is invoked, one invocation at a time each
  Endpoint,   \* address and port
  V6,         \* those ip6tables is called for
  Loopback,   \* those that need no opening
  SshAt,      \* where SSH sessions listen
  MaxRuns,    \* bound: invocations
  MaxFaults,  \* bound: iptables calls that fail
  MaxKills    \* bound: invocations killed

ASSUME ConstantsAssumption ==
  /\ V6 \subseteq Endpoint /\ Loopback \subseteq Endpoint /\ SshAt \subseteq Endpoint
  /\ {MaxRuns, MaxFaults, MaxKills} \subseteq Nat

VARIABLES
  pc, mine,  \* per shell: next call, and the rule of the invocation
  bound,     \* its listener is open
  guard,     \* it holds Guard(Some(opening))
  program,   \* remove_tagged: the program it is at
  left,      \* and the listed rules not yet deleted, with their copies
  input,     \* dfnet's rules in the INPUT chains, with their copies
  abandoned, \* history: rules a killed invocation or a failed iptables left
  owed,      \* history, per shell: abandoned rules its sweep must still remove
  met,       \* history: an invocation began beside another
  budget     \* the bounded choices made so far

vars == <<pc, mine, bound, guard, program, left, input, abandoned, owed, met, budget>>

Owner == {"receive", "stream"}
Rule == [owner : Owner \cup {"ssh"}, at : Endpoint]
Programs == {"iptables", "ip6tables"}
Program(e) == IF e \in V6 THEN "ip6tables" ELSE "iptables"

----------------------------------------------------------------------------
Fault == /\ budget.faults < MaxFaults
         /\ budget' = [budget EXCEPT !.faults = @ + 1]
Works == UNCHANGED budget

Step(p, from, to) == pc[p] = from /\ pc' = [pc EXCEPT ![p] = to]

(* tagged_rules with LISTEN_TAG                                            *)
Tagged(r) == r.owner # "ssh"

Nothing == [r \in Rule |-> 0]
There(r) == input[r] > 0

(* `-D` takes one copy, if there is one.                                   *)
Delete(r) ==
  /\ input' = [input EXCEPT ![r] = IF @ > 0 THEN @ - 1 ELSE 0]
  /\ abandoned' = IF input[r] > 1 THEN abandoned ELSE abandoned \ {r}

Init ==
  /\ pc = [p \in Shell |-> "idle"]
  /\ mine \in [Shell -> {r \in Rule : r.owner = "receive"}]
  /\ \A p, q \in Shell : mine[p] = mine[q]
  /\ bound = [p \in Shell |-> FALSE]
  /\ guard = [p \in Shell |-> FALSE]
  /\ program = [p \in Shell |-> "iptables"]
  /\ left = [p \in Shell |-> Nothing]
  /\ input = Nothing
  /\ abandoned = {}
  /\ owed = [p \in Shell |-> {}]
  /\ met = FALSE
  /\ budget = [runs |-> 0, faults |-> 0, kills |-> 0]

(* bind(2): an endpoint in use is refused, before anything changes.        *)
Start(p) ==
  /\ budget.runs < MaxRuns
  /\ Step(p, "idle", "open for")
  /\ \E owner \in Owner, at \in Endpoint :
       /\ \A q \in Shell : bound[q] => mine[q].at # at
       /\ mine' = [mine EXCEPT ![p] = [owner |-> owner, at |-> at]]
  /\ bound' = [bound EXCEPT ![p] = TRUE]
  /\ met' = (met \/ \E q \in Shell \ {p} : pc[q] # "idle")
  /\ budget' = [budget EXCEPT !.runs = @ + 1]
  /\ UNCHANGED <<guard, program, left, input, abandoned, owed>>

(* Mutant: the owner is taken for the program.                             *)
OpenForSwapped(p) ==
  /\ mine[p].at \notin Loopback
  /\ Step(p, "open for", "list")
  /\ program' = [program EXCEPT ![p] = mine[p].owner]
  /\ Works /\ UNCHANGED <<mine, bound, guard, left, input, abandoned, owed, met>>

(* open_for: nothing to do on loopback, nothing possible without root.     *)
OpenFor(p) ==
  /\ \/ Step(p, "open for", "waiting") /\ UNCHANGED <<program, owed>>
     \/ /\ mine[p].at \notin Loopback
        /\ Step(p, "open for", "list")
        /\ program' = [program EXCEPT ![p] = "iptables"]
        /\ owed' = [owed EXCEPT ![p] = abandoned]
  /\ Works /\ UNCHANGED <<mine, bound, guard, left, input, abandoned, met>>

(* A listing that fails lists nothing.                                     *)
List(p) ==
  /\ Step(p, "list", "remove")
  /\ LET there == [r \in Rule |-> IF Tagged(r) /\ Program(r.at) = program[p]
                                  THEN input[r] ELSE 0]
     IN \/ left' = [left EXCEPT ![p] = there] /\ UNCHANGED owed /\ Works
        \/ /\ left' = [left EXCEPT ![p] = Nothing]
           /\ owed' = [owed EXCEPT ![p] = {r \in @ : Program(r.at) # program[p]}]
           /\ Fault
  /\ UNCHANGED <<mine, bound, guard, program, input, abandoned, met>>

(* A rule that cannot be deleted, or is gone, is passed.                   *)
Remove(p) ==
  /\ Step(p, "remove", "remove")
  /\ \E r \in Rule :
       /\ left[p][r] > 0
       /\ left' = [left EXCEPT ![p][r] = @ - 1]
       /\ \/ Delete(r) /\ UNCHANGED owed /\ Works
          \/ /\ owed' = [owed EXCEPT ![p] = @ \ {r}]
             /\ UNCHANGED <<input, abandoned>> /\ Fault
  /\ UNCHANGED <<mine, bound, guard, program, met>>

(* Mutant: the IPv6 chain is not swept.                                    *)
NextProgramNever(p) ==
  /\ left[p] = Nothing /\ program[p] = "iptables"
  /\ Step(p, "remove", "check")
  /\ program' = [program EXCEPT ![p] = "ip6tables"]
  /\ Works /\ UNCHANGED <<mine, bound, guard, left, input, abandoned, owed, met>>

NextProgram(p) ==
  /\ left[p] = Nothing /\ program[p] = "iptables"
  /\ Step(p, "remove", "list")
  /\ program' = [program EXCEPT ![p] = "ip6tables"]
  /\ Works /\ UNCHANGED <<mine, bound, guard, left, input, abandoned, owed, met>>

Swept(p) ==
  /\ left[p] = Nothing /\ program[p] = "ip6tables"
  /\ Step(p, "remove", "check")
  /\ Works /\ UNCHANGED <<mine, bound, guard, program, left, input, abandoned, owed, met>>

(* Opening::open.  A rule that is there is taken over; of two, one is not. *)
Holding(p) ==
  /\ guard' = [guard EXCEPT ![p] = TRUE]
  /\ abandoned' = IF input'[mine[p]] > 1 THEN abandoned \cup {mine[p]}
                  ELSE abandoned \ {mine[p]}
  /\ owed' = [q \in Shell |-> owed[q] \ {mine[p]}]

(* Mutant: the check leaves the tag out.                                   *)
CheckUntagged(p) ==
  /\ Works /\ UNCHANGED <<mine, bound, program, left, input, met>>
  /\ LET open == \E r \in Rule : There(r) /\ r.at = mine[p].at
     IN \/ open /\ Step(p, "check", "waiting") /\ Holding(p)
        \/ ~open /\ Step(p, "check", "insert") /\ UNCHANGED <<guard, abandoned, owed>>

(* A `-C` that fails for another reason does not see the rule, either.     *)
Check(p) ==
  /\ UNCHANGED <<mine, bound, program, left, input, met>>
  /\ \/ There(mine[p]) /\ Step(p, "check", "waiting") /\ Holding(p) /\ Works
     \/ /\ \/ ~There(mine[p]) /\ Step(p, "check", "insert") /\ Works
           \/ There(mine[p]) /\ Step(p, "check", "insert") /\ Fault
           \/ Step(p, "check", "waiting") /\ Fault
        /\ UNCHANGED <<guard, abandoned, owed>>

(* A listener that cannot open the firewall says so and waits.             *)
Insert(p) ==
  /\ Step(p, "insert", "waiting")
  /\ \/ input' = [input EXCEPT ![mine[p]] = @ + 1] /\ Holding(p) /\ Works
     \/ UNCHANGED <<input, guard, abandoned, owed>> /\ Fault
  /\ UNCHANGED <<mine, bound, program, left, met>>

(* receive drops the listener and then the guard; stream keeps both for    *)
(* the session.                                                            *)
Connected(p) ==
  /\ Step(p, "waiting", IF mine[p].owner = "receive" THEN "unbind" ELSE "session")
  /\ Works
  /\ UNCHANGED <<mine, bound, guard, program, left, input, abandoned, owed, met>>

(* A set-up error, or a stop or an error while waiting: `?` drops the      *)
(* guard and then the listener, except in receive's closure.               *)
Unwind(p) ==
  /\ \/ Step(p, "waiting", "close")
     \/ mine[p].owner = "receive" /\ Step(p, "waiting", "unbind")
     \/ Step(p, "session", "close")
  /\ Works
  /\ UNCHANGED <<mine, bound, guard, program, left, input, abandoned, owed, met>>

(* Mutant: closing the listener ends it.                                   *)
UnbindOnly(p) ==
  /\ Step(p, "unbind", "idle")
  /\ bound' = [bound EXCEPT ![p] = FALSE]
  /\ guard' = [guard EXCEPT ![p] = FALSE]
  /\ Works /\ UNCHANGED <<mine, program, left, input, abandoned, owed, met>>

Unbind(p) ==
  /\ Step(p, "unbind", IF guard[p] THEN "close" ELSE "idle")
  /\ bound' = [bound EXCEPT ![p] = FALSE]
  /\ Works /\ UNCHANGED <<mine, guard, program, left, input, abandoned, owed, met>>

(* Drop for Guard, Opening::close; a failure is printed.                   *)
Close(p) ==
  /\ Step(p, "close", IF bound[p] THEN "unbind" ELSE "idle")
  /\ guard' = [guard EXCEPT ![p] = FALSE]
  /\ \/ ~guard[p] /\ UNCHANGED <<input, abandoned>> /\ Works
     \/ guard[p] /\ Delete(mine[p]) /\ Works
     \/ guard[p] /\ UNCHANGED input /\ abandoned' = abandoned \cup {mine[p]} /\ Fault
  /\ UNCHANGED <<mine, bound, program, left, owed, met>>

(* SIGKILL at any point, SIGINT and SIGTERM outside accept.                *)
Kill(p) ==
  /\ pc[p] # "idle"
  /\ budget.kills < MaxKills
  /\ budget' = [budget EXCEPT !.kills = @ + 1]
  /\ pc' = [pc EXCEPT ![p] = "idle"]
  /\ bound' = [bound EXCEPT ![p] = FALSE]
  /\ guard' = [guard EXCEPT ![p] = FALSE]
  /\ left' = [left EXCEPT ![p] = Nothing]
  /\ abandoned' = IF guard[p] THEN abandoned \cup {mine[p]} ELSE abandoned
  /\ UNCHANGED <<mine, program, input, owed, met>>

(* An SSH session begins or ends.                                          *)
Ssh(at) ==
  input' = [input EXCEPT ![[owner |-> "ssh", at |-> at]] = IF @ > 0 THEN 0 ELSE 1]
SshSession ==
  /\ \E at \in SshAt : Ssh(at)
  /\ UNCHANGED <<pc, mine, bound, guard, program, left, abandoned, owed, met, budget>>

Opens(p) == \/ OpenFor(p) \/ List(p) \/ Remove(p) \/ NextProgram(p) \/ Swept(p)
            \/ Check(p) \/ Insert(p)
Ends(p) == Unbind(p) \/ Close(p)

Next == \/ \E p \in Shell : \/ Start(p) \/ Opens(p) \/ Connected(p) \/ Unwind(p)
                            \/ Ends(p) \/ Kill(p)
        \/ SshSession

Spec == Init /\ [][Next]_vars

----------------------------------------------------------------------------
(* Properties *)

Labels == {"idle", "open for", "list", "remove", "check", "insert", "waiting",
           "session", "unbind", "close"}
Budgets == [runs : Nat, faults : Nat, kills : Nat]

(* Every variable keeps its type.                                          *)
TypeOK ==
  /\ pc \in [Shell -> Labels]
  /\ mine \in [Shell -> Rule]
  /\ bound \in [Shell -> BOOLEAN]
  /\ guard \in [Shell -> BOOLEAN]
  /\ program \in [Shell -> Programs]
  /\ left \in [Shell -> [Rule -> Nat]]
  /\ input \in [Rule -> Nat]
  /\ abandoned \in SUBSET Rule
  /\ owed \in [Shell -> SUBSET Rule]
  /\ met \in BOOLEAN
  /\ budget \in Budgets

(* A listener's opening is in the firewall only while an invocation holds  *)
(* its guard, on every path through set-up errors, stops and sessions, or  *)
(* because a kill or a failed iptables left it ("removed on drop"), or     *)
(* inserted it a second time.                                              *)
NoStrayOpening ==
  \A r \in Rule : There(r) =>
    \/ r.owner = "ssh" \/ r \in abandoned
    \/ \E p \in Shell : guard[p] /\ mine[p] = r

(* "a rule left by a run that was killed later is removed at the next      *)
(* start": in both families, whoever else sweeps at the same time, unless  *)
(* iptables fails.  And no sweep takes the opening of an SSH session.      *)
StaleRemoved ==
  [][ /\ \A p \in Shell : pc[p] = "remove" /\ pc'[p] = "check" =>
           \A r \in owed[p] : ~There(r)
      /\ \A r \in Rule : r.owner = "ssh" /\ input'[r] < input[r] =>
           UNCHANGED <<pc, left>> ]_vars

(* An invocation that nobody ran beside has its port open while it waits,  *)
(* whatever stale openings its start found and could not remove.           *)
OpenWhileAlone ==
  ~met => \A p \in Shell :
    pc[p] \in {"waiting", "session"} /\ guard[p] => There(mine[p])
=============================================================================
