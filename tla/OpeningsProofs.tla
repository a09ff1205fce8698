--------------------------- MODULE OpeningsProofs ---------------------------
(***************************************************************************)
(* The openings for any number of shells, endpoints, failures and kills.   *)
(* NoStrayOpening needs two facts more than itself: an idle shell holds no *)
(* guard, so that a new invocation's rule never hides an opening that is   *)
(* still held; and a rule is there twice only when something failed        *)
(* (Single), so that the one deletion of a guard is enough.                *)
(* OpenWhileAlone needs to know where a guard exists and that no other     *)
(* shell is busy before one began beside another (Solo), and StaleRemoved  *)
(* what each sweep has still to list or to delete (Sweep).                 *)
(***************************************************************************)
EXTENDS Openings, TLAPS

IdleHoldsNothing == \A p \in Shell : pc[p] = "idle" => ~guard[p]

Single == \A r \in Rule \ abandoned : input[r] <= 1

IInv == TypeOK /\ IdleHoldsNothing /\ Single /\ NoStrayOpening

(* What a step does to the openings, in the cases the invariant needs.     *)
LEMMA BudgetType ==
  ASSUME TypeOK, Works \/ Fault
  PROVE  budget' \in Budgets
BY DEF TypeOK, Works, Fault, Budgets

LEMMA StepType ==
  ASSUME TypeOK, NEW p \in Shell, NEW from, NEW to \in Labels, Step(p, from, to)
  PROVE  /\ pc' \in [Shell -> Labels] /\ pc[p] = from /\ pc'[p] = to
         /\ \A q \in Shell : q # p => pc'[q] = pc[q]
BY DEF TypeOK, Step

LEMMA LabelTypes ==
  {"idle", "open for", "list", "remove", "check", "insert", "waiting",
   "session", "unbind", "close"} \subseteq Labels
BY DEF Labels

LEMMA NothingType == Nothing \in [Rule -> Nat] /\ \A r \in Rule : Nothing[r] = 0
BY DEF Nothing

(* One copy less, if there was one; the mark goes with the last.           *)
LEMMA Deleted ==
  ASSUME TypeOK, NEW r \in Rule, Delete(r)
  PROVE  /\ input' \in [Rule -> Nat] /\ abandoned' \subseteq abandoned
         /\ \A s \in Rule : s # r => input'[s] = input[s] /\ (s \in abandoned <=> s \in abandoned')
         /\ input'[r] <= input[r] /\ (input[r] > 0 => input'[r] = input[r] - 1)
         /\ input[r] <= 1 => input'[r] = 0
         /\ input[r] > 1 => abandoned' = abandoned
<1>1. input \in [Rule -> Nat] /\ input[r] \in Nat BY DEF TypeOK
<1>2. /\ input' \in [Rule -> Nat]
      /\ input'[r] = IF input[r] > 0 THEN input[r] - 1 ELSE 0
      /\ \A s \in Rule : s # r => input'[s] = input[s]
  BY <1>1 DEF Delete
<1>3. /\ abandoned' \subseteq abandoned
      /\ \A s \in Rule : s # r => (s \in abandoned <=> s \in abandoned')
      /\ input[r] > 1 => abandoned' = abandoned
  BY DEF Delete
<1> QED BY <1>1, <1>2, <1>3

(* What a deletion takes from the firewall is excused no less than before. *)
LEMMA DeletedWell ==
  ASSUME TypeOK, NEW r \in Rule, Delete(r), Single
  PROVE  /\ Single'
         /\ \A s \in Rule \ abandoned' : input'[s] > 0 => s # r /\ s \notin abandoned /\ There(s)
<1>1. input[r] \in Nat /\ input'[r] \in Nat BY Deleted DEF TypeOK
<1>2. r \notin abandoned' => input'[r] = 0
  <2>1. CASE input[r] > 1
    <3>1. r \in abandoned BY <1>1, <2>1 DEF Single
    <3> QED BY <2>1, <3>1, Deleted
  <2>2. CASE input[r] <= 1 BY <2>2, Deleted
  <2> QED BY <1>1, <2>1, <2>2
<1>3. \A s \in Rule : s # r => input'[s] = input[s] /\ (s \in abandoned <=> s \in abandoned')
  BY Deleted
<1>4. Single' BY <1>2, <1>3 DEF Single
<1>5. \A s \in Rule \ abandoned' : input'[s] > 0 => s # r BY <1>2
<1> QED BY <1>3, <1>4, <1>5 DEF There

LEMMA InitInv == Init => IInv
<1> SUFFICES ASSUME Init PROVE IInv
  OBVIOUS
<1>1. TypeOK
  <2>1. mine \in [Shell -> Rule] BY DEF Init
  <2>2. pc \in [Shell -> Labels] BY LabelTypes DEF Init
  <2>3. program \in [Shell -> Programs] BY DEF Init, Programs
  <2>4. budget \in Budgets BY DEF Init, Budgets
  <2> QED BY <2>1, <2>2, <2>3, <2>4, NothingType DEF Init, TypeOK
<1>2. IdleHoldsNothing BY DEF Init, IdleHoldsNothing
<1>3. \A r \in Rule : input[r] = 0 BY NothingType DEF Init
<1>4. NoStrayOpening BY <1>3 DEF NoStrayOpening, There
<1>5. Single BY <1>3 DEF Single
<1> QED BY <1>1, <1>2, <1>4, <1>5 DEF IInv

----------------------------------------------------------------------------
(* The steps of one shell *)

LEMMA StartInv ==
  ASSUME IInv, NEW p \in Shell, Start(p)
  PROVE  IInv'
<1> USE DEF IInv
<1>1. /\ pc' \in [Shell -> Labels] /\ pc[p] = "idle" /\ pc'[p] = "open for"
      /\ \A q \in Shell : q # p => pc'[q] = pc[q]
  <2>1. Step(p, "idle", "open for") BY DEF Start
  <2>2. "open for" \in Labels BY DEF Labels
  <2> QED BY <2>1, <2>2, StepType
<1>2. PICK owner \in Owner, at \in Endpoint :
        mine' = [mine EXCEPT ![p] = [owner |-> owner, at |-> at]]
  BY DEF Start
<1>3. mine' \in [Shell -> Rule] BY <1>2 DEF TypeOK, Rule
<1>4. UNCHANGED <<guard, program, left, input, abandoned, owed>> BY DEF Start
<1>5. TypeOK'
  <2>1. bound' \in [Shell -> BOOLEAN] BY DEF Start, TypeOK
  <2>2. met' \in BOOLEAN BY DEF Start, TypeOK
  <2>3. budget' \in Budgets
    <3>1. budget \in Budgets BY DEF TypeOK
    <3>2. budget' = [budget EXCEPT !.runs = @ + 1] BY DEF Start
    <3>3. budget.runs + 1 \in Nat BY <3>1 DEF Budgets
    <3> QED BY <3>1, <3>2, <3>3 DEF Budgets
  <2> QED BY <1>1, <1>3, <1>4, <2>1, <2>2, <2>3 DEF TypeOK
<1>6. IdleHoldsNothing' BY <1>1, <1>4 DEF IdleHoldsNothing
<1>7. NoStrayOpening'
  <2>1. \A q \in Shell : guard[q] => q # p /\ mine'[q] = mine[q]
    BY <1>1, <1>2 DEF IdleHoldsNothing, TypeOK
  <2> QED BY <1>4, <2>1 DEF NoStrayOpening, There
<1>8. Single' BY <1>4 DEF Single
<1> QED BY <1>5, <1>6, <1>7, <1>8

(* Steps that leave the openings, their holders and the history of the     *)
(* abandoned ones alone.                                                   *)
LEMMA QuietInv ==
  ASSUME IInv, NEW p \in Shell,
         \/ OpenFor(p) \/ List(p) \/ NextProgram(p) \/ Swept(p) \/ Connected(p)
         \/ Unwind(p) \/ Unbind(p)
  PROVE  IInv'
<1> USE DEF IInv
<1>1. /\ UNCHANGED <<mine, guard, input, abandoned, met>> /\ budget' \in Budgets
  BY BudgetType DEF OpenFor, List, NextProgram, Swept, Connected, Unwind, Unbind
<1>2. \E from \in Labels, to \in Labels :
        Step(p, from, to) /\ (to = "idle" => ~guard[p])
  <2>1. CASE OpenFor(p) BY <2>1, LabelTypes DEF OpenFor
  <2>2. CASE List(p) BY <2>2, LabelTypes DEF List
  <2>3. CASE NextProgram(p) BY <2>3, LabelTypes DEF NextProgram
  <2>4. CASE Swept(p) BY <2>4, LabelTypes DEF Swept
  <2>5. CASE Connected(p) BY <2>5, LabelTypes DEF Connected
  <2>6. CASE Unwind(p) BY <2>6, LabelTypes DEF Unwind
  <2>7. CASE Unbind(p) BY <2>7, LabelTypes DEF Unbind
  <2> QED BY <2>1, <2>2, <2>3, <2>4, <2>5, <2>6, <2>7
<1>3. PICK from \in Labels, to \in Labels :
        Step(p, from, to) /\ (to = "idle" => ~guard[p])
  BY <1>2
<1>4. /\ pc' \in [Shell -> Labels] /\ pc'[p] = to
      /\ \A q \in Shell : q # p => pc'[q] = pc[q]
  BY <1>3, StepType
<1>5. TypeOK'
  <2>1. bound' \in [Shell -> BOOLEAN]
    BY DEF OpenFor, List, NextProgram, Swept, Connected, Unwind, Unbind, TypeOK
  <2>2. program' \in [Shell -> Programs]
    BY DEF OpenFor, List, NextProgram, Swept, Connected, Unwind, Unbind, TypeOK, Programs
  <2>3. left' \in [Shell -> [Rule -> Nat]]
    <3>1. CASE List(p)
      <4>1. [r \in Rule |-> IF Tagged(r) /\ Program(r.at) = program[p] THEN input[r] ELSE 0]
              \in [Rule -> Nat]
        BY DEF TypeOK
      <4> QED BY <3>1, <4>1, NothingType DEF List, TypeOK
    <3>2. CASE ~List(p)
      BY <3>2 DEF OpenFor, NextProgram, Swept, Connected, Unwind, Unbind, TypeOK
    <3> QED BY <3>1, <3>2
  <2>4. owed' \in [Shell -> SUBSET Rule]
    <3>1. CASE List(p)
      <4>1. {r \in owed[p] : Program(r.at) # program[p]} \in SUBSET Rule
        BY DEF TypeOK
      <4> QED BY <3>1, <4>1 DEF List, TypeOK
    <3>2. CASE ~List(p)
      BY <3>2 DEF OpenFor, NextProgram, Swept, Connected, Unwind, Unbind, TypeOK
    <3> QED BY <3>1, <3>2
  <2> QED BY <1>1, <1>4, <2>1, <2>2, <2>3, <2>4 DEF TypeOK
<1>6. IdleHoldsNothing' BY <1>1, <1>3, <1>4 DEF IdleHoldsNothing
<1>7. NoStrayOpening' BY <1>1 DEF NoStrayOpening, There
<1>8. Single' BY <1>1 DEF Single
<1> QED BY <1>5, <1>6, <1>7, <1>8

(* A sweep takes a rule and its mark together.                             *)
LEMMA RemoveInv ==
  ASSUME IInv, NEW p \in Shell, Remove(p)
  PROVE  IInv'
<1> USE DEF IInv
<1>1. PICK r \in Rule :
        /\ left[p][r] > 0
        /\ left' = [left EXCEPT ![p][r] = @ - 1]
        /\ \/ Delete(r) /\ UNCHANGED owed /\ Works
           \/ /\ owed' = [owed EXCEPT ![p] = @ \ {r}]
              /\ UNCHANGED <<input, abandoned>> /\ Fault
  BY DEF Remove
<1>2. pc' \in [Shell -> Labels] /\ \A q \in Shell : pc'[q] = pc[q]
  BY StepType, LabelTypes DEF Remove
<1>3. UNCHANGED <<mine, bound, guard, program, met>> BY DEF Remove
<1>4. TypeOK'
  <2>1. left' \in [Shell -> [Rule -> Nat]]
    <3>1. left \in [Shell -> [Rule -> Nat]] /\ left[p][r] - 1 \in Nat BY <1>1 DEF TypeOK
    <3> QED BY <1>1, <3>1
  <2>2. owed' \in [Shell -> SUBSET Rule] BY <1>1 DEF TypeOK
  <2>3. budget' \in Budgets BY <1>1, BudgetType
  <2>4. input' \in [Rule -> Nat] /\ abandoned' \in SUBSET Rule BY <1>1, Deleted DEF TypeOK
  <2> QED BY <1>2, <1>3, <2>1, <2>2, <2>3, <2>4 DEF TypeOK
<1>5. IdleHoldsNothing' BY <1>2, <1>3 DEF IdleHoldsNothing
<1>6. NoStrayOpening' /\ Single'
  <2>1. CASE Delete(r)
    <3>1. Single' BY <2>1, DeletedWell
    <3>2. \A t \in Rule \ abandoned' : input'[t] > 0 => t \notin abandoned /\ There(t)
      BY <2>1, DeletedWell
    <3> QED BY <1>3, <3>1, <3>2 DEF NoStrayOpening, There
  <2>2. CASE UNCHANGED <<input, abandoned>>
    BY <1>3, <2>2 DEF NoStrayOpening, There, Single
  <2> QED BY <1>1, <2>1, <2>2
<1> QED BY <1>4, <1>5, <1>6

(* Opening::open ends with the rule held, or without one.                  *)
LEMMA OpenInv ==
  ASSUME IInv, NEW p \in Shell, Check(p) \/ Insert(p)
  PROVE  IInv'
<1> USE DEF IInv
<1>1. /\ pc' \in [Shell -> Labels] /\ pc'[p] # "idle"
      /\ \A q \in Shell : q # p => pc'[q] = pc[q]
  <2>1. CASE Check(p) BY <2>1, StepType, LabelTypes DEF Check
  <2>2. CASE Insert(p) BY <2>2, StepType, LabelTypes DEF Insert
  <2> QED BY <2>1, <2>2
<1>2. UNCHANGED <<mine, bound, program, left, met>> /\ budget' \in Budgets
  BY BudgetType DEF Check, Insert
<1> DEFINE m == mine[p]
<1>3. \/ Holding(p) /\ input' \in {input, [input EXCEPT ![m] = @ + 1]}
      \/ UNCHANGED <<input, guard, abandoned, owed>>
  BY DEF Check, Insert
<1>4. m \in Rule BY DEF TypeOK
<1> HIDE DEF m
<1>5. /\ input' \in [Rule -> Nat] /\ \A r \in Rule : r # m => input'[r] = input[r]
  <2>1. CASE UNCHANGED input BY <2>1 DEF TypeOK
  <2>2. CASE input' = [input EXCEPT ![m] = @ + 1] BY <1>4, <2>2 DEF TypeOK
  <2> QED BY <1>3, <2>1, <2>2
<1>6. CASE Holding(p)
  <2>1. /\ guard' = [guard EXCEPT ![p] = TRUE]
        /\ abandoned' = IF input'[m] > 1 THEN abandoned \cup {m} ELSE abandoned \ {m}
        /\ owed' = [q \in Shell |-> owed[q] \ {m}]
    BY <1>6 DEF Holding, m
  <2>2. guard'[p] /\ mine'[p] = m /\ \A q \in Shell : guard[q] => guard'[q]
    BY <1>2, <2>1 DEF TypeOK, m
  <2>3. TypeOK' BY <1>1, <1>2, <1>4, <1>5, <2>1 DEF TypeOK
  <2>4. IdleHoldsNothing' BY <1>1, <2>1 DEF IdleHoldsNothing, TypeOK
  <2>5. input'[m] \in Nat BY <1>4, <1>5
  <2>6. Single'
    <3>1. m \notin abandoned' => input'[m] <= 1 BY <2>1, <2>5
    <3>2. \A r \in Rule : r # m => (r \in abandoned <=> r \in abandoned') BY <2>1
    <3> QED BY <1>5, <3>1, <3>2 DEF Single
  <2>7. NoStrayOpening'
    <3>1. \A r \in Rule : r # m => (r \in abandoned <=> r \in abandoned') BY <2>1
    <3> QED BY <1>2, <1>5, <2>2, <3>1 DEF NoStrayOpening, There
  <2> QED BY <2>3, <2>4, <2>6, <2>7
<1>7. CASE UNCHANGED <<input, guard, abandoned, owed>>
  <2>1. TypeOK' BY <1>1, <1>2, <1>7 DEF TypeOK
  <2>2. IdleHoldsNothing' BY <1>1, <1>7 DEF IdleHoldsNothing
  <2> QED BY <1>2, <1>7, <2>1, <2>2 DEF NoStrayOpening, There, Single
<1> QED BY <1>3, <1>6, <1>7

(* The rule goes with its guard, or is marked.                             *)
LEMMA CloseInv ==
  ASSUME IInv, NEW p \in Shell, Close(p) \/ Kill(p)
  PROVE  IInv'
<1> USE DEF IInv
<1>1. /\ pc' \in [Shell -> Labels] /\ \A q \in Shell : q # p => pc'[q] = pc[q]
  <2>1. CASE Kill(p) BY <2>1, LabelTypes DEF Kill, TypeOK
  <2>2. CASE Close(p)
    <3>1. PICK to \in Labels : Step(p, "close", to) BY <2>2, LabelTypes DEF Close
    <3> QED BY <3>1, StepType
  <2> QED BY <2>1, <2>2
<1>2. mine' = mine /\ guard' = [guard EXCEPT ![p] = FALSE] BY DEF Close, Kill
<1>3. \/ guard[p] /\ Delete(mine[p])
      \/ guard[p] /\ UNCHANGED input /\ abandoned' = abandoned \cup {mine[p]}
      \/ ~guard[p] /\ UNCHANGED <<input, abandoned>>
  BY DEF Close, Kill, TypeOK
<1>a. mine[p] \in Rule BY DEF TypeOK
<1>4. TypeOK'
  <2>1. input' \in [Rule -> Nat] /\ abandoned' \in SUBSET Rule
    BY <1>3, <1>a, Deleted DEF TypeOK
  <2>2. guard' \in [Shell -> BOOLEAN] BY <1>2 DEF TypeOK
  <2>3. bound' \in [Shell -> BOOLEAN] BY DEF Close, Kill, TypeOK
  <2>4. left' \in [Shell -> [Rule -> Nat]] BY NothingType DEF Close, Kill, TypeOK
  <2>5. budget' \in Budgets
    <3>1. CASE Close(p) BY <3>1, BudgetType DEF Close
    <3>2. CASE Kill(p)
      <4>1. budget \in Budgets /\ budget' = [budget EXCEPT !.kills = @ + 1]
        BY <3>2 DEF Kill, TypeOK
      <4>2. budget.kills + 1 \in Nat BY <4>1 DEF Budgets
      <4> QED BY <4>1, <4>2 DEF Budgets
    <3> QED BY <3>1, <3>2
  <2>6. UNCHANGED <<program, owed, met>> BY DEF Close, Kill
  <2> QED BY <1>1, <1>2, <2>1, <2>2, <2>3, <2>4, <2>5, <2>6 DEF TypeOK
<1>5. ~guard'[p] /\ \A q \in Shell : q # p => guard'[q] = guard[q]
  BY <1>2 DEF TypeOK
<1>6. IdleHoldsNothing' BY <1>1, <1>5 DEF IdleHoldsNothing
<1>7. NoStrayOpening'
  <2> SUFFICES ASSUME NEW r \in Rule, input'[r] > 0, r.owner # "ssh", r \notin abandoned'
               PROVE  \E q \in Shell : guard'[q] /\ mine'[q] = r
    BY DEF NoStrayOpening, There
  <2>1. There(r) /\ r \notin abandoned /\ (guard[p] => r # mine[p])
    BY <1>3, <1>a, DeletedWell DEF There
  <2>2. PICK q \in Shell : guard[q] /\ mine[q] = r BY <2>1 DEF NoStrayOpening
  <2>3. q # p BY <2>1, <2>2
  <2> QED BY <1>2, <1>5, <2>2, <2>3
<1>8. Single'
  <2>1. CASE Delete(mine[p]) BY <1>a, <2>1, DeletedWell
  <2>2. CASE UNCHANGED input /\ abandoned \subseteq abandoned' BY <2>2 DEF Single
  <2> QED BY <1>3, <2>1, <2>2
<1> QED BY <1>4, <1>6, <1>7, <1>8

LEMMA SshInv ==
  ASSUME IInv, SshSession
  PROVE  IInv'
<1> USE DEF IInv
<1>1. PICK at \in Endpoint : Ssh(at) BY ConstantsAssumption DEF SshSession
<1> DEFINE r == [owner |-> "ssh", at |-> at]
<1>2. r \in Rule /\ r.owner = "ssh" BY DEF Rule
<1>3. /\ input' \in [Rule -> Nat] /\ input'[r] \in {0, 1}
      /\ \A s \in Rule : s # r => input'[s] = input[s]
  BY <1>1, <1>2 DEF Ssh, TypeOK
<1>4. UNCHANGED <<pc, mine, bound, guard, program, left, abandoned, owed, met, budget>>
  BY DEF SshSession
<1> HIDE DEF r
<1>5. TypeOK' BY <1>2, <1>3, <1>4 DEF TypeOK
<1>6. IdleHoldsNothing' BY <1>4 DEF IdleHoldsNothing
<1>7. NoStrayOpening' BY <1>2, <1>3, <1>4 DEF NoStrayOpening, There
<1>8. Single' BY <1>3, <1>4 DEF Single
<1> QED BY <1>5, <1>6, <1>7, <1>8

----------------------------------------------------------------------------
(* The theorems *)

LEMMA NextInv == IInv /\ [Next]_vars => IInv'
<1> SUFFICES ASSUME IInv, [Next]_vars PROVE IInv'
  OBVIOUS
<1>1. CASE Next
  <2>1. CASE SshSession BY <2>1, SshInv
  <2>2. ASSUME NEW p \in Shell,
               \/ Start(p) \/ Opens(p) \/ Connected(p) \/ Unwind(p) \/ Ends(p) \/ Kill(p)
        PROVE  IInv'
    BY <2>2, StartInv, QuietInv, RemoveInv, OpenInv, CloseInv DEF Opens, Ends
  <2> QED BY <1>1, <2>1, <2>2 DEF Next
<1>2. CASE UNCHANGED vars
  BY <1>2 DEF vars, IInv, TypeOK, IdleHoldsNothing, NoStrayOpening, There, Single
<1> QED BY <1>1, <1>2

(* TypeOK holds for any shells, endpoints and bounds.                      *)
THEOREM TypeCorrect == Spec => []TypeOK
<1>1. IInv => TypeOK BY DEF IInv
<1> QED BY <1>1, InitInv, NextInv, PTL DEF Spec

(* However many invocations run beside each other, fail and are killed: an *)
(* opening is held, or a kill or a failing iptables left it.               *)
THEOREM NoStray == Spec => []NoStrayOpening
<1>1. IInv => NoStrayOpening BY DEF IInv
<1> QED BY <1>1, InitInv, NextInv, PTL DEF Spec
-----------------------------------------------------------------------------
(* Who is alone, and what a sweep still owes *)

Mine == \A p \in Shell : Tagged(mine[p])

(* An invocation that no other has run beside is the only one.             *)
Alone == ~met => \A p, q \in Shell : pc[p] # "idle" /\ pc[q] # "idle" => p = q

(* The guard exists from the insertion on.                                 *)
Guarded ==
  \A p \in Shell : guard[p] => pc[p] \in {"waiting", "session", "unbind", "close"}

(* What a sweep still owes is listed, or of the program not yet asked.     *)
Sweep ==
  /\ \A r \in abandoned : Tagged(r)
  /\ \A p \in Shell :
       /\ \A r \in owed[p] : Tagged(r)
       /\ \A r \in Rule : left[p][r] > 0 => Tagged(r)
       /\ pc[p] = "remove" =>
            \A r \in owed[p] : Program(r.at) = program[p] => input[r] <= left[p][r]
       /\ pc[p] \in {"list", "remove"} /\ program[p] = "ip6tables" =>
            \A r \in owed[p] : There(r) => Program(r.at) = "ip6tables"

Solo == Mine /\ Alone /\ Guarded /\ OpenWhileAlone
----------------------------------------------------------------------------
(* What each action does to the call, the guards and the rules. *)

LEMMA Others ==
  ASSUME TypeOK, NEW p \in Shell,
         \/ Start(p) \/ Opens(p) \/ Connected(p) \/ Unwind(p) \/ Ends(p) \/ Kill(p)
  PROVE  \A q \in Shell : q # p =>
           /\ pc'[q] = pc[q] /\ mine'[q] = mine[q] /\ guard'[q] = guard[q]
           /\ program'[q] = program[q] /\ left'[q] = left[q]
<1>1. CASE Start(p) BY <1>1 DEF Start, Step, TypeOK
<1>2. CASE Opens(p)
  BY <1>2 DEF Opens, OpenFor, List, Remove, NextProgram, Swept, Check, Insert, Step,
     Holding, TypeOK
<1>3. CASE Connected(p) \/ Unwind(p) BY <1>3 DEF Connected, Unwind, Step, TypeOK
<1>4. CASE Ends(p) BY <1>4 DEF Ends, Unbind, Close, Step, TypeOK
<1>5. CASE Kill(p) BY <1>5 DEF Kill, TypeOK
<1> QED BY <1>1, <1>2, <1>3, <1>4, <1>5

LEMMA SoloStep ==
  ASSUME TypeOK, Solo, Next
  PROVE  Solo'
<1> USE DEF Solo
<1>1. CASE SshSession
  <2>1. UNCHANGED <<pc, mine, guard, met>> BY <1>1 DEF SshSession
  <2>2. PICK at \in SshAt : Ssh(at) BY <1>1 DEF SshSession
  <2>3. \A p \in Shell : There(mine[p]) => input'[mine[p]] > 0
    <3>1. \A t \in Rule : Tagged(t) => input'[t] = input[t]
      BY <2>2 DEF Ssh, Tagged, TypeOK
    <3>2. \A p \in Shell : mine[p] \in Rule BY DEF TypeOK
    <3> QED BY <3>1, <3>2 DEF Mine, There
  <2>4. Mine' /\ Alone' /\ Guarded' BY <2>1 DEF Mine, Alone, Guarded, Tagged
  <2>5. OpenWhileAlone' BY <2>1, <2>3 DEF OpenWhileAlone, There
  <2> QED BY <2>4, <2>5
<1>2. ASSUME NEW p \in Shell,
             \/ Start(p) \/ Opens(p) \/ Connected(p) \/ Unwind(p) \/ Ends(p) \/ Kill(p)
      PROVE  Solo'
  <2>1. \A q \in Shell : q # p =>
          pc'[q] = pc[q] /\ mine'[q] = mine[q] /\ guard'[q] = guard[q]
    BY <1>2, Others
  <2>2. CASE Start(p)
    <3>1. /\ pc[p] = "idle" /\ pc'[p] = "open for" /\ UNCHANGED <<guard, input>>
          /\ met' = (met \/ \E q \in Shell \ {p} : pc[q] # "idle")
      BY <2>2 DEF Start, Step, TypeOK
    <3>2. Tagged(mine'[p])
      <4>1. PICK owner \in Owner, at \in Endpoint :
              mine' = [mine EXCEPT ![p] = [owner |-> owner, at |-> at]]
        BY <2>2 DEF Start
      <4>2. mine'[p].owner = owner BY <4>1 DEF TypeOK
      <4>3. owner # "ssh" BY DEF Owner
      <4> QED BY <4>2, <4>3 DEF Tagged
    <3>3. Mine' BY <2>1, <3>2 DEF Mine, Tagged
    <3>4. Alone' BY <2>1, <3>1 DEF Alone
    <3>5. Guarded' BY <2>1, <3>1 DEF Guarded
    <3>6. OpenWhileAlone' BY <2>1, <3>1 DEF OpenWhileAlone, There
    <3> QED BY <3>3, <3>4, <3>5, <3>6
  <2>3. ASSUME ~Start(p) PROVE pc[p] # "idle" /\ UNCHANGED <<mine, met>>
    BY <1>2, <2>3 DEF Opens, OpenFor, List, Remove, NextProgram, Swept, Check, Insert,
       Connected, Unwind, Ends, Unbind, Close, Kill, Step
  <2>4. ASSUME ~Start(p), Guarded',
               pc'[p] \in {"waiting", "session"} /\ guard'[p] => input'[mine[p]] > 0
        PROVE  Solo'
    <3>1. pc[p] # "idle" /\ UNCHANGED <<mine, met>> BY <2>3, <2>4
    <3>2. Mine' BY <3>1 DEF Mine, Tagged
    <3>3. Alone' BY <2>1, <3>1 DEF Alone
    <3>4. OpenWhileAlone' BY <2>1, <2>4, <3>1 DEF Alone, OpenWhileAlone, There
    <3> QED BY <2>4, <3>2, <3>3, <3>4
  <2>5. CASE OpenFor(p) \/ List(p) \/ Remove(p) \/ NextProgram(p) \/ Swept(p)
    <3>1. /\ guard'[p] = guard[p] /\ UNCHANGED guard
          /\ pc[p] \in {"open for", "list", "remove"}
      BY <2>5 DEF OpenFor, List, Remove, NextProgram, Swept, Step
    <3>2. ~guard'[p] BY <3>1 DEF Guarded
    <3>3. Guarded' BY <2>1, <3>1, <3>2 DEF Guarded
    <3>4. ~Start(p) BY <3>1 DEF Start, Step
    <3> QED BY <2>4, <3>2, <3>3, <3>4
  <2>6. CASE Check(p) \/ Insert(p)
    <3>1. /\ pc[p] \in {"check", "insert"} /\ pc'[p] \in {"insert", "waiting"}
          /\ guard'[p] => pc'[p] = "waiting" /\ input'[mine[p]] > 0
      <4>1. CASE Check(p)
        BY <2>6, <4>1 DEF Check, Step, Holding, There, TypeOK, Guarded
      <4>2. CASE Insert(p)
        <5>1. mine[p] \in Rule /\ input[mine[p]] \in Nat BY DEF TypeOK
        <5>2. /\ pc[p] = "insert" /\ pc'[p] = "waiting"
              /\ input' = [input EXCEPT ![mine[p]] = @ + 1] \/ guard' = guard
          BY <4>2 DEF Insert, Step, TypeOK
        <5>3. ~guard[p] BY <5>2 DEF Guarded
        <5>4. CASE input' = [input EXCEPT ![mine[p]] = @ + 1]
          <6>1. input'[mine[p]] = input[mine[p]] + 1 BY <5>1, <5>4 DEF TypeOK
          <6> QED BY <5>1, <5>2, <6>1
        <5>5. CASE guard' = guard BY <5>2, <5>3, <5>5
        <5> QED BY <5>2, <5>4, <5>5
      <4> QED BY <2>6, <4>1, <4>2
    <3>2. Guarded' BY <2>1, <3>1 DEF Guarded
    <3>3. ~Start(p) BY <3>1 DEF Start, Step
    <3> QED BY <2>4, <3>1, <3>2, <3>3
  <2>7. CASE Connected(p) \/ Unwind(p)
    <3>1. /\ pc[p] \in {"waiting", "session"} /\ pc'[p] \in {"session", "unbind", "close"}
          /\ UNCHANGED <<guard, input>>
          /\ pc'[p] = "session" => pc[p] = "waiting"
      BY <2>7 DEF Connected, Unwind, Step, TypeOK
    <3>2. Guarded' BY <2>1, <3>1 DEF Guarded
    <3>3. ~Start(p) BY <3>1 DEF Start, Step
    <3>4. CASE met
      <4>1. met' BY <2>3, <3>3, <3>4
      <4>2. Mine' BY <2>3, <3>3 DEF Mine, Tagged
      <4> QED BY <3>2, <4>1, <4>2 DEF Alone, OpenWhileAlone
    <3>5. CASE ~met
      <4>1. guard[p] => input[mine[p]] > 0 BY <3>1, <3>5 DEF OpenWhileAlone, There
      <4> QED BY <2>4, <3>1, <3>2, <3>3, <4>1
    <3> QED BY <3>4, <3>5
  <2>8. CASE Unbind(p)
    <3>1. /\ pc[p] = "unbind" /\ UNCHANGED guard
          /\ pc'[p] = IF guard[p] THEN "close" ELSE "idle"
      BY <2>8 DEF Unbind, Step, TypeOK
    <3>2. Guarded' BY <2>1, <3>1 DEF Guarded
    <3>3. ~Start(p) BY <3>1 DEF Start, Step
    <3> QED BY <2>4, <3>1, <3>2, <3>3
  <2>9. CASE Close(p) \/ Kill(p)
    <3>1. ~guard'[p] /\ pc[p] # "idle" BY <2>9 DEF Close, Kill, Step, TypeOK
    <3>2. Guarded' BY <2>1, <3>1 DEF Guarded
    <3>3. ~Start(p) BY <3>1 DEF Start, Step
    <3> QED BY <2>4, <3>1, <3>2, <3>3
  <2> QED BY <1>2, <2>2, <2>5, <2>6, <2>7, <2>8, <2>9 DEF Opens, Ends
<1> QED BY <1>1, <1>2 DEF Next

LEMMA SoloAlways == Spec => []Solo
<1>1. Init => Solo
  <2> SUFFICES ASSUME Init PROVE Solo OBVIOUS
  <2>1. \A p \in Shell : pc[p] = "idle" /\ ~guard[p] BY DEF Init
  <2>2. \A p \in Shell : mine[p].owner = "receive" BY DEF Init
  <2> QED BY <2>1, <2>2 DEF Solo, Mine, Tagged, Alone, Guarded, OpenWhileAlone
<1>2. TypeOK /\ Solo /\ [Next]_vars => Solo'
  <2> SUFFICES ASSUME TypeOK, Solo, [Next]_vars PROVE Solo' OBVIOUS
  <2>1. CASE UNCHANGED vars
    BY <2>1 DEF vars, Solo, Mine, Tagged, Alone, Guarded, OpenWhileAlone, There
  <2> QED BY <2>1, SoloStep
<1> QED BY <1>1, <1>2, TypeCorrect, PTL DEF Spec

(* An invocation that nobody ran beside keeps its opening while it waits.  *)
THEOREM AloneIsOpen == Spec => []OpenWhileAlone
<1>1. Solo => OpenWhileAlone BY DEF Solo
<1> QED BY <1>1, SoloAlways, PTL

----------------------------------------------------------------------------
(* The sweep *)

LEMMA Prog == \A e : Program(e) = "iptables" \/ Program(e) = "ip6tables"
BY DEF Program

(* What a step of a shell does to the chains: nothing, or one copy of a    *)
(* rule that it listed or made goes, or one of its own comes, which nobody *)
(* then owes.                                                              *)
LEMMA Effect ==
  ASSUME TypeOK, NEW p \in Shell,
         \/ Start(p) \/ Opens(p) \/ Connected(p) \/ Unwind(p) \/ Ends(p) \/ Kill(p)
  PROVE  \/ UNCHANGED input
         \/ \E r \in Rule : Delete(r) /\ (r = mine[p] \/ left[p][r] > 0)
         \/ /\ input' = [input EXCEPT ![mine[p]] = @ + 1]
            /\ owed' = [q \in Shell |-> owed[q] \ {mine[p]}]
<1>1. mine[p] \in Rule BY DEF TypeOK
<1>2. CASE Start(p) \/ OpenFor(p) \/ List(p) \/ NextProgram(p) \/ Swept(p) \/ Check(p)
           \/ Connected(p) \/ Unwind(p) \/ Unbind(p) \/ Kill(p)
  <2>1. UNCHANGED input
    BY <1>2 DEF Start, OpenFor, List, NextProgram, Swept, Check, Connected, Unwind, Unbind,
       Kill
  <2> QED BY <2>1
<1>3. CASE Remove(p) BY <1>3 DEF Remove
<1>4. CASE Insert(p) BY <1>4 DEF Insert, Holding
<1>5. CASE Close(p) BY <1>1, <1>5 DEF Close
<1> QED BY <1>2, <1>3, <1>4, <1>5 DEF Opens, Ends

LEMMA OwedShrinks ==
  ASSUME TypeOK, NEW p \in Shell,
         \/ Start(p) \/ Opens(p) \/ Connected(p) \/ Unwind(p) \/ Ends(p) \/ Kill(p)
  PROVE  \A q \in Shell : q # p => owed'[q] \subseteq owed[q]
<1>1. CASE Start(p) \/ NextProgram(p) \/ Swept(p) \/ Connected(p) \/ Unwind(p) \/ Ends(p)
           \/ Kill(p)
  <2>1. UNCHANGED owed
    BY <1>1 DEF Start, NextProgram, Swept, Connected, Unwind, Ends, Unbind, Close, Kill
  <2> QED BY <2>1
<1>2. CASE OpenFor(p) BY <1>2 DEF OpenFor, TypeOK
<1>3. CASE List(p) BY <1>3 DEF List, TypeOK
<1>4. CASE Remove(p) BY <1>4 DEF Remove, TypeOK
<1>5. CASE Check(p) BY <1>5 DEF Check, Holding
<1>6. CASE Insert(p) BY <1>6 DEF Insert, Holding
<1> QED BY <1>1, <1>2, <1>3, <1>4, <1>5, <1>6 DEF Opens

(* The sweeps of the other shells see what they owe go, and never come.    *)
LEMMA SweepKept ==
  ASSUME TypeOK, NEW p \in Shell,
         \/ Start(p) \/ Opens(p) \/ Connected(p) \/ Unwind(p) \/ Ends(p) \/ Kill(p)
  PROVE  \A q \in Shell : q # p => \A r \in owed'[q] : r \in owed[q] /\ input'[r] <= input[r]
<1> SUFFICES ASSUME NEW q \in Shell, q # p, NEW r \in owed'[q]
             PROVE  r \in owed[q] /\ input'[r] <= input[r]
  OBVIOUS
<1>1. r \in owed[q] BY OwedShrinks
<1>2. r \in Rule /\ input[r] \in Nat BY <1>1 DEF TypeOK
<1>3. CASE UNCHANGED input BY <1>1, <1>2, <1>3
<1>4. ASSUME NEW t \in Rule, Delete(t) PROVE input'[r] <= input[r]
  <2>1. CASE t = r BY <1>4, <2>1, Deleted
  <2>2. CASE t # r
    <3>1. input'[r] = input[r] BY <1>2, <1>4, <2>2, Deleted
    <3> QED BY <1>2, <3>1
  <2> QED BY <2>1, <2>2
<1>5. CASE /\ input' = [input EXCEPT ![mine[p]] = @ + 1]
           /\ owed' = [k \in Shell |-> owed[k] \ {mine[p]}]
  <2>1. r # mine[p] BY <1>5
  <2>2. input'[r] = input[r] BY <1>2, <1>5, <2>1 DEF TypeOK
  <2> QED BY <1>1, <1>2, <2>2
<1> QED BY <1>1, <1>3, <1>4, <1>5, Effect

SweepOf(p) ==
  /\ \A r \in owed[p] : Tagged(r)
  /\ \A r \in Rule : left[p][r] > 0 => Tagged(r)
  /\ pc[p] = "remove" =>
       \A r \in owed[p] : Program(r.at) = program[p] => input[r] <= left[p][r]
  /\ pc[p] \in {"list", "remove"} /\ program[p] = "ip6tables" =>
       \A r \in owed[p] : There(r) => Program(r.at) = "ip6tables"

LEMMA SweepOwn ==
  ASSUME TypeOK, Mine, Sweep, NEW p \in Shell,
         \/ Start(p) \/ Opens(p) \/ Connected(p) \/ Unwind(p) \/ Ends(p) \/ Kill(p)
  PROVE  SweepOf(p)'
<1> USE DEF SweepOf, Sweep
<1>1. CASE Start(p) BY <1>1 DEF Start, Step, TypeOK
<1>2. CASE OpenFor(p)
  <2>1. /\ pc'[p] = "waiting" \/ (pc'[p] = "list" /\ program'[p] = "iptables")
        /\ owed'[p] \in {owed[p], abandoned} /\ left' = left
    BY <1>2 DEF OpenFor, Step, TypeOK
  <2> QED BY <2>1
<1>3. CASE List(p)
  <2>1. /\ pc[p] = "list" /\ pc'[p] = "remove" /\ UNCHANGED <<program, input>>
    BY <1>3 DEF List, Step, TypeOK
  <2>2. CASE /\ left' = [left EXCEPT ![p] =
                          [r \in Rule |-> IF Tagged(r) /\ Program(r.at) = program[p]
                                          THEN input[r] ELSE 0]]
             /\ owed' = owed
    <3>1. \A r \in Rule : left'[p][r] = IF Tagged(r) /\ Program(r.at) = program[p]
                                        THEN input[r] ELSE 0
      BY <2>2 DEF TypeOK
    <3>2. \A r \in owed[p] : r \in Rule /\ input[r] \in Nat BY DEF TypeOK
    <3>3. \A r \in owed'[p] : Program(r.at) = program'[p] => input'[r] <= left'[p][r]
      BY <2>1, <2>2, <3>1, <3>2
    <3>4. \A r \in Rule : left'[p][r] > 0 => Tagged(r) BY <3>1
    <3> QED BY <2>1, <2>2, <3>3, <3>4 DEF There, Tagged
  <2>3. CASE /\ left' = [left EXCEPT ![p] = Nothing]
             /\ owed' = [owed EXCEPT ![p] = {r \in @ : Program(r.at) # program[p]}]
    <3>1. left'[p] = Nothing /\ owed'[p] = {r \in owed[p] : Program(r.at) # program[p]}
      BY <2>3 DEF TypeOK
    <3>2. \A r \in Rule : ~(left'[p][r] > 0) BY <3>1, NothingType
    <3> QED BY <2>1, <3>1, <3>2 DEF There, Tagged
  <2> QED BY <1>3, <2>2, <2>3 DEF List
<1>4. CASE Remove(p)
  <2>1. PICK r \in Rule :
          /\ left[p][r] > 0
          /\ left' = [left EXCEPT ![p][r] = @ - 1]
          /\ \/ Delete(r) /\ owed' = owed
             \/ owed' = [owed EXCEPT ![p] = @ \ {r}] /\ input' = input
    BY <1>4 DEF Remove
  <2>2. /\ pc[p] = "remove" /\ pc'[p] = "remove" /\ program' = program
    BY <1>4 DEF Remove, Step, TypeOK
  <2>3. left[p] \in [Rule -> Nat] /\ \A t \in Rule : left[p][t] \in Nat /\ input[t] \in Nat
    BY DEF TypeOK
  <2>4. left \in [Shell -> [Rule -> Nat]] BY DEF TypeOK
  <2>5. /\ left'[p][r] = left[p][r] - 1 /\ \A t \in Rule : t # r => left'[p][t] = left[p][t]
    BY <2>1, <2>4
  <2>6. \A t \in Rule : left'[p][t] > 0 => Tagged(t) BY <2>1, <2>3, <2>5
  <2>7. owed'[p] \subseteq owed[p] /\ owed[p] \subseteq Rule BY <2>1 DEF TypeOK
  <2>8. \A t \in owed'[p] : /\ input'[t] <= input[t]
                            /\ t # r => input'[t] = input[t]
                            /\ t = r => input'[t] = 0 \/ input'[t] = input[t] - 1
    <3>1. CASE Delete(r)
      <4>1. input'[r] <= input[r] /\ (input'[r] = 0 \/ input'[r] = input[r] - 1)
        <5>1. input[r] \in Nat BY <2>3
        <5> QED BY <3>1, <5>1, Deleted
      <4>2. \A t \in Rule : t # r => input'[t] = input[t] BY <3>1, Deleted
      <4>3. \A t \in Rule : input[t] <= input[t] BY <2>3
      <4> QED BY <2>7, <4>1, <4>2, <4>3
    <3>2. CASE owed' = [owed EXCEPT ![p] = @ \ {r}] /\ input' = input
      <4>1. r \notin owed'[p] BY <3>2 DEF TypeOK
      <4> QED BY <2>3, <2>7, <3>2, <4>1
    <3> QED BY <2>1, <3>1, <3>2
  <2>9. \A t \in owed'[p] : Program(t.at) = program'[p] => input'[t] <= left'[p][t]
    <3> SUFFICES ASSUME NEW t \in owed'[p], Program(t.at) = program[p]
                 PROVE  input'[t] <= left'[p][t]
      BY <2>2
    <3>1. t \in Rule /\ input[t] <= left[p][t] BY <2>2, <2>7
    <3>2. CASE t = r
      <4>1. input[t] \in Nat /\ left[p][t] \in Nat /\ left'[p][t] = left[p][t] - 1
        BY <2>3, <2>5, <3>1, <3>2
      <4>2. left[p][t] > 0 BY <2>1, <3>2
      <4>3. input'[t] = 0 \/ input'[t] = input[t] - 1 BY <2>8, <3>2
      <4> QED BY <3>1, <4>1, <4>2, <4>3
    <3>3. CASE t # r BY <2>5, <2>8, <3>1, <3>3
    <3> QED BY <3>2, <3>3
  <2>10. \A t \in owed'[p] : input'[t] > 0 => There(t)
    <3> SUFFICES ASSUME NEW t \in owed'[p], input'[t] > 0 PROVE input[t] > 0 BY DEF There
    <3>1. t \in Rule /\ input[t] \in Nat BY <2>3, <2>7
    <3>2. input'[t] <= input[t] BY <2>8
    <3>3. input'[t] = input[t] \/ input'[t] = 0 \/ input'[t] = input[t] - 1 BY <2>8
    <3> QED BY <3>1, <3>2, <3>3
  <2>11. SweepOf(p) BY DEF SweepOf
  <2>12. \A t \in owed'[p] : Tagged(t) BY <2>7, <2>11
  <2>13. program[p] = "ip6tables" =>
           \A t \in owed'[p] : input'[t] > 0 => Program(t.at) = "ip6tables"
    BY <2>2, <2>7, <2>10, <2>11
  <2> QED BY <2>2, <2>6, <2>9, <2>12, <2>13 DEF There, Tagged
<1>5. CASE NextProgram(p)
  <2>1. /\ pc[p] = "remove" /\ pc'[p] = "list" /\ UNCHANGED <<owed, input, left>>
        /\ left[p] = Nothing /\ program[p] = "iptables"
    BY <1>5 DEF NextProgram, Step, TypeOK
  <2>2. \A r \in owed[p] : r \in Rule /\ input[r] \in Nat BY DEF TypeOK
  <2>3. \A r \in owed[p] : Program(r.at) = "iptables" => input[r] <= 0
    BY <2>1, <2>2, NothingType
  <2>4. \A r \in owed[p] : input[r] > 0 => Program(r.at) = "ip6tables" BY <2>2, <2>3, Prog
  <2> QED BY <2>1, <2>4 DEF There, Tagged
<1>6. CASE Swept(p) BY <1>6 DEF Swept, Step, TypeOK
<1>7. CASE Check(p) \/ Insert(p)
  <2>1. /\ pc'[p] \in {"waiting", "insert"} /\ left' = left /\ owed'[p] \subseteq owed[p]
    BY <1>7 DEF Check, Insert, Holding, Step, TypeOK
  <2> QED BY <2>1
<1>8. CASE Connected(p) \/ Unwind(p) \/ Ends(p) \/ Kill(p)
  <2>1. /\ pc'[p] \in {"session", "unbind", "close", "idle"} /\ owed' = owed
        /\ left'[p] = left[p] \/ left'[p] = Nothing
    BY <1>8 DEF Connected, Unwind, Ends, Unbind, Close, Kill, Step, TypeOK
  <2>2. \A r \in Rule : ~(Nothing[r] > 0) BY NothingType
  <2> QED BY <2>1, <2>2 DEF Tagged
<1> QED BY <1>1, <1>2, <1>3, <1>4, <1>5, <1>6, <1>7, <1>8 DEF Opens

LEMMA SweepStep ==
  ASSUME TypeOK, Mine, Sweep, Next
  PROVE  Sweep'
<1>1. CASE SshSession
  <2>1. UNCHANGED <<pc, program, left, abandoned, owed>> BY <1>1 DEF SshSession
  <2>2. PICK at \in SshAt : Ssh(at) BY <1>1 DEF SshSession
  <2>3. \A r \in Rule : Tagged(r) => input'[r] = input[r] BY <2>2 DEF Ssh, Tagged, TypeOK
  <2>4. \A p \in Shell : \A r \in owed[p] : r \in Rule /\ Tagged(r) BY DEF Sweep, TypeOK
  <2>5. \A p \in Shell : \A r \in owed[p] : input'[r] = input[r] BY <2>3, <2>4
  <2> QED BY <2>1, <2>5 DEF Sweep, There, Tagged
<1>2. ASSUME NEW p \in Shell,
             \/ Start(p) \/ Opens(p) \/ Connected(p) \/ Unwind(p) \/ Ends(p) \/ Kill(p)
      PROVE  Sweep'
  <2>1. \A r \in abandoned' : Tagged(r)
    <3>1. abandoned' \subseteq abandoned \cup {mine[p]}
      <4>1. CASE Start(p) \/ OpenFor(p) \/ List(p) \/ NextProgram(p) \/ Swept(p)
                 \/ Connected(p) \/ Unwind(p) \/ Unbind(p)
        BY <1>2, <4>1 DEF Start, OpenFor, List, NextProgram, Swept, Connected, Unwind, Unbind
      <4>2. CASE Remove(p) BY <4>2 DEF Remove, Delete
      <4>3. CASE Check(p) \/ Insert(p) BY <4>3 DEF Check, Insert, Holding
      <4>4. CASE Close(p) \/ Kill(p) BY <4>4 DEF Close, Kill, Delete
      <4> QED BY <1>2, <4>1, <4>2, <4>3, <4>4 DEF Opens, Ends
    <3> QED BY <3>1 DEF Sweep, Mine, Tagged
  <2>2. \A q \in Shell : q # p => SweepOf(q)'
    <3> SUFFICES ASSUME NEW q \in Shell, q # p PROVE SweepOf(q)' OBVIOUS
    <3>1. /\ pc'[q] = pc[q] /\ program'[q] = program[q] /\ left'[q] = left[q]
      BY <1>2, Others
    <3>2. \A r \in owed'[q] : r \in owed[q] /\ input'[r] <= input[r] BY <1>2, SweepKept
    <3>3. SweepOf(q) BY DEF Sweep, SweepOf
    <3>4. /\ \A r \in Rule : input[r] \in Nat /\ left[q][r] \in Nat
          /\ \A r \in owed[q] : r \in Rule
      BY DEF TypeOK
    <3>5. input' \in [Rule -> Nat]
      <4>1. CASE UNCHANGED input BY <4>1 DEF TypeOK
      <4>2. CASE \E r \in Rule : Delete(r) BY <4>2, Deleted
      <4>3. CASE input' = [input EXCEPT ![mine[p]] = @ + 1] BY <4>3 DEF TypeOK
      <4> QED BY <1>2, <4>1, <4>2, <4>3, Effect
    <3>6. \A r \in owed'[q] : input'[r] > 0 => There(r)
      <4> SUFFICES ASSUME NEW r \in owed'[q], input'[r] > 0 PROVE input[r] > 0 BY DEF There
      <4>1. r \in Rule /\ input[r] \in Nat /\ input'[r] \in Nat BY <3>2, <3>4, <3>5
      <4> QED BY <3>2, <4>1
    <3>7. pc[q] = "remove" =>
            \A r \in owed'[q] : Program(r.at) = program[q] => input'[r] <= left[q][r]
      <4> SUFFICES ASSUME pc[q] = "remove", NEW r \in owed'[q], Program(r.at) = program[q]
                   PROVE  input'[r] <= left[q][r]
        OBVIOUS
      <4>1. r \in Rule /\ input[r] \in Nat /\ input'[r] \in Nat /\ left[q][r] \in Nat
        BY <3>2, <3>4, <3>5
      <4>2. input[r] <= left[q][r] BY <3>2, <3>3 DEF SweepOf
      <4> QED BY <3>2, <4>1, <4>2
    <3>8. /\ \A r \in owed'[q] : Tagged(r)
          /\ \A r \in Rule : left[q][r] > 0 => Tagged(r)
          /\ pc[q] \in {"list", "remove"} /\ program[q] = "ip6tables" =>
               \A r \in owed'[q] : input'[r] > 0 => Program(r.at) = "ip6tables"
      BY <3>2, <3>3, <3>6 DEF SweepOf
    <3> QED BY <3>1, <3>7, <3>8 DEF SweepOf, There, Tagged
  <2>3. SweepOf(p)' BY <1>2, SweepOwn
  <2>4. \A q \in Shell : SweepOf(q)' BY <2>2, <2>3
  <2> QED BY <2>1, <2>4 DEF Sweep, SweepOf, Tagged
<1> QED BY <1>1, <1>2 DEF Next

(* A sweep that is through has left none of the openings it found stale,   *)
(* in either family; and no listener takes the opening of an SSH session.  *)
THEOREM SweptClean == Spec => StaleRemoved
<1>1. Init => Sweep BY NothingType DEF Init, Sweep
<1>2. TypeOK /\ Solo /\ Sweep /\ [Next]_vars => Sweep'
  <2> SUFFICES ASSUME TypeOK, Solo, Sweep, [Next]_vars PROVE Sweep' OBVIOUS
  <2>1. CASE UNCHANGED vars BY <2>1 DEF vars, Sweep, There, Tagged
  <2> QED BY <2>1, SweepStep DEF Solo
<1>3. ASSUME TypeOK, Solo, Sweep, Next, NEW p \in Shell, pc[p] = "remove", pc'[p] = "check"
      PROVE  \A r \in owed[p] : ~There(r)
  <2>1. Swept(p)
    <3>1. ~SshSession BY <1>3 DEF SshSession
    <3>2. PICK q \in Shell :
            \/ Start(q) \/ Opens(q) \/ Connected(q) \/ Unwind(q) \/ Ends(q) \/ Kill(q)
      BY <1>3, <3>1 DEF Next
    <3>3. q = p BY <1>3, <3>2, Others
    <3> QED BY <1>3, <3>2, <3>3 DEF Start, Opens, OpenFor, List, Remove, NextProgram,
            Check, Insert, Connected, Unwind, Ends, Unbind, Close, Kill, Step, TypeOK
  <2>2. left[p] = Nothing /\ program[p] = "ip6tables" BY <2>1 DEF Swept
  <2> SUFFICES ASSUME NEW r \in owed[p], There(r) PROVE FALSE OBVIOUS
  <2>3. r \in Rule /\ input[r] \in Nat BY <1>3 DEF TypeOK
  <2>4. Program(r.at) = "ip6tables" BY <1>3, <2>2 DEF Sweep
  <2>5. input[r] <= left[p][r] BY <1>3, <2>2, <2>4 DEF Sweep
  <2>6. left[p][r] = 0 BY <2>2, <2>3, NothingType
  <2> QED BY <2>3, <2>5, <2>6 DEF There
<1>4. ASSUME TypeOK, Solo, Sweep, Next, NEW r \in Rule, r.owner = "ssh", input'[r] < input[r]
      PROVE  UNCHANGED <<pc, left>>
  <2>1. CASE SshSession BY <2>1 DEF SshSession
  <2>2. ASSUME NEW p \in Shell,
               \/ Start(p) \/ Opens(p) \/ Connected(p) \/ Unwind(p) \/ Ends(p) \/ Kill(p)
        PROVE  FALSE
    <3>1. r # mine[p] /\ ~(left[p][r] > 0) BY <1>4 DEF Solo, Mine, Sweep, Tagged
    <3>2. input[r] \in Nat BY <1>4 DEF TypeOK
    <3>3. CASE UNCHANGED input BY <1>4, <3>2, <3>3
    <3>4. ASSUME NEW t \in Rule, Delete(t), t = mine[p] \/ left[p][t] > 0 PROVE FALSE
      <4>1. t # r BY <3>1, <3>4
      <4>2. input'[r] = input[r] BY <1>4, <3>4, <4>1, Deleted
      <4> QED BY <1>4, <3>2, <4>2
    <3>5. CASE input' = [input EXCEPT ![mine[p]] = @ + 1]
      <4>1. input'[r] = input[r] BY <1>4, <3>1, <3>5 DEF TypeOK
      <4> QED BY <1>4, <3>2, <4>1
    <3> QED BY <1>4, <2>2, <3>3, <3>4, <3>5, Effect
  <2> QED BY <1>4, <2>1, <2>2 DEF Next
<1>5. TypeOK /\ Solo /\ Sweep /\ [Next]_vars =>
      [ /\ \A p \in Shell : pc[p] = "remove" /\ pc'[p] = "check" =>
             \A r \in owed[p] : ~There(r)
        /\ \A r \in Rule : r.owner = "ssh" /\ input'[r] < input[r] =>
             UNCHANGED <<pc, left>> ]_vars
  BY <1>3, <1>4
<1> QED BY <1>1, <1>2, <1>5, SoloAlways, TypeCorrect, PTL DEF Spec, StaleRemoved
=============================================================================
