---------------------------- MODULE StreamProofs ----------------------------
(***************************************************************************)
(* Proofs about `dfnet stream` for every set of names, alphabet, hash      *)
(* function and bound.  The argument: a stream reaches the rename only     *)
(* with its file synced and equal to what its END declared (`Vouched`); a  *)
(* broken stream's file keeps its name, so no later stream can be given    *)
(* that name, and a published one is never renamed over (`Apart`).  The    *)
(* exit code follows from a tally that says of every call what the items   *)
(* say with the one about to be added (`Told`).                            *)
(***************************************************************************)
EXTENDS Stream, SequenceTheorems, TLAPS

(* Calls made while a code is shown.                                       *)
Shown == {"poll", "accept", "accepted", "abort", "handshake", "hello", "recv",
          "create partial", "receive", "sync", "rename", "add", "finish"}

Counting ==
  /\ \A i \in DOMAIN spent : spent[i] <= ATTEMPTS
  /\ pc = "create" => failures = 0
  /\ pc \in Shown => Len(spent) > 0 /\ spent[Len(spent)] = failures /\ failures < ATTEMPTS

(* What the stream at hand is known to be.                                 *)
Vouched ==
  /\ stream.end.form = "whole" => stream.end.mark \in declared[stream.name]
  /\ pc = "rename" =>
       /\ partial[stream.name] = {stream.buf}
       /\ stream.end.form = "whole" /\ stream.end.mark = MarkOf(stream.buf)
       /\ stream.status = "complete"
  /\ pc = "add" =>
       CASE stream.status = "complete" -> raw[stream.name] = {stream.buf}
         [] stream.status = "failed" -> partial[stream.name] # {}
         [] OTHER -> partial[stream.name] = {stream.buf}

(* Its file is nobody else's.                                              *)
Apart ==
  /\ pc \in {"receive", "sync", "rename"} => partial[stream.name] # {}
  /\ pc \in {"receive", "sync", "rename"} =>
       \A i \in DOMAIN collection.items :
         /\ collection.items[i].name = stream.name
         => collection.items[i].status = "complete"

IInv == TypeOK /\ Counting /\ Vouched /\ Apart /\ ItemsDescribeFiles

----------------------------------------------------------------------------
(* Types *)

LEMMA BudgetType ==
  ASSUME TypeOK, Works \/ Fault
  PROVE  budget' \in Budgets
<1>1. budget \in Budgets BY DEF TypeOK
<1>2. CASE Works BY <1>1, <1>2 DEF Works
<1>3. CASE Fault
  <2>1. budget.faults + 1 \in Nat BY <1>1 DEF Budgets
  <2>2. budget' = [budget EXCEPT !.faults = budget.faults + 1] BY <1>3 DEF Fault
  <2> QED BY <1>1, <2>1, <2>2 DEF Budgets
<1> QED BY <1>2, <1>3

(* Actions that move on and leave everything but the bounds alone.         *)
LEMMA MoveType ==
  ASSUME TypeOK, Poll \/ Nobody \/ Accepted \/ Pair \/ HelloFrame \/ Bye \/ Silence \/ BreaksOff
  PROVE  /\ pc' \in Labels /\ budget' \in Budgets
         /\ UNCHANGED <<listening, todo, files, stream, tally, collection, declared, begun>>
<1>1. CASE Poll BY <1>1, BudgetType DEF Poll, Step, Labels
<1>2. CASE Nobody BY <1>2, BudgetType DEF Nobody, Step, Labels
<1>3. CASE Accepted BY <1>3, BudgetType DEF Accepted, Breaks, Step, Labels
<1>4. CASE Pair BY <1>4, BudgetType DEF Pair, Breaks, Step, Labels
<1>5. CASE HelloFrame BY <1>5, BudgetType DEF HelloFrame, Step, Labels
<1>6. CASE Bye BY <1>6, BudgetType DEF Bye, Step, Labels
<1>7. CASE Silence BY <1>7, BudgetType DEF Silence, Step, Labels
<1>8. CASE BreaksOff BY <1>8, BudgetType DEF BreaksOff, Step, Labels
<1> QED BY <1>1, <1>2, <1>3, <1>4, <1>5, <1>6, <1>7, <1>8

LEMMA StartType ==
  ASSUME TypeOK, CheckOutput
  PROVE  TypeOK'
<1>1. PICK next \in {"refused", "create"} : Begin(next) BY DEF CheckOutput
<1>2. pc' \in Labels BY <1>1 DEF Begin, Labels
<1>3. budget' \in Budgets BY <1>1 DEF Begin, TypeOK, Budgets
<1>4. tally' \in Tallies BY <1>1 DEF Begin, NoTally, Tallies
<1> QED BY <1>1, <1>2, <1>3, <1>4 DEF Begin, files, TypeOK

LEMMA ListenType ==
  ASSUME TypeOK, Counting, Create \/ Accept \/ Abort \/ PairFails
  PROVE  TypeOK'
<1>1. CASE Create
  <2>1. pc' \in Labels /\ budget' \in Budgets
    BY <1>1, BudgetType DEF Create, Step, Breaks, Labels
  <2>2. Append(spent, 0) \in Seq(Nat) BY DEF TypeOK
  <2>3. [form |-> "open", items |-> <<>>] \in Collections BY DEF Collections
  <2>4. collection' \in Collections BY <1>1, <2>3 DEF Create, TypeOK
  <2> QED BY <1>1, <2>1, <2>2, <2>4 DEF Create, files, TypeOK
<1>2. CASE Accept
  <2>1. pc' \in Labels BY <1>2 DEF Accept, Step, Labels
  <2>2. budget' \in Budgets
    <3>1. budget \in Budgets BY DEF TypeOK
    <3>2. budget.connections + 1 \in Nat BY <3>1 DEF Budgets
    <3>3. budget' = [budget EXCEPT !.connections = budget.connections + 1]
      BY <1>2 DEF Accept
    <3> QED BY <3>1, <3>2, <3>3 DEF Budgets
  <2>3. knows' \in Nat
    <3>1. pc = "accept" /\ knows' \in {0, Len(spent) - 1, Len(spent)}
      BY <1>2 DEF Accept, Step
    <3>2. Len(spent) \in Nat /\ Len(spent) > 0 BY <3>1 DEF TypeOK, Counting, Shown
    <3> QED BY <3>1, <3>2
  <2>4. todo' \in Nat BY <1>2, ConstantsAssumption DEF Accept
  <2> QED BY <1>2, <2>1, <2>2, <2>3, <2>4 DEF Accept, files, TypeOK
<1>3. CASE Abort
  <2>1. pc' \in Labels /\ budget' \in Budgets
    BY <1>3, BudgetType DEF Abort, Step, Breaks, Labels
  <2>2. collection' \in Collections BY <1>3 DEF Abort, TypeOK, Collections
  <2> QED BY <1>3, <2>1, <2>2 DEF Abort, listening, files, TypeOK
<1>4. CASE PairFails
  <2>1. pc' \in Labels /\ budget' \in Budgets
    BY <1>4, BudgetType DEF PairFails, Step, Breaks, Labels
  <2>2. Len(spent) \in 1..Len(spent) /\ spent[Len(spent)] + 1 \in Nat
    <3>1. pc = "handshake" BY <1>4 DEF PairFails, Step, Breaks
    <3>2. spent \in Seq(Nat) /\ Len(spent) \in Nat BY DEF TypeOK
    <3>3. Len(spent) > 0 BY <3>1 DEF Counting, Shown
    <3>4. Len(spent) \in 1..Len(spent) BY <3>2, <3>3
    <3> QED BY <3>2, <3>4, ElementOfSeq
  <2> DEFINE tried == [spent EXCEPT ![Len(spent)] = @ + 1]
  <2>3. tried \in Seq(Nat) BY <2>2, ExceptSeq DEF TypeOK
  <2>4. Append(tried, 0) \in Seq(Nat) BY <2>3
  <2>5. spent' \in {tried, Append(tried, 0)} BY <1>4 DEF PairFails
  <2>6. failures' \in Nat BY <1>4 DEF PairFails, TypeOK
  <2> HIDE DEF tried
  <2> QED BY <1>4, <2>1, <2>3, <2>4, <2>5, <2>6 DEF PairFails, files, TypeOK
<1> QED BY <1>1, <1>2, <1>3, <1>4

LEMMA ContentFacts ==
  /\ <<>> \in Content
  /\ \A c \in Content : MarkOf(c) \in Mark /\ Sha256(c) \in Digest /\ Len(c) \in Nat
  /\ \A c \in Content, b \in Byte : Len(c) < MaxBytes => Append(c, b) \in Content
<1>1. <<>> \in Content
  <2>1. <<>> \in [1..0 -> Byte] OBVIOUS
  <2>2. 0 \in 0..MaxBytes BY ConstantsAssumption
  <2> QED BY <2>1, <2>2 DEF Content
<1>2. ASSUME NEW c \in Content
      PROVE  c \in Seq(Byte) /\ Len(c) \in Nat /\ c \in [1..Len(c) -> Byte]
  <2>1. PICK n \in 0..MaxBytes : c \in [1..n -> Byte] BY DEF Content
  <2>2. n \in Nat BY ConstantsAssumption
  <2>3. c \in Seq(Byte) BY <2>1, <2>2
  <2> QED BY <2>3
<1>3. \A c \in Content : MarkOf(c) \in Mark /\ Sha256(c) \in Digest /\ Len(c) \in Nat
  BY <1>2, ConstantsAssumption DEF MarkOf, Mark
<1>4. ASSUME NEW c \in Content, NEW b \in Byte, Len(c) < MaxBytes
      PROVE  Append(c, b) \in Content
  <2>1. c \in Seq(Byte) /\ Len(c) \in Nat BY <1>2
  <2>2. Append(c, b) \in Seq(Byte) /\ Len(Append(c, b)) = Len(c) + 1 BY <2>1, AppendProperties
  <2>3. Append(c, b) \in [1..(Len(c) + 1) -> Byte] BY <2>2, LenProperties
  <2>4. Len(c) + 1 \in 0..MaxBytes BY <1>4, <2>1, ConstantsAssumption
  <2> QED BY <2>3, <2>4 DEF Content
<1> QED BY <1>1, <1>3, <1>4

(* Steps of a session that touch the stream, its file or its item.         *)
LEMMA FileType ==
  ASSUME TypeOK, CreatePartial \/ (\E b \in Byte : Data(b)) \/ StoreFails
  PROVE  TypeOK'
<1>1. CASE CreatePartial
  <2>1. pc' \in Labels /\ budget' \in Budgets
    BY <1>1, BudgetType DEF CreatePartial, Step, Breaks, Labels
  <2>2. {<<>>} \in SUBSET Content BY ContentFacts
  <2>3. partial' \in [Name -> SUBSET Content] BY <1>1, <2>2 DEF CreatePartial, TypeOK
  <2> QED BY <1>1, <2>1, <2>3 DEF CreatePartial, listening, TypeOK
<1>2. ASSUME NEW b \in Byte, Data(b) PROVE TypeOK'
  <2>1. pc' \in Labels /\ budget' \in Budgets BY <1>2, BudgetType DEF Data, Step, Labels
  <2>2. stream \in Streams /\ stream.buf \in Content BY DEF TypeOK, Streams
  <2>3. Append(stream.buf, b) \in Content BY <1>2, <2>2, ContentFacts DEF Data
  <2>4. stream' = [stream EXCEPT !.buf = Append(stream.buf, b)] BY <1>2 DEF Data
  <2>5. stream' \in Streams /\ stream'.buf \in Content BY <2>2, <2>3, <2>4 DEF Streams
  <2>6. partial' \in [Name -> SUBSET Content] BY <1>2, <2>5 DEF Data, TypeOK
  <2> QED BY <1>2, <2>1, <2>5, <2>6 DEF Data, listening, TypeOK
<1>3. CASE StoreFails
  <2>1. pc' \in Labels /\ budget' \in Budgets
    BY <1>3, BudgetType DEF StoreFails, Step, Labels
  <2>2. stream' \in Streams BY <1>3 DEF StoreFails, TypeOK, Streams, Status
  <2> QED BY <1>3, <2>1, <2>2 DEF StoreFails, listening, files, TypeOK
<1> QED BY <1>1, <1>2, <1>3

LEMMA FrameType ==
  ASSUME TypeOK, (\E f \in Name : StartFrame(f)) \/ EndFrame
  PROVE  TypeOK'
<1>1. ASSUME NEW f \in Name, StartFrame(f) PROVE TypeOK'
  <2>1. pc' \in Labels /\ budget' \in Budgets
    BY <1>1, BudgetType DEF StartFrame, Step, Labels
  <2>2. todo' \in Nat /\ begun' \in Nat
    <3>1. todo \in Nat /\ begun \in Nat BY DEF TypeOK
    <3>2. todo > 0 /\ todo' = todo - 1 /\ begun' = begun + 1 BY <1>1 DEF StartFrame
    <3> QED BY <3>1, <3>2
  <2>3. NoEnd \in End BY DEF NoEnd, End
  <2>4. Idle(f) \in Streams BY <2>3, ContentFacts DEF Idle, Streams, Status
  <2> QED BY <1>1, <2>1, <2>2, <2>4 DEF StartFrame, listening, files, TypeOK
<1>2. CASE EndFrame
  <2>1. pc' \in Labels /\ budget' \in Budgets
    BY <1>2, BudgetType DEF EndFrame, Step, Labels
  <2>2. PICK c \in Content, form \in {"whole", "stopped"}, zeroed \in BOOLEAN :
          /\ stream' = [stream EXCEPT !.end =
                          [form |-> form, mark |-> MarkOf(c), zeroed |-> zeroed]]
          /\ declared' = IF form = "whole"
                         THEN [declared EXCEPT ![stream.name] = @ \cup {MarkOf(c)}]
                         ELSE declared
    BY <1>2 DEF EndFrame
  <2>3. MarkOf(c) \in Mark BY ContentFacts
  <2>4. [form |-> form, mark |-> MarkOf(c), zeroed |-> zeroed] \in End
    BY <2>3 DEF End
  <2>5. stream' \in Streams BY <2>2, <2>4 DEF TypeOK, Streams
  <2>6. declared' \in [Name -> SUBSET Mark] BY <2>2, <2>3 DEF TypeOK
  <2> QED BY <1>2, <2>1, <2>5, <2>6 DEF EndFrame, listening, files, TypeOK
<1> QED BY <1>1, <1>2

LEMMA CountType ==
  ASSUME TypeOK, NEW status \in Status, Counted(status)
  PROVE  tally' \in Tallies
<1>1. tally \in Tallies /\ \A k \in {"complete", "incomplete", "mismatch"} : tally[k] + 1 \in Nat
  BY DEF TypeOK, Tallies
<1>2. PICK k \in {"complete", "incomplete", "mismatch"} : tally' = [tally EXCEPT ![k] = tally[k] + 1]
  BY DEF Counted, Status
<1> QED BY <1>1, <1>2 DEF Tallies

LEMMA StoreType ==
  ASSUME TypeOK, Sync \/ Rename \/ Add \/ Finish
  PROVE  TypeOK'
<1>1. stream \in Streams /\ stream.name \in Name /\ stream.buf \in Content /\ stream.end \in End
  BY DEF TypeOK, Streams
<1>2. CASE Sync
  <2>1. pc' \in Labels /\ budget' \in Budgets BY <1>2, BudgetType DEF Sync, Step, Labels
  <2>2. Judged \in Status BY DEF Judged, Status
  <2>3. PICK status \in Status : stream' = [stream EXCEPT !.status = status]
    <3>1. "failed" \in Status BY DEF Status
    <3> QED BY <1>2, <2>2, <3>1 DEF Sync
  <2>4. stream' \in Streams BY <1>1, <2>3 DEF Streams
  <2>5. partial' \in [Name -> SUBSET Content] BY <1>1, <1>2 DEF Sync, TypeOK
  <2>6. tally' \in Tallies
    <3>1. "failed" \in Status BY DEF Status
    <3>2. UNCHANGED tally \/ Counted(Judged) \/ Counted("failed") BY <1>2 DEF Sync
    <3> QED BY <2>2, <3>1, <3>2, CountType DEF TypeOK
  <2> QED BY <1>2, <2>1, <2>4, <2>5, <2>6 DEF Sync, listening, TypeOK
<1>3. CASE Rename
  <2>1. pc' \in Labels /\ budget' \in Budgets
    BY <1>3, BudgetType DEF Rename, Step, Breaks, Labels
  <2>2. partial' \in [Name -> SUBSET Content] BY <1>1, <1>3 DEF Rename, files, TypeOK
  <2>3. raw' \in [Name -> SUBSET Content] BY <1>1, <1>3 DEF Rename, files, TypeOK
  <2>4. tally' \in Tallies
    <3>1. tally \in Tallies /\ tally.complete + 1 \in Nat /\ tally.zeroed + 1 \in Nat
      BY DEF TypeOK, Tallies
    <3>2. \/ UNCHANGED tally
          \/ tally' = [tally EXCEPT !.complete = tally.complete + 1,
                                   !.zeroed = IF stream.end.zeroed THEN tally.zeroed + 1
                                              ELSE tally.zeroed]
      BY <1>3 DEF Rename
    <3> QED BY <3>1, <3>2 DEF Tallies
  <2> QED BY <1>3, <2>1, <2>2, <2>3, <2>4 DEF Rename, listening, TypeOK
<1>4. CASE Add
  <2>1. pc' \in Labels /\ budget' \in Budgets
    BY <1>4, BudgetType DEF Add, Step, Breaks, Labels
  <2>2. NewItem \in Item
    <3>1. stream.status \in Status /\ Sha256(stream.buf) \in Digest
      BY <1>1, ContentFacts DEF Streams
    <3>2. (stream.status = "complete" /\ stream.end.zeroed) \in BOOLEAN OBVIOUS
    <3> QED BY <1>1, <3>1, <3>2 DEF NewItem, Item
  <2>3. collection \in Collections /\ collection.items \in Seq(Item)
    BY DEF TypeOK, Collections
  <2>4. Append(collection.items, NewItem) \in Seq(Item) BY <2>2, <2>3
  <2>5. collection' \in {collection,
          [collection EXCEPT !.items = Append(collection.items, NewItem)]}
    BY <1>4 DEF Add
  <2>6. collection' \in Collections BY <2>3, <2>4, <2>5 DEF Collections
  <2> QED BY <1>4, <2>1, <2>6 DEF Add, listening, files, TypeOK
<1>5. CASE Finish
  <2>1. budget' \in Budgets BY <1>5, BudgetType DEF Finish, Breaks
  <2>2. ExitCode \in Codes BY DEF ExitCode, Codes
  <2>3. pc' \in Labels BY <1>5, <2>2 DEF Finish, Step, Breaks, Labels
  <2>4. collection' \in Collections BY <1>5 DEF Finish, TypeOK, Collections
  <2> QED BY <1>5, <2>1, <2>3, <2>4 DEF Finish, listening, files, TypeOK
<1> QED BY <1>2, <1>3, <1>4, <1>5

LEMMA NextType ==
  ASSUME TypeOK, Counting, Next
  PROVE  TypeOK'
<1>1. CASE Signal BY <1>1 DEF Signal, files, TypeOK
<1>2. CASE Kill
  <2>1. pc' \in Labels BY <1>2 DEF Kill, Labels
  <2>2. budget' \in Budgets
    <3>1. budget \in Budgets /\ budget.kills + 1 \in Nat BY DEF TypeOK, Budgets
    <3>2. budget' = [budget EXCEPT !.kills = budget.kills + 1] BY <1>2 DEF Kill
    <3> QED BY <3>1, <3>2 DEF Budgets
  <2> QED BY <1>2, <2>1, <2>2 DEF Kill, listening, files, TypeOK
<1>3. CASE Poll \/ Nobody \/ Accepted \/ Pair \/ HelloFrame \/ Bye \/ Silence \/ BreaksOff
  BY <1>3, MoveType DEF listening, files, TypeOK
<1>4. CASE CheckOutput BY <1>4, StartType
<1>5. CASE Create \/ Accept \/ Abort \/ PairFails BY <1>5, ListenType
<1>6. CASE CreatePartial \/ (\E b \in Byte : Data(b)) \/ StoreFails BY <1>6, FileType
<1>7. CASE (\E f \in Name : StartFrame(f)) \/ EndFrame BY <1>7, FrameType
<1>8. CASE Sync \/ Rename \/ Add \/ Finish BY <1>8, StoreType
<1> QED BY <1>1, <1>2, <1>3, <1>4, <1>5, <1>6, <1>7, <1>8
        DEF Next, Sends, Listens, Receives

----------------------------------------------------------------------------
(* Codes *)

LEMMA NextCounting ==
  ASSUME TypeOK, Counting, Next
  PROVE  Counting'
<1>1. CASE CheckOutput
  <2>1. UNCHANGED spent /\ failures' = 0 /\ pc' \in {"refused", "create"}
    BY <1>1 DEF CheckOutput, Begin
  <2> QED BY <2>1 DEF Counting, Shown
<1>2. CASE Create
  <2>1. CASE spent' = Append(spent, 0) /\ pc = "create" /\ pc' = "poll"
    <3>1. spent \in Seq(Nat) BY DEF TypeOK
    <3>2. UNCHANGED failures BY <1>2 DEF Create
    <3>3. /\ Len(spent') = Len(spent) + 1 /\ spent' \in Seq(Nat) /\ Len(spent) \in Nat
          /\ spent'[Len(spent) + 1] = 0 /\ \A i \in 1..Len(spent) : spent'[i] = spent[i]
      BY <2>1, <3>1, AppendProperties
    <3>4. \A i \in 1..Len(spent) : spent[i] <= ATTEMPTS BY <3>1 DEF Counting
    <3>5. \A i \in DOMAIN spent' : spent'[i] <= ATTEMPTS
      <4>1. \A i \in DOMAIN spent' : i \in 1..Len(spent) \/ i = Len(spent) + 1 BY <3>3
      <4> QED BY <3>3, <3>4, <4>1 DEF ATTEMPTS
    <3> QED BY <2>1, <3>2, <3>3, <3>5 DEF Counting, ATTEMPTS
  <2>2. CASE UNCHANGED spent /\ pc' = "error"
    BY <2>2 DEF Counting, Shown
  <2> QED BY <1>2, <2>1, <2>2 DEF Create, Step, Breaks
<1>3. CASE PairFails
  <2>1. pc = "handshake" /\ pc' \in {"poll", "error"} BY <1>3 DEF PairFails, Step, Breaks
  <2>2. /\ spent \in Seq(Nat) /\ Len(spent) \in 1..Len(spent) /\ failures \in Nat
        /\ spent[Len(spent)] = failures /\ failures < ATTEMPTS
    BY <2>1 DEF Counting, Shown, TypeOK
  <2> DEFINE tried == [spent EXCEPT ![Len(spent)] = failures + 1]
  <2>3. /\ tried \in Seq(Nat) /\ Len(tried) = Len(spent)
        /\ \A j \in 1..Len(spent) : tried[j] = IF j = Len(spent) THEN failures + 1 ELSE spent[j]
    <3>1. failures + 1 \in Nat BY <2>2
    <3> QED BY <2>2, <3>1, ExceptSeq
  <2>4. /\ tried = [spent EXCEPT ![Len(spent)] = @ + 1]
        /\ tried[Len(spent)] = failures + 1
    BY <2>2, <2>3
  <2> HIDE DEF tried
  <2>5. /\ \A j \in 1..Len(spent) : tried[j] <= ATTEMPTS
        /\ \A j \in DOMAIN tried : tried[j] <= ATTEMPTS
    <3>1. \A j \in 1..Len(spent) : spent[j] <= ATTEMPTS BY <2>2 DEF Counting
    <3>2. DOMAIN tried = 1..Len(spent) BY <2>3, LenProperties
    <3>3. failures + 1 <= ATTEMPTS BY <2>2 DEF ATTEMPTS
    <3>4. \A j \in 1..Len(spent) : tried[j] <= ATTEMPTS BY <2>3, <3>1, <3>3
    <3> QED BY <3>2, <3>4
  <2>6. \/ failures + 1 >= ATTEMPTS /\ failures' = 0 /\ spent' = Append(tried, 0)
        \/ failures + 1 < ATTEMPTS /\ failures' = failures + 1 /\ spent' = tried
        \/ pc' = "error" /\ spent' = tried
    <3>1. failures + 1 >= ATTEMPTS \/ failures + 1 < ATTEMPTS BY <2>2 DEF ATTEMPTS
    <3>2. ~(failures + 1 >= ATTEMPTS) => failures + 1 < ATTEMPTS BY <2>2 DEF ATTEMPTS
    <3> QED BY <1>3, <2>4, <3>2 DEF PairFails, Step, Breaks
  <2>7. CASE failures + 1 >= ATTEMPTS /\ failures' = 0 /\ spent' = Append(tried, 0)
    <3>1. /\ Len(spent') = Len(spent) + 1 /\ spent' \in Seq(Nat) /\ Len(spent) \in Nat
          /\ spent'[Len(spent) + 1] = 0 /\ \A i \in 1..Len(spent) : spent'[i] = tried[i]
      BY <2>3, <2>7, AppendProperties
    <3>2. \A i \in DOMAIN spent' : spent'[i] <= ATTEMPTS
      <4>1. \A i \in DOMAIN spent' : i \in 1..Len(spent) \/ i = Len(spent) + 1 BY <3>1
      <4> QED BY <2>5, <3>1, <4>1 DEF ATTEMPTS
    <3> QED BY <2>1, <2>7, <3>1, <3>2 DEF Counting, ATTEMPTS
  <2>8. CASE failures + 1 < ATTEMPTS /\ failures' = failures + 1 /\ spent' = tried
    <3>1. \A j \in DOMAIN spent' : spent'[j] <= ATTEMPTS BY <2>5, <2>8
    <3>2. Len(spent') = Len(spent) /\ spent'[Len(spent)] = failures' BY <2>3, <2>4, <2>8
    <3>3. Len(spent') > 0 BY <2>2, <3>2
    <3> QED BY <2>1, <2>8, <3>1, <3>2, <3>3 DEF Counting
  <2>9. CASE pc' = "error" /\ spent' = tried
    <3>1. \A j \in DOMAIN spent' : spent'[j] <= ATTEMPTS BY <2>5, <2>9
    <3> QED BY <2>9, <3>1 DEF Counting, Shown
  <2> QED BY <2>6, <2>7, <2>8, <2>9
<1>4. CASE ~(CheckOutput \/ Create \/ PairFails)
  <2>1. UNCHANGED <<spent, failures>>
    BY <1>4 DEF Next, Sends, Listens, Receives, Signal, Poll, Nobody, Accept, Accepted,
       Abort, Pair, HelloFrame, StartFrame, Bye, Silence, CreatePartial, Data, EndFrame,
       BreaksOff, StoreFails, Sync, Rename, Add, Finish, Kill, listening
  <2>2. pc' = "create" => pc = "create"
    BY <1>4 DEF Next, Sends, Listens, Receives, Signal, Poll, Nobody, Accept, Accepted,
       Abort, Pair, HelloFrame, StartFrame, Bye, Silence, CreatePartial, Data, EndFrame,
       BreaksOff, StoreFails, Sync, Rename, Add, Finish, Kill, Step, Breaks, ExitCode
  <2>3. pc' \in Shown => pc \in Shown
    BY <1>4 DEF Next, Sends, Listens, Receives, Signal, Poll, Nobody, Accept, Accepted,
       Abort, Pair, HelloFrame, StartFrame, Bye, Silence, CreatePartial, Data, EndFrame,
       BreaksOff, StoreFails, Sync, Rename, Add, Finish, Kill, Step, Breaks, ExitCode, Shown
  <2> QED BY <2>1, <2>2, <2>3 DEF Counting
<1> QED BY <1>1, <1>2, <1>3, <1>4

----------------------------------------------------------------------------
(* Files, items and what was declared *)

Good == Vouched /\ Apart /\ ItemsDescribeFiles

LEMMA ItemNames ==
  ASSUME TypeOK
  PROVE  \A i \in DOMAIN collection.items : collection.items[i].name \in Name
<1>1. collection.items \in Seq(Item) BY DEF TypeOK, Collections
<1>2. \A i \in DOMAIN collection.items : collection.items[i] \in Item
  BY <1>1, ElementOfSeq, LenProperties
<1> QED BY <1>2 DEF Item

LEMMA QuietGood ==
  ASSUME IInv, UNCHANGED <<files, stream, declared>>,
         collection'.items \in {collection.items, <<>>},
         pc' \notin {"receive", "sync", "rename", "add"}
  PROVE  Good'
<1>1. Vouched' BY DEF IInv, files, Vouched
<1>2. Apart' BY DEF IInv, files, Apart
<1>3. ItemsDescribeFiles'
  <2>1. CASE collection'.items = collection.items
    BY <2>1 DEF IInv, files, ItemsDescribeFiles
  <2>2. CASE collection'.items = <<>>
    BY <2>2 DEF ItemsDescribeFiles
  <2> QED BY <2>1, <2>2
<1> QED BY <1>1, <1>2, <1>3 DEF Good

LEMMA ListenGood ==
  ASSUME IInv,
         \/ CheckOutput \/ Create \/ Signal \/ Poll \/ Nobody \/ Accept \/ Accepted
         \/ Abort \/ Pair \/ PairFails \/ HelloFrame \/ Bye \/ Silence \/ Finish \/ Kill
  PROVE  Good'
<1>1. UNCHANGED <<files, stream, declared>>
  BY DEF CheckOutput, Begin, Create, Signal, Poll, Nobody, Accept, Accepted, Abort, Pair,
     PairFails, HelloFrame, Bye, Silence, Finish, Kill, files
<1>2. collection'.items \in {collection.items, <<>>}
  <2>1. collection \in Collections BY DEF IInv, TypeOK
  <2>2. \/ UNCHANGED collection \/ collection' = [form |-> "open", items |-> <<>>]
        \/ \E f \in {"aborted", "done"} : collection' = [collection EXCEPT !.form = f]
    BY DEF CheckOutput, Begin, Create, Signal, Poll, Nobody, Accept, Accepted, Abort, Pair,
       PairFails, HelloFrame, Bye, Silence, Finish, Kill
  <2> QED BY <2>1, <2>2 DEF Collections
<1>3. pc' \notin {"receive", "sync", "rename", "add"}
  <2>1. CASE Finish
    <3>1. ExitCode \in Codes BY DEF ExitCode, Codes
    <3> QED BY <2>1, <3>1 DEF Finish, Step, Breaks, Codes
  <2>2. CASE ~Finish
    BY <2>2 DEF CheckOutput, Begin, Create, Signal, Poll, Nobody, Accept, Accepted, Abort,
       Pair, PairFails, HelloFrame, Bye, Silence, Kill, Step, Breaks
  <2> QED BY <2>1, <2>2
<1> QED BY <1>1, <1>2, <1>3, QuietGood

LEMMA StartFrameGood ==
  ASSUME IInv, NEW f \in Name, StartFrame(f)
  PROVE  Good'
<1>1. UNCHANGED <<files, collection, declared>> /\ stream' = Idle(f) /\ pc' = "create partial"
  BY DEF StartFrame, Step
<1>2. stream'.end.form = "none" BY <1>1 DEF Idle, NoEnd
<1> QED BY <1>1, <1>2 DEF IInv, Good, Vouched, Apart, ItemsDescribeFiles, files

LEMMA CreatePartialGood ==
  ASSUME IInv, CreatePartial
  PROVE  Good'
<1>1. UNCHANGED <<raw, stream, collection, declared>> /\ stream.name \in Name
      /\ partial \in [Name -> SUBSET Content]
  BY DEF CreatePartial, IInv, TypeOK, Streams
<1>2. CASE pc' = "error" /\ UNCHANGED partial
  BY <1>1, <1>2, QuietGood DEF files
<1>3. CASE /\ partial[stream.name] = {} /\ pc' = "receive"
           /\ partial' = [partial EXCEPT ![stream.name] = {<<>>}]
  <2>1. \A i \in DOMAIN collection.items :
          collection.items[i].name = stream.name => collection.items[i].status = "complete"
    BY <1>3 DEF IInv, ItemsDescribeFiles
  <2>2. /\ partial'[stream.name] = {<<>>}
        /\ \A g \in Name : g # stream.name => partial'[g] = partial[g]
    BY <1>1, <1>3
  <2>3. Vouched' BY <1>1, <1>3 DEF IInv, Vouched
  <2>4. Apart' BY <1>1, <1>3, <2>1, <2>2 DEF Apart
  <2>5. \A i \in DOMAIN collection.items : collection.items[i].name \in Name
    BY ItemNames DEF IInv
  <2>6. ItemsDescribeFiles'
    BY <1>1, <2>1, <2>2, <2>5 DEF IInv, ItemsDescribeFiles
  <2> QED BY <2>3, <2>4, <2>6 DEF Good
<1> QED BY <1>2, <1>3 DEF CreatePartial, Step, Breaks

(* While a stream is received, only its own file changes, and no broken    *)
(* item has that name.                                                     *)
LEMMA OwnFileGood ==
  ASSUME IInv, pc \in {"receive", "sync"}, UNCHANGED <<raw, collection>>,
         partial'[stream.name] # {}, stream'.name = stream.name,
         \A g \in Name : g # stream.name => partial'[g] = partial[g]
  PROVE  Apart' /\ ItemsDescribeFiles'
<1>1. \A i \in DOMAIN collection.items :
        collection.items[i].name = stream.name => collection.items[i].status = "complete"
  BY DEF IInv, Apart
<1>2. \A i \in DOMAIN collection.items : collection.items[i].name \in Name
  BY ItemNames DEF IInv
<1>3. Apart' BY <1>1 DEF Apart
<1>4. ItemsDescribeFiles' BY <1>1, <1>2 DEF IInv, ItemsDescribeFiles
<1> QED BY <1>3, <1>4

LEMMA ReceiveGood ==
  ASSUME IInv, (\E b \in Byte : Data(b)) \/ EndFrame \/ BreaksOff \/ StoreFails
  PROVE  Good'
<1>1. /\ UNCHANGED <<raw, collection>> /\ pc = "receive" /\ pc' \in {"receive", "sync"}
      /\ stream \in Streams /\ stream.name \in Name /\ partial \in [Name -> SUBSET Content]
      /\ declared \in [Name -> SUBSET Mark]
  BY DEF Data, EndFrame, BreaksOff, StoreFails, Step, IInv, TypeOK, Streams, files
<1>2. partial[stream.name] # {} BY <1>1 DEF IInv, Apart
<1>3. stream'.name = stream.name
  BY <1>1 DEF Data, EndFrame, BreaksOff, StoreFails, Streams
<1>4. /\ partial'[stream.name] # {}
      /\ \A g \in Name : g # stream.name => partial'[g] = partial[g]
  BY <1>1, <1>2 DEF Data, EndFrame, BreaksOff, StoreFails, files
<1>5. Apart' /\ ItemsDescribeFiles' BY <1>1, <1>3, <1>4, OwnFileGood
<1>6. stream'.end.form = "whole" => stream'.end.mark \in declared'[stream'.name]
  <2>1. CASE EndFrame
    <3>1. PICK c \in Content, form \in {"whole", "stopped"}, zeroed \in BOOLEAN :
            /\ stream' = [stream EXCEPT !.end =
                            [form |-> form, mark |-> MarkOf(c), zeroed |-> zeroed]]
            /\ declared' = IF form = "whole"
                           THEN [declared EXCEPT ![stream.name] = @ \cup {MarkOf(c)}]
                           ELSE declared
      BY <2>1 DEF EndFrame
    <3>2. stream'.end.mark = MarkOf(c) /\ stream'.end.form = form
      BY <1>1, <3>1 DEF Streams
    <3> QED BY <1>1, <1>3, <3>1, <3>2
  <2>2. CASE ~EndFrame
    <3>1. UNCHANGED declared /\ stream'.end = stream.end
      BY <1>1, <2>2 DEF Data, BreaksOff, StoreFails, Streams
    <3> QED BY <1>3, <3>1 DEF IInv, Vouched
  <2> QED BY <2>1, <2>2
<1>7. Vouched' BY <1>1, <1>6 DEF Vouched
<1> QED BY <1>5, <1>7 DEF Good

LEMMA SyncGood ==
  ASSUME IInv, Sync
  PROVE  Good'
<1>1. /\ UNCHANGED <<raw, collection, declared>> /\ pc = "sync"
      /\ stream \in Streams /\ stream.name \in Name /\ partial \in [Name -> SUBSET Content]
  BY DEF Sync, Step, IInv, TypeOK, Streams
<1>2. partial[stream.name] # {} BY <1>1 DEF IInv, Apart
<1>3. PICK status \in Status : stream' = [stream EXCEPT !.status = status]
  <2>1. Judged \in Status /\ "failed" \in Status BY DEF Judged, Status
  <2> QED BY <2>1 DEF Sync
<1>4. /\ stream'.name = stream.name /\ stream'.buf = stream.buf
      /\ stream'.end = stream.end /\ stream'.status = status
  BY <1>1, <1>3 DEF Streams
<1>5. /\ partial'[stream.name] # {}
      /\ \A g \in Name : g # stream.name => partial'[g] = partial[g]
  BY <1>1, <1>2 DEF Sync
<1>6. Apart' /\ ItemsDescribeFiles' BY <1>1, <1>4, <1>5, OwnFileGood
<1>7. \/ /\ status = Judged /\ partial'[stream.name] = {stream.buf}
         /\ pc' = IF Judged = "complete" THEN "rename" ELSE "add"
      \/ status = "failed" /\ pc' = "add"
  <2>1. \A s \in {Judged, "failed"} : stream' = [stream EXCEPT !.status = s] => s = status
    BY <1>1, <1>4 DEF Streams
  <2> QED BY <1>1, <2>1 DEF Sync, Step
<1>8. Judged = "complete" =>
        stream.end.form = "whole" /\ stream.end.mark = MarkOf(stream.buf)
  BY DEF Judged
<1>9. Judged # "failed" BY DEF Judged
<1>10. Vouched'
  <2>1. stream'.end.form = "whole" => stream'.end.mark \in declared'[stream'.name]
    BY <1>1, <1>4 DEF IInv, Vouched
  <2>2. CASE status = "failed" /\ pc' = "add"
    BY <1>4, <1>5, <2>1, <2>2 DEF Vouched
  <2>3. CASE /\ status = Judged /\ partial'[stream.name] = {stream.buf}
             /\ pc' = IF Judged = "complete" THEN "rename" ELSE "add"
    <3>1. CASE Judged = "complete" BY <1>4, <1>8, <2>1, <2>3, <3>1 DEF Vouched
    <3>2. CASE Judged # "complete" BY <1>4, <1>9, <2>1, <2>3, <3>2 DEF Vouched
    <3> QED BY <3>1, <3>2
  <2> QED BY <1>7, <2>2, <2>3
<1> QED BY <1>6, <1>10 DEF Good

LEMMA RenameGood ==
  ASSUME IInv, Rename
  PROVE  Good'
<1>1. /\ UNCHANGED <<stream, collection, declared>> /\ stream.name \in Name
      /\ partial \in [Name -> SUBSET Content] /\ raw \in [Name -> SUBSET Content]
      /\ pc = "rename"
  BY DEF Rename, Step, Breaks, IInv, TypeOK, Streams
<1>2. /\ partial[stream.name] = {stream.buf} /\ stream.status = "complete"
  BY <1>1 DEF IInv, Vouched
<1>3. CASE pc' = "error" /\ UNCHANGED files
  BY <1>1, <1>3, QuietGood
<1>4. CASE /\ raw[stream.name] = {} /\ pc' = "add"
           /\ raw' = [raw EXCEPT ![stream.name] = partial[stream.name]]
           /\ partial' = [partial EXCEPT ![stream.name] = {}]
  <2>1. \A i \in DOMAIN collection.items : collection.items[i].name # stream.name
    BY <1>1, <1>4 DEF IInv, Apart, ItemsDescribeFiles
  <2>2. /\ raw'[stream.name] = {stream.buf}
        /\ \A g \in Name : g # stream.name => partial'[g] = partial[g] /\ raw'[g] = raw[g]
    BY <1>1, <1>2, <1>4
  <2>3. Vouched' BY <1>1, <1>2, <1>4, <2>2 DEF IInv, Vouched
  <2>4. Apart' BY <1>4 DEF Apart
  <2>5. \A i \in DOMAIN collection.items : collection.items[i].name \in Name
    BY ItemNames DEF IInv
  <2>6. ItemsDescribeFiles'
    BY <1>1, <2>1, <2>2, <2>5 DEF IInv, ItemsDescribeFiles
  <2> QED BY <2>3, <2>4, <2>6 DEF Good
<1> QED BY <1>3, <1>4 DEF Rename, Step, Breaks

LEMMA AddGood ==
  ASSUME IInv, Add
  PROVE  Good'
<1>1. /\ UNCHANGED <<files, stream, declared>> /\ pc = "add"
      /\ pc' \in {"recv", "finish", "error"}
  BY DEF Add, Step, Breaks
<1>2. CASE UNCHANGED collection BY <1>1, <1>2, QuietGood
<1>3. CASE collection' = [collection EXCEPT !.items = Append(@, NewItem)]
  <2>1. collection \in Collections /\ collection.items \in Seq(Item)
    BY DEF IInv, TypeOK, Collections
  <2>2. NewItem \in Item
    <3>1. stream.status \in Status /\ Sha256(stream.buf) \in Digest /\ stream.name \in Name
      BY ContentFacts DEF IInv, TypeOK, Streams
    <3>2. (stream.status = "complete" /\ stream.end.zeroed) \in BOOLEAN OBVIOUS
    <3> QED BY <3>1, <3>2 DEF NewItem, Item
  <2>3. collection'.items = Append(collection.items, NewItem) BY <1>3, <2>1 DEF Collections
  <2>4. \A i \in DOMAIN collection'.items :
          \/ i \in DOMAIN collection.items /\ collection'.items[i] = collection.items[i]
          \/ collection'.items[i] = NewItem
    <3>1. DOMAIN collection'.items = 1..(Len(collection.items) + 1)
      BY <2>1, <2>2, <2>3, AppendProperties, LenProperties
    <3>2. DOMAIN collection.items = 1..Len(collection.items) BY <2>1, LenProperties
    <3> QED BY <2>1, <2>2, <2>3, <3>1, <3>2, AppendProperties
  <2>5. LET file == IF NewItem.status = "complete" THEN raw[NewItem.name] ELSE partial[NewItem.name]
        IN /\ file # {}
           /\ NewItem.status # "failed" => \A c \in file : Sha256(c) = NewItem.sha256
    BY <1>1 DEF IInv, Vouched, NewItem
  <2>6. ItemsDescribeFiles' BY <1>1, <2>4, <2>5 DEF IInv, ItemsDescribeFiles, files
  <2>7. Vouched' /\ Apart' BY <1>1 DEF IInv, Vouched, Apart, files
  <2> QED BY <2>6, <2>7 DEF Good
<1> QED BY <1>2, <1>3 DEF Add

----------------------------------------------------------------------------
(* The theorems *)

LEMMA Invariance == Spec => []IInv
<1>1. Init => IInv
  <2> SUFFICES ASSUME Init PROVE IInv OBVIOUS
  <2>1. PICK f \in Name : stream = Idle(f) BY DEF Init
  <2>2. NoEnd \in End /\ Idle(f) \in Streams BY ContentFacts DEF NoEnd, End, Idle, Streams, Status
  <2>3. collection \in Collections BY DEF Init, Collections
  <2>4. tally \in Tallies /\ budget \in Budgets BY DEF Init, NoTally, Tallies, Budgets
  <2>5. TypeOK
    <3>1. pc \in Labels BY DEF Init, Labels
    <3>2. spent \in Seq(Nat) BY DEF Init
    <3>3. /\ partial \in [Name -> SUBSET Content] /\ raw \in [Name -> SUBSET Content]
          /\ declared \in [Name -> SUBSET Mark]
      BY DEF Init
    <3>4. stream \in Streams BY <2>1, <2>2
    <3> QED BY <2>3, <2>4, <3>1, <3>2, <3>3, <3>4 DEF Init, TypeOK
  <2>6. Counting BY DEF Init, Counting, Shown
  <2>7. Vouched BY <2>1 DEF Init, Vouched, Idle, NoEnd
  <2>8. Apart /\ ItemsDescribeFiles BY DEF Init, Apart, ItemsDescribeFiles
  <2> QED BY <2>5, <2>6, <2>7, <2>8 DEF IInv
<1>2. IInv /\ [Next]_vars => IInv'
  <2> SUFFICES ASSUME IInv, [Next]_vars PROVE IInv' OBVIOUS
  <2>1. CASE Next
    <3>1. TypeOK' /\ Counting' BY <2>1, NextType, NextCounting DEF IInv
    <3>2. Good'
      BY <2>1, ListenGood, StartFrameGood, CreatePartialGood, ReceiveGood, SyncGood,
         RenameGood, AddGood DEF Next, Sends, Listens, Receives
    <3> QED BY <3>1, <3>2 DEF IInv, Good
  <2>2. CASE UNCHANGED vars
    BY <2>2 DEF vars, listening, files, IInv, TypeOK, Counting, Vouched, Apart,
       ItemsDescribeFiles
  <2> QED BY <2>1, <2>2
<1> QED BY <1>1, <1>2, PTL DEF Spec

(* TypeOK holds for any names, alphabet, hash function and bounds.         *)
THEOREM TypeCorrect == Spec => []TypeOK
<1>1. IInv => TypeOK BY DEF IInv
<1> QED BY <1>1, Invariance, PTL

(* Whatever senders, failures, kills and later runs do, an item's file is  *)
(* there and has the hash the item gives.                                  *)
THEOREM ItemsTrue == Spec => []ItemsDescribeFiles
<1>1. IInv => ItemsDescribeFiles BY DEF IInv
<1> QED BY <1>1, Invariance, PTL

(* No code is tried in vain more than three times.                         *)
THEOREM CodesReplaced == Spec => []CodeSpent
<1>1. IInv => CodeSpent
  <2> SUFFICES ASSUME IInv PROVE CodeSpent OBVIOUS
  <2>1. pc \in {"accept", "accepted", "hello"} => spent[Len(spent)] < ATTEMPTS
    BY DEF IInv, Counting, Shown
  <2> QED BY <2>1 DEF IInv, Counting, CodeSpent
<1> QED BY <1>1, Invariance, PTL

(* The `.raw` files appear at once, hold what a sender declared complete,  *)
(* and never change: `dfnet stream` implements Delivery.                   *)
THEOREM RawIsDelivered == Spec => ImplementsDelivery
<1>1. Init => D!Init BY DEF Init, D!Init
<1>2. IInv /\ [Next]_vars => [D!Next]_<<declared, raw>>
  <2> SUFFICES ASSUME IInv, [Next]_vars PROVE [D!Next]_<<declared, raw>> OBVIOUS
  <2>1. stream.name \in Name /\ stream.buf \in Content BY DEF IInv, TypeOK, Streams
  <2>2. CASE EndFrame
    <3>1. PICK c \in Content :
            declared' \in {declared, [declared EXCEPT ![stream.name] = @ \cup {MarkOf(c)}]}
      BY <2>2 DEF EndFrame
    <3>2. MarkOf(c) = D!Mark(c) BY DEF MarkOf, D!Mark
    <3>3. UNCHANGED raw BY <2>2 DEF EndFrame, files
    <3> QED BY <2>1, <3>1, <3>2, <3>3 DEF D!Declare, D!Next
  <2>3. CASE Rename
    <3>1. UNCHANGED declared BY <2>3 DEF Rename
    <3>2. pc = "rename" BY <2>3 DEF Rename, Step, Breaks
    <3>3. /\ partial[stream.name] = {stream.buf}
          /\ MarkOf(stream.buf) \in declared[stream.name]
      BY <3>2 DEF IInv, Vouched
    <3>4. D!Mark(stream.buf) \in declared[stream.name] BY <3>3 DEF MarkOf, D!Mark
    <3>5. \/ UNCHANGED raw
          \/ raw[stream.name] = {} /\ raw' = [raw EXCEPT ![stream.name] = {stream.buf}]
      BY <2>3, <3>3 DEF Rename, files
    <3> QED BY <2>1, <3>1, <3>4, <3>5 DEF D!Publish, D!Next
  <2>4. CASE ~EndFrame /\ ~Rename
    <3>1. UNCHANGED <<declared, raw>>
      BY <2>4 DEF Next, Sends, Listens, Receives, CheckOutput, Begin, Create, Signal, Poll,
         Nobody, Accept, Accepted, Abort, Pair, PairFails, HelloFrame, StartFrame, Bye,
         Silence, CreatePartial, Data, BreaksOff, StoreFails, Sync, Add, Finish, Kill,
         vars, files
    <3> QED BY <3>1
  <2> QED BY <2>2, <2>3, <2>4
<1> QED BY <1>1, <1>2, Invariance, PTL DEF Spec, ImplementsDelivery, D!Spec

(* A `.raw` file that is there stays as it is, whoever sends a stream of   *)
(* the same name and whatever fails later.                                 *)
THEOREM DeliveredStays ==
  Spec => [][\A f \in Name : raw[f] # {} => raw'[f] = raw[f]]_vars
<1>1. [D!Next]_<<declared, raw>> => (\A f \in Name : raw[f] # {} => raw'[f] = raw[f])
  <2> SUFFICES ASSUME [D!Next]_<<declared, raw>>, NEW f \in Name, raw[f] # {}
               PROVE  raw'[f] = raw[f]
    OBVIOUS
  <2>1. CASE UNCHANGED raw BY <2>1
  <2>2. ASSUME NEW g \in Name, D!Publish(g) PROVE raw'[f] = raw[f]
    <3>1. raw[g] = {} /\ \E c \in Content : raw' = [raw EXCEPT ![g] = {c}]
      BY <2>2 DEF D!Publish
    <3>2. f # g BY <3>1
    <3> QED BY <3>1, <3>2
  <2> QED BY <2>1, <2>2 DEF D!Next, D!Declare
<1> QED BY <1>1, RawIsDelivered, PTL DEF ImplementsDelivery, D!Spec

-----------------------------------------------------------------------------
(* The tally and the items *)

(* The stream at hand, from its START to its item.                         *)
InHand == {"create partial", "receive", "sync", "rename", "add"}

(* What the items say, the one about to be added included.                 *)
Says(statuses) == ItemIs(statuses) \/ (pc = "add" /\ stream.status \in statuses)
SaysZeroed ==
  \/ \E i \in DOMAIN collection.items : collection.items[i].zeroed
  \/ pc = "add" /\ stream.status = "complete" /\ stream.end.zeroed

Tallied ==
  /\ tally.mismatch > 0 <=> Says({"mismatch"})
  /\ tally.incomplete > 0 <=> Says({"incomplete", "failed"})
  /\ tally.complete > 0 <=> Says({"complete"})
  /\ tally.zeroed > 0 <=> SaysZeroed

Told ==
  /\ pc = "create" => tally = NoTally /\ begun = 0
  /\ pc \in Shown =>
       Tallied /\ begun = Len(collection.items) + (IF pc \in InHand THEN 1 ELSE 0)
  /\ ExitCodeIsTrue

LEMMA ItemCount == TypeOK => Len(collection.items) \in Nat
<1> SUFFICES ASSUME TypeOK PROVE Len(collection.items) \in Nat OBVIOUS
<1>1. collection.items \in Seq(Item) BY DEF TypeOK, Collections
<1> QED BY <1>1, LenProperties

(* Steps between two records of the outcome.                               *)
LEMMA ToldKept ==
  ASSUME Told, UNCHANGED <<tally, begun>>, collection'.items = collection.items,
         pc \in Shown \/ pc' \notin Shown, pc # "add", pc' # "add",
         pc' \notin Codes \cup {"create"},
         pc' \in Shown => (pc \in InHand <=> pc' \in InHand)
  PROVE  Told'
BY DEF Told, Tallied, Says, SaysZeroed, ItemIs, ExitCodeIsTrue, Shown, InHand

LEMMA ToldEnds ==
  ASSUME pc' \notin Shown \cup Codes \cup {"create"}
  PROVE  Told'
BY DEF Told, ExitCodeIsTrue

LEMMA ToldListens ==
  ASSUME TypeOK, Told, Listens \/ Accept \/ Signal \/ Kill
  PROVE  Told'
<1>1. CASE Create
  <2>1. /\ pc = "create" /\ UNCHANGED <<tally, begun, stream>>
        /\ \/ pc' = "poll" /\ collection' = [form |-> "open", items |-> <<>>]
           \/ pc' = "error"
    BY <1>1 DEF Create, Breaks, Step
  <2>2. CASE pc' = "error" BY <2>2, ToldEnds DEF Shown, Codes
  <2>3. CASE pc' = "poll" /\ collection' = [form |-> "open", items |-> <<>>]
    <3>1. tally' = NoTally /\ begun' = 0 /\ collection'.items = <<>>
      BY <2>1, <2>3 DEF Told
    <3>4. Len(collection'.items) = 0 BY <3>1
    <3>2. ~ItemIs({"mismatch"})' /\ ~ItemIs({"incomplete", "failed"})'
          /\ ~ItemIs({"complete"})'
      BY <3>1 DEF ItemIs
    <3>3. Tallied' BY <2>3, <3>1, <3>2 DEF Tallied, Says, SaysZeroed, NoTally
    <3>5. pc' \notin InHand \cup Codes \cup {"create"} BY <2>3 DEF InHand, Codes
    <3>6. begun' = Len(collection'.items) + 0 BY <3>1, <3>4
    <3> QED BY <3>3, <3>5, <3>6 DEF Told, ExitCodeIsTrue
  <2> QED BY <2>1, <2>2, <2>3
<1>2. CASE Poll \/ Nobody \/ Accepted \/ Pair \/ PairFails \/ Accept
  <2>1. /\ UNCHANGED <<tally, begun, collection>>
        /\ pc \in {"poll", "accept", "accepted", "handshake"}
        /\ pc' \in {"abort", "poll", "accept", "accepted", "handshake", "hello", "error"}
    BY <1>2 DEF Poll, Nobody, Accepted, Pair, PairFails, Accept, Step, Breaks
  <2> QED BY <2>1, ToldKept DEF Shown, Codes, InHand
<1>3. CASE Signal
  <2>1. UNCHANGED <<tally, begun, collection, pc>> /\ pc \in {"poll", "accept", "accepted"}
    BY <1>3 DEF Signal
  <2> QED BY <2>1, ToldKept DEF Shown, Codes, InHand
<1>4. CASE Abort
  <2>1. pc' \in {"stopped", "error"} BY <1>4 DEF Abort, Step, Breaks
  <2> QED BY <2>1, ToldEnds DEF Shown, Codes
<1>5. CASE Kill
  <2>1. pc' = "killed" BY <1>5 DEF Kill
  <2> QED BY <2>1, ToldEnds DEF Shown, Codes
<1> QED BY <1>1, <1>2, <1>3, <1>4, <1>5 DEF Listens

LEMMA ToldBegins ==
  ASSUME CheckOutput
  PROVE  Told'
BY DEF CheckOutput, Begin, Told, Shown, ExitCodeIsTrue, Codes

(* A session up to the verdict on its stream.                              *)
LEMMA ToldReceives ==
  ASSUME TypeOK, Told, NEW f \in Name,
         \/ HelloFrame \/ StartFrame(f) \/ Bye \/ Silence \/ CreatePartial
         \/ (\E b \in Byte : Data(b)) \/ EndFrame \/ BreaksOff \/ StoreFails
  PROVE  Told'
<1>1. CASE StartFrame(f)
  <2>1. /\ pc = "recv" /\ pc' = "create partial" /\ UNCHANGED <<tally, collection>>
        /\ begun' = begun + 1
    BY <1>1 DEF StartFrame, Step
  <2>2. Tallied /\ begun = Len(collection.items)
    <3>1. pc \in Shown /\ pc \notin InHand BY <2>1 DEF Shown, InHand
    <3>2. Tallied /\ begun = Len(collection.items) + 0 BY <3>1 DEF Told
    <3> QED BY <3>2, ItemCount
  <2>3. Tallied' BY <2>1, <2>2 DEF Tallied, Says, SaysZeroed, ItemIs
  <2> QED BY <2>1, <2>2, <2>3, ItemCount DEF Told, Shown, InHand, ExitCodeIsTrue, Codes
<1>2. CASE HelloFrame \/ Bye \/ Silence
  <2>1. /\ UNCHANGED <<tally, begun, collection>>
        /\ pc \in {"hello", "recv"} /\ pc' \in {"recv", "finish", "error"}
    BY <1>2 DEF HelloFrame, Bye, Silence, Step
  <2> QED BY <2>1, ToldKept DEF Shown, Codes, InHand
<1>3. CASE CreatePartial \/ (\E b \in Byte : Data(b)) \/ EndFrame \/ BreaksOff \/ StoreFails
  <2>1. /\ UNCHANGED <<tally, begun, collection>>
        /\ pc \in {"create partial", "receive"} /\ pc' \in {"receive", "sync", "error"}
    BY <1>3 DEF CreatePartial, Data, EndFrame, BreaksOff, StoreFails, Step, Breaks
  <2> QED BY <2>1, ToldKept DEF Shown, Codes, InHand
<1> QED BY <1>1, <1>2, <1>3

LEMMA CountFacts ==
  ASSUME TypeOK, NEW where \in {"complete", "incomplete", "mismatch"},
         tally' = [tally EXCEPT ![where] = @ + 1]
  PROVE  /\ tally'[where] > 0 /\ tally'.zeroed = tally.zeroed
         /\ \A other \in {"complete", "incomplete", "mismatch"} :
              other # where => tally'[other] = tally[other]
<1>1. tally \in Tallies BY DEF TypeOK
<1>2. CASE where = "complete"
  <2>1. tally.complete + 1 > 0 BY <1>1 DEF Tallies
  <2> QED BY <1>1, <1>2, <2>1 DEF Tallies
<1>3. CASE where = "incomplete"
  <2>1. tally.incomplete + 1 > 0 BY <1>1 DEF Tallies
  <2> QED BY <1>1, <1>3, <2>1 DEF Tallies
<1>4. CASE where = "mismatch"
  <2>1. tally.mismatch + 1 > 0 BY <1>1 DEF Tallies
  <2> QED BY <1>1, <1>4, <2>1 DEF Tallies
<1> QED BY <1>2, <1>3, <1>4

LEMMA ToldSync ==
  ASSUME TypeOK, Told, Sync
  PROVE  Told'
<1>1. /\ pc = "sync" /\ UNCHANGED <<collection, begun>> /\ stream \in Streams
  BY DEF Sync, Step, TypeOK
<1>2. Tallied /\ begun = Len(collection.items) + 1
  BY <1>1 DEF Told, Shown, InHand
<1>3. CASE pc' = "rename" /\ UNCHANGED tally
  BY <1>1, <1>3, ToldKept DEF Shown, InHand, Codes
<1>4. ASSUME NEW status \in {"incomplete", "mismatch", "failed"}, Counted(status),
             stream' = [stream EXCEPT !.status = status], pc' = "add"
      PROVE  Told'
  <2>1. stream'.status = status BY <1>1, <1>4 DEF Streams
  <2>2. Tallied'
    <3>1. CASE status = "mismatch"
      <4>1. tally' = [tally EXCEPT !["mismatch"] = @ + 1] BY <1>4, <3>1 DEF Counted
      <4>2. /\ tally'.mismatch > 0 /\ tally'.zeroed = tally.zeroed
            /\ tally'.complete = tally.complete /\ tally'.incomplete = tally.incomplete
        BY <4>1, CountFacts
      <4> QED BY <1>1, <1>2, <1>4, <2>1, <3>1, <4>2
              DEF Tallied, Says, SaysZeroed, ItemIs
    <3>2. CASE status \in {"incomplete", "failed"}
      <4>1. tally' = [tally EXCEPT !["incomplete"] = @ + 1] BY <1>4, <3>2 DEF Counted
      <4>2. /\ tally'.incomplete > 0 /\ tally'.zeroed = tally.zeroed
            /\ tally'.complete = tally.complete /\ tally'.mismatch = tally.mismatch
        BY <4>1, CountFacts
      <4> QED BY <1>1, <1>2, <1>4, <2>1, <3>2, <4>2
              DEF Tallied, Says, SaysZeroed, ItemIs
    <3> QED BY <1>4, <3>1, <3>2
  <2> QED BY <1>1, <1>2, <1>4, <2>2 DEF Told, Shown, InHand, ExitCodeIsTrue, Codes
<1>5. CASE /\ pc' = (IF Judged = "complete" THEN "rename" ELSE "add")
           /\ stream' = [stream EXCEPT !.status = Judged]
           /\ IF Judged = "complete" THEN UNCHANGED tally ELSE Counted(Judged)
  <2>1. CASE Judged = "complete" BY <1>3, <1>5, <2>1
  <2>2. CASE Judged # "complete"
    <3>1. Judged \in {"incomplete", "mismatch"} BY <2>2 DEF Judged
    <3> QED BY <1>4, <1>5, <2>2, <3>1
  <2> QED BY <2>1, <2>2
<1>6. CASE /\ pc' = "add" /\ stream' = [stream EXCEPT !.status = "failed"]
           /\ Counted("failed")
  BY <1>4, <1>6
<1> QED BY <1>5, <1>6 DEF Sync, Step

LEMMA ToldRename ==
  ASSUME IInv, Told, Rename
  PROVE  Told'
<1>1. /\ pc = "rename" /\ UNCHANGED <<collection, begun, stream>>
  BY DEF Rename, Step, Breaks
<1>2. Tallied /\ begun = Len(collection.items) + 1 /\ stream.status = "complete"
  BY <1>1 DEF Told, Shown, InHand, IInv, Vouched
<1>3. CASE pc' = "error" BY <1>3, ToldEnds DEF Shown, Codes
<1>4. CASE /\ pc' = "add"
           /\ tally' = [tally EXCEPT !.complete = @ + 1,
                                     !.zeroed = IF stream.end.zeroed THEN @ + 1 ELSE @]
  <2>1. tally \in Tallies /\ tally.complete + 1 > 0 /\ tally.zeroed + 1 > 0
    BY DEF IInv, TypeOK, Tallies
  <2>2. /\ tally'.complete = tally.complete + 1
        /\ tally'.zeroed = IF stream.end.zeroed THEN tally.zeroed + 1 ELSE tally.zeroed
        /\ tally'.mismatch = tally.mismatch /\ tally'.incomplete = tally.incomplete
    BY <1>4, <2>1 DEF Tallies
  <2>3. tally'.complete > 0 /\ (tally'.zeroed > 0 <=> tally.zeroed > 0 \/ stream.end.zeroed)
    BY <2>1, <2>2
  <2>4. Tallied' BY <1>1, <1>2, <1>4, <2>2, <2>3 DEF Tallied, Says, SaysZeroed, ItemIs
  <2> QED BY <1>1, <1>2, <1>4, <2>4 DEF Told, Shown, InHand, ExitCodeIsTrue, Codes
<1> QED BY <1>3, <1>4 DEF Rename, Step, Breaks

(* A new item.                                                             *)
LEMMA AddedItem ==
  ASSUME TypeOK, collection' = [collection EXCEPT !.items = Append(@, NewItem)]
  PROVE  /\ Len(collection'.items) = Len(collection.items) + 1
         /\ \A i \in DOMAIN collection.items :
              i \in DOMAIN collection'.items /\ collection'.items[i] = collection.items[i]
         /\ Len(collection.items) + 1 \in DOMAIN collection'.items
         /\ collection'.items[Len(collection.items) + 1] = NewItem
         /\ \A i \in DOMAIN collection'.items :
              \/ i \in DOMAIN collection.items
              \/ collection'.items[i] = NewItem
<1>1. collection \in Collections /\ collection.items \in Seq(Item)
  BY DEF TypeOK, Collections
<1>2. NewItem \in Item
  <2>1. stream.status \in Status /\ Sha256(stream.buf) \in Digest /\ stream.name \in Name
    BY ContentFacts DEF TypeOK, Streams
  <2>2. (stream.status = "complete" /\ stream.end.zeroed) \in BOOLEAN OBVIOUS
  <2> QED BY <2>1, <2>2 DEF NewItem, Item
<1>3. collection'.items = Append(collection.items, NewItem) BY <1>1 DEF Collections
<1>4. /\ DOMAIN collection'.items = 1..(Len(collection.items) + 1)
      /\ DOMAIN collection.items = 1..Len(collection.items)
  BY <1>1, <1>2, <1>3, AppendProperties, LenProperties
<1> HIDE DEF NewItem
<1> QED BY <1>1, <1>2, <1>3, <1>4, AppendProperties

LEMMA ToldAdd ==
  ASSUME TypeOK, Told, Add
  PROVE  Told'
<1>1. /\ UNCHANGED <<begun, tally, stream>> /\ pc = "add"
      /\ pc' \in {"recv", "finish", "error"}
  BY DEF Add, Step, Breaks
<1>2. Tallied /\ begun = Len(collection.items) + 1
  BY <1>1 DEF Told, Shown, InHand
<1>3. CASE pc' = "error" BY <1>3, ToldEnds DEF Shown, Codes
<1>4. CASE collection' = [collection EXCEPT !.items = Append(@, NewItem)] /\ pc' # "error"
  <2>1. \A S : ItemIs(S)' <=> ItemIs(S) \/ NewItem.status \in S
    <3> SUFFICES ASSUME NEW S PROVE ItemIs(S)' <=> ItemIs(S) \/ NewItem.status \in S
      OBVIOUS
    <3> QED BY <1>4, AddedItem DEF ItemIs
  <2>2. (\E i \in DOMAIN collection'.items : collection'.items[i].zeroed)
        <=> (\E i \in DOMAIN collection.items : collection.items[i].zeroed) \/ NewItem.zeroed
    BY <1>4, AddedItem
  <2>3. /\ NewItem.status = stream.status
        /\ NewItem.zeroed <=> stream.status = "complete" /\ stream.end.zeroed
    BY DEF NewItem
  <2>4. Tallied' BY <1>1, <1>2, <2>1, <2>2, <2>3 DEF Tallied, Says, SaysZeroed
  <2>5. begun' = Len(collection'.items) BY <1>1, <1>2, <1>4, AddedItem
  <2>6. begun' = Len(collection'.items) + 0 BY <1>4, <2>5, ItemCount, AddedItem
  <2> QED BY <1>1, <1>4, <2>4, <2>6 DEF Told, Shown, InHand, ExitCodeIsTrue, Codes
<1> QED BY <1>1, <1>3, <1>4 DEF Add, Step, Breaks

LEMMA ToldFinish ==
  ASSUME TypeOK, Told, Finish
  PROVE  Told'
<1>1. /\ UNCHANGED <<begun, tally>> /\ pc = "finish" BY DEF Finish, Step, Breaks
<1>2. Tallied /\ begun = Len(collection.items)
  BY <1>1, ItemCount DEF Told, Shown, InHand
<1>3. CASE pc' = "error" BY <1>3, ToldEnds DEF Shown, Codes
<1>4. CASE pc' = ExitCode /\ collection' = [collection EXCEPT !.form = "done"]
  <2>1. collection \in Collections /\ collection.items \in Seq(Item) /\ tally \in Tallies
    BY DEF TypeOK, Collections
  <2>2. collection'.items = collection.items BY <1>4, <2>1 DEF Collections
  <2>3. /\ tally.mismatch > 0 <=> ItemIs({"mismatch"})
        /\ tally.incomplete > 0 <=> ItemIs({"incomplete", "failed"})
        /\ tally.complete > 0 <=> ItemIs({"complete"})
        /\ tally.zeroed > 0 <=>
             \E i \in DOMAIN collection.items : collection.items[i].zeroed
    BY <1>1, <1>2 DEF Tallied, Says, SaysZeroed
  <2>4. collection.items = <<>> <=> \A s \in Status : ~ItemIs({s})
    <3>1. DOMAIN collection.items = 1..Len(collection.items) BY <2>1, LenProperties
    <3>2. \A i \in DOMAIN collection.items : collection.items[i].status \in Status
      <4> SUFFICES ASSUME NEW i \in DOMAIN collection.items
                   PROVE  collection.items[i].status \in Status
        OBVIOUS
      <4>1. collection.items[i] \in Item BY <2>1, <3>1, ElementOfSeq
      <4> QED BY <4>1 DEF Item
    <3>3. collection.items # <<>> => 1 \in DOMAIN collection.items
      BY <2>1, <3>1, EmptySeq
    <3> QED BY <3>2, <3>3 DEF ItemIs
  <2>5. ItemIs({"incomplete", "failed"}) <=> ItemIs({"incomplete"}) \/ ItemIs({"failed"})
    BY DEF ItemIs
  <2>6. /\ tally.mismatch = 0 <=> ~(tally.mismatch > 0)
        /\ tally.incomplete = 0 <=> ~(tally.incomplete > 0)
        /\ tally.complete = 0 <=> ~(tally.complete > 0)
    BY <2>1 DEF Tallies
  <2>7. ExitCode = IF ItemIs({"mismatch"}) THEN "exit 5"
                   ELSE IF ItemIs({"incomplete", "failed"}) THEN "exit 6"
                   ELSE IF collection.items = <<>> THEN "exit 4"
                   ELSE IF \E i \in DOMAIN collection.items : collection.items[i].zeroed
                        THEN "exit 7" ELSE "exit 0"
    BY <2>3, <2>4, <2>5, <2>6 DEF ExitCode, Status
  <2>8. ExitCodeIsTrue'
    BY <1>1, <1>2, <1>4, <2>2, <2>7 DEF ExitCodeIsTrue, ItemIs
  <2>9. pc' \in Codes BY <1>4, <2>7 DEF Codes
  <2> QED BY <2>8, <2>9 DEF Told, Shown, Codes
<1> QED BY <1>3, <1>4 DEF Finish, Step, Breaks

(* The exit code is that of the items, and each stream begun has one.      *)
THEOREM ExitTrue == Spec => []ExitCodeIsTrue
<1>1. Init => Told BY DEF Init, Told, Shown, ExitCodeIsTrue, Codes
<1>2. IInv /\ Told /\ [Next]_vars => Told'
  <2> SUFFICES ASSUME IInv, Told, [Next]_vars PROVE Told' OBVIOUS
  <2>1. CASE UNCHANGED vars
    BY <2>1 DEF vars, listening, files, Told, Tallied, Says, SaysZeroed, ItemIs,
       ExitCodeIsTrue
  <2>2. CASE Next
    <3>1. TypeOK BY DEF IInv
    <3>2. CASE \/ CheckOutput \/ Listens \/ Accept \/ Signal \/ Kill
      BY <3>1, <3>2, ToldBegins, ToldListens
    <3>3. CASE Sync \/ Rename \/ Add \/ Finish
      BY <3>1, <3>3, ToldSync, ToldRename, ToldAdd, ToldFinish
    <3>4. CASE \/ HelloFrame \/ (\E f \in Name : StartFrame(f)) \/ Bye \/ Silence
               \/ CreatePartial \/ (\E b \in Byte : Data(b)) \/ EndFrame \/ BreaksOff
               \/ StoreFails
      <4>1. stream.name \in Name BY <3>1 DEF TypeOK, Streams
      <4> QED BY <3>1, <3>4, <4>1, ToldReceives
    <3> QED BY <2>2, <3>2, <3>3, <3>4 DEF Next, Sends, Receives
  <2> QED BY <2>1, <2>2
<1>3. Told => ExitCodeIsTrue BY DEF Told
<1> QED BY <1>1, <1>2, <1>3, Invariance, PTL DEF Spec
=============================================================================
