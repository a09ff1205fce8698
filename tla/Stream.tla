------------------------------- MODULE Stream -------------------------------
(***************************************************************************)
(* `dfnet stream` (stream.rs): pairing on a code that is replaced after    *)
(* three failures, then one session of streams, each written to a          *)
(* `.incomplete` file, synced, judged by the sender's END record, renamed  *)
(* to `.raw` if it is complete, and recorded as an item of a collection.   *)
(* One action per call that can fail or be interrupted; the next run of    *)
(* the command may be given the same directory.                            *)
(*                                                                         *)
(* A file is the set of contents it may have when the process is killed or *)
(* the power fails ({} when there is no file); sync_all leaves one.        *)
(* The protocol (dfstream) and the collection (dfcore) are external.       *)
(***************************************************************************)
EXTENDS Naturals, Sequences

CONSTANTS
  Name,           \* what file_name makes of a stream's number and name
  Byte, MaxBytes, \* values a byte can have; bound: bytes of a stream
  Digest,         \* hash values
  Sha256(_),      \* the hash of a sequence of bytes
  NoHash,         \* no hash known
  MaxRuns,        \* bound: times the command is started
  MaxConnections, \* bound: connections taken
  MaxStreams,     \* bound: streams of a sender
  MaxFaults,      \* bound: calls that fail
  MaxKills        \* bound: runs killed, or lost with the power

Content == UNION {[1..n -> Byte] : n \in 0..MaxBytes}

ASSUME ConstantsAssumption ==
  /\ {MaxBytes, MaxRuns, MaxConnections, MaxStreams, MaxFaults, MaxKills} \subseteq Nat
  /\ \A c \in Content : Sha256(c) \in Digest
  /\ NoHash \notin Digest

VARIABLES
  pc,         \* the next call, or how the last run ended
  stop,       \* listen.rs STOP
  spent,      \* history: failed pairings of each code shown; the last is `code`
  failures,   \* failed pairings counted
  knows,      \* the code the connected sender was given (0: none)
  todo,       \* streams that sender has not begun
  partial,    \* per name: the `.incomplete` file
  raw,        \* per name: the `.raw` file
  stream,     \* the stream being received
  tally,      \* struct Tally
  collection, \* [form, items]
  declared,   \* history, per name: what END records said
  begun,      \* history: streams announced to this run
  budget      \* the bounded choices made so far

listening == <<stop, spent, failures, knows>>
files == <<partial, raw>>
vars == <<pc, listening, todo, files, stream, tally, collection, declared, begun, budget>>

ATTEMPTS == 3

Status == {"complete", "mismatch", "incomplete", "failed"}
Mark == [bytes : Nat, sha256 : Digest]
MarkOf(c) == [bytes |-> Len(c), sha256 |-> Sha256(c)]
NoMark == [bytes |-> 0, sha256 |-> NoHash]
End == [form : {"none", "whole", "stopped"}, mark : Mark \cup {NoMark}, zeroed : BOOLEAN]
NoEnd == [form |-> "none", mark |-> NoMark, zeroed |-> FALSE]
Item == [name : Name, status : Status, sha256 : Digest \cup {NoHash}, zeroed : BOOLEAN]
Idle(f) == [name |-> f, buf |-> <<>>, end |-> NoEnd, status |-> "incomplete"]
NoTally == [complete |-> 0, incomplete |-> 0, mismatch |-> 0, zeroed |-> 0]

Codes == {"exit 0", "exit 4", "exit 5", "exit 6", "exit 7"}
Ended == pc \in {"idle", "refused", "error", "stopped", "killed"} \cup Codes

----------------------------------------------------------------------------
Fault == budget.faults < MaxFaults /\ budget' = [budget EXCEPT !.faults = @ + 1]
Works == UNCHANGED budget
Step(from, to) == pc = from /\ pc' = to

(* `?`: the run ends without finishing the collection.                     *)
Breaks(from) == Step(from, "error") /\ Fault

Init ==
  /\ pc = "idle" /\ stop = FALSE
  /\ spent = <<>> /\ failures = 0 /\ knows = 0 /\ todo = 0
  /\ partial = [f \in Name |-> {}] /\ raw = [f \in Name |-> {}]
  /\ \E f \in Name : stream = Idle(f)
  /\ tally = NoTally
  /\ collection = [form |-> "none", items |-> <<>>]
  /\ declared = [f \in Name |-> {}] /\ begun = 0
  /\ budget = [runs |-> 0, connections |-> 0, faults |-> 0, kills |-> 0]

Empty == collection.form = "none" /\ \A f \in Name : partial[f] = {} /\ raw[f] = {}

(* A process of its own: nothing of an earlier one is left but files.      *)
Begin(next) ==
  /\ Ended /\ pc' = next
  /\ budget.runs < MaxRuns
  /\ budget' = [budget EXCEPT !.runs = @ + 1]
  /\ stop' = FALSE /\ failures' = 0 /\ knows' = 0 /\ todo' = 0 /\ tally' = NoTally
  /\ begun' = 0
  /\ UNCHANGED <<spent, files, stream, collection, declared>>

(* check_output; RAM as a target is refused in the same way.               *)
CheckOutput == Begin("refused") \/ (Empty /\ Begin("create"))

(* bind, the firewall and Collection::create, then the first code.         *)
Create ==
  /\ \/ /\ Step("create", "poll") /\ Works
        /\ collection' = [form |-> "open", items |-> <<>>]
        /\ spent' = Append(spent, 0)
     \/ /\ Breaks("create") /\ UNCHANGED spent
        /\ collection' \in {collection, [form |-> "open", items |-> <<>>]}
  /\ UNCHANGED <<stop, failures, knows, todo, files, stream, tally, declared, begun>>

(* SIGINT or SIGTERM while the handlers of `accept` are installed.         *)
Signal ==
  /\ pc \in {"poll", "accept", "accepted"} /\ ~stop
  /\ stop' = TRUE
  /\ UNCHANGED <<pc, spent, failures, knows, todo, files, stream, tally, collection,
                 declared, begun, budget>>

Poll ==
  /\ Step("poll", IF stop THEN "abort" ELSE "accept") /\ Works
  /\ UNCHANGED <<listening, todo, files, stream, tally, collection, declared, begun>>

(* Nobody is there, or accept(2), or making the listener wait no longer,   *)
(* fails.                                                                  *)
Nobody ==
  /\ (Step("accept", "poll") /\ Works) \/ (Step("accept", "abort") /\ Fault)
  /\ UNCHANGED <<listening, todo, files, stream, tally, collection, declared, begun>>

(* A sender given one of the codes shown so far, or none.                  *)
Accept ==
  /\ Step("accept", "accepted")
  /\ budget.connections < MaxConnections
  /\ budget' = [budget EXCEPT !.connections = @ + 1]
  /\ knows' \in {0, Len(spent) - 1, Len(spent)}
  /\ todo' \in 0..MaxStreams
  /\ UNCHANGED <<stop, spent, failures, files, stream, tally, collection, declared, begun>>

(* The old dispositions are back; a stream that cannot be made to wait     *)
(* again ends `accept` with its error.  Then the timeouts are set.         *)
Accepted ==
  /\ \/ Step("accepted", "handshake") /\ Works
     \/ Step("accepted", "abort") /\ Fault
     \/ Breaks("accepted")
  /\ UNCHANGED <<listening, todo, files, stream, tally, collection, declared, begun>>

(* finish(Aborted), then the error.                                        *)
Abort ==
  /\ \/ /\ Step("abort", "stopped") /\ Works
        /\ collection' = [collection EXCEPT !.form = "aborted"]
     \/ Breaks("abort") /\ UNCHANGED collection
  /\ UNCHANGED <<listening, todo, files, stream, tally, declared, begun>>

Pair ==
  /\ knows = Len(spent)
  /\ \/ Step("handshake", "hello") /\ Works
     \/ Breaks("handshake")
  /\ UNCHANGED <<listening, todo, files, stream, tally, collection, declared, begun>>

(* Mutant: the code is replaced one failure late.                          *)
PairFailsLate ==
  /\ Step("handshake", "poll") /\ Works
  /\ IF failures + 1 > ATTEMPTS
     THEN failures' = 0 /\ spent' = Append([spent EXCEPT ![Len(spent)] = @ + 1], 0)
     ELSE failures' = failures + 1 /\ spent' = [spent EXCEPT ![Len(spent)] = @ + 1]
  /\ UNCHANGED <<stop, knows, todo, files, stream, tally, collection, declared, begun>>

(* A wrong code, a lost connection or PAIRING_TIMEOUT.                     *)
PairFails ==
  /\ \/ /\ Step("handshake", "poll") /\ Works
        /\ LET tried == [spent EXCEPT ![Len(spent)] = @ + 1]
           IN IF failures + 1 >= ATTEMPTS
              THEN failures' = 0 /\ spent' = Append(tried, 0)
              ELSE failures' = failures + 1 /\ spent' = tried
     \/ /\ Breaks("handshake")
        /\ failures' = failures + 1
        /\ spent' = [spent EXCEPT ![Len(spent)] = @ + 1]
  /\ UNCHANGED <<stop, knows, todo, files, stream, tally, collection, declared, begun>>

----------------------------------------------------------------------------
(* session *)

(* A HELLO that does not arrive ends the run by `?`.                       *)
HelloFrame ==
  /\ Step("hello", "recv") \/ Step("hello", "error")
  /\ Works
  /\ UNCHANGED <<listening, todo, files, stream, tally, collection, declared, begun>>

StartFrame(f) ==
  /\ Step("recv", "create partial") /\ Works
  /\ todo > 0 /\ todo' = todo - 1
  /\ begun' = begun + 1
  /\ stream' = Idle(f)
  /\ UNCHANGED <<listening, files, tally, collection, declared>>

Bye ==
  /\ todo = 0
  /\ Step("recv", "finish") /\ Works
  /\ UNCHANGED <<listening, todo, files, stream, tally, collection, declared, begun>>

(* Mutant: no read timeout on the paired channel.                          *)
SilenceEndless ==
  /\ Step("recv", "recv") /\ Works
  /\ UNCHANGED <<listening, todo, files, stream, tally, collection, declared, begun>>

(* The connection is gone, silent for `timeout`, or brings something else; *)
(* a START that cannot be read ends the run by `?`.                        *)
Silence ==
  /\ Step("recv", "finish") \/ Step("recv", "error")
  /\ Works
  /\ UNCHANGED <<listening, todo, files, stream, tally, collection, declared, begun>>

----------------------------------------------------------------------------
(* receive_one *)

(* Mutant: File::create.                                                   *)
CreatePartialTruncates ==
  /\ Step("create partial", "receive") /\ Works
  /\ partial' = [partial EXCEPT ![stream.name] = {<<>>}]
  /\ UNCHANGED <<listening, todo, raw, stream, tally, collection, declared, begun>>

(* create_new                                                              *)
CreatePartial ==
  /\ IF partial[stream.name] = {}
     THEN \/ /\ Step("create partial", "receive") /\ Works
             /\ partial' = [partial EXCEPT ![stream.name] = {<<>>}]
          \/ Breaks("create partial") /\ UNCHANGED partial
     ELSE Step("create partial", "error") /\ Works /\ UNCHANGED partial
  /\ UNCHANGED <<listening, todo, raw, stream, tally, collection, declared, begun>>

(* BufWriter and the page cache: any beginning may be what is stored.      *)
Data(b) ==
  /\ Step("receive", "receive") /\ Works
  /\ Len(stream.buf) < MaxBytes
  /\ stream' = [stream EXCEPT !.buf = Append(@, b)]
  /\ partial' = [partial EXCEPT ![stream.name] = @ \cup {stream.buf'}]
  /\ UNCHANGED <<listening, todo, raw, tally, collection, declared, begun>>

(* The sender's END: of what it read, of less because it stops, or of      *)
(* something it did not send.                                              *)
EndFrame ==
  /\ Step("receive", "sync") /\ Works
  /\ \E c \in Content, form \in {"whole", "stopped"}, zeroed \in BOOLEAN :
       /\ stream' = [stream EXCEPT !.end =
                       [form |-> form, mark |-> MarkOf(c), zeroed |-> zeroed]]
       /\ declared' = IF form = "whole"
                      THEN [declared EXCEPT ![stream.name] = @ \cup {MarkOf(c)}]
                      ELSE declared
  /\ UNCHANGED <<listening, todo, files, tally, collection, begun>>

(* The stream breaks off, or falls silent.                                 *)
BreaksOff ==
  /\ Step("receive", "sync") /\ Works
  /\ UNCHANGED <<listening, todo, files, stream, tally, collection, declared, begun>>

StoreFails ==
  /\ Step("receive", "sync") /\ Fault
  /\ stream' = [stream EXCEPT !.status = "failed"]
  /\ UNCHANGED <<listening, todo, files, tally, collection, declared, begun>>

(* got.status()                                                            *)
Judged ==
  IF stream.end.form # "whole" THEN "incomplete"
  ELSE IF stream.end.mark = MarkOf(stream.buf) THEN "complete" ELSE "mismatch"

Counted(status) ==
  LET where == IF status \in {"failed", "incomplete"} THEN "incomplete" ELSE status
  IN tally' = [tally EXCEPT ![where] = @ + 1]

(* Mutant: a storage error is noted and not counted.                       *)
SyncUncounted ==
  /\ \/ /\ stream.status # "failed"
        /\ Step("sync", IF Judged = "complete" THEN "rename" ELSE "add") /\ Works
        /\ partial' = [partial EXCEPT ![stream.name] = {stream.buf}]
        /\ stream' = [stream EXCEPT !.status = Judged]
        /\ IF Judged = "complete" THEN UNCHANGED tally ELSE Counted(Judged)
     \/ /\ Step("sync", "add")
        /\ IF stream.status = "failed" THEN Works ELSE Fault
        /\ stream' = [stream EXCEPT !.status = "failed"]
        /\ UNCHANGED <<partial, tally>>
  /\ UNCHANGED <<listening, todo, raw, collection, declared, begun>>

(* Mutant: the last bytes are left to the page cache.                      *)
SyncSkipped ==
  /\ stream.status # "failed"
  /\ Step("sync", IF Judged = "complete" THEN "rename" ELSE "add") /\ Works
  /\ stream' = [stream EXCEPT !.status = Judged]
  /\ IF Judged = "complete" THEN UNCHANGED tally ELSE Counted(Judged)
  /\ UNCHANGED <<listening, todo, files, collection, declared, begun>>

(* into_inner and sync_all, then the verdict on the stream.                *)
Sync ==
  /\ \/ /\ stream.status # "failed"
        /\ Step("sync", IF Judged = "complete" THEN "rename" ELSE "add") /\ Works
        /\ partial' = [partial EXCEPT ![stream.name] = {stream.buf}]
        /\ stream' = [stream EXCEPT !.status = Judged]
        /\ IF Judged = "complete" THEN UNCHANGED tally ELSE Counted(Judged)
     \/ /\ Step("sync", "add")
        /\ IF stream.status = "failed" THEN Works ELSE Fault
        /\ stream' = [stream EXCEPT !.status = "failed"]
        /\ Counted("failed") /\ UNCHANGED partial
  /\ UNCHANGED <<listening, todo, raw, collection, declared, begun>>

(* A name that is taken already, or a failing rename, ends the run by `?`. *)
Rename ==
  /\ \/ /\ raw[stream.name] = {}
        /\ Step("rename", "add") /\ Works
        /\ raw' = [raw EXCEPT ![stream.name] = partial[stream.name]]
        /\ partial' = [partial EXCEPT ![stream.name] = {}]
        /\ tally' = [tally EXCEPT !.complete = @ + 1,
                                  !.zeroed = IF stream.end.zeroed THEN @ + 1 ELSE @]
     \/ /\ IF raw[stream.name] = {} THEN Breaks("rename")
           ELSE Step("rename", "error") /\ Works
        /\ UNCHANGED <<files, tally>>
  /\ UNCHANGED <<listening, todo, stream, collection, declared, begun>>

(* Mutant: the verdict is the form of the END record.                      *)
NewItemUnjudged ==
  [name |-> stream.name, status |-> stream.end.form, sha256 |-> Sha256(stream.buf),
   zeroed |-> stream.end.zeroed]

NewItem ==
  [name |-> stream.name, status |-> stream.status,
   sha256 |-> IF stream.status = "failed" THEN NoHash ELSE Sha256(stream.buf),
   zeroed |-> stream.status = "complete" /\ stream.end.zeroed]

(* collection.add; the session goes on only after an END.                  *)
Add ==
  /\ \/ /\ Step("add", IF stream.status # "failed" /\ stream.end # NoEnd
                       THEN "recv" ELSE "finish") /\ Works
        /\ collection' = [collection EXCEPT !.items = Append(@, NewItem)]
     \/ Breaks("add") /\ UNCHANGED collection
  /\ UNCHANGED <<listening, todo, files, stream, tally, declared, begun>>

ExitCode ==
  CASE tally.mismatch > 0 -> "exit 5"
    [] tally.mismatch = 0 /\ tally.incomplete > 0 -> "exit 6"
    [] tally.mismatch = 0 /\ tally.incomplete = 0 /\ tally.complete = 0 -> "exit 4"
    [] OTHER -> IF tally.zeroed > 0 THEN "exit 7" ELSE "exit 0"

Finish ==
  /\ \/ /\ Step("finish", ExitCode) /\ Works
        /\ collection' = [collection EXCEPT !.form = "done"]
     \/ Breaks("finish") /\ UNCHANGED collection
  /\ UNCHANGED <<listening, todo, files, stream, tally, declared, begun>>

(* Ctrl-C outside `accept`, SIGKILL, or the power.                         *)
Kill ==
  /\ ~Ended /\ pc' = "killed"
  /\ budget.kills < MaxKills
  /\ budget' = [budget EXCEPT !.kills = @ + 1]
  /\ UNCHANGED <<listening, todo, files, stream, tally, collection, declared, begun>>

----------------------------------------------------------------------------
(* What waits for somebody at the other end, and what does not.            *)
Sends == \/ Accept \/ (\E f \in Name : StartFrame(f)) \/ Bye
         \/ (\E b \in Byte : Data(b)) \/ EndFrame
Listens == \/ Create \/ Poll \/ Nobody \/ Accepted \/ Abort \/ Pair \/ PairFails
Receives == \/ HelloFrame \/ Silence \/ CreatePartial \/ BreaksOff \/ StoreFails
            \/ Sync \/ Rename \/ Add \/ Finish

Next == CheckOutput \/ Sends \/ Listens \/ Receives \/ Signal \/ Kill

Spec == Init /\ [][Next]_vars

(* A running process makes its next call, and every read on a connection   *)
(* has a timeout: nothing is assumed of whoever is at the other end.       *)
FairSpec == Spec /\ WF_vars(Listens \/ Receives)

----------------------------------------------------------------------------
(* Properties *)

Streams == [name : Name, buf : Content, end : End, status : Status]
Tallies == [complete : Nat, incomplete : Nat, mismatch : Nat, zeroed : Nat]
Collections == [form : {"none", "open", "aborted", "done"}, items : Seq(Item)]
Budgets == [runs : Nat, connections : Nat, faults : Nat, kills : Nat]
Labels == {"idle", "refused", "error", "stopped", "killed", "create", "poll", "accept",
           "accepted", "abort", "handshake", "hello", "recv", "create partial",
           "receive", "sync", "rename", "add", "finish"} \cup Codes

(* Every variable keeps its type.                                          *)
TypeOK ==
  /\ pc \in Labels /\ stop \in BOOLEAN
  /\ spent \in Seq(Nat) /\ failures \in Nat /\ knows \in Nat /\ todo \in Nat
  /\ partial \in [Name -> SUBSET Content] /\ raw \in [Name -> SUBSET Content]
  /\ stream \in Streams /\ tally \in Tallies /\ collection \in Collections
  /\ declared \in [Name -> SUBSET Mark] /\ begun \in Nat
  /\ budget \in Budgets

(* "renamed to .raw only then, so no interruption leaves a .raw behind",   *)
(* with every kill, power loss, failing call, sender and later run: the    *)
(* `.raw` files are a Delivery.                                            *)
D == INSTANCE Delivery
ImplementsDelivery == D!Spec

(* The collection and the directory agree: a complete item's `.raw` and a  *)
(* broken one's `.incomplete` file are there, and are on storage what the  *)
(* item's hash says (a stream that could not be stored has none).          *)
ItemsDescribeFiles ==
  \A i \in DOMAIN collection.items :
    LET item == collection.items[i]
        file == IF item.status = "complete" THEN raw[item.name] ELSE partial[item.name]
    IN /\ file # {}
       /\ item.status # "failed" => \A c \in file : Sha256(c) = item.sha256

(* The exit code says what the collection says: 5, 6, 4, 7 and 0 in that   *)
(* order of precedence; and every stream that began has its item.          *)
ItemIs(status) ==
  \E i \in DOMAIN collection.items : collection.items[i].status \in status
ExitCodeIsTrue ==
  pc \in Codes =>
    /\ Len(collection.items) = begun
    /\ pc = IF ItemIs({"mismatch"}) THEN "exit 5"
            ELSE IF ItemIs({"incomplete", "failed"}) THEN "exit 6"
            ELSE IF collection.items = <<>> THEN "exit 4"
            ELSE IF \E i \in DOMAIN collection.items : collection.items[i].zeroed THEN "exit 7"
            ELSE "exit 0"

(* "Failed pairings before the code is replaced": a code is tried in vain  *)
(* three times at most, and is replaced before anybody else can try.       *)
CodeSpent ==
  /\ \A i \in DOMAIN spent : spent[i] <= ATTEMPTS
  /\ pc \in {"accept", "accepted", "hello"} => spent[Len(spent)] < ATTEMPTS

(* A sender that pairs and then stalls anywhere does not keep the receiver.*)
SessionEnds == pc = "hello" ~> Ended
=============================================================================
