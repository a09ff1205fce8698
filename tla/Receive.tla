------------------------------ MODULE Receive ------------------------------
(***************************************************************************)
(* `dfnet receive` (receive.rs): one raw TCP stream becomes one image file *)
(* with a manifest and a checksum file beside it.  The module follows the  *)
(* function `receive` call by call: one action per system call or external *)
(* command that can fail or be interrupted, so a signal, a SIGKILL or a    *)
(* power loss can fall between any two of them.  It contains the waiting   *)
(* loop of listen.rs (`accept`) and the firewall opening's guard.          *)
(*                                                                         *)
(* A file is [is, now, may]: who owns the path, what a reader sees now,    *)
(* and every content the storage may hold after a power loss (`sync_all`   *)
(* reduces it to what is there now).                                       *)
(***************************************************************************)
EXTENDS Naturals, Sequences

CONSTANTS
  Byte,           \* values a byte can have
  ExpectedBytes,  \* --expected-bytes
  Digest,         \* hash values
  Sha256(_),      \* the hash of a sequence of bytes
  Given,          \* hashes an operator may pass or enter (after parse_hash)
  NoHash,         \* no hash known yet
  Peer,           \* addresses that may connect
  NoPeer,         \* no sender accepted yet
  Allowed,        \* --allow list; {} accepts everyone
  MaxRuns,        \* bound: times the command is started on these paths
  MaxBacklog,     \* bound: connections queued in the kernel
  MaxRejected,    \* bound: connections refused in one run
  MaxChunk        \* bound: bytes one read(2) returns

(* Everything an image of the expected size can be on the way.             *)
Contents == UNION {[1..n -> Byte] : n \in 0..ExpectedBytes}

ASSUME ConstantsAssumption ==
  /\ ExpectedBytes \in Nat
  /\ \A c \in Contents : Sha256(c) \in Digest
  /\ Given \subseteq Digest
  /\ NoHash \notin Digest
  /\ Allowed \subseteq Peer
  /\ NoPeer \notin Peer

VARIABLES
  pc,        \* the next call of `receive`, or how the last run ended
  runs,      \* runs started
  image,     \* the output file
  manifest,  \* output.json
  checksum,  \* output.sha256
  sock,      \* [open, queue]: the listening socket and its kernel backlog
  fw,        \* [rule, guard, stuck]: the opening in INPUT, whether this
             \* process holds its Guard, whether deleting it failed
  stop,      \* listen.rs STOP
  run,       \* the locals of this run
  log        \* dfnet's records in the audit log, and whether one was lost

files == <<image, manifest, checksum>>
vars == <<pc, runs, files, sock, fw, stop, run, log>>

----------------------------------------------------------------------------
(* Contents and helpers *)

Hash == Digest \cup {NoHash}

(* struct Manifest, reduced to the fields a later reader relies on, and    *)
(* what else the file can hold: nothing, or half of it.                    *)
Document == [form     : {"empty", "torn", "pending", "final"},
             status   : {"incomplete", "verified"},
             bytes    : Nat,
             sha256   : Hash,
             expected : Hash,
             peer     : Peer \cup {NoPeer},
             rejected : Seq(Peer)]

Blank(form) == [form |-> form, status |-> "incomplete", bytes |-> 0,
                sha256 |-> NoHash, expected |-> NoHash, peer |-> NoPeer,
                rejected |-> <<>>]

PendingManifest == [Blank("pending") EXCEPT !.expected = run.expected]

Final(count) ==
  [form |-> "final",
   status |-> IF run.result = "ok" THEN "verified" ELSE "incomplete",
   bytes |-> count, sha256 |-> Sha256(run.hashed),
   expected |-> run.expected, peer |-> run.peer, rejected |-> run.rejected]

(* Mutant: the manifest repeats the count it was told to expect.           *)
FinalManifestExpected == Final(ExpectedBytes)
FinalManifest == Final(run.bytes)

Checksum == [form : {"empty", "torn", "whole"}, sha256 : Hash]
Line(form, hash) == [form |-> form, sha256 |-> hash]

File(owner, content) == [is |-> owner, now |-> content, may |-> {content}]
Write(file, content) ==
  [file EXCEPT !.now = content, !.may = @ \cup {content}]
Synced(file) == [file EXCEPT !.may = {file.now}]

PeerAllowed(p) == Allowed = {} \/ p \in Allowed

NoRun == [peer |-> NoPeer, rejected |-> <<>>, buf |-> <<>>, bytes |-> 0,
          hashed |-> <<>>, expected |-> NoHash, asks |-> FALSE,
          result |-> "ok"]

Ended == pc \in {"idle", "ok", "error", "killed"}
NoSocket == [open |-> FALSE, queue |-> <<>>]

(* The process is gone: its socket closes, its memory is lost.             *)
Exit(how) ==
  /\ pc' = how
  /\ sock' = NoSocket
  /\ stop' = FALSE
  /\ run' = NoRun

Step(from, to) ==
  /\ pc = from
  /\ pc' = to

(* Mutant: the error is printed and forgotten.                             *)
FailingForgotten(from, to) ==
  /\ Step(from, to)
  /\ run' = [run EXCEPT !.buf = <<>>]

(* The closure of lines 266-290 or the hash check returned an error: the   *)
(* run still writes its final manifest.                                    *)
Failing(from, to) ==
  /\ Step(from, to)
  /\ run' = [run EXCEPT !.result = "err", !.buf = <<>>]

(* audit::record: a failing append is reported and ignored.                *)
Record(event, doc) ==
  \/ log' = [log EXCEPT !.records =
               Append(@, [run |-> runs, event |-> event, doc |-> doc])]
  \/ log' = [log EXCEPT !.lost = TRUE]

(* Drop of a Guard: iptables -D; a failure is printed, the rule stays.     *)
DropGuard ==
  \/ fw' = [fw EXCEPT !.rule = IF fw.guard THEN "none" ELSE @, !.guard = FALSE]
  \/ fw.guard /\ fw' = [fw EXCEPT !.guard = FALSE, !.stuck = TRUE]

(* Nobody is left who would remove this opening.                           *)
Abandoned ==
  [fw EXCEPT !.rule = IF @ = "ours" THEN "stale" ELSE @, !.guard = FALSE]

----------------------------------------------------------------------------
Init ==
  /\ pc = "idle"
  /\ runs = 0
  /\ image = File("absent", <<>>)
  /\ manifest = File("absent", Blank("empty"))
  /\ checksum = File("absent", Line("empty", NoHash))
  /\ sock = NoSocket
  /\ fw = [rule |-> "none", guard |-> FALSE, stuck |-> FALSE]
  /\ stop = FALSE
  /\ run = NoRun
  /\ log = [records |-> <<>>, lost |-> FALSE]

(* The command starts; the source hash is given now or asked for later.    *)
Start ==
  /\ Ended
  /\ runs < MaxRuns
  /\ ExpectedBytes > 0
  /\ pc' = "preflight"
  /\ runs' = runs + 1
  /\ \/ \E h \in Given : run' = [NoRun EXCEPT !.expected = h]
     \/ run' = [NoRun EXCEPT !.asks = TRUE]
  /\ fw' = [Abandoned EXCEPT !.stuck = FALSE]
  /\ log' = [log EXCEPT !.lost = FALSE]
  /\ UNCHANGED <<files, sock, stop>>

(* All three paths are inspected before any is reserved.                   *)
Preflight ==
  /\ pc = "preflight"
  /\ IF {image.is, manifest.is, checksum.is} = {"absent"}
     THEN pc' = "bind" /\ UNCHANGED <<sock, stop, run>>
     ELSE Exit("error")
  /\ UNCHANGED <<runs, files, fw, log>>

(* Bound before files are created, so a busy port leaves no output.        *)
Bind ==
  /\ pc = "bind"
  /\ \/ pc' = "open" /\ sock' = [sock EXCEPT !.open = TRUE]
        /\ UNCHANGED <<stop, run>>
     \/ Exit("error")
  /\ UNCHANGED <<runs, files, fw, log>>

(* listen::open_for: on loopback or without root the firewall is left      *)
(* alone; else stale openings go (or cannot be removed) and ours comes (or *)
(* cannot be inserted).                                                    *)
OpenFor ==
  /\ Step("open", "create image")
  /\ \/ UNCHANGED fw
     \/ \E r \in {fw.rule, "none"} : fw' = [fw EXCEPT !.rule = r]
     \/ fw' = [fw EXCEPT !.rule = "ours", !.guard = TRUE]
  /\ UNCHANGED <<runs, files, sock, stop, run, log>>

(* create_new on the three paths in turn.  O_EXCL: a path that appeared    *)
(* since the preflight, like any other error, ends the run.                *)
CreateImage ==
  /\ \/ /\ Step("create image", "create manifest")
        /\ image.is = "absent"
        /\ image' = File("ours", <<>>)
     \/ Step("create image", "unwind") /\ UNCHANGED image
  /\ UNCHANGED <<runs, manifest, checksum, sock, fw, stop, run, log>>

CreateManifest ==
  /\ \/ /\ Step("create manifest", "create checksum")
        /\ manifest.is = "absent"
        /\ manifest' = File("ours", Blank("empty"))
     \/ Step("create manifest", "unwind") /\ UNCHANGED manifest
  /\ UNCHANGED <<runs, image, checksum, sock, fw, stop, run, log>>

CreateChecksum ==
  /\ \/ /\ Step("create checksum", "started")
        /\ checksum.is = "absent"
        /\ checksum' = File("ours", Line("empty", NoHash))
     \/ Step("create checksum", "unwind") /\ UNCHANGED checksum
  /\ UNCHANGED <<runs, image, manifest, sock, fw, stop, run, log>>

AuditStarted ==
  /\ Step("started", "pending")
  /\ Record("receive_started", Blank("empty"))
  /\ UNCHANGED <<runs, files, sock, fw, stop, run>>

(* The pending manifest goes to storage before any data is accepted.       *)
WritePending ==
  /\ \/ /\ Step("pending", "sync pending")
        /\ manifest' = Write(manifest, PendingManifest)
     \/ /\ Step("pending", "unwind")
        /\ manifest' \in {manifest, Write(manifest, Blank("torn"))}
  /\ UNCHANGED <<runs, image, checksum, sock, fw, stop, run, log>>

(* Mutant: the pending record is left to the page cache.                   *)
SyncPendingSkipped ==
  /\ Step("sync pending", "listen")
  /\ UNCHANGED <<runs, files, sock, fw, stop, run, log>>

SyncPending ==
  /\ \/ Step("sync pending", "listen") /\ manifest' = Synced(manifest)
     \/ Step("sync pending", "unwind") /\ UNCHANGED manifest
  /\ UNCHANGED <<runs, image, checksum, sock, fw, stop, run, log>>

(* Mutant: std::process::exit, which runs no destructor.                   *)
UnwindSkipped ==
  /\ pc = "unwind"
  /\ Exit("error")
  /\ UNCHANGED <<runs, files, fw, log>>

(* An error before the closure: `?` drops the guard, then the socket.      *)
Unwind ==
  /\ pc = "unwind"
  /\ DropGuard
  /\ Exit("error")
  /\ UNCHANGED <<runs, files, log>>

----------------------------------------------------------------------------
(* Waiting: listen::accept *)

(* SIGINT and SIGTERM only set STOP while `accept` has its handlers in     *)
(* place; before and after, they end the process.                          *)
Handled == pc \in {"wait", "poll", "restore"}

(* (With the socket still blocking, `accept` returns before it restores the *)
(* dispositions: STOP is set from then on, and nothing looks at it.)       *)
InstallHandlers ==
  /\ \/ Step("listen", "wait") /\ UNCHANGED run
     \/ Failing("listen", "close")
  /\ UNCHANGED <<runs, files, sock, fw, stop, log>>

(* STOP is looked at first, then the socket is polled.                     *)
LookAtStop ==
  /\ \/ stop /\ Failing("wait", "close")
     \/ ~stop /\ Step("wait", "poll") /\ UNCHANGED run
  /\ UNCHANGED <<runs, files, sock, fw, stop, log>>

Poll ==
  /\ \/ /\ sock.queue # <<>>
        /\ Step("poll", "restore")
        /\ run' = [run EXCEPT !.peer = Head(sock.queue)]
        /\ sock' = [sock EXCEPT !.queue = Tail(@)]
     \/ /\ sock.queue = <<>>
        /\ Step("poll", "wait")
        /\ UNCHANGED <<run, sock>>
     \/ Failing("poll", "close") /\ UNCHANGED sock
  /\ UNCHANGED <<runs, files, fw, stop, log>>

(* Mutant: the peer is cleared before it is recorded.                      *)
RefusedCleared == [run EXCEPT !.rejected = Append(@, NoPeer), !.peer = NoPeer]
Refused == [run EXCEPT !.rejected = Append(@, run.peer), !.peer = NoPeer]

(* The old dispositions return; a refused peer is recorded and the loop    *)
(* calls `accept` again.  STOP keeps what it was told meanwhile.           *)
CheckPeer ==
  /\ \/ PeerAllowed(run.peer) /\ Step("restore", "close") /\ UNCHANGED run
     \/ /\ ~PeerAllowed(run.peer)
        /\ Len(run.rejected) < MaxRejected
        /\ Step("restore", "listen")
        /\ run' = Refused
     \/ /\ Step("restore", "close")
        /\ run' = [run EXCEPT !.result = "err", !.peer = NoPeer]
  /\ UNCHANGED <<runs, files, sock, fw, stop, log>>

(* A single sender per acquisition: the socket is dropped and then the     *)
(* opening, on the way to the data or, after an error, out of the closure. *)
CloseListener ==
  /\ Step("close", "drop")
  /\ sock' = NoSocket
  /\ UNCHANGED <<runs, files, fw, stop, run, log>>

CloseOpening ==
  /\ Step("drop", IF run.result = "ok" THEN "read" ELSE "finish")
  /\ DropGuard
  /\ UNCHANGED <<runs, files, sock, stop, run, log>>

----------------------------------------------------------------------------
(* Data: copy_stream *)

Chunk == UNION {[1..n -> Byte] : n \in 1..MaxChunk}

(* read(2) returns data that still fits, or the end of the stream after    *)
(* exactly the expected count: this is up to the sender.                   *)
ReadData ==
  /\ \/ /\ Step("read", "write")
        /\ \E c \in Chunk : /\ run.bytes + Len(c) <= ExpectedBytes
                            /\ run' = [run EXCEPT !.buf = c]
     \/ /\ run.bytes = ExpectedBytes
        /\ Step("read", "sync image")
        /\ UNCHANGED run
  /\ UNCHANGED <<runs, files, sock, fw, stop, log>>

(* Mutant: no read timeout; only a chunk that does not fit is an error.    *)
ReadFailsOversized ==
  /\ run.bytes = ExpectedBytes
  /\ Failing("read", "finish")
  /\ UNCHANGED <<runs, files, sock, fw, stop, log>>

(* More data than expected, an early end or an error: the read timeout is  *)
(* an error that needs nothing from the sender.                            *)
ReadFails ==
  /\ Failing("read", "finish")
  /\ UNCHANGED <<runs, files, sock, fw, stop, log>>

(* write(2) takes part of the buffer; what it took is hashed and counted.  *)
WriteImage ==
  /\ \/ \E n \in 1..Len(run.buf) :
          LET taken == SubSeq(run.buf, 1, n)
              rest == SubSeq(run.buf, n + 1, Len(run.buf))
          IN /\ Step("write", IF rest = <<>> THEN "read" ELSE "write")
             /\ image' = Write(image, image.now \o taken)
             /\ run' = [run EXCEPT !.buf = rest, !.bytes = @ + n,
                                   !.hashed = @ \o taken]
     \/ Failing("write", "finish") /\ UNCHANGED image
  /\ UNCHANGED <<runs, manifest, checksum, sock, fw, stop, log>>

(* Mutant: the image is left to the page cache.                            *)
SyncImageSkipped ==
  /\ Step("sync image", IF run.asks THEN "ask" ELSE "compare")
  /\ UNCHANGED <<runs, files, sock, fw, stop, run, log>>

SyncImage ==
  /\ \/ /\ Step("sync image", IF run.asks THEN "ask" ELSE "compare")
        /\ image' = Synced(image)
        /\ UNCHANGED run
     \/ Failing("sync image", "finish") /\ UNCHANGED image
  /\ UNCHANGED <<runs, manifest, checksum, sock, fw, stop, log>>

(* The hash the sender reported is entered: a valid one, or nothing usable *)
AskHash ==
  /\ \/ /\ Step("ask", "compare")
        /\ \E h \in Given : run' = [run EXCEPT !.expected = h]
     \/ Failing("ask", "finish")
  /\ UNCHANGED <<runs, files, sock, fw, stop, log>>

(* Mutant: a hash entered after the transfer is recorded, not compared.    *)
CompareGivenOnly ==
  /\ \/ /\ run.asks \/ run.expected = Sha256(run.hashed)
        /\ Step("compare", "checksum")
        /\ UNCHANGED run
     \/ /\ ~run.asks /\ run.expected # Sha256(run.hashed)
        /\ Failing("compare", "finish")
  /\ UNCHANGED <<runs, files, sock, fw, stop, log>>

Compare ==
  /\ \/ /\ run.expected = Sha256(run.hashed)
        /\ Step("compare", "checksum")
        /\ UNCHANGED run
     \/ /\ run.expected # Sha256(run.hashed)
        /\ Failing("compare", "finish")
  /\ UNCHANGED <<runs, files, sock, fw, stop, log>>

----------------------------------------------------------------------------
(* The outcome.  An error in these calls leaves `receive` by `?`. *)

WriteChecksum ==
  /\ \/ /\ Step("checksum", "sync checksum")
        /\ checksum' = Write(checksum, Line("whole", Sha256(run.hashed)))
        /\ UNCHANGED <<sock, stop, run>>
     \/ /\ pc = "checksum"
        /\ checksum' \in {checksum, Write(checksum, Line("torn", NoHash))}
        /\ Exit("error")
  /\ UNCHANGED <<runs, image, manifest, fw, log>>

SyncChecksum ==
  /\ \/ /\ Step("sync checksum", "finish")
        /\ checksum' = Synced(checksum)
        /\ UNCHANGED <<sock, stop, run>>
     \/ pc = "sync checksum" /\ Exit("error") /\ UNCHANGED checksum
  /\ UNCHANGED <<runs, image, manifest, fw, log>>

(* set_len(0), then the new content: the pending record is gone between.   *)
Truncate ==
  /\ \/ /\ Step("finish", "final")
        /\ manifest' = Write(manifest, Blank("empty"))
        /\ UNCHANGED <<sock, stop, run>>
     \/ pc = "finish" /\ Exit("error") /\ UNCHANGED manifest
  /\ UNCHANGED <<runs, image, checksum, fw, log>>

WriteFinal ==
  /\ \/ /\ Step("final", "sync final")
        /\ manifest' = Write(manifest, FinalManifest)
        /\ UNCHANGED <<sock, stop, run>>
     \/ /\ pc = "final"
        /\ manifest' \in {manifest, Write(manifest, Blank("torn"))}
        /\ Exit("error")
  /\ UNCHANGED <<runs, image, checksum, fw, log>>

(* Mutant: the manifest is digested into the log before it is synced.      *)
SyncFinalSkipped ==
  /\ Step("sync final", "finished")
  /\ UNCHANGED <<runs, files, sock, fw, stop, run, log>>

SyncFinal ==
  /\ \/ /\ Step("sync final", "finished")
        /\ manifest' = Synced(manifest)
        /\ UNCHANGED <<sock, stop, run>>
     \/ pc = "sync final" /\ Exit("error") /\ UNCHANGED manifest
  /\ UNCHANGED <<runs, image, checksum, fw, log>>

AuditFinished ==
  /\ pc = "finished"
  /\ Record("receive_finished", FinalManifest)
  /\ Exit(IF run.result = "ok" THEN "ok" ELSE "error")
  /\ UNCHANGED <<runs, files, fw>>

----------------------------------------------------------------------------
(* The environment *)

Connect(p) ==
  /\ sock.open
  /\ Len(sock.queue) < MaxBacklog
  /\ sock' = [sock EXCEPT !.queue = Append(@, p)]
  /\ UNCHANGED <<pc, runs, files, fw, stop, run, log>>

(* Ctrl-C or SIGTERM in `accept`.                                          *)
Interrupt ==
  /\ Handled
  /\ stop' = TRUE
  /\ UNCHANGED <<pc, runs, files, sock, fw, run, log>>

(* SIGKILL at any point, or Ctrl-C outside `accept`: nothing is unwound.   *)
Kill ==
  /\ ~Ended
  /\ Exit("killed")
  /\ fw' = Abandoned
  /\ UNCHANGED <<runs, files, log>>

(* The power fails: each file keeps one of the contents it may have.  The  *)
(* rules of the firewall are gone with the kernel.                         *)
PowerLoss ==
  /\ Exit("killed")
  /\ \E c \in image.may : image' = File(image.is, c)
  /\ \E c \in manifest.may : manifest' = File(manifest.is, c)
  /\ \E c \in checksum.may : checksum' = File(checksum.is, c)
  /\ fw' = [fw EXCEPT !.rule = "none", !.guard = FALSE]
  /\ UNCHANGED <<runs, log>>

(* Another program creates one of the paths.                               *)
ForeignFile ==
  /\ \/ /\ image.is = "absent"
        /\ image' = File("foreign", <<>>)
        /\ UNCHANGED <<manifest, checksum>>
     \/ /\ manifest.is = "absent"
        /\ manifest' = File("foreign", Blank("empty"))
        /\ UNCHANGED <<image, checksum>>
     \/ /\ checksum.is = "absent"
        /\ checksum' = File("foreign", Line("empty", NoHash))
        /\ UNCHANGED <<image, manifest>>
  /\ UNCHANGED <<pc, runs, sock, fw, stop, run, log>>

----------------------------------------------------------------------------
Setup == \/ Preflight \/ Bind \/ OpenFor
         \/ CreateImage \/ CreateManifest \/ CreateChecksum
         \/ AuditStarted \/ WritePending \/ SyncPending \/ Unwind

Waiting == \/ InstallHandlers \/ LookAtStop \/ Poll \/ CheckPeer
           \/ CloseListener \/ CloseOpening

Copying == ReadFails \/ WriteImage \/ SyncImage

Finishing == \/ Compare \/ WriteChecksum \/ SyncChecksum
             \/ Truncate \/ WriteFinal \/ SyncFinal \/ AuditFinished

Environment == \/ \E p \in Peer : Connect(p)
               \/ Interrupt \/ Kill \/ PowerLoss \/ ForeignFile

Next == \/ Start \/ Setup \/ Waiting \/ ReadData \/ Copying \/ AskHash
        \/ Finishing \/ Environment

(* The process runs: every call returns, a read by its timeout at the      *)
(* latest.  Nobody has to start the command, to connect, to send or to     *)
(* enter a hash.                                                           *)
Fairness == /\ WF_vars(Setup)
            /\ WF_vars(Waiting)
            /\ WF_vars(Copying)
            /\ WF_vars(Finishing)

Spec == Init /\ [][Next]_vars
FairSpec == Spec /\ Fairness

----------------------------------------------------------------------------
(* Properties *)

Options == [peer : Peer \cup {NoPeer}, rejected : Seq(Peer), buf : Seq(Byte),
            bytes : Nat, hashed : Seq(Byte), expected : Hash,
            asks : BOOLEAN, result : {"ok", "err"}]

Sockets == [open : BOOLEAN, queue : Seq(Peer)]

Firewalls == [rule : {"none", "ours", "stale"}, guard : BOOLEAN, stuck : BOOLEAN]

LogRecord == [run : Nat, doc : Document,
              event : {"receive_started", "receive_finished"}]

Logs == [records : Seq(LogRecord), lost : BOOLEAN]

Paths(C) == [is : {"absent", "ours", "foreign"}, now : C, may : SUBSET C]

Labels == {"idle", "ok", "error", "killed", "preflight", "bind", "open",
           "create image", "create manifest", "create checksum", "started",
           "pending", "sync pending", "unwind", "listen", "wait", "poll",
           "restore", "close", "drop", "read", "write", "sync image", "ask",
           "compare", "checksum", "sync checksum", "finish", "final",
           "sync final", "finished"}

(* Every variable of the receiver keeps its type.                          *)
TypeOK ==
  /\ pc \in Labels
  /\ runs \in Nat
  /\ image \in Paths(Seq(Byte))
  /\ manifest \in Paths(Document)
  /\ checksum \in Paths(Checksum)
  /\ sock \in Sockets
  /\ fw \in Firewalls
  /\ stop \in BOOLEAN
  /\ run \in Options
  /\ log \in Logs

(* A manifest that says "verified", whenever it is read - during the run,  *)
(* after a kill at any call, after a power loss that kept any mix of the   *)
(* contents not yet synced - stands beside an image of exactly the         *)
(* expected size whose hash is the one recorded and the one the operator   *)
(* gave (receive.rs: sync, compare, checksum, manifest in that order).     *)
VerifiedIsSound ==
  manifest.now.status = "verified" =>
    /\ Len(image.now) = ExpectedBytes
    /\ manifest.now.bytes = ExpectedBytes
    /\ manifest.now.sha256 = Sha256(image.now)
    /\ manifest.now.expected = Sha256(image.now)
    /\ manifest.now.expected \in Given

(* A checksum line is only ever found beside the image it is true of, even *)
(* when the run died before its manifest was rewritten.                    *)
ChecksumIsTrue ==
  checksum.now.form = "whole" =>
    /\ Len(image.now) = ExpectedBytes
    /\ checksum.now.sha256 = Sha256(image.now)
    /\ checksum.now.sha256 \in Given

(* The final manifest, of a failed transfer too, counts and hashes exactly *)
(* the bytes in the image: a partial write, an oversized chunk or a failed *)
(* write leaves no difference (copy_stream counts after the write).        *)
ManifestDescribesImage ==
  [][ manifest'.now.form = "final" /\ manifest.now.form # "final" =>
        /\ manifest'.now.bytes = Len(image'.now)
        /\ manifest'.now.sha256 = Sha256(image'.now) ]_vars

(* A receive_finished record in the audit log digests the manifest that is *)
(* on storage, for good: it is appended after the last sync.               *)
AuditMatchesManifest ==
  \A i \in DOMAIN log.records :
    log.records[i].event = "receive_finished" =>
      manifest.may = {log.records[i].doc} /\ manifest.now = log.records[i].doc

(* Data reaches the image only from one allowed sender, after the socket   *)
(* stopped listening and the opening was dropped ("a single sender per     *)
(* acquisition"), and only once a pending record that says "incomplete" is *)
(* all that storage can hold ("interruption cannot look successful").  And *)
(* a file that another program creates, before or after the preflight has  *)
(* looked, never changes.                                                  *)
ExclusiveWrites ==
  [][ /\ Len(image'.now) > Len(image.now) =>
           /\ PeerAllowed(run.peer) /\ run'.peer = run.peer
           /\ ~sock.open /\ ~fw.guard
           /\ \A d \in manifest.may : d.form = "pending"
      /\ image.is = "foreign" => UNCHANGED image
      /\ manifest.is = "foreign" => UNCHANGED manifest
      /\ checksum.is = "foreign" => UNCHANGED checksum ]_vars

(* The opening this process made has its guard, and outlives the socket    *)
(* only by the drop that follows at once: every way out of `receive` other *)
(* than being killed removes it, before a byte is read, unless iptables    *)
(* itself fails (listen.rs Guard).                                         *)
OpeningOnlyWhileListening ==
  fw.rule = "ours" /\ ~fw.stuck => fw.guard /\ (sock.open \/ pc = "drop")

(* A sender that stalls, floods or disconnects cannot keep the receiver:   *)
(* once it reads, it reaches the hash prompt or an end.  And a Ctrl-C      *)
(* noticed by the waiting loop ends the run, and not as a success.         *)
ReceiveReturns ==
  /\ pc = "read" ~> (pc = "ask" \/ Ended)
  /\ (stop /\ pc = "wait") ~> (pc \in {"error", "killed"})

(* The receiver, seen through what storage holds for good, is an           *)
(* acquisition: the image grows, is verified once, and never changes then. *)
Claim == IF manifest.may = {manifest.now} /\ manifest.now.status = "verified"
         THEN "verified" ELSE "open"
Acq == INSTANCE Acquisition WITH image <- image.now, claim <- Claim
ImplementsAcquisition == Acq!Spec

----------------------------------------------------------------------------
(* What the README says and the code does not do *)

(* README "incomplete: ... or the process was interrupted before           *)
(* finalization": the manifest of an interrupted run says so.              *)
InterruptedSaysIncomplete ==
  pc = "killed" /\ image.now # <<>> /\ manifest.now.status # "verified" =>
    manifest.now.form \in {"pending", "final"}
=============================================================================
