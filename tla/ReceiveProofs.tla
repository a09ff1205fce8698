--------------------------- MODULE ReceiveProofs ---------------------------
(***************************************************************************)
(* Proofs about `dfnet receive` for every expected size, alphabet, hash    *)
(* function, set of peers and bound.  The argument: a "verified" document  *)
(* and a checksum line can only be written by a run whose image is synced, *)
(* complete and hashed to what the operator gave (`SealedRun`), and no     *)
(* step of any later run or of the environment changes that image again    *)
(* (`Sealed`), because its path exists.  The second half adds what the     *)
(* opening, the sender and the records need (`More`): the guard lives      *)
(* while the socket listens, only an allowed sender is read from, a final  *)
(* manifest appears once and is what the audit log has of it, and storage  *)
(* never holds anything of the image but a beginning of it.                *)
(***************************************************************************)
EXTENDS Receive, TLAPS

(* Calls made after the image path was created by this run.                *)
Owning == {"create manifest", "create checksum", "started", "pending",
           "sync pending", "listen", "wait", "poll", "restore", "close", "drop",
           "read", "write", "sync image", "ask", "compare", "checksum",
           "sync checksum", "finish", "final", "sync final", "finished"}

(* What was hashed is what was counted, and never exceeds what is expected. *)
Counted ==
  /\ run.bytes = Len(run.hashed)
  /\ run.bytes + Len(run.buf) <= ExpectedBytes
  /\ pc = "write" => run.buf # <<>>
  /\ pc = "sync image" => run.bytes = ExpectedBytes
  /\ pc = "restore" => run.peer \in Peer
  /\ run.expected \in Given \cup {NoHash}

(* What was hashed is what the image holds.                                *)
Hashed ==
  /\ pc \in {"preflight", "bind", "open", "create image"} => run.hashed = <<>>
  /\ pc \in Owning => image.is = "ours" /\ image.now = run.hashed
  /\ pc \in Owning \ {"create manifest"} => manifest.is = "ours"
  /\ pc \in Owning \ {"create manifest", "create checksum"} =>
       checksum.is = "ours"

Complete == image.may = {image.now} /\ Len(image.now) = ExpectedBytes

(* A run that may still write a checksum or claim success.                 *)
SealedRun ==
  /\ pc \in {"ask", "compare"} => Complete
  /\ \/ pc \in {"checksum", "sync checksum"}
     \/ pc \in {"finish", "final", "sync final", "finished"} /\ run.result = "ok"
     => Complete /\ run.expected = Sha256(image.now) /\ run.expected \in Given

(* An image that some content of the storage vouches for.                  *)
Sealed ==
  /\ image.now \in image.may /\ manifest.now \in manifest.may
  /\ checksum.now \in checksum.may
  /\ \A d \in manifest.may : d.status = "verified" =>
       /\ pc \in {"ok", "error", "killed", "preflight", "sync final", "finished"}
       /\ manifest.is = "ours" /\ image.is = "ours" /\ Complete
       /\ d.bytes = ExpectedBytes /\ d.sha256 = Sha256(image.now)
       /\ d.expected = Sha256(image.now) /\ d.expected \in Given
  /\ \A l \in checksum.may : l.form = "whole" =>
       /\ pc \in {"ok", "error", "killed", "preflight", "sync checksum",
                  "finish", "final", "sync final", "finished"}
       /\ checksum.is = "ours" /\ image.is = "ours" /\ Complete
       /\ l.sha256 = Sha256(image.now) /\ l.sha256 \in Given

IInv == TypeOK /\ Counted /\ Hashed /\ SealedRun /\ Sealed

----------------------------------------------------------------------------
(* Sequences of bytes *)

LEMMA ExpectedIsNat == ExpectedBytes \in Nat
BY ConstantsAssumption

LEMMA NothingFits == 0 + 0 <= ExpectedBytes
BY ExpectedIsNat

LEMMA EmptySeq == \A S : <<>> \in Seq(S)
OBVIOUS

LEMMA ConcatLength ==
  ASSUME NEW s \in Seq(Byte), NEW t \in Seq(Byte)
  PROVE  s \o t \in Seq(Byte) /\ Len(s \o t) = Len(s) + Len(t)
OBVIOUS

LEMMA TakeAndRest ==
  ASSUME NEW s \in Seq(Byte), NEW n \in 1..Len(s)
  PROVE  /\ SubSeq(s, 1, n) \in Seq(Byte) /\ Len(SubSeq(s, 1, n)) = n
         /\ SubSeq(s, n + 1, Len(s)) \in Seq(Byte)
         /\ Len(SubSeq(s, n + 1, Len(s))) = Len(s) - n
OBVIOUS

LEMMA ShortIsContent ==
  ASSUME NEW s \in Seq(Byte), Len(s) <= ExpectedBytes
  PROVE  s \in Contents
<1>1. Len(s) \in 0..ExpectedBytes BY ConstantsAssumption
<1>2. s \in [1..Len(s) -> Byte] OBVIOUS
<1> QED BY <1>1, <1>2 DEF Contents

LEMMA CountedIsBounded ==
  ASSUME TypeOK, Counted
  PROVE  run.bytes \in Nat /\ run.bytes <= ExpectedBytes
<1>1. run.buf \in Seq(Byte) /\ run.bytes \in Nat BY DEF TypeOK, Options
<1>2. run.bytes + Len(run.buf) <= ExpectedBytes BY DEF Counted
<1>3. Len(run.buf) \in Nat BY <1>1
<1> QED BY <1>1, <1>2, <1>3, ExpectedIsNat

LEMMA HashedHasDigest ==
  ASSUME TypeOK, Counted
  PROVE  Sha256(run.hashed) \in Digest
<1>1. run.hashed \in Seq(Byte) BY DEF TypeOK, Options
<1>2. Len(run.hashed) <= ExpectedBytes BY CountedIsBounded DEF Counted
<1> QED BY <1>1, <1>2, ShortIsContent, ConstantsAssumption

LEMMA ChunkIsSeq == \A c \in Chunk : c \in Seq(Byte) /\ c # <<>> /\ Len(c) \in Nat \ {0}
BY DEF Chunk

----------------------------------------------------------------------------
(* Types *)

LEMMA NoRunType == NoRun \in Options
BY DEF NoRun, Options, Hash

LEMMA BlankTypes ==
  /\ \A f \in {"empty", "torn", "pending", "final"} : Blank(f) \in Document
  /\ \A f \in {"empty", "torn", "whole"}, h \in Hash : Line(f, h) \in Checksum
  /\ NoHash \in Hash
BY DEF Blank, Document, Hash, Line, Checksum

LEMMA FileType ==
  ASSUME NEW C, NEW c \in C, NEW o \in {"absent", "ours", "foreign"}
  PROVE  File(o, c) \in Paths(C)
BY DEF File, Paths

LEMMA InitType == Init => TypeOK
<1> SUFFICES ASSUME Init PROVE TypeOK OBVIOUS
<1>1. image \in Paths(Seq(Byte))
  BY EmptySeq, FileType DEF Init
<1>2. manifest \in Paths(Document) BY FileType, BlankTypes DEF Init
<1>3. checksum \in Paths(Checksum) BY FileType, BlankTypes DEF Init
<1>4. sock \in Sockets BY EmptySeq DEF Init, NoSocket, Sockets
<1>5. run \in Options BY NoRunType DEF Init
<1>6. log \in Logs BY EmptySeq DEF Init, Logs
<1> QED BY <1>1, <1>2, <1>3, <1>4, <1>5, <1>6 DEF Init, TypeOK, Labels, Firewalls

LEMMA DocumentTypes ==
  ASSUME TypeOK, Counted
  PROVE  /\ FinalManifest \in Document
         /\ PendingManifest \in Document
         /\ \A f \in {"empty", "torn", "pending", "final"} : Blank(f) \in Document
<1>1. \A f \in {"empty", "torn", "pending", "final"} : Blank(f) \in Document
  BY DEF Blank, Document, Hash
<1>2. PendingManifest \in Document
  BY <1>1 DEF PendingManifest, Document, TypeOK, Options
<1>3. FinalManifest \in Document
  BY HashedHasDigest DEF FinalManifest, Final, Document, TypeOK, Options, Hash
<1> QED BY <1>1, <1>2, <1>3

LEMMA StoreTypes ==
  ASSUME NEW C, NEW f \in Paths(C), NEW c \in C
  PROVE  Write(f, c) \in Paths(C) /\ Synced(f) \in Paths(C)
BY DEF Write, Synced, Paths

(* fsync leaves a file of the same kind.                                   *)
LEMMA SyncedType ==
  ASSUME NEW C, NEW f \in Paths(C), NEW g, g = f \/ g = Synced(f)
  PROVE  g \in Paths(C)
<1>1. f.now \in C BY DEF Paths
<1> QED BY <1>1, StoreTypes

LEMMA ExitType ==
  ASSUME NEW how \in {"ok", "error", "killed"}, Exit(how)
  PROVE  /\ pc' \in Labels /\ stop' \in BOOLEAN /\ run' \in Options
         /\ sock' \in Sockets
BY NoRunType, EmptySeq DEF Exit, Labels, NoSocket, Sockets

LEMMA RecordType ==
  ASSUME TypeOK, NEW d \in Document,
         NEW e \in {"receive_started", "receive_finished"}, Record(e, d)
  PROVE  log' \in Logs
<1> DEFINE r == [run |-> runs, event |-> e, doc |-> d]
<1>1. r \in LogRecord BY DEF TypeOK, LogRecord
<1>2. \/ log' = [log EXCEPT !.records = Append(@, r)]
      \/ log' = [log EXCEPT !.lost = TRUE]
  BY Zenon DEF Record
<1> HIDE DEF r
<1>3. log.records \in Seq(LogRecord) BY DEF TypeOK, Logs
<1>4. Append(log.records, r) \in Seq(LogRecord) BY <1>1, <1>3
<1> QED BY <1>2, <1>4 DEF TypeOK, Logs

LEMMA FailingType ==
  ASSUME TypeOK, NEW from, NEW to, Failing(from, to)
  PROVE  run' \in Options
BY EmptySeq DEF Failing, TypeOK, Options

LEMMA FirewallTypes ==
  ASSUME TypeOK
  PROVE  /\ Abandoned \in Firewalls
         /\ DropGuard =>
              fw' \in Firewalls
BY DEF TypeOK, Abandoned, DropGuard, Firewalls


(* A step that changes only what its hypotheses type.                      *)
LEMMA NextType ==
  ASSUME TypeOK, Counted, Next
  PROVE  TypeOK'
<1>1. CASE Start
  <2>1. run' \in Options
    BY <1>1, NoRunType, ConstantsAssumption DEF Start, Options, Hash
  <2>2. fw' \in Firewalls BY <1>1, FirewallTypes DEF Start, Firewalls
  <2>3. log' \in Logs BY <1>1 DEF Start, Logs, TypeOK
  <2>4. runs' \in Nat BY <1>1 DEF Start, TypeOK
  <2>5. pc' = "preflight" /\ UNCHANGED <<image, manifest, checksum, sock, stop>>
    BY <1>1 DEF Start, files
  <2> QED BY <2>1, <2>2, <2>3, <2>4, <2>5 DEF Labels, TypeOK
<1>2. CASE Preflight
  <2>1. CASE Exit("error")
    BY <1>2, <2>1, ExitType DEF Preflight, files, TypeOK
  <2>2. CASE pc' = "bind" /\ UNCHANGED <<sock, stop, run>>
    BY <1>2, <2>2 DEF Preflight, Labels, files, TypeOK
  <2> QED BY <1>2, <2>1, <2>2 DEF Preflight
<1>3. CASE Bind
  <2>1. CASE Exit("error")
    BY <1>3, <2>1, ExitType DEF Bind, files, TypeOK
  <2>2. CASE ~Exit("error")
    BY <1>3, <2>2 DEF Bind, Labels, files, TypeOK, Sockets
  <2> QED BY <2>1, <2>2
<1>4. CASE OpenFor
  BY <1>4 DEF OpenFor, Step, Labels, files, TypeOK, Firewalls
<1>5. CASE CreateImage
  <2>1. image' \in Paths(Seq(Byte))
    BY <1>5, EmptySeq, FileType DEF CreateImage, TypeOK
  <2> QED BY <1>5, <2>1 DEF CreateImage, Step, Labels, TypeOK
<1>6. CASE CreateManifest
  <2>1. manifest' \in Paths(Document)
    BY <1>6, BlankTypes, FileType DEF CreateManifest, TypeOK
  <2> QED BY <1>6, <2>1 DEF CreateManifest, Step, Labels, TypeOK
<1>7. CASE CreateChecksum
  <2>1. checksum' \in Paths(Checksum)
    BY <1>7, BlankTypes, FileType DEF CreateChecksum, TypeOK
  <2> QED BY <1>7, <2>1 DEF CreateChecksum, Step, Labels, TypeOK
<1>8. CASE AuditStarted
  <2>1. log' \in Logs BY <1>8, RecordType, BlankTypes DEF AuditStarted
  <2> QED BY <1>8, <2>1 DEF AuditStarted, Step, Labels, files, TypeOK
<1>9. CASE WritePending
  <2>1. manifest' \in Paths(Document)
    BY <1>9, BlankTypes, StoreTypes, DocumentTypes DEF WritePending, TypeOK
  <2> QED BY <1>9, <2>1 DEF WritePending, Step, Labels, TypeOK
<1>10. CASE SyncPending
  <2>1. manifest' \in Paths(Document)
    <3>1. manifest' = manifest \/ manifest' = Synced(manifest) BY <1>10 DEF SyncPending
    <3>2. manifest \in Paths(Document) BY DEF TypeOK
    <3> QED BY <3>1, <3>2, SyncedType
  <2> QED BY <1>10, <2>1 DEF SyncPending, Step, Labels, TypeOK
<1>11. CASE Unwind
  BY <1>11, ExitType, FirewallTypes DEF Unwind, files, TypeOK
<1>12. CASE InstallHandlers
  <2>1. run' \in Options BY <1>12, FailingType DEF InstallHandlers, TypeOK
  <2> QED BY <1>12, <2>1 DEF InstallHandlers, Failing, Step, Labels, files, TypeOK
<1>13. CASE LookAtStop
  <2>1. run' \in Options BY <1>13, FailingType DEF LookAtStop, TypeOK
  <2> QED BY <1>13, <2>1 DEF LookAtStop, Failing, Step, Labels, files, TypeOK
<1>14. CASE Poll
  <2>1. CASE sock.queue # <<>> /\ Step("poll", "restore")
             /\ run' = [run EXCEPT !.peer = Head(sock.queue)]
             /\ sock' = [sock EXCEPT !.queue = Tail(@)]
    <3>1. Head(sock.queue) \in Peer /\ Tail(sock.queue) \in Seq(Peer)
      BY <2>1 DEF TypeOK, Sockets
    <3>2. run' \in Options /\ sock' \in Sockets
      BY <2>1, <3>1 DEF TypeOK, Options, Sockets
    <3> QED BY <1>14, <2>1, <3>2 DEF Poll, Step, Labels, files, TypeOK
  <2>2. CASE Step("poll", "wait") /\ UNCHANGED <<run, sock>>
    BY <1>14, <2>2 DEF Poll, Step, Labels, files, TypeOK
  <2>3. CASE Failing("poll", "close") /\ UNCHANGED sock
    BY <1>14, <2>3, FailingType DEF Poll, Failing, Step, Labels, files, TypeOK
  <2> QED BY <1>14, <2>1, <2>2, <2>3 DEF Poll
<1>15. CASE CheckPeer
  <2>1. run' \in Options
    <3>1. CASE run' = Refused /\ ~PeerAllowed(run.peer)
      <4>1. run.peer \in Peer BY <1>15 DEF CheckPeer, Step, Counted
      <4>2. run.rejected \in Seq(Peer) BY DEF TypeOK, Options
      <4>3. Append(run.rejected, run.peer) \in Seq(Peer) BY <4>1, <4>2
      <4> QED BY <3>1, <4>3 DEF Refused, TypeOK, Options
    <3>2. CASE run' = [run EXCEPT !.result = "err", !.peer = NoPeer]
      BY <3>2 DEF TypeOK, Options
    <3>3. CASE run' = run
      BY <3>3 DEF TypeOK
    <3> QED BY <1>15, <3>1, <3>2, <3>3 DEF CheckPeer
  <2> QED BY <1>15, <2>1 DEF CheckPeer, Step, Labels, files, TypeOK
<1>16. CASE CloseListener \/ CloseOpening
  <2>1. CASE CloseListener
    <3>1. sock' \in Sockets BY <2>1, EmptySeq DEF CloseListener, NoSocket, Sockets
    <3> QED BY <2>1, <3>1 DEF CloseListener, Step, Labels, files, TypeOK
  <2>2. CASE CloseOpening
    <3>1. fw' \in Firewalls BY <2>2, FirewallTypes DEF CloseOpening
    <3> QED BY <2>2, <3>1 DEF CloseOpening, Step, Labels, files, TypeOK
  <2> QED BY <1>16, <2>1, <2>2
<1>17. CASE ReadData \/ ReadFails
  <2>1. run' \in Options
    <3>1. ASSUME NEW c \in Chunk, run' = [run EXCEPT !.buf = c]
          PROVE  run' \in Options
      BY <3>1, ChunkIsSeq DEF TypeOK, Options
    <3> QED BY <1>17, <3>1, FailingType DEF ReadData, ReadFails, TypeOK
  <2> QED BY <1>17, <2>1
      DEF ReadData, ReadFails, Failing, Step, Labels, files, TypeOK
<1>18. CASE WriteImage
  <2>1. CASE Failing("write", "finish") /\ UNCHANGED image
    BY <1>18, <2>1, FailingType DEF WriteImage, Failing, Step, Labels, TypeOK
  <2>2. ASSUME NEW n \in 1..Len(run.buf),
               image' = Write(image, image.now \o SubSeq(run.buf, 1, n)),
               run' = [run EXCEPT !.buf = SubSeq(run.buf, n + 1, Len(run.buf)),
                                  !.bytes = @ + n,
                                  !.hashed = @ \o SubSeq(run.buf, 1, n)]
        PROVE  image' \in Paths(Seq(Byte)) /\ run' \in Options
    <3>1. /\ run.buf \in Seq(Byte) /\ image.now \in Seq(Byte)
          /\ run.hashed \in Seq(Byte) /\ run.bytes \in Nat
      BY DEF TypeOK, Options, Paths
    <3> DEFINE taken == SubSeq(run.buf, 1, n)
               rest == SubSeq(run.buf, n + 1, Len(run.buf))
    <3>2. taken \in Seq(Byte) /\ rest \in Seq(Byte) BY <3>1, TakeAndRest
    <3>3. /\ image' = Write(image, image.now \o taken)
          /\ run' = [run EXCEPT !.buf = rest, !.bytes = @ + n,
                                !.hashed = @ \o taken]
      BY <2>2
    <3> HIDE DEF taken, rest
    <3>4. image.now \o taken \in Seq(Byte) /\ run.hashed \o taken \in Seq(Byte)
      BY <3>1, <3>2
    <3>5. image' \in Paths(Seq(Byte)) BY <3>3, <3>4, StoreTypes DEF TypeOK
    <3>6. run.bytes + n \in Nat BY <3>1
    <3>7. run' \in Options BY <3>2, <3>3, <3>4, <3>6 DEF TypeOK, Options
    <3> QED BY <3>5, <3>7
  <2>3. image' \in Paths(Seq(Byte)) /\ run' \in Options
    BY <1>18, <2>2, FailingType DEF WriteImage, TypeOK
  <2> QED BY <1>18, <2>3 DEF WriteImage, Failing, Step, Labels, TypeOK
<1>19. CASE SyncImage
  <2>1. image' \in Paths(Seq(Byte))
    <3>1. image' = image \/ image' = Synced(image) BY <1>19 DEF SyncImage
    <3>2. image \in Paths(Seq(Byte)) BY DEF TypeOK
    <3> QED BY <3>1, <3>2, SyncedType
  <2>2. run' \in Options BY <1>19, FailingType DEF SyncImage, TypeOK
  <2> QED BY <1>19, <2>1, <2>2 DEF SyncImage, Failing, Step, Labels, TypeOK
<1>20. CASE AskHash
  <2>1. run' \in Options
    <3>1. ASSUME NEW h \in Given, run' = [run EXCEPT !.expected = h]
          PROVE  run' \in Options
      BY <3>1, ConstantsAssumption DEF TypeOK, Options, Hash
    <3> QED BY <1>20, <3>1, FailingType DEF AskHash
  <2>2. pc' \in Labels BY <1>20 DEF AskHash, Failing, Step, Labels
  <2>3. UNCHANGED <<runs, image, manifest, checksum, sock, fw, stop, log>>
    BY <1>20 DEF AskHash, files
  <2> QED BY <2>1, <2>2, <2>3 DEF TypeOK
<1>21. CASE Compare
  <2>1. run' \in Options BY <1>21, FailingType DEF Compare, TypeOK
  <2> QED BY <1>21, <2>1 DEF Compare, Failing, Step, Labels, files, TypeOK
<1>22. CASE WriteChecksum
  <2>1. /\ Line("whole", Sha256(run.hashed)) \in Checksum
        /\ Line("torn", NoHash) \in Checksum
    BY HashedHasDigest, BlankTypes DEF Hash
  <2>2. checksum' \in Paths(Checksum)
    BY <1>22, <2>1, StoreTypes DEF WriteChecksum, TypeOK
  <2> QED BY <1>22, <2>2, ExitType DEF WriteChecksum, Step, Labels, TypeOK
<1>23. CASE SyncChecksum
  <2>1. checksum' \in Paths(Checksum)
    <3>1. checksum' = checksum \/ checksum' = Synced(checksum) BY <1>23 DEF SyncChecksum
    <3>2. checksum \in Paths(Checksum) BY DEF TypeOK
    <3> QED BY <3>1, <3>2, SyncedType
  <2> QED BY <1>23, <2>1, ExitType DEF SyncChecksum, Step, Labels, TypeOK
<1>24. CASE Truncate
  <2>1. manifest' \in Paths(Document)
    BY <1>24, StoreTypes, BlankTypes DEF Truncate, TypeOK
  <2> QED BY <1>24, <2>1, ExitType DEF Truncate, Step, Labels, TypeOK
<1>25. CASE WriteFinal
  <2>1. manifest' \in Paths(Document)
    BY <1>25, StoreTypes, BlankTypes, DocumentTypes DEF WriteFinal, TypeOK
  <2> QED BY <1>25, <2>1, ExitType DEF WriteFinal, Step, Labels, TypeOK
<1>26. CASE SyncFinal
  <2>1. manifest' \in Paths(Document)
    <3>1. manifest' = manifest \/ manifest' = Synced(manifest) BY <1>26 DEF SyncFinal
    <3>2. manifest \in Paths(Document) BY DEF TypeOK
    <3> QED BY <3>1, <3>2, SyncedType
  <2> QED BY <1>26, <2>1, ExitType DEF SyncFinal, Step, Labels, TypeOK
<1>27. CASE AuditFinished
  <2>1. log' \in Logs BY <1>27, RecordType, DocumentTypes DEF AuditFinished
  <2> QED BY <1>27, <2>1, ExitType DEF AuditFinished, files, TypeOK
<1>28. CASE \E p \in Peer : Connect(p)
  <2> PICK p \in Peer : Connect(p) BY <1>28
  <2>0. sock \in [open : BOOLEAN, queue : Seq(Peer)] BY DEF TypeOK, Sockets
  <2>1. sock' \in Sockets
    <3>1. Append(sock.queue, p) \in Seq(Peer) BY <2>0
    <3>2. sock' = [sock EXCEPT !.queue = Append(sock.queue, p)] BY DEF Connect
    <3> HIDE DEF Next, Counted, TypeOK
    <3> QED BY <2>0, <3>1, <3>2 DEF Sockets
  <2> QED BY <2>1 DEF Connect, files, TypeOK
<1>29. CASE Interrupt
  BY <1>29 DEF Interrupt, files, TypeOK
<1>30. CASE Kill
  BY <1>30, ExitType, FirewallTypes DEF Kill, files, TypeOK
<1>31. CASE PowerLoss
  <2>1. /\ image' \in Paths(Seq(Byte)) /\ manifest' \in Paths(Document)
        /\ checksum' \in Paths(Checksum)
    BY <1>31 DEF PowerLoss, File, Paths, TypeOK
  <2>2. fw' \in Firewalls BY <1>31 DEF PowerLoss, TypeOK, Firewalls
  <2> QED BY <1>31, <2>1, <2>2, ExitType DEF PowerLoss, TypeOK
<1>32. CASE ForeignFile
  <2>1. image' \in Paths(Seq(Byte))
    BY <1>32, EmptySeq, FileType DEF ForeignFile, TypeOK
  <2>2. manifest' \in Paths(Document) /\ checksum' \in Paths(Checksum)
    BY <1>32, BlankTypes, FileType DEF ForeignFile, TypeOK
  <2> QED BY <1>32, <2>1, <2>2 DEF ForeignFile, TypeOK
<1> QED
  BY <1>1, <1>2, <1>3, <1>4, <1>5, <1>6, <1>7, <1>8, <1>9, <1>10, <1>11, <1>12,
     <1>13, <1>14, <1>15, <1>16, <1>17, <1>18, <1>19, <1>20, <1>21, <1>22, <1>23,
     <1>24, <1>25, <1>26, <1>27, <1>28, <1>29, <1>30, <1>31, <1>32
  DEF Next, Setup, Waiting, Copying, Finishing, Environment

----------------------------------------------------------------------------
(* Counting *)

LEMMA NoRunCounts ==
  ASSUME run' = NoRun, pc' \notin {"write", "sync image", "restore"}
  PROVE  Counted'
<1>1. /\ run'.bytes = 0 /\ run'.hashed = <<>> /\ run'.buf = <<>>
      /\ run'.expected = NoHash
  BY DEF NoRun
<1>2. run'.bytes = Len(run'.hashed) BY <1>1
<1>3. run'.bytes + Len(run'.buf) <= ExpectedBytes
  <2>1. run'.bytes = 0 /\ Len(run'.buf) = 0 BY <1>1
  <2> QED BY <2>1, NothingFits, Zenon
<1> QED BY <1>1, <1>2, <1>3 DEF Counted

LEMMA ExitCounts ==
  ASSUME NEW how \in {"ok", "error", "killed"}, Exit(how)
  PROVE  Counted'
BY NoRunCounts DEF Exit

LEMMA FailingCounts ==
  ASSUME TypeOK, Counted, NEW from, NEW to \in {"close", "finish"}, Failing(from, to)
  PROVE  Counted'
<1>1. /\ run'.bytes = run.bytes /\ run'.hashed = run.hashed
      /\ run'.expected = run.expected /\ run'.buf = <<>>
      /\ pc' \notin {"write", "sync image", "restore"}
  BY DEF TypeOK, Options, Failing, Step
<1>2. run'.bytes + Len(run'.buf) <= ExpectedBytes
  <2>1. run'.bytes = run.bytes /\ Len(run'.buf) = 0 BY <1>1
  <2> QED BY <2>1, CountedIsBounded
<1> QED BY <1>1, <1>2 DEF Counted

LEMMA NextCounted ==
  ASSUME TypeOK, Counted, Next
  PROVE  Counted'
<1>1. CASE Start
  <2>1. pc' = "preflight" /\ run'.expected \in Given \cup {NoHash}
        /\ run'.bytes = 0 /\ run'.hashed = <<>> /\ run'.buf = <<>>
    BY <1>1 DEF Start, NoRun
  <2>2. run'.bytes = Len(run'.hashed) /\ run'.bytes + Len(run'.buf) <= ExpectedBytes
    BY <2>1, ConstantsAssumption
  <2> QED BY <2>1, <2>2 DEF Counted
<1>2. CASE Preflight
  BY <1>2, ExitCounts DEF Preflight, Counted
<1>3. CASE Bind
  BY <1>3, ExitCounts DEF Bind, Counted
<1>4. CASE OpenFor \/ CreateImage \/ CreateManifest \/ CreateChecksum \/ AuditStarted
  BY <1>4 DEF OpenFor, CreateImage, CreateManifest, CreateChecksum, AuditStarted,
              Step, Counted
<1>5. CASE WritePending \/ SyncPending \/ InstallHandlers
  BY <1>5, FailingCounts DEF WritePending, SyncPending, InstallHandlers, Step, Counted
<1>6. CASE Unwind
  BY <1>6, ExitCounts DEF Unwind
<1>7. CASE LookAtStop
  BY <1>7, FailingCounts DEF LookAtStop, Step, Counted
<1>8. CASE Poll
  <2>1. CASE /\ sock.queue # <<>> /\ Step("poll", "restore")
             /\ run' = [run EXCEPT !.peer = Head(sock.queue)]
    <3>1. Head(sock.queue) \in Peer BY <2>1 DEF TypeOK, Sockets
    <3> QED BY <2>1, <3>1 DEF Counted, Step, TypeOK, Options
  <2>2. CASE Step("poll", "wait") /\ UNCHANGED run
    BY <2>2 DEF Counted, Step
  <2> QED BY <1>8, <2>1, <2>2, FailingCounts DEF Poll
<1>9. CASE CheckPeer
  BY <1>9 DEF CheckPeer, Refused, Step, Counted, TypeOK, Options
<1>10. CASE CloseListener \/ CloseOpening
  BY <1>10 DEF CloseListener, CloseOpening, Step, Counted
<1>11. CASE ReadData \/ ReadFails
  <2>1. ASSUME NEW c \in Chunk, Step("read", "write"), run' = [run EXCEPT !.buf = c],
               run.bytes + Len(c) <= ExpectedBytes
        PROVE  Counted'
    BY <2>1, ChunkIsSeq DEF Counted, Step, TypeOK, Options
  <2>2. CASE Step("read", "sync image") /\ run.bytes = ExpectedBytes /\ UNCHANGED run
    BY <2>2 DEF Step, Counted
  <2> QED BY <1>11, <2>1, <2>2, FailingCounts DEF ReadData, ReadFails
<1>12. CASE WriteImage
  <2>1. CASE Failing("write", "finish")
    BY <2>1, FailingCounts
  <2>2. ASSUME NEW n \in 1..Len(run.buf),
               Step("write", IF SubSeq(run.buf, n + 1, Len(run.buf)) = <<>>
                             THEN "read" ELSE "write"),
               run' = [run EXCEPT !.buf = SubSeq(run.buf, n + 1, Len(run.buf)),
                                  !.bytes = @ + n,
                                  !.hashed = @ \o SubSeq(run.buf, 1, n)]
        PROVE  Counted'
    <3>1. /\ run.buf \in Seq(Byte) /\ run.hashed \in Seq(Byte) /\ run.bytes \in Nat
      BY DEF TypeOK, Options
    <3> DEFINE taken == SubSeq(run.buf, 1, n)
               rest == SubSeq(run.buf, n + 1, Len(run.buf))
    <3>2. /\ taken \in Seq(Byte) /\ rest \in Seq(Byte)
          /\ Len(taken) = n /\ Len(rest) = Len(run.buf) - n
      BY <3>1, TakeAndRest
    <3>3. /\ run' = [run EXCEPT !.buf = rest, !.bytes = @ + n,
                                !.hashed = @ \o taken]
          /\ pc' = IF rest = <<>> THEN "read" ELSE "write"
      BY <2>2 DEF Step
    <3> HIDE DEF taken, rest
    <3>4. Len(run.hashed \o taken) = Len(run.hashed) + n
      BY <3>1, <3>2, ConcatLength
    <3>5. /\ run'.buf = rest /\ run'.bytes = run.bytes + n
          /\ run'.hashed = run.hashed \o taken /\ run'.expected = run.expected
      BY <3>3 DEF TypeOK, Options
    <3>6. Len(run.buf) \in Nat /\ Len(run.hashed) \in Nat BY <3>1
    <3>7. run'.bytes = Len(run'.hashed) /\ run'.bytes + Len(run'.buf) <= ExpectedBytes
      <4>1. run.bytes = Len(run.hashed) /\ run.bytes + Len(run.buf) <= ExpectedBytes
        BY DEF Counted
      <4>2. (run.bytes + n) + (Len(run.buf) - n) = run.bytes + Len(run.buf)
        BY <3>1, <3>6
      <4> QED BY <3>2, <3>4, <3>5, <4>1, <4>2
    <3>8. pc' \notin {"restore", "sync image"} /\ (pc' = "write" => rest # <<>>) BY <3>3
    <3>9. run'.expected \in Given \cup {NoHash} BY <3>5 DEF Counted
    <3>10. pc' = "write" => run'.buf # <<>> BY <3>5, <3>8
    <3> QED BY <3>7, <3>8, <3>9, <3>10 DEF Counted
  <2> QED BY <1>12, <2>1, <2>2 DEF WriteImage
<1>13. CASE SyncImage
  BY <1>13, FailingCounts DEF SyncImage, Step, Counted
<1>14. CASE AskHash
  <2>1. ASSUME NEW h \in Given, Step("ask", "compare"), run' = [run EXCEPT !.expected = h]
        PROVE  Counted'
    BY <2>1 DEF Step, Counted, TypeOK, Options
  <2> QED BY <1>14, <2>1, FailingCounts DEF AskHash
<1>15. CASE Compare
  BY <1>15, FailingCounts DEF Compare, Step, Counted
<1>16. CASE WriteChecksum \/ SyncChecksum
  BY <1>16, ExitCounts DEF WriteChecksum, SyncChecksum, Step, Counted
<1>17. CASE Truncate \/ WriteFinal \/ SyncFinal
  BY <1>17, ExitCounts DEF Truncate, WriteFinal, SyncFinal, Step, Counted
<1>18. CASE AuditFinished
  BY <1>18, ExitCounts DEF AuditFinished
<1>19. CASE (\E p \in Peer : Connect(p)) \/ Interrupt \/ ForeignFile
  BY <1>19 DEF Connect, Interrupt, ForeignFile, Counted
<1>20. CASE Kill \/ PowerLoss
  BY <1>20, ExitCounts DEF Kill, PowerLoss
<1> QED
  BY <1>1, <1>2, <1>3, <1>4, <1>5, <1>6, <1>7, <1>8, <1>9, <1>10, <1>11, <1>12,
     <1>13, <1>14, <1>15, <1>16, <1>17, <1>18, <1>19, <1>20
  DEF Next, Setup, Waiting, Copying, Finishing, Environment

(* Every variable keeps its type, whatever the sizes and sets.             *)
THEOREM TypeCorrect == Spec => []TypeOK
<1>1. Init => TypeOK /\ Counted
  BY InitType, ConstantsAssumption DEF Init, NoRun, Counted
<1>2. TypeOK /\ Counted /\ [Next]_vars => (TypeOK /\ Counted)'
  <2> SUFFICES ASSUME TypeOK, Counted, [Next]_vars PROVE (TypeOK /\ Counted)'
    OBVIOUS
  <2>1. CASE Next BY <2>1, NextType, NextCounted
  <2>2. CASE UNCHANGED vars BY <2>2 DEF vars, files, TypeOK, Counted
  <2> QED BY <2>1, <2>2
<1> QED BY <1>1, <1>2, PTL DEF Spec

----------------------------------------------------------------------------
(* Sealed images *)

(* Leaving the process touches no file that storage vouches for.           *)
LEMMA FilesUntouched ==
  ASSUME IInv, UNCHANGED files, pc' \in {"ok", "error", "killed"}
  PROVE  Hashed' /\ SealedRun' /\ Sealed'
BY DEF IInv, files, Hashed, SealedRun, Sealed, Complete, Owning

LEMMA NothingWritten ==
  ASSUME IInv, UNCHANGED <<files, pc, run>>
  PROVE  Hashed' /\ SealedRun' /\ Sealed'
BY DEF IInv, files, Hashed, SealedRun, Sealed, Complete

(* No document and no checksum line vouches for anything yet.              *)
Unsealed ==
  /\ \A d \in manifest.may : d.status # "verified"
  /\ \A l \in checksum.may : l.form # "whole"

Quiet == {"bind", "open", "create image", "create manifest",
          "create checksum", "started", "pending", "sync pending", "unwind",
          "listen", "wait", "poll", "restore", "close", "drop", "read", "write",
          "sync image", "ask", "compare", "checksum"}

LEMMA QuietIsUnsealed == IInv /\ pc \in Quiet => Unsealed
BY DEF IInv, Sealed, Quiet, Unsealed

LEMMA UnsealedIsSealed ==
  ASSUME Unsealed', image'.now \in image'.may, manifest'.now \in manifest'.may,
         checksum'.now \in checksum'.may
  PROVE  Sealed'
BY DEF Unsealed, Sealed

(* Setting up: nothing is vouched for before or after.                     *)
LEMMA SetupSealed ==
  ASSUME IInv, Next, Setup
  PROVE  Hashed' /\ SealedRun' /\ Sealed'
<1>1. CASE Preflight
  <2>1. CASE Exit("error")
    BY <1>1, <2>1, FilesUntouched DEF Exit, Preflight
  <2>2. CASE /\ {image.is, manifest.is, checksum.is} = {"absent"}
             /\ pc' = "bind" /\ UNCHANGED <<files, run>>
    <3>1. image.is = "absent" /\ manifest.is = "absent" /\ checksum.is = "absent"
      BY <2>2
    <3>2. Unsealed BY <3>1 DEF IInv, Sealed, Unsealed
    <3>3. Sealed' BY <2>2, <3>2, UnsealedIsSealed DEF files, Unsealed, IInv, Sealed
    <3> QED BY <1>1, <2>2, <3>3 DEF Preflight, IInv, Hashed, SealedRun, Owning
  <2> QED BY <1>1, <2>1, <2>2 DEF Preflight
<1>2. CASE Bind
  <2>1. Unsealed BY <1>2, QuietIsUnsealed DEF Bind, Quiet
  <2>2. CASE Exit("error")
    BY <1>2, <2>2, FilesUntouched DEF Exit, Bind
  <2>3. CASE pc' = "open" /\ UNCHANGED <<files, run>>
    <3>1. Sealed' BY <2>1, <2>3, UnsealedIsSealed DEF files, Unsealed, IInv, Sealed
    <3> QED BY <1>2, <2>3, <3>1 DEF Bind, IInv, Hashed, SealedRun, Owning
  <2> QED BY <1>2, <2>2, <2>3 DEF Bind
<1>3. CASE OpenFor
  <2>1. Unsealed BY <1>3, QuietIsUnsealed DEF OpenFor, Step, Quiet
  <2>2. Sealed'
    BY <1>3, <2>1, UnsealedIsSealed DEF OpenFor, files, Unsealed, IInv, Sealed
  <2> QED BY <1>3, <2>2 DEF OpenFor, Step, IInv, Hashed, SealedRun, Owning
<1>4. CASE CreateImage
  <2>1. Unsealed BY <1>4, QuietIsUnsealed DEF CreateImage, Step, Quiet
  <2>2. image'.now \in image'.may /\ UNCHANGED <<manifest, checksum>>
    <3>1. image.now \in image.may BY DEF IInv, Sealed
    <3>2. File("ours", <<>>).now \in File("ours", <<>>).may BY DEF File
    <3> QED BY <1>4, <3>1, <3>2 DEF CreateImage
  <2>3. Sealed' BY <2>1, <2>2, UnsealedIsSealed DEF Unsealed, IInv, Sealed
  <2>4. CASE /\ Step("create image", "create manifest")
             /\ image' = File("ours", <<>>)
    <3>1. run' = run /\ run.hashed = <<>>
      BY <1>4, <2>4 DEF CreateImage, Step, IInv, Hashed
    <3>2. image'.is = "ours" /\ image'.now = <<>> BY <2>4 DEF File
    <3> QED BY <2>3, <2>4, <3>1, <3>2 DEF Step, Hashed, SealedRun, Owning
  <2>5. CASE Step("create image", "unwind")
    BY <2>3, <2>5 DEF Step, Hashed, SealedRun, Owning
  <2> QED BY <1>4, <2>4, <2>5 DEF CreateImage
<1>5. CASE CreateManifest
  <2>1. Unsealed BY <1>5, QuietIsUnsealed DEF CreateManifest, Step, Quiet
  <2>2. CASE /\ Step("create manifest", "create checksum")
             /\ manifest' = File("ours", Blank("empty"))
    <3> DEFINE blank == Blank("empty")
    <3>a. blank.status # "verified" BY DEF Blank
    <3>b. manifest' = File("ours", blank) BY <2>2
    <3> HIDE DEF blank
    <3>1. /\ manifest'.is = "ours" /\ manifest'.now \in manifest'.may
          /\ \A d \in manifest'.may : d.status # "verified"
      BY <3>a, <3>b DEF File
    <3>2. UNCHANGED <<image, checksum, run>> BY <1>5 DEF CreateManifest
    <3>3. Sealed'
      BY <2>1, <3>1, <3>2, UnsealedIsSealed DEF Unsealed, IInv, Sealed
    <3> QED BY <2>2, <3>1, <3>2, <3>3 DEF Step, IInv, Hashed, SealedRun, Owning
  <2>3. CASE Step("create manifest", "unwind") /\ UNCHANGED manifest
    <3>1. UNCHANGED <<image, checksum, run>> BY <1>5 DEF CreateManifest
    <3>2. Sealed'
      BY <2>1, <2>3, <3>1, UnsealedIsSealed DEF Unsealed, IInv, Sealed
    <3> QED BY <2>3, <3>2 DEF Step, Hashed, SealedRun, Owning
  <2> QED BY <1>5, <2>2, <2>3 DEF CreateManifest
<1>6. CASE CreateChecksum
  <2>1. Unsealed BY <1>6, QuietIsUnsealed DEF CreateChecksum, Step, Quiet
  <2>2. CASE /\ Step("create checksum", "started")
             /\ checksum' = File("ours", Line("empty", NoHash))
    <3> DEFINE line == Line("empty", NoHash)
    <3>a. line.form # "whole" BY DEF Line
    <3>b. checksum' = File("ours", line) BY <2>2
    <3> HIDE DEF line
    <3>1. /\ checksum'.is = "ours" /\ checksum'.now \in checksum'.may
          /\ \A l \in checksum'.may : l.form # "whole"
      BY <3>a, <3>b DEF File
    <3>2. UNCHANGED <<image, manifest, run>> BY <1>6 DEF CreateChecksum
    <3>3. Sealed'
      BY <2>1, <3>1, <3>2, UnsealedIsSealed DEF Unsealed, IInv, Sealed
    <3> QED BY <2>2, <3>1, <3>2, <3>3 DEF Step, IInv, Hashed, SealedRun, Owning
  <2>3. CASE Step("create checksum", "unwind") /\ UNCHANGED checksum
    <3>1. UNCHANGED <<image, manifest, run>> BY <1>6 DEF CreateChecksum
    <3>2. Sealed'
      BY <2>1, <2>3, <3>1, UnsealedIsSealed DEF Unsealed, IInv, Sealed
    <3> QED BY <2>3, <3>2 DEF Step, Hashed, SealedRun, Owning
  <2> QED BY <1>6, <2>2, <2>3 DEF CreateChecksum
<1>7. CASE AuditStarted
  <2>1. Unsealed BY <1>7, QuietIsUnsealed DEF AuditStarted, Step, Quiet
  <2>2. Sealed'
    BY <1>7, <2>1, UnsealedIsSealed DEF AuditStarted, files, Unsealed, IInv, Sealed
  <2> QED BY <1>7, <2>2 DEF AuditStarted, files, Step, IInv, Hashed, SealedRun, Owning
<1>8. CASE WritePending \/ SyncPending
  <2>1. /\ Unsealed
        /\ Step("pending", "sync pending") \/ Step("pending", "unwind")
           \/ Step("sync pending", "listen") \/ Step("sync pending", "unwind")
    BY <1>8, QuietIsUnsealed DEF WritePending, SyncPending, Step, Quiet
  <2>2. manifest' \in {manifest, Synced(manifest), Write(manifest, PendingManifest),
                       Write(manifest, Blank("torn"))}
    BY <1>8 DEF WritePending, SyncPending
  <2>3. PendingManifest.status # "verified" /\ Blank("torn").status # "verified"
    BY DEF PendingManifest, Blank
  <2>4. manifest \in Paths(Document) /\ manifest.now \in manifest.may
    BY DEF IInv, TypeOK, Sealed
  <2>5. /\ manifest'.is = manifest.is /\ manifest'.now \in manifest'.may
        /\ \A d \in manifest'.may : d.status # "verified"
    <3>1. \A d \in manifest.may : d.status # "verified" BY <2>1 DEF Unsealed
    <3>2. CASE manifest' = manifest BY <3>1, <3>2, <2>4
    <3>3. CASE manifest' = Synced(manifest) BY <3>1, <3>3, <2>4 DEF Synced, Paths
    <3>4. CASE manifest' = Write(manifest, PendingManifest)
      BY <3>1, <3>4, <2>3, <2>4 DEF Write, Paths
    <3>5. CASE manifest' = Write(manifest, Blank("torn"))
      BY <3>1, <3>5, <2>3, <2>4 DEF Write, Paths
    <3> QED BY <2>2, <3>2, <3>3, <3>4, <3>5
  <2>6. UNCHANGED <<image, checksum, run>>
    BY <1>8 DEF WritePending, SyncPending
  <2>7. Sealed'
    BY <2>1, <2>5, <2>6, UnsealedIsSealed DEF Unsealed, IInv, Sealed
  <2> QED BY <2>1, <2>5, <2>6, <2>7 DEF Step, IInv, Hashed, SealedRun, Owning
<1>9. CASE Unwind
  BY <1>9, FilesUntouched DEF Unwind, Exit
<1> QED
  BY <1>1, <1>2, <1>3, <1>4, <1>5, <1>6, <1>7, <1>8, <1>9 DEF Setup

(* Waiting for the sender: no file changes.                                *)
LEMMA WaitingSealed ==
  ASSUME IInv, Next, Waiting
  PROVE  Hashed' /\ SealedRun' /\ Sealed'
<1>1. /\ UNCHANGED files /\ run'.hashed = run.hashed
      /\ pc \in {"listen", "wait", "poll", "restore", "close", "drop"}
      /\ pc' \in {"listen", "wait", "poll", "restore", "close", "drop", "read", "finish"}
      /\ pc' = "finish" => run'.result # "ok"
  BY DEF Waiting, InstallHandlers, LookAtStop, Poll, CheckPeer, Refused,
         CloseListener, CloseOpening,
         Failing, Step, IInv, TypeOK, Options
<1>2. Unsealed BY <1>1, QuietIsUnsealed DEF Quiet
<1>3. Sealed' BY <1>1, <1>2, UnsealedIsSealed DEF files, Unsealed, IInv, Sealed
<1> QED BY <1>1, <1>3 DEF files, IInv, Hashed, SealedRun, Owning

(* Copying: the image grows by what was hashed, or is synced.              *)
LEMMA CopyingSealed ==
  ASSUME IInv, Next, ReadData \/ Copying
  PROVE  Hashed' /\ SealedRun' /\ Sealed'
<1>1. Unsealed
  BY QuietIsUnsealed DEF Copying, ReadData, ReadFails, WriteImage, SyncImage, Failing,
      Step, Quiet
<1>2. ASSUME UNCHANGED files, pc \in {"read", "write", "sync image"},
             run'.hashed = run.hashed,
             \/ pc' \in {"read", "write", "sync image"}
             \/ pc' = "finish" /\ run'.result # "ok"
      PROVE  Hashed' /\ SealedRun' /\ Sealed'
  <2>1. Sealed' BY <1>1, <1>2, UnsealedIsSealed DEF files, Unsealed, IInv, Sealed
  <2> QED BY <1>2, <2>1 DEF files, IInv, Hashed, SealedRun, Owning
<1>3. ASSUME NEW from \in {"read", "write", "sync image"}, Failing(from, "finish")
      PROVE  /\ pc = from /\ pc' = "finish"
             /\ run'.hashed = run.hashed /\ run'.result # "ok"
  BY <1>3 DEF Failing, Step, IInv, TypeOK, Options
<1>4. CASE ReadData \/ ReadFails
  <2>1. CASE ReadFails BY <1>2, <1>3, <2>1 DEF ReadFails
  <2>2. CASE ReadData
    <3>1. /\ pc = "read" /\ pc' \in {"write", "sync image"}
          /\ run'.hashed = run.hashed
      BY <2>2 DEF ReadData, Step, IInv, TypeOK, Options
    <3> QED BY <1>2, <2>2, <3>1 DEF ReadData
  <2> QED BY <1>4, <2>1, <2>2
<1>5. CASE WriteImage
  <2>1. CASE Failing("write", "finish") /\ UNCHANGED image
    BY <1>2, <1>3, <1>5, <2>1 DEF WriteImage, files
  <2>2. ASSUME NEW taken, pc = "write", pc' \in {"read", "write"},
               image' = Write(image, image.now \o taken),
               run'.hashed = run.hashed \o taken
        PROVE  Hashed' /\ SealedRun' /\ Sealed'
    <3>1. image.is = "ours" /\ image.now = run.hashed
      BY <2>2 DEF IInv, Hashed, Owning
    <3>2. /\ image'.is = "ours" /\ image'.now = run'.hashed
          /\ image'.now \in image'.may
      BY <2>2, <3>1 DEF Write, IInv, TypeOK, Paths
    <3>3. UNCHANGED <<manifest, checksum>> BY <1>5 DEF WriteImage
    <3>4. Sealed' BY <1>1, <3>2, <3>3, UnsealedIsSealed DEF Unsealed, IInv, Sealed
    <3> QED BY <2>2, <3>2, <3>3, <3>4 DEF IInv, Hashed, SealedRun, Owning
  <2>3. ASSUME NEW n \in 1..Len(run.buf),
               Step("write", IF SubSeq(run.buf, n + 1, Len(run.buf)) = <<>>
                             THEN "read" ELSE "write"),
               image' = Write(image, image.now \o SubSeq(run.buf, 1, n)),
               run' = [run EXCEPT !.buf = SubSeq(run.buf, n + 1, Len(run.buf)),
                                  !.bytes = @ + n,
                                  !.hashed = @ \o SubSeq(run.buf, 1, n)]
        PROVE  Hashed' /\ SealedRun' /\ Sealed'
    <3>1. run'.hashed = run.hashed \o SubSeq(run.buf, 1, n)
      BY <2>3 DEF IInv, TypeOK, Options
    <3> QED BY <2>2, <2>3, <3>1 DEF Step
  <2> QED BY <1>5, <2>1, <2>3 DEF WriteImage
<1>6. CASE SyncImage
  <2>1. CASE Failing("sync image", "finish") /\ UNCHANGED image
    BY <1>2, <1>3, <1>6, <2>1 DEF SyncImage, files
  <2>2. CASE image' = Synced(image) /\ pc = "sync image" /\ pc' \in {"ask", "compare"}
             /\ UNCHANGED run
    <3>1. image.is = "ours" /\ image.now = run.hashed
      BY <2>2 DEF IInv, Hashed, Owning
    <3>2. /\ image'.is = "ours" /\ image'.now = image.now
          /\ image'.may = {image'.now}
      BY <2>2, <3>1 DEF Synced, IInv, TypeOK, Paths
    <3>3. Len(image'.now) = ExpectedBytes
      BY <2>2, <3>1, <3>2 DEF IInv, Counted
    <3>4. UNCHANGED <<manifest, checksum>> BY <1>6 DEF SyncImage
    <3>5. Sealed' BY <1>1, <3>2, <3>4, UnsealedIsSealed DEF Unsealed, IInv, Sealed
    <3> QED BY <2>2, <3>1, <3>2, <3>3, <3>4, <3>5
            DEF IInv, Hashed, SealedRun, Complete, Owning
  <2> QED BY <1>6, <2>1, <2>2 DEF SyncImage, Step
<1> QED BY <1>4, <1>5, <1>6 DEF Copying

(* Asking for the hash and comparing: nothing is written.                  *)
LEMMA CompareSealed ==
  ASSUME IInv, Next, AskHash \/ Compare
  PROVE  Hashed' /\ SealedRun' /\ Sealed'
<1>1. /\ UNCHANGED files /\ run'.hashed = run.hashed
      /\ pc \in {"ask", "compare"} /\ pc' \in {"compare", "checksum", "finish"}
  BY DEF AskHash, Compare, Failing, Step, IInv, TypeOK, Options
<1>2. pc' = "finish" => run'.result # "ok"
  BY DEF AskHash, Compare, Failing, Step, IInv, TypeOK, Options
<1>3. pc' = "checksum" => run' = run /\ run.expected = Sha256(run.hashed)
  BY DEF AskHash, Compare, Failing, Step
<1>4. Sha256(run.hashed) # NoHash
  BY HashedHasDigest, ConstantsAssumption DEF IInv
<1>5. Unsealed BY <1>1, QuietIsUnsealed DEF Quiet
<1>6. Sealed' BY <1>1, <1>5, UnsealedIsSealed DEF files, Unsealed, IInv, Sealed
<1>7. Complete /\ Complete' BY <1>1 DEF files, IInv, SealedRun, Complete
<1>8. Hashed' BY <1>1 DEF files, IInv, Hashed, Owning
<1>9. SealedRun'
  <2>1. image.now = run.hashed BY <1>1 DEF IInv, Hashed, Owning
  <2>2. pc' = "checksum" =>
          run'.expected = Sha256(image'.now) /\ run'.expected \in Given
    BY <1>1, <1>3, <1>4, <2>1 DEF files, IInv, Counted
  <2> QED BY <1>1, <1>2, <1>7, <2>2 DEF SealedRun
<1> QED BY <1>6, <1>8, <1>9

(* Writing the checksum: the image is complete and hashed to what was      *)
(* expected; no document vouches for it yet.                               *)
LEMMA ChecksumSealed ==
  ASSUME IInv, Next, WriteChecksum \/ SyncChecksum
  PROVE  Hashed' /\ SealedRun' /\ Sealed'
<1>1. pc \in {"checksum", "sync checksum"} /\ UNCHANGED <<image, manifest>>
  BY DEF WriteChecksum, SyncChecksum, Step
<1>2. /\ Complete /\ run.expected = Sha256(image.now) /\ run.expected \in Given
      /\ image.is = "ours" /\ image.now = run.hashed
      /\ manifest.is = "ours" /\ checksum.is = "ours"
  BY <1>1 DEF IInv, SealedRun, Hashed, Owning
<1>3. \A d \in manifest.may : d.status # "verified"
  BY <1>1 DEF IInv, Sealed
<1>4. \/ pc' \in {"sync checksum", "finish"} /\ UNCHANGED run
      \/ pc' = "error"
  BY DEF WriteChecksum, SyncChecksum, Step, Exit
<1>5. checksum' \in {checksum, Synced(checksum), Write(checksum, Line("torn", NoHash)),
                     Write(checksum, Line("whole", Sha256(run.hashed)))}
  BY DEF WriteChecksum, SyncChecksum
<1>6. /\ checksum'.is = "ours" /\ checksum'.now \in checksum'.may
      /\ \A l \in checksum'.may : l \in checksum.may \/ l = Line("torn", NoHash)
                                 \/ l = Line("whole", Sha256(run.hashed))
  <2>1. checksum \in Paths(Checksum) /\ checksum.now \in checksum.may
    BY DEF IInv, TypeOK, Sealed
  <2>2. ASSUME NEW l, checksum' = Write(checksum, l)
        PROVE  /\ checksum'.is = "ours" /\ checksum'.now \in checksum'.may
               /\ checksum'.may = checksum.may \cup {l}
    BY <1>2, <2>1, <2>2 DEF Write, Paths
  <2>3. ASSUME checksum' \in {checksum, Synced(checksum)}
        PROVE  /\ checksum'.is = "ours" /\ checksum'.now \in checksum'.may
               /\ checksum'.may \subseteq checksum.may
    BY <1>2, <2>1, <2>3 DEF Synced, Paths
  <2> QED BY <1>5, <2>2, <2>3
<1>7. \A l \in checksum'.may : l.form = "whole" => l.sha256 = Sha256(image.now)
  <2>1. \A l \in checksum.may : l.form = "whole" => l.sha256 = Sha256(image.now)
    BY DEF IInv, Sealed
  <2> QED BY <1>2, <1>6, <2>1 DEF Line
<1>8. Hashed' BY <1>1, <1>2, <1>4, <1>6 DEF Hashed, Owning
<1>9. SealedRun' BY <1>1, <1>2, <1>4 DEF SealedRun, Complete
<1>10. Sealed'
  <2>1. image.now \in image.may /\ manifest.now \in manifest.may
    BY DEF IInv, Sealed
  <2> QED BY <1>1, <1>2, <1>3, <1>4, <1>6, <1>7, <2>1 DEF Sealed, Complete
<1> QED BY <1>8, <1>9, <1>10

(* Writing the manifest: a "verified" one only by a run whose image is     *)
(* sealed.                                                                 *)
LEMMA ManifestSealed ==
  ASSUME IInv, Next, Truncate \/ WriteFinal \/ SyncFinal
  PROVE  Hashed' /\ SealedRun' /\ Sealed'
<1>1. pc \in {"finish", "final", "sync final"} /\ UNCHANGED <<image, checksum>>
  BY DEF Truncate, WriteFinal, SyncFinal, Step
<1>2. /\ image.is = "ours" /\ image.now = run.hashed
      /\ manifest.is = "ours" /\ checksum.is = "ours"
  BY <1>1 DEF IInv, Hashed, Owning
<1>3. \/ pc' \in {"final", "sync final", "finished"} /\ UNCHANGED run
      \/ pc' = "error" /\ manifest' \in {manifest, Write(manifest, Blank("torn"))}
  BY DEF Truncate, WriteFinal, SyncFinal, Step, Exit
<1>4. \/ manifest' \in {manifest, Synced(manifest)}
      \/ manifest' \in {Write(manifest, Blank("torn")), Write(manifest, Blank("empty"))}
      \/ manifest' = Write(manifest, FinalManifest) /\ pc' = "sync final"
  BY DEF Truncate, WriteFinal, SyncFinal, Step
<1> DEFINE Vouched(d) ==
      d.status = "verified" =>
       /\ pc' \in {"ok", "error", "killed", "preflight", "sync final", "finished"}
       /\ manifest.is = "ours" /\ image.is = "ours" /\ Complete
       /\ d.bytes = ExpectedBytes /\ d.sha256 = Sha256(image.now)
       /\ d.expected = Sha256(image.now) /\ d.expected \in Given
<1>5. \A d \in manifest.may : Vouched(d)
  <2>1. CASE pc = "sync final"
    <3>1. pc' \in {"error", "finished"}
      BY <2>1 DEF Truncate, WriteFinal, SyncFinal, Step, Exit
    <3> QED BY <3>1 DEF IInv, Sealed
  <2>2. CASE pc # "sync final"
    <3>1. \A d \in manifest.may : d.status # "verified"
      BY <1>1, <2>2 DEF IInv, Sealed
    <3> QED BY <3>1
  <2> QED BY <2>1, <2>2
<1>6. Vouched(Blank("torn")) /\ Vouched(Blank("empty")) BY DEF Blank
<1>7. pc' = "sync final" => Vouched(FinalManifest)
  <2> SUFFICES ASSUME pc' = "sync final", FinalManifest.status = "verified"
               PROVE  Vouched(FinalManifest)
    OBVIOUS
  <2>1. run.result = "ok" BY DEF FinalManifest, Final
  <2>2. /\ Complete /\ run.expected = Sha256(image.now) /\ run.expected \in Given
    BY <1>1, <2>1 DEF IInv, SealedRun
  <2>3. /\ FinalManifest.bytes = run.bytes /\ FinalManifest.sha256 = Sha256(run.hashed)
        /\ FinalManifest.expected = run.expected
    BY DEF FinalManifest, Final
  <2>4. run.bytes = Len(image.now) BY <1>2 DEF IInv, Counted
  <2> QED BY <1>2, <2>2, <2>3, <2>4 DEF Complete
<1>8. /\ manifest'.is = "ours" /\ manifest'.now \in manifest'.may
      /\ \A d \in manifest'.may : Vouched(d)
  <2> HIDE DEF Vouched
  <2>1. manifest \in Paths(Document) /\ manifest.now \in manifest.may
    BY DEF IInv, TypeOK, Sealed
  <2>2. ASSUME NEW d, manifest' = Write(manifest, d)
        PROVE  /\ manifest'.is = "ours" /\ manifest'.now \in manifest'.may
               /\ manifest'.may = manifest.may \cup {d}
    BY <1>2, <2>1, <2>2 DEF Write, Paths
  <2>3. ASSUME manifest' \in {manifest, Synced(manifest)}
        PROVE  /\ manifest'.is = "ours" /\ manifest'.now \in manifest'.may
               /\ manifest'.may \subseteq manifest.may
    BY <1>2, <2>1, <2>3 DEF Synced, Paths
  <2>4. CASE manifest' \in {manifest, Synced(manifest)}
    BY <1>5, <2>3, <2>4
  <2>5. CASE \/ manifest' = Write(manifest, Blank("torn"))
             \/ manifest' = Write(manifest, Blank("empty"))
             \/ manifest' = Write(manifest, FinalManifest) /\ pc' = "sync final"
    <3>1. PICK d : manifest' = Write(manifest, d) /\ Vouched(d)
      BY <1>6, <1>7, <2>5
    <3> QED BY <1>5, <2>2, <3>1
  <2> QED BY <1>4, <2>4, <2>5
<1>9. Hashed' BY <1>1, <1>2, <1>3, <1>8 DEF Hashed, Owning
<1>10. SealedRun' BY <1>1, <1>3 DEF IInv, SealedRun, Complete
<1>11. Sealed'
  <2>1. /\ image.now \in image.may /\ checksum.now \in checksum.may
        /\ \A l \in checksum.may : l.form = "whole" =>
             /\ Complete /\ l.sha256 = Sha256(image.now) /\ l.sha256 \in Given
    BY DEF IInv, Sealed
  <2>2. pc' \in {"final", "sync final", "finished", "error"} BY <1>3
  <2> QED BY <1>1, <1>2, <1>8, <2>1, <2>2 DEF Sealed, Complete
<1> QED BY <1>9, <1>10, <1>11

(* A power loss keeps a sealed image: it has one content left to keep.     *)
LEMMA PowerLossSealed ==
  ASSUME IInv, Next, PowerLoss
  PROVE  Hashed' /\ SealedRun' /\ Sealed'
<1>1. PICK i \in image.may, d \in manifest.may, l \in checksum.may :
        /\ image' = File(image.is, i) /\ manifest' = File(manifest.is, d)
        /\ checksum' = File(checksum.is, l)
  BY DEF PowerLoss
<1>2. pc' = "killed" BY DEF PowerLoss, Exit
<1>3. /\ image'.is = image.is /\ image'.now = i /\ image'.may = {i}
      /\ manifest'.is = manifest.is /\ manifest'.now = d /\ manifest'.may = {d}
      /\ checksum'.is = checksum.is /\ checksum'.now = l /\ checksum'.may = {l}
  BY <1>1 DEF File
<1>4. Complete => image'.now = image.now /\ Complete'
  BY <1>3 DEF Complete
<1>5. Sealed'
  <2>1. d.status = "verified" =>
          /\ manifest.is = "ours" /\ image.is = "ours" /\ Complete
          /\ d.bytes = ExpectedBytes /\ d.sha256 = Sha256(image.now)
          /\ d.expected = Sha256(image.now) /\ d.expected \in Given
    BY DEF IInv, Sealed
  <2>2. l.form = "whole" =>
          /\ checksum.is = "ours" /\ image.is = "ours" /\ Complete
          /\ l.sha256 = Sha256(image.now) /\ l.sha256 \in Given
    BY DEF IInv, Sealed
  <2> QED BY <1>2, <1>3, <1>4, <2>1, <2>2 DEF Sealed
<1> QED BY <1>2, <1>5 DEF Hashed, SealedRun, Owning

(* Another program's file takes a path that was free: nothing vouches for  *)
(* what was not there.                                                     *)
LEMMA ForeignSealed ==
  ASSUME IInv, Next, ForeignFile
  PROVE  Hashed' /\ SealedRun' /\ Sealed'
<1>1. UNCHANGED <<pc, run>> BY DEF ForeignFile
<1>2. CASE image.is = "absent" /\ image' = File("foreign", <<>>)
           /\ UNCHANGED <<manifest, checksum>>
  <2>1. Unsealed BY <1>2 DEF IInv, Sealed, Unsealed
  <2>2. image'.now \in image'.may BY <1>2 DEF File
  <2>3. Sealed' BY <1>2, <2>1, <2>2, UnsealedIsSealed DEF Unsealed, IInv, Sealed
  <2>4. pc \notin Owning BY <1>2 DEF IInv, Hashed
  <2> QED BY <1>1, <2>3, <2>4 DEF IInv, Hashed, SealedRun, Owning
<1>3. CASE manifest.is = "absent" /\ manifest' = File("foreign", Blank("empty"))
           /\ UNCHANGED <<image, checksum>>
  <2> DEFINE blank == Blank("empty")
  <2>1. blank.status # "verified" BY DEF Blank
  <2>2. manifest' = File("foreign", blank) BY <1>3
  <2> HIDE DEF blank
  <2>3. manifest'.may = {blank} /\ manifest'.now = blank BY <2>2 DEF File
  <2>4. Sealed' BY <1>1, <1>3, <2>1, <2>3 DEF IInv, Sealed, Complete
  <2>5. pc \notin Owning \ {"create manifest"} BY <1>3 DEF IInv, Hashed
  <2> QED BY <1>1, <1>3, <2>4, <2>5 DEF IInv, Hashed, SealedRun, Complete, Owning
<1>4. CASE checksum.is = "absent" /\ checksum' = File("foreign", Line("empty", NoHash))
           /\ UNCHANGED <<image, manifest>>
  <2> DEFINE line == Line("empty", NoHash)
  <2>1. line.form # "whole" BY DEF Line
  <2>2. checksum' = File("foreign", line) BY <1>4
  <2> HIDE DEF line
  <2>3. checksum'.may = {line} /\ checksum'.now = line BY <2>2 DEF File
  <2>4. Sealed' BY <1>1, <1>4, <2>1, <2>3 DEF IInv, Sealed, Complete
  <2>5. pc \notin Owning \ {"create manifest", "create checksum"}
    BY <1>4 DEF IInv, Hashed
  <2> QED BY <1>1, <1>4, <2>4, <2>5 DEF IInv, Hashed, SealedRun, Complete, Owning
<1> QED BY <1>2, <1>3, <1>4 DEF ForeignFile

(* Starting again, with the files of an earlier run still there.           *)
LEMMA StartSealed ==
  ASSUME IInv, Next, Start
  PROVE  Hashed' /\ SealedRun' /\ Sealed'
<1>1. /\ UNCHANGED files /\ pc' = "preflight" /\ run'.hashed = <<>>
      /\ pc \in {"idle", "ok", "error", "killed"}
  BY DEF Start, Ended, NoRun
<1> QED BY <1>1 DEF files, IInv, Hashed, SealedRun, Sealed, Complete, Owning

LEMMA NextSealed ==
  ASSUME IInv, Next
  PROVE  Hashed' /\ SealedRun' /\ Sealed'
<1>1. CASE AuditFinished \/ Kill
  BY <1>1, FilesUntouched DEF AuditFinished, Kill, Exit
<1>2. CASE (\E p \in Peer : Connect(p)) \/ Interrupt
  BY <1>2, NothingWritten DEF Connect, Interrupt
<1> QED
  BY <1>1, <1>2, SetupSealed, WaitingSealed, CopyingSealed, CompareSealed,
     ChecksumSealed, ManifestSealed, PowerLossSealed, ForeignSealed, StartSealed
  DEF Next, Finishing, Environment

LEMMA Invariance == Spec => []IInv
<1>1. Init => IInv
  <2> SUFFICES ASSUME Init PROVE IInv OBVIOUS
  <2>1. TypeOK BY InitType
  <2>2. Counted BY ExpectedIsNat DEF Init, NoRun, Counted
  <2>3. Hashed /\ SealedRun BY DEF Init, Hashed, SealedRun, Owning
  <2>4. /\ image.may = {image.now} /\ manifest.may = {manifest.now}
        /\ checksum.may = {checksum.now}
        /\ manifest.now.status # "verified" /\ checksum.now.form # "whole"
    BY DEF Init, File, Blank, Line
  <2>5. Sealed BY <2>4 DEF Sealed
  <2> QED BY <2>1, <2>2, <2>3, <2>5 DEF IInv
<1>2. IInv /\ [Next]_vars => IInv'
  <2> SUFFICES ASSUME IInv, [Next]_vars PROVE IInv' OBVIOUS
  <2>1. CASE Next
    BY <2>1, NextType, NextCounted, NextSealed DEF IInv
  <2>2. CASE UNCHANGED vars
    BY <2>2, NothingWritten DEF vars, files, IInv, TypeOK, Counted
  <2> QED BY <2>1, <2>2
<1> QED BY <1>1, <1>2, PTL DEF Spec

(* A manifest that says "verified" stands beside an image of exactly the   *)
(* expected size and hash, at every moment, for every size, alphabet, hash *)
(* function, set of peers and bound.                                       *)
THEOREM VerifiedMeansVerified == Spec => []VerifiedIsSound
<1>1. IInv => VerifiedIsSound BY DEF IInv, Sealed, Complete, VerifiedIsSound
<1> QED BY <1>1, Invariance, PTL

(* A checksum line stands beside the image it is true of.                  *)
THEOREM ChecksumMeansTrue == Spec => []ChecksumIsTrue
<1>1. IInv => ChecksumIsTrue BY DEF IInv, Sealed, Complete, ChecksumIsTrue
<1> QED BY <1>1, Invariance, PTL
-----------------------------------------------------------------------------
(* The opening, the sender and the records *)

(* The opening: held by its guard while the socket listens.                *)
Held == {"create image", "create manifest", "create checksum", "started", "pending",
         "sync pending", "unwind", "listen", "wait", "poll", "restore", "close", "drop"}

Listening ==
  /\ sock.open <=> pc \in (Held \ {"drop"}) \cup {"open"}
  /\ fw.guard => pc \in Held
  /\ fw.rule = "ours" /\ ~fw.stuck => fw.guard

Claimed == {"ok", "error", "killed", "preflight", "sync final", "finished"}

(* Nobody is read from who is not allowed to send.                         *)
Accepted ==
  pc \in {"read", "write"} \/ (pc \in {"close", "drop"} /\ run.result = "ok")
    => PeerAllowed(run.peer)

(* Calls between the pending record and the end of the data.               *)
Receiving == {"listen", "wait", "poll", "restore", "close", "drop", "read", "write"}

(* What the manifest may hold, call by call; a record of the end is its    *)
(* digest for good.                                                        *)
Recorded ==
  /\ pc = "sync pending" => manifest.now.form = "pending"
  /\ pc \in Receiving => \A d \in manifest.may : d.form = "pending"
  /\ \A d \in manifest.may : d.form = "final" =>
       manifest.now.form = "final" /\ manifest.is = "ours" /\ pc \in Claimed
  /\ pc \in {"sync final", "finished"} => manifest.now = FinalManifest
  /\ pc = "finished" => manifest.may = {FinalManifest}
  /\ \A i \in DOMAIN log.records : log.records[i].event = "receive_finished" =>
       /\ manifest.may = {log.records[i].doc} /\ manifest.now = log.records[i].doc
       /\ manifest.is = "ours" /\ pc \in {"ok", "error", "killed", "preflight"}

(* What storage may hold of the image is a part of it from the start on.   *)
Begins(a, b) == Len(a) <= Len(b) /\ \A i \in 1..Len(a) : a[i] = b[i]

Foreign(file) == file.is = "foreign" => file.may = {file.now}

Stored ==
  /\ Len(image.now) <= ExpectedBytes
  /\ \A c \in image.may : Begins(c, image.now)
  /\ image.is = "absent" => image.now = <<>>
  /\ Foreign(image) /\ Foreign(manifest) /\ Foreign(checksum)

More == Listening /\ Accepted /\ Recorded /\ Stored
----------------------------------------------------------------------------
LEMMA ExitCloses ==
  ASSUME NEW how, Exit(how)
  PROVE  ~sock'.open /\ pc' = how
BY DEF Exit, NoSocket

(* The opening through every step.                                         *)
LEMMA ListeningStep ==
  ASSUME TypeOK, Listening, [Next]_vars
  PROVE  Listening'
<1>1. CASE Start
  <2>1. /\ pc' = "preflight" /\ UNCHANGED sock /\ pc \in {"idle", "ok", "error", "killed"}
        /\ fw' = [Abandoned EXCEPT !.stuck = FALSE]
    BY <1>1 DEF Start, Ended
  <2>2. fw'.rule # "ours" /\ ~fw'.guard
    <3>1. Abandoned \in Firewalls /\ ~Abandoned.guard /\ Abandoned.rule # "ours"
      BY DEF Abandoned, TypeOK, Firewalls
    <3> HIDE DEF Abandoned
    <3> QED BY <2>1, <3>1 DEF Firewalls
  <2> QED BY <2>1, <2>2 DEF Listening, Held
<1>2. CASE Preflight
  <2>1. UNCHANGED fw /\ pc = "preflight" BY <1>2 DEF Preflight, Step
  <2>2. CASE Exit("error")
    <3>1. ~sock'.open /\ pc' = "error" BY <2>2, ExitCloses
    <3>2. ~fw.guard BY <2>1 DEF Listening, Held
    <3> QED BY <2>1, <3>1, <3>2 DEF Listening, Held
  <2>3. CASE pc = "preflight" /\ pc' = "bind" /\ UNCHANGED sock
    BY <2>1, <2>3 DEF Step, Listening, Held, TypeOK, Sockets
  <2> QED BY <1>2, <2>2, <2>3 DEF Preflight
<1>3. CASE Bind
  <2>1. UNCHANGED fw /\ pc = "bind" BY <1>3 DEF Bind, Step
  <2>2. CASE Exit("error")
    <3>1. ~sock'.open /\ pc' = "error" BY <2>2, ExitCloses
    <3>2. ~fw.guard BY <2>1 DEF Listening, Held
    <3> QED BY <2>1, <3>1, <3>2 DEF Listening, Held
  <2>3. CASE pc = "bind" /\ pc' = "open" /\ sock' = [sock EXCEPT !.open = TRUE]
    BY <2>1, <2>3 DEF Step, Listening, Held, TypeOK, Sockets
  <2> QED BY <1>3, <2>2, <2>3 DEF Bind
<1>4. CASE OpenFor
  BY <1>4 DEF OpenFor, Step, files, NoSocket, Listening, Held, TypeOK, Firewalls, Sockets
<1>5. CASE CreateImage
  BY <1>5 DEF CreateImage, Step, files, NoSocket, Listening, Held, TypeOK, Firewalls,
      Sockets
<1>6. CASE CreateManifest
  BY <1>6 DEF CreateManifest, Step, files, NoSocket, Listening, Held, TypeOK, Firewalls,
      Sockets
<1>7. CASE CreateChecksum
  BY <1>7 DEF CreateChecksum, Step, files, NoSocket, Listening, Held, TypeOK, Firewalls,
      Sockets
<1>8. CASE AuditStarted
  BY <1>8 DEF AuditStarted, Step, files, NoSocket, Listening, Held, TypeOK, Firewalls,
      Sockets
<1>9. CASE WritePending
  BY <1>9 DEF WritePending, Step, files, NoSocket, Listening, Held, TypeOK, Firewalls,
      Sockets
<1>10. CASE SyncPending
  BY <1>10 DEF SyncPending, Step, files, NoSocket, Listening, Held, TypeOK, Firewalls,
      Sockets
<1>11. CASE Unwind
  <2>1. ~sock'.open /\ pc' \in {"error", "read", "finish"} /\ DropGuard
    BY <1>11 DEF Unwind, Exit, NoSocket
  <2>2. ~fw'.guard /\ (fw'.rule = "ours" => fw'.stuck)
    BY <2>1 DEF DropGuard, Listening, TypeOK, Firewalls
  <2> QED BY <2>1, <2>2 DEF Listening, Held
<1>12. CASE InstallHandlers
  BY <1>12 DEF InstallHandlers, Failing, Step, files, NoSocket, Listening, Held, TypeOK,
      Firewalls, Sockets
<1>13. CASE LookAtStop
  BY <1>13 DEF LookAtStop, Failing, Step, files, NoSocket, Listening, Held, TypeOK,
      Firewalls, Sockets
<1>14. CASE Poll
  BY <1>14 DEF Poll, Failing, Step, files, NoSocket, Listening, Held, TypeOK, Firewalls,
      Sockets
<1>15. CASE CheckPeer
  BY <1>15 DEF CheckPeer, Step, files, NoSocket, Listening, Held, TypeOK, Firewalls, Sockets
<1>16. CASE CloseListener \/ CloseOpening
  <2>1. CASE CloseListener
    BY <2>1 DEF CloseListener, Step, NoSocket, Listening, Held
  <2>2. CASE CloseOpening
    <3>1. ~sock'.open /\ pc' \in {"read", "finish"} /\ DropGuard
      BY <2>2 DEF CloseOpening, Step, Listening, Held
    <3>2. ~fw'.guard /\ (fw'.rule = "ours" => fw'.stuck)
      BY <3>1 DEF DropGuard, Listening, TypeOK, Firewalls
    <3> QED BY <3>1, <3>2 DEF Listening, Held
  <2> QED BY <1>16, <2>1, <2>2
<1>17. CASE ReadData
  BY <1>17 DEF ReadData, Step, files, NoSocket, Listening, Held, TypeOK, Firewalls, Sockets
<1>18. CASE ReadFails
  BY <1>18 DEF ReadFails, Failing, Step, files, NoSocket, Listening, Held, TypeOK,
      Firewalls, Sockets
<1>19. CASE WriteImage
  BY <1>19 DEF WriteImage, Failing, Step, files, NoSocket, Listening, Held, TypeOK,
      Firewalls, Sockets
<1>20. CASE SyncImage
  BY <1>20 DEF SyncImage, Failing, Step, files, NoSocket, Listening, Held, TypeOK,
      Firewalls, Sockets
<1>21. CASE AskHash
  BY <1>21 DEF AskHash, Failing, Step, files, NoSocket, Listening, Held, TypeOK, Firewalls,
      Sockets
<1>22. CASE Compare
  BY <1>22 DEF Compare, Failing, Step, files, NoSocket, Listening, Held, TypeOK, Firewalls,
      Sockets
<1>23. CASE WriteChecksum
  <2>1. UNCHANGED fw /\ pc = "checksum" BY <1>23 DEF WriteChecksum, Step
  <2>2. CASE Exit("error")
    <3>1. ~sock'.open /\ pc' = "error" BY <2>2, ExitCloses
    <3>2. ~fw.guard BY <2>1 DEF Listening, Held
    <3> QED BY <2>1, <3>1, <3>2 DEF Listening, Held
  <2>3. CASE Step("checksum", "sync checksum") /\ UNCHANGED sock
    BY <2>1, <2>3 DEF Step, Listening, Held, TypeOK, Sockets
  <2> QED BY <1>23, <2>2, <2>3 DEF WriteChecksum
<1>24. CASE SyncChecksum
  <2>1. UNCHANGED fw /\ pc = "sync checksum" BY <1>24 DEF SyncChecksum, Step
  <2>2. CASE Exit("error")
    <3>1. ~sock'.open /\ pc' = "error" BY <2>2, ExitCloses
    <3>2. ~fw.guard BY <2>1 DEF Listening, Held
    <3> QED BY <2>1, <3>1, <3>2 DEF Listening, Held
  <2>3. CASE Step("sync checksum", "finish") /\ UNCHANGED sock
    BY <2>1, <2>3 DEF Step, Listening, Held, TypeOK, Sockets
  <2> QED BY <1>24, <2>2, <2>3 DEF SyncChecksum
<1>25. CASE Truncate
  <2>1. UNCHANGED fw /\ pc = "finish" BY <1>25 DEF Truncate, Step
  <2>2. CASE Exit("error")
    <3>1. ~sock'.open /\ pc' = "error" BY <2>2, ExitCloses
    <3>2. ~fw.guard BY <2>1 DEF Listening, Held
    <3> QED BY <2>1, <3>1, <3>2 DEF Listening, Held
  <2>3. CASE Step("finish", "final") /\ UNCHANGED sock
    BY <2>1, <2>3 DEF Step, Listening, Held, TypeOK, Sockets
  <2> QED BY <1>25, <2>2, <2>3 DEF Truncate
<1>26. CASE WriteFinal
  <2>1. UNCHANGED fw /\ pc = "final" BY <1>26 DEF WriteFinal, Step
  <2>2. CASE Exit("error")
    <3>1. ~sock'.open /\ pc' = "error" BY <2>2, ExitCloses
    <3>2. ~fw.guard BY <2>1 DEF Listening, Held
    <3> QED BY <2>1, <3>1, <3>2 DEF Listening, Held
  <2>3. CASE Step("final", "sync final") /\ UNCHANGED sock
    BY <2>1, <2>3 DEF Step, Listening, Held, TypeOK, Sockets
  <2> QED BY <1>26, <2>2, <2>3 DEF WriteFinal
<1>27. CASE SyncFinal
  <2>1. UNCHANGED fw /\ pc = "sync final" BY <1>27 DEF SyncFinal, Step
  <2>2. CASE Exit("error")
    <3>1. ~sock'.open /\ pc' = "error" BY <2>2, ExitCloses
    <3>2. ~fw.guard BY <2>1 DEF Listening, Held
    <3> QED BY <2>1, <3>1, <3>2 DEF Listening, Held
  <2>3. CASE Step("sync final", "finished") /\ UNCHANGED sock
    BY <2>1, <2>3 DEF Step, Listening, Held, TypeOK, Sockets
  <2> QED BY <1>27, <2>2, <2>3 DEF SyncFinal
<1>28. CASE AuditFinished
  BY <1>28 DEF AuditFinished, Exit, files, NoSocket, Listening, Held, TypeOK, Firewalls,
      Sockets
<1>29. CASE \E p \in Peer : Connect(p)
  BY <1>29 DEF Connect, files, NoSocket, Listening, Held, TypeOK, Firewalls, Sockets
<1>30. CASE Interrupt
  BY <1>30 DEF Interrupt, files, NoSocket, Listening, Held, TypeOK, Firewalls, Sockets
<1>31. CASE Kill
  BY <1>31 DEF Kill, Ended, Exit, Abandoned, files, NoSocket, Listening, Held, TypeOK,
      Firewalls, Sockets
<1>32. CASE PowerLoss
  BY <1>32 DEF PowerLoss, Exit, files, NoSocket, Listening, Held, TypeOK, Firewalls, Sockets
<1>33. CASE ForeignFile
  BY <1>33 DEF ForeignFile, files, NoSocket, Listening, Held, TypeOK, Firewalls, Sockets
<1>34. CASE UNCHANGED vars
  BY <1>34 DEF vars, files, NoSocket, Listening, Held, TypeOK, Firewalls, Sockets
<1> QED BY <1>1, <1>2, <1>3, <1>4, <1>5, <1>6, <1>7, <1>8, <1>9, <1>10, <1>11, <1>12,
      <1>13, <1>14, <1>15, <1>16, <1>17, <1>18, <1>19, <1>20, <1>21, <1>22, <1>23,
      <1>24, <1>25, <1>26, <1>27, <1>28, <1>29, <1>30, <1>31, <1>32, <1>33, <1>34
    DEF Next, Setup, Waiting, Copying, Finishing, Environment

(* The sender through every step.                                          *)
LEMMA AcceptedStep ==
  ASSUME TypeOK, Accepted, [Next]_vars
  PROVE  Accepted'
<1>0. run \in Options BY DEF TypeOK
<1>1. CASE Start
  BY <1>1, <1>0 DEF Start, Ended, Abandoned, Options, Accepted
<1>2. CASE Preflight
  BY <1>2, <1>0 DEF Preflight, Exit, Options, Accepted
<1>3. CASE Bind
  BY <1>3, <1>0 DEF Bind, Exit, Options, Accepted
<1>4. CASE OpenFor
  BY <1>4, <1>0 DEF OpenFor, Step, Options, Accepted
<1>5. CASE CreateImage
  BY <1>5, <1>0 DEF CreateImage, Step, Options, Accepted
<1>6. CASE CreateManifest
  BY <1>6, <1>0 DEF CreateManifest, Step, Options, Accepted
<1>7. CASE CreateChecksum
  BY <1>7, <1>0 DEF CreateChecksum, Step, Options, Accepted
<1>8. CASE AuditStarted
  BY <1>8, <1>0 DEF AuditStarted, Step, Options, Accepted
<1>9. CASE WritePending
  BY <1>9, <1>0 DEF WritePending, Step, Options, Accepted
<1>10. CASE SyncPending
  BY <1>10, <1>0 DEF SyncPending, Step, Options, Accepted
<1>11. CASE Unwind
  BY <1>11, <1>0 DEF Unwind, DropGuard, Exit, Options, Accepted
<1>12. CASE InstallHandlers
  BY <1>12, <1>0 DEF InstallHandlers, Failing, Step, Options, Accepted
<1>13. CASE LookAtStop
  BY <1>13, <1>0 DEF LookAtStop, Failing, Step, Options, Accepted
<1>14. CASE Poll
  BY <1>14, <1>0 DEF Poll, Failing, Step, Options, Accepted
<1>15. CASE CheckPeer
  BY <1>15, <1>0 DEF CheckPeer, Step, Options, Accepted
<1>16. CASE CloseListener \/ CloseOpening
  BY <1>16, <1>0 DEF CloseListener, CloseOpening, DropGuard, Step, Options, Accepted
<1>17. CASE ReadData
  BY <1>17, <1>0 DEF ReadData, Step, Options, Accepted
<1>18. CASE ReadFails
  BY <1>18, <1>0 DEF ReadFails, Failing, Step, Options, Accepted
<1>19. CASE WriteImage
  BY <1>19, <1>0 DEF WriteImage, Failing, Step, Options, Accepted
<1>20. CASE SyncImage
  BY <1>20, <1>0 DEF SyncImage, Failing, Step, Options, Accepted
<1>21. CASE AskHash
  BY <1>21, <1>0 DEF AskHash, Failing, Step, Options, Accepted
<1>22. CASE Compare
  BY <1>22, <1>0 DEF Compare, Failing, Step, Options, Accepted
<1>23. CASE WriteChecksum
  BY <1>23, <1>0 DEF WriteChecksum, Step, Exit, Options, Accepted
<1>24. CASE SyncChecksum
  BY <1>24, <1>0 DEF SyncChecksum, Step, Exit, Options, Accepted
<1>25. CASE Truncate
  BY <1>25, <1>0 DEF Truncate, Step, Exit, Options, Accepted
<1>26. CASE WriteFinal
  BY <1>26, <1>0 DEF WriteFinal, Step, Exit, Options, Accepted
<1>27. CASE SyncFinal
  BY <1>27, <1>0 DEF SyncFinal, Step, Exit, Options, Accepted
<1>28. CASE AuditFinished
  BY <1>28, <1>0 DEF AuditFinished, Exit, Options, Accepted
<1>29. CASE \E p \in Peer : Connect(p)
  BY <1>29, <1>0 DEF Connect, Options, Accepted
<1>30. CASE Interrupt
  BY <1>30, <1>0 DEF Interrupt, Options, Accepted
<1>31. CASE Kill
  BY <1>31, <1>0 DEF Kill, Ended, Exit, Abandoned, Options, Accepted
<1>32. CASE PowerLoss
  BY <1>32, <1>0 DEF PowerLoss, Exit, Options, Accepted
<1>33. CASE ForeignFile
  BY <1>33, <1>0 DEF ForeignFile, Options, Accepted
<1>34. CASE UNCHANGED vars
  BY <1>34, <1>0 DEF vars, Options, Accepted
<1> QED BY <1>1, <1>2, <1>3, <1>4, <1>5, <1>6, <1>7, <1>8, <1>9, <1>10, <1>11, <1>12,
      <1>13, <1>14, <1>15, <1>16, <1>17, <1>18, <1>19, <1>20, <1>21, <1>22, <1>23,
      <1>24, <1>25, <1>26, <1>27, <1>28, <1>29, <1>30, <1>31, <1>32, <1>33, <1>34
    DEF Next, Setup, Waiting, Copying, Finishing, Environment

Finished(i) == log.records[i].event = "receive_finished"

LEMMA RecordedKept ==
  ASSUME Recorded, UNCHANGED <<manifest, log>>,
         pc' = "sync pending" => pc = "sync pending",
         pc' \in Receiving => pc \in Receiving,
         pc \in Claimed => pc' \in Claimed,
         pc \in {"ok", "error", "killed", "preflight"} =>
           pc' \in {"ok", "error", "killed", "preflight"},
         pc' \in {"sync final", "finished"} => pc' = pc /\ UNCHANGED run
  PROVE  Recorded'
BY DEF Recorded, FinalManifest, Final

(* A power loss leaves the manifest one of the contents it may have had.   *)
LEMMA LossSettles ==
  ASSUME Recorded, NEW d \in manifest.may, pc' = "killed", UNCHANGED log,
         manifest'.is = manifest.is, manifest'.now = d, manifest'.may = {d}
  PROVE  Recorded'
<1>1. d.form = "final" => manifest.is = "ours" BY DEF Recorded
<1>2. ASSUME NEW i \in DOMAIN log.records, log.records[i].event = "receive_finished"
      PROVE  manifest.is = "ours" /\ d = log.records[i].doc
  BY <1>2 DEF Recorded
<1>3. \A c \in manifest'.may : c = d OBVIOUS
<1>4. /\ pc' \notin Receiving /\ pc' \in Claimed
      /\ pc' \notin {"sync pending", "sync final", "finished"}
  BY DEF Receiving, Claimed
<1> QED BY <1>1, <1>2, <1>3, <1>4 DEF Recorded

(* No final manifest, and no record of one, from the start of a run until  *)
(* it is written.                                                          *)
LEMMA NoFinalYet ==
  ASSUME Recorded, pc \notin Claimed
  PROVE  /\ \A d \in manifest.may : d.form # "final"
         /\ \A i \in DOMAIN log.records : ~Finished(i)
BY DEF Recorded, Claimed, Finished

LEMMA StillNoFinal ==
  ASSUME \A d \in manifest'.may : d.form # "final",
         \A i \in DOMAIN log.records : ~Finished(i), UNCHANGED log,
         pc' \notin {"sync final", "finished"},
         pc' = "sync pending" => manifest'.now.form = "pending",
         pc' \in Receiving => \A d \in manifest'.may : d.form = "pending"
  PROVE  Recorded'
BY DEF Recorded, Finished

LEMMA StoreFields ==
  ASSUME NEW C, NEW f \in Paths(C), NEW c
  PROVE  /\ Write(f, c).is = f.is /\ Write(f, c).now = c /\ Write(f, c).may = f.may \cup {c}
         /\ Synced(f).is = f.is /\ Synced(f).now = f.now /\ Synced(f).may = {f.now}
BY DEF Write, Synced, Paths

LEMMA FileFields ==
  ASSUME NEW o, NEW c
  PROVE  File(o, c).is = o /\ File(o, c).now = c /\ File(o, c).may = {c}
BY DEF File

LEMMA Forms ==
  /\ \A f : Blank(f).form = f
  /\ PendingManifest.form = "pending" /\ FinalManifest.form = "final"
BY DEF Blank, PendingManifest, FinalManifest, Final

LEMMA LogGrows ==
  ASSUME TypeOK, NEW e, NEW d, Record(e, d),
         [run |-> runs, event |-> e, doc |-> d] \in LogRecord
  PROVE  \A i \in DOMAIN log'.records :
           \/ i \in DOMAIN log.records /\ log'.records[i] = log.records[i]
           \/ log'.records[i].event = e /\ log'.records[i].doc = d
<1> DEFINE r == [run |-> runs, event |-> e, doc |-> d]
<1>0. r.event = e /\ r.doc = d /\ r \in LogRecord OBVIOUS
<1>1. \/ log' = [log EXCEPT !.records = Append(@, r)]
      \/ log' = [log EXCEPT !.lost = TRUE]
  BY Zenon DEF Record
<1> HIDE DEF r
<1>2. log.records \in Seq(LogRecord) BY DEF TypeOK, Logs
<1>3. log'.records = log.records \/ log'.records = Append(log.records, r)
  BY <1>1 DEF TypeOK, Logs
<1>4. \A i \in DOMAIN Append(log.records, r) :
        \/ i \in DOMAIN log.records /\ Append(log.records, r)[i] = log.records[i]
        \/ Append(log.records, r)[i] = r
  BY <1>0, <1>2
<1> QED BY <1>0, <1>3, <1>4

(* The manifest and its record in the audit log through every step.        *)
LEMMA RecordedStep ==
  ASSUME IInv, Recorded, [Next]_vars
  PROVE  Recorded'
<1> USE DEF IInv
<1>1. CASE Start
  <2>1. /\ UNCHANGED manifest /\ pc' = "preflight"
        /\ pc \in {"idle", "ok", "error", "killed"}
        /\ \E b \in BOOLEAN : log' = [log EXCEPT !.lost = b]
    BY <1>1 DEF Start, Ended, files
  <2>2. log'.records = log.records BY <2>1 DEF IInv, TypeOK, Logs
  <2> QED BY <2>1, <2>2 DEF Recorded, Receiving, Claimed
<1>2. CASE Preflight
  <2>1. UNCHANGED <<manifest, log>> /\ pc = "preflight" BY <1>2 DEF Preflight, files
  <2>2. CASE Exit("error")
    <3>1. pc' = "error" BY <2>2, ExitCloses
    <3> QED BY <2>1, <3>1, RecordedKept DEF Claimed, Receiving
  <2>3. CASE pc' = "bind" /\ manifest.is = "absent"
    <3>1. \A d \in manifest.may : d.form # "final" BY <2>3 DEF Recorded
    <3>2. \A i \in DOMAIN log.records : ~Finished(i) BY <2>3 DEF Recorded, Finished
    <3> QED BY <2>1, <2>3, <3>1, <3>2, StillNoFinal DEF Receiving
  <2> QED BY <1>2, <2>2, <2>3 DEF Preflight
<1>3. CASE Bind
  <2>1. UNCHANGED <<manifest, log>>
    BY <1>3 DEF Bind, files
  <2> QED
    BY <1>3, <2>1, RecordedKept DEF Bind, Exit, Claimed, Receiving
<1>4. CASE OpenFor
  <2>1. UNCHANGED <<manifest, log>>
    BY <1>4 DEF OpenFor, files
  <2> QED
    BY <1>4, <2>1, RecordedKept DEF OpenFor, Step, Claimed, Receiving
<1>5. CASE CreateImage
  <2>1. UNCHANGED <<manifest, log>>
    BY <1>5 DEF CreateImage, files
  <2> QED
    BY <1>5, <2>1, RecordedKept DEF CreateImage, Step, Claimed, Receiving
<1>6. CASE CreateManifest
  <2>1. pc = "create manifest" /\ pc' \in {"create checksum", "unwind"} /\ UNCHANGED log
    BY <1>6 DEF CreateManifest, Step
  <2>2. /\ \A d \in manifest.may : d.form # "final"
        /\ \A i \in DOMAIN log.records : ~Finished(i)
    BY <2>1, NoFinalYet DEF Claimed
  <2>3. manifest' = File("ours", Blank("empty")) \/ manifest' = manifest
    BY <1>6 DEF CreateManifest
  <2>4. \A d \in manifest'.may : d.form # "final"
    BY <2>2, <2>3, FileFields, Forms
  <2> QED BY <2>1, <2>2, <2>4, StillNoFinal DEF Receiving
<1>7. CASE CreateChecksum
  <2>1. UNCHANGED <<manifest, log>>
    BY <1>7 DEF CreateChecksum, files
  <2> QED
    BY <1>7, <2>1, RecordedKept DEF CreateChecksum, Step, Claimed, Receiving
<1>8. CASE AuditStarted
  <2>1. /\ pc = "started" /\ pc' = "pending" /\ UNCHANGED manifest
        /\ Record("receive_started", Blank("empty"))
    BY <1>8 DEF AuditStarted, Step, files
  <2>2. /\ \A d \in manifest.may : d.form # "final"
        /\ \A i \in DOMAIN log.records : ~Finished(i)
    BY <2>1, NoFinalYet DEF Claimed
  <2>3. Blank("empty") \in Document BY BlankTypes
  <2> DEFINE blank == Blank("empty")
  <2>4. [run |-> runs, event |-> "receive_started", doc |-> blank] \in LogRecord
    <3>1. blank \in Document BY <2>3
    <3> HIDE DEF blank
    <3> QED BY <3>1 DEF LogRecord, TypeOK
  <2>5. \A i \in DOMAIN log'.records :
           \/ i \in DOMAIN log.records /\ log'.records[i] = log.records[i]
           \/ log'.records[i].event = "receive_started" /\ log'.records[i].doc = blank
    BY <2>1, <2>4, LogGrows
  <2>6. \A i \in DOMAIN log'.records : log'.records[i].event # "receive_finished"
    BY <2>2, <2>5 DEF Finished
  <2> QED BY <2>1, <2>2, <2>6 DEF Recorded, Receiving
<1>9. CASE WritePending
  <2>1. /\ pc = "pending" /\ UNCHANGED log
        /\ \/ pc' = "sync pending" /\ manifest' = Write(manifest, PendingManifest)
           \/ pc' = "unwind" /\ manifest' \in {manifest, Write(manifest, Blank("torn"))}
    BY <1>9 DEF WritePending, Step
  <2>2. /\ \A d \in manifest.may : d.form # "final"
        /\ \A i \in DOMAIN log.records : ~Finished(i)
    BY <2>1, NoFinalYet DEF Claimed
  <2>3. manifest \in Paths(Document) BY DEF TypeOK
  <2>4. /\ \A d \in manifest'.may : d.form # "final"
        /\ pc' = "sync pending" => manifest'.now.form = "pending"
    <3>1. CASE manifest' = manifest /\ pc' = "unwind" BY <2>2, <3>1
    <3>2. CASE manifest' = Write(manifest, Blank("torn")) /\ pc' = "unwind"
      BY <2>2, <2>3, <3>2, StoreFields, Forms
    <3>3. CASE manifest' = Write(manifest, PendingManifest)
      <4> DEFINE doc == PendingManifest
      <4>1. doc.form = "pending" BY Forms
      <4> HIDE DEF doc
      <4>2. manifest'.now = doc /\ manifest'.may = manifest.may \cup {doc}
        BY <2>3, <3>3, StoreFields DEF doc
      <4> QED BY <2>2, <4>1, <4>2
    <3> QED BY <2>1, <3>1, <3>2, <3>3
  <2> QED BY <2>1, <2>2, <2>4, StillNoFinal DEF Receiving
<1>10. CASE SyncPending
  <2>1. /\ pc = "sync pending" /\ UNCHANGED log
        /\ \/ pc' = "listen" /\ manifest' = Synced(manifest)
           \/ pc' = "unwind" /\ manifest' = manifest
    BY <1>10 DEF SyncPending, Step
  <2>2. /\ \A d \in manifest.may : d.form # "final"
        /\ \A i \in DOMAIN log.records : ~Finished(i)
    BY <2>1, NoFinalYet DEF Claimed
  <2>3. manifest \in Paths(Document) /\ manifest.now.form = "pending"
    BY <2>1 DEF TypeOK, Recorded
  <2>4. /\ \A d \in manifest'.may : d.form # "final"
        /\ pc' = "listen" => \A d \in manifest'.may : d.form = "pending"
    <3>1. CASE manifest' = manifest /\ pc' = "unwind" BY <2>2, <3>1
    <3>2. CASE manifest' = Synced(manifest)
      <4>1. manifest'.may = {manifest.now} BY <2>3, <3>2, StoreFields
      <4> QED BY <2>3, <4>1
    <3> QED BY <2>1, <3>1, <3>2
  <2> QED BY <2>1, <2>2, <2>4, StillNoFinal DEF Receiving
<1>11. CASE Unwind
  <2>1. UNCHANGED <<manifest, log>>
    BY <1>11 DEF Unwind, files
  <2> QED
    BY <1>11, <2>1, RecordedKept DEF Unwind, DropGuard, Exit, Claimed, Receiving
<1>12. CASE InstallHandlers
  <2>1. UNCHANGED <<manifest, log>>
    BY <1>12 DEF InstallHandlers, files
  <2> QED
    BY <1>12, <2>1, RecordedKept DEF InstallHandlers, Failing, Step, Claimed, Receiving
<1>13. CASE LookAtStop
  <2>1. UNCHANGED <<manifest, log>>
    BY <1>13 DEF LookAtStop, files
  <2> QED
    BY <1>13, <2>1, RecordedKept DEF LookAtStop, Failing, Step, Claimed, Receiving
<1>14. CASE Poll
  <2>1. UNCHANGED <<manifest, log>>
    BY <1>14 DEF Poll, files
  <2> QED
    BY <1>14, <2>1, RecordedKept DEF Poll, Failing, Step, Claimed, Receiving
<1>15. CASE CheckPeer
  <2>1. UNCHANGED <<manifest, log>>
    BY <1>15 DEF CheckPeer, files
  <2> QED
    BY <1>15, <2>1, RecordedKept DEF CheckPeer, Step, Claimed, Receiving
<1>16. CASE CloseListener \/ CloseOpening
  <2>1. UNCHANGED <<manifest, log>>
    BY <1>16 DEF CloseListener, CloseOpening, files
  <2> QED
    BY <1>16, <2>1, RecordedKept
    DEF CloseListener, CloseOpening, DropGuard, Step, Claimed, Receiving
<1>17. CASE ReadData
  <2>1. UNCHANGED <<manifest, log>>
    BY <1>17 DEF ReadData, files
  <2> QED
    BY <1>17, <2>1, RecordedKept DEF ReadData, Step, Claimed, Receiving
<1>18. CASE ReadFails
  <2>1. UNCHANGED <<manifest, log>>
    BY <1>18 DEF ReadFails, files
  <2> QED
    BY <1>18, <2>1, RecordedKept DEF ReadFails, Failing, Step, Claimed, Receiving
<1>19. CASE WriteImage
  <2>1. UNCHANGED <<manifest, log>>
    BY <1>19 DEF WriteImage, files
  <2> QED
    BY <1>19, <2>1, RecordedKept DEF WriteImage, Failing, Step, Claimed, Receiving
<1>20. CASE SyncImage
  <2>1. UNCHANGED <<manifest, log>>
    BY <1>20 DEF SyncImage, files
  <2> QED
    BY <1>20, <2>1, RecordedKept DEF SyncImage, Failing, Step, Claimed, Receiving
<1>21. CASE AskHash
  <2>1. UNCHANGED <<manifest, log>>
    BY <1>21 DEF AskHash, files
  <2> QED
    BY <1>21, <2>1, RecordedKept DEF AskHash, Failing, Step, Claimed, Receiving
<1>22. CASE Compare
  <2>1. UNCHANGED <<manifest, log>>
    BY <1>22 DEF Compare, files
  <2> QED
    BY <1>22, <2>1, RecordedKept DEF Compare, Failing, Step, Claimed, Receiving
<1>23. CASE WriteChecksum
  <2>1. UNCHANGED <<manifest, log>>
    BY <1>23 DEF WriteChecksum, files
  <2> QED
    BY <1>23, <2>1, RecordedKept DEF WriteChecksum, Step, Exit, Claimed, Receiving
<1>24. CASE SyncChecksum
  <2>1. UNCHANGED <<manifest, log>>
    BY <1>24 DEF SyncChecksum, files
  <2> QED
    BY <1>24, <2>1, RecordedKept DEF SyncChecksum, Step, Exit, Claimed, Receiving
<1>25. CASE Truncate
  <2>1. /\ pc = "finish" /\ UNCHANGED log
        /\ \/ pc' = "final" /\ manifest' = Write(manifest, Blank("empty"))
           \/ pc' = "error" /\ manifest' = manifest
    BY <1>25, ExitCloses DEF Truncate, Step
  <2>2. /\ \A d \in manifest.may : d.form # "final"
        /\ \A i \in DOMAIN log.records : ~Finished(i)
    BY <2>1, NoFinalYet DEF Claimed
  <2>3. manifest \in Paths(Document) BY DEF TypeOK
  <2>4. \A d \in manifest'.may : d.form # "final"
    BY <2>1, <2>2, <2>3, StoreFields, Forms
  <2> QED BY <2>1, <2>2, <2>4, StillNoFinal DEF Receiving
<1>26. CASE WriteFinal
  <2>1. /\ pc = "final" /\ UNCHANGED log
        /\ \/ /\ pc' = "sync final" /\ UNCHANGED run
              /\ manifest' = Write(manifest, FinalManifest)
           \/ pc' = "error" /\ manifest' \in {manifest, Write(manifest, Blank("torn"))}
    BY <1>26, ExitCloses DEF WriteFinal, Step
  <2>2. /\ \A d \in manifest.may : d.form # "final"
        /\ \A i \in DOMAIN log.records : ~Finished(i)
    BY <2>1, NoFinalYet DEF Claimed
  <2>3. manifest \in Paths(Document) /\ manifest.is = "ours"
    BY <2>1 DEF IInv, TypeOK, Hashed, Owning
  <2>4. CASE pc' = "error"
    <3>1. \A d \in manifest'.may : d.form # "final"
      BY <2>1, <2>2, <2>3, <2>4, StoreFields, Forms
    <3> QED BY <2>1, <2>2, <2>4, <3>1, StillNoFinal DEF Receiving
  <2>5. CASE /\ pc' = "sync final" /\ manifest' = Write(manifest, FinalManifest)
             /\ UNCHANGED run
    <3> DEFINE doc == FinalManifest
    <3>0. manifest' = Write(manifest, doc) BY <2>5
    <3> HIDE DEF doc
    <3>9. /\ manifest'.now = doc /\ manifest'.is = "ours"
          /\ manifest'.may = manifest.may \cup {doc}
      BY <2>3, <3>0, StoreFields
    <3>1. manifest'.now = FinalManifest /\ manifest'.is = "ours" BY <3>9 DEF doc
    <3>2. FinalManifest' = FinalManifest BY <2>5 DEF FinalManifest, Final
    <3>3. \A i \in DOMAIN log'.records : log'.records[i].event # "receive_finished"
      BY <2>1, <2>2 DEF Finished
    <3>4. FinalManifest.form = "final" BY Forms
    <3> QED BY <2>5, <3>1, <3>2, <3>3, <3>4 DEF Recorded, Receiving, Claimed
  <2> QED BY <2>1, <2>4, <2>5
<1>27. CASE SyncFinal
  <2>1. /\ pc = "sync final" /\ UNCHANGED log
        /\ \/ pc' = "finished" /\ manifest' = Synced(manifest) /\ UNCHANGED run
           \/ pc' = "error" /\ manifest' = manifest
    BY <1>27, ExitCloses DEF SyncFinal, Step
  <2>2. manifest \in Paths(Document) /\ manifest.is = "ours" /\ manifest.now = FinalManifest
    BY <2>1 DEF IInv, TypeOK, Hashed, Owning, Recorded
  <2>3. CASE pc' = "error" /\ manifest' = manifest
    BY <2>1, <2>3, RecordedKept DEF Claimed, Receiving
  <2>4. CASE pc' = "finished" /\ manifest' = Synced(manifest) /\ UNCHANGED run
    <3>1. /\ manifest'.now = FinalManifest /\ manifest'.is = "ours"
          /\ manifest'.may = {FinalManifest}
      BY <2>2, <2>4, StoreFields
    <3>2. FinalManifest' = FinalManifest BY <2>4 DEF FinalManifest, Final
    <3>3. \A i \in DOMAIN log'.records : log'.records[i].event # "receive_finished"
      BY <2>1 DEF Recorded
    <3>4. FinalManifest.form = "final" BY Forms
    <3> QED BY <2>4, <3>1, <3>2, <3>3, <3>4 DEF Recorded, Receiving, Claimed
  <2> QED BY <2>1, <2>3, <2>4
<1>28. CASE AuditFinished
  <2>1. /\ pc = "finished" /\ pc' \in {"ok", "error"} /\ UNCHANGED manifest
        /\ Record("receive_finished", FinalManifest)
    BY <1>28, ExitCloses DEF AuditFinished, files
  <2>2. /\ manifest.is = "ours" /\ manifest.now = FinalManifest
        /\ manifest.may = {FinalManifest}
    BY <2>1 DEF IInv, Hashed, Owning, Recorded
  <2> DEFINE doc == FinalManifest
  <2>3. [run |-> runs, event |-> "receive_finished", doc |-> doc] \in LogRecord
    <3>1. doc \in Document BY DocumentTypes DEF IInv
    <3> HIDE DEF doc
    <3> QED BY <3>1 DEF LogRecord, IInv, TypeOK
  <2>4. \A i \in DOMAIN log'.records :
           \/ i \in DOMAIN log.records /\ log'.records[i] = log.records[i]
           \/ log'.records[i].event = "receive_finished" /\ log'.records[i].doc = doc
    BY <2>1, <2>3, LogGrows DEF IInv
  <2>5. \A i \in DOMAIN log.records : ~Finished(i) BY <2>1 DEF Recorded, Finished
  <2>6. \A i \in DOMAIN log'.records : log'.records[i].event = "receive_finished" =>
          log'.records[i].doc = doc
    BY <2>4, <2>5 DEF Finished
  <2>7. doc.form = "final" BY Forms
  <2> HIDE DEF doc
  <2>8. manifest.now = doc /\ manifest.may = {doc} BY <2>2 DEF doc
  <2> QED BY <2>1, <2>2, <2>6, <2>7, <2>8 DEF Recorded, Receiving, Claimed
<1>29. CASE \E p \in Peer : Connect(p)
  <2>1. UNCHANGED <<manifest, log>>
    BY <1>29 DEF Connect, files
  <2> QED
    BY <1>29, <2>1, RecordedKept DEF Connect, Claimed, Receiving
<1>30. CASE Interrupt
  <2>1. UNCHANGED <<manifest, log>>
    BY <1>30 DEF Interrupt, files
  <2> QED
    BY <1>30, <2>1, RecordedKept DEF Interrupt, Claimed, Receiving
<1>31. CASE Kill
  <2>1. UNCHANGED <<manifest, log>>
    BY <1>31 DEF Kill, files
  <2> QED
    BY <1>31, <2>1, RecordedKept DEF Kill, Ended, Exit, Abandoned, Claimed, Receiving
<1>32. CASE PowerLoss
  <2>1. pc' = "killed" /\ UNCHANGED log BY <1>32, ExitCloses DEF PowerLoss
  <2>2. PICK d \in manifest.may : manifest' = File(manifest.is, d) BY <1>32 DEF PowerLoss
  <2>3. manifest'.is = manifest.is /\ manifest'.now = d /\ manifest'.may = {d}
    BY <2>2, FileFields
  <2> QED BY <2>1, <2>3, LossSettles
<1>33. CASE ForeignFile
  <2>1. UNCHANGED <<pc, run, log>> BY <1>33 DEF ForeignFile
  <2>2. CASE UNCHANGED manifest BY <2>1, <2>2, RecordedKept
  <2>3. CASE manifest.is = "absent" /\ manifest' = File("foreign", Blank("empty"))
    <3>1. \A i \in DOMAIN log.records : ~Finished(i) BY <2>3 DEF Recorded, Finished
    <3>2. \A d \in manifest'.may : d.form # "final" BY <2>3, FileFields, Forms
    <3>3. pc \notin Owning \ {"create manifest"} BY <2>3 DEF IInv, Hashed
    <3> QED BY <2>1, <3>1, <3>2, <3>3, StillNoFinal DEF Owning, Receiving
  <2> QED BY <1>33, <2>2, <2>3 DEF ForeignFile
<1>34. CASE UNCHANGED vars
  <2>1. UNCHANGED <<manifest, log>>
    BY <1>34 DEF vars, files
  <2> QED
    BY <1>34, <2>1, RecordedKept DEF vars, Claimed, Receiving
<1> QED BY <1>1, <1>2, <1>3, <1>4, <1>5, <1>6, <1>7, <1>8, <1>9, <1>10, <1>11, <1>12,
      <1>13, <1>14, <1>15, <1>16, <1>17, <1>18, <1>19, <1>20, <1>21, <1>22, <1>23,
      <1>24, <1>25, <1>26, <1>27, <1>28, <1>29, <1>30, <1>31, <1>32, <1>33, <1>34
    DEF Next, Setup, Waiting, Copying, Finishing, Environment

LEMMA BeginsItself ==
  /\ \A b \in Seq(Byte) : Begins(b, b)
  /\ Begins(<<>>, <<>>) /\ Len(<<>>) = 0
BY DEF Begins

LEMMA BeginsLonger ==
  ASSUME NEW a \in Seq(Byte), NEW b \in Seq(Byte), NEW t \in Seq(Byte), Begins(a, b)
  PROVE  Begins(a, b \o t)
BY DEF Begins

LEMMA BeginsShort ==
  ASSUME NEW a \in Seq(Byte), Begins(a, <<>>)
  PROVE  a = <<>>
BY DEF Begins

LEMMA StoredKept ==
  ASSUME Stored, UNCHANGED image,
         UNCHANGED manifest \/ manifest'.is # "foreign" \/ manifest'.may = {manifest'.now},
         UNCHANGED checksum \/ checksum'.is # "foreign" \/ checksum'.may = {checksum'.now}
  PROVE  Stored'
BY DEF Stored, Foreign

LEMMA FileForeign ==
  ASSUME NEW o, NEW c PROVE Foreign(File(o, c))
BY FileFields DEF Foreign

(* What storage may hold through every step.                               *)
LEMMA StoredStep ==
  ASSUME IInv, IInv', Stored, [Next]_vars
  PROVE  Stored'
<1> USE DEF IInv
<1>1. CASE Start
  BY <1>1, StoredKept DEF Start, files
<1>2. CASE Preflight
  BY <1>2, StoredKept DEF Preflight, files
<1>3. CASE Bind
  BY <1>3, StoredKept DEF Bind, files
<1>4. CASE OpenFor
  BY <1>4, StoredKept DEF OpenFor, files
<1>5. CASE CreateImage
  <2>1. UNCHANGED <<manifest, checksum>> BY <1>5 DEF CreateImage
  <2>2. CASE UNCHANGED image BY <2>1, <2>2, StoredKept
  <2>3. CASE image' = File("ours", <<>>)
    <3>1. image'.now = <<>> /\ image'.may = {<<>>} /\ image'.is = "ours" BY <2>3, FileFields
    <3>2. Len(image'.now) <= ExpectedBytes BY <3>1, ExpectedIsNat
    <3> QED BY <2>1, <3>1, <3>2, BeginsItself DEF Stored, Foreign
  <2> QED BY <1>5, <2>2, <2>3 DEF CreateImage
<1>6. CASE CreateManifest
  <2>1. UNCHANGED <<image, checksum>> BY <1>6 DEF CreateManifest
  <2>2. UNCHANGED manifest \/ manifest'.is # "foreign"
    <3>1. manifest' = manifest \/ \E c : manifest' = File("ours", c)
      BY <1>6 DEF CreateManifest
    <3> QED BY <3>1, FileFields
  <2> QED BY <2>1, <2>2, StoredKept
<1>7. CASE CreateChecksum
  <2>1. UNCHANGED <<image, manifest>> BY <1>7 DEF CreateChecksum
  <2>2. UNCHANGED checksum \/ checksum'.is # "foreign"
    <3>1. checksum' = checksum \/ \E c : checksum' = File("ours", c)
      BY <1>7 DEF CreateChecksum
    <3> QED BY <3>1, FileFields
  <2> QED BY <2>1, <2>2, StoredKept
<1>8. CASE AuditStarted
  BY <1>8, StoredKept DEF AuditStarted, files
<1>9. CASE WritePending
  <2>1. UNCHANGED <<image, checksum>> /\ pc \in Owning \ {"create manifest"}
    BY <1>9 DEF WritePending, Step, Owning
  <2>2. manifest.is = "ours" /\ manifest \in Paths(Document) BY <2>1 DEF Hashed, TypeOK
  <2>3. manifest' = manifest \/ manifest' = Synced(manifest)
        \/ \E d : manifest' = Write(manifest, d)
    BY <1>9 DEF WritePending
  <2>4. manifest'.is = "ours" BY <2>2, <2>3, StoreFields
  <2> QED BY <2>1, <2>4, StoredKept
<1>10. CASE SyncPending
  <2>1. UNCHANGED <<image, checksum>> /\ pc \in Owning \ {"create manifest"}
    BY <1>10 DEF SyncPending, Step, Owning
  <2>2. manifest.is = "ours" /\ manifest \in Paths(Document) BY <2>1 DEF Hashed, TypeOK
  <2>3. manifest' = manifest \/ manifest' = Synced(manifest)
        \/ \E d : manifest' = Write(manifest, d)
    BY <1>10 DEF SyncPending
  <2>4. manifest'.is = "ours" BY <2>2, <2>3, StoreFields
  <2> QED BY <2>1, <2>4, StoredKept
<1>11. CASE Unwind
  BY <1>11, StoredKept DEF Unwind, files
<1>12. CASE InstallHandlers
  BY <1>12, StoredKept DEF InstallHandlers, files
<1>13. CASE LookAtStop
  BY <1>13, StoredKept DEF LookAtStop, files
<1>14. CASE Poll
  BY <1>14, StoredKept DEF Poll, files
<1>15. CASE CheckPeer
  BY <1>15, StoredKept DEF CheckPeer, files
<1>16. CASE CloseListener \/ CloseOpening
  BY <1>16, StoredKept DEF CloseListener, CloseOpening, files
<1>17. CASE ReadData
  BY <1>17, StoredKept DEF ReadData, files
<1>18. CASE ReadFails
  BY <1>18, StoredKept DEF ReadFails, files
<1>19. CASE WriteImage
  <2>1. /\ UNCHANGED <<manifest, checksum>> /\ pc = "write"
        /\ pc' \in {"read", "write", "finish"}
    BY <1>19 DEF WriteImage, Failing, Step
  <2>2. image.is = "ours" /\ image \in Paths(Seq(Byte)) /\ image.now \in Seq(Byte)
    BY <2>1 DEF Hashed, TypeOK, Owning, Paths
  <2>3. CASE UNCHANGED image BY <2>1, <2>3, StoredKept
  <2>4. CASE \E n \in 1..Len(run.buf) :
               image' = Write(image, image.now \o SubSeq(run.buf, 1, n))
    <3>1. PICK n \in 1..Len(run.buf) :
                 image' = Write(image, image.now \o SubSeq(run.buf, 1, n))
      BY <2>4
    <3> DEFINE t == SubSeq(run.buf, 1, n)
    <3>2. t \in Seq(Byte) BY TakeAndRest DEF TypeOK, Options
    <3> HIDE DEF t
    <3>3. image' = Write(image, image.now \o t) BY <3>1 DEF t
    <3>4. /\ image'.is = "ours" /\ image'.now = image.now \o t
          /\ image'.may = image.may \cup {image'.now}
      <4> DEFINE c == image.now \o t
      <4>1. image' = Write(image, c) BY <3>3
      <4> HIDE DEF c
      <4>2. image'.is = "ours" /\ image'.now = c /\ image'.may = image.may \cup {c}
        BY <2>2, <4>1, StoreFields
      <4> QED BY <4>2 DEF c
    <3>5. \A c \in image.may : c \in Seq(Byte) BY <2>2 DEF Paths
    <3>6. \A c \in image.may : Begins(c, image.now \o t)
      BY <2>2, <3>2, <3>5, BeginsLonger DEF Stored
    <3>7. Begins(image'.now, image'.now) BY <2>2, <3>2, <3>4, ConcatLength, BeginsItself
    <3>8. image'.now = run'.hashed /\ run'.bytes = Len(run'.hashed)
      BY <2>1 DEF Hashed, Owning, Counted
    <3>9. Len(image'.now) <= ExpectedBytes
      <4>1. run'.bytes \in Nat /\ run'.buf \in Seq(Byte) BY DEF TypeOK, Options
      <4>2. run'.bytes + Len(run'.buf) <= ExpectedBytes BY DEF Counted
      <4>3. Len(run'.buf) \in Nat BY <4>1
      <4>4. run'.bytes <= ExpectedBytes BY <4>1, <4>2, <4>3, ExpectedIsNat
      <4>5. Len(image'.now) = run'.bytes BY <3>8
      <4> QED BY <4>4, <4>5
    <3> QED BY <2>1, <3>4, <3>6, <3>7, <3>9 DEF Stored, Foreign
  <2> QED BY <1>19, <2>3, <2>4 DEF WriteImage
<1>20. CASE SyncImage
  <2>1. /\ UNCHANGED <<manifest, checksum>> /\ pc = "sync image"
        /\ image' = image \/ image' = Synced(image)
    BY <1>20 DEF SyncImage, Failing, Step
  <2>2. image.is = "ours" /\ image \in Paths(Seq(Byte)) /\ image.now \in Seq(Byte)
    BY <2>1 DEF Hashed, TypeOK, Owning, Paths
  <2>3. CASE UNCHANGED image BY <2>1, <2>3, StoredKept
  <2>4. CASE image' = Synced(image)
    <3>1. image'.is = "ours" /\ image'.now = image.now /\ image'.may = {image.now}
      BY <2>2, <2>4, StoreFields
    <3> QED BY <2>1, <2>2, <3>1, BeginsItself DEF Stored, Foreign
  <2> QED BY <2>1, <2>3, <2>4
<1>21. CASE AskHash
  BY <1>21, StoredKept DEF AskHash, files
<1>22. CASE Compare
  BY <1>22, StoredKept DEF Compare, files
<1>23. CASE WriteChecksum
  <2>1. UNCHANGED <<image, manifest>> /\ pc \in {"checksum", "sync checksum"}
    BY <1>23 DEF WriteChecksum, Step
  <2>2. checksum.is = "ours" /\ checksum \in Paths(Checksum)
    BY <2>1 DEF Hashed, TypeOK, Owning
  <2>3. checksum' = checksum \/ checksum' = Synced(checksum)
        \/ \E d : checksum' = Write(checksum, d)
    BY <1>23 DEF WriteChecksum
  <2>4. checksum'.is = "ours" BY <2>2, <2>3, StoreFields
  <2> QED BY <2>1, <2>4, StoredKept
<1>24. CASE SyncChecksum
  <2>1. UNCHANGED <<image, manifest>> /\ pc \in {"checksum", "sync checksum"}
    BY <1>24 DEF SyncChecksum, Step
  <2>2. checksum.is = "ours" /\ checksum \in Paths(Checksum)
    BY <2>1 DEF Hashed, TypeOK, Owning
  <2>3. checksum' = checksum \/ checksum' = Synced(checksum)
        \/ \E d : checksum' = Write(checksum, d)
    BY <1>24 DEF SyncChecksum
  <2>4. checksum'.is = "ours" BY <2>2, <2>3, StoreFields
  <2> QED BY <2>1, <2>4, StoredKept
<1>25. CASE Truncate
  <2>1. UNCHANGED <<image, checksum>> /\ pc \in Owning \ {"create manifest"}
    BY <1>25 DEF Truncate, Step, Owning
  <2>2. manifest.is = "ours" /\ manifest \in Paths(Document) BY <2>1 DEF Hashed, TypeOK
  <2>3. manifest' = manifest \/ manifest' = Synced(manifest)
        \/ \E d : manifest' = Write(manifest, d)
    BY <1>25 DEF Truncate
  <2>4. manifest'.is = "ours" BY <2>2, <2>3, StoreFields
  <2> QED BY <2>1, <2>4, StoredKept
<1>26. CASE WriteFinal
  <2>1. UNCHANGED <<image, checksum>> /\ pc \in Owning \ {"create manifest"}
    BY <1>26 DEF WriteFinal, Step, Owning
  <2>2. manifest.is = "ours" /\ manifest \in Paths(Document) BY <2>1 DEF Hashed, TypeOK
  <2>3. manifest' = manifest \/ manifest' = Synced(manifest)
        \/ \E d : manifest' = Write(manifest, d)
    BY <1>26 DEF WriteFinal
  <2>4. manifest'.is = "ours" BY <2>2, <2>3, StoreFields
  <2> QED BY <2>1, <2>4, StoredKept
<1>27. CASE SyncFinal
  <2>1. UNCHANGED <<image, checksum>> /\ pc \in Owning \ {"create manifest"}
    BY <1>27 DEF SyncFinal, Step, Owning
  <2>2. manifest.is = "ours" /\ manifest \in Paths(Document) BY <2>1 DEF Hashed, TypeOK
  <2>3. manifest' = manifest \/ manifest' = Synced(manifest)
        \/ \E d : manifest' = Write(manifest, d)
    BY <1>27 DEF SyncFinal
  <2>4. manifest'.is = "ours" BY <2>2, <2>3, StoreFields
  <2> QED BY <2>1, <2>4, StoredKept
<1>28. CASE AuditFinished
  BY <1>28, StoredKept DEF AuditFinished, files
<1>29. CASE \E p \in Peer : Connect(p)
  BY <1>29, StoredKept DEF Connect, files
<1>30. CASE Interrupt
  BY <1>30, StoredKept DEF Interrupt, files
<1>31. CASE Kill
  BY <1>31, StoredKept DEF Kill, files
<1>32. CASE PowerLoss
  <2>1. PICK c \in image.may : image' = File(image.is, c) BY <1>32 DEF PowerLoss
  <2>2. c \in Seq(Byte) /\ image.now \in Seq(Byte) /\ Begins(c, image.now)
    BY DEF TypeOK, Paths, Stored
  <2>3. image'.is = image.is /\ image'.now = c /\ image'.may = {c} BY <2>1, FileFields
  <2>4. Foreign(image') /\ Foreign(manifest') /\ Foreign(checksum')
    BY <1>32, FileForeign DEF PowerLoss
  <2>5. Len(c) <= ExpectedBytes
    <3>1. Len(c) <= Len(image.now) /\ Len(image.now) <= ExpectedBytes
      BY <2>2 DEF Begins, Stored
    <3>2. Len(c) \in Nat /\ Len(image.now) \in Nat BY <2>2
    <3> QED BY <3>1, <3>2, ExpectedIsNat
  <2>6. image.is = "absent" => c = <<>> BY <2>2, BeginsShort DEF Stored
  <2> QED BY <2>2, <2>3, <2>4, <2>5, <2>6, BeginsItself DEF Stored, Foreign
<1>33. CASE ForeignFile
  <2>1. CASE image' = File("foreign", <<>>) /\ UNCHANGED <<manifest, checksum>>
    <3>1. image'.now = <<>> /\ image'.may = {<<>>} BY <2>1, FileFields
    <3>2. Len(image'.now) <= ExpectedBytes BY <3>1, ExpectedIsNat
    <3> QED BY <2>1, <3>1, <3>2, BeginsItself DEF Stored, Foreign
  <2>2. CASE manifest' = File("foreign", Blank("empty")) /\ UNCHANGED <<image, checksum>>
    <3>1. manifest'.may = {manifest'.now} BY <2>2, FileFields
    <3> QED BY <2>2, <3>1, StoredKept
  <2>3. CASE checksum' = File("foreign", Line("empty", NoHash))
             /\ UNCHANGED <<image, manifest>>
    <3>1. checksum'.may = {checksum'.now} BY <2>3, FileFields
    <3> QED BY <2>3, <3>1, StoredKept
  <2> QED BY <1>33, <2>1, <2>2, <2>3 DEF ForeignFile
<1>34. CASE UNCHANGED vars
  BY <1>34, StoredKept DEF vars, files
<1> QED BY <1>1, <1>2, <1>3, <1>4, <1>5, <1>6, <1>7, <1>8, <1>9, <1>10, <1>11, <1>12,
      <1>13, <1>14, <1>15, <1>16, <1>17, <1>18, <1>19, <1>20, <1>21, <1>22, <1>23,
      <1>24, <1>25, <1>26, <1>27, <1>28, <1>29, <1>30, <1>31, <1>32, <1>33, <1>34
    DEF Next, Setup, Waiting, Copying, Finishing, Environment

LEMMA StoredInvariance == Spec => []More
<1>1. Init => More
  <2> SUFFICES ASSUME Init PROVE More OBVIOUS
  <2>1. Listening BY DEF Init, NoSocket, Listening, Held
  <2>2. Accepted BY DEF Init, Accepted
  <2>3. /\ manifest.may = {Blank("empty")} /\ pc = "idle" /\ log.records = <<>>
        /\ image.now = <<>> /\ image.may = {<<>>} /\ image.is = "absent"
    BY FileFields DEF Init
  <2>4. Recorded
    <3>1. DOMAIN log.records = {} BY <2>3
    <3>2. \A d \in manifest.may : d.form # "final" BY <2>3, Forms
    <3> QED BY <2>3, <3>1, <3>2 DEF Recorded, Receiving
  <2>5. Stored
    <3>1. Len(image.now) <= ExpectedBytes BY <2>3, ExpectedIsNat
    <3>2. Foreign(image) /\ Foreign(manifest) /\ Foreign(checksum)
      BY FileForeign DEF Init
    <3> QED BY <2>3, <3>1, <3>2, BeginsItself DEF Stored
  <2> QED BY <2>1, <2>2, <2>4, <2>5 DEF More
<1>2. More /\ IInv /\ IInv' /\ [Next]_vars => More'
  BY ListeningStep, AcceptedStep, RecordedStep, StoredStep DEF More, IInv
<1> QED BY <1>1, <1>2, Invariance, PTL DEF Spec

(* The opening always has the guard that will remove it, and outlives the  *)
(* socket by the one drop that follows: so on every way out but SIGKILL,   *)
(* unless iptables fails (receive.rs 277-278, Guard in listen.rs).         *)
THEOREM OpeningGone == Spec => []OpeningOnlyWhileListening
<1>1. More => OpeningOnlyWhileListening
  BY DEF More, Listening, OpeningOnlyWhileListening
<1> QED BY <1>1, StoredInvariance, PTL

(* The digest in a receive_finished record is that of the manifest, for    *)
(* good: after a restart and after a power loss.                           *)
THEOREM AuditIsTrue == Spec => []AuditMatchesManifest
<1>1. More => AuditMatchesManifest BY DEF More, Recorded, AuditMatchesManifest
<1> QED BY <1>1, StoredInvariance, PTL

(* Where a run has ended, a final manifest is one that was there before.   *)
LEMMA FinalStays ==
  ASSUME IInv, More, [Next]_vars, pc' \in {"ok", "error", "killed", "preflight"},
         manifest'.now.form = "final"
  PROVE  manifest.now.form = "final"
<1>1. CASE Start
  BY <1>1 DEF Start, files
<1>2. CASE Preflight
  BY <1>2 DEF Preflight, files
<1>3. CASE Bind
  BY <1>3 DEF Bind, files
<1>4. CASE OpenFor
  BY <1>4 DEF OpenFor, files
<1>5. CASE CreateImage
  BY <1>5 DEF CreateImage, files
<1>6. CASE CreateManifest
  BY <1>6 DEF CreateManifest, Step
<1>7. CASE CreateChecksum
  BY <1>7 DEF CreateChecksum, files
<1>8. CASE AuditStarted
  BY <1>8 DEF AuditStarted, files
<1>9. CASE WritePending
  BY <1>9 DEF WritePending, Step
<1>10. CASE SyncPending
  BY <1>10 DEF SyncPending, Step
<1>11. CASE Unwind
  BY <1>11 DEF Unwind, files
<1>12. CASE InstallHandlers
  BY <1>12 DEF InstallHandlers, files
<1>13. CASE LookAtStop
  BY <1>13 DEF LookAtStop, files
<1>14. CASE Poll
  BY <1>14 DEF Poll, files
<1>15. CASE CheckPeer
  BY <1>15 DEF CheckPeer, files
<1>16. CASE CloseListener \/ CloseOpening
  BY <1>16 DEF CloseListener, CloseOpening, files
<1>17. CASE ReadData
  BY <1>17 DEF ReadData, files
<1>18. CASE ReadFails
  BY <1>18 DEF ReadFails, files
<1>19. CASE WriteImage
  BY <1>19 DEF WriteImage, files
<1>20. CASE SyncImage
  BY <1>20 DEF SyncImage, files
<1>21. CASE AskHash
  BY <1>21 DEF AskHash, files
<1>22. CASE Compare
  BY <1>22 DEF Compare, files
<1>23. CASE WriteChecksum
  BY <1>23 DEF WriteChecksum, files
<1>24. CASE SyncChecksum
  BY <1>24 DEF SyncChecksum, files
<1>25. CASE Truncate
  <2>1. \/ pc' = "final"
        \/ manifest' = manifest \/ manifest' = Write(manifest, Blank("empty"))
    BY <1>25 DEF Truncate, Step
  <2>2. manifest \in Paths(Document) BY DEF IInv, TypeOK
  <2>3. manifest' = Write(manifest, Blank("empty")) => manifest'.now.form # "final"
    BY <2>2, StoreFields, Forms
  <2> QED BY <2>1, <2>3
<1>26. CASE WriteFinal
  <2>1. \/ pc' = "sync final"
        \/ manifest' = manifest \/ manifest' = Write(manifest, Blank("torn"))
    BY <1>26 DEF WriteFinal, Step
  <2>2. manifest \in Paths(Document) BY DEF IInv, TypeOK
  <2>3. manifest' = Write(manifest, Blank("torn")) => manifest'.now.form # "final"
    BY <2>2, StoreFields, Forms
  <2> QED BY <2>1, <2>3
<1>27. CASE SyncFinal
  BY <1>27 DEF SyncFinal, Step
<1>28. CASE AuditFinished
  BY <1>28 DEF AuditFinished, files
<1>29. CASE \E p \in Peer : Connect(p)
  BY <1>29 DEF Connect, files
<1>30. CASE Interrupt
  BY <1>30 DEF Interrupt, files
<1>31. CASE Kill
  BY <1>31 DEF Kill, files
<1>32. CASE PowerLoss
  <2>1. PICK d \in manifest.may : manifest' = File(manifest.is, d) BY <1>32 DEF PowerLoss
  <2>2. manifest'.now = d BY <2>1, FileFields
  <2> QED BY <2>2 DEF More, Recorded
<1>33. CASE ForeignFile
  <2>1. manifest' = manifest \/ manifest' = File("foreign", Blank("empty"))
    BY <1>33 DEF ForeignFile
  <2>2. manifest' = File("foreign", Blank("empty")) => manifest'.now.form # "final"
    BY FileFields, Forms
  <2> QED BY <2>1, <2>2
<1>34. CASE UNCHANGED vars
  BY <1>34 DEF vars, files
<1> QED BY <1>1, <1>2, <1>3, <1>4, <1>5, <1>6, <1>7, <1>8, <1>9, <1>10, <1>11, <1>12,
      <1>13, <1>14, <1>15, <1>16, <1>17, <1>18, <1>19, <1>20, <1>21, <1>22, <1>23,
      <1>24, <1>25, <1>26, <1>27, <1>28, <1>29, <1>30, <1>31, <1>32, <1>33, <1>34
    DEF Next, Setup, Waiting, Copying, Finishing, Environment

(* The final manifest counts and hashes exactly what the image holds, also *)
(* after a failed transfer (copy_stream counts what was written).          *)
THEOREM ManifestIsTrue == Spec => ManifestDescribesImage
<1> DEFINE Described == /\ manifest'.now.bytes = Len(image'.now)
                        /\ manifest'.now.sha256 = Sha256(image'.now)
<1>1. ASSUME IInv, IInv', More, More', [Next]_vars,
             manifest'.now.form = "final", manifest.now.form # "final"
      PROVE  Described
  <2>1. manifest'.now \in manifest'.may BY <1>1 DEF IInv, Sealed
  <2>2. pc' \in {"sync final", "finished"}
    <3>1. pc' \in Claimed BY <1>1, <2>1 DEF More, Recorded
    <3>2. pc' \notin {"ok", "error", "killed", "preflight"} BY <1>1, FinalStays
    <3> QED BY <3>1, <3>2 DEF Claimed
  <2>3. manifest'.now = FinalManifest' BY <1>1, <2>2 DEF More, Recorded
  <2>4. /\ image'.now = run'.hashed /\ run'.bytes = Len(run'.hashed)
    BY <1>1, <2>2 DEF IInv, Hashed, Counted, Owning
  <2>5. manifest'.now.bytes = run'.bytes /\ manifest'.now.sha256 = Sha256(run'.hashed)
    BY <2>3 DEF FinalManifest, Final
  <2> QED BY <2>4, <2>5
<1>2. IInv /\ IInv' /\ More /\ More' /\ [Next]_vars
      => [manifest'.now.form = "final" /\ manifest.now.form # "final" => Described]_vars
  BY <1>1
<1> QED BY <1>2, Invariance, StoredInvariance, PTL DEF Spec, ManifestDescribesImage

(* Only copying makes an image longer.                                     *)
LEMMA OnlyCopying ==
  ASSUME IInv, More, [Next]_vars
  PROVE  Len(image'.now) > Len(image.now) => WriteImage /\ pc = "write"
<1>0. image.now \in Seq(Byte) /\ Len(image.now) \in Nat BY DEF IInv, TypeOK, Paths
<1>a. ~ (UNCHANGED image /\ Len(image'.now) > Len(image.now)) BY <1>0
<1>1. CASE Start
  <2>1. UNCHANGED image BY <1>1 DEF Start, files
  <2> QED BY <1>a, <2>1
<1>2. CASE Preflight
  <2>1. UNCHANGED image BY <1>2 DEF Preflight, files
  <2> QED BY <1>a, <2>1
<1>3. CASE Bind
  <2>1. UNCHANGED image BY <1>3 DEF Bind, files
  <2> QED BY <1>a, <2>1
<1>4. CASE OpenFor
  <2>1. UNCHANGED image BY <1>4 DEF OpenFor, files
  <2> QED BY <1>a, <2>1
<1>5. CASE CreateImage
  <2>1. image' = image \/ image' = File("ours", <<>>) BY <1>5 DEF CreateImage
  <2>2. image' = File("ours", <<>>) => image'.now = <<>> /\ Len(<<>>) = 0
    BY FileFields
  <2> QED BY <1>0, <2>1, <2>2
<1>6. CASE CreateManifest
  <2>1. UNCHANGED image BY <1>6 DEF CreateManifest, files
  <2> QED BY <1>a, <2>1
<1>7. CASE CreateChecksum
  <2>1. UNCHANGED image BY <1>7 DEF CreateChecksum, files
  <2> QED BY <1>a, <2>1
<1>8. CASE AuditStarted
  <2>1. UNCHANGED image BY <1>8 DEF AuditStarted, files
  <2> QED BY <1>a, <2>1
<1>9. CASE WritePending
  <2>1. UNCHANGED image BY <1>9 DEF WritePending, files
  <2> QED BY <1>a, <2>1
<1>10. CASE SyncPending
  <2>1. UNCHANGED image BY <1>10 DEF SyncPending, files
  <2> QED BY <1>a, <2>1
<1>11. CASE Unwind
  <2>1. UNCHANGED image BY <1>11 DEF Unwind, files
  <2> QED BY <1>a, <2>1
<1>12. CASE InstallHandlers
  <2>1. UNCHANGED image BY <1>12 DEF InstallHandlers, files
  <2> QED BY <1>a, <2>1
<1>13. CASE LookAtStop
  <2>1. UNCHANGED image BY <1>13 DEF LookAtStop, files
  <2> QED BY <1>a, <2>1
<1>14. CASE Poll
  <2>1. UNCHANGED image BY <1>14 DEF Poll, files
  <2> QED BY <1>a, <2>1
<1>15. CASE CheckPeer
  <2>1. UNCHANGED image BY <1>15 DEF CheckPeer, files
  <2> QED BY <1>a, <2>1
<1>16. CASE CloseListener \/ CloseOpening
  <2>1. UNCHANGED image BY <1>16 DEF CloseListener, CloseOpening, files
  <2> QED BY <1>a, <2>1
<1>17. CASE ReadData
  <2>1. UNCHANGED image BY <1>17 DEF ReadData, files
  <2> QED BY <1>a, <2>1
<1>18. CASE ReadFails
  <2>1. UNCHANGED image BY <1>18 DEF ReadFails, files
  <2> QED BY <1>a, <2>1
<1>19. CASE WriteImage
  BY <1>19 DEF WriteImage, Failing, Step
<1>20. CASE SyncImage
  <2>1. image' = image \/ image' = Synced(image) BY <1>20 DEF SyncImage
  <2>2. image'.now = image.now BY <2>1, StoreFields DEF IInv, TypeOK
  <2> QED BY <1>0, <2>2
<1>21. CASE AskHash
  <2>1. UNCHANGED image BY <1>21 DEF AskHash, files
  <2> QED BY <1>a, <2>1
<1>22. CASE Compare
  <2>1. UNCHANGED image BY <1>22 DEF Compare, files
  <2> QED BY <1>a, <2>1
<1>23. CASE WriteChecksum
  <2>1. UNCHANGED image BY <1>23 DEF WriteChecksum, files
  <2> QED BY <1>a, <2>1
<1>24. CASE SyncChecksum
  <2>1. UNCHANGED image BY <1>24 DEF SyncChecksum, files
  <2> QED BY <1>a, <2>1
<1>25. CASE Truncate
  <2>1. UNCHANGED image BY <1>25 DEF Truncate, files
  <2> QED BY <1>a, <2>1
<1>26. CASE WriteFinal
  <2>1. UNCHANGED image BY <1>26 DEF WriteFinal, files
  <2> QED BY <1>a, <2>1
<1>27. CASE SyncFinal
  <2>1. UNCHANGED image BY <1>27 DEF SyncFinal, files
  <2> QED BY <1>a, <2>1
<1>28. CASE AuditFinished
  <2>1. UNCHANGED image BY <1>28 DEF AuditFinished, files
  <2> QED BY <1>a, <2>1
<1>29. CASE \E p \in Peer : Connect(p)
  <2>1. UNCHANGED image BY <1>29 DEF Connect, files
  <2> QED BY <1>a, <2>1
<1>30. CASE Interrupt
  <2>1. UNCHANGED image BY <1>30 DEF Interrupt, files
  <2> QED BY <1>a, <2>1
<1>31. CASE Kill
  <2>1. UNCHANGED image BY <1>31 DEF Kill, files
  <2> QED BY <1>a, <2>1
<1>32. CASE PowerLoss
  <2>1. PICK c \in image.may : image' = File(image.is, c) BY <1>32 DEF PowerLoss
  <2>2. image'.now = c /\ Begins(c, image.now) BY <2>1, FileFields DEF More, Stored
  <2>3. Len(c) <= Len(image.now) /\ Len(c) \in Nat
    BY <1>0, <2>2 DEF Begins, IInv, TypeOK, Paths
  <2> QED BY <1>0, <2>2, <2>3
<1>33. CASE ForeignFile
  <2>1. image' = image \/ image' = File("foreign", <<>>) BY <1>33 DEF ForeignFile
  <2>2. image' = File("foreign", <<>>) => image'.now = <<>> /\ Len(<<>>) = 0
    BY FileFields
  <2> QED BY <1>0, <2>1, <2>2
<1>34. CASE UNCHANGED vars
  <2>1. UNCHANGED image BY <1>34 DEF vars, files
  <2> QED BY <1>a, <2>1
<1> QED BY <1>1, <1>2, <1>3, <1>4, <1>5, <1>6, <1>7, <1>8, <1>9, <1>10, <1>11, <1>12,
      <1>13, <1>14, <1>15, <1>16, <1>17, <1>18, <1>19, <1>20, <1>21, <1>22, <1>23,
      <1>24, <1>25, <1>26, <1>27, <1>28, <1>29, <1>30, <1>31, <1>32, <1>33, <1>34
    DEF Next, Setup, Waiting, Copying, Finishing, Environment

(* What another program has made is left alone.                            *)
LEMMA ForeignUntouched ==
  ASSUME IInv, More, [Next]_vars
  PROVE  /\ image.is = "foreign" => UNCHANGED image
         /\ manifest.is = "foreign" => UNCHANGED manifest
         /\ checksum.is = "foreign" => UNCHANGED checksum
<1>1. CASE Start
  BY <1>1 DEF Start, files
<1>2. CASE Preflight
  BY <1>2 DEF Preflight, files
<1>3. CASE Bind
  BY <1>3 DEF Bind, files
<1>4. CASE OpenFor
  BY <1>4 DEF OpenFor, files
<1>5. CASE CreateImage
  <2>1. UNCHANGED <<manifest, checksum>> BY <1>5 DEF CreateImage
  <2>2. UNCHANGED image \/ image.is = "absent" BY <1>5 DEF CreateImage
  <2> QED BY <2>1, <2>2
<1>6. CASE CreateManifest
  <2>1. UNCHANGED <<image, checksum>> BY <1>6 DEF CreateManifest
  <2>2. UNCHANGED manifest \/ manifest.is = "absent" BY <1>6 DEF CreateManifest
  <2> QED BY <2>1, <2>2
<1>7. CASE CreateChecksum
  <2>1. UNCHANGED <<image, manifest>> BY <1>7 DEF CreateChecksum
  <2>2. UNCHANGED checksum \/ checksum.is = "absent" BY <1>7 DEF CreateChecksum
  <2> QED BY <2>1, <2>2
<1>8. CASE AuditStarted
  BY <1>8 DEF AuditStarted, files
<1>9. CASE WritePending
  <2>1. UNCHANGED <<image, checksum>> BY <1>9 DEF WritePending
  <2>2. manifest.is = "ours" BY <1>9 DEF WritePending, Failing, Step, IInv, Hashed, Owning
  <2> QED BY <2>1, <2>2
<1>10. CASE SyncPending
  <2>1. UNCHANGED <<image, checksum>> BY <1>10 DEF SyncPending
  <2>2. manifest.is = "ours" BY <1>10 DEF SyncPending, Failing, Step, IInv, Hashed, Owning
  <2> QED BY <2>1, <2>2
<1>11. CASE Unwind
  BY <1>11 DEF Unwind, files
<1>12. CASE InstallHandlers
  BY <1>12 DEF InstallHandlers, files
<1>13. CASE LookAtStop
  BY <1>13 DEF LookAtStop, files
<1>14. CASE Poll
  BY <1>14 DEF Poll, files
<1>15. CASE CheckPeer
  BY <1>15 DEF CheckPeer, files
<1>16. CASE CloseListener \/ CloseOpening
  BY <1>16 DEF CloseListener, CloseOpening, files
<1>17. CASE ReadData
  BY <1>17 DEF ReadData, files
<1>18. CASE ReadFails
  BY <1>18 DEF ReadFails, files
<1>19. CASE WriteImage
  <2>1. UNCHANGED <<manifest, checksum>> BY <1>19 DEF WriteImage
  <2>2. image.is = "ours" BY <1>19 DEF WriteImage, Failing, Step, IInv, Hashed, Owning
  <2> QED BY <2>1, <2>2
<1>20. CASE SyncImage
  <2>1. UNCHANGED <<manifest, checksum>> BY <1>20 DEF SyncImage
  <2>2. image.is = "ours" BY <1>20 DEF SyncImage, Failing, Step, IInv, Hashed, Owning
  <2> QED BY <2>1, <2>2
<1>21. CASE AskHash
  BY <1>21 DEF AskHash, files
<1>22. CASE Compare
  BY <1>22 DEF Compare, files
<1>23. CASE WriteChecksum
  <2>1. UNCHANGED <<image, manifest>> BY <1>23 DEF WriteChecksum
  <2>2. checksum.is = "ours" BY <1>23 DEF WriteChecksum, Failing, Step, IInv, Hashed, Owning
  <2> QED BY <2>1, <2>2
<1>24. CASE SyncChecksum
  <2>1. UNCHANGED <<image, manifest>> BY <1>24 DEF SyncChecksum
  <2>2. checksum.is = "ours" BY <1>24 DEF SyncChecksum, Failing, Step, IInv, Hashed, Owning
  <2> QED BY <2>1, <2>2
<1>25. CASE Truncate
  <2>1. UNCHANGED <<image, checksum>> BY <1>25 DEF Truncate
  <2>2. manifest.is = "ours" BY <1>25 DEF Truncate, Failing, Step, IInv, Hashed, Owning
  <2> QED BY <2>1, <2>2
<1>26. CASE WriteFinal
  <2>1. UNCHANGED <<image, checksum>> BY <1>26 DEF WriteFinal
  <2>2. manifest.is = "ours" BY <1>26 DEF WriteFinal, Failing, Step, IInv, Hashed, Owning
  <2> QED BY <2>1, <2>2
<1>27. CASE SyncFinal
  <2>1. UNCHANGED <<image, checksum>> BY <1>27 DEF SyncFinal
  <2>2. manifest.is = "ours" BY <1>27 DEF SyncFinal, Failing, Step, IInv, Hashed, Owning
  <2> QED BY <2>1, <2>2
<1>28. CASE AuditFinished
  BY <1>28 DEF AuditFinished, files
<1>29. CASE \E p \in Peer : Connect(p)
  BY <1>29 DEF Connect, files
<1>30. CASE Interrupt
  BY <1>30 DEF Interrupt, files
<1>31. CASE Kill
  BY <1>31 DEF Kill, files
<1>32. CASE PowerLoss
  <2>1. ASSUME NEW C, NEW f \in Paths(C), NEW g, NEW c \in f.may, Foreign(f),
               f.is = "foreign", g = File(f.is, c)
        PROVE  g = f
    <3>1. c = f.now /\ f.may = {c} BY <2>1 DEF Foreign
    <3> QED BY <2>1, <3>1 DEF File, Paths
  <2>2. /\ Foreign(image) /\ Foreign(manifest) /\ Foreign(checksum)
        /\ image \in Paths(Seq(Byte)) /\ manifest \in Paths(Document)
        /\ checksum \in Paths(Checksum)
    BY DEF More, Stored, IInv, TypeOK
  <2>3. /\ \E c \in image.may : image' = File(image.is, c)
        /\ \E c \in manifest.may : manifest' = File(manifest.is, c)
        /\ \E c \in checksum.may : checksum' = File(checksum.is, c)
    BY <1>32 DEF PowerLoss
  <2>4. image.is = "foreign" => UNCHANGED image BY <2>1, <2>2, <2>3
  <2>5. manifest.is = "foreign" => UNCHANGED manifest BY <2>1, <2>2, <2>3
  <2>6. checksum.is = "foreign" => UNCHANGED checksum BY <2>1, <2>2, <2>3
  <2> QED BY <2>4, <2>5, <2>6
<1>33. CASE ForeignFile
  BY <1>33 DEF ForeignFile
<1>34. CASE UNCHANGED vars
  BY <1>34 DEF vars, files
<1> QED BY <1>1, <1>2, <1>3, <1>4, <1>5, <1>6, <1>7, <1>8, <1>9, <1>10, <1>11, <1>12,
      <1>13, <1>14, <1>15, <1>16, <1>17, <1>18, <1>19, <1>20, <1>21, <1>22, <1>23,
      <1>24, <1>25, <1>26, <1>27, <1>28, <1>29, <1>30, <1>31, <1>32, <1>33, <1>34
    DEF Next, Setup, Waiting, Copying, Finishing, Environment

(* Data comes from one allowed sender, after socket and opening are gone   *)
(* and with nothing but the pending record on storage; and no file of      *)
(* another program is ever changed.                                        *)
THEOREM WritesExclusive == Spec => ExclusiveWrites
<1> DEFINE Exclusive ==
      /\ Len(image'.now) > Len(image.now) =>
           /\ PeerAllowed(run.peer) /\ run'.peer = run.peer
           /\ ~sock.open /\ ~fw.guard
           /\ \A d \in manifest.may : d.form = "pending"
      /\ image.is = "foreign" => UNCHANGED image
      /\ manifest.is = "foreign" => UNCHANGED manifest
      /\ checksum.is = "foreign" => UNCHANGED checksum
<1>1. ASSUME IInv, More, [Next]_vars PROVE Exclusive
  <2>1. ASSUME Len(image'.now) > Len(image.now)
        PROVE  /\ PeerAllowed(run.peer) /\ run'.peer = run.peer
               /\ ~sock.open /\ ~fw.guard
               /\ \A d \in manifest.may : d.form = "pending"
    <3>1. WriteImage /\ pc = "write" BY <1>1, <2>1, OnlyCopying
    <3>2. run'.peer = run.peer
      BY <1>1, <3>1 DEF WriteImage, Failing, IInv, TypeOK, Options
    <3>3. ~sock.open /\ ~fw.guard BY <1>1, <3>1 DEF More, Listening, Held
    <3>4. PeerAllowed(run.peer) BY <1>1, <3>1 DEF More, Accepted
    <3>5. \A d \in manifest.may : d.form = "pending"
      BY <1>1, <3>1 DEF More, Recorded, Receiving
    <3> QED BY <3>2, <3>3, <3>4, <3>5
  <2> QED BY <1>1, <2>1, ForeignUntouched
<1>2. IInv /\ More /\ [Next]_vars => [Exclusive]_vars BY <1>1
<1> QED BY <1>2, Invariance, StoredInvariance, PTL DEF Spec, ExclusiveWrites

----------------------------------------------------------------------------
(* The acquisition *)

LEMMA BeginsIsPrefix ==
  ASSUME NEW a \in Seq(Byte), NEW b \in Seq(Byte), Begins(a, b)
  PROVE  Acq!IsPrefixOf(a, b)
<1>1. Len(a) \in Nat /\ Len(b) \in Nat /\ Len(a) <= Len(b) BY DEF Begins
<1>2. SubSeq(b, 1, Len(a)) = a BY <1>1 DEF Begins
<1> QED BY <1>1, <1>2 DEF Acq!IsPrefixOf

LEMMA ConcatBegins ==
  ASSUME NEW a \in Seq(Byte), NEW t \in Seq(Byte)
  PROVE  Begins(a, a \o t) /\ a \o t \in Seq(Byte)
BY DEF Begins

(* The image stays, grows while it is copied, or loses its end with the    *)
(* power.                                                                  *)
LEMMA ImageSteps ==
  ASSUME IInv, More, [Next]_vars
  PROVE  \/ image'.now = image.now
         \/ /\ pc = "write" /\ UNCHANGED manifest /\ pc' \in {"read", "write", "finish"}
            /\ \E t \in Seq(Byte) : image'.now = image.now \o t
         \/ PowerLoss /\ Begins(image'.now, image.now)
<1>1. CASE Start
  BY <1>1 DEF Start, files
<1>2. CASE Preflight
  BY <1>2 DEF Preflight, files
<1>3. CASE Bind
  BY <1>3 DEF Bind, files
<1>4. CASE OpenFor
  BY <1>4 DEF OpenFor, files
<1>5. CASE CreateImage
  <2>1. image' = image \/ (image.is = "absent" /\ image' = File("ours", <<>>))
    BY <1>5 DEF CreateImage, Step
  <2>2. image' = File("ours", <<>>) => image'.now = <<>> BY FileFields
  <2> QED BY <2>1, <2>2 DEF More, Stored
<1>6. CASE CreateManifest
  BY <1>6 DEF CreateManifest, files
<1>7. CASE CreateChecksum
  BY <1>7 DEF CreateChecksum, files
<1>8. CASE AuditStarted
  BY <1>8 DEF AuditStarted, files
<1>9. CASE WritePending
  BY <1>9 DEF WritePending, files
<1>10. CASE SyncPending
  BY <1>10 DEF SyncPending, files
<1>11. CASE Unwind
  BY <1>11 DEF Unwind, files
<1>12. CASE InstallHandlers
  BY <1>12 DEF InstallHandlers, files
<1>13. CASE LookAtStop
  BY <1>13 DEF LookAtStop, files
<1>14. CASE Poll
  BY <1>14 DEF Poll, files
<1>15. CASE CheckPeer
  BY <1>15 DEF CheckPeer, files
<1>16. CASE CloseListener \/ CloseOpening
  BY <1>16 DEF CloseListener, CloseOpening, files
<1>17. CASE ReadData
  BY <1>17 DEF ReadData, files
<1>18. CASE ReadFails
  BY <1>18 DEF ReadFails, files
<1>19. CASE WriteImage
  <2>1. pc = "write" /\ UNCHANGED manifest /\ pc' \in {"read", "write", "finish"}
    BY <1>19 DEF WriteImage, Failing, Step
  <2>2. image \in Paths(Seq(Byte)) BY DEF IInv, TypeOK
  <2>3. CASE UNCHANGED image BY <2>3
  <2>4. CASE \E n \in 1..Len(run.buf) :
               image' = Write(image, image.now \o SubSeq(run.buf, 1, n))
    <3>1. PICK n \in 1..Len(run.buf) :
                 image' = Write(image, image.now \o SubSeq(run.buf, 1, n))
      BY <2>4
    <3> DEFINE t == SubSeq(run.buf, 1, n)
    <3>2. t \in Seq(Byte) BY TakeAndRest DEF IInv, TypeOK, Options
    <3> HIDE DEF t
    <3>3. image' = Write(image, image.now \o t) BY <3>1 DEF t
    <3> DEFINE c == image.now \o t
    <3>4. image' = Write(image, c) BY <3>3
    <3> HIDE DEF c
    <3>5. image'.now = c BY <2>2, <3>4, StoreFields
    <3>6. image'.now = image.now \o t BY <3>5 DEF c
    <3> QED BY <2>1, <3>2, <3>6
  <2> QED BY <1>19, <2>3, <2>4 DEF WriteImage
<1>20. CASE SyncImage
  <2>1. image' = image \/ image' = Synced(image) BY <1>20 DEF SyncImage
  <2> QED BY <2>1, StoreFields DEF IInv, TypeOK
<1>21. CASE AskHash
  BY <1>21 DEF AskHash, files
<1>22. CASE Compare
  BY <1>22 DEF Compare, files
<1>23. CASE WriteChecksum
  BY <1>23 DEF WriteChecksum, files
<1>24. CASE SyncChecksum
  BY <1>24 DEF SyncChecksum, files
<1>25. CASE Truncate
  BY <1>25 DEF Truncate, files
<1>26. CASE WriteFinal
  BY <1>26 DEF WriteFinal, files
<1>27. CASE SyncFinal
  BY <1>27 DEF SyncFinal, files
<1>28. CASE AuditFinished
  BY <1>28 DEF AuditFinished, files
<1>29. CASE \E p \in Peer : Connect(p)
  BY <1>29 DEF Connect, files
<1>30. CASE Interrupt
  BY <1>30 DEF Interrupt, files
<1>31. CASE Kill
  BY <1>31 DEF Kill, files
<1>32. CASE PowerLoss
  <2>1. PICK c \in image.may : image' = File(image.is, c) BY <1>32 DEF PowerLoss
  <2>2. image'.now = c /\ Begins(c, image.now) BY <2>1, FileFields DEF More, Stored
  <2> QED BY <1>32, <2>2
<1>33. CASE ForeignFile
  <2>1. image' = image \/ (image.is = "absent" /\ image' = File("foreign", <<>>))
    BY <1>33 DEF ForeignFile, Step
  <2>2. image' = File("foreign", <<>>) => image'.now = <<>> BY FileFields
  <2> QED BY <2>1, <2>2 DEF More, Stored
<1>34. CASE UNCHANGED vars
  BY <1>34 DEF vars, files
<1> QED BY <1>1, <1>2, <1>3, <1>4, <1>5, <1>6, <1>7, <1>8, <1>9, <1>10, <1>11, <1>12,
      <1>13, <1>14, <1>15, <1>16, <1>17, <1>18, <1>19, <1>20, <1>21, <1>22, <1>23,
      <1>24, <1>25, <1>26, <1>27, <1>28, <1>29, <1>30, <1>31, <1>32, <1>33, <1>34
    DEF Next, Setup, Waiting, Copying, Finishing, Environment

(* A manifest that says "verified" for good is never written again.        *)
LEMMA VerifiedStays ==
  ASSUME IInv, [Next]_vars, manifest.may = {manifest.now}, manifest.now.status = "verified"
  PROVE  manifest'.now = manifest.now /\ manifest'.may = {manifest'.now}
<1>0. /\ pc \in {"ok", "error", "killed", "preflight", "sync final", "finished"}
      /\ manifest.is = "ours" /\ manifest.may = {manifest.now}
  BY DEF IInv, Sealed
<1>1. CASE Start
  BY <1>1 DEF Start, files
<1>2. CASE Preflight
  BY <1>2 DEF Preflight, files
<1>3. CASE Bind
  BY <1>3 DEF Bind, files
<1>4. CASE OpenFor
  BY <1>4 DEF OpenFor, files
<1>5. CASE CreateImage
  BY <1>5 DEF CreateImage, files
<1>6. CASE CreateManifest
  BY <1>6, <1>0 DEF CreateManifest, Step
<1>7. CASE CreateChecksum
  BY <1>7 DEF CreateChecksum, files
<1>8. CASE AuditStarted
  BY <1>8 DEF AuditStarted, files
<1>9. CASE WritePending
  BY <1>9, <1>0 DEF WritePending, Step
<1>10. CASE SyncPending
  BY <1>10, <1>0 DEF SyncPending, Step
<1>11. CASE Unwind
  BY <1>11 DEF Unwind, files
<1>12. CASE InstallHandlers
  BY <1>12 DEF InstallHandlers, files
<1>13. CASE LookAtStop
  BY <1>13 DEF LookAtStop, files
<1>14. CASE Poll
  BY <1>14 DEF Poll, files
<1>15. CASE CheckPeer
  BY <1>15 DEF CheckPeer, files
<1>16. CASE CloseListener \/ CloseOpening
  BY <1>16 DEF CloseListener, CloseOpening, files
<1>17. CASE ReadData
  BY <1>17 DEF ReadData, files
<1>18. CASE ReadFails
  BY <1>18 DEF ReadFails, files
<1>19. CASE WriteImage
  BY <1>19 DEF WriteImage, files
<1>20. CASE SyncImage
  BY <1>20 DEF SyncImage, files
<1>21. CASE AskHash
  BY <1>21 DEF AskHash, files
<1>22. CASE Compare
  BY <1>22 DEF Compare, files
<1>23. CASE WriteChecksum
  BY <1>23 DEF WriteChecksum, files
<1>24. CASE SyncChecksum
  BY <1>24 DEF SyncChecksum, files
<1>25. CASE Truncate
  BY <1>25, <1>0 DEF Truncate, Step
<1>26. CASE WriteFinal
  BY <1>26, <1>0 DEF WriteFinal, Step
<1>27. CASE SyncFinal
  <2>1. manifest' = manifest \/ manifest' = Synced(manifest) BY <1>27 DEF SyncFinal
  <2> QED BY <1>0, <2>1, StoreFields DEF IInv, TypeOK
<1>28. CASE AuditFinished
  BY <1>28 DEF AuditFinished, files
<1>29. CASE \E p \in Peer : Connect(p)
  BY <1>29 DEF Connect, files
<1>30. CASE Interrupt
  BY <1>30 DEF Interrupt, files
<1>31. CASE Kill
  BY <1>31 DEF Kill, files
<1>32. CASE PowerLoss
  <2>1. PICK c \in manifest.may : manifest' = File(manifest.is, c) BY <1>32 DEF PowerLoss
  <2>2. c = manifest.now BY <1>0, <2>1
  <2>3. manifest'.now = c /\ manifest'.may = {c} BY <2>1, FileFields
  <2> QED BY <2>2, <2>3
<1>33. CASE ForeignFile
  BY <1>33, <1>0 DEF ForeignFile, Step
<1>34. CASE UNCHANGED vars
  BY <1>34 DEF vars, files
<1> QED BY <1>1, <1>2, <1>3, <1>4, <1>5, <1>6, <1>7, <1>8, <1>9, <1>10, <1>11, <1>12,
      <1>13, <1>14, <1>15, <1>16, <1>17, <1>18, <1>19, <1>20, <1>21, <1>22, <1>23,
      <1>24, <1>25, <1>26, <1>27, <1>28, <1>29, <1>30, <1>31, <1>32, <1>33, <1>34
    DEF Next, Setup, Waiting, Copying, Finishing, Environment

LEMMA ClaimCases ==
  /\ Claim = "verified" <=> /\ manifest.may = {manifest.now}
                            /\ manifest.now.status = "verified"
  /\ Claim = "open" \/ Claim = "verified"
BY DEF Claim

LEMMA AcquisitionStep ==
  ASSUME IInv, IInv', More, More', [Next]_vars
  PROVE  \/ image'.now = image.now /\ Claim' = Claim
         \/ /\ Claim = "open" /\ Claim' = "open" /\ image'.now \in Seq(Byte)
            /\ \/ Acq!IsPrefixOf(image.now, image'.now) /\ Len(image'.now) <= ExpectedBytes
               \/ Acq!IsPrefixOf(image'.now, image.now)
         \/ /\ Claim = "open" /\ Claim' = "verified" /\ image'.now = image.now
            /\ Len(image.now) = ExpectedBytes /\ Sha256(image.now) \in Given
<1>1. image.now \in Seq(Byte) /\ image'.now \in Seq(Byte) BY DEF IInv, TypeOK, Paths
<1>2. /\ Claim' = "verified" <=> manifest'.may = {manifest'.now}
                                 /\ manifest'.now.status = "verified"
      /\ Claim' = "open" \/ Claim' = "verified"
  BY DEF Claim
<1>3. CASE Claim = "verified"
  <2>1. manifest.may = {manifest.now} /\ manifest.now.status = "verified"
    BY <1>3, ClaimCases
  <2>2. Claim' = "verified" BY <1>2, <2>1, VerifiedStays
  <2>3. pc \in Claimed /\ image.may = {image.now} /\ manifest.now \in manifest.may
    BY <2>1 DEF IInv, Sealed, Complete, Claimed
  <2>4. image'.now = image.now
    <3>1. CASE PowerLoss
      <4>1. PICK c \in image.may : image' = File(image.is, c) BY <3>1 DEF PowerLoss
      <4> QED BY <2>3, <4>1, FileFields
    <3>2. pc # "write" BY <2>3 DEF Claimed
    <3> QED BY <3>1, <3>2, ImageSteps
  <2> QED BY <1>3, <2>2, <2>4
<1>4. CASE Claim = "open" /\ Claim' = "verified"
  <2>1. manifest'.may = {manifest'.now} /\ manifest'.now.status = "verified"
    BY <1>2, <1>4
  <2>2. /\ pc' \in Claimed /\ Len(image'.now) = ExpectedBytes
        /\ Sha256(image'.now) \in Given
    BY <2>1 DEF IInv, Sealed, Complete, Claimed
  <2>3. image'.now = image.now
    <3>1. CASE PowerLoss
      <4>1. PICK c \in image.may, d \in manifest.may :
              image' = File(image.is, c) /\ manifest' = File(manifest.is, d)
        BY <3>1 DEF PowerLoss
      <4>2. manifest'.now = d /\ image'.now = c BY <4>1, FileFields
      <4>3. image.may = {image.now} BY <2>1, <4>2 DEF IInv, Sealed, Complete
      <4> QED BY <4>2, <4>3
    <3>2. pc' \notin {"read", "write", "finish"} BY <2>2 DEF Claimed
    <3> QED BY <3>1, <3>2, ImageSteps
  <2> QED BY <1>4, <2>2, <2>3
<1>5. CASE Claim = "open" /\ Claim' = "open"
  <2>1. CASE image'.now = image.now BY <1>5, <2>1
  <2>2. CASE \E t \in Seq(Byte) : image'.now = image.now \o t
    <3>1. Acq!IsPrefixOf(image.now, image'.now) BY <1>1, <2>2, ConcatBegins, BeginsIsPrefix
    <3>2. Len(image'.now) <= ExpectedBytes BY DEF More, Stored
    <3> QED BY <1>1, <1>5, <3>1, <3>2
  <2>3. CASE Begins(image'.now, image.now)
    <3>1. Acq!IsPrefixOf(image'.now, image.now) BY <1>1, <2>3, BeginsIsPrefix
    <3> QED BY <1>1, <1>5, <3>1
  <2> QED BY <2>1, <2>2, <2>3, ImageSteps
<1> QED BY <1>2, <1>3, <1>4, <1>5, ClaimCases

(* What storage holds for good is an acquisition: the image grows or loses *)
(* its end, is claimed once, and does not change any more (receive.rs      *)
(* syncs image, checksum and manifest in this order).                      *)
THEOREM ReceiverAcquires == Spec => ImplementsAcquisition
<1>1. Init => Acq!Init
  <2> SUFFICES ASSUME Init PROVE Acq!Init OBVIOUS
  <2>1. image.now = <<>> /\ manifest.now.status # "verified"
    BY FileFields DEF Init, Blank, File
  <2> QED BY <2>1 DEF Acq!Init, Claim
<1>2. IInv /\ IInv' /\ More /\ More' /\ [Next]_vars
      => [Acq!Next]_<<image.now, Claim>>
  <2> SUFFICES ASSUME IInv, IInv', More, More', [Next]_vars
               PROVE  [Acq!Next]_<<image.now, Claim>>
    OBVIOUS
  <2>1. CASE image'.now = image.now /\ Claim' = Claim BY <2>1
  <2>2. CASE /\ Claim = "open" /\ Claim' = "open" /\ image'.now \in Seq(Byte)
             /\ Acq!IsPrefixOf(image.now, image'.now) /\ Len(image'.now) <= ExpectedBytes
    BY <2>2 DEF Acq!Next, Acq!Grow, Claim
  <2>3. CASE /\ Claim = "open" /\ Claim' = "open" /\ image'.now \in Seq(Byte)
             /\ Acq!IsPrefixOf(image'.now, image.now)
    BY <2>3 DEF Acq!Next, Acq!Lose, Claim
  <2>4. CASE /\ Claim = "open" /\ Claim' = "verified" /\ image'.now = image.now
             /\ Len(image.now) = ExpectedBytes /\ Sha256(image.now) \in Given
    BY <2>4 DEF Acq!Next, Acq!Verify, Claim
  <2> QED BY <2>1, <2>2, <2>3, <2>4, AcquisitionStep
<1> QED BY <1>1, <1>2, Invariance, StoredInvariance, PTL
        DEF Spec, ImplementsAcquisition, Acq!Spec

(* What storage holds is claimed verified once and for all: no later call, *)
(* run, interruption or power loss changes the image behind the claim or   *)
(* takes the claim back (receive.rs creates its files with create_new and  *)
(* refuses a prefix that exists).                                          *)
THEOREM EvidenceStays ==
  Spec => [][Claim = "verified" => image'.now = image.now /\ Claim' = Claim]_vars
<1>1. [Acq!Next]_<<image.now, Claim>>
      => (Claim = "verified" => image'.now = image.now /\ Claim' = Claim)
  <2> SUFFICES ASSUME [Acq!Next]_<<image.now, Claim>>, Claim = "verified"
               PROVE  image'.now = image.now /\ Claim' = Claim
    OBVIOUS
  <2>1. Claim # "open" OBVIOUS
  <2>2. ~Acq!Next BY <2>1 DEF Acq!Next, Acq!Grow, Acq!Lose, Acq!Verify
  <2> QED BY <2>2
<1> QED BY <1>1, ReceiverAcquires, PTL DEF ImplementsAcquisition, Acq!Spec
=============================================================================
