CONSTANTS
  Byte <- MCByte
  ExpectedBytes = 3
  Digest <- MCDigest
  Sha256 <- MCSha256
  Given <- MCGiven
  NoHash = NoHash
  Peer <- MCPeer
  NoPeer = NoPeer
  Allowed <- MCAllowed
  MaxRuns = 2
  MaxBacklog = 2
  MaxRejected = 1
  MaxChunk = 2
  p1 = p1
  p2 = p2
SPECIFICATION FairSpec
CHECK_DEADLOCK FALSE
INVARIANTS
  TypeOK
  VerifiedIsSound
  ChecksumIsTrue
  AuditMatchesManifest
  OpeningOnlyWhileListening
PROPERTIES
  ManifestDescribesImage
  ExclusiveWrites
  ImplementsAcquisition
  ReceiveReturns
