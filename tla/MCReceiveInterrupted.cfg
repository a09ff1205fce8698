CONSTANTS
  Byte <- MCByte
  ExpectedBytes = 2
  Digest <- MCDigest
  Sha256 <- MCSha256
  Given <- MCGiven
  NoHash = NoHash
  Peer <- MCPeer
  NoPeer = NoPeer
  Allowed <- MCAllowed
  MaxRuns = 2
  MaxBacklog = 1
  MaxRejected = 1
  MaxChunk = 2
  p1 = p1
  p2 = p2
SPECIFICATION Spec
CHECK_DEADLOCK FALSE
INVARIANTS
  InterruptedSaysIncomplete
