----------------------------- MODULE MCReceive -----------------------------
(***************************************************************************)
(* A small receiver for TLC: two byte values, images of two or three bytes, one     *)
(* allowed sender and one that is not, and a hash without collisions.      *)
(***************************************************************************)
EXTENDS Receive

CONSTANTS p1, p2

MCByte == {0, 1}
MCSha256(c) == <<"sha256", c>>
MCDigest == {MCSha256(c) : c \in Contents}
MCSource == [i \in 1..ExpectedBytes |-> (i + 1) % 2]
MCGiven == {MCSha256(MCSource)}
MCPeer == {p1, p2}
MCAllowed == {p1}
=============================================================================
