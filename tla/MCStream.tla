------------------------------ MODULE MCStream ------------------------------
(* Two file names, byte values and a hash without collisions.              *)
EXTENDS Stream
CONSTANTS n1, n2
MCName == {n1, n2}
MCByte == {0, 1}
MCSha256(c) == <<"sha256", c>>
MCDigest == {MCSha256(c) : c \in Content}
=============================================================================
