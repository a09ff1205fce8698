----------------------------- MODULE MCOpenings -----------------------------
(* Two shells; an IPv4, an IPv6 and the loopback endpoint.                 *)
EXTENDS Openings, TLC
CONSTANTS s0, s1, four, six, lo
TwoShells == {s0, s1}
Endpoints == {four, six, lo}
TwoEndpoints == {four, six}
Sixes == {six}
Loopbacks == {lo}
ShellsAlike == Permutations({s0, s1})
=============================================================================
