------------------------------- MODULE MCPcap -------------------------------
(* Interfaces that a capture changes in every way; the last one is refused *)
(* unless its IPv4 addresses cannot be read.                               *)
EXTENDS Pcap

On == [s \in Setting |-> TRUE]
Only(off) == [s \in Setting |-> s \notin off]
With(keep, silent, was, carrier, ipv4) ==
  [keep |-> keep, silent |-> silent, iface |-> was, carrier |-> carrier, ipv4 |-> ipv4]

Starts == {
  With(FALSE, FALSE, On, TRUE, TRUE),
  With(TRUE, TRUE, Only({"ipv6"}), FALSE, FALSE),
  With(FALSE, TRUE, Only({"lro", "arp", "up"}), FALSE, TRUE)}
(* Nothing special, for a signal.                                          *)
PlainStart == {With(FALSE, FALSE, On, TRUE, FALSE)}
=============================================================================
