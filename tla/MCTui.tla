------------------------------- MODULE MCTui -------------------------------
(* Two Wi-Fi devices and one or two wired ones, in the order `ip` lists them.     *)
EXTENDS Tui, TLC

CONSTANTS w0, w1, e0, e1

TwoWifi == {w0, w1}
Four == {w0, w1, e0, e1}
Three == {w0, w1, e0}
InOrder(S, order) == LET in(i) == i \in S IN SelectSeq(order, in)
ListedThree(S) == InOrder(S, <<e0, w0, w1>>)
ListedFour(S) == InOrder(S, <<e0, e1, w0, w1>>)

(* All adapters, and one that is not there yet while an earlier session's  *)
(* hotspot is.                                                             *)
AllOrFewer(all, late, up) ==
  {[here |-> all, gateway |-> up, ap |-> None],
   [here |-> all \ {late}, gateway |-> None, ap |-> w0]}
FoundThree == AllOrFewer(Three, w1, e0)
FoundFour == AllOrFewer(Four, w1, e0)
=============================================================================
