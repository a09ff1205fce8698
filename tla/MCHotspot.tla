----------------------------- MODULE MCHotspot -----------------------------
(* Small hotspots for TLC: one or two interfaces and uplinks.              *)
EXTENDS Hotspot, TLC

CONSTANTS w0, w1, e0, e1

OneAp == {w0}
TwoAps == {w0, w1}
OneUplink == {e0}
TwoUplinks == {e0, e1}
Alike == Permutations(TwoAps) \cup Permutations(TwoUplinks)

(* Bound: faults, kills and moves of the environment together are two; with *)
(* a third command there are none.                                         *)
FewTroubles ==
  budget.faults + budget.kills + budget.moves <= (IF budget.commands < 3 THEN 2 ELSE 0)
=============================================================================
