--------------------------- MODULE MCHotspotPair ---------------------------
(* Two processes, one interface: one starts the hotspot, one stops it.     *)
EXTENDS HotspotPair

CONSTANTS w0, e0

OneAp == {w0}
OneUplink == {e0}
=============================================================================
