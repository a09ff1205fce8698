------------------------------- MODULE MCSsh -------------------------------
(* Four invocations, the second of which is given another port.            *)
EXTENDS Ssh
CONSTANTS e1, e2
Endpoints == {e1, e2}
Ports == [n \in 1..MaxRuns |-> IF n = 2 THEN e2 ELSE e1]
=============================================================================
