---------------------------- MODULE HotspotPair ----------------------------
(***************************************************************************)
(* Two dfnet processes on one host (the terminal interface and a shell, or *)
(* two shells): each is a Hotspot with its own pc and locals; firewall,    *)
(* NetworkManager, host and record are shared.  Nothing in main.rs or      *)
(* routing.rs keeps the second one out.                                    *)
(***************************************************************************)
EXTENDS Naturals, Sequences

CONSTANTS Ap, Uplink, None, MaxCommands, MaxFaults, MaxKills, MaxMoves

VARIABLES pcA, meA, pcB, meB, rules, nm, host, record, report, past, budget

A == INSTANCE Hotspot WITH pc <- pcA, me <- meA
B == INSTANCE Hotspot WITH pc <- pcB, me <- meB

vars == <<pcA, meA, pcB, meB, rules, nm, host, record, report, past, budget>>

Init == A!Init /\ B!Init

(* Nobody runs `route reset` beside a start: the README asks not to.       *)
Next == /\ \/ A!Next /\ UNCHANGED <<pcB, meB>>
           \/ B!Next /\ UNCHANGED <<pcA, meA>>
        /\ "reset" \notin {meA'.cmd, meB'.cmd}

Spec == Init /\ [][Next]_vars

(* main.rs "IPv4 and IPv6 guards must exist before NetworkManager activates*)
(* sharing": of every AP that is up, whoever started and stopped it.       *)
GuardsWhicheverProcess == A!GuardsWhileActive
=============================================================================
