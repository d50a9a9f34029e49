---------------------------- MODULE MCWitnessNode ----------------------------
(* A contested pair of aliases without carriers for the cooldown, and three *)
(* leases of one name with a rival for exclusivity.                         *)
EXTENDS WitnessNode

MkId(a, c, ts) == [alias |-> a, claimant |-> c, ts |-> ts, pow |-> c, tld |-> c]

\* cooldown: claimant 1 has two claims on alias 1, claimant 2 one; claimant 3
\* has alias 2.  renewal: identity 1 renews every 4 ticks a lease of 5, and
\* identity 5 never gets one.
MCId == <<MkId(1, 1, 1), MkId(1, 1, 2), MkId(1, 2, 1), MkId(2, 3, 1), MkId(1, 2, 5)>>
Asking == [cooldown |-> {1, 2, 3, 4}, renewal |-> {1, 5}]

Lease == 5
Renewal(created) ==
    [ident |-> 1, created |-> created, expires |-> created + Lease, size |-> 1, full |-> TRUE]
RenewalCarries == <<Renewal(1), Renewal(5), Renewal(9)>>

\* The scenario explored: who asks this node, and for how long.
VARIABLE scenario

InScenario ==
    /\ {h.ident : h \in pending} \subseteq Asking[scenario]
    /\ scenario = "cooldown" => now <= 6 /\ offered = {}
    /\ scenario = "renewal" => Cardinality(pending) <= 1 /\ Cardinality(signed) <= 1

MCInit == WitnessInit /\ scenario \in DOMAIN Asking
MCNext == WitnessNext /\ UNCHANGED scenario /\ InScenario'
MCSpec == MCInit /\ [][MCNext]_<<witnessVars, scenario>>
=============================================================================
