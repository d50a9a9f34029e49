------------------------------- MODULE MCHost --------------------------------
(***************************************************************************)
(* The machine around the daemon, one subject at a time: it upgrades       *)
(* itself, from a swarm of peers or elsewhere, serves certificates, and is *)
(* reached through a relay or a router.                                    *)
(***************************************************************************)
EXTENDS Swarm, Upgrade, Certs, Turn, Reachability

CONSTANT Focuses

VARIABLE focus

\* Two seeders, one of which lies.
SSeeders == <<"s1", "s2">>

\* Both relay clients sit behind one address.
TIpOf == [c \in TurnClient |-> 1]

\* The ways a daemon is told, or finds out, how it is reached.
L(a, r, u, s) == [adv |-> a, relay |-> r, upnp |-> u, stun |-> s]
RLadders ==
    {L("none", FALSE, TRUE, TRUE)} \cup {L(a, TRUE, TRUE, TRUE) : a \in {"none", "literal", "host"}}

hostVars == <<focus, swarmVars, upgradeVars, certVars, turnVars, reachVars>>

\* A subject out of focus has one initial state.
MCInit ==
    /\ focus \in Focuses
    /\ UpgradeInit /\ (focus # "upgrade" => platform = "unix" /\ mirror /\ manifest)
    /\ ReachInit /\ (focus # "reach" => ladder.adv = "host" /\ router.taken = {})
    /\ SwarmInit /\ CertInit /\ TurnInit

MCNext ==
    /\ UNCHANGED focus
    /\ IF focus = "swarm" THEN SwarmNext ELSE UNCHANGED swarmVars
    /\ IF focus = "upgrade" THEN UpgradeNext ELSE UNCHANGED upgradeVars
    /\ IF focus = "certs" THEN CertNext ELSE UNCHANGED certVars
    /\ IF focus = "turn" THEN TurnNext ELSE UNCHANGED turnVars
    /\ IF focus = "reach" THEN ReachNext ELSE UNCHANGED reachVars

MCSpec == MCInit /\ [][MCNext]_hostVars
=============================================================================
