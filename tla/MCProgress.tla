------------------------------ MODULE MCProgress ------------------------------
(***************************************************************************)
(* What must eventually happen, one subject at a time, on instances small  *)
(* enough for liveness checking.  The fairness of a subject is the one its *)
(* module states, and holds while the subject is in focus.                 *)
(***************************************************************************)
EXTENDS PeerTable, RpcLayer, Walk, LeaseKeeper, Swarm, AnswerCache, Upstream, Turn, Reachability, Certs

CONSTANTS Focuses, c1, c2, r1

VARIABLE focus

\* Two peers contend for the only slot of a bucket.
PBucket == <<1, 1>>
PHeard == <<{1}, {1}>>
PTaught == <<{}, {}>>
PSeeds == << >>

WKinds == {<<"get", "find">>}
WKnows == (0 :> {}) @@ <<{2, 4}, {1, 0}, {2}, {}>>
WHolds == (0 :> 0) @@ <<1, 0, 0, 2>>

SSeeders == <<"s1", "s2">>

ARoute == 1 :> "freens"
ASlots == [walk |-> 1, forward |-> 1]
ACasts == {{1, c1, c2}}

UUps ==
    {[doh |-> "name", fallback |-> TRUE, hedged |-> TRUE]}
      \cup {[doh |-> "address", fallback |-> f, hedged |-> FALSE] : f \in BOOLEAN}

TIpOf == [c \in TurnClient |-> 1]

RLadders == {[adv |-> "none", relay |-> FALSE, upnp |-> TRUE, stun |-> TRUE]}

Quiet == confirming = {} /\ probing = Idle

progressVars ==
    <<focus, peerVars, rpcVars, walkVars, leaseVars, swarmVars, acVars, upVars, turnVars, reachVars, certVars>>

MCInit ==
    /\ focus \in Focuses
    /\ UpInit /\ (focus # "upstream" => ref.doh = "name")
    /\ ReachInit /\ (focus # "reach" => router.taken = {})
    /\ PeerInit /\ RpcInit /\ WalkInit /\ LeaseInit /\ SwarmInit /\ ACInit /\ TurnInit /\ CertInit

MCNext ==
    /\ UNCHANGED focus
    /\ IF focus = "evict" THEN PeerNext /\ Quiet' ELSE UNCHANGED peerVars
    /\ IF focus = "rpc" THEN RpcNext ELSE UNCHANGED rpcVars
    /\ IF focus = "walk" THEN WalkNext ELSE UNCHANGED walkVars
    /\ IF focus = "lease" THEN LeaseNext ELSE UNCHANGED leaseVars
    /\ IF focus = "swarm" THEN SwarmNext ELSE UNCHANGED swarmVars
    /\ IF focus = "cache" THEN ACNext ELSE UNCHANGED acVars
    /\ IF focus = "upstream" THEN UpNext ELSE UNCHANGED upVars
    /\ IF focus = "turn" THEN TurnNext ELSE UNCHANGED turnVars
    /\ IF focus = "reach" THEN ReachNext ELSE UNCHANGED reachVars
    /\ IF focus = "certs" THEN CertNext ELSE UNCHANGED certVars

Fairness ==
    /\ WF_peerVars(focus = "evict" /\ EvictStep)
    /\ \A t \in Call : WF_rpcVars(focus = "rpc" /\ CallStep(t))
    /\ WF_rpcVars(focus = "rpc" /\ ReadStep) /\ WF_rpcVars(focus = "rpc" /\ WorkStep)
    /\ \A w \in Walk : WF_walkVars(focus = "walk" /\ WalkStep(w))
    /\ WF_leaseVars(focus = "lease" /\ KeeperStep) /\ WF_leaseVars(focus = "lease" /\ Snapshot)
    /\ \A w \in Worker : WF_swarmVars(focus = "swarm" /\ Step(w))
    /\ \A p \in Caller : WF_acVars(focus = "cache" /\ CallerStep(p))
    /\ WF_acVars(focus = "cache" /\ CacheTick)
    /\ \A f \in Fwd : WF_upVars(focus = "upstream" /\ ForwardStep(f))
    /\ WF_turnVars(focus = "turn" /\ ServerStep) /\ SF_turnVars(focus = "turn" /\ TurnTick)
    /\ \A c \in TurnClient :
          /\ WF_turnVars(focus = "turn" /\ RefreshWake(c))
          /\ \A m \in Method : /\ SF_turnVars(focus = "turn" /\ Serve(c, m))
                               /\ WF_turnVars(focus = "turn" /\ ReadLoop(c, m))
                               /\ WF_turnVars(focus = "turn" /\ TimedOut(c, m))
    /\ WF_reachVars(focus = "reach" /\ RenewalStep) /\ WF_reachVars(focus = "reach" /\ HostRefresh)
    /\ SF_certVars(focus = "certs" /\ RenewStep) /\ WF_certVars(focus = "certs" /\ VhostStep)
    /\ SF_certVars(focus = "certs" /\ Day)

\* What is begun ends, whatever the network, the peers and the servers do: a
\* call, a query in the handler pool, a walk, a download, a forward.
WorkEnds == CallsReturn /\ QueriesAnswered /\ WalksEnd /\ SwarmEnds /\ ForwardsEnd

\* What is lost or stuck is noticed and put right: a pending eviction, a flight
\* whose leader hangs, a relay allocation, a port mapping, a torn key pair.
LossHeals == EvictionResolves /\ CorpseIsReaped /\ LossIsNoticed /\ ReachabilityHeals /\ PairHeals

MCSpec == MCInit /\ [][MCNext]_progressVars /\ Fairness
=============================================================================
