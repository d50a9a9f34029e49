------------------------------- MODULE MCNode --------------------------------
(***************************************************************************)
(* The parts of one DHT node that share no state, explored one at a time:  *)
(* `focus` says which part moves.  The peer table is explored in four      *)
(* scenarios, each of which leaves out what it is not about.               *)
(***************************************************************************)
EXTENDS PeerTable, RpcLayer, RateLimits, Ledger, WriteTokens, LeaseKeeper, Difficulty, BlobChannel

CONSTANT Focuses

VARIABLE focus

\* Peers 1 and 2 contend for a bucket; peer 1 has a second address.
PBucket == <<1, 1, 2, 2>>
PHeard == <<{1, 2}, {1}, {1}, {1}>>
PTaught == <<{1, 2}, {}, {}, {}>>
PSeeds == <<[id |-> 1, addr |-> 1]>>

\* One bucket of one slot; peer 1 has more addresses than the table tracks.
OBucket == <<1, 1>>
OHeard == <<{1}, {}>>
OTaught == <<{2, 3}, {1}>>
OSeeds == << >>

OneBucket == \A p \in {3, 4} : lastHeard[<<p, 1>>] = 0
OneTask ==
    Cardinality({x \in {<<1, learning>>, <<2, probing>>, <<3, sweeping>>, <<4, evicting>>} : x[2] # Idle})
      + Cardinality(confirming) < 2

\* contested: a full bucket and its newcomers; races: the goroutines that work
\* on one contact; restart: the peerbook, one goroutine at a time; overflow: all
\* of it, on a few peers.
InScenario ==
    CASE focus = "contested" -> peerClock = 1 /\ book = << >> /\ confirming = {} /\ probing = Idle
      [] focus = "races" -> lastHeard[<<2, 1>>] = 0 /\ OneBucket /\ book = << >>
      [] focus = "restart" -> OneBucket /\ OneTask /\ peerClock < MaxPeerClock
      [] focus = "overflow" -> TRUE

PeerScenario == {"contested", "races", "restart", "overflow"}

\* Both fetchers sit behind one address; the storer wants every archive.
BIpAt == [c \in Fetcher |-> 1]
BWants == 1 :> Blob

nodeVars ==
    <<focus, peerVars, rpcVars, rateVars, ledgerVars, tokenVars, leaseVars, diffVars, blobVars>>

MCInit ==
    /\ focus \in Focuses
    /\ PeerInit /\ RpcInit /\ RateInit /\ LedgerInit /\ TokenInit
    /\ LeaseInit /\ DiffInit /\ BlobInit

MCNext ==
    /\ UNCHANGED focus
    /\ IF focus \in PeerScenario THEN PeerNext /\ InScenario' ELSE UNCHANGED peerVars
    /\ IF focus = "rpc" THEN RpcNext ELSE UNCHANGED rpcVars
    /\ IF focus = "rates" THEN RateNext ELSE UNCHANGED rateVars
    /\ IF focus = "ledger" THEN LedgerNext ELSE UNCHANGED ledgerVars
    /\ IF focus = "tokens" THEN TokenNext ELSE UNCHANGED tokenVars
    /\ IF focus = "lease" THEN LeaseNext ELSE UNCHANGED leaseVars
    /\ IF focus = "difficulty" THEN DiffNext ELSE UNCHANGED diffVars
    /\ IF focus = "blob" THEN BlobNext ELSE UNCHANGED blobVars

MCSpec == MCInit /\ [][MCNext]_nodeVars
=============================================================================
