-------------------------------- MODULE Walk ---------------------------------
(***************************************************************************)
(* The iterative walks of one node (internal/dht/transport.go):            *)
(* IterativeGetDetailed ("get") and IterativeFindNode ("find").  Walks run *)
(* concurrently, share the routing table and the dead-peer penalties, and  *)
(* get walks hold one of a bounded number of slots.                        *)
(*                                                                         *)
(* All walks are towards one key and a node is its rank by distance from   *)
(* it.  The table is abstracted to its members and the confirmed ones      *)
(* among them (PeerTable has the rest), an envelope to its sequence.  The  *)
(* results of a round are processed in one step, in batch order, as the    *)
(* code does after wg.Wait; the rounds of different walks interleave.      *)
(***************************************************************************)
EXTENDS Integers, FiniteSets

CONSTANTS
    Node,           \* node IDs, by distance from the key
    Self,           \* this node's ID
    Walk,           \* concurrent walks
    KindChoices,    \* assignments of "get" or "find" to the walks
    Table0,         \* the routing table when the walks begin
    Confirmed0,     \* its directly confirmed contacts
    Veteran,        \* contacts known for putCitizenMinAge
    Knows,          \* node -> the contacts it advertises
    Holds,          \* node -> sequence of the envelope it stores, 0 for none
    Flaky,          \* nodes whose probe may go unanswered
    Throttler,      \* nodes that may answer 301
    MultiHomed,     \* nodes with another recent address (probeFailed)
    WalkSlots,      \* WalkConcurrency
    KClosest,       \* constants.K
    RoundWidth,     \* lookupRoundWidth
    WantNodes,      \* contacts a find walk returns
    MaxRounds,      \* maxLookupRounds
    PenaltyWindow,  \* deadPenaltyWindow
    MaxWalkClock    \* bound on the clock

ASSUME WalkAssumption ==
    /\ Node \subseteq Nat /\ Self \in Node
    /\ Table0 \subseteq Node \ {Self} /\ Confirmed0 \subseteq Table0
    /\ {WalkSlots, WantNodes, PenaltyWindow, MaxWalkClock} \subseteq Nat
    /\ {KClosest, RoundWidth, MaxRounds} \subseteq Nat \ {0}
    /\ Knows \in [Node -> SUBSET Node] /\ Holds \in [Node -> Nat]

VARIABLES
    kind,              \* walk -> "get" or "find"
    walkClock,
    table, confirmed,  \* the routing table
    deadUntil,         \* node -> end of its penalty, 0 for none
    slots,             \* walkSem: walks holding a slot
    phase,             \* walk -> "new", "round", "probing", "done"
    shortlist,         \* walk -> contacts known to it
    proven,            \* walk -> those that were citizens when it learned them
    queried,           \* walk -> contacts probed
    batch,             \* walk -> contacts being probed
    width, rounds,     \* walk -> batchSize; rounds begun
    best,              \* walk -> sequence of the best envelope, 0 for none
    missed,            \* walk -> contacts whose probe failed (not failed over)
    degraded,          \* walk -> probes failed or throttled
    cancelled,         \* walk -> its context has ended
    walkResult,        \* walk -> how it ended
    nodes,             \* walk -> what a find walk returned
    walkAnswered       \* history: walk -> contacts that answered it in full

walkVars == <<kind, walkClock, table, confirmed, deadUntil, slots, phase, shortlist, proven, queried, batch,
              width, rounds, best, missed, degraded, cancelled, walkResult, nodes, walkAnswered>>

Closest(S, n) == {c \in S : Cardinality({d \in S : d < c}) < n}

Penalized(c) == walkClock < deadUntil[c]

\* citizenNow
Citizen(c) == c \in confirmed \cap Veteran

\* walkShortlist: the K closest contacts and every citizen.
Shortlist == Closest(table, KClosest) \cup {c \in table : Citizen(c)}

Candidates(w) == {c \in shortlist[w] \ queried[w] : c # Self /\ ~Penalized(c)}

\* The order of a batch: citizens first, each class closest first.
Earlier(w, c, d) ==
    \/ c \in proven[w] /\ d \notin proven[w]
    \/ (c \in proven[w]) = (d \in proven[w]) /\ c < d

\* walkBatch: the first candidates of that order.
Batch(w) ==
    {c \in Candidates(w) : Cardinality({d \in Candidates(w) : Earlier(w, d, c)}) < width[w]}

\* acquireWalk: a walk with candidates takes a slot or is refused.
WalkBegin(w) ==
    /\ phase[w] = "new"
    /\ LET busy == kind[w] = "get" /\ Cardinality(slots) >= WalkSlots
           how == IF Shortlist = {} THEN "miss" ELSE IF busy THEN "busy" ELSE "none"
       IN  /\ walkResult' = [walkResult EXCEPT ![w] = how]
           /\ phase' = [phase EXCEPT ![w] = IF how = "none" THEN "round" ELSE "done"]
           /\ slots' = IF how = "none" /\ kind[w] = "get" THEN slots \cup {w} ELSE slots
           /\ shortlist' = [shortlist EXCEPT ![w] = Shortlist]
           /\ proven' = [proven EXCEPT ![w] = {c \in Shortlist : Citizen(c)}]
    /\ UNCHANGED <<kind, walkClock, table, confirmed, deadUntil, queried, batch, width, rounds,
                   best, missed, degraded, cancelled, nodes, walkAnswered>>

\* Fault: a walk that found nothing reports a clean miss.
GetOutcomeClean(w) == IF best[w] > 0 THEN "found" ELSE "miss"

\* The end of IterativeGetDetailed.
GetOutcome(w) ==
    IF best[w] > 0 THEN "found" ELSE IF degraded[w] THEN "degraded" ELSE "miss"

\* releaseWalk
Release(w) == slots \ {w}

WalkEnd(w) ==
    /\ phase' = [phase EXCEPT ![w] = "done"]
    /\ slots' = Release(w)
    /\ walkResult' = [walkResult EXCEPT ![w] = IF kind[w] = "get" THEN GetOutcome(w) ELSE "nodes"]
    /\ nodes' = [nodes EXCEPT ![w] = IF kind[w] = "get" THEN {}
                                      ELSE Closest(shortlist[w] \ missed[w], WantNodes)]
    /\ UNCHANGED <<queried, batch, rounds>>

\* One round: probe the next batch, or end when there is none.
WalkRound(w) ==
    /\ phase[w] = "round"
    /\ IF rounds[w] = MaxRounds \/ Batch(w) = {}
       THEN WalkEnd(w)
       ELSE /\ batch' = [batch EXCEPT ![w] = Batch(w)]
            /\ queried' = [queried EXCEPT ![w] = @ \cup Batch(w)]
            /\ rounds' = [rounds EXCEPT ![w] = @ + 1]
            /\ phase' = [phase EXCEPT ![w] = "probing"]
            /\ UNCHANGED <<slots, walkResult, nodes>>
    /\ UNCHANGED <<kind, walkClock, table, confirmed, deadUntil, shortlist, proven, width,
                   best, missed, degraded, cancelled, walkAnswered>>

\* What a probe may return: getFromPeer, findNodeRound.
Answers(w, c) ==
    {"ok"} \cup (IF c \in Flaky THEN {"fail"} ELSE {})
           \cup (IF c \in Throttler THEN {"throttled"} ELSE {})
           \cup (IF cancelled[w] THEN {"cancelled"} ELSE {})

\* A probe failure counts unless the walk's own context has ended.
Failed(w, a) == a = "fail" /\ ~cancelled[w]

\* The contacts that failed and were not failed over.
Corpses(w, ans, promoted) == {c \in DOMAIN ans : Failed(w, ans[c])} \ promoted

\* The contacts an answered probe teaches.
Taught(ans) == UNION {Knows[c] : c \in {d \in DOMAIN ans : ans[d] = "ok"}}

\* The results of the round, in the order of the batch: probeFailed demotes a
\* confirmed contact and removes any other, which stays out unless a later
\* answer teaches it again; an answer's contacts are learned.
Absorb(w, ans, promoted) ==
    LET heard == {c \in DOMAIN ans : ans[c] \in {"ok", "throttled"}}
        corpses == Corpses(w, ans, promoted)
        removed == {c \in corpses \ confirmed :
                      \A d \in DOMAIN ans : ans[d] = "ok" /\ c \in Knows[d] => Earlier(w, d, c)}
    IN  [table |-> (table \cup heard \cup (Taught(ans) \ {Self})) \ removed,
         confirmed |-> (confirmed \cup heard) \ corpses,
         shortlist |-> shortlist[w] \cup Taught(ans)]

\* EnvelopeWins over the round's offers.
Better(w, offers) ==
    CHOOSE e \in offers \cup {best[w]} : \A f \in offers \cup {best[w]} : f <= e

\* The widening of a get walk whose round nobody answered.
Widened(w, ans) ==
    IF kind[w] = "get" /\ \A c \in DOMAIN ans : ans[c] \in {"fail", "cancelled"}
    THEN IF 2 * width[w] > KClosest THEN KClosest ELSE 2 * width[w]
    ELSE width[w]

WalkCollect(w) ==
    /\ phase[w] = "probing"
    /\ \E ans \in [batch[w] -> {"ok", "fail", "throttled", "cancelled"}] :
         /\ \A c \in DOMAIN ans : ans[c] \in Answers(w, c)
         /\ \E promoted \in SUBSET {c \in MultiHomed \cap DOMAIN ans : Failed(w, ans[c])} :
              LET st == Absorb(w, ans, promoted)
                  corpses == Corpses(w, ans, promoted)
                  ok == {c \in DOMAIN ans : ans[c] = "ok"}
              IN  /\ table' = st.table /\ confirmed' = st.confirmed
                  /\ shortlist' = [shortlist EXCEPT ![w] = st.shortlist]
                  /\ deadUntil' = [c \in Node |-> IF kind[w] = "get" /\ c \in corpses
                                                  THEN walkClock + PenaltyWindow ELSE deadUntil[c]]
                  /\ missed' = [missed EXCEPT ![w] = @ \cup corpses]
                  /\ degraded' = [degraded EXCEPT ![w] =
                                    @ \/ \E c \in DOMAIN ans : Failed(w, ans[c]) \/ ans[c] = "throttled"]
                  /\ best' = [best EXCEPT ![w] = Better(w, {Holds[c] : c \in ok})]
                  /\ width' = [width EXCEPT ![w] = Widened(w, ans)]
                  /\ walkAnswered' = [walkAnswered EXCEPT ![w] = @ \cup ok]
    /\ batch' = [batch EXCEPT ![w] = {}]
    /\ phase' = [phase EXCEPT ![w] = "round"]
    /\ UNCHANGED <<kind, walkClock, slots, proven, queried, rounds, cancelled, walkResult, nodes>>

\* The caller's deadline passes or the caller goes away.
WalkCancel(w) ==
    /\ phase[w] \in {"round", "probing"} /\ ~cancelled[w]
    /\ cancelled' = [cancelled EXCEPT ![w] = TRUE]
    /\ UNCHANGED <<kind, walkClock, table, confirmed, deadUntil, slots, phase, shortlist, proven, queried,
                   batch, width, rounds, best, missed, degraded, walkResult, nodes, walkAnswered>>

WalkTick ==
    /\ walkClock < MaxWalkClock
    /\ walkClock' = walkClock + 1
    /\ UNCHANGED <<kind, table, confirmed, deadUntil, slots, phase, shortlist, proven, queried, batch,
                   width, rounds, best, missed, degraded, cancelled, walkResult, nodes, walkAnswered>>

WalkInit ==
    /\ kind \in KindChoices
    /\ walkClock = 0
    /\ table = Table0 /\ confirmed = Confirmed0
    /\ deadUntil = [c \in Node |-> 0]
    /\ slots = {}
    /\ phase = [w \in Walk |-> "new"]
    /\ shortlist = [w \in Walk |-> {}] /\ proven = [w \in Walk |-> {}]
    /\ queried = [w \in Walk |-> {}] /\ batch = [w \in Walk |-> {}]
    /\ width = [w \in Walk |-> RoundWidth] /\ rounds = [w \in Walk |-> 0]
    /\ best = [w \in Walk |-> 0] /\ missed = [w \in Walk |-> {}]
    /\ degraded = [w \in Walk |-> FALSE] /\ cancelled = [w \in Walk |-> FALSE]
    /\ walkResult = [w \in Walk |-> "none"] /\ nodes = [w \in Walk |-> {}]
    /\ walkAnswered = [w \in Walk |-> {}]

WalkStep(w) == WalkBegin(w) \/ WalkRound(w) \/ WalkCollect(w)

WalkNext == (\E w \in Walk : WalkStep(w) \/ WalkCancel(w)) \/ WalkTick

\* A walk is a goroutine whose probes all have deadlines.
WalkFairness == \A w \in Walk : WF_walkVars(WalkStep(w))

WalkSpec == WalkInit /\ [][WalkNext]_walkVars /\ WalkFairness

-----------------------------------------------------------------------------
(* Properties *)

\* The walks' state is well typed: a walk probes only contacts of its
\* shortlist, never itself, and a round is never wider than K.
WalkTypeOK ==
    /\ walkClock \in 0..MaxWalkClock
    /\ table \subseteq Node \ {Self} /\ confirmed \subseteq Node
    /\ deadUntil \in [Node -> 0..(MaxWalkClock + PenaltyWindow)]
    /\ phase \in [Walk -> {"new", "round", "probing", "done"}]
    /\ walkResult \in [Walk -> {"none", "miss", "busy", "degraded", "found", "nodes"}]
    /\ \A w \in Walk :
         /\ queried[w] \subseteq shortlist[w] \ {Self} /\ shortlist[w] \subseteq Node
         /\ walkAnswered[w] \cup missed[w] \cup batch[w] \subseteq queried[w]
         /\ Cardinality(batch[w]) <= width[w] /\ (width[w] = RoundWidth \/ width[w] <= KClosest)

\* A clean miss is never reported by a walk one of whose own probes went
\* unanswered: what it could not ask was penalized by a failure before, or its
\* caller was gone.
CleanMissExplained ==
    \A w \in Walk :
        phase[w] = "done" /\ walkResult[w] = "miss" /\ ~cancelled[w] /\ rounds[w] < MaxRounds =>
            \A c \in shortlist[w] \ {Self} :
                c \in walkAnswered[w] \/ (c \notin queried[w] /\ deadUntil[c] > 0)

\* Every walk that has begun ends, although each round may find more contacts to
\* ask and the other walk gives back the slot it waits for.
WalksEnd == \A w \in Walk : phase[w] # "new" ~> phase[w] = "done"
=============================================================================
