---------------------------- MODULE AnswerCache ----------------------------
(***************************************************************************)
(* The resolver's answering path: the response cache with its serve-stale  *)
(* window and its persistence (resolver/cache.go), the single-flight       *)
(* resolution with its slot pools (resolveShared, reapCorpseFlight), the   *)
(* background refreshes (kickRefresh, SweepRefreshes) and the message      *)
(* handler in front of them (ResolveMsg).                                  *)
(*                                                                         *)
(* What a name resolves to is one datum: it is up or gone.  An outcome     *)
(* remembers the instant the namespace was read for it (asof), which is    *)
(* what the staleness properties are about.  Route[k] says who answers     *)
(* last for k: the freens namespace itself, or the upstream a freens-first *)
(* or DNS route ends at, whose NXDOMAIN is never cached.                   *)
(***************************************************************************)
EXTENDS Integers, Sequences, FiniteSets, Absent

CONSTANTS
    Name,        \* cache keys (question name, type, class)
    Route,       \* Name -> {"freens", "upstream"}
    Asker,       \* ServeDNS handlers
    Refresher,   \* background refresh goroutines alive at once
    Ttl,         \* TTL of every positive answer, at most ResponseTTLCap
    NegTtl,      \* NegTTL
    StaleServe,  \* StaleServeSecs
    Prefetch,    \* prefetchWindow
    KickEvery,   \* refreshKickEvery
    ServeCap,    \* serveQueryCap: a client's deadline
    RefreshCap,  \* refreshTimeout: a refresher's deadline
    MaxEntries, SweepEvery, Horizon, SweepBatch,
    Slots,       \* pool -> capacity, pools "walk" and "forward"
    Casts,       \* the names and goroutines that may take part in a behaviour
    MaxAnswerChanges, MaxWedges, MaxCacheRestarts, MaxCacheClock

ASSUME CacheAssumption ==
    /\ Route \in [Name -> {"freens", "upstream"}]
    /\ {Ttl, NegTtl, KickEvery, MaxEntries, SweepEvery} \subseteq Nat \ {0}
    /\ {StaleServe, Prefetch, ServeCap, RefreshCap, Horizon, SweepBatch, MaxCacheClock} \subseteq Nat
    /\ NegTtl <= Ttl + StaleServe /\ ServeCap <= RefreshCap  \* 60 s, 6 h; 30 s, 60 s
    /\ None \notin Name \cup Asker \cup Refresher

Caller == Asker \cup Refresher
Pool(k) == IF Route[k] = "freens" THEN "walk" ELSE "forward"

NoCall == [st |-> "idle", key |-> None, leader |-> None, deadline |-> 0,
         val |-> "none", asof |-> 0]
NoEntry == [val |-> "none", aa |-> FALSE, asof |-> 0, exp |-> 0, hit |-> 0]
Nothing == [k \in Name |-> NoEntry]

VARIABLES
    cast,     \* the member of Casts this behaviour is about
    clock, truth, answerChanges,
    entries,  \* key -> cached outcome
    order,    \* keys of entries, oldest stamp first
    sinceSweep, dirty, cacheFile,
    flights,  \* key -> the caller leading its resolution, or None
    caller,   \* what each goroutine is doing
    busy,     \* pool -> slots taken
    kicked,   \* key -> unix second of the last refresh kick
    wedges, restarts

cacheVars == <<entries, order, sinceSweep, dirty>>
flightVars == <<flights, caller, busy, kicked>>
acVars == <<cast, clock, truth, answerChanges, cacheVars, cacheFile, flightVars, wedges, restarts>>

CachedNames == {k \in Name : entries[k] # NoEntry}

CallRecord ==
    [st : {"idle", "lead", "put", "done", "join", "wedged"}, key : Name \cup {None},
     leader : Caller \cup {None}, deadline : Nat, val : {"none", "up", "gone", "fail"}, asof : Nat]
EntryRecord == [val : {"none", "up", "gone"}, aa : BOOLEAN, asof : Nat, exp : Nat, hit : Nat]

CacheTypeOK ==
    /\ clock \in 0 .. MaxCacheClock
    /\ truth \in [Name -> {"up", "gone"}]
    /\ entries \in [Name -> EntryRecord] /\ cacheFile.entries \in [Name -> EntryRecord]
    /\ cacheFile.at \in Nat
    /\ flights \in [Name -> Caller \cup {None}]
    /\ caller \in [Caller -> CallRecord]

ACInit ==
    /\ cast \in Casts
    /\ clock = 0 /\ truth = [k \in Name |-> "up"] /\ answerChanges = 0
    /\ entries = Nothing /\ order = << >> /\ sinceSweep = 0 /\ dirty = FALSE
    /\ cacheFile = [entries |-> Nothing, order |-> << >>, at |-> 0]
    /\ flights = [k \in Name |-> None] /\ caller = [p \in Caller |-> NoCall]
    /\ busy = [x \in {"walk", "forward"} |-> 0]
    /\ kicked = [k \in Name |-> 0 - KickEvery]
    /\ wedges = 0 /\ restarts = 0

-----------------------------------------------------------------------------
(* cache.go                                                                 *)

\* Fault: a stale answer is served however old it is.
StatusForever(e) ==
    IF e = NoEntry THEN "miss"
    ELSE IF clock < e.exp THEN "fresh"
    ELSE IF e.val = "up" THEN "stale" ELSE "miss"

\* get2: only a positive answer may be served past its expiry.
Status(e) ==
    IF e = NoEntry THEN "miss"
    ELSE IF clock < e.exp THEN "fresh"
    ELSE IF e.val = "up" /\ clock < e.exp + StaleServe THEN "stale"
    ELSE "miss"

OrderWithout(ord, K) == SelectSeq(ord, LAMBDA k : k \notin K)

Drop(K) ==
    /\ entries' = [k \in Name |-> IF k \in K THEN NoEntry ELSE entries[k]]
    /\ order' = OrderWithout(order, K)

\* What putAnswer makes of an outcome: nothing is stored for a failure, nor
\* for an NXDOMAIN that came from upstream.
Stored(k, val, asof) ==
    IF val = "up"
    THEN [val |-> "up", aa |-> Route[k] = "freens", asof |-> asof, exp |-> clock + Ttl,
          hit |-> clock]
    ELSE IF val = "gone" /\ Route[k] = "freens"
    THEN [val |-> "gone", aa |-> TRUE, asof |-> asof, exp |-> clock + NegTtl, hit |-> clock]
    ELSE NoEntry

\* evictOldestLocked, at capacity, even when the key itself is replaced.
Evicted(ord) == IF Len(ord) >= MaxEntries THEN Tail(ord) ELSE ord

PastExpiry == {k \in CachedNames : clock >= entries[k].exp}

\* putAnswer: the periodic sweep, the eviction and the insertion.
PutAnswer(k, val, asof) ==
    LET new   == Stored(k, val, asof)
        kept  == IF entries[k] = NoEntry THEN new ELSE [new EXCEPT !.hit = entries[k].hit]
        sweep == sinceSweep + 1 = SweepEvery
        alive == IF sweep THEN OrderWithout(order, PastExpiry) ELSE order
        left  == OrderWithout(Evicted(alive), {k})
    IN  IF new = NoEntry THEN UNCHANGED cacheVars
        ELSE /\ entries' = [j \in Name |-> IF j = k THEN kept
                                           ELSE IF j \in {left[i] : i \in DOMAIN left}
                                           THEN entries[j] ELSE NoEntry]
             /\ order' = Append(left, k)
             /\ sinceSweep' = IF sweep THEN 0 ELSE sinceSweep + 1
             /\ dirty' = TRUE

\* SaveIfDirty.
\* writePersisted: every entry, in eviction order, with the time of the save.
Written == [entries |-> entries, order |-> order, at |-> clock]

SaveIfDirty ==
    /\ dirty
    /\ dirty' = FALSE
    /\ cacheFile' = Written
    /\ UNCHANGED <<cast, clock, truth, answerChanges, entries, order, sinceSweep, flightVars,
                   wedges, restarts>>

\* LoadFrom keeps the expiry and takes the save time for the last hit.
RestoredEntry(e) == IF e = NoEntry THEN e ELSE [e EXCEPT !.hit = cacheFile.at]

CacheRestart ==
    /\ restarts < MaxCacheRestarts
    /\ restarts' = restarts + 1
    /\ entries' = [k \in Name |-> RestoredEntry(cacheFile.entries[k])]
    /\ order' = cacheFile.order /\ sinceSweep' = 0 /\ dirty' = FALSE
    /\ flights' = [k \in Name |-> None] /\ caller' = [p \in Caller |-> NoCall]
    /\ busy' = [x \in {"walk", "forward"} |-> 0]
    /\ kicked' = [k \in Name |-> 0 - KickEvery]
    /\ UNCHANGED <<cast, clock, truth, answerChanges, cacheFile, wedges>>

-----------------------------------------------------------------------------
(* resolveShared                                                            *)

\* Enter it as p with the deadline d: join the flight, lead a new one, or be
\* refused for want of a slot.
Enter(p, k, d) ==
    IF flights[k] # None
    THEN /\ caller' = [caller EXCEPT ![p] = [NoCall EXCEPT !.st = "join", !.key = k,
                                                 !.leader = flights[k], !.deadline = d]]
         /\ UNCHANGED <<flights, busy>>
    ELSE IF busy[Pool(k)] < Slots[Pool(k)]
    THEN /\ caller' = [caller EXCEPT ![p] = [NoCall EXCEPT !.st = "lead", !.key = k,
                                                 !.deadline = d]]
         /\ flights' = [flights EXCEPT ![k] = p]
         /\ busy' = [busy EXCEPT ![Pool(k)] = @ + 1]
    ELSE UNCHANGED <<flights, caller, busy>>        \* errResolverBusy: SERVFAIL

\* kickRefresh: at most one kick per key and interval; the goroutine is a
\* caller like any other.
Kick(k) ==
    IF clock - kicked[k] < KickEvery \/ Refresher \cap cast = {} THEN UNCHANGED flightVars
    ELSE /\ kicked' = [kicked EXCEPT ![k] = clock]
         /\ \E p \in Refresher \cap cast : caller[p] = NoCall /\ Enter(p, k, clock + RefreshCap)

\* The leader's namespace walk or upstream exchange answers, or fails.
LeaderReads(p) ==
    /\ caller[p].st = "lead"
    /\ \E v \in {truth[caller[p].key], "fail"} :
          caller' = [caller EXCEPT ![p].st = "put", ![p].val = v, ![p].asof = clock]
    /\ UNCHANGED <<cast, clock, truth, answerChanges, cacheVars, cacheFile, flights, busy, kicked,
                   wedges, restarts>>

LeaderPuts(p) ==
    /\ caller[p].st = "put"
    /\ PutAnswer(caller[p].key, caller[p].val, caller[p].asof)
    /\ caller' = [caller EXCEPT ![p].st = "done"]
    /\ UNCHANGED <<cast, clock, truth, answerChanges, cacheFile, flights, busy, kicked, wedges, restarts>>

\* Fault: a flight that ends is left in the table.
LandedKept(p) == flights

\* The flight is removed only if it is still this leader's.
Landed(p) ==
    IF flights[caller[p].key] = p THEN [flights EXCEPT ![caller[p].key] = None] ELSE flights

\* The deferred release of the slot.
Freed(p) == [busy EXCEPT ![Pool(caller[p].key)] = @ - 1]

\* The slot is free, the flight is gone, the followers wake with the outcome.
LeaderDone(p) ==
    /\ caller[p].st = "done"
    /\ busy' = Freed(p)
    /\ flights' = Landed(p)
    /\ caller' = [q \in Caller |->
                     IF q = p \/ (caller[q].st = "join" /\ caller[q].leader = p)
                     THEN NoCall ELSE caller[q]]
    /\ UNCHANGED <<cast, clock, truth, answerChanges, cacheVars, cacheFile, kicked, wedges, restarts>>

\* reapCorpseFlight: only the flight that was joined.
Reap(p) ==
    IF flights[caller[p].key] = caller[p].leader
    THEN [flights EXCEPT ![caller[p].key] = None] ELSE flights

FollowerExpires(p) ==
    /\ caller[p].st = "join" /\ clock >= caller[p].deadline
    /\ flights' = Reap(p)
    /\ caller' = [caller EXCEPT ![p] = NoCall]
    /\ UNCHANGED <<cast, clock, truth, answerChanges, cacheVars, cacheFile, busy, kicked, wedges, restarts>>

\* A leader is lost in a wait that no context ends; its slot is lost with it.
Wedge(p) ==
    /\ wedges < MaxWedges /\ caller[p].st = "lead"
    /\ wedges' = wedges + 1
    /\ caller' = [caller EXCEPT ![p].st = "wedged"]
    /\ UNCHANGED <<cast, clock, truth, answerChanges, cacheVars, cacheFile, flights, busy, kicked, restarts>>

-----------------------------------------------------------------------------
(* ResolveMsg and SweepRefreshes                                            *)

\* A hit is answered at once; one that is stale, or close to its end, also
\* kicks a refresh.
QueryHit(c, k) ==
    LET e == entries[k]
        s == Status(e)
    IN  /\ caller[c] = NoCall /\ s \in {"fresh", "stale"}
        /\ entries' = [entries EXCEPT ![k].hit = clock]
        /\ IF s = "stale" \/ (e.val = "up" /\ e.exp - clock <= Prefetch)
           THEN Kick(k) ELSE UNCHANGED flightVars
        /\ UNCHANGED <<cast, clock, truth, answerChanges, order, sinceSweep, dirty, cacheFile, wedges,
                       restarts>>

QueryMiss(c, k) ==
    /\ caller[c] = NoCall /\ Status(entries[k]) = "miss"
    /\ Drop({k}) /\ Enter(c, k, clock + ServeCap)
    /\ UNCHANGED <<cast, clock, truth, answerChanges, sinceSweep, dirty, cacheFile, kicked, wedges, restarts>>

\* The warm set: positive, hit within the horizon, expired or nearly so; the
\* most recently hit first, at most SweepBatch of them.
Warm == {k \in CachedNames : /\ entries[k].val = "up"
                             /\ clock - entries[k].hit <= Horizon
                             /\ entries[k].exp < clock + Prefetch}
SweepCandidates ==
    {k \in Warm : Cardinality({j \in Warm : entries[j].hit > entries[k].hit}) < SweepBatch}

SweepRefreshes ==
    /\ \E k \in SweepCandidates : clock - kicked[k] >= KickEvery /\ Kick(k)
    /\ UNCHANGED <<cast, clock, truth, answerChanges, cacheVars, cacheFile, wedges, restarts>>

-----------------------------------------------------------------------------
\* The owner of k takes the name down or brings it back.
AnswerChanges(k) ==
    /\ answerChanges < MaxAnswerChanges
    /\ answerChanges' = answerChanges + 1
    /\ truth' = [truth EXCEPT ![k] = IF @ = "up" THEN "gone" ELSE "up"]
    /\ UNCHANGED <<cast, clock, cacheVars, cacheFile, flightVars, wedges, restarts>>

\* Nobody who minds its context outlives its deadline.
CacheTick ==
    /\ clock < MaxCacheClock
    /\ \A p \in Caller : caller[p].st \in {"lead", "put", "join"} => clock < caller[p].deadline
    /\ \A p \in Caller : caller[p].st # "done"
    /\ clock' = clock + 1
    /\ UNCHANGED <<cast, truth, answerChanges, cacheVars, cacheFile, flightVars, wedges, restarts>>

ACNext ==
    \/ \E c \in Asker \cap cast, k \in Name \cap cast : QueryHit(c, k) \/ QueryMiss(c, k)
    \/ \E p \in Caller : LeaderReads(p) \/ LeaderPuts(p) \/ LeaderDone(p) \/ FollowerExpires(p)
    \/ \E p \in Caller : Wedge(p)
    \/ SweepRefreshes
    \/ \E k \in Name \cap cast : AnswerChanges(k)
    \/ SaveIfDirty
    \/ CacheRestart
    \/ CacheTick

\* Every goroutine runs, and time passes.
CallerStep(p) == LeaderReads(p) \/ LeaderPuts(p) \/ LeaderDone(p) \/ FollowerExpires(p)
ACSpec == /\ ACInit /\ [][ACNext]_acVars
          /\ \A p \in Caller : WF_acVars(CallerStep(p))
          /\ WF_acVars(CacheTick)

-----------------------------------------------------------------------------
(* Properties.                                                              *)

\* Nothing the cache would hand out is older than its TTL, the serve-stale
\* window and the longest resolution allow, across evictions, refreshes,
\* racing leaders, and a restart from the saved cache (StaleServeSecs).
AnswersAreRecent ==
    \A k \in Name : Status(entries[k]) # "miss" =>
        clock - entries[k].asof < Ttl + StaleServe + RefreshCap

\* A flight in the table has a leader that is still at it, for that name, and
\* whoever waits for a leader waits for one that will wake it or for its own
\* deadline (the corpse flights of v0.16.3).
FlightsHaveLeaders ==
    /\ \A k \in Name : flights[k] # None =>
          /\ caller[flights[k]].st \in {"lead", "put", "done", "wedged"}
          /\ caller[flights[k]].key = k
    /\ \A p \in Caller : caller[p].st = "join" =>
          /\ caller[caller[p].leader].st \in {"lead", "put", "done", "wedged"}
          /\ caller[caller[p].leader].key = caller[p].key

\* A name is not captured for ever by a leader that got stuck: whoever joined
\* such a flight removes it when its own deadline passes.
CorpseIsReaped ==
    \A p \in Caller, k \in Name :
        (\E q \in Caller : caller[q].st = "join" /\ caller[q].leader = p /\ flights[k] = p
                           /\ caller[q].deadline <= MaxCacheClock)
        ~> flights[k] # p \/ caller[p].st # "wedged"
=============================================================================
