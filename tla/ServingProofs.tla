---------------------------- MODULE ServingProofs ----------------------------
(***************************************************************************)
(* Proofs about what is served from a copy, and at what rate: the rate     *)
(* limiter (RateLimits), the records a node caches (Freshness), the        *)
(* resolver's answer cache and its flights (AnswerCache), and the forwarder*)
(* that asks upstream (Upstream), for any set of sources, names, lookups,  *)
(* callers and forwards, every lease, TTL, window, cap and burst.          *)
(***************************************************************************)
EXTENDS RateLimits, AnswerCache, Upstream, Freshness, TLAPS

-----------------------------------------------------------------------------
(***************************************************************************)
(* The rate limiter, and that it implements one token bucket per source.   *)
(***************************************************************************)

\* A bucket's tokens after a request.
Spend(a) == IF a >= 1 THEN a - 1 ELSE a

\* Whatever room is made for a request of s only drops entries, never its own.
LEMMA TrimmedDrops ==
    ASSUME NEW s \in Source, NEW table \in Trimmed(s)
    PROVE  /\ DOMAIN table \subseteq DOMAIN buckets
           /\ \A r \in DOMAIN table : table[r] = buckets[r]
           /\ s \in DOMAIN buckets => s \in DOMAIN table
<1>1. /\ DOMAIN Swept(buckets) \subseteq DOMAIN buckets
      /\ \A r \in DOMAIN Swept(buckets) : Swept(buckets)[r] = buckets[r]
  BY Zenon  DEF Swept, Without
<1>3. CASE s \in DOMAIN buckets \/ table = buckets
  BY <1>3, Zenon DEF Trimmed
<1>4. CASE s \notin DOMAIN buckets /\ table = Swept(buckets)
  BY <1>1, <1>4, Zenon
<1>5. CASE s \notin DOMAIN buckets /\ \E D \in Evictions(Swept(buckets)) : table = Without(Swept(buckets), D)
  <2>1. PICK D \in Evictions(Swept(buckets)) : table = Without(Swept(buckets), D)
    BY <1>5, Zenon
  <2>2. DOMAIN table = DOMAIN Swept(buckets) \ D /\ \A r \in DOMAIN table : table[r] = Swept(buckets)[r]
    BY <2>1, Zenon DEF Without
  <2> QED
    BY <1>1, <1>5, <2>2, Zenon
<1> QED
  BY <1>3, <1>4, <1>5, Zenon DEF Trimmed

\* A bucket's tokens, refilled lazily, are between none and the burst.
LEMMA AvailableType ==
    ASSUME RateTypeOK, NEW s \in Source
    PROVE  Available(buckets, s) \in 0..LimBurst
<1>1. CASE s \in DOMAIN buckets
  <2> DEFINE b == buckets[s]
             gain == (second - b.last) * LimRate
  <2>1. b.tokens \in 0..LimBurst /\ second - b.last \in Nat
    BY <1>1, RateAssumption, SMTT(60) DEF RateTypeOK
  <2>2. gain \in Nat
    BY <2>1, RateAssumption
  <2> HIDE DEF b, gain
  <2>3. Least(LimBurst, b.tokens + gain) \in 0..LimBurst
    BY <2>1, <2>2, RateAssumption, SMTT(60) DEF Least
  <2> QED
    BY <1>1, <2>3, Zenon DEF Available, b, gain
<1>2. CASE s \notin DOMAIN buckets
  BY <1>2, RateAssumption, SMTT(60) DEF Available
<1> QED
  BY <1>1, <1>2, Zenon

\* The global budget's bucket is a bucket.
LEMMA BudgetType ==
    ASSUME RateTypeOK PROVE BudgetSpent \in [tokens : 0..PacketBurst, last : -1..second]
<1> DEFINE gain == (second - budget.last) * PacketRate
<1>1. /\ budget.tokens \in 0..PacketBurst /\ budget.last \in -1..second /\ second \in Nat
  BY RateAssumption DEF RateTypeOK
<1>2. gain \in Nat
  BY <1>1, RateAssumption, SMTT(60)
<1> HIDE DEF gain
<1>3. BudgetTokens \in 0..PacketBurst
  BY <1>1, <1>2, RateAssumption, SMTT(60) DEF BudgetTokens, Least, gain
<1> QED
  BY <1>1, <1>3, RateAssumption, SMTT(60) DEF BudgetSpent, PacketAllowed

\* What a request leaves: its own bucket charged, the others as they were,
\* the dropped ones unknown.
LEMMA ChargedTable ==
    ASSUME RateTypeOK, NEW s \in Source, NEW table \in Trimmed(s), buckets' = Charged(table, s)
    PROVE  /\ DOMAIN buckets' = DOMAIN table \cup {s}
           /\ \A r \in DOMAIN table \ {s} : buckets'[r] = buckets[r]
           /\ buckets'[s] = [tokens |-> Spend(Available(buckets, s)), last |-> second]
<1>1. Available(table, s) = Available(buckets, s)
  BY TrimmedDrops, Zenon DEF Available
<1> QED
  BY <1>1, TrimmedDrops, Zenon DEF Charged, Spend

\* The table is empty at the start.
LEMMA RateInitInv == RateInit => RateTypeOK
BY RateAssumption DEF RateInit, RateTypeOK

\* Admitting, refusing and sweeping keep the table's types and its cap.
LEMMA RateNextInv == RateTypeOK /\ [RateNext]_rateVars => RateTypeOK'
<1> SUFFICES ASSUME RateTypeOK, [RateNext]_rateVars PROVE RateTypeOK'
  BY Zenon
<1>1. CASE PacketDropped
  BY <1>1, BudgetType, Zenon DEF PacketDropped, RateTypeOK
<1>2. ASSUME NEW s \in Source, Throttle(s) PROVE RateTypeOK'
  <2>1. PICK table \in Trimmed(s) : buckets' = Charged(table, s)
    BY <1>2, Zenon DEF Throttle
  <2>2. second' = second /\ budget' = BudgetSpent
    BY <1>2, Zenon DEF Throttle
  <2> DEFINE left == Spend(Available(buckets, s))
  <2>a. /\ DOMAIN buckets' = DOMAIN table \cup {s} /\ DOMAIN table \subseteq DOMAIN buckets
        /\ \A r \in DOMAIN table \ {s} : buckets'[r] = buckets[r]
        /\ buckets'[s] = [tokens |-> left, last |-> second]
    BY <2>1, ChargedTable, TrimmedDrops, Zenon
  <2>b. left \in 0..LimBurst
    BY AvailableType, RateAssumption, SMTT(60) DEF Spend
  <2> HIDE DEF left
  <2>3. buckets'[s] \in [tokens : 0..LimBurst, last : 0..second]
    BY <2>a, <2>b, RateAssumption, SMTT(60) DEF RateTypeOK
  <2>4. DOMAIN buckets' \subseteq Source
    BY <2>a, Zenon DEF RateTypeOK
  <2>5. ASSUME NEW r \in DOMAIN buckets' PROVE buckets'[r] \in [tokens : 0..LimBurst, last : 0..second]
    BY <2>a, <2>3, <2>5, Zenon DEF RateTypeOK
  <2> QED
    BY <2>2, <2>4, <2>5, BudgetType, Zenon DEF RateTypeOK
<1>3. CASE SecondPasses
  BY <1>3, RateAssumption, SMTT(60) DEF SecondPasses, RateTypeOK
<1>4. CASE UNCHANGED rateVars
  BY <1>4, Zenon DEF rateVars, RateTypeOK
<1> QED
  BY <1>1, <1>2, <1>3, <1>4, Zenon DEF RateNext

\* One tick refills every bucket by the rate, up to the burst.
LEMMA TickRefills ==
    ASSUME RateTypeOK, SecondPasses, NEW s \in Source
    PROVE  Available(buckets, s)' = Limiter!AtMost(Available(buckets, s) + LimRate)
<1>1. CASE s \in DOMAIN buckets
  <2> DEFINE b == buckets[s]
             gain == (second - b.last) * LimRate
  <2>1. b.tokens \in Nat /\ second - b.last \in Nat /\ second \in Nat /\ b.last \in Nat
    BY <1>1, RateAssumption, SMTT(60) DEF RateTypeOK
  <2>2. gain \in Nat
    BY <2>1, RateAssumption, SMTT(60)
  <2>3. ((second + 1) - b.last) * LimRate = gain + LimRate
    <3>1. (second + 1) - b.last = (second - b.last) + 1
      BY <2>1
    <3>2. \A x \in Nat : (x + 1) * LimRate = x * LimRate + LimRate
      BY RateAssumption, SMTT(60)
    <3> QED
      BY <2>1, <3>1, <3>2, Zenon
  <2>4. Available(buckets, s) = Least(LimBurst, b.tokens + gain)
    BY <1>1, Zenon DEF Available
  <2>5. Available(buckets, s)' = Least(LimBurst, b.tokens + (gain + LimRate))
    BY <1>1, <2>3, Zenon DEF Available, SecondPasses
  <2> HIDE DEF b, gain
  <2> QED
    BY <2>1, <2>2, <2>4, <2>5, RateAssumption, SMTT(60) DEF Least, Limiter!AtMost
<1>2. CASE s \notin DOMAIN buckets
  BY <1>2, RateAssumption DEF Available, SecondPasses, Limiter!AtMost
<1> QED
  BY <1>1, <1>2, Zenon

\* The lazily refilled, bounded table implements one always-present token
\* bucket per source (the refill on use, sweepIdleLocked, evictLRULocked):
\* refills are exact across idle time, an idle sweep changes nobody's tokens,
\* and an eviction can only restore a full bucket; for any set of sources, any
\* cap, burst and rate with which an idle entry is full again before it may be
\* swept.
THEOREM LimiterRefines == RateSpec => LimiterIsTokenBuckets
<1>1. RateInit => Limiter!BucketInit
  BY DEF RateInit, Limiter!BucketInit, Available
<1>2. ASSUME RateTypeOK, [RateNext]_rateVars PROVE [Limiter!BucketNext]_(Limiter!bucketVars)
  <2>1. CASE PacketDropped
    BY <2>1, Zenon DEF PacketDropped, Available, Limiter!bucketVars
  <2>2. ASSUME NEW s \in Source, Throttle(s) PROVE Limiter!BucketNext
    <3>1. PICK table \in Trimmed(s) : buckets' = Charged(table, s)
      BY <2>2, Zenon DEF Throttle
    <3> DEFINE F == DOMAIN buckets \ DOMAIN table
    <3>2. second' = second /\ verdict' = <<s, Available(buckets, s) >= 1>>
      BY <2>2, Zenon DEF Throttle
    <3>3. F \in SUBSET Source
      BY <1>2, Zenon DEF RateTypeOK
    <3>4. Available(buckets, s)' = IF Available(buckets, s) >= 1 THEN Available(buckets, s) - 1 ELSE Available(buckets, s)
      <4> DEFINE a == Available(buckets, s)
                 left == Spend(a)
      <4>1. a \in 0..LimBurst /\ left \in 0..LimBurst
        BY <1>2, AvailableType, RateAssumption DEF Spend
      <4>a. buckets'[s] = [tokens |-> left, last |-> second]
        BY <1>2, <3>1, ChargedTable, Zenon
      <4>b. DOMAIN buckets' = DOMAIN table \cup {s}
        BY <1>2, <3>1, ChargedTable, Zenon
      <4>2. buckets'[s] = [tokens |-> left, last |-> second] /\ s \in DOMAIN buckets'
        BY <4>a, <4>b, Zenon
      <4>3. (second - second) * LimRate = 0
        BY <1>2, RateAssumption, SMTT(60) DEF RateTypeOK
      <4> HIDE DEF a, left
      <4>4. Available(buckets, s)' = left
        BY <3>2, <4>1, <4>2, <4>3, RateAssumption, SMTT(60) DEF Available, Least
      <4> QED
        BY <4>4, Zenon DEF a, left, Spend
    <3>5. ASSUME NEW r \in Source \ {s}
          PROVE  Available(buckets, r)' = IF r \in F THEN LimBurst ELSE Available(buckets, r)
      <4>1. /\ DOMAIN buckets' = DOMAIN table \cup {s} /\ DOMAIN table \subseteq DOMAIN buckets
            /\ \A q \in DOMAIN table \ {s} : buckets'[q] = buckets[q]
        BY <1>2, <3>1, ChargedTable, TrimmedDrops, Zenon
      <4> QED
        BY <3>2, <4>1, Zenon DEF Available
    <3>6. Limiter!Request(s, F)
      BY <3>2, <3>4, <3>5, Zenon DEF Limiter!Request
    <3> QED
      BY <3>3, <3>6, Zenon DEF Limiter!BucketNext
  <2>3. CASE SecondPasses
    <3>1. Limiter!Refill
      BY <1>2, <2>3, TickRefills, Zenon DEF Limiter!Refill, SecondPasses
    <3> QED
      BY <3>1, Zenon DEF Limiter!BucketNext
  <2>4. CASE UNCHANGED rateVars
    BY <2>4, Zenon DEF rateVars, Available, Limiter!bucketVars
  <2> QED
    BY <1>2, <2>1, <2>2, <2>3, <2>4, Zenon DEF RateNext
<1> QED
  BY <1>1, <1>2, RateInitInv, RateNextInv, PTL DEF RateSpec, LimiterIsTokenBuckets, Limiter!BucketSpec

\* A bucket that was idle long enough to be swept had refilled to its burst.
LEMMA IdleIsFull ==
    ASSUME RateTypeOK, NEW s \in DOMAIN buckets, second - buckets[s].last > LimIdle
    PROVE  Available(buckets, s) = LimBurst
<1> DEFINE b == buckets[s]
           idle == second - b.last
<1>1. b.tokens \in Nat /\ idle \in Nat /\ idle > LimIdle
  BY RateAssumption DEF RateTypeOK
<1> HIDE DEF idle
<1>2. idle * LimRate >= LimIdle * LimRate
  BY <1>1, RateAssumption
<1>3. idle * LimRate \in Nat /\ idle * LimRate >= LimBurst
  BY <1>1, <1>2, RateAssumption, SMTT(60)
<1> HIDE DEF b
<1>4. Least(LimBurst, b.tokens + idle * LimRate) = LimBurst
  BY <1>1, <1>3, RateAssumption DEF Least
<1> QED
  BY <1>4, Zenon DEF Available, b, idle

\* An idle sweep forgives nothing: a source that still owes tokens is dropped
\* only from a table full of entries too recent to sweep (sweepIdleLocked,
\* evictLRULocked).
THEOREM SweepForgivesNothing == RateSpec => EvictionUnderPressureOnly
<1> DEFINE Recent == {r \in DOMAIN buckets : second - buckets[r].last <= LimIdle}
<1>1. ASSUME RateTypeOK, [RateNext]_rateVars PROVE ForgetsUnderPressure
  <2>1. CASE UNCHANGED buckets
    BY <2>1, Zenon DEF ForgetsUnderPressure
  <2>2. ASSUME NEW x \in Source, Throttle(x), NEW s \in DOMAIN buckets \ DOMAIN buckets'
        PROVE  Available(buckets, s) = LimBurst \/ ~(Cardinality(Recent) < LimMax)
    <3>1. PICK table \in Trimmed(x) : buckets' = Charged(table, x)
      BY <2>2, Zenon DEF Throttle
    <3>2. DOMAIN buckets' = DOMAIN table \cup {x}
      BY <1>1, <3>1, ChargedTable, Zenon
    <3>3. s \notin DOMAIN table
      BY <2>2, <3>2, Zenon
    <3>4. \A r \in DOMAIN buckets : second \in Int /\ buckets[r].last \in Int
      BY <1>1, RateAssumption, SMTT(60) DEF RateTypeOK
    <3>5. DOMAIN Swept(buckets) = Recent
      BY <3>4, RateAssumption, SMTT(60) DEF Swept, Without
    <3>6. CASE table = buckets
      BY <2>2, <3>3, <3>6, Zenon
    <3>7. CASE table = Swept(buckets)
      <4>1. second - buckets[s].last > LimIdle
        BY <2>2, <3>3, <3>4, <3>5, <3>7, RateAssumption, SMTT(60)
      <4> QED
        BY <1>1, <2>2, <4>1, IdleIsFull, Zenon
    <3>8. CASE ~(Cardinality(DOMAIN Swept(buckets)) < LimMax)
      BY <3>5, <3>8, Zenon
    <3> QED
      BY <3>6, <3>7, <3>8, Zenon DEF Trimmed
  <2> QED
    BY <1>1, <2>1, <2>2, Zenon DEF ForgetsUnderPressure, RateNext, rateVars, PacketDropped, SecondPasses
<1> QED
  BY <1>1, RateInitInv, RateNextInv, PTL DEF RateSpec, EvictionUnderPressureOnly

-----------------------------------------------------------------------------
(***************************************************************************)
(* The answer cache: a name in flight has a leader, and an answer's age is *)
(* bounded.                                                                *)
(***************************************************************************)

\* A busy caller has a name, and a follower a leader.
CallersNamed ==
    \A p \in Caller :
        /\ caller[p].st # "idle" => caller[p].key \in Name
        /\ caller[p].st = "join" => caller[p].leader \in Caller

\* A resolution is younger than the longest deadline ...
CallersInTime ==
    \A p \in Caller :
        /\ caller[p].st \in {"lead", "put"} =>
              clock <= caller[p].deadline /\ caller[p].deadline <= clock + RefreshCap
        /\ caller[p].st = "put" =>
              caller[p].asof <= clock /\ caller[p].deadline <= caller[p].asof + RefreshCap

\* ... and what is cached, or saved, expires within that and its TTL of the
\* instant it was read.
Timely(e) ==
    /\ e.val = "up" => e.exp <= e.asof + RefreshCap + Ttl
    /\ e.val # "up" => e.exp <= e.asof + RefreshCap + NegTtl

\* What memory and the cache file hold was true recently.
EntriesTimely == \A k \in Name : Timely(entries[k]) /\ Timely(cacheFile.entries[k])

\* The inductive invariant: calls and flights name each other, and nothing held
\* or carried is older than its lifetime allows.
CacheInv == CacheTypeOK /\ CallersNamed /\ FlightsHaveLeaders /\ CallersInTime /\ EntriesTimely

\* The empty call and the empty entry.
LEMMA NoCallType == NoCall \in CallRecord /\ NoEntry \in EntryRecord /\ Timely(NoEntry)
BY CacheAssumption DEF NoCall, NoEntry, CallRecord, EntryRecord, Timely

\* At the start nobody calls and nothing is cached.
LEMMA CacheInitInv == ACInit => CacheInv
<1> SUFFICES ASSUME ACInit PROVE CacheInv
  BY Zenon
<1>1. CacheTypeOK
  BY NoCallType, CacheAssumption DEF ACInit, CacheTypeOK, Nothing
<1>2. CallersNamed /\ FlightsHaveLeaders /\ CallersInTime
  BY CacheAssumption, Zenon DEF ACInit, CallersNamed, FlightsHaveLeaders, CallersInTime, NoCall, Caller
<1>3. EntriesTimely
  BY NoCallType, Zenon DEF ACInit, EntriesTimely, Nothing
<1> QED
  BY <1>1, <1>2, <1>3, Zenon DEF CacheInv

\* What the cache and the callers' part of the invariant each read.
CacheHalf ==
    /\ entries \in [Name -> EntryRecord] /\ cacheFile.entries \in [Name -> EntryRecord]
    /\ cacheFile.at \in Nat /\ EntriesTimely
\* The half of the invariant about calls and flights.
CallHalf ==
    /\ clock \in 0 .. MaxCacheClock /\ truth \in [Name -> {"up", "gone"}]
    /\ flights \in [Name -> Caller \cup {None}] /\ caller \in [Caller -> CallRecord]
    /\ CallersNamed /\ FlightsHaveLeaders /\ CallersInTime

\* The invariant is its two halves.
LEMMA Halves == CacheInv <=> CacheHalf /\ CallHalf
BY Zenon  DEF CacheInv, CacheHalf, CallHalf, CacheTypeOK

\* An idle caller that enters resolveShared joins a flight or leads one.
LEMMA EnterInv ==
    ASSUME CallHalf, NEW p \in Caller, NEW k \in Name, NEW d \in Nat, caller[p] = NoCall,
           clock <= d, d <= clock + RefreshCap, Enter(p, k, d), clock' = clock, truth' = truth
    PROVE  CallHalf'
<1> USE CacheAssumption DEF CallHalf
<1> DEFINE joined == [NoCall EXCEPT !.st = "join", !.key = k, !.leader = flights[k], !.deadline = d]
           led == [NoCall EXCEPT !.st = "lead", !.key = k, !.deadline = d]
<1>1. None \notin Caller /\ NoCall.st = "idle"
  BY Zenon  DEF Caller, NoCall
<1>2. CASE flights[k] # None
  <2>1. /\ caller' = [caller EXCEPT ![p] = joined] /\ flights' = flights
    BY <1>2, Zenon DEF Enter
  <2>2. /\ joined \in CallRecord /\ joined.st = "join" /\ joined.key = k /\ joined.leader = flights[k]
    BY <1>2, Zenon DEF NoCall, CallRecord
  <2> HIDE DEF joined
  <2>3. caller' \in [Caller -> CallRecord]
    BY <2>1, <2>2, Zenon
  <2>4. CallersNamed' /\ CallersInTime'
    BY <1>1, <1>2, <2>1, <2>2, Zenon DEF CallersNamed, CallersInTime
  <2>5. FlightsHaveLeaders'
    BY <1>1, <1>2, <2>1, <2>2 DEF FlightsHaveLeaders, CallersNamed
  <2> QED
    BY <2>1, <2>3, <2>4, <2>5, Zenon
<1>3. CASE flights[k] = None /\ busy[Pool(k)] < Slots[Pool(k)]
  <2>1. /\ caller' = [caller EXCEPT ![p] = led] /\ flights' = [flights EXCEPT ![k] = p]
    BY <1>3, Zenon DEF Enter
  <2>2. /\ led \in CallRecord /\ led.st = "lead" /\ led.key = k /\ led.deadline = d
    BY Zenon   DEF NoCall, CallRecord
  <2> HIDE DEF led
  <2>3. caller' \in [Caller -> CallRecord]
    BY <2>1, <2>2, Zenon
  <2>4. CallersNamed' /\ CallersInTime'
    BY <1>1, <1>3, <2>1, <2>2, Zenon DEF CallersNamed, CallersInTime
  <2>5. FlightsHaveLeaders'
    BY <1>1, <1>3, <2>1, <2>2, SMTT(60) DEF FlightsHaveLeaders, CallersNamed
  <2> QED
    BY <2>1, <2>3, <2>4, <2>5, Zenon
<1>4. CASE UNCHANGED <<flights, caller>>
  BY <1>4, Zenon DEF CallersNamed, FlightsHaveLeaders, CallersInTime
<1> QED
  BY <1>2, <1>3, <1>4, Zenon DEF Enter
\* A step that touches only the cache keeps the half about calls.
LEMMA CallHalfStays ==
    CallHalf /\ UNCHANGED <<clock, truth, flights, caller>> => CallHalf'
BY DEF CallHalf, CallersNamed, FlightsHaveLeaders, CallersInTime

\* A step that touches only the calls keeps the half about the cache.
LEMMA CacheHalfStays == CacheHalf /\ UNCHANGED <<entries, cacheFile>> => CacheHalf'
BY Zenon  DEF CacheHalf, EntriesTimely, Timely

\* Starting a background refresh keeps the half about calls.
LEMMA KickInv ==
    ASSUME CallHalf, NEW k \in Name, Kick(k), clock' = clock, truth' = truth
    PROVE  CallHalf'
<1>1. CASE UNCHANGED flightVars
  BY <1>1, CallHalfStays, Zenon DEF flightVars
<1>2. ASSUME NEW p \in Refresher, caller[p] = NoCall, Enter(p, k, clock + RefreshCap)
      PROVE  CallHalf'
  <2>1. p \in Caller /\ clock + RefreshCap \in Nat /\ clock <= clock + RefreshCap
    BY CacheAssumption DEF Caller, CallHalf
  <2> QED
    BY <1>2, <2>1, EnterInv
<1> QED
  BY <1>1, <1>2, Zenon DEF Kick

\* putAnswer stores an outcome that was read within the longest deadline.
LEMMA PutAnswerInv ==
    ASSUME CacheHalf, clock \in Nat, NEW k \in Name, NEW val \in {"none", "up", "gone", "fail"},
           NEW asof \in Nat, clock <= asof + RefreshCap, PutAnswer(k, val, asof), cacheFile' = cacheFile
    PROVE  CacheHalf'
<1> DEFINE new == Stored(k, val, asof)
           kept == IF entries[k] = NoEntry THEN new ELSE [new EXCEPT !.hit = entries[k].hit]
<1>1. new \in EntryRecord /\ Timely(new)
  BY CacheAssumption, NoCallType DEF Stored, EntryRecord, Timely
<1>2. kept \in EntryRecord /\ Timely(kept)
  BY <1>1, Zenon DEF CacheHalf, EntryRecord, Timely
<1>3. \A j \in Name : entries'[j] \in {entries[j], NoEntry, kept}
  BY Zenon  DEF PutAnswer, CacheHalf, cacheVars
<1>4. entries' \in [Name -> EntryRecord]
  <2>1. entries' = entries \/ entries' = [j \in Name |-> entries'[j]]
    BY Zenon  DEF PutAnswer, cacheVars
  <2> HIDE DEF kept
  <2> QED
    BY <1>2, <1>3, <2>1, NoCallType, Zenon DEF CacheHalf
<1> HIDE DEF kept, new
<1> QED
  BY <1>2, <1>3, <1>4, NoCallType, Zenon DEF CacheHalf, EntriesTimely

\* Lookups, leaders, waiters, refreshes, expiry, saving, loading and restarts
\* keep the invariant.
LEMMA CacheNextInv == CacheInv /\ [ACNext]_acVars => CacheInv'
<1> SUFFICES ASSUME CacheInv, [ACNext]_acVars PROVE CacheInv'
  BY Zenon
<1> SUFFICES CacheHalf' /\ CallHalf'
  BY Halves, Zenon DEF CacheInv, CacheTypeOK, CacheHalf, CallHalf
<1>0. CacheHalf /\ CallHalf
  BY Halves, Zenon
<1>1. ASSUME NEW c \in Asker, NEW k \in Name, QueryHit(c, k) PROVE CacheHalf' /\ CallHalf'
  <2>1. CacheHalf'
    BY <1>0, <1>1, CacheAssumption, SMTT(60) DEF QueryHit, CacheHalf, CallHalf, EntriesTimely, Timely, EntryRecord
  <2>0. UNCHANGED <<clock, truth>>
    BY <1>1, Zenon DEF QueryHit
  <2>2. CASE Kick(k)
    BY <1>0, <2>0, <2>1, <2>2, KickInv, Zenon
  <2>3. CASE UNCHANGED flightVars
    BY <1>0, <2>0, <2>1, <2>3, CallHalfStays, Zenon DEF flightVars
  <2> QED
    BY <1>1, <2>1, <2>2, <2>3, Zenon DEF QueryHit
<1>2. ASSUME NEW c \in Asker, NEW k \in Name, QueryMiss(c, k) PROVE CacheHalf' /\ CallHalf'
  <2>1. CacheHalf'
    BY <1>0, <1>2, NoCallType, Zenon DEF QueryMiss, Drop, CacheHalf, EntriesTimely, Timely
  <2>2. c \in Caller /\ clock + ServeCap \in Nat /\ clock <= clock + ServeCap /\ clock + ServeCap <= clock + RefreshCap
    BY <1>0, CacheAssumption DEF Caller, CallHalf
  <2>3. CallHalf'
    BY <1>0, <1>2, <2>2, EnterInv, Zenon DEF QueryMiss
  <2> QED
    BY <2>1, <2>3, Zenon
<1>3. ASSUME NEW p \in Caller, LeaderReads(p) PROVE CacheHalf' /\ CallHalf'
  <2>1. CacheHalf'
    BY <1>0, <1>3, CacheHalfStays, Zenon DEF LeaderReads, cacheVars
  <2>2. PICK v \in {truth[caller[p].key], "fail"} :
           caller' = [caller EXCEPT ![p].st = "put", ![p].val = v, ![p].asof = clock]
    BY <1>3, Zenon DEF LeaderReads
  <2>3. v \in {"none", "up", "gone", "fail"} /\ caller[p].st = "lead"
    BY <1>0, <1>3, Zenon DEF LeaderReads, CallHalf, CallersNamed
  <2>4. caller' \in [Caller -> CallRecord]
    <3>1. caller \in [Caller -> CallRecord] /\ clock \in Nat
      BY <1>0, CacheAssumption DEF CallHalf
    <3>2. [caller[p] EXCEPT !.st = "put", !.val = v, !.asof = clock] \in CallRecord
      BY <2>3, <3>1, Zenon DEF CallRecord
    <3>3. caller' = [caller EXCEPT ![p] = [caller[p] EXCEPT !.st = "put", !.val = v, !.asof = clock]]
      BY <2>2, <3>1, Zenon DEF CallRecord
    <3> QED
      BY <3>1, <3>2, <3>3, Zenon
  <2>5. /\ \A q \in Caller : caller'[q].key = caller[q].key /\ caller'[q].leader = caller[q].leader
                             /\ caller'[q].deadline = caller[q].deadline
        /\ \A q \in Caller \ {p} : caller'[q] = caller[q]
        /\ caller'[p].st = "put" /\ caller'[p].asof = clock
    BY <1>0, <2>2 DEF CallHalf, CallRecord
  <2>6. UNCHANGED <<clock, truth, flights>>
    BY <1>3, Zenon DEF LeaderReads
  <2>7. CallersNamed' /\ CallersInTime'
    BY <1>0, <2>3, <2>5, <2>6, CacheAssumption, SMTT(60) DEF CallHalf, CallersNamed, CallersInTime
  <2>8. FlightsHaveLeaders'
    BY <1>0, <2>3, <2>5, <2>6, CacheAssumption DEF CallHalf, FlightsHaveLeaders, CallersNamed
  <2> QED
    BY <1>0, <2>1, <2>4, <2>6, <2>7, <2>8, Zenon DEF CallHalf
<1>4. ASSUME NEW p \in Caller, LeaderPuts(p) PROVE CacheHalf' /\ CallHalf'
  <2>1. /\ caller[p].st = "put" /\ caller[p].key \in Name /\ caller[p].asof \in Nat /\ clock \in Nat
        /\ caller[p].val \in {"none", "up", "gone", "fail"} /\ clock <= caller[p].asof + RefreshCap
    BY <1>0, <1>4, CacheAssumption DEF LeaderPuts, CallHalf, CallersNamed, CallersInTime, CallRecord
  <2>2. CacheHalf'
    BY <1>0, <1>4, <2>1, PutAnswerInv, Zenon DEF LeaderPuts
  <2>3. caller' = [caller EXCEPT ![p].st = "done"] /\ UNCHANGED <<clock, truth, flights>>
    BY <1>4, Zenon DEF LeaderPuts
  <2>4. caller' \in [Caller -> CallRecord]
    BY <1>0, <2>3 DEF CallHalf, CallRecord
  <2>5. /\ \A q \in Caller : caller'[q].key = caller[q].key /\ caller'[q].leader = caller[q].leader
        /\ \A q \in Caller \ {p} : caller'[q] = caller[q]
        /\ caller'[p].st = "done"
    BY <1>0, <2>3, Zenon DEF CallHalf, CallRecord
  <2>6. CallersNamed' /\ CallersInTime'
    BY <1>0, <2>1, <2>3, <2>5, Zenon DEF CallHalf, CallersNamed, CallersInTime
  <2>7. FlightsHaveLeaders'
    BY <1>0, <2>1, <2>3, <2>5, CacheAssumption DEF CallHalf, FlightsHaveLeaders, CallersNamed
  <2> QED
    BY <1>0, <2>2, <2>3, <2>4, <2>6, <2>7, Zenon DEF CallHalf
<1>5. ASSUME NEW p \in Caller, LeaderDone(p) PROVE CacheHalf' /\ CallHalf'
  <2>1. CacheHalf'
    BY <1>0, <1>5, CacheHalfStays, Zenon DEF LeaderDone, cacheVars
  <2>2. /\ UNCHANGED <<clock, truth>> /\ caller[p].st = "done" /\ caller[p].key \in Name
        /\ flights' = Landed(p)
        /\ caller' = [q \in Caller |-> IF q = p \/ (caller[q].st = "join" /\ caller[q].leader = p)
                                       THEN NoCall ELSE caller[q]]
    BY <1>0, <1>5, Zenon DEF LeaderDone, CallHalf, CallersNamed
  <2>3. flights' \in [Name -> Caller \cup {None}] /\ caller' \in [Caller -> CallRecord]
    BY <1>0, <2>2, NoCallType, Zenon DEF CallHalf, Landed
  <2>4. \A q \in Caller : \/ caller'[q] = NoCall /\ (q = p \/ caller[q].st = "join")
                          \/ q # p /\ caller'[q] = caller[q] /\ ~(caller[q].st = "join" /\ caller[q].leader = p)
    BY <2>2, Zenon
  <2>5. \A k \in Name : flights'[k] = None \/ (flights'[k] = flights[k] /\ flights[k] # p)
    BY <1>0, <2>2 DEF CallHalf, FlightsHaveLeaders, Landed
  <2>6. NoCall.st = "idle"
    BY Zenon  DEF NoCall
  <2>7. CallersNamed' /\ CallersInTime'
    BY <1>0, <2>2, <2>4, <2>6, Zenon DEF CallHalf, CallersNamed, CallersInTime
  <2>8. FlightsHaveLeaders'
    BY <1>0, <2>2, <2>4, <2>5, <2>6, CacheAssumption DEF CallHalf, FlightsHaveLeaders, CallersNamed
  <2> QED
    BY <1>0, <2>1, <2>2, <2>3, <2>7, <2>8, Zenon DEF CallHalf
<1>6. ASSUME NEW p \in Caller, FollowerExpires(p) PROVE CacheHalf' /\ CallHalf'
  <2>1. CacheHalf'
    BY <1>0, <1>6, CacheHalfStays, Zenon DEF FollowerExpires, cacheVars
  <2>2. /\ UNCHANGED <<clock, truth>> /\ caller[p].st = "join" /\ caller[p].key \in Name
        /\ flights' = Reap(p) /\ caller' = [caller EXCEPT ![p] = NoCall]
    BY <1>0, <1>6, Zenon DEF FollowerExpires, CallHalf, CallersNamed
  <2>3. flights' \in [Name -> Caller \cup {None}] /\ caller' \in [Caller -> CallRecord]
    BY <1>0, <2>2, NoCallType, Zenon DEF CallHalf, Reap
  <2>4. \A k \in Name : flights'[k] = None \/ flights'[k] = flights[k]
    BY <1>0, <2>2, Zenon DEF CallHalf, Reap
  <2>5. NoCall.st = "idle"
    BY Zenon  DEF NoCall
  <2>6. CallersNamed' /\ CallersInTime'
    BY <1>0, <2>2, <2>5, Zenon DEF CallHalf, CallersNamed, CallersInTime
  <2>7. FlightsHaveLeaders'
    BY <1>0, <2>2, <2>4, <2>5, CacheAssumption DEF CallHalf, FlightsHaveLeaders, CallersNamed
  <2> QED
    BY <1>0, <2>1, <2>2, <2>3, <2>6, <2>7, Zenon DEF CallHalf
<1>7. ASSUME NEW p \in Caller, Wedge(p) PROVE CacheHalf' /\ CallHalf'
  <2>1. CacheHalf'
    BY <1>0, <1>7, CacheHalfStays, Zenon DEF Wedge, cacheVars
  <2>2. caller[p].st = "lead" /\ caller' = [caller EXCEPT ![p].st = "wedged"] /\ UNCHANGED <<clock, truth, flights>>
    BY <1>7, Zenon DEF Wedge
  <2>3. caller' \in [Caller -> CallRecord]
    BY <1>0, <2>2 DEF CallHalf, CallRecord
  <2>4. /\ \A q \in Caller : caller'[q].key = caller[q].key /\ caller'[q].leader = caller[q].leader
        /\ \A q \in Caller \ {p} : caller'[q] = caller[q]
        /\ caller'[p].st = "wedged"
    BY <1>0, <2>2, Zenon DEF CallHalf, CallRecord
  <2>5. CallersNamed' /\ CallersInTime'
    BY <1>0, <2>2, <2>4, Zenon DEF CallHalf, CallersNamed, CallersInTime
  <2>6. FlightsHaveLeaders'
    BY <1>0, <2>2, <2>4, CacheAssumption DEF CallHalf, FlightsHaveLeaders, CallersNamed
  <2> QED
    BY <1>0, <2>1, <2>2, <2>3, <2>5, <2>6, Zenon DEF CallHalf
<1>8. CASE SweepRefreshes
  <2>1. PICK k \in Name : Kick(k)
    BY <1>8, Zenon DEF SweepRefreshes, SweepCandidates, Warm, CachedNames
  <2>2. UNCHANGED <<clock, truth, entries, cacheFile>>
    BY <1>8, Zenon DEF SweepRefreshes, cacheVars
  <2> QED
    BY <1>0, <2>1, <2>2, KickInv, CacheHalfStays, Zenon
<1>9. ASSUME NEW k \in Name, AnswerChanges(k) PROVE CacheHalf' /\ CallHalf'
  <2>1. UNCHANGED <<clock, flights, caller, entries, cacheFile>> /\ truth' \in [Name -> {"up", "gone"}]
    BY <1>0, <1>9, Zenon DEF AnswerChanges, CallHalf, cacheVars, flightVars
  <2>2. CallHalf'
    BY <1>0, <2>1, Zenon DEF CallHalf, CallersNamed, FlightsHaveLeaders, CallersInTime
  <2> QED
    BY <1>0, <2>1, <2>2, CacheHalfStays, Zenon
<1>10. CASE SaveIfDirty
  <2>1. CallHalf'
    BY <1>0, <1>10, CallHalfStays, Zenon DEF SaveIfDirty, flightVars
  <2>2. CacheHalf'
    BY <1>0, <1>10 DEF SaveIfDirty, Written, CacheHalf, CallHalf, EntriesTimely, Timely
  <2> QED
    BY <2>1, <2>2, Zenon
<1>11. CASE CacheRestart
  <2>1. CacheHalf'
    <3>1. \A k \in Name : /\ RestoredEntry(cacheFile.entries[k]) \in EntryRecord
                          /\ Timely(RestoredEntry(cacheFile.entries[k]))
      BY <1>0, SMTT(60) DEF CacheHalf, EntriesTimely, Timely, RestoredEntry, EntryRecord
    <3> QED
      BY <1>0, <1>11, <3>1, Zenon DEF CacheRestart, CacheHalf, EntriesTimely, Timely
  <2>2. CallHalf'
    BY <1>0, <1>11, NoCallType, CacheAssumption, Zenon
    DEF CacheRestart, CallHalf, CallersNamed, FlightsHaveLeaders, CallersInTime, NoCall
  <2> QED
    BY <2>1, <2>2, Zenon
<1>12. CASE CacheTick
  <2>1. CacheHalf'
    BY <1>0, <1>12, CacheHalfStays, Zenon DEF CacheTick, cacheVars
  <2>2. CallHalf'
    BY <1>0, <1>12, CacheAssumption
    DEF CacheTick, flightVars, CallHalf, CallersNamed, FlightsHaveLeaders, CallersInTime, CallRecord
  <2> QED
    BY <2>1, <2>2, Zenon
<1>13. CASE UNCHANGED acVars
  BY <1>0, <1>13, CacheHalfStays, CallHalfStays, Zenon DEF acVars, cacheVars, flightVars
<1> QED
  BY <1>1, <1>2, <1>3, <1>4, <1>5, <1>6, <1>7, <1>8, <1>9, <1>10, <1>11, <1>12, <1>13, Zenon DEF ACNext

\* A name in flight has a leader that is still at it, and whoever joined a
\* flight waits for such a leader (the flight table of the answer cache):
\* however leaders end, wedge, are abandoned or kicked, and for any number of
\* names and callers.
THEOREM FlightsLed == ACSpec => []FlightsHaveLeaders
<1>1. CacheInv => FlightsHaveLeaders
  BY Zenon  DEF CacheInv
<1> QED
  BY <1>1, CacheInitInv, CacheNextInv, PTL DEF ACSpec

\* Nothing the cache would hand out is older than its TTL, the serve-stale
\* window and the longest resolution allow (get2, put and the cache file):
\* across evictions, refreshes, racing leaders and restarts, for every TTL,
\* window and cap.
THEOREM AnswersRecent == ACSpec => []AnswersAreRecent
<1>1. CacheInv => AnswersAreRecent
  BY CacheAssumption
  DEF CacheInv, CacheTypeOK, EntriesTimely, Timely, AnswersAreRecent, Status, EntryRecord
<1> QED
  BY <1>1, CacheInitInv, CacheNextInv, PTL DEF ACSpec

-----------------------------------------------------------------------------
(***************************************************************************)
(* The forwarder: every leg is tried, and none before its turn.            *)
(***************************************************************************)

\* What holds of every forward in flight: its legs are the ones its upstream
\* calls for, the plaintext loop only fails after the last server, nothing is
\* asked in plaintext before its time, and a failure was a failure of all.
Sane(s) ==
    /\ s.up # None => (s.doh = "off" <=> s.up.doh = "none")
    /\ s.plain # "truncated" /\ s.result # "truncated"
    /\ s.plain = "failed" => s.srv = NServers + 1
    /\ s.plain # "failed" => s.srv \in 1 .. NServers
    /\ s.up # None /\ s.plain \in {"udp", "tcp", "ok"} => s.waited \/ s.doh \in {"off", "failed"}
    /\ s.result = "failed" =>
          /\ s.up.doh # "none" => s.doh = "failed"
          /\ s.up.fallback => s.srv = NServers + 1

\* The inductive invariant: every forward is at a leg it may be at, with the
\* legs before it behind it.
UpInv == UpTypeOK /\ \A f \in Fwd : Sane(fwd[f])

\* A step of one forward keeps the invariant when it leaves it sane.
LEMMA OneForward ==
    ASSUME UpInv, NEW f \in Fwd, NEW s \in FwdRecord, Sane(s), fwd' = [fwd EXCEPT ![f] = s]
    PROVE  fwd' \in [Fwd -> FwdRecord] /\ \A g \in Fwd : Sane(fwd'[g])
BY Zenon  DEF UpInv, UpTypeOK

\* A forward that is not under way.
LEMMA IdleForward == NoForward \in FwdRecord /\ Sane(NoForward)
BY UpstreamAssumption DEF NoForward, FwdRecord, Sane, Gens

\* The retry loop of the plaintext leg stays in bounds.
LEMMA NextTrySane ==
    ASSUME NEW s \in FwdRecord, Sane(s), s.up # None, s.result = "none",
           s.plain \in {"udp", "tcp"}
    PROVE  NextTry(s) \in FwdRecord /\ Sane(NextTry(s))
<1>0. /\ NServers \in Nat /\ NAttempts \in Nat \ {0} /\ s.srv \in 1 .. NServers /\ s.try \in 1 .. NAttempts
  BY UpstreamAssumption, Zenon DEF FwdRecord, Sane
<1>1. CASE s.try < NAttempts
  <2>1. NextTry(s) = [s EXCEPT !.try = s.try + 1, !.plain = "udp"] /\ s.try + 1 \in 1 .. NAttempts
    BY <1>0, <1>1 DEF NextTry
  <2> QED
    BY <1>0, <2>1, Zenon DEF FwdRecord, Sane
<1>2. CASE ~(s.try < NAttempts) /\ s.srv < NServers
  <2>1. /\ NextTry(s) = [s EXCEPT !.srv = s.srv + 1, !.try = 1, !.plain = "udp"]
        /\ s.srv + 1 \in 1 .. NServers /\ s.srv + 1 \in 1 .. NServers + 1 /\ 1 \in 1 .. NAttempts
    BY <1>0, <1>2 DEF NextTry
  <2>2. NextTry(s) \in FwdRecord
    BY <2>1, Zenon DEF FwdRecord
  <2>3. Sane(NextTry(s))
    BY <2>1, Zenon DEF FwdRecord, Sane
  <2> QED
    BY <2>2, <2>3, Zenon
<1>3. CASE ~(s.try < NAttempts) /\ ~(s.srv < NServers)
  <2>0. s.srv = NServers
    BY <1>0, <1>3
  <2>1. /\ NextTry(s) = [s EXCEPT !.srv = NServers + 1, !.plain = "failed"]
        /\ NServers + 1 \in 1 .. NServers + 1
    BY <1>0, <1>3, <2>0 DEF NextTry
  <2> QED
    BY <1>0, <2>1, Zenon DEF FwdRecord, Sane
<1> QED
  BY <1>1, <1>2, <1>3, Zenon

\* At the start no forward is under way.
LEMMA UpInitInv == UpInit => UpInv
BY IdleForward, UpstreamAssumption, SMTT(60) DEF UpInit, UpInv, UpTypeOK, Gens

\* Starting, failing over, answering and giving up keep every forward sane.
LEMMA UpNextInv == UpInv /\ [UpNext]_upVars => UpInv'
<1> SUFFICES ASSUME UpInv, [UpNext]_upVars PROVE UpInv'
  BY Zenon
<1>0. fwd \in [Fwd -> FwdRecord] /\ (\A f \in Fwd : Sane(fwd[f])) /\ swaps \in Gens /\ ref \in Upstreams
  BY Zenon  DEF UpInv, UpTypeOK
<1> DEFINE RestStays == UNCHANGED <<ref, dohDegraded, pinned, stale, resolved, swaps>>
           To(f, s) == s \in FwdRecord /\ Sane(s) /\ fwd' = [fwd EXCEPT ![f] = s]
<1>a. ASSUME NEW f \in Fwd, NEW s, To(f, s), RestStays PROVE UpInv'
  BY <1>a, OneForward, Zenon DEF UpInv, UpTypeOK
<1>b. ASSUME NEW f \in Fwd, NEW s, To(f, s), NEW b \in BOOLEAN,
             dohDegraded' = [dohDegraded EXCEPT ![fwd[f].gen] = b],
             UNCHANGED <<ref, pinned, stale, resolved, swaps>>
      PROVE  UpInv'
  BY <1>b, OneForward, Zenon DEF UpInv, UpTypeOK
<1> HIDE DEF To
<1>1. ASSUME NEW f \in Fwd, Begin(f) PROVE UpInv'
  <2> DEFINE d == Legs(ref).doh
             l == Legs(ref).plain
             s == [NoForward EXCEPT !.up = ref, !.gen = swaps, !.doh = d, !.plain = l]
  <2>1. ref \in [doh : {"none", "name", "address"}, fallback : BOOLEAN, hedged : BOOLEAN]
    BY <1>0, <1>1, UpstreamAssumption, Zenon DEF Begin
  <2>2. d \in {"off", "dial"} /\ (d = "off" <=> ref.doh = "none")
    BY Zenon  DEF Legs
  <2>3. l \in {"udp", "wait", "off"} /\ (l = "udp" <=> ref.doh = "none")
    BY Zenon  DEF Legs
  <2>4. fwd' = [fwd EXCEPT ![f] = s] /\ RestStays
    BY <1>1, Zenon DEF Begin
  <2> HIDE DEF d, l
  <2>5. /\ s.up = ref /\ s.doh = d /\ s.plain = l /\ s.srv = 1 /\ s.waited = FALSE
        /\ s.result = "none"
    BY Zenon  DEF NoForward
  <2>6. s \in FwdRecord
    BY <1>0, <2>2, <2>3, IdleForward, Zenon DEF FwdRecord
  <2> HIDE DEF s
  <2>7. Sane(s)
    BY <2>1, <2>2, <2>3, <2>5, UpstreamAssumption, SMTT(60) DEF Sane
  <2> QED
    BY <1>a, <2>4, <2>6, <2>7, Zenon DEF To
<1>2. ASSUME NEW f \in Fwd, Done(f) \/ Cancel(f) PROVE UpInv'
  BY <1>2, <1>a, IdleForward, Zenon DEF Done, Cancel, Answered, To
<1>3. ASSUME NEW f \in Fwd, PlainExchange(f) PROVE UpInv'
  <2>1. /\ fwd[f] \in FwdRecord /\ Sane(fwd[f]) /\ fwd[f].up # None /\ RestStays
        /\ fwd[f].result = "none" /\ fwd[f].plain \in {"udp", "tcp"}
    BY <1>0, <1>3, Zenon DEF PlainExchange, Active
  <2>2. \A r \in {"ok", "tcp"} :
           [fwd[f] EXCEPT !.plain = r] \in FwdRecord /\ Sane([fwd[f] EXCEPT !.plain = r])
    BY <2>1, Zenon DEF FwdRecord, Sane
  <2>3. NextTry(fwd[f]) \in FwdRecord /\ Sane(NextTry(fwd[f]))
    BY <2>1, NextTrySane, Zenon
  <2>4. \E s \in {[fwd[f] EXCEPT !.plain = "ok"], NextTry(fwd[f]), [fwd[f] EXCEPT !.plain = "tcp"]} :
           fwd' = [fwd EXCEPT ![f] = s]
    BY <1>3, Zenon DEF PlainExchange, TcpRetry
  <2> QED
    BY <1>a, <2>1, <2>2, <2>3, <2>4, Zenon DEF To
<1>4. ASSUME NEW f \in Fwd, NEW r \in {"boot", "post", "ok", "failed"}, Active(f),
             fwd[f].doh \in {"dial", "boot", "post"}
      PROVE  /\ [fwd[f] EXCEPT !.doh = r] \in FwdRecord /\ Sane([fwd[f] EXCEPT !.doh = r])
             /\ [fwd EXCEPT ![f].doh = r] = [fwd EXCEPT ![f] = [fwd[f] EXCEPT !.doh = r]]
  BY <1>0, <1>4 DEF FwdRecord, Sane, Active
<1>5. ASSUME NEW f \in Fwd, Dial(f) PROVE UpInv'
  BY <1>5, <1>4, <1>a, Zenon DEF Dial, To
<1>6. ASSUME NEW f \in Fwd, Bootstrap(f) PROVE UpInv'
  <2>1. fwd' = [fwd EXCEPT ![f] = [fwd[f] EXCEPT !.doh = "post"]]
    BY <1>6, <1>4, Zenon DEF Bootstrap
  <2>2. fwd' \in [Fwd -> FwdRecord] /\ \A g \in Fwd : Sane(fwd'[g])
    BY <1>6, <1>4, <2>1, OneForward, Zenon DEF Bootstrap
  <2>3. /\ resolved' \in 0 .. MaxBoots /\ pinned' \in [Gens -> 0 .. resolved']
        /\ stale' \in [Gens -> BOOLEAN]
    <3>1. /\ resolved \in 0 .. MaxBoots /\ MaxBoots \in Nat /\ pinned \in [Gens -> 0 .. resolved]
          /\ stale \in [Gens -> BOOLEAN]
      BY UpstreamAssumption, Zenon DEF UpInv, UpTypeOK
    <3>2. PICK found \in {FALSE, fwd[f].up.fallback /\ resolved < MaxBoots} :
             /\ resolved' = IF found THEN resolved + 1 ELSE resolved
             /\ pinned' = [pinned EXCEPT ![fwd[f].gen] = Repinned(@, found)]
             /\ stale' = [stale EXCEPT ![fwd[f].gen] = @ /\ ~found]
      BY <1>6, Zenon DEF Bootstrap
    <3>c. found \in BOOLEAN /\ (found => resolved < MaxBoots)
      BY ONLY found \in {FALSE, fwd[f].up.fallback /\ resolved < MaxBoots}, Zenon
    <3>a. resolved' \in 0 .. MaxBoots
      <4>1. CASE found
        BY <3>1, <3>2, <3>c, <4>1, SMTT(60)
      <4>2. CASE ~found
        BY <3>1, <3>2, <4>2, Zenon
      <4> QED
        BY <4>1, <4>2, Zenon
    <3>b. \A g \in Gens : (stale[g] /\ ~found) \in BOOLEAN
      BY Zenon
    <3>3. stale' \in [Gens -> BOOLEAN]
      BY <3>1, <3>2, <3>b, Zenon
    <3>4. \A g \in Gens : pinned[g] \in 0 .. resolved' /\ Repinned(pinned[g], found) \in 0 .. resolved'
      BY <3>1, <3>2 DEF Repinned
    <3>5. pinned' \in [Gens -> 0 .. resolved']
      BY <3>1, <3>2, <3>4, Zenon
    <3> QED
      BY <3>a, <3>3, <3>5, Zenon
  <2>4. UNCHANGED <<ref, dohDegraded, swaps>>
    BY <1>6, Zenon DEF Bootstrap
  <2> QED
    BY <2>2, <2>3, <2>4, Zenon DEF UpInv, UpTypeOK
<1>7. ASSUME NEW f \in Fwd, Post(f) PROVE UpInv'
  BY <1>7, <1>4, <1>a, Zenon DEF Post, To
<1>8. ASSUME NEW f \in Fwd, HedgeTimer(f) PROVE UpInv'
  <2> DEFINE s == [fwd[f] EXCEPT !.plain = "udp", !.waited = TRUE]
  <2>1. s \in FwdRecord /\ Sane(s)
    BY <1>0, <1>8, ZenonT(60) DEF HedgeTimer, FwdRecord, Sane
  <2>2. fwd' = [fwd EXCEPT ![f] = s]
    BY <1>0, <1>8, Zenon DEF HedgeTimer, FwdRecord
  <2> QED
    BY <1>8, <1>a, <2>1, <2>2, Zenon DEF HedgeTimer, To
<1>9. ASSUME NEW f \in Fwd, TakeDoh(f) PROVE UpInv'
  BY <1>9, <1>b, IdleForward, Zenon DEF TakeDoh, Answered, To
<1>10. ASSUME NEW f \in Fwd, TakePlain(f) PROVE UpInv'
  <2>1. fwd[f].plain = "ok" /\ fwd[f].gen \in Gens
    BY <1>0, <1>10, Zenon DEF TakePlain, Sane, FwdRecord
  <2>2. fwd' = [fwd EXCEPT ![f] = NoForward]
    BY <1>10, <2>1, Zenon DEF TakePlain, Answered
  <2>3. (dohDegraded[fwd[f].gen] \/ Raced(fwd[f].up)) \in BOOLEAN
    BY Zenon
  <2>4. dohDegraded' = [dohDegraded EXCEPT ![fwd[f].gen] = dohDegraded[fwd[f].gen] \/ Raced(fwd[f].up)]
    BY <1>10, Zenon DEF TakePlain
  <2> QED
    BY <1>10, <1>b, <2>2, <2>3, <2>4, IdleForward, Zenon DEF TakePlain, To
<1>11. ASSUME NEW f \in Fwd, DohFailed(f) PROVE UpInv'
  <2>1. fwd[f].up \in [doh : {"none", "name", "address"}, fallback : BOOLEAN, hedged : BOOLEAN]
    BY <1>0, <1>11, UpstreamAssumption, Zenon DEF DohFailed, Active, FwdRecord
  <2>2. CASE fwd[f].up.fallback
    <3> DEFINE s == [fwd[f] EXCEPT !.plain = "udp"]
    <3>1. fwd' = [fwd EXCEPT ![f] = s]
      BY <1>0, <1>11, <2>2, Zenon DEF DohFailed, FwdRecord
    <3>2. s \in FwdRecord /\ Sane(s)
      BY <1>0, <1>11 DEF DohFailed, FwdRecord, Sane
    <3> QED
      BY <1>11, <1>a, <3>1, <3>2, Zenon DEF DohFailed, To
  <2>3. CASE ~fwd[f].up.fallback
    <3> DEFINE s == [fwd[f] EXCEPT !.result = "failed"]
    <3>1. fwd' = [fwd EXCEPT ![f] = s]
      BY <1>0, <1>11, <2>3, Zenon DEF DohFailed, Return, FwdRecord
    <3>2. s \in FwdRecord /\ Sane(s)
      BY <1>0, <1>11, <2>3 DEF DohFailed, FwdRecord, Sane
    <3> QED
      BY <1>11, <1>a, <3>1, <3>2, Zenon DEF DohFailed, To
  <2> QED
    BY <2>2, <2>3, Zenon
<1>12. ASSUME NEW f \in Fwd, BothFailed(f) PROVE UpInv'
  <2> DEFINE s == [fwd[f] EXCEPT !.result = "failed"]
  <2>1. fwd' = [fwd EXCEPT ![f] = s]
    BY <1>0, <1>12, Zenon DEF BothFailed, Return, FwdRecord
  <2>2. s \in FwdRecord /\ Sane(s)
    BY <1>0, <1>12, SMTT(60) DEF BothFailed, Active, FwdRecord, Sane
  <2> QED
    BY <1>12, <1>a, <2>1, <2>2, Zenon DEF BothFailed, To
<1>13. ASSUME Set PROVE UpInv'
  BY <1>13, UpstreamAssumption, SMTT(60) DEF Set, UpInv, UpTypeOK, Gens
<1>14. ASSUME PinsAge PROVE UpInv'
  BY <1>14, Zenon DEF PinsAge, UpInv, UpTypeOK
<1>15. ASSUME UNCHANGED upVars PROVE UpInv'
  BY <1>15, Zenon DEF upVars, UpInv, UpTypeOK
<1> QED
  BY <1>1, <1>2, <1>3, <1>5, <1>6, <1>7, <1>8, <1>9, <1>10, <1>11, <1>12, <1>13, <1>14, <1>15, Zenon
     DEF UpNext, ForwardStep, LegStep

\* A forward that fails has had every leg fail, down to the last try of the
\* last plaintext server, and a truncated answer is never passed on.
THEOREM EveryLegTried == UpSpec => []NoLegLeftUntried
<1>1. UpInv => NoLegLeftUntried
  BY Zenon  DEF UpInv, Sane, NoLegLeftUntried
<1> QED
  BY <1>1, UpInitInv, UpNextInv, PTL DEF UpSpec

\* A healthy DoH leg is never doubled in plaintext before the hedge delay.
THEOREM PlaintextWaits == UpSpec => []NothingLeaksEarly
<1>1. UpInv => NothingLeaksEarly
  BY Zenon  DEF UpInv, Sane, NothingLeaksEarly
<1> QED
  BY <1>1, UpInitInv, UpNextInv, PTL DEF UpSpec

\* The addresses pinned for the DoH endpoint are never lost, and only a
\* forward on the same generation of the upstream replaces them.
THEOREM PinsAreKept == UpSpec => NeverGoesDark
<1>1. UpInv /\ [UpNext]_upVars => PinsStay
  <2> SUFFICES ASSUME UpInv, [UpNext]_upVars, NEW g \in Gens, pinned'[g] # pinned[g]
               PROVE  pinned'[g] # 0 /\ \E f \in Fwd : Active(f) /\ fwd[f].gen = g
    BY Zenon  DEF PinsStay
  <2>1. PICK f \in Fwd : Bootstrap(f)
    BY Zenon   DEF UpNext, ForwardStep, LegStep, Begin, PlainExchange, Dial, Post, HedgeTimer, TakeDoh, TakePlain,
           DohFailed, BothFailed, Cancel, Done, Set, PinsAge, upVars
  <2>2. Active(f) /\ resolved \in Nat /\ pinned \in [Gens -> 0 .. resolved]
    BY <2>1, UpstreamAssumption DEF Bootstrap, UpInv, UpTypeOK
  <2>3. \E found : pinned' = [pinned EXCEPT ![fwd[f].gen] = Repinned(@, found)]
    BY <2>1, Zenon DEF Bootstrap
  <2> QED
    BY <2>2, <2>3, SMTT(60) DEF Repinned
<1> QED
  BY <1>1, UpInitInv, UpNextInv, PTL DEF UpSpec, NeverGoesDark

-----------------------------------------------------------------------------
(***************************************************************************)
(* The freshness of the copy a node serves.                                *)
(***************************************************************************)

\* A copy: its generation, and how the node came by it.
Copies == [gen : Nat, by : {"none", "fetched", "pushed"}]
\* A lookup under way: when it began, and what it has found.
Lookups == [at : Int, got : Int]

\* Times and generations; a generation held or found has been published, and a
\* lookup that has found something has begun.
FreshTypes ==
    /\ freshClock \in Nat /\ latestGen \in Seq(Nat)
    /\ ownCopies \in Copies /\ diskCopy \in Copies
    /\ stamp \in Int /\ diskStamp \in Int /\ fetched \in Int /\ laundered \in BOOLEAN
    /\ looking \in [Looker -> Lookups]
    /\ ownCopies.gen <= Len(latestGen) /\ diskCopy.gen <= Len(latestGen)
    /\ \A l \in Looker : looking[l].got <= Len(latestGen) /\ (looking[l].got >= 0 => looking[l].at >= 0)
    /\ \A l \in Looker : looking[l] = NotLooking \/ looking[l].at >= 0

\* No stamp, in memory or on disk, is later than the last fetch, and a live copy
\* this node fetched has one.
StampInv ==
    /\ stamp <= fetched /\ diskStamp <= fetched /\ -1 <= fetched
    /\ ownCopies.by = "fetched" /\ Alive(ownCopies, freshClock) /\ ~laundered => stamp >= 0

\* The inductive invariant.
FreshInv == FreshTypes /\ StampInv

\* At the start the node holds nothing.
LEMMA FreshInitial == FreshInit => FreshInv
<1> SUFFICES ASSUME FreshInit PROVE FreshInv
    BY Zenon
<1>1. latestGen \in Seq(Nat) /\ Len(latestGen) = 1
    BY FreshAssumption DEF FreshInit
<1>2. /\ looking \in [Looker -> Lookups]
      /\ \A l \in Looker : looking[l] = NotLooking /\ looking[l].got = -1
    BY DEF FreshInit, NotLooking, Lookups
<1>3. NoCopy \in Copies /\ NoCopy.gen = 0
    BY Zenon  DEF NoCopy, Copies
<1>4. FreshTypes
  <2>0. -1 <= 1 /\ ~(-1 >= 0) /\ -1 \in Int
    OBVIOUS
  <2>1. \A l \in Looker : looking[l].got <= Len(latestGen) /\ ~(looking[l].got >= 0)
    BY <1>1, <1>2, <2>0, Zenon
  <2>2. freshClock \in Nat /\ stamp \in Int /\ diskStamp \in Int /\ fetched \in Int
    BY <2>0, Zenon DEF FreshInit
  <2>4. laundered \in BOOLEAN
    BY Zenon   DEF FreshInit
  <2>3. ownCopies = NoCopy /\ diskCopy = NoCopy
    BY Zenon  DEF FreshInit
  <2> QED BY <1>1, <1>2, <1>3, <2>1, <2>2, <2>3, <2>4 DEF FreshTypes
<1>5. StampInv
    BY DEF StampInv, FreshInit, NoCopy
<1> QED BY <1>4, <1>5, Zenon DEF FreshInv

\* Expiry times are numbers.
LEMMA ExpiresTyped ==
    ASSUME FreshTypes, NEW c, c.gen \in Nat, 0 < c.gen, c.gen <= Len(latestGen)
    PROVE  Expires(c) \in Nat
<1>1. c.gen \in 1..Len(latestGen)
    BY SMTT(60)  DEF FreshTypes
<1> QED BY <1>1 DEF FreshTypes, Expires

\* What storing a generation leaves in the slot: a pushed copy never replaces a
\* fetched one by a fetched one.
LEMMA StoredTyped ==
    ASSUME FreshTypes, NEW g \in Nat, g <= Len(latestGen), NEW how \in {"fetched", "pushed"}, NEW t
    PROVE  /\ CopyStored(g, how, t) \in Copies
           /\ CopyStored(g, how, t).gen <= Len(latestGen)
           /\ CopyStored(g, how, t).by = "fetched" /\ how = "pushed" => CopyStored(g, how, t) = ownCopies
BY Zenon  DEF CopyStored, FreshTypes, Copies

\* Publishing, pushing, looking up, storing, saving, crashing, expiry and the
\* clock keep the invariant.
LEMMA FreshStep == FreshInv /\ [FreshNext]_freshVars => FreshInv'
<1> SUFFICES ASSUME FreshInv, [FreshNext]_freshVars PROVE FreshInv'
    BY Zenon
<1> USE FreshAssumption DEF FreshInv
<1>1. ASSUME NEW l \in Looker, LookBegin(l) PROVE FreshInv'
  <2>1. FreshTypes'
    BY <1>1, SMTT(60) DEF LookBegin, FreshTypes, NotLooking, Lookups
  <2>2. StampInv'
    BY <1>1, Zenon DEF LookBegin, StampInv, Alive, Expires
  <2> QED BY <2>1, <2>2, Zenon
<1>2. ASSUME NEW l \in Looker, NEW g \in 0..Len(latestGen), LookWalked(l, g) PROVE FreshInv'
  <2>1. FreshTypes'
    <3>1. looking[l].at >= 0 /\ looking[l] \in Lookups
      BY <1>2, Zenon DEF LookWalked, FreshTypes
    <3>2. looking' \in [Looker -> Lookups] /\ looking'[l] = [at |-> looking[l].at, got |-> g]
          /\ \A k \in Looker \ {l} : looking'[k] = looking[k]
      BY <1>2, <3>1, SMTT(60) DEF LookWalked, FreshTypes, Lookups
    <3> QED BY <1>2, <3>1, <3>2 DEF LookWalked, FreshTypes
  <2>2. StampInv'
    BY <1>2, Zenon DEF LookWalked, StampInv, Alive, Expires
  <2> QED BY <2>1, <2>2, Zenon
<1>3. ASSUME NEW l \in Looker, LookMissed(l) PROVE FreshInv'
  <2>1. FreshTypes'
    BY <1>3, SMTT(60) DEF LookMissed, FreshTypes, NotLooking, Lookups
  <2>2. StampInv'
    BY <1>3, Zenon DEF LookMissed, StampInv, Alive, Expires
  <2> QED BY <2>1, <2>2, Zenon
<1>4. ASSUME NEW l \in Looker, LookStore(l) PROVE FreshInv'
  <2>1. looking[l].at \in Int /\ looking[l].at >= 0 /\ looking[l].got \in Nat /\ looking[l].got <= Len(latestGen)
    BY <1>4, SMTT(60) DEF LookStore, FreshTypes, Lookups
  <2>2. ownCopies' \in Copies /\ ownCopies'.gen <= Len(latestGen)
    BY <1>4, <2>1, StoredTyped, Zenon DEF LookStore
  <2>3. FreshTypes'
    BY <1>4, <2>1, <2>2, SMTT(60) DEF LookStore, FreshTypes, NotLooking, Lookups, StampFetchedAt
  <2>4. StampInv'
    BY <1>4, <2>1, SMTT(60) DEF LookStore, StampInv, StampFetchedAt, FreshTypes
  <2> QED BY <2>3, <2>4, Zenon
<1>5. ASSUME NEW g \in 1..Len(latestGen), Pushed(g) PROVE FreshInv'
  <2>0. g \in Nat /\ g <= Len(latestGen)
    BY DEF FreshTypes
  <2>2. /\ ownCopies' \in Copies /\ ownCopies'.gen <= Len(latestGen)
        /\ ownCopies'.by = "fetched" => ownCopies' = ownCopies
    BY <1>5, <2>0, StoredTyped, Zenon DEF Pushed
  <2>3. FreshTypes'
    BY <1>5, <2>2, Zenon DEF Pushed, FreshTypes
  <2>4. StampInv'
    BY <1>5, <2>2, Zenon DEF Pushed, StampInv, Alive, Expires
  <2> QED BY <2>3, <2>4, Zenon
<1>6. CASE PruneFind
  BY <1>6, Zenon DEF PruneFind, FreshTypes, StampInv, Alive, Expires
<1>7. CASE PruneDelete
  <2>1. stamp' = stamp \/ (stamp' = -1 /\ ~Alive(ownCopies, freshClock))
    BY <1>7, Zenon DEF PruneDelete, Pruned
  <2>2. fetched >= -1
    BY Zenon  DEF StampInv
  <2>3. FreshTypes'
    BY <1>7, <2>1, SMTT(60) DEF PruneDelete, FreshTypes
  <2>4. StampInv'
    BY <1>7, <2>1, <2>2, Zenon DEF PruneDelete, StampInv, FreshTypes, Alive, Expires
  <2> QED BY <2>3, <2>4, Zenon
<1>8. CASE PublishGen
  <2>1. /\ latestGen' \in Seq(Nat) /\ Len(latestGen') = Len(latestGen) + 1
        /\ \A i \in 1..Len(latestGen) : latestGen'[i] = latestGen[i]
    BY <1>8, SMTT(60) DEF PublishGen, FreshTypes
  <2>5. \A k \in Int : k <= Len(latestGen) => k <= Len(latestGen')
    BY <2>1, SMTT(60) DEF FreshTypes
  <2>6. ownCopies.gen \in Int /\ diskCopy.gen \in Int /\ \A l \in Looker : looking[l].got \in Int
    BY SMTT(60) DEF FreshTypes, Copies, Lookups
  <2>2. FreshTypes'
    BY <1>8, <2>1, <2>5, <2>6, Zenon DEF PublishGen, FreshTypes
  <2>3. ownCopies.gen > 0 => latestGen'[ownCopies.gen] = latestGen[ownCopies.gen]
    BY <2>1, SMTT(60) DEF FreshTypes, Copies
  <2>4. StampInv'
    BY <1>8, <2>3, Zenon DEF PublishGen, StampInv, Alive, Expires
  <2> QED BY <2>2, <2>4, Zenon
<1>9. CASE PersistCopies
  BY <1>9, Zenon DEF PersistCopies, FreshTypes, StampInv, Alive, Expires
<1>10. CASE PersistStamps
  BY <1>10, Zenon DEF PersistStamps, FreshTypes, StampInv, Alive, Expires
<1>11. CASE FreshRestart
  <2>1. FreshTypes'
    BY <1>11, SMTT(60) DEF FreshRestart, FreshTypes, NotLooking, Lookups
  <2>2. StampInv'
    <3>1. stamp' = diskStamp /\ ownCopies' = diskCopy /\ fetched' = fetched /\ diskStamp' = diskStamp
      BY <1>11, Zenon DEF FreshRestart
    <3>2. ownCopies'.by = "fetched" /\ ~laundered' => diskStamp >= 0
      <4>1. ASSUME ownCopies'.by = "fetched", ~(diskStamp >= 0) PROVE laundered'
        <5>1. diskStamp < 0
          BY <4>1, SMTT(60) DEF FreshTypes
        <5> QED BY <1>11, <4>1, <5>1, Zenon DEF FreshRestart
      <4> QED BY <4>1, Zenon
    <3> QED BY <3>1, <3>2, Zenon DEF StampInv
  <2> QED BY <2>1, <2>2, Zenon
<1>12. CASE FreshTick
  <2>1. FreshTypes'
    BY <1>12, SMTT(60) DEF FreshTick, FreshTypes
  <2>2. Alive(ownCopies, freshClock + 1) => Alive(ownCopies, freshClock)
    <3>1. SUFFICES ASSUME ownCopies.gen > 0 PROVE Expires(ownCopies) \in Nat
      BY SMTT(60)  DEF Alive, FreshTypes
    <3> QED BY <3>1, ExpiresTyped, Zenon DEF FreshTypes, Copies
  <2>3. StampInv'
    BY <1>12, <2>2, Zenon DEF FreshTick, StampInv, Alive, Expires
  <2> QED BY <2>1, <2>3, Zenon
<1>13. CASE UNCHANGED freshVars
  BY <1>13, Zenon DEF freshVars, FreshTypes, StampInv, Alive, Expires
<1> QED BY <1>1, <1>2, <1>3, <1>4, <1>5, <1>6, <1>7, <1>8, <1>9, <1>10, <1>11, <1>12, <1>13, Zenon DEF FreshNext

\* What is served without asking the network has not lapsed and, if this node
\* fetched it, a walk confirmed the key within the window (freshLocked and the
\* stamp of a fetched copy), unless a restart fell between the writes of the
\* two files; for any number of concurrent lookups, every lease, window and
\* grace.
THEOREM ServedIsRevalidated == FreshSpec => []CacheStaysRevalidated
<1>1. FreshInv => CacheStaysRevalidated
  <2> SUFFICES ASSUME FreshInv, freshLocked(ownCopies, freshClock)
               PROVE  /\ ~Lapsed(ownCopies, freshClock)
                      /\ ownCopies.by = "fetched" /\ ~laundered => freshClock - fetched < Window
      BY Zenon  DEF CacheStaysRevalidated
  <2>1. ~Lapsed(ownCopies, freshClock) /\ Alive(ownCopies, freshClock)
      BY Zenon  DEF freshLocked
  <2>2. ASSUME ownCopies.by = "fetched", ~laundered PROVE freshClock - fetched < Window
    <3>1. stamp >= 0 /\ stamp <= fetched
      BY <2>1, <2>2, Zenon DEF FreshInv, StampInv
    <3>2. freshClock < stamp + Window
      BY <3>1 DEF freshLocked, FreshInv, FreshTypes
    <3> QED BY <3>1, <3>2, FreshAssumption, SMTT(60) DEF FreshInv, FreshTypes
  <2> QED BY <2>1, <2>2, Zenon
<1> QED BY <1>1, FreshInitial, FreshStep, PTL DEF FreshSpec

===============================================================================
