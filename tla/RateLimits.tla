----------------------------- MODULE RateLimits ------------------------------
(***************************************************************************)
(* The two gates a query passes before a handler works for it              *)
(* (internal/dht/transport.go): packetBudget, one token bucket for all     *)
(* sources together, and a rateLimiter, a bounded table of token buckets   *)
(* by source IP.  The node has three rateLimiters (reads, puts, blob       *)
(* chunks), three instances of this module's table.                        *)
(*                                                                         *)
(* Time is in ticks of one second.  A table is a partial function from the *)
(* sources it remembers to buckets [tokens, last], refilled lazily from    *)
(* `last`; it refines TokenBucket.                                         *)
(***************************************************************************)
EXTENDS Integers, FiniteSets

CONSTANTS
    Source,                   \* source IPs, normalised (normIP)
    LimRate, LimBurst,        \* tokens per tick, bucket size
    PacketRate, PacketBurst,  \* the same of the global budget
    LimMax,                   \* limiterMaxEntries
    LimTarget,                \* limiterMaxEntries - limiterMaxEntries/4
    LimIdle,                  \* limiterIdle
    MaxSeconds                \* bound on the clock

\* The last conjunct: a bucket idle for long enough to be swept is full (ten
\* minutes at 50, 10 or 500 tokens a second against bursts of 100, 20 and 500).
ASSUME RateAssumption ==
    /\ IsFiniteSet(Source)
    /\ LimRate \in Nat /\ PacketRate \in Nat
    /\ LimBurst \in Nat \ {0} /\ PacketBurst \in Nat \ {0}
    /\ LimMax \in Nat /\ LimTarget \in Nat /\ LimTarget < LimMax
    /\ LimIdle \in Nat /\ MaxSeconds \in Nat
    /\ LimRate * LimIdle >= LimBurst

VARIABLES
    second,   \* time.Now
    buckets,  \* the limiter's table
    budget,   \* pktLim; last = -1 before the first packet (the zero time)
    verdict   \* history: the limiter's last decision, <<source, granted>>

rateVars == <<second, buckets, budget, verdict>>

Least(a, b) == IF a < b THEN a ELSE b

\* packetBudget.allow: the first packet finds a full bucket.
BudgetTokens ==
    IF budget.last < 0 THEN PacketBurst
    ELSE Least(PacketBurst, budget.tokens + (second - budget.last) * PacketRate)

PacketAllowed == BudgetTokens >= 1

BudgetSpent ==
    [tokens |-> IF PacketAllowed THEN BudgetTokens - 1 ELSE BudgetTokens, last |-> second]

Without(table, dropped) == [s \in DOMAIN table \ dropped |-> table[s]]

\* sweepIdleLocked
Swept(table) == Without(table, {s \in DOMAIN table : second - table[s].last > LimIdle})

\* evictLRULocked: oldest first, none touched within the last second.  The
\* loop tests len(buckets) - dropped, and each drop has shortened buckets as
\* well, so it stops after half of the surplus.
Evictions(table) ==
    LET old == {s \in DOMAIN table : table[s].last <= second - 1}
        surplus == Cardinality(DOMAIN table) - LimTarget
        drops == Least(Cardinality(old), (surplus + 1) \div 2)
    IN  {D \in SUBSET old :
           /\ Cardinality(D) = drops
           /\ \A d \in D, s \in DOMAIN table \ D : table[d].last <= table[s].last}

\* The table a request of s leaves room in: at the cap, a new source first
\* sweeps the idle entries and, if that was not enough, evicts.
Trimmed(s) ==
    IF s \in DOMAIN buckets \/ Cardinality(DOMAIN buckets) < LimMax THEN {buckets}
    ELSE IF Cardinality(DOMAIN Swept(buckets)) < LimMax THEN {Swept(buckets)}
    ELSE {Without(Swept(buckets), D) : D \in Evictions(Swept(buckets))}

\* Fault: the refill is not capped at the burst.
AvailableUncapped(table, s) ==
    IF s \in DOMAIN table THEN table[s].tokens + (second - table[s].last) * LimRate ELSE LimBurst

\* The tokens s can spend: a source the table does not know has a full bucket.
Available(table, s) ==
    IF s \in DOMAIN table
    THEN Least(LimBurst, table[s].tokens + (second - table[s].last) * LimRate)
    ELSE LimBurst

\* rateLimiter.allow, once there is room.
Charged(table, s) ==
    [r \in DOMAIN table \cup {s} |->
        IF r # s THEN table[r]
        ELSE [tokens |-> IF Available(table, s) >= 1 THEN Available(table, s) - 1 ELSE Available(table, s),
              last |-> second]]

\* handle, first gate: over the global budget a datagram is dropped unread.
PacketDropped ==
    /\ ~PacketAllowed
    /\ budget' = BudgetSpent
    /\ UNCHANGED <<second, buckets, verdict>>

\* A query that reaches its handler's limiter (allowRead, allowPut, blobLim):
\* served, or answered 301.
Throttle(s) ==
    /\ PacketAllowed
    /\ budget' = BudgetSpent
    /\ \E table \in Trimmed(s) : buckets' = Charged(table, s)
    /\ verdict' = <<s, Available(buckets, s) >= 1>>
    /\ UNCHANGED second

SecondPasses ==
    /\ second < MaxSeconds
    /\ second' = second + 1
    /\ UNCHANGED <<buckets, budget, verdict>>

RateInit ==
    /\ second = 0
    /\ buckets = <<>>
    /\ budget = [tokens |-> 0, last |-> -1]
    /\ verdict = <<>>

RateNext == PacketDropped \/ (\E s \in Source : Throttle(s)) \/ SecondPasses

RateSpec == RateInit /\ [][RateNext]_rateVars

-----------------------------------------------------------------------------
(* Properties *)

\* The table and the budget are well typed: a bucket never holds more than its
\* burst and is never dated in the future.
RateTypeOK ==
    /\ second \in 0..MaxSeconds
    /\ DOMAIN buckets \subseteq Source
    /\ \A s \in DOMAIN buckets : buckets[s] \in [tokens : 0..LimBurst, last : 0..second]
    /\ budget \in [tokens : 0..PacketBurst, last : -1..second]

Limiter == INSTANCE TokenBucket WITH
    Key <- Source, Rate <- LimRate, Burst <- LimBurst,
    credit <- [s \in Source |-> Available(buckets, s)]

\* The lazily refilled, bounded table behaves as one always-present token
\* bucket per source: refills are exact across idle time, an idle sweep
\* changes nobody's tokens, and eviction can only restore a full bucket.
LimiterIsTokenBuckets == Limiter!BucketSpec

ForgetsUnderPressure ==
    \A s \in DOMAIN buckets \ DOMAIN buckets' :
        \/ Available(buckets, s) = LimBurst
        \/ ~(Cardinality({r \in DOMAIN buckets : second - buckets[r].last <= LimIdle}) < LimMax)

\* A source is forgotten while it still owes tokens only when the table is at
\* its cap with entries no sweep may drop: idleness alone forgives nothing.
EvictionUnderPressureOnly == [][ForgetsUnderPressure]_rateVars
=============================================================================
