------------------------------ MODULE ClaimPool ------------------------------
(***************************************************************************)
(* The alias-claim pool of one node: internal/dht/claims_pool.go.  For     *)
(* every alias it keeps the two best claim envelopes by the ordering       *)
(* (timestamp, pow_hash, tld_id), the instant it first saw each claim      *)
(* identity, and the re-attestations it holds for it; it is swept, saved   *)
(* once a minute and reloaded at start-up.                                 *)
(*                                                                         *)
(* A claim identity (the prefix hash) is what renewals keep: each renewal  *)
(* is a new carrier envelope of the same identity.  Carriers that fail the *)
(* screen of Offer (claimant consistency, proof of work) change nothing    *)
(* and are not in the model; a carrier is full when it also passes the     *)
(* content and quorum screen of ClaimEvidence.                             *)
(***************************************************************************)
EXTENDS Integers, FiniteSets, Sequences, FiniteSetsExt

CONSTANTS
    Alias,            \* normalised aliases; K_claim is one-to-one with them
    Ident,            \* claim identities
    Id,               \* [Ident -> Identity]
    Carrier,          \* H_record of each claim-carrying envelope
    Carries,          \* [Carrier -> CarrierRecord]
    Node,             \* node IDs whose re-attestations may be merged
    MaxKeys,          \* key budget of the pool
    MaxBytes,         \* byte budget of the pool
    ReAttestMaxSets,  \* re-attestations kept per identity
    AliasReuseDelay,  \* how long a dead claim blocks its alias
    ReAttestHold,     \* how long an identity is held before re-attesting
    MaxTime,          \* bound on the clock, for model checking
    ReAttested        \* bound: the identities re-attestations arrive for

Never == 0            \* "no first-seen stamp"; the clock starts at 1
Time == 1 .. MaxTime

Identity ==
    [alias : Alias, claimant : Nat, ts : Nat, pow : Nat, tld : Nat]
CarrierRecord ==
    [ident : Ident, created : Nat, expires : Nat, size : Nat, full : BOOLEAN]
Attestation == [node : Node, ts : Time]

ASSUME IdAssumption == Id \in [Ident -> Identity] /\ ReAttested \subseteq Ident
ASSUME CarriesAssumption == Carrier \subseteq Nat /\ Carries \in [Carrier -> CarrierRecord]
ASSUME PoolBudgetAssumption ==
    /\ {MaxKeys, ReAttestMaxSets, MaxTime} \subseteq Nat \ {0}
    /\ {MaxBytes, AliasReuseDelay, ReAttestHold} \subseteq Nat

VARIABLES
    now,        \* the node's clock
    pool,       \* alias -> its carriers, best first (byKey)
    order,      \* aliases in first-insertion order
    poolBytes,  \* running total of the pooled sizes
    firstSeen,  \* alias -> identity -> first-seen instant, or Never
    reattests   \* alias -> identity -> attestations, oldest first

index == <<pool, order, poolBytes>>
poolVars == <<now, index, firstSeen, reattests>>

AliasOf(e) == Id[Carries[e].ident].alias
IdentOf(e) == Carries[e].ident
Members(a) == {pool[a][i] : i \in DOMAIN pool[a]}

\* claims.LessOrderKey on the claims two carriers hold.
LessOrderKey(d, e) ==
    LET x == Id[IdentOf(d)]
        y == Id[IdentOf(e)]
    IN  \/ x.ts < y.ts
        \/ x.ts = y.ts /\ x.pow < y.pow
        \/ x.ts = y.ts /\ x.pow = y.pow /\ x.tld < y.tld

SeqSize(s) == MapThenSumSet(LAMBDA i : Carries[s[i]].size, DOMAIN s)

NoStamps == [i \in Ident |-> Never]
NoAtts == [i \in Ident |-> << >>]

-----------------------------------------------------------------------------
\* StoreReAttests for one attestation: a duplicate is dropped, then only the
\* newest ReAttestMaxSets are kept.
AddReAttest(atts, att) ==
    LET grown == IF \E i \in DOMAIN atts : atts[i] = att THEN atts ELSE Append(atts, att)
        n     == Len(grown)
    IN  IF n > ReAttestMaxSets THEN SubSeq(grown, n - ReAttestMaxSets + 1, n) ELSE grown

\* evictOverBudgetLocked: drop whole aliases, oldest first, until both
\* budgets hold or only the protected (newest) alias is left.
EvictOverBudget(P, ord, load, seen, atts) ==
    LET Load(n) == load - MapThenSumSet(LAMBDA i : SeqSize(P[ord[i]]), 1 .. n)
        Over(n) == /\ Len(ord) - n > 1
                   /\ Len(ord) - n > MaxKeys \/ Load(n) > MaxBytes
    IN  \E n \in 0 .. Len(ord) - 1 :
            /\ ~Over(n)
            /\ \A m \in 0 .. n - 1 : Over(m)
            /\ LET gone == {ord[i] : i \in 1 .. n}
               IN  /\ pool' = [a \in Alias |-> IF a \in gone THEN << >> ELSE P[a]]
                   /\ firstSeen' = [a \in Alias |-> IF a \in gone THEN NoStamps ELSE seen[a]]
                   /\ reattests' = [a \in Alias |-> IF a \in gone THEN NoAtts ELSE atts[a]]
            /\ order' = SubSeq(ord, n + 1, Len(ord))
            /\ poolBytes' = Load(n)

\* Where carrier e goes among the members cur of its alias.
Ranked(cur, e) ==
    LET kept == IF Len(cur) = 2 THEN <<cur[1]>> ELSE cur
    IN  IF Len(kept) = 1 /\ LessOrderKey(e, kept[1]) THEN <<e>> \o kept ELSE Append(kept, e)

\* e is already pooled, or two members are and it is not better than the worse.
NotWanted(cur, e) ==
    \/ \E i \in DOMAIN cur : cur[i] = e
    \/ Len(cur) = 2 /\ ~LessOrderKey(e, cur[2])

\* Fault: a saved stamp is ignored.
StampNow(fs) == now

\* The first-seen stamp of an identity that has none yet.
Stamp(fs) == IF fs # Never /\ fs < now THEN fs ELSE now

DisplacedSize(cur) == IF Len(cur) = 2 THEN Carries[cur[2]].size ELSE 0

\* OfferSeen with a persisted first-seen stamp fs (Never: none): the stamp is
\* taken before anything else; a new alias may evict older ones.  atts is what
\* the re-attestation table holds once e is in.
OfferSeen(e, fs, atts) ==
    LET a    == AliasOf(e)
        cur  == pool[a]
        seen == [firstSeen EXCEPT ![a][IdentOf(e)] =
                    IF @ # Never THEN @ ELSE Stamp(fs)]
        P    == [pool EXCEPT ![a] = Ranked(cur, e)]
        load == poolBytes + Carries[e].size - DisplacedSize(cur)
    IN  \/ /\ NotWanted(cur, e)
           /\ firstSeen' = seen /\ reattests' = atts
           /\ UNCHANGED index
        \/ /\ ~NotWanted(cur, e) /\ cur # << >>
           /\ pool' = P /\ poolBytes' = load
           /\ firstSeen' = seen /\ reattests' = atts
           /\ UNCHANGED order
        \/ /\ ~NotWanted(cur, e) /\ cur = << >>
           /\ EvictOverBudget(P, Append(order, a), load, seen, atts)

Offer(e) == OfferSeen(e, Never, reattests) /\ UNCHANGED now

StoreReAttests(a, i, att) ==
    /\ reattests' = [reattests EXCEPT ![a][i] = AddReAttest(@, att)]
    /\ UNCHANGED <<now, index, firstSeen>>

ReAttestEligible(a, i, t) == firstSeen[a][i] # Never /\ t - firstSeen[a][i] >= ReAttestHold

-----------------------------------------------------------------------------
WindowOpen(e, t) == t < Carries[e].expires + AliasReuseDelay

\* What the in-place compactions of Sweep leave of s: its elements in S.
KeepIn(s, S) ==
    LET keep[n \in 0 .. Len(s)] ==
            IF n = 0 THEN << >> ELSE IF s[n] \in S THEN Append(keep[n - 1], s[n]) ELSE keep[n - 1]
    IN  keep[Len(s)]

\* Fault: a claim is dropped as soon as it expires.
KeptLive(s) == KeepIn(s, {e \in Carrier : now < Carries[e].expires})

Kept(s) == KeepIn(s, {e \in Carrier : WindowOpen(e, now)})
KeptIdents(a) == {IdentOf(Kept(pool[a])[i]) : i \in DOMAIN Kept(pool[a])}

\* Fault: the insertion order keeps the aliases that were swept.
SweptOrderStale == order

SweptOrder == KeepIn(order, {a \in Alias : Kept(pool[a]) # << >>})

\* Sweep drops carriers whose reuse window is over, the aliases left empty,
\* and the stamps and re-attestations of identities no longer pooled.  Only
\* pooled aliases are visited.
SweepEffect ==
    /\ pool' = [a \in Alias |-> Kept(pool[a])]
    /\ poolBytes' = poolBytes - MapThenSumSet(LAMBDA a : SeqSize(pool[a]) - SeqSize(Kept(pool[a])), Alias)
    /\ order' = SweptOrder
    /\ firstSeen' = [a \in Alias |-> [i \in Ident |->
          IF pool[a] # << >> /\ i \notin KeptIdents(a) THEN Never ELSE firstSeen[a][i]]]
    /\ reattests' = [a \in Alias |-> [i \in Ident |->
          IF pool[a] # << >> /\ i \notin KeptIdents(a) THEN << >> ELSE reattests[a][i]]]

Sweep == SweepEffect /\ UNCHANGED now

Tick ==
    /\ now < MaxTime
    /\ now' = now + 1
    /\ UNCHANGED <<index, firstSeen, reattests>>

NoPool == [a \in Alias |-> << >>]
NoFirstSeen == [a \in Alias |-> NoStamps]
NoReAttests == [a \in Alias |-> NoAtts]

\* The carriers a peer can present: those already signed.
Minted == {e \in Carrier : Carries[e].created <= now}

PoolInit ==
    /\ now = 1
    /\ pool = NoPool /\ order = << >> /\ poolBytes = 0
    /\ firstSeen = NoFirstSeen
    /\ reattests = NoReAttests

PoolNext ==
    \/ \E e \in Minted : Offer(e)
    \/ \E i \in ReAttested, n \in Node, t \in Time :
          t <= now /\ StoreReAttests(Id[i].alias, i, [node |-> n, ts |-> t])
    \/ Sweep
    \/ Tick

PoolSpec == PoolInit /\ [][PoolNext]_poolVars

-----------------------------------------------------------------------------
(* Properties.                                                              *)

\* Every table holds aliases, identities, carriers and instants.
PoolTypeOK ==
    /\ now \in Time
    /\ pool \in [Alias -> Seq(Carrier)]
    /\ order \in Seq(Alias)
    /\ firstSeen \in [Alias -> [Ident -> Time \cup {Never}]]
    /\ reattests \in [Alias -> [Ident -> Seq(Attestation)]]

\* The insertion-order queue lists exactly the pooled aliases, each once, so
\* FIFO eviction neither skips an alias nor evicts one twice.
PoolQueueExact ==
    /\ \A i, j \in DOMAIN order : order[i] = order[j] => i = j
    /\ \A a \in Alias : pool[a] # << >> <=> \E i \in DOMAIN order : order[i] = a

\* An alias holds at most two distinct carriers of that alias, best first.
PoolTop2 ==
    \A a \in Alias :
        /\ Len(pool[a]) <= 2
        /\ \A e \in Members(a) : AliasOf(e) = a
        /\ Len(pool[a]) = 2 => pool[a][1] # pool[a][2] /\ ~LessOrderKey(pool[a][2], pool[a][1])

\* The pool and its eviction queue agree, and every alias keeps its best two,
\* through displacement, eviction, sweeping and reloading.
PoolExact == PoolQueueExact /\ PoolTop2

\* A tombstone stays: a pooled claim whose reuse window is open leaves only
\* when its whole alias is evicted, oldest aliases first, or when two claims
\* that do not order after it take the slots.
TombstonesStay ==
    [][\A a \in Alias : \A e \in Members(a) :
          WindowOpen(e, now) /\ e \notin {pool'[a][i] : i \in DOMAIN pool'[a]}
          => \/ \E i \in DOMAIN order :
                   order[i] = a /\ \A j \in 1 .. i : pool'[order[j]] = << >>
             \/ Len(pool'[a]) = 2 /\ \A i \in 1 .. 2 : ~LessOrderKey(e, pool'[a][i])]_poolVars
=============================================================================
