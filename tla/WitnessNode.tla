----------------------------- MODULE WitnessNode -----------------------------
(***************************************************************************)
(* The witness side of a node: hWitness and the claim branch of hPut       *)
(* (internal/dht/transport.go) over the claim pool, with the tombstone and *)
(* exclusivity screens of claims_tombstone.go.                             *)
(*                                                                         *)
(* Requests run on a pool of handler goroutines.  A handler reads the      *)
(* clock, screens the request against the pool, and only then takes        *)
(* witnessMu to apply the cooldown rule and record its signature, still    *)
(* with the instant it read first.  So hWitness is two steps here,         *)
(* Screen and Sign, and other handlers run in between.  Refused requests,  *)
(* and the screens that depend on the request alone (throttle, blacklist,  *)
(* reserved alias, prefix binding, proof of work), change nothing and have *)
(* no action.  witnessLast is memory only; restarts are not modelled here. *)
(***************************************************************************)
EXTENDS ClaimPool

CONSTANTS
    Self,                \* this node's ID
    SkewTolerance,
    WitnessPresentWindow,
    WitnessCooldown,
    WitnessLastPruneAt,  \* table size from which old entries are pruned
    MaxHandlers,         \* bound on concurrent handlers
    MaxSignatures,       \* bound on the signatures, for model checking
    HandlerDelay,        \* bound: a handler signs within this many ticks
    SweepLag             \* bound: the sweep loop runs within this many ticks

ASSUME WitnessAssumption ==
    /\ Self \in Node
    /\ {SkewTolerance, WitnessPresentWindow, WitnessCooldown} \subseteq Nat
    /\ {WitnessLastPruneAt, MaxHandlers, MaxSignatures, HandlerDelay} \subseteq Nat
    /\ SweepLag \in Nat \ {0}

VARIABLES
    witnessLast,  \* alias -> the last signature, or NoSignature
    pending,      \* handlers between the screens and witnessMu
    signed,       \* every attestation sent, [ident, at]
    accepted,     \* alias -> how often it counted as an accepted claim
    offered       \* history: the full carriers offered to this node

witnessVars == <<poolVars, witnessLast, pending, signed, accepted, offered>>

Signature == [ident : Ident, at : Time]
NoSignature == [ident |-> 0, at |-> Never]
Handler == [ident : Ident, at : Time, reattest : BOOLEAN]

AliasOfId(i) == Id[i].alias
ClaimantOf(i) == Id[i].claimant
Seen(a) == witnessLast[a] # NoSignature

-----------------------------------------------------------------------------
\* ClaimEvidence: the full content screen, including the future-date check.
ClaimEvidence(e, t) == Carries[e].full /\ Id[IdentOf(e)].ts <= t + SkewTolerance

\* reuseWindowEnd: dead evidence whose reuse window is still open.
InReuseWindow(e, t) ==
    ClaimEvidence(e, t) /\ Carries[e].expires <= t /\ WindowOpen(e, t)

\* Fault: tombstones refuse nothing.
noReuseRefusal(i, t) == FALSE

claimReuseRefusal(i, t) ==
    \E e \in Members(AliasOfId(i)) : InReuseWindow(e, t) /\ IdentOf(e) # i

liveClaimConflict(i, t) ==
    \E e \in Members(AliasOfId(i)) :
        ClaimEvidence(e, t) /\ t < Carries[e].expires /\ IdentOf(e) # i

\* reAttestRefusal, negated: held here with full evidence, for long enough,
\* and undisputed.
MayReAttest(i, t) ==
    /\ \E e \in Members(AliasOfId(i)) : ClaimEvidence(e, t) /\ IdentOf(e) = i
    /\ ReAttestEligible(AliasOfId(i), i, t)
    /\ ~liveClaimConflict(i, t)

TooOld(i, t) == Id[i].ts <= t /\ t - Id[i].ts > WitnessPresentWindow

\* What the handler carries to witnessMu.  A fresh claim that asks for
\* re-attestation is an ordinary request.
Request(i, reattest) ==
    [ident |-> i, at |-> now, reattest |-> reattest /\ TooOld(i, now)]

\* hWitness up to witnessMu.
Screen(i, reattest) ==
    /\ Cardinality(pending) < MaxHandlers
    /\ Cardinality(signed) + Cardinality(pending) < MaxSignatures
    /\ Id[i].ts <= now + SkewTolerance
    /\ ~claimReuseRefusal(i, now)
    /\ ~liveClaimConflict(i, now)
    /\ TooOld(i, now) => reattest /\ MayReAttest(i, now)
    /\ pending' = pending \cup {Request(i, reattest)}
    /\ UNCHANGED <<poolVars, witnessLast, signed, accepted, offered>>

\* Fault: the cooldown is applied to the same claim, not to a competing one.
CoolingSame(h) ==
    LET last == witnessLast[AliasOfId(h.ident)]
    IN  /\ Seen(AliasOfId(h.ident))
        /\ h.at - last.at < WitnessCooldown
        /\ last.ident = h.ident

\* The last signature on the alias still cools this request.
Cooling(h) ==
    LET last == witnessLast[AliasOfId(h.ident)]
    IN  /\ Seen(AliasOfId(h.ident))
        /\ h.at - last.at < WitnessCooldown
        /\ last.ident # h.ident
        /\ ClaimantOf(last.ident) # ClaimantOf(h.ident)

\* witnessLast after recording h: past the size limit, entries the cooldown
\* can no longer need are dropped.
Recorded(h) ==
    LET w == [witnessLast EXCEPT ![AliasOfId(h.ident)] = [ident |-> h.ident, at |-> h.at]]
        full == Cardinality({a \in Alias : w[a] # NoSignature}) >= WitnessLastPruneAt
    IN  [a \in Alias |-> IF full /\ w[a] # NoSignature /\ h.at - w[a].at >= WitnessCooldown
                         THEN NoSignature ELSE w[a]]

\* hWitness from witnessMu on: refuse while cooling, else record, sign, keep a
\* re-attestation, and count the alias if it had no entry.
Sign(h) ==
    LET a == AliasOfId(h.ident)
    IN  /\ pending' = pending \ {h}
        /\ \/ /\ Cooling(h)
              /\ UNCHANGED <<poolVars, witnessLast, signed, accepted>>
           \/ /\ ~Cooling(h)
              /\ witnessLast' = Recorded(h)
              /\ signed' = signed \cup {[ident |-> h.ident, at |-> h.at]}
              /\ accepted' = [accepted EXCEPT ![a] = IF Seen(a) THEN @ ELSE @ + 1]
              /\ IF h.reattest
                 THEN StoreReAttests(a, h.ident, [node |-> Self, ts |-> h.at])
                 ELSE UNCHANGED poolVars
        /\ UNCHANGED offered

-----------------------------------------------------------------------------
\* hPut of a claim at K_claim: the full screen and the reuse window, then the
\* pool.  The single-winner store it also goes to is EnvelopeStore.
PutClaim(e) ==
    /\ Carries[e].full
    /\ ~claimReuseRefusal(IdentOf(e), now)
    /\ Offer(e)
    /\ offered' = offered \cup {e}
    /\ UNCHANGED <<witnessLast, pending, signed, accepted>>

\* A lookup's collected claims go to the pool on Offer's own screen.
CollectClaim(e) ==
    /\ Offer(e)
    /\ offered' = IF Carries[e].full THEN offered \cup {e} ELSE offered
    /\ UNCHANGED <<witnessLast, pending, signed, accepted>>

\* What peers present: their pools are swept by the same loop, so a carrier
\* circulates until its reuse window is over and the sweep has run.  This is an
\* assumption about peers: neither Offer nor hPut refuses an older carrier.
Served == {e \in Minted : now < Carries[e].expires + AliasReuseDelay + SweepLag}

\* The once-a-minute save, the only caller of Sweep: a node that persists.
SweepLoop == Sweep /\ UNCHANGED <<witnessLast, pending, signed, accepted, offered>>

\* Time passes; handlers and the sweep loop keep up within their bounds.
Elapse ==
    /\ \A h \in pending : now < h.at + HandlerDelay
    /\ \A e \in Carrier : e \in Members(AliasOf(e)) =>
          now < Carries[e].expires + AliasReuseDelay + SweepLag
    /\ Tick
    /\ UNCHANGED <<witnessLast, pending, signed, accepted, offered>>

WitnessInit ==
    /\ PoolInit
    /\ witnessLast = [a \in Alias |-> NoSignature]
    /\ pending = {} /\ signed = {} /\ offered = {}
    /\ accepted = [a \in Alias |-> 0]

WitnessNext ==
    \/ \E i \in Ident, r \in BOOLEAN : Screen(i, r)
    \/ \E h \in pending : Sign(h)
    \/ \E e \in Served : PutClaim(e) \/ CollectClaim(e)
    \/ SweepLoop
    \/ Elapse

WitnessSpec == WitnessInit /\ [][WitnessNext]_witnessVars

-----------------------------------------------------------------------------
(* Properties.                                                              *)

\* The witness tables hold aliases, handlers and signatures.
WitnessTypeOK ==
    /\ now \in Time
    /\ witnessLast \in [Alias -> Signature \cup {NoSignature}]
    /\ pending \subseteq Handler
    /\ signed \subseteq Signature
    /\ accepted \in [Alias -> Nat]
    /\ offered \subseteq Carrier

Competing(s, t) ==
    AliasOfId(s.ident) = AliasOfId(t.ident) /\ ClaimantOf(s.ident) # ClaimantOf(t.ident)

\* WITNESS_COOLDOWN: two signatures for different claimants of one alias are
\* at least the cooldown apart, up to the time two handlers may hold the
\* instant they read, whatever retries by one claimant, prunings of the table
\* and concurrent handlers come between.
WitnessSpacing ==
    \A s, t \in signed :
        Competing(s, t) =>
            s.at - t.at >= WitnessCooldown - 2 * HandlerDelay
            \/ t.at - s.at >= WitnessCooldown - 2 * HandlerDelay

\* What the spacing rests on.  The last recorded instant trails every signature
\* of its alias by at most one handler delay ...
LastIsRecent ==
    \A s \in signed :
        LET a == AliasOfId(s.ident) IN Seen(a) => s.at <= witnessLast[a].at + HandlerDelay

\* ... and a signature that the last entry does not protect, because the entry
\* is another claimant's or was pruned, is a cooldown old but for that delay.
UnprotectedIsOld ==
    \A s \in signed :
        LET a == AliasOfId(s.ident)
        IN  ~Seen(a) \/ ClaimantOf(witnessLast[a].ident) # ClaimantOf(s.ident)
            => now >= s.at + WitnessCooldown - HandlerDelay

\* Nothing is dated in the future, handlers are within their bound, and the
\* table's entries are for their own alias.
ClocksAgree ==
    /\ \A s \in signed : s.at <= now
    /\ \A h \in pending : h.at <= now /\ now <= h.at + HandlerDelay
    /\ \A a \in Alias : Seen(a) => AliasOfId(witnessLast[a].ident) = a /\ witnessLast[a].at <= now

\* The inductive invariant behind WitnessSpacing.
WitnessInv ==
    WitnessTypeOK /\ ClocksAgree /\ LastIsRecent /\ UnprotectedIsOld /\ WitnessSpacing

\* A live name stays exclusive across renewals: while some full carrier of the
\* one identity ever offered for an alias is alive, no other identity passes
\* the screens, although the pool keeps two generations only and may have
\* refused the live one.  (For an alias that is not evicted for budget, on a
\* node that persists, with peers that serve as Served says.)
LiveNameExclusive ==
    [][\A i \in Ident, r \in BOOLEAN : Screen(i, r) =>
          LET rivals == {e \in offered : AliasOf(e) = AliasOfId(i)}
          IN  Cardinality({IdentOf(e) : e \in rivals}) = 1
              => \A e \in rivals : now < Carries[e].expires => IdentOf(e) = i]_witnessVars

=============================================================================
