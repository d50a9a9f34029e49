----------------------------- MODULE Resolution -----------------------------
(***************************************************************************)
(* One resolution of a freens name, from the route to the answer:          *)
(* ResolveQuestion and what it calls (internal/resolver), on the claim set *)
(* that CollectClaimsWithWitnesses gathers (internal/dht/claims_lookup.go),*)
(* with the ledger of past-horizon identities the resolver keeps between   *)
(* resolutions (claims_ratchet.go).                                        *)
(*                                                                         *)
(* A carrier is a signed TLD record that carries a claim.  Identities in   *)
(* Sound pass the timeless screen (binding, proof of work, quorum), those  *)
(* in Member also the witness-set membership of the current walk.  A walk  *)
(* hears some of the carriers the network holds; it misses the others      *)
(* because their holders fail or withhold their answer, or because the     *)
(* caller's context ended, and only the former counts as degraded.         *)
(***************************************************************************)
EXTENDS Integers, FiniteSets, FiniteSetsExt, Absent

CONSTANTS
    Ident, Ts,          \* claim identities and their asserted timestamps
    Sound, Member,
    CarrierLease, ContestWindow, AliasReuseDelay, FreshWindow, SkewTolerance,
    RrTtl, TtlCap, ContestedTtlCap,
    MaxRatchetAliases,  \* aliases the ledger may hold
    Configs,            \* the configurations: [route, explicit, rescue, public, reserved, pin,
                        \* claimants: who claims the alias]
    MaxCarriers,        \* bound: carriers published
    MaxReboots, MaxResClock

\* claims.SelectWinner's order: the asserted instant, then the order key,
\* which no two identities share.
Precedes(i, j) == Ts[i] < Ts[j] \/ (Ts[i] = Ts[j] /\ i <= j)

Carrier == [id : Ident, created : Nat, expires : Nat, revoked : BOOLEAN]
ConfigRecord ==
    [route : {"deny", "freens", "dns", "freens-first", "dns-first"}, explicit : BOOLEAN,
     rescue : BOOLEAN, public : BOOLEAN, reserved : BOOLEAN, pin : Ident \cup {None},
     claimants : SUBSET Ident]

ASSUME ResolutionAssumption ==
    /\ Ts \in [Ident -> Int] /\ Sound \subseteq Ident /\ Member \subseteq Ident
    /\ {CarrierLease, MaxRatchetAliases, TtlCap} \subseteq Nat \ {0}
    /\ {ContestWindow, AliasReuseDelay, FreshWindow, RrTtl, ContestedTtlCap} \subseteq Nat
    /\ SkewTolerance \in Nat
    /\ Configs \subseteq ConfigRecord
    /\ None \notin Ident \cup Int \cup Carrier \cup {"freens", "upstream"}

\* Some identity of every group comes first.
ASSUME OrderAssumption ==
    \A I \in SUBSET Ident : I # {} => \E i \in I : \A j \in I : Precedes(i, j)

VARIABLES
    cfg,     \* the parsed configuration
    rnow,
    net,     \* carriers the network holds
    local,   \* carriers this node's store and claim pool hold
    proved,  \* identity -> instant of its last fresh re-attestation quorum, or None
    ledger,  \* past-horizon identities established for the alias
    crowd,   \* other aliases in the ledger
    last,    \* what was just answered; until it is sent
    published, reboots

resVars == <<cfg, rnow, net, local, proved, ledger, crowd, last, published, reboots>>

NoAnswer == [rcode |-> "none", src |-> None, aa |-> FALSE, ttl |-> 0, win |-> None,
             dead |-> FALSE, young |-> FALSE, heard |-> {}, missed |-> FALSE, cut |-> FALSE,
             bare |-> TRUE]

AnswerRecord ==
    [rcode : {"none", "answer", "nodata", "nxdomain", "servfail", "refused"},
     src : {None, "freens", "upstream"}, aa : BOOLEAN, ttl : 0 .. TtlCap, win : Ident \cup {None},
     dead : BOOLEAN, young : BOOLEAN, heard : SUBSET Carrier, missed : BOOLEAN, cut : BOOLEAN,
     bare : BOOLEAN]

ResTypeOK ==
    /\ cfg \in Configs /\ rnow \in Nat
    /\ net \in SUBSET Carrier /\ local \in SUBSET Carrier
    /\ proved \in [Ident -> Nat \cup {None}]
    /\ ledger \in SUBSET Ident /\ crowd \in Nat
    /\ crowd + (IF ledger = {} THEN 0 ELSE 1) <= MaxRatchetAliases
    /\ last \in AnswerRecord

ResInit ==
    /\ cfg \in Configs /\ rnow = 0 /\ net = {} /\ local = {}
    /\ proved = [i \in Ident |-> None] /\ ledger = {} /\ crowd = 0
    /\ last = NoAnswer /\ published = 0 /\ reboots = 0

-----------------------------------------------------------------------------
(* The claim set                                                            *)

Live(c) == c.created <= rnow /\ rnow < c.expires
InWindow(i) == rnow - Ts[i] < ContestWindow

\* verifyClaimEnvelope on a carrier: alive, not dated in the future, and its
\* witnesses in the set as long as the claim can still be contested.
Verified(c) ==
    /\ Live(c) /\ c.id \in Sound /\ Ts[c.id] <= rnow + SkewTolerance
    /\ InWindow(c.id) => c.id \in Member

\* Dead carriers that still block the alias; a revoked one never does.
Tombstones(C) ==
    {c \in C : /\ c.id \in Sound /\ ~c.revoked /\ Ts[c.id] <= rnow + SkewTolerance
               /\ rnow >= c.expires /\ c.expires + AliasReuseDelay > rnow}

\* The latest death among them; on a tie the collection order decides.
Strongest(T) == {t \in T : \A u \in T : u.expires <= t.expires}

\* One live claim is continuity with the dead lease t.
Continuity(L, t) == \E c \in L : c.created < t.expires \/ c.id = t.id

FreshProof(i) == proved[i] # None /\ rnow - proved[i] <= FreshWindow
PastHorizon(i) == Ts[i] <= rnow - ContestWindow

\* Step 1 of filterPastHorizonNewcomers: fresh evidence, where there is any,
\* is required of every past-horizon claim.
Evidenced(L) == {c.id : c \in {d \in L : PastHorizon(d.id) /\ FreshProof(d.id)}}
Preferred(L) ==
    IF Evidenced(L) = {} THEN L
    ELSE {c \in L : PastHorizon(c.id) => c.id \in Evidenced(L)}

\* Fault: observation does not defend an alias.
RatchetedNot(L) == Preferred(L)

\* Step 2: against an established identity a newcomer needs fresh evidence.
Ratcheted(L) ==
    {c \in Preferred(L) : \/ ~PastHorizon(c.id) \/ ledger = {}
                          \/ c.id \in ledger \/ c.id \in Evidenced(L)}

\* observe, once per kept past-horizon claim; a full ledger is dropped whole.
Observed(L) ==
    LET ids == {c.id : c \in {d \in Ratcheted(L) : PastHorizon(d.id)}}
        full == crowd + (IF ledger = {} THEN 0 ELSE 1) >= MaxRatchetAliases
    IN  IF ids = {} THEN {[ids |-> ledger, crowd |-> crowd]}
        ELSE IF ~full THEN {[ids |-> ledger \cup ids, crowd |-> crowd]}
        ELSE IF MaxRatchetAliases > 1 THEN {[ids |-> ids, crowd |-> 0]}
        ELSE {[ids |-> {i}, crowd |-> 0] : i \in ids}

\* claims.SelectWinner.
Winner(L) == CHOOSE c \in L : \A d \in L : Precedes(c.id, d.id)

\* resolveClaimSet on the carriers C: a winner or None.
ClaimSet(C, t) ==
    LET L == {c \in C : Verified(c)}
        K == Ratcheted(L)
    IN  IF K = {} \/ (t # None /\ ~Continuity(K, t)) THEN None ELSE Winner(K).id

-----------------------------------------------------------------------------
(* From the winner to the answer                                            *)

\* freensRRToDNS, and the cap on a contested winner's answer.
AnswerTtl(w, pinned, left) ==
    LET base == Min({RrTtl, left, TtlCap})
    IN  IF ~pinned /\ InWindow(w) THEN Min({base, ContestedTtlCap}) ELSE base

Outcome(rc, w, d) == [NoAnswer EXCEPT !.rcode = rc, !.src = "freens", !.win = w, !.dead = d]

\* How the authority walk to the name ends: at the apex or below it a lookup
\* fails, or the record is missing, expired, invalid or revoked; or the chain
\* verifies, and the name has records of the queried type or not.
WalkEnds == {"apex failed", "apex gone", "hop failed", "hop gone", "nodata", "answer"}
Chain(w, pinned, end, left) ==
    CASE end \in {"apex failed", "hop failed"} -> Outcome("servfail", None, FALSE)
      [] end = "apex gone" -> Outcome("nxdomain", None, TRUE)
      [] end = "hop gone"  -> Outcome("nxdomain", None, FALSE)
      [] OTHER -> [Outcome(end, w, FALSE)
                      EXCEPT !.ttl = IF end = "answer" THEN AnswerTtl(w, pinned, left) ELSE 0,
                             !.young = ~pinned /\ InWindow(w)]

\* ErrDegradedMiss and ErrWalkBusy: nothing collected and something missed.
Degraded(C, counted) == C = {} /\ counted

\* The reserved-alias gate: such an alias has no claims, unless it is pinned.
Claimless == cfg.reserved /\ cfg.pin = None

\* freensResolve when the carriers C were collected, t their strongest
\* tombstone; the pin comes first, then the gate.
FreensResolve(C, t, counted, end, left) ==
    LET w == IF cfg.pin # None THEN cfg.pin ELSE ClaimSet(C, t)
    IN  IF Claimless THEN Outcome("nxdomain", None, TRUE)
        ELSE IF cfg.pin = None /\ Degraded(C, counted) THEN Outcome("servfail", None, FALSE)
        ELSE IF w = None THEN Outcome("nxdomain", None, TRUE)
        ELSE Chain(w, cfg.pin # None, end, left)

AskUpstream(rc) == [NoAnswer EXCEPT !.rcode = rc, !.src = "upstream",
                                 !.ttl = IF rc = "answer" THEN 1 ELSE 0]
Authoritative(o) == [o EXCEPT !.aa = TRUE]
RefusedReply == [NoAnswer EXCEPT !.rcode = "refused"]

\* resolveRouted, given what freens and what upstream would answer.
ResolveRouted(f, u) ==
    CASE cfg.route = "deny"         -> RefusedReply
      [] cfg.route = "freens"       -> Authoritative(f)
      [] cfg.route = "dns"          -> AskUpstream(u)
      [] cfg.route = "freens-first" -> IF f.rcode \in {"nxdomain", "nodata"} THEN AskUpstream(u)
                                       ELSE Authoritative(f)
      [] cfg.route = "dns-first"    -> IF u = "nxdomain" THEN Authoritative(f) ELSE AskUpstream(u)

\* ResolveQuestion on the bare name, or on the name dressed with a suffix that
\* claims nothing itself: the rescue strips the suffix and asks freens only.
ResolveQuestion(dressed, f, u) ==
    IF ~dressed THEN ResolveRouted(f, u)
    ELSE LET first == ResolveRouted(Outcome("nxdomain", None, TRUE), u)
             open  == cfg.rescue /\ ~cfg.public /\ (~cfg.explicit \/ cfg.route = "freens-first")
         IN  IF open /\ first.rcode = "nxdomain" /\ f.rcode = "answer"
             THEN Authoritative(f) ELSE [first EXCEPT !.dead = FALSE]

\* Freens is consulted at all on this route.
Consulted(dressed, u) ==
    IF dressed
    THEN /\ cfg.rescue /\ ~cfg.public /\ (~cfg.explicit \/ cfg.route = "freens-first")
         /\ ResolveRouted(Outcome("nxdomain", None, TRUE), u).rcode = "nxdomain"
    ELSE \/ cfg.route \in {"freens", "freens-first"}
         \/ cfg.route = "dns-first" /\ u = "nxdomain"

\* Everything collected is offered to the claim pool, which keeps two.
Kept(C) == IF Cardinality(C) <= 2 THEN {C} ELSE kSubset(2, C)

Resolve ==
    /\ last = NoAnswer
    /\ \E dressed \in {FALSE, cfg.rescue} :
       \E u \in IF cfg.route \in {"freens", "deny"} THEN {"servfail"}
               ELSE {"answer", "nodata", "nxdomain", "servfail"} :
       LET asks  == Consulted(dressed, u)
           walks == asks /\ cfg.pin = None /\ ~Claimless
       IN
       \E heard \in IF walks THEN SUBSET net ELSE {{}}, end \in IF asks THEN WalkEnds ELSE {"nodata"} :
       \E cut \in {FALSE, heard # net}, left \in IF end = "answer" THEN {1, CarrierLease} ELSE {1} :
           LET C       == heard \cup local
               missed  == net \ heard # {}
               T       == Tombstones(C)
               L       == {c \in C : Verified(c)}
           IN  \E t \in IF T = {} THEN {None} ELSE Strongest(T) :
               LET f == FreensResolve(C, t, missed /\ ~cut, end, left)
                   a == ResolveQuestion(dressed, f, u)
               IN  /\ last' = [a EXCEPT !.dead = a.dead \/ (asks /\ f.dead),
                                        !.heard = IF walks THEN C ELSE {},
                                        !.missed = walks /\ missed,
                                        !.cut = walks /\ cut, !.bare = ~dressed]
                   /\ IF ~walks \/ Degraded(C, missed /\ ~cut)
                      THEN UNCHANGED <<local, ledger, crowd>>
                      ELSE /\ local' \in Kept(C)
                           /\ IF L = {} THEN UNCHANGED <<ledger, crowd>>
                              ELSE \E o \in Observed(L) : ledger' = o.ids /\ crowd' = o.crowd
                   /\ UNCHANGED <<cfg, rnow, net, proved, published, reboots>>

-----------------------------------------------------------------------------
(* The world around it                                                      *)

\* The claimant registers, renews or revokes: its newest carrier replaces the
\* one its holders had.
PublishCarrier(i, rv) ==
    /\ published < MaxCarriers /\ published' = published + 1 /\ i \in cfg.claimants
    /\ net' = {c \in net : c.id # i}
              \cup {[id |-> i, created |-> rnow, expires |-> rnow + CarrierLease, revoked |-> rv]}
    /\ last = NoAnswer /\ UNCHANGED <<last, cfg, rnow, local, proved, ledger, crowd, reboots>>

\* The reply is written.
Replied ==
    /\ last # NoAnswer /\ last' = NoAnswer
    /\ UNCHANGED <<cfg, rnow, net, local, proved, ledger, crowd, published, reboots>>

\* A renewal collects a fresh quorum, and the holders pool it.
ReAttest(i) ==
    /\ i \in cfg.claimants /\ proved[i] = None /\ \E c \in net : c.id = i /\ Live(c)
    /\ proved' = [proved EXCEPT ![i] = rnow]
    /\ last = NoAnswer
    /\ UNCHANGED <<last, cfg, rnow, net, local, ledger, crowd, published, reboots>>

\* Another alias is resolved and its identity observed.
OtherAlias ==
    LET size == crowd + (IF ledger = {} THEN 0 ELSE 1)
    IN  /\ IF size >= MaxRatchetAliases THEN crowd' = 1 /\ ledger' = {}
           ELSE crowd' = crowd + 1 /\ UNCHANGED ledger
        /\ last = NoAnswer /\ UNCHANGED <<last, cfg, rnow, net, local, proved, published, reboots>>

\* The ledger is in memory only; the pool comes back from its files.
ResRestart ==
    /\ reboots < MaxReboots /\ reboots' = reboots + 1
    /\ ledger' = {} /\ crowd' = 0
    /\ last = NoAnswer /\ UNCHANGED <<last, cfg, rnow, net, local, proved, published>>

Lingering(C) == {c \in C : c.expires + AliasReuseDelay > rnow + 1}
ResTick ==
    /\ rnow < MaxResClock /\ rnow' = rnow + 1
    /\ net' = Lingering(net) /\ local' = Lingering(local)
    /\ last = NoAnswer /\ UNCHANGED <<last, cfg, proved, ledger, crowd, published, reboots>>

ResNext ==
    \/ Resolve \/ Replied
    \/ \E i \in Ident : PublishCarrier(i, FALSE) \/ PublishCarrier(i, TRUE) \/ ReAttest(i)
    \/ OtherAlias \/ ResRestart \/ ResTick

ResSpec == ResInit /\ [][ResNext]_resVars

-----------------------------------------------------------------------------
(* Properties.                                                              *)

\* An identity this resolver established, that is past its horizon and was
\* heard again with a live lease, is not displaced by another past-horizon
\* identity that brings no fresh evidence, whatever timestamp it asserts
\* (claims_ratchet.go), unless the ledger was dropped or lost in between.
NotDisplaced ==
    \A i \in ledger :
        /\ last'.win # None /\ cfg.pin = None
        /\ PastHorizon(i) /\ \E c \in last'.heard : c.id = i /\ Verified(c)
        /\ {c \in last'.heard : Verified(c) /\ PastHorizon(c.id) /\ FreshProof(c.id)} = {}
        => last'.win \in ledger \/ ~PastHorizon(last'.win)
EstablishedIsNotDisplaced == [][NotDisplaced]_resVars

\* Inside the reuse window nobody takes over an alias whose last lease the
\* resolver heard of, unless somebody continues it: held a lease while it
\* lived, or is its own claimant come back (section 8.4).
NoReuseInsideTheWindow ==
    \A t \in last.heard :
        last.win # None /\ t \in Tombstones(last.heard)
        => \E c \in last.heard, d \in Strongest(Tombstones(last.heard)) :
              Verified(c) /\ (c.created < d.expires \/ c.id = d.id)

\* What is answered does not outlive what it rests on: no longer than the cap
\* while the winner can still be displaced; and a claim in its contest window
\* is always passed on as young, so that its CA is not trusted yet.
ContestedIsProvisional ==
    last.win # None /\ cfg.pin = None /\ InWindow(last.win)
    => last.young /\ last.ttl <= ContestedTtlCap

\* Local policy is final: a denied alias is refused, a pinned one resolves to
\* its pin, a reserved one is never answered from a claim, a dns route never
\* answers from freens and a freens route never from upstream; only a freens
\* outcome is authoritative.
PolicyIsFinal ==
    last.rcode # "none" =>
        /\ cfg.route = "deny" => last.rcode = "refused"
        /\ cfg.pin # None => last.win \in {None, cfg.pin}
        /\ cfg.reserved /\ cfg.pin = None => last.win = None
        /\ cfg.route = "dns" /\ cfg.explicit => last.src = "upstream"
        /\ cfg.route = "freens" => last.src = "freens"
        /\ last.aa <=> last.src = "freens"

\* A negative answer of freens itself, which is cached, is never given for a
\* bare name while nothing at all could be collected because holders failed
\* or held back (issue #1).
FailureIsNotAbsence ==
    last.missed /\ last.heard = {} /\ ~last.cut /\ last.bare
    => ~(last.rcode = "nxdomain" /\ last.aa)

=============================================================================
