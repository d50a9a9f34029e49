---------------------------- MODULE ResolverProofs ----------------------------
(***************************************************************************)
(* Proofs about what a node believes: the ledger of misbehaving peers      *)
(* (Ledger), for any number of processes that share it, the resolution of a*)
(* question against the network, the local pins and the upstream           *)
(* (Resolution), for any set of names, claims and carriers, and the        *)
(* synchronisation of the host's trust store with the names it follows     *)
(* (TrustSync), for any number of names, CA keys and notification handlers.*)
(***************************************************************************)
EXTENDS Ledger, Resolution, TrustSync, TLAPS

-----------------------------------------------------------------------------
(***************************************************************************)
(* The flags of misbehaving peers.                                         *)
(***************************************************************************)

\* What FlagStands rests on: a standing conviction's entry covers the whole
\* day, and no entry, in memory or on disk, is shorter than a day.
FlagsCoverTheDay ==
    /\ \A p \in opened, o \in Offender :
         (convicted[p][o] # 0 /\ ledgerClock <= convicted[p][o] + FlagTTL)
            => flags[p][o] >= convicted[p][o] + FlagTTL
    /\ \A o \in Offender :
         /\ ledgerFile[o] # 0 => ledgerFile[o] > FlagTTL
         /\ \A p \in Proc : flags[p][o] # 0 => flags[p][o] > FlagTTL

\* No flag, on disk or in a process, outlives the last violation by more than
\* its TTL.
FlagsBounded ==
    \A o \in Offender :
       /\ ledgerFile[o] # 0 => lastViolation[o] # 0 /\ ledgerFile[o] <= lastViolation[o] + FlagTTL
       /\ \A p \in Proc : flags[p][o] # 0 =>
             lastViolation[o] # 0 /\ flags[p][o] <= lastViolation[o] + FlagTTL

\* The inductive invariant: every process and the file cover the day after the
\* last violation, and no more.
LedgerInv == LedgerTypeOK /\ FlagsCoverTheDay /\ FlagsBounded

\* lastViolation is never in the future, so a new violation only raises it.
PastViolations == \A o \in Offender : lastViolation[o] <= ledgerClock

\* Nobody is flagged at the start.
LEMMA LedgerInitInv == LedgerInit => LedgerInv /\ PastViolations
BY LedgerAssumption, SMTT(60) DEF LedgerInit, LedgerInv, LedgerTypeOK, FlagsCoverTheDay, FlagsBounded, NoFlags, Expiry, PastViolations

\* Flagging, merging the file, saving and restarting keep the ledger's
\* invariant.
LEMMA LedgerNextInv == LedgerInv /\ PastViolations /\ [LedgerNext]_ledgerVars => LedgerInv' /\ PastViolations'
<1> SUFFICES ASSUME LedgerInv, PastViolations, [LedgerNext]_ledgerVars PROVE LedgerInv' /\ PastViolations'
  BY Zenon
<1> USE LedgerAssumption DEF LedgerInv, LedgerTypeOK, FlagsCoverTheDay, FlagsBounded, Expiry, PastViolations
<1>1. ASSUME NEW p \in Proc, OpenLedger(p) PROVE LedgerInv' /\ PastViolations'
  BY <1>1 DEF OpenLedger, Loaded, Unexpired
<1>2. ASSUME NEW p \in Proc, Exit(p) PROVE LedgerInv' /\ PastViolations'
  BY <1>2 DEF Exit, NoFlags
<1>3. ASSUME NEW p \in Proc, List(p) PROVE LedgerInv' /\ PastViolations'
  BY <1>3, SMTT(60) DEF List, Unexpired
<1>4. ASSUME NEW p \in Proc, NEW o \in Offender, Record(p, o) PROVE LedgerInv' /\ PastViolations'
  <2> DEFINE m == [Adopted(p) EXCEPT ![o] = ledgerClock + FlagTTL]
  <2>1. m \in [Offender -> Expiry]
    BY <1>4 DEF Record, Adopted, Unexpired, Later
  <2>2. flags' = [flags EXCEPT ![p] = m] /\ (ledgerFile' = m \/ ledgerFile' = ledgerFile)
    BY <1>4, Zenon DEF Record, Save
  <2>3. \A x \in Offender : m[x] # 0 =>
          m[x] > FlagTTL /\ lastViolation'[x] # 0 /\ m[x] <= lastViolation'[x] + FlagTTL
    BY <1>4, SMTT(60) DEF Record, Adopted, Unexpired, Later
  <2>4. m[o] = ledgerClock + FlagTTL /\ \A x \in Offender \ {o} : m[x] >= flags[p][x]
    BY <1>4, SMTT(60) DEF Record, Adopted, Unexpired, Later
  <2>5. /\ opened' = opened /\ ledgerClock' = ledgerClock /\ pardoned' \subseteq pardoned
        /\ convicted' = [convicted EXCEPT ![p][o] = ledgerClock]
        /\ lastViolation' = [lastViolation EXCEPT ![o] = ledgerClock]
    BY <1>4, Zenon DEF Record
  <2> HIDE DEF m
  <2>6. LedgerTypeOK' /\ PastViolations'
    BY <2>1, <2>2, <2>5, SMTT(60)
  <2>7. FlagsBounded'
    BY <2>1, <2>2, <2>3, <2>5, SMTT(60)
  <2>8. FlagsCoverTheDay'
    BY <2>1, <2>2, <2>3, <2>4, <2>5, SMTT(60)
  <2> QED
    BY <2>6, <2>7, <2>8, Zenon
<1>5. ASSUME NEW p \in Proc, NEW o \in Offender, Decay(p, o) PROVE LedgerInv' /\ PastViolations'
  <2> DEFINE m == [flags[p] EXCEPT ![o] = 0]
  <2>1. m \in [Offender -> Expiry]
    BY <1>5 DEF Decay
  <2>2. flags' = [flags EXCEPT ![p] = m] /\ (ledgerFile' = m \/ ledgerFile' = ledgerFile)
    BY <1>5, Zenon DEF Decay, Save
  <2>3. \A x \in Offender : m[x] # 0 => m[x] = flags[p][x]
    BY Zenon
  <2>4. \A x \in Offender : m[x] = flags[p][x] \/ ledgerClock > flags[p][x]
    BY <1>5, Zenon DEF Decay
  <2>5. UNCHANGED <<ledgerClock, opened, convicted, lastViolation, pardoned>>
    BY <1>5, Zenon DEF Decay
  <2> HIDE DEF m
  <2>6. LedgerTypeOK' /\ PastViolations'
    BY <2>1, <2>2, <2>5, Zenon
  <2>7. FlagsBounded'
    BY <2>1, <2>2, <2>3, <2>5, Zenon
  <2>8. FlagsCoverTheDay'
    BY <2>1, <2>2, <2>3, <2>4, <2>5, SMTT(60)
  <2> QED
    BY <2>6, <2>7, <2>8, Zenon
<1>6. ASSUME NEW p \in Proc, NEW o \in Offender, Pardon(p, o) PROVE LedgerInv' /\ PastViolations'
  <2> DEFINE m == [Unexpired(flags[p]) EXCEPT ![o] = 0]
  <2>1. m \in [Offender -> Expiry]
    BY <1>6, SMTT(60) DEF Pardon, Flagged, Unexpired
  <2>2. flags' = [flags EXCEPT ![p] = m] /\ (ledgerFile' = m \/ ledgerFile' = ledgerFile)
    BY <1>6, Zenon DEF Pardon, Save
  <2>3. \A x \in Offender : m[x] # 0 => m[x] = flags[p][x]
    BY Zenon  DEF Unexpired
  <2>4. \A x \in Offender \ {o} : m[x] = flags[p][x] \/ ledgerClock > flags[p][x]
    BY Zenon  DEF Unexpired
  <2>5. /\ UNCHANGED <<ledgerClock, opened, lastViolation>> /\ pardoned' \subseteq Offender
        /\ convicted' = [convicted EXCEPT ![p][o] = 0]
    BY <1>6, Zenon DEF Pardon
  <2> HIDE DEF m
  <2>6. LedgerTypeOK' /\ PastViolations'
    BY <2>1, <2>2, <2>5, SMTT(60)
  <2>7. FlagsBounded'
    BY <2>1, <2>2, <2>3, <2>5, Zenon
  <2>8. FlagsCoverTheDay'
    BY <2>1, <2>2, <2>3, <2>4, <2>5, SMTT(60)
  <2> QED
    BY <2>6, <2>7, <2>8, Zenon
<1>7. CASE LedgerTick
  BY <1>7, SMTT(60) DEF LedgerTick
<1>8. CASE UNCHANGED ledgerVars
  BY <1>8, Zenon DEF ledgerVars
<1> QED
  BY <1>1, <1>2, <1>3, <1>4, <1>5, <1>6, <1>7, <1>8, Zenon DEF LedgerNext

\* A flag lasts a day, no less and no more (the violation ledger's record,
\* load, merge and decay): for any number of processes that share the file, a
\* process that recorded or loaded a violation flags the peer for the whole
\* TTL, and no flag, in memory or on disk, outlives the last violation by more
\* than it.
THEOREM FlagsAreDayLong == LedgerSpec => []FlagsLastADay
<1>1. LedgerInv => FlagStands
  BY LedgerAssumption DEF LedgerInv, LedgerTypeOK, FlagStands, Flagged, FlagsCoverTheDay, Expiry
<1>2. LedgerInv => FlagsDecay
  BY Zenon  DEF LedgerInv, FlagsDecay, FlagsBounded
<1>3. LedgerInv => FlagsLastADay
  BY <1>1, <1>2, Zenon DEF FlagsLastADay
<1> QED
  BY <1>3, LedgerInitInv, LedgerNextInv, PTL DEF LedgerSpec

-----------------------------------------------------------------------------
(***************************************************************************)
(* One resolution: the winner among competing claims, and what the client  *)
(* is told.                                                                *)
(***************************************************************************)

\* What the walk over the network may end with.
FreensRcodes == {"servfail", "nxdomain", "nodata", "answer"}
\* The carriers that verify.
LiveOf(C) == {c \in C : Verified(c)}

\* claims.SelectWinner picks one of the claims it is given.
LEMMA WinnerIn == ASSUME NEW K \in SUBSET Carrier, K # {} PROVE Winner(K) \in K
<1> DEFINE I == {c.id : c \in K}
<1>1. I \in SUBSET Ident /\ I # {}
  BY Zenon  DEF Carrier
<1>2. PICK i \in I : \A j \in I : Precedes(i, j)
  BY <1>1, OrderAssumption, Zenon
<1>3. PICK c \in K : c.id = i
  BY <1>2, Zenon
<1>4. \A d \in K : Precedes(c.id, d.id)
  BY <1>2, <1>3, Zenon
<1> HIDE DEF I
<1> QED
  BY <1>3, <1>4, Zenon DEF Winner

\* The ratchet only removes carriers.
LEMMA RatchetedLive == \A L : Ratcheted(L) \subseteq L
BY Zenon  DEF Ratcheted, Preferred

\* A winner is one of the claims that verified and passed the ratchet, and one
\* of them continues the strongest tombstone.
LEMMA ClaimSetWinner ==
    ASSUME NEW C \in SUBSET Carrier, NEW t, ClaimSet(C, t) # None
    PROVE  /\ \E c \in Ratcheted(LiveOf(C)) : ClaimSet(C, t) = c.id
           /\ ClaimSet(C, t) \in Ident
           /\ t # None => Continuity(Ratcheted(LiveOf(C)), t)
<1> DEFINE K == Ratcheted(LiveOf(C))
<1>1. ClaimSet(C, t) = IF K = {} \/ (t # None /\ ~Continuity(K, t)) THEN None ELSE Winner(K).id
  BY Zenon  DEF ClaimSet, LiveOf
<1>2. K \in SUBSET Carrier
  BY RatchetedLive, Zenon DEF LiveOf
<1> HIDE DEF K
<1>3. K # {} /\ (t # None => Continuity(K, t)) /\ ClaimSet(C, t) = Winner(K).id
  BY <1>1, Zenon
<1>4. Winner(K) \in K
  BY <1>2, <1>3, WinnerIn, Zenon
<1>5. Winner(K).id \in Ident
  BY <1>2, <1>4, Zenon DEF Carrier
<1> QED
  BY <1>3, <1>4, <1>5, Zenon DEF K

\* The least of three numbers is no more than the last.
LEMMA MinOfThree ==
    ASSUME NEW a \in Nat, NEW b \in Nat, NEW c \in Nat
    PROVE  Min({a, b, c}) \in Nat /\ Min({a, b, c}) <= c
<1>1. \E x \in {a, b, c} : \A y \in {a, b, c} : x =< y
  <2>1. CASE a <= b /\ a <= c
    BY <2>1
  <2>2. CASE b <= a /\ b <= c
    BY <2>2
  <2>3. CASE c <= a /\ c <= b
    BY <2>3
  <2> QED
    BY <2>1, <2>2, <2>3
<1> QED
  BY <1>1, Zenon DEF Min

\* The least of two numbers is no more than either.
LEMMA MinOfTwo ==
    ASSUME NEW a \in Nat, NEW b \in Nat
    PROVE  Min({a, b}) \in Nat /\ Min({a, b}) <= a /\ Min({a, b}) <= b
<1>1. \E x \in {a, b} : \A y \in {a, b} : x =< y
  <2>1. CASE a <= b
    BY <2>1
  <2>2. CASE b <= a
    BY <2>2
  <2> QED
    BY <2>1, <2>2
<1> QED
  BY <1>1, Zenon DEF Min

\* A TTL is capped, and further while the winner can still be displaced.
LEMMA TtlCapped ==
    ASSUME NEW w, NEW p \in BOOLEAN, NEW left \in Nat
    PROVE  /\ AnswerTtl(w, p, left) \in 0 .. TtlCap
           /\ ~p /\ InWindow(w) => AnswerTtl(w, p, left) <= ContestedTtlCap
<1> DEFINE base == Min({RrTtl, left, TtlCap})
<1>1. RrTtl \in Nat /\ TtlCap \in Nat /\ ContestedTtlCap \in Nat
  BY ResolutionAssumption, Zenon
<1>2. base \in Nat /\ base <= TtlCap
  BY <1>1, MinOfThree, Zenon
<1>3. AnswerTtl(w, p, left) = IF ~p /\ InWindow(w) THEN Min({base, ContestedTtlCap}) ELSE base
  BY Zenon  DEF AnswerTtl
<1> HIDE DEF base
<1>4. Min({base, ContestedTtlCap}) \in Nat /\ Min({base, ContestedTtlCap}) <= base
      /\ Min({base, ContestedTtlCap}) <= ContestedTtlCap
  BY <1>1, <1>2, MinOfTwo, Zenon
<1> QED
  BY <1>1, <1>2, <1>3, <1>4

\* The absent answer.
LEMMA NoAnswerType == NoAnswer \in AnswerRecord
BY ResolutionAssumption DEF NoAnswer, AnswerRecord

\* The negative outcomes and failures of freensResolve.
Misses == {Outcome("nxdomain", None, TRUE), Outcome("nxdomain", None, FALSE), Outcome("servfail", None, FALSE)}

\* A miss comes from the network and has no winner.
LEMMA MissType ==
    /\ \A o \in Misses : /\ o \in AnswerRecord /\ o.src = "freens" /\ o.rcode \in FreensRcodes
                          /\ o.win = None
    /\ Outcome("servfail", None, FALSE).rcode = "servfail"
BY NoAnswerType, ZenonT(60) DEF Misses, Outcome, AnswerRecord, FreensRcodes, NoAnswer

\* A find names its winner.
LEMMA FoundType ==
    ASSUME NEW rc \in {"nodata", "answer"}, NEW w \in Ident
    PROVE  /\ Outcome(rc, w, FALSE) \in AnswerRecord /\ Outcome(rc, w, FALSE).src = "freens"
           /\ Outcome(rc, w, FALSE).rcode = rc /\ Outcome(rc, w, FALSE).win = w
BY NoAnswerType, Zenon DEF Outcome, AnswerRecord, NoAnswer

\* How the authority walk ends from the winner w.
LEMMA ChainShape ==
    ASSUME NEW w \in Ident, NEW p \in BOOLEAN, NEW end \in WalkEnds, NEW left \in Nat
    PROVE  LET f == Chain(w, p, end, left)
           IN  /\ f \in AnswerRecord /\ f.src = "freens" /\ f.rcode \in FreensRcodes
               /\ f.win \in {w, None}
               /\ f.win # None /\ ~p /\ InWindow(w) => f.young /\ f.ttl <= ContestedTtlCap
<1>1. CASE end \in {"apex failed", "hop failed", "apex gone", "hop gone"}
  <2>1. Chain(w, p, end, left) \in Misses
    BY <1>1, Zenon DEF Chain, Misses
  <2> QED
    BY <2>1, MissType, Zenon
<1>2. CASE end \in {"nodata", "answer"}
  <2> DEFINE o == Outcome(end, w, FALSE)
             ttl == IF end = "answer" THEN AnswerTtl(w, p, left) ELSE 0
             y == ~p /\ InWindow(w)
  <2>1. Chain(w, p, end, left) = [o EXCEPT !.ttl = ttl, !.young = y]
    BY <1>2, Zenon DEF Chain
  <2>2. o \in AnswerRecord /\ o.src = "freens" /\ o.rcode = end /\ o.win = w
    BY <1>2, FoundType, ZenonT(60)
  <2>3. ttl \in 0 .. TtlCap /\ (y => ttl <= ContestedTtlCap)
    <3>1. CASE end = "answer"
      BY <3>1, TtlCapped, Zenon
    <3>2. CASE end # "answer"
      BY <3>2, ResolutionAssumption
    <3> QED
      BY <3>1, <3>2, Zenon
  <2>4. y \in BOOLEAN
    BY Zenon
  <2> HIDE DEF o, ttl, y
  <2>5. /\ Chain(w, p, end, left) \in AnswerRecord /\ Chain(w, p, end, left).src = "freens"
        /\ Chain(w, p, end, left).rcode = end /\ Chain(w, p, end, left).win = w
        /\ Chain(w, p, end, left).young = y /\ Chain(w, p, end, left).ttl = ttl
    BY <2>1, <2>2, <2>3, <2>4, ZenonT(60) DEF AnswerRecord
  <2> QED
    BY <1>2, <2>3, <2>5, Zenon DEF y, FreensRcodes
<1> QED
  BY <1>1, <1>2, Zenon DEF WalkEnds

\* freensResolve on the carriers C.
Fresolved(f, C, t, counted) ==
    /\ f \in AnswerRecord /\ f.src = "freens" /\ f.rcode \in FreensRcodes
    /\ f.win # None =>
          /\ ~Claimless /\ cfg.pin # None => f.win = cfg.pin
          /\ cfg.pin = None => f.win = ClaimSet(C, t) /\ ~Claimless
          /\ cfg.pin = None /\ InWindow(f.win) => f.young /\ f.ttl <= ContestedTtlCap
    /\ cfg.pin = None /\ ~Claimless /\ Degraded(C, counted) => f.rcode = "servfail"

\* What the walk over the network decides, for every policy and every set of
\* carriers.
LEMMA FreensShape ==
    ASSUME cfg \in ConfigRecord, NEW C \in SUBSET Carrier, NEW t, NEW counted \in BOOLEAN,
           NEW end \in WalkEnds, NEW left \in Nat
    PROVE  Fresolved(FreensResolve(C, t, counted, end, left), C, t, counted)
<1> DEFINE f == FreensResolve(C, t, counted, end, left)
           w == IF cfg.pin # None THEN cfg.pin ELSE ClaimSet(C, t)
<1>1. CASE Claimless
  <2>1. f = Outcome("nxdomain", None, TRUE)
    BY <1>1, Zenon DEF FreensResolve
  <2> QED
    BY <1>1, <2>1, MissType, Zenon DEF Fresolved, Misses, FreensRcodes
<1>2. CASE ~Claimless /\ cfg.pin = None /\ Degraded(C, counted)
  <2>1. f = Outcome("servfail", None, FALSE)
    BY <1>2, Zenon DEF FreensResolve
  <2> QED
    BY <1>2, <2>1, MissType, Zenon DEF Fresolved, Misses, FreensRcodes
<1>3. CASE ~Claimless /\ ~(cfg.pin = None /\ Degraded(C, counted)) /\ w = None
  <2>1. f = Outcome("nxdomain", None, TRUE)
    BY <1>3, Zenon DEF FreensResolve
  <2> QED
    BY <1>3, <2>1, MissType, Zenon DEF Fresolved, Misses, FreensRcodes
<1>4. CASE ~Claimless /\ ~(cfg.pin = None /\ Degraded(C, counted)) /\ w # None
  <2> DEFINE p == cfg.pin # None
  <2>1. f = Chain(w, p, end, left) /\ p \in BOOLEAN
    BY <1>4, Zenon DEF FreensResolve
  <2>2. w \in Ident
    BY <1>4, ClaimSetWinner, Zenon DEF ConfigRecord
  <2> HIDE DEF f, w, p
  <2>a. /\ f \in AnswerRecord /\ f.src = "freens" /\ f.rcode \in FreensRcodes /\ f.win \in {w, None}
        /\ f.win # None /\ ~p /\ InWindow(w) => f.young /\ f.ttl <= ContestedTtlCap
    BY <2>1, <2>2, ChainShape, Zenon
  <2> USE DEF w, p
  <2>3. /\ f \in AnswerRecord /\ f.src = "freens" /\ f.rcode \in FreensRcodes /\ f.win \in {w, None}
        /\ f.win # None /\ cfg.pin = None /\ InWindow(w) => f.young /\ f.ttl <= ContestedTtlCap
    BY <2>a, Zenon
  <2>4. Fresolved(f, C, t, counted)
    BY <1>4, <2>3, Zenon DEF Fresolved
  <2> QED
    BY <2>4, Zenon DEF f
<1> QED
  BY <1>1, <1>2, <1>3, <1>4, Zenon

\* What the upstream may say.
Upstreams4 == {"answer", "nodata", "nxdomain", "servfail"}

\* resolveRouted: where an answer comes from is the route's decision.
LEMMA RoutedShape ==
    ASSUME cfg \in ConfigRecord, NEW f \in AnswerRecord, f.src = "freens", f.rcode \in FreensRcodes,
           NEW u \in Upstreams4
    PROVE  LET g == ResolveRouted(f, u)
           IN  /\ g \in AnswerRecord /\ g.rcode # "none"
               /\ cfg.route = "deny" => g.rcode = "refused"
               /\ cfg.route = "dns" => g.src = "upstream"
               /\ cfg.route = "freens" => g.src = "freens"
               /\ g.aa <=> g.src = "freens"
               /\ g.src = "freens" => /\ Consulted(FALSE, u) /\ g.rcode = f.rcode /\ g.win = f.win
                                      /\ g.ttl = f.ttl /\ g.young = f.young
               /\ g.src # "freens" => g.win = None
<1> DEFINE g == ResolveRouted(f, u)
<1>1. RefusedReply \in AnswerRecord /\ RefusedReply.rcode = "refused" /\ RefusedReply.src = None
      /\ RefusedReply.aa = FALSE /\ RefusedReply.win = None
  BY NoAnswerType, Zenon DEF RefusedReply, NoAnswer, AnswerRecord
<1>2. AskUpstream(u) \in AnswerRecord /\ AskUpstream(u).rcode = u /\ AskUpstream(u).src = "upstream"
      /\ AskUpstream(u).aa = FALSE /\ AskUpstream(u).win = None
  <2> DEFINE ttl == IF u = "answer" THEN 1 ELSE 0
  <2>1. AskUpstream(u) = [NoAnswer EXCEPT !.rcode = u, !.src = "upstream", !.ttl = ttl]
    BY Zenon  DEF AskUpstream
  <2>2. ttl \in 0 .. TtlCap
    BY ResolutionAssumption
  <2> HIDE DEF ttl
  <2> QED
    BY <2>1, <2>2, NoAnswerType, ZenonT(60) DEF NoAnswer, AnswerRecord, Upstreams4
<1>3. /\ Authoritative(f) \in AnswerRecord /\ Authoritative(f).rcode = f.rcode
      /\ Authoritative(f).src = "freens" /\ Authoritative(f).aa = TRUE /\ Authoritative(f).win = f.win
      /\ Authoritative(f).ttl = f.ttl /\ Authoritative(f).young = f.young
  BY Zenon   DEF Authoritative, AnswerRecord
<1>4. None # "freens"
  BY ResolutionAssumption, Zenon
<1>5. CASE cfg.route = "deny"
  <2>1. g = RefusedReply
    BY <1>5, Zenon DEF ResolveRouted
  <2> QED
    BY <1>1, <1>4, <1>5, <2>1, Zenon
<1>6. CASE cfg.route = "freens"
  <2>1. g = Authoritative(f) /\ Consulted(FALSE, u)
    BY <1>6, Zenon DEF ResolveRouted, Consulted
  <2> QED
    BY <1>3, <1>6, <2>1, Zenon DEF FreensRcodes
<1>7. CASE cfg.route = "dns"
  <2>1. g = AskUpstream(u)
    BY <1>7, Zenon DEF ResolveRouted
  <2> QED
    BY <1>2, <1>7, <2>1, Zenon DEF Upstreams4
<1>8. CASE cfg.route = "freens-first"
  <2>1. g \in {AskUpstream(u), Authoritative(f)} /\ Consulted(FALSE, u)
    BY <1>8, Zenon DEF ResolveRouted, Consulted
  <2> QED
    BY <1>2, <1>3, <1>8, <2>1, Zenon DEF Upstreams4, FreensRcodes
<1>9. CASE cfg.route = "dns-first"
  <2>1. g = AskUpstream(u) \/ (g = Authoritative(f) /\ Consulted(FALSE, u))
    BY <1>9, Zenon DEF ResolveRouted, Consulted
  <2> QED
    BY <1>2, <1>3, <1>9, <2>1, Zenon DEF Upstreams4, FreensRcodes
<1> QED
  BY <1>5, <1>6, <1>7, <1>8, <1>9, Zenon DEF ConfigRecord

\* ResolveQuestion on the bare or the dressed name.
Answers(a, dressed, f, u) ==
    /\ a \in AnswerRecord /\ a.rcode # "none"
    /\ cfg.route = "deny" => a.rcode = "refused"
    /\ cfg.route = "dns" /\ cfg.explicit => a.src = "upstream"
    /\ cfg.route = "freens" => a.src = "freens"
    /\ a.aa <=> a.src = "freens"
    /\ a.win # None => /\ Consulted(dressed, u) /\ a.win = f.win
                       /\ a.ttl = f.ttl /\ a.young = f.young
    /\ ~dressed /\ a.aa => Consulted(FALSE, u) /\ a.rcode = f.rcode

\* How the network's and the upstream's outcomes are combined into one answer.
LEMMA QuestionShape ==
    ASSUME cfg \in ConfigRecord, NEW f \in AnswerRecord, f.src = "freens", f.rcode \in FreensRcodes,
           NEW u \in Upstreams4, NEW dressed \in BOOLEAN
    PROVE  Answers(ResolveQuestion(dressed, f, u), dressed, f, u)
<1>1. CASE ~dressed
  <2>1. ResolveQuestion(dressed, f, u) = ResolveRouted(f, u) /\ (Consulted(FALSE, u) => Consulted(dressed, u))
    BY <1>1, Zenon DEF ResolveQuestion, Consulted
  <2> DEFINE g == ResolveRouted(f, u)
  <2>2. /\ g \in AnswerRecord /\ g.rcode # "none"
        /\ cfg.route = "deny" => g.rcode = "refused"
        /\ cfg.route = "dns" => g.src = "upstream"
        /\ cfg.route = "freens" => g.src = "freens"
        /\ g.aa <=> g.src = "freens"
        /\ g.src = "freens" => /\ Consulted(FALSE, u) /\ g.rcode = f.rcode /\ g.win = f.win
                               /\ g.ttl = f.ttl /\ g.young = f.young
        /\ g.src # "freens" => g.win = None
    BY RoutedShape, Zenon
  <2>3. ResolveQuestion(dressed, f, u) = g
    BY <2>1, Zenon
  <2> HIDE DEF g
  <2>4. Answers(g, dressed, f, u)
    BY <2>1, <2>2, Zenon DEF Answers
  <2> QED
    BY <2>3, <2>4, Zenon
<1>2. CASE dressed
  <2> DEFINE miss == Outcome("nxdomain", None, TRUE)
             first == ResolveRouted(miss, u)
             open == cfg.rescue /\ ~cfg.public /\ (~cfg.explicit \/ cfg.route = "freens-first")
  <2>1. miss \in AnswerRecord /\ miss.src = "freens" /\ miss.rcode \in FreensRcodes /\ miss.win = None
    BY MissType, Zenon DEF Misses
  <2>2. /\ ResolveQuestion(dressed, f, u) = IF open /\ first.rcode = "nxdomain" /\ f.rcode = "answer"
                                            THEN Authoritative(f) ELSE [first EXCEPT !.dead = FALSE]
        /\ open /\ first.rcode = "nxdomain" => Consulted(dressed, u)
    BY <1>2, Zenon DEF ResolveQuestion, Consulted
  <2>3. /\ open => cfg.route = "freens-first" \/ ~cfg.explicit
    BY Zenon
  <2> HIDE DEF miss
  <2>4. /\ first \in AnswerRecord /\ first.rcode # "none"
        /\ cfg.route = "deny" => first.rcode = "refused"
        /\ cfg.route = "dns" => first.src = "upstream"
        /\ cfg.route = "freens" => first.src = "freens"
        /\ first.aa <=> first.src = "freens"
        /\ first.win = None
    BY <2>1, RoutedShape, Zenon
  <2> HIDE DEF first, open
  <2>5. CASE open /\ first.rcode = "nxdomain" /\ f.rcode = "answer"
    <3>1. ResolveQuestion(dressed, f, u) = Authoritative(f) /\ Consulted(dressed, u)
      BY <2>2, <2>5, Zenon
    <3>2. /\ Authoritative(f) \in AnswerRecord /\ Authoritative(f).rcode = f.rcode
          /\ Authoritative(f).src = "freens" /\ Authoritative(f).aa = TRUE /\ Authoritative(f).win = f.win
          /\ Authoritative(f).ttl = f.ttl /\ Authoritative(f).young = f.young
      BY Zenon   DEF Authoritative, AnswerRecord
    <3>3. cfg.route # "deny" /\ ~(cfg.route = "dns" /\ cfg.explicit)
      BY <2>3, <2>4, <2>5, Zenon
    <3> QED
      BY <1>2, <2>5, <3>1, <3>2, <3>3, Zenon DEF Answers
  <2>6. CASE ~(open /\ first.rcode = "nxdomain" /\ f.rcode = "answer")
    <3>1. ResolveQuestion(dressed, f, u) = [first EXCEPT !.dead = FALSE]
      BY <2>2, <2>6, Zenon
    <3>2. /\ [first EXCEPT !.dead = FALSE] \in AnswerRecord
          /\ [first EXCEPT !.dead = FALSE].rcode = first.rcode
          /\ [first EXCEPT !.dead = FALSE].src = first.src
          /\ [first EXCEPT !.dead = FALSE].aa = first.aa
          /\ [first EXCEPT !.dead = FALSE].win = first.win
      BY <2>4, Zenon DEF AnswerRecord
    <3> QED
      BY <1>2, <2>4, <3>1, <3>2, Zenon DEF Answers
  <2> QED
    BY <2>5, <2>6, Zenon
<1> QED
  BY <1>1, <1>2, Zenon

\* When the network is walked.
Walks(dressed, u) == Consulted(dressed, u) /\ cfg.pin = None /\ ~Claimless

\* One resolution, seen from its answer.
Resolved(dressed, u, C, t, counted, f, a) ==
    /\ Fresolved(f, C, t, counted) /\ Answers(a, dressed, f, u)
    /\ Tombstones(C) = {} \/ t \in Strongest(Tombstones(C))
    /\ last' \in AnswerRecord
    /\ last'.rcode = a.rcode /\ last'.src = a.src /\ last'.aa = a.aa /\ last'.ttl = a.ttl
    /\ last'.win = a.win /\ last'.young = a.young
    /\ last'.heard = IF Walks(dressed, u) THEN C ELSE {}
    /\ last'.missed /\ ~last'.cut => Walks(dressed, u) /\ counted
    /\ last'.bare => ~dressed

\* What one resolution does to the ledger of names and to the local pins.
LEMMA ResolveStep ==
    ASSUME ResTypeOK, Resolve
    PROVE  /\ UNCHANGED <<cfg, rnow, net, proved, published, reboots>>
           /\ \E dressed \in BOOLEAN, u \in Upstreams4, C \in SUBSET Carrier, t \in Carrier \cup {None},
                 counted \in BOOLEAN, f \in AnswerRecord, a \in AnswerRecord :
                 /\ Resolved(dressed, u, C, t, counted, f, a)
                 /\ \/ UNCHANGED <<local, ledger, crowd>>
                    \/ /\ local' \in Kept(C)
                       /\ \/ UNCHANGED <<ledger, crowd>>
                          \/ \E o \in Observed(LiveOf(C)) : ledger' = o.ids /\ crowd' = o.crowd
<1>0. cfg \in ConfigRecord /\ CarrierLease \in Nat
  BY ResolutionAssumption, Zenon DEF ResTypeOK
<1>1. PICK dressed \in {FALSE, cfg.rescue},
           u \in IF cfg.route \in {"freens", "deny"} THEN {"servfail"}
                 ELSE {"answer", "nodata", "nxdomain", "servfail"} :
         \E heard \in IF Walks(dressed, u) THEN SUBSET net ELSE {{}},
            end \in IF Consulted(dressed, u) THEN WalkEnds ELSE {"nodata"} :
         \E cut \in {FALSE, heard # net}, left \in IF end = "answer" THEN {1, CarrierLease} ELSE {1} :
             LET C       == heard \cup local
                 missed  == net \ heard # {}
                 T       == Tombstones(C)
                 L       == {c \in C : Verified(c)}
             IN  \E t \in IF T = {} THEN {None} ELSE Strongest(T) :
                 LET f == FreensResolve(C, t, missed /\ ~cut, end, left)
                     a == ResolveQuestion(dressed, f, u)
                 IN  /\ last' = [a EXCEPT !.dead = a.dead \/ (Consulted(dressed, u) /\ f.dead),
                                          !.heard = IF Walks(dressed, u) THEN C ELSE {},
                                          !.missed = Walks(dressed, u) /\ missed,
                                          !.cut = Walks(dressed, u) /\ cut, !.bare = ~dressed]
                     /\ IF ~Walks(dressed, u) \/ Degraded(C, missed /\ ~cut)
                        THEN UNCHANGED <<local, ledger, crowd>>
                        ELSE /\ local' \in Kept(C)
                             /\ IF L = {} THEN UNCHANGED <<ledger, crowd>>
                                ELSE \E o \in Observed(L) : ledger' = o.ids /\ crowd' = o.crowd
                     /\ UNCHANGED <<cfg, rnow, net, proved, published, reboots>>
  BY Zenon   DEF Resolve, Walks
<1> DEFINE W == Walks(dressed, u)
<1>2. PICK heard \in IF W THEN SUBSET net ELSE {{}},
           end \in IF Consulted(dressed, u) THEN WalkEnds ELSE {"nodata"} :
      \E cut \in {FALSE, heard # net}, left \in IF end = "answer" THEN {1, CarrierLease} ELSE {1} :
      \E t \in IF Tombstones(heard \cup local) = {} THEN {None} ELSE Strongest(Tombstones(heard \cup local)) :
         LET C == heard \cup local
             missed == net \ heard # {}
             L == {c \in C : Verified(c)}
             f == FreensResolve(C, t, missed /\ ~cut, end, left)
             a == ResolveQuestion(dressed, f, u)
         IN  /\ last' = [a EXCEPT !.dead = a.dead \/ (Consulted(dressed, u) /\ f.dead),
                                  !.heard = IF W THEN C ELSE {}, !.missed = W /\ missed,
                                  !.cut = W /\ cut, !.bare = ~dressed]
             /\ IF ~W \/ Degraded(C, missed /\ ~cut)
                THEN UNCHANGED <<local, ledger, crowd>>
                ELSE /\ local' \in Kept(C)
                     /\ IF L = {} THEN UNCHANGED <<ledger, crowd>>
                        ELSE \E o \in Observed(L) : ledger' = o.ids /\ crowd' = o.crowd
             /\ UNCHANGED <<cfg, rnow, net, proved, published, reboots>>
  BY <1>1, Zenon
<1> HIDE DEF W
<1>3. PICK cut \in {FALSE, heard # net}, left \in IF end = "answer" THEN {1, CarrierLease} ELSE {1},
           t \in IF Tombstones(heard \cup local) = {} THEN {None} ELSE Strongest(Tombstones(heard \cup local)) :
         LET C == heard \cup local
             missed == net \ heard # {}
             L == {c \in C : Verified(c)}
             f == FreensResolve(C, t, missed /\ ~cut, end, left)
             a == ResolveQuestion(dressed, f, u)
         IN  /\ last' = [a EXCEPT !.dead = a.dead \/ (Consulted(dressed, u) /\ f.dead),
                                  !.heard = IF W THEN C ELSE {}, !.missed = W /\ missed,
                                  !.cut = W /\ cut, !.bare = ~dressed]
             /\ IF ~W \/ Degraded(C, missed /\ ~cut)
                THEN UNCHANGED <<local, ledger, crowd>>
                ELSE /\ local' \in Kept(C)
                     /\ IF L = {} THEN UNCHANGED <<ledger, crowd>>
                        ELSE \E o \in Observed(L) : ledger' = o.ids /\ crowd' = o.crowd
             /\ UNCHANGED <<cfg, rnow, net, proved, published, reboots>>
  BY <1>2, Zenon
<1> DEFINE C == heard \cup local
           missed == net \ heard # {}
           counted == missed /\ ~cut
           f == FreensResolve(C, t, counted, end, left)
           a == ResolveQuestion(dressed, f, u)
           d == a.dead \/ (Consulted(dressed, u) /\ f.dead)
           m == W /\ missed
           k == W /\ cut
           b == ~dressed
           h == IF W THEN C ELSE {}
<1>4. /\ last' = [a EXCEPT !.dead = d, !.heard = h, !.missed = m, !.cut = k, !.bare = b]
      /\ UNCHANGED <<cfg, rnow, net, proved, published, reboots>>
  BY <1>3, Zenon
<1>a. \/ UNCHANGED <<local, ledger, crowd>>
      \/ /\ local' \in Kept(C)
         /\ \/ UNCHANGED <<ledger, crowd>>
            \/ \E o \in Observed(LiveOf(C)) : ledger' = o.ids /\ crowd' = o.crowd
  BY <1>3, Zenon DEF LiveOf
<1>b. dressed \in BOOLEAN
  BY <1>0, Zenon DEF ConfigRecord
<1>c. u \in Upstreams4
  BY Zenon  DEF Upstreams4
<1>d. end \in WalkEnds
  BY Zenon   DEF WalkEnds
<1>e. left \in Nat
  BY <1>0
<1>f. t \in Carrier \cup {None}
  BY Zenon  DEF ResTypeOK, Tombstones, Strongest
<1>5. dressed \in BOOLEAN /\ u \in Upstreams4 /\ end \in WalkEnds /\ left \in Nat
  BY <1>b, <1>c, <1>d, <1>e, Zenon
<1>6. C \in SUBSET Carrier /\ h \in SUBSET Carrier
  BY Zenon  DEF ResTypeOK
<1>7. counted \in BOOLEAN /\ d \in BOOLEAN /\ m \in BOOLEAN /\ k \in BOOLEAN /\ b \in BOOLEAN
  BY Zenon
<1>8. (m /\ ~k => W /\ counted) /\ (b => ~dressed)
  BY Zenon
<1>9. Tombstones(C) = {} \/ t \in Strongest(Tombstones(C))
  BY Zenon
<1> HIDE DEF C, counted, d, m, k, b, h, missed
<1>10. Fresolved(f, C, t, counted)
  BY <1>0, <1>5, <1>6, <1>7, FreensShape, Zenon
<1> HIDE DEF f
<1>11. Answers(a, dressed, f, u)
  BY <1>0, <1>5, <1>10, QuestionShape, Zenon DEF Fresolved
<1> HIDE DEF a
<1>12. a \in AnswerRecord
  BY <1>11, Zenon DEF Answers
<1>13. /\ last' \in AnswerRecord
       /\ last'.rcode = a.rcode /\ last'.src = a.src /\ last'.aa = a.aa /\ last'.ttl = a.ttl
       /\ last'.win = a.win /\ last'.young = a.young
       /\ last'.heard = h /\ last'.missed = m /\ last'.cut = k /\ last'.bare = b
  BY <1>4, <1>6, <1>7, <1>12, ZenonT(60) DEF AnswerRecord
<1>14. last'.heard = IF Walks(dressed, u) THEN C ELSE {}
  BY <1>13, Zenon DEF h, W
<1>15. Resolved(dressed, u, C, t, counted, f, a)
  BY <1>8, <1>9, <1>10, <1>11, <1>13, <1>14, Zenon DEF Resolved, W
<1>16. f \in AnswerRecord
  BY <1>10, Zenon DEF Fresolved
<1> HIDE DEF f, a, C, counted
<1> QED
  BY <1>4, <1>a, <1>f, <1>5, <1>6, <1>7, <1>12, <1>15, <1>16, SMTT(60)

\* The promises about an answer, and that there is none between two.
AnswerInv == NoReuseInsideTheWindow /\ ContestedIsProvisional /\ PolicyIsFinal /\ FailureIsNotAbsence

\* Before the first answer there is nothing to justify.
LEMMA Quiet == last = NoAnswer => AnswerInv
BY DEF AnswerInv, NoReuseInsideTheWindow, ContestedIsProvisional, PolicyIsFinal, FailureIsNotAbsence, NoAnswer

\* A resolution's answer is justified, and displaces no established winner.
LEMMA AnswerKept ==
    ASSUME ResTypeOK, Resolve PROVE AnswerInv' /\ NotDisplaced
<1>1. UNCHANGED <<cfg, rnow, proved>> /\ cfg \in ConfigRecord
  BY ResolveStep, ResolutionAssumption, Zenon DEF ResTypeOK
<1>2. PICK dressed \in BOOLEAN, u \in Upstreams4, C \in SUBSET Carrier, t \in Carrier \cup {None},
           counted \in BOOLEAN, f \in AnswerRecord, a \in AnswerRecord :
             Resolved(dressed, u, C, t, counted, f, a)
  BY ResolveStep, Zenon
<1>3. /\ a.win # None => Walks(dressed, u) \/ cfg.pin # None
      /\ a.win # None /\ cfg.pin = None => a.win = ClaimSet(C, t)
  BY <1>2, Zenon DEF Resolved, Answers, Fresolved, Walks
<1>4. NoReuseInsideTheWindow'
  <2>1. SUFFICES ASSUME last'.win # None, NEW s \in last'.heard, s \in Tombstones(last'.heard)
                 PROVE  \E c \in last'.heard, d \in Strongest(Tombstones(last'.heard)) :
                            Verified(c) /\ (c.created < d.expires \/ c.id = d.id)
    BY <1>1, Zenon DEF NoReuseInsideTheWindow, Tombstones, Strongest, Verified, Live, InWindow
  <2>2. Walks(dressed, u) /\ last'.heard = C /\ cfg.pin = None
    BY <1>2, <2>1, Zenon DEF Resolved, Walks
  <2>3. t \in Strongest(Tombstones(C)) /\ t # None
    BY <1>2, <2>1, <2>2, ResolutionAssumption, Zenon DEF Resolved, Strongest, Tombstones
  <2>4. ClaimSet(C, t) # None
    BY <1>2, <1>3, <2>1, <2>2, Zenon DEF Resolved
  <2>5. Continuity(Ratcheted(LiveOf(C)), t)
    BY <2>3, <2>4, ClaimSetWinner, Zenon
  <2>6. PICK c \in Ratcheted(LiveOf(C)) : c.created < t.expires \/ c.id = t.id
    BY <2>5, Zenon DEF Continuity
  <2>7. c \in C /\ Verified(c)
    BY <2>6, RatchetedLive, Zenon DEF LiveOf
  <2> QED
    BY <2>2, <2>3, <2>6, <2>7, Zenon
<1>5. ContestedIsProvisional'
  BY <1>1, <1>2, Zenon DEF ContestedIsProvisional, InWindow, Resolved, Answers, Fresolved
<1>6. PolicyIsFinal'
  BY <1>1, <1>2, Zenon DEF PolicyIsFinal, Resolved, Answers, Fresolved, Claimless
<1>7. FailureIsNotAbsence'
  <2> SUFFICES ASSUME last'.missed, last'.heard = {}, ~last'.cut, last'.bare, last'.rcode = "nxdomain", last'.aa
               PROVE  FALSE
    BY Zenon  DEF FailureIsNotAbsence
  <2>1. Walks(dressed, u) /\ counted /\ C = {} /\ ~dressed
    BY <1>2, Zenon DEF Resolved
  <2>2. f.rcode = "servfail"
    BY <1>2, <2>1, Zenon DEF Resolved, Fresolved, Degraded, Walks
  <2> QED
    BY <1>2, <2>1, <2>2, Zenon DEF Resolved, Answers
<1>8. NotDisplaced
  <2> SUFFICES ASSUME NEW i \in ledger, last'.win # None, cfg.pin = None,
                      {c \in last'.heard : Verified(c) /\ PastHorizon(c.id) /\ FreshProof(c.id)} = {},
                      PastHorizon(last'.win)
               PROVE  last'.win \in ledger
    BY Zenon  DEF NotDisplaced
  <2>1. last'.win = ClaimSet(C, t) /\ last'.heard = C
    BY <1>2, <1>3, Zenon DEF Resolved
  <2>2. PICK c \in Ratcheted(LiveOf(C)) : last'.win = c.id
    BY <2>1, ClaimSetWinner, SMTT(60)
  <2>3. Evidenced(LiveOf(C)) = {}
    BY <2>1, Zenon DEF Evidenced, LiveOf
  <2> QED
    BY <2>2, <2>3, Zenon DEF Ratcheted
<1> QED
  BY <1>4, <1>5, <1>6, <1>7, <1>8, Zenon DEF AnswerInv

\* What is observed of the carriers stays inside the ledger's cap.
LEMMA ObservedType ==
    ASSUME ResTypeOK, NEW C \in SUBSET Carrier, NEW o \in Observed(LiveOf(C))
    PROVE  o.ids \in SUBSET Ident /\ o.crowd \in Nat
           /\ o.crowd + (IF o.ids = {} THEN 0 ELSE 1) <= MaxRatchetAliases
<1> DEFINE ids == {c.id : c \in {d \in Ratcheted(LiveOf(C)) : PastHorizon(d.id)}}
           full == crowd + (IF ledger = {} THEN 0 ELSE 1) >= MaxRatchetAliases
<1>1. ids \in SUBSET Ident
  BY RatchetedLive, SMTT(60) DEF LiveOf, Carrier
<1>2. o \in IF ids = {} THEN {[ids |-> ledger, crowd |-> crowd]}
            ELSE IF ~full THEN {[ids |-> ledger \cup ids, crowd |-> crowd]}
            ELSE IF MaxRatchetAliases > 1 THEN {[ids |-> ids, crowd |-> 0]}
            ELSE {[ids |-> {i}, crowd |-> 0] : i \in ids}
  BY Zenon   DEF Observed
<1>3. /\ MaxRatchetAliases \in Nat \ {0} /\ crowd \in Nat /\ ledger \in SUBSET Ident
      /\ crowd + (IF ledger = {} THEN 0 ELSE 1) <= MaxRatchetAliases
  BY ResolutionAssumption, Zenon DEF ResTypeOK
<1> HIDE DEF ids
<1>4. CASE ids = {}
  BY <1>2, <1>3, <1>4
<1>5. CASE ids # {} /\ ~full
  BY <1>1, <1>2, <1>3, <1>5
<1>6. CASE ids # {} /\ full
  BY <1>1, <1>2, <1>3, <1>6
<1> QED
  BY <1>4, <1>5, <1>6, Zenon

\* The inductive invariant: the last answer given is justified by the state it
\* was given in.
ResInv == ResTypeOK /\ AnswerInv

\* At the start nothing has been answered.
LEMMA ResInitInv == ResInit => ResInv
<1> SUFFICES ASSUME ResInit PROVE ResInv
  BY Zenon
<1>1. ResTypeOK
  BY NoAnswerType, ResolutionAssumption DEF ResInit, ResTypeOK
<1> QED
  BY <1>1, Quiet, Zenon DEF ResInit, ResInv

\* Every step keeps the invariant, and no step displaces an established winner.
LEMMA ResNextInv == ResInv /\ [ResNext]_resVars => ResInv' /\ [NotDisplaced]_resVars
<1> SUFFICES ASSUME ResInv, [ResNext]_resVars PROVE ResInv' /\ [NotDisplaced]_resVars
  BY Zenon
<1>0. ResTypeOK
  BY Zenon  DEF ResInv
<1>1. CASE Resolve
  <2>1. AnswerInv' /\ NotDisplaced
    BY <1>0, <1>1, AnswerKept, Zenon
  <2>2. PICK dressed \in BOOLEAN, u \in Upstreams4, C \in SUBSET Carrier, t \in Carrier \cup {None},
             counted \in BOOLEAN, f \in AnswerRecord, a \in AnswerRecord :
             /\ Resolved(dressed, u, C, t, counted, f, a)
             /\ \/ UNCHANGED <<local, ledger, crowd>>
                \/ /\ local' \in Kept(C)
                   /\ \/ UNCHANGED <<ledger, crowd>>
                      \/ \E o \in Observed(LiveOf(C)) : ledger' = o.ids /\ crowd' = o.crowd
    BY <1>0, <1>1, ResolveStep, Zenon
  <2>3. UNCHANGED <<cfg, rnow, net, proved>>
    BY <1>0, <1>1, ResolveStep, Zenon
  <2>4. last' \in AnswerRecord
    BY <2>2, Zenon DEF Resolved
  <2>5. local' \in SUBSET Carrier
    BY <1>0, <2>2, Zenon DEF Kept, kSubset, ResTypeOK
  <2>6. ledger' \in SUBSET Ident /\ crowd' \in Nat
        /\ crowd' + (IF ledger' = {} THEN 0 ELSE 1) <= MaxRatchetAliases
    <3>1. CASE UNCHANGED <<ledger, crowd>>
      BY <1>0, <3>1, Zenon DEF ResTypeOK
    <3>2. ASSUME NEW o \in Observed(LiveOf(C)), ledger' = o.ids, crowd' = o.crowd
          PROVE  ledger' \in SUBSET Ident /\ crowd' \in Nat
                 /\ crowd' + (IF ledger' = {} THEN 0 ELSE 1) <= MaxRatchetAliases
      BY <1>0, <3>2, ObservedType, Zenon
    <3> QED
      BY <2>2, <3>1, <3>2, Zenon
  <2> QED
    BY <1>0, <2>1, <2>3, <2>4, <2>5, <2>6, Zenon DEF ResInv, ResTypeOK
<1>a. ASSUME ResTypeOK', last' = NoAnswer PROVE ResInv' /\ [NotDisplaced]_resVars
  <2>1. last'.win = None
    BY <1>a, Zenon DEF NoAnswer
  <2>2. NotDisplaced
    BY <2>1, Zenon DEF NotDisplaced
  <2>3. AnswerInv'
    BY <1>a, Quiet, Zenon DEF AnswerInv, NoReuseInsideTheWindow, ContestedIsProvisional, PolicyIsFinal,
                       FailureIsNotAbsence, NoAnswer
  <2> QED
    BY <1>a, <2>2, <2>3, Zenon DEF ResInv
<1>2. CASE Replied
  BY <1>0, <1>2, <1>a, NoAnswerType, Zenon DEF Replied, ResTypeOK
<1>3. ASSUME NEW i \in Ident, NEW rv \in BOOLEAN, PublishCarrier(i, rv) PROVE ResInv' /\ [NotDisplaced]_resVars
  <2>1. [id |-> i, created |-> rnow, expires |-> rnow + CarrierLease, revoked |-> rv] \in Carrier
    BY <1>0, ResolutionAssumption, SMTT(60) DEF ResTypeOK, Carrier
  <2> QED
    BY <1>0, <1>3, <1>a, <2>1, Zenon DEF PublishCarrier, ResTypeOK
<1>4. ASSUME NEW i \in Ident, ReAttest(i) PROVE ResInv' /\ [NotDisplaced]_resVars
  BY <1>0, <1>4, <1>a, Zenon DEF ReAttest, ResTypeOK
<1>5. CASE OtherAlias
  <2>1. ledger' \in SUBSET Ident /\ crowd' \in Nat
        /\ crowd' + (IF ledger' = {} THEN 0 ELSE 1) <= MaxRatchetAliases
    BY <1>0, <1>5, ResolutionAssumption DEF OtherAlias, ResTypeOK
  <2>2. last = NoAnswer /\ UNCHANGED <<last, cfg, rnow, net, local, proved>>
    BY <1>5, Zenon DEF OtherAlias
  <2> QED
    BY <1>0, <1>a, <2>1, <2>2, Zenon DEF ResTypeOK
<1>6. CASE ResRestart
  BY <1>0, <1>6, <1>a, ResolutionAssumption DEF ResRestart, ResTypeOK
<1>7. CASE ResTick
  BY <1>0, <1>7, <1>a, SMTT(60) DEF ResTick, ResTypeOK, Lingering
<1>8. CASE UNCHANGED resVars
  BY <1>8, Zenon DEF resVars, ResInv, ResTypeOK, AnswerInv, NoReuseInsideTheWindow, ContestedIsProvisional,
              PolicyIsFinal, FailureIsNotAbsence, Tombstones, Strongest, Verified, Live, InWindow
<1> QED
  BY <1>1, <1>2, <1>3, <1>4, <1>5, <1>6, <1>7, <1>8, Zenon DEF ResNext

\* The ratchet of claims_ratchet.go: no unevidenced past-horizon newcomer
\* displaces an established identity.
THEOREM EstablishedStand == ResSpec => EstablishedIsNotDisplaced
BY ResInitInv, ResNextInv, PTL DEF ResSpec, EstablishedIsNotDisplaced

\* The reuse delay of section 8.4: nobody takes over inside the window.
THEOREM ReuseWaits == ResSpec => []NoReuseInsideTheWindow
<1>1. ResInv => NoReuseInsideTheWindow
  BY Zenon  DEF ResInv, AnswerInv
<1> QED
  BY <1>1, ResInitInv, ResNextInv, PTL DEF ResSpec

\* What a contested winner answers is short-lived and passed on as young.
THEOREM ContestedAnswersShort == ResSpec => []ContestedIsProvisional
<1>1. ResInv => ContestedIsProvisional
  BY Zenon  DEF ResInv, AnswerInv
<1> QED
  BY <1>1, ResInitInv, ResNextInv, PTL DEF ResSpec

\* The operator's configuration decides where an answer may come from.
THEOREM PolicyDecides == ResSpec => []PolicyIsFinal
<1>1. ResInv => PolicyIsFinal
  BY Zenon  DEF ResInv, AnswerInv
<1> QED
  BY <1>1, ResInitInv, ResNextInv, PTL DEF ResSpec

\* A walk that heard nothing because holders failed is no proof of absence.
THEOREM DegradedIsNoMiss == ResSpec => []FailureIsNotAbsence
<1>1. ResInv => FailureIsNotAbsence
  BY Zenon  DEF ResInv, AnswerInv
<1> QED
  BY <1>1, ResInitInv, ResNextInv, PTL DEF ResSpec

-----------------------------------------------------------------------------
(***************************************************************************)
(* The trust store: a new CA key waits out its grace period, and a young   *)
(* name stays out.                                                         *)
(***************************************************************************)

\* The claim of the identity t has left the contest window at n.
Mature(t, n) == ~(n < Matures[t])
\* Another identity was notified for the alias.
OtherSeen(t, sn) == \E s \in Tld \ {t}, k \in CaKey : sn[s, k] # None
\* An identity may be anchored.
Excused(t, n, sn) == Mature(t, n) \/ OtherSeen(t, sn)

\* A CA in the spool or the trust store is one that may be there.
CaOK(c, n, sn) == c # None => c \in Ca /\ Excused(c.tld, n, sn)

\* A state record, in memory, on disk or on its way there: what it binds was
\* notified, only a quarantine holds a young identity, and a pending rotation
\* dates from its sighting or later.
StateOK(s, n, sn) ==
    s # None =>
        /\ s \in StateRecord /\ \E k \in CaKey : sn[s.tld, k] # None
        /\ s.status = "quarantined" => s.exp = 0
        /\ s.status = "rotating" <=> s.pending # None
        /\ s.status # "quarantined" => Excused(s.tld, n, sn)
        /\ s.pending # None => /\ sn[s.tld, s.pending.key] # None
                               /\ sn[s.tld, s.pending.key] <= s.pending.since

\* A decision on the binding b lets the CA c, notified at `at`, replace it.
Justified(b, c, at, sn) ==
    b # None /\ b[1] = c.tld /\ b[2] # c.key
    => \/ b[3] <= at
       \/ sn[c.tld, c.key] # None /\ at - sn[c.tld, c.key] >= RotationGrace

\* The stages of a handler that has decided to certify.
Certifying == {"spool", "stores", "commit"}
\* What a handler carries between two of its steps is justified by what it saw,
\* at every stage.
JobOK(j, n, sn) ==
    /\ j \in JobRecord /\ StateOK(j.image, n, sn)
    /\ j.then = "decide" \/ j.pc \in Certifying \cup {"decide", "hold"} =>
          /\ j.ca \in Ca /\ j.at <= n
          /\ sn[j.ca.tld, j.ca.key] # None /\ sn[j.ca.tld, j.ca.key] <= j.at
          /\ ~j.young => Mature(j.ca.tld, n)
    /\ j.pc \in Certifying \cup {"reinstall"} => j.ca \in Ca /\ Excused(j.ca.tld, n, sn)
    /\ j.pc \in Certifying => Justified(j.saw, j.ca, j.at, sn)
    /\ j.pc = "hold" => j.saw = None
    /\ j.pc = "idle" => j.then = "idle"

\* Nothing was seen in the future.
Past == \A b \in Tld \X CaKey : seen[b] # None => seen[b] <= tnow

\* The inductive invariant: what the state, the file, the spool, the trust
\* store and every handler hold has been waited for.
TrustInv ==
    /\ TrustTypeOK /\ Past
    /\ StateOK(state, tnow, seen) /\ StateOK(trustFile, tnow, seen) /\ CaOK(spool, tnow, seen) /\ CaOK(anchor, tnow, seen)
    /\ \A h \in Handler : JobOK(job[h], tnow, seen)

\* Time and further notifications invalidate none of it.
Onwards ==
    /\ tnow \in Nat /\ tnow' \in Nat /\ tnow <= tnow'
    /\ seen \in [Tld \X CaKey -> Nat \cup {None}] /\ seen' \in [Tld \X CaKey -> Nat \cup {None}]
    /\ \A b \in Tld \X CaKey : seen[b] # None => seen'[b] = seen[b]

\* Time only adds to what may be trusted.
LEMMA ExcusedStays == Onwards => \A t \in Tld : Excused(t, tnow, seen) => Excused(t, tnow', seen')
<1> SUFFICES ASSUME Onwards, NEW t \in Tld, Excused(t, tnow, seen) PROVE Excused(t, tnow', seen')
  BY Zenon
<1>1. CASE Mature(t, tnow)
  BY <1>1, TrustAssumption DEF Onwards, Excused, Mature
<1>2. CASE OtherSeen(t, seen)
  BY <1>2, TrustAssumption, Zenon DEF Onwards, Excused, OtherSeen
<1> QED
  BY <1>1, <1>2, Zenon DEF Excused

\* A justified state stays justified as time passes.
LEMMA StateStays == Onwards => \A s : StateOK(s, tnow, seen) => StateOK(s, tnow', seen')
<1> SUFFICES ASSUME Onwards, NEW s, StateOK(s, tnow, seen), s # None PROVE StateOK(s, tnow', seen')
  BY Zenon   DEF StateOK
<1>1. s \in StateRecord /\ s.tld \in Tld /\ s.pending \in Pending \cup {None}
  BY Zenon   DEF StateOK, StateRecord
<1>2. s.status # "quarantined" => Excused(s.tld, tnow', seen')
  BY <1>1, ExcusedStays, Zenon DEF StateOK
<1>3. \E k \in CaKey : seen'[s.tld, k] # None
  BY <1>1, Zenon DEF StateOK, Onwards
<1>4. s.pending # None => seen'[s.tld, s.pending.key] = seen[s.tld, s.pending.key]
  BY <1>1, Zenon DEF StateOK, Onwards, Pending
<1> QED
  BY <1>1, <1>2, <1>3, <1>4, Zenon DEF StateOK

\* A CA that may be trusted stays so as time passes.
LEMMA CaStays == Onwards => \A c : CaOK(c, tnow, seen) => CaOK(c, tnow', seen')
BY ExcusedStays, Zenon DEF CaOK, Ca

\* What a handler carries stays justified while others move.
LEMMA JobStays == Onwards => \A j : JobOK(j, tnow, seen) => JobOK(j, tnow', seen')
<1> SUFFICES ASSUME Onwards, NEW j, JobOK(j, tnow, seen) PROVE JobOK(j, tnow', seen')
  BY Zenon
<1>1. j \in JobRecord /\ StateOK(j.image, tnow', seen') /\ j.at \in Nat /\ (j.ca \in Ca => j.ca.tld \in Tld /\ j.ca.key \in CaKey)
  BY StateStays, Zenon DEF JobOK, JobRecord, Ca
<1>2. j.ca \in Ca /\ seen[j.ca.tld, j.ca.key] # None
      => seen'[j.ca.tld, j.ca.key] = seen[j.ca.tld, j.ca.key]
  BY <1>1, Zenon DEF Onwards
<1>3. j.ca \in Ca /\ Mature(j.ca.tld, tnow) => Mature(j.ca.tld, tnow')
  BY <1>1, TrustAssumption DEF Onwards, Mature
<1>4. j.ca \in Ca /\ Excused(j.ca.tld, tnow, seen) => Excused(j.ca.tld, tnow', seen')
  BY <1>1, ExcusedStays, Zenon
<1>5. j.at <= tnow => j.at <= tnow'
  BY <1>1 DEF Onwards
<1>6. j.ca \in Ca /\ Justified(j.saw, j.ca, j.at, seen) => Justified(j.saw, j.ca, j.at, seen')
  BY <1>2, Zenon DEF Justified
<1> QED
  BY <1>1, <1>2, <1>3, <1>4, <1>5, <1>6, Zenon DEF JobOK

\* A step of one handler.
LEMMA HandlerInv ==
    ASSUME TrustInv, NEW h \in Handler, NEW j, JobOK(j, tnow, seen), job' = [job EXCEPT ![h] = j],
           UNCHANGED <<tnow, owner, seen, crashes>>,
           state' = state \/ StateOK(state', tnow, seen), trustFile' = trustFile \/ StateOK(trustFile', tnow, seen),
           spool' = spool \/ CaOK(spool', tnow, seen), anchor' = anchor \/ CaOK(anchor', tnow, seen)
    PROVE  TrustInv'
<1>1. Onwards
  <2>1. TrustTypeOK
    BY Zenon   DEF TrustInv
  <2>2. tnow \in Nat /\ seen \in [Tld \X CaKey -> Nat \cup {None}]
    BY <2>1, Zenon DEF TrustTypeOK
  <2> QED
    BY <2>2, SMTT(60) DEF Onwards
<1>2. StateOK(state', tnow, seen) /\ StateOK(trustFile', tnow, seen) /\ CaOK(spool', tnow, seen) /\ CaOK(anchor', tnow, seen)
  BY Zenon  DEF TrustInv
<1>3. StateOK(state', tnow', seen') /\ StateOK(trustFile', tnow', seen') /\ CaOK(spool', tnow', seen') /\ CaOK(anchor', tnow', seen')
  BY <1>2, Zenon
<1>4. \A g \in Handler : JobOK(job'[g], tnow', seen') /\ job'[g] \in JobRecord
  <2> SUFFICES ASSUME NEW g \in Handler PROVE JobOK(job'[g], tnow', seen') /\ job'[g] \in JobRecord
    BY Zenon
  <2>1. JobOK(job'[g], tnow, seen)
    BY Zenon  DEF TrustInv, TrustTypeOK
  <2>2. JobOK(job'[g], tnow', seen')
    BY <2>1, Zenon
  <2> QED
    BY <2>1 , <2>2, Zenon DEF JobOK
<1>5. {state', trustFile'} \subseteq StateRecord \cup {None} /\ {spool', anchor'} \subseteq Ca \cup {None}
  BY <1>2, Zenon DEF StateOK, CaOK
<1>6. job' \in [Handler -> JobRecord]
  BY <1>4, Zenon DEF TrustInv, TrustTypeOK
<1>7. TrustTypeOK'
  BY <1>3, <1>5, <1>6, Zenon DEF TrustInv, TrustTypeOK
<1>8. Past'
  BY Zenon   DEF TrustInv, Past
<1> QED
  BY <1>3, <1>4, <1>7, <1>8, Zenon DEF TrustInv

\* An older observation is at least as old.
LEMMA Longer ==
    ASSUME NEW a \in Nat, NEW b \in Nat, NEW c \in Nat, NEW g \in Nat, a - b >= g, c <= b
    PROVE  a - c >= g
OBVIOUS

\* A pending rotation is not the absent one.
LEMMA PendingIsSomething == None \notin Pending
BY TrustAssumption, Zenon

\* A handler at rest carries nothing.
LEMMA RestingOK == JobOK(Resting, tnow, seen)
BY TrustAssumption, Zenon DEF JobOK, Resting, JobRecord, StateOK, Certifying

\* Steps that only move the handler on.
LEMMA MoveOn ==
    ASSUME NEW j, JobOK(j, tnow, seen), NEW p \in {"marshal", "write", "purge", "unspool", "uninstall", j.then}
    PROVE  JobOK([j EXCEPT !.pc = p], tnow, seen)
BY ZenonT(60) DEF JobOK, JobRecord, Certifying

\* Changing a handler's stage changes nothing else it carries.
LEMMA PcTo ==
    ASSUME TrustInv, NEW h \in Handler, NEW p
    PROVE  [job EXCEPT ![h].pc = p] = [job EXCEPT ![h] = [job[h] EXCEPT !.pc = p]]
BY Zenon  DEF TrustInv, TrustTypeOK, JobRecord

\* The binding of a state.
LEMMA BindingType == ASSUME StateOK(state, tnow, seen) PROVE Binding(state) \in Bindings \cup {None}
BY Zenon   DEF StateOK, Binding, Bindings, StateRecord

\* The decision under the lock: what each verdict rests on.
LEMMA VerdictFacts ==
    ASSUME TrustInv, NEW j, JobOK(j, tnow, seen), j.pc = "decide"
    PROVE  LET v == TrustVerdict(j)
           IN  /\ v \in {"none", "install", "complete", "quarantine", "abort", "rehold", "defer"}
               /\ v \in {"install", "complete"} =>
                     Excused(j.ca.tld, tnow, seen) /\ Justified(Binding(state), j.ca, j.at, seen)
               /\ v = "complete" => state # None /\ state.pending # None
               /\ v = "quarantine" => state = None
               /\ v = "abort" => state # None /\ state.pending # None
               /\ v = "rehold" => state # None /\ state.status = "quarantined"
               /\ v = "defer" => /\ state # None /\ state.tld = j.ca.tld /\ state.key # j.ca.key
                                 /\ state.status # "quarantined"
<1> DEFINE v == TrustVerdict(j)
<1>0. /\ StateOK(state, tnow, seen) /\ j.ca \in Ca /\ j.at \in Nat /\ j.young \in BOOLEAN
      /\ seen[j.ca.tld, j.ca.key] # None /\ (~j.young => Excused(j.ca.tld, tnow, seen))
      /\ seen \in [Tld \X CaKey -> Nat \cup {None}]
  BY Zenon   DEF TrustInv, TrustTypeOK, JobOK, JobRecord, Excused
<1>b. j.at \in Nat
  BY <1>0, Zenon
<1>1. CASE state = None
  <2>1. v = FirstSight(j)
    BY <1>1, Zenon DEF TrustVerdict
  <2> QED
    BY <1>0, <1>1, <2>1, Zenon DEF FirstSight, Justified, Binding
<1>2. CASE state # None /\ state.tld # j.ca.tld
  <2>1. v = "install"
    BY <1>2, Zenon DEF TrustVerdict
  <2>2. OtherSeen(j.ca.tld, seen)
    BY <1>0, <1>2, Zenon DEF StateOK, OtherSeen, StateRecord, Ca
  <2>3. Justified(Binding(state), j.ca, j.at, seen)
    BY <1>2, Zenon DEF Justified, Binding
  <2> QED
    BY <2>1, <2>2, <2>3, Zenon DEF Excused
<1>3. CASE state # None /\ state.tld = j.ca.tld /\ state.key = j.ca.key
  <2>1. v = SameCa(j)
    BY <1>3, Zenon DEF TrustVerdict
  <2>2. Justified(Binding(state), j.ca, j.at, seen)
    BY <1>3, Zenon DEF Justified, Binding
  <2>3. state.status \in {"installed", "quarantined", "rotating"} /\ (state.status = "rotating" <=> state.pending # None)
    BY <1>0, <1>3, Zenon DEF StateOK, StateRecord
  <2>4. CASE state.pending # None
    <3>1. v = "abort"
      BY <2>1, <2>4, Zenon DEF SameCa
    <3> QED
      BY <1>3, <2>4, <3>1, Zenon
  <2>5. CASE state.pending = None /\ state.status = "quarantined"
    <3>1. v = IF j.young THEN "none" ELSE "install"
      BY <2>1, <2>5, Zenon DEF SameCa
    <3> QED
      BY <1>0, <2>2, <3>1, Zenon
  <2>6. CASE state.pending = None /\ state.status = "installed"
    <3>1. v \in {"none", "install"} /\ (j.young => v = "none")
      BY <2>1, <2>6, Zenon DEF SameCa
    <3> QED
      BY <1>0, <2>2, <3>1, Zenon
  <2> QED
    BY <2>3, <2>4, <2>5, <2>6, Zenon
<1>4. CASE state # None /\ state.tld = j.ca.tld /\ state.key # j.ca.key
  <2>1. v = OtherCa(j)
    BY <1>4, Zenon DEF TrustVerdict
  <2>2. Binding(state) = <<state.tld, state.key, state.exp>> /\ state.exp \in Nat
        /\ (state.status = "quarantined" => state.exp = 0) /\ (state.status # "quarantined" => Excused(j.ca.tld, tnow, seen))
    BY <1>0, <1>4, Zenon DEF Binding, StateOK, StateRecord
  <2>a. Binding(state)[3] = state.exp
    BY <2>2
  <2>3. CASE state.status = "quarantined"
    <3>1. v = IF j.young THEN "rehold" ELSE "install"
      BY <2>1, <2>3, Zenon DEF OtherCa
    <3>2. Justified(Binding(state), j.ca, j.at, seen)
      <4>1. Binding(state)[3] <= j.at
        BY <1>b, <2>2, <2>a, <2>3, SMTT(60)
      <4> QED
        BY <4>1, Zenon DEF Justified
    <3> QED
      BY <1>0, <1>4, <2>3, <3>1, <3>2, Zenon
  <2>4. CASE state.status # "quarantined" /\ state.exp <= j.at
    <3>1. v = "install"
      BY <2>1, <2>4, Zenon DEF OtherCa
    <3>2. Justified(Binding(state), j.ca, j.at, seen)
      BY <2>2, <2>a, <2>4, Zenon DEF Justified
    <3> QED
      BY <2>2, <2>4, <3>1, <3>2, Zenon
  <2>5. CASE state.status # "quarantined" /\ ~(state.exp <= j.at)
    <3>1. v = CaRotation(j)
      BY <2>1, <2>5, Zenon DEF OtherCa
    <3>2. v \in {"defer", "complete", "none"}
      BY <3>1, Zenon DEF CaRotation
    <3>3. v = "complete" => state.pending # None /\ Justified(Binding(state), j.ca, j.at, seen)
      <4> SUFFICES ASSUME v = "complete" PROVE state.pending # None /\ Justified(Binding(state), j.ca, j.at, seen)
        BY Zenon
      <4>1. /\ state.pending # None /\ state.pending.key = j.ca.key
            /\ j.at - state.pending.since >= RotationGrace
        BY <3>1, Zenon DEF CaRotation
      <4>2. /\ state.pending \in Pending /\ seen[state.tld, state.pending.key] # None
            /\ seen[state.tld, state.pending.key] <= state.pending.since
        BY <1>0, <1>4, <4>1, Zenon DEF StateOK, StateRecord
      <4>3. seen[j.ca.tld, j.ca.key] \in Nat /\ state.pending.since \in Nat
            /\ seen[j.ca.tld, j.ca.key] <= state.pending.since
        BY <1>0, <1>4, <4>1, <4>2, Zenon DEF Pending, Ca
      <4>4. RotationGrace \in Nat
        BY TrustAssumption, Zenon
      <4>5. j.at - seen[j.ca.tld, j.ca.key] >= RotationGrace
        BY <1>b, <4>1, <4>3, <4>4, Longer, ZenonT(60)
      <4> QED
        BY <1>0, <4>1, <4>5, Zenon DEF Justified
    <3> QED
      BY <1>4, <2>2, <2>5, <3>2, <3>3, Zenon
  <2> QED
    BY <2>3, <2>4, <2>5, Zenon
<1> QED
  BY <1>1, <1>2, <1>3, <1>4, Zenon

\* The decision keeps the invariant.
LEMMA DecideInv == ASSUME TrustInv, NEW h \in Handler, Decide(h) PROVE TrustInv'
<1> DEFINE j == job[h]
           v == TrustVerdict(j)
<1>0. /\ JobOK(j, tnow, seen) /\ j.pc = "decide" /\ StateOK(state, tnow, seen)
      /\ UNCHANGED <<tnow, owner, trustFile, spool, anchor, seen, crashes>>
  BY Zenon  DEF TrustInv, Decide
<1>1. /\ v \in {"none", "install", "complete", "quarantine", "abort", "rehold", "defer"}
      /\ v \in {"install", "complete"} => Excused(j.ca.tld, tnow, seen) /\ Justified(Binding(state), j.ca, j.at, seen)
      /\ v = "complete" => state # None /\ state.pending # None
      /\ v = "quarantine" => state = None
      /\ v = "abort" => state # None /\ state.pending # None
      /\ v = "rehold" => state # None /\ state.status = "quarantined"
      /\ v = "defer" => /\ state # None /\ state.tld = j.ca.tld /\ state.key # j.ca.key
                        /\ state.status # "quarantined"
  BY <1>0, VerdictFacts, Zenon
<1>2. CASE v = "none"
  <2>1. job' = [job EXCEPT ![h] = Resting] /\ state' = state
    BY <1>2, Zenon DEF Decide, GiveUpJob
  <2> QED
    BY <1>0, <2>1, RestingOK, HandlerInv, Zenon
<1>a. ASSUME state # None, state.pending # None PROVE StateOK(Installed(state), tnow, seen)
  BY <1>0, <1>a, Zenon DEF StateOK, Installed, StateRecord
<1>3. CASE v \in {"install", "complete"}
  <2> DEFINE b == Binding(state)
             k == [j EXCEPT !.pc = "spool", !.then = "idle", !.saw = b]
  <2>1. job' = [job EXCEPT ![h] = k]
    BY <1>3, Zenon DEF Decide, TrustInv, TrustTypeOK, JobRecord
  <2>2. state' = state \/ StateOK(state', tnow, seen)
    BY <1>1, <1>3, <1>a, Zenon DEF Decide
  <2>3. b \in Bindings \cup {None} /\ Justified(b, j.ca, j.at, seen) /\ Excused(j.ca.tld, tnow, seen)
    BY <1>0, <1>1, <1>3, BindingType, Zenon
  <2> HIDE DEF b
  <2>4. JobOK(k, tnow, seen)
    BY <1>0, <2>3, Zenon DEF JobOK, JobRecord, Certifying
  <2> QED
    BY <1>0, <2>1, <2>2, <2>4, HandlerInv, Zenon
<1>4. CASE v = "quarantine"
  <2> DEFINE k == [j EXCEPT !.pc = "hold", !.saw = None]
  <2>1. job' = [job EXCEPT ![h] = k] /\ state' = state
    BY <1>1, <1>4, Zenon DEF Decide, TrustInv, TrustTypeOK, JobRecord, Binding
  <2>2. JobOK(k, tnow, seen)
    BY <1>0, Zenon DEF JobOK, JobRecord, Certifying
  <2> QED
    BY <1>0, <2>1, <2>2, HandlerInv, Zenon
<1>5. CASE v \in {"abort", "rehold", "defer"}
  <2> DEFINE k == [j EXCEPT !.pc = "marshal", !.then = "idle"]
  <2>1. job' = [job EXCEPT ![h] = k]
    BY <1>5, Zenon DEF Decide, TrustInv, TrustTypeOK, JobRecord
  <2>2. JobOK(k, tnow, seen)
    BY <1>0, Zenon DEF JobOK, JobRecord, Certifying
  <2>3. CASE v = "abort"
    <3>1. state' = Installed(state)
      BY <2>3, Zenon DEF Decide
    <3> QED
      BY <1>0, <1>1, <1>a, <2>1, <2>2, <2>3, <3>1, HandlerInv, Zenon
  <2>4. CASE v = "rehold"
    <3>1. state' = StillHeld(j)
      BY <2>4, Zenon DEF Decide
    <3>2. StateOK(StillHeld(j), tnow, seen)
      BY <1>0, TrustAssumption, Zenon DEF JobOK, StateOK, StillHeld, StateRecord, Ca
    <3> QED
      BY <1>0, <2>1, <2>2, <3>1, <3>2, HandlerInv, Zenon
  <2>5. CASE v = "defer"
    <3> DEFINE w == [key |-> j.ca.key, since |-> j.at]
               n == [state EXCEPT !.pending = w, !.status = "rotating"]
    <3>1. state' = n
      BY <2>5, Zenon DEF Decide
    <3>2. w \in Pending /\ w # None /\ seen[state.tld, w.key] # None /\ seen[state.tld, w.key] <= w.since
      <4>1. j.ca \in Ca /\ j.at \in Nat /\ seen[j.ca.tld, j.ca.key] # None /\ seen[j.ca.tld, j.ca.key] <= j.at
        BY <1>0, Zenon DEF JobOK, JobRecord
      <4>2. w \in Pending /\ w # None
        <5>1. w \in Pending
          BY <4>1, Zenon DEF Pending, Ca
        <5> QED
          BY <5>1, PendingIsSomething, Zenon
      <4>3. w.key = j.ca.key /\ w.since = j.at /\ state.tld = j.ca.tld
        BY <1>1, <2>5, Zenon
      <4> QED
        BY <4>1, <4>2, <4>3, Zenon
    <3> HIDE DEF w
    <3>3. StateOK(n, tnow, seen)
      BY <1>0, <1>1, <2>5, <3>2, Zenon DEF StateOK, StateRecord
    <3> QED
      BY <1>0, <2>1, <2>2, <3>1, <3>3, HandlerInv, Zenon
  <2> QED
    BY <1>5, <2>3, <2>4, <2>5, Zenon
<1> QED
  BY <1>1, <1>2, <1>3, <1>4, <1>5, Zenon

\* A notification arrives.
LEMMA NotifyInv == ASSUME TrustInv, NEW h \in Handler, Notify(h) PROVE TrustInv'
<1> DEFINE y == Young(owner.tld)
           c == spool # None /\ ~Lapses
           q == IF Lapses THEN "purge" ELSE "decide"
           k == [Resting EXCEPT !.then = "decide", !.ca = owner, !.at = tnow, !.young = y,
                                !.pc = q, !.present = c]
           p == <<owner.tld, owner.key>>
<1>1. /\ owner \in Ca /\ tnow \in Nat /\ p \in Tld \X CaKey
      /\ seen \in [Tld \X CaKey -> Nat \cup {None}] /\ job \in [Handler -> JobRecord]
  BY Zenon  DEF TrustInv, TrustTypeOK, Notify, Ca
<1>2. /\ seen' = [seen EXCEPT ![p] = IF seen[p] = None THEN tnow ELSE seen[p]]
      /\ UNCHANGED <<tnow, owner, state, trustFile, anchor, crashes>> /\ spool' \in {spool, None}
  BY Zenon  DEF Notify, SweptSpool
<1>3. job' = [job EXCEPT ![h] = k]
  <2>1. job' = [job EXCEPT ![h] = [[Resting EXCEPT !.then = "decide", !.ca = owner, !.at = tnow, !.young = y]
                                      EXCEPT !.pc = q, !.present = c]]
    BY Zenon  DEF Notify, SweptSpool, Resting
  <2> QED
    BY <2>1, Zenon DEF Resting
<1>4. y \in BOOLEAN /\ c \in BOOLEAN /\ q \in {"purge", "decide"} /\ (~y => Mature(owner.tld, tnow))
  BY SMTT(60)  DEF Young, Mature
<1> HIDE DEF y, c, q
<1>5. seen'[p] \in Nat /\ seen'[p] # None /\ seen'[p] <= tnow
  <2>1. seen[p] # None => seen[p] <= tnow /\ seen[p] \in Nat
    BY <1>1, Zenon DEF TrustInv, Past
  <2>2. None \notin Nat
    BY TrustAssumption, Zenon
  <2> QED
    BY <1>1, <1>2, <2>1, <2>2, SMTT(60)
<1>6. Onwards
  BY <1>1, <1>2, <1>5, SMTT(60) DEF Onwards
<1>7. Past'
  BY <1>1, <1>2, <1>5, Zenon DEF Past, TrustInv
<1>8. /\ k \in JobRecord /\ k.image = None /\ k.ca = owner /\ k.at = tnow /\ k.young = y
      /\ k.then = "decide" /\ k.pc = q
  BY <1>1, <1>4, TrustAssumption, Zenon DEF JobRecord, Resting
<1> HIDE DEF k
<1>9. JobOK(job'[h], tnow', seen')
  <2>1. job'[h] = k
    BY <1>1, <1>3, Zenon
  <2> QED
    <3>1. /\ StateOK(job'[h].image, tnow', seen') /\ job'[h] \in JobRecord
          /\ job'[h].pc \in {"purge", "decide"} /\ job'[h].then = "decide"
      BY <1>4, <1>8, <2>1, Zenon DEF StateOK
    <3>2. /\ job'[h].ca = owner /\ job'[h].at = tnow /\ tnow' = tnow
          /\ ~job'[h].young => Mature(owner.tld, tnow)
      BY <1>2, <1>4, <1>8, <2>1, Zenon
    <3>3. tnow <= tnow
      BY <1>1
    <3> QED
      BY <1>1, <1>5, <3>1, <3>2, <3>3, Zenon DEF JobOK, Certifying
<1>10. \A g \in Handler : JobOK(job'[g], tnow', seen')
  <2> SUFFICES ASSUME NEW g \in Handler, g # h PROVE JobOK(job'[g], tnow', seen')
    BY <1>9, Zenon
  <2>1. job'[g] = job[g] /\ JobOK(job[g], tnow, seen)
    BY <1>1, <1>3, Zenon DEF TrustInv
  <2>2. \A o : JobOK(o, tnow, seen) => JobOK(o, tnow', seen')
    BY <1>6, JobStays, Zenon
  <2> QED
    BY <2>1, <2>2, Zenon
<1>11. StateOK(state', tnow', seen') /\ StateOK(trustFile', tnow', seen')
  <2>1. \A o : StateOK(o, tnow, seen) => StateOK(o, tnow', seen')
    BY <1>6, StateStays, Zenon
  <2> QED
    BY <1>2, <2>1, Zenon DEF TrustInv
<1>12. CaOK(spool', tnow', seen') /\ CaOK(anchor', tnow', seen')
  <2>1. \A o : CaOK(o, tnow, seen) => CaOK(o, tnow', seen')
    BY <1>6, CaStays, Zenon
  <2> QED
    BY <1>2, <2>1, Zenon DEF TrustInv, CaOK
<1>13. TrustTypeOK'
  <2>1. job' \in [Handler -> JobRecord]
    BY <1>1, <1>3, <1>8, Zenon
  <2>2. {owner', spool', anchor'} \subseteq Ca \cup {None} /\ {state', trustFile'} \subseteq StateRecord \cup {None}
    BY <1>2, Zenon DEF TrustInv, TrustTypeOK
  <2> QED
    BY <1>1, <1>2, <1>6, <2>1, <2>2, Zenon DEF TrustInv, TrustTypeOK, Onwards
<1> QED
  BY <1>7, <1>10, <1>11, <1>12, <1>13, Zenon DEF TrustInv

\* The steps of a handler other than the decision.
LEMMA StepInv == ASSUME TrustInv, NEW h \in Handler, HandlerStep(h) PROVE TrustInv'
<1> DEFINE j == job[h]
<1>0. /\ JobOK(j, tnow, seen) /\ StateOK(state, tnow, seen) /\ StateOK(trustFile, tnow, seen) /\ CaOK(spool, tnow, seen) /\ CaOK(anchor, tnow, seen)
      /\ job \in [Handler -> JobRecord] /\ j \in JobRecord
  BY Zenon  DEF TrustInv, TrustTypeOK
<1>n. CaOK(None, tnow, seen) /\ StateOK(None, tnow, seen)
  BY Zenon  DEF CaOK, StateOK
<1>s. /\ StateOK(IF Lapses THEN None ELSE state, tnow, seen) /\ CaOK(IF Lapses THEN None ELSE spool, tnow, seen)
  BY <1>0, <1>n, Zenon
<1>1. CASE Marshal(h)
  <2> DEFINE k == [j EXCEPT !.pc = "write", !.image = state]
  <2>1. job' = [job EXCEPT ![h] = k]
    BY <1>0, <1>1, Zenon DEF Marshal, JobRecord
  <2>2. JobOK(k, tnow, seen)
    BY <1>0, <1>1, ZenonT(60) DEF Marshal, JobOK, StateOK, JobRecord, Certifying
  <2> QED
    BY <1>1, <2>1, <2>2, HandlerInv, Zenon DEF Marshal
<1>2. CASE WriteState(h)
  <2>1. \E k \in {Resting, [j EXCEPT !.pc = j.then]} : job' = [job EXCEPT ![h] = k]
    BY <1>2, PcTo, Zenon DEF WriteState, GiveUpJob, HandlerTo
  <2>2. JobOK([j EXCEPT !.pc = j.then], tnow, seen)
    BY <1>0, MoveOn, Zenon
  <2>3. StateOK(trustFile', tnow, seen)
    BY <1>0, <1>2, Zenon DEF WriteState, JobOK
  <2> QED
    BY <1>2, <2>1, <2>2, <2>3, RestingOK, HandlerInv, Zenon DEF WriteState
<1>3. CASE Unspool(h)
  <2>1. JobOK([j EXCEPT !.pc = "uninstall"], tnow, seen)
    BY <1>0, MoveOn, Zenon
  <2> QED
    BY <1>3, <1>n, <2>1, PcTo, HandlerInv, Zenon DEF Unspool, HandlerTo
<1>4. CASE Uninstall(h)
  <2>1. JobOK([j EXCEPT !.pc = "marshal"], tnow, seen)
    BY <1>0, MoveOn, Zenon
  <2> QED
    BY <1>4, <1>n, <2>1, PcTo, HandlerInv, Zenon DEF Uninstall, HandlerTo
<1>5. CASE Purge(h)
  <2>1. JobOK([j EXCEPT !.pc = "uninstall"], tnow, seen) /\ JobOK([j EXCEPT !.pc = j.then], tnow, seen)
    BY <1>0, MoveOn, Zenon
  <2>2. \E k \in {Resting, [j EXCEPT !.pc = j.then], [j EXCEPT !.pc = "uninstall"]} : job' = [job EXCEPT ![h] = k]
    BY <1>5, PcTo, Zenon DEF Purge, GiveUpJob, HandlerTo
  <2>3. state' = state \/ state' = None
    BY <1>5, Zenon DEF Purge
  <2> QED
    BY <1>5, <1>n, <2>1, <2>2, <2>3, RestingOK, HandlerInv, Zenon DEF Purge
<1>6. CASE Sweep(h)
  <2>1. Lapses /\ job' = [job EXCEPT ![h] = [Resting EXCEPT !.pc = "purge", !.present = FALSE]] /\ spool' = None
    BY <1>6, Zenon DEF Sweep, SweptSpool
  <2>2. JobOK([Resting EXCEPT !.pc = "purge", !.present = FALSE], tnow, seen)
    BY RestingOK, Zenon DEF JobOK, JobRecord, Certifying, Resting
  <2> QED
    BY <1>6, <1>n, <2>1, <2>2, HandlerInv, Zenon DEF Sweep
<1>7. CASE Hold(h)
  <2> DEFINE k == [j EXCEPT !.pc = "marshal", !.then = "idle"]
  <2>1. job' = [job EXCEPT ![h] = k] /\ state' = StillHeld(j) /\ j.pc = "hold"
    BY <1>0, <1>7, Zenon DEF Hold, JobRecord
  <2>2. JobOK(k, tnow, seen)
    BY <1>0, ZenonT(60) DEF JobOK, JobRecord, Certifying
  <2>3. StateOK(StillHeld(j), tnow, seen)
    BY <1>0, <2>1, TrustAssumption, Zenon DEF JobOK, StateOK, StillHeld, StateRecord, Ca
  <2> QED
    BY <1>7, <2>1, <2>2, <2>3, HandlerInv, Zenon DEF Hold
<1>8. CASE MintAndSpool(h)
  <2>1. j.pc = "spool" /\ CaOK(j.ca, tnow, seen) /\ (spool' = spool \/ spool' = j.ca)
    BY <1>0, <1>8, Zenon DEF MintAndSpool, JobOK, CaOK, Certifying
  <2>2. \E k \in {Resting, [j EXCEPT !.pc = "stores"]} : job' = [job EXCEPT ![h] = k]
    BY <1>8, PcTo, Zenon DEF MintAndSpool, GiveUpJob, HandlerTo
  <2>3. JobOK([j EXCEPT !.pc = "stores"], tnow, seen)
    BY <1>0, <2>1, Zenon DEF JobOK, JobRecord, Certifying
  <2> QED
    BY <1>8, <2>1, <2>2, <2>3, RestingOK, HandlerInv, Zenon DEF MintAndSpool
<1>9. CASE InstallStores(h)
  <2>1. j.pc = "stores" /\ CaOK(j.ca, tnow, seen) /\ anchor' = j.ca
    BY <1>0, <1>9, Zenon DEF InstallStores, JobOK, CaOK, Certifying
  <2>2. JobOK([j EXCEPT !.pc = "commit"], tnow, seen)
    BY <1>0, <2>1, Zenon DEF JobOK, JobRecord, Certifying
  <2> QED
    BY <1>9, <2>1, <2>2, PcTo, HandlerInv, Zenon DEF InstallStores, HandlerTo
<1>10. CASE Commit(h)
  <2> DEFINE n == [tld |-> j.ca.tld, key |-> j.ca.key, exp |-> j.ca.exp, status |-> "installed",
                   pending |-> None, minted |-> j.at]
  <2>1. j.pc = "commit" /\ state' = n
    BY <1>10, Zenon DEF Commit
  <2>2. j.ca \in Ca /\ j.at \in Nat /\ Excused(j.ca.tld, tnow, seen) /\ seen[j.ca.tld, j.ca.key] # None
    BY <1>0, <2>1, Zenon DEF JobOK, JobRecord, Certifying
  <2>3. StateOK(n, tnow, seen)
    BY <2>2, Zenon DEF StateOK, StateRecord, Ca
  <2>4. JobOK([j EXCEPT !.pc = "marshal"], tnow, seen)
    BY <1>0, MoveOn, Zenon
  <2> QED
    BY <1>10, <2>1, <2>3, <2>4, PcTo, HandlerInv, Zenon DEF Commit, HandlerTo
<1>11. ASSUME NEW t, OnAliasDead(h, t) PROVE TrustInv'
  <2>1. JobOK([j EXCEPT !.pc = "unspool"], tnow, seen)
    BY <1>0, MoveOn, Zenon
  <2> QED
    BY <1>11, <1>n, <2>1, PcTo, HandlerInv, Zenon DEF OnAliasDead, HandlerTo
<1>12. CASE ReadSpool(h)
  <2> DEFINE k == [j EXCEPT !.pc = "reinstall", !.ca = spool]
  <2>1. job' = [job EXCEPT ![h] = k] /\ spool \in Ca /\ Excused(spool.tld, tnow, seen) /\ j.pc = "idle"
    BY <1>0, <1>12, Zenon DEF ReadSpool, JobRecord, CaOK
  <2>2. j.then = "idle"
    BY <1>0, <2>1, Zenon DEF JobOK
  <2>3. JobOK(k, tnow, seen)
    BY <1>0, <2>1, <2>2, Zenon DEF JobOK, JobRecord, Certifying
  <2> QED
    BY <1>12, <2>1, <2>3, HandlerInv, Zenon DEF ReadSpool
<1>13. CASE Reinstall(h)
  <2>1. CaOK(j.ca, tnow, seen) /\ anchor' = j.ca
    BY <1>0, <1>13, Zenon DEF Reinstall, JobOK, CaOK
  <2>2. JobOK([j EXCEPT !.pc = "marshal"], tnow, seen)
    BY <1>0, MoveOn, Zenon
  <2> QED
    BY <1>13, <2>1, <2>2, PcTo, HandlerInv, Zenon DEF Reinstall, HandlerTo
<1>14. CASE Notify(h)
  BY <1>14, NotifyInv, Zenon
<1> QED
  BY <1>1, <1>2, <1>3, <1>4, <1>5, <1>6, <1>7, <1>8, <1>9, <1>10, <1>11, <1>12, <1>13, <1>14, DecideInv, Zenon
     DEF HandlerStep

\* At the start nothing is trusted.
LEMMA TrustInitInv == TrustInit => TrustInv
<1> SUFFICES ASSUME TrustInit PROVE TrustInv
  BY Zenon
<1>1. owner \in Ca
  BY TrustAssumption, Zenon DEF TrustInit, Ca
<1>2. TrustTypeOK
  BY <1>1, RestingOK, Zenon DEF TrustInit, TrustTypeOK, JobOK
<1>3. Past /\ StateOK(state, tnow, seen) /\ StateOK(trustFile, tnow, seen) /\ CaOK(spool, tnow, seen) /\ CaOK(anchor, tnow, seen)
  BY Zenon  DEF TrustInit, Past, StateOK, CaOK
<1> QED
  BY <1>2, <1>3, RestingOK, Zenon DEF TrustInit, TrustInv

\* Every step of a handler, every notification, tick, crash and restart keeps
\* the invariant.
LEMMA TrustNextInv == TrustInv /\ [TrustNext]_trustVars => TrustInv'
<1> SUFFICES ASSUME TrustInv, [TrustNext]_trustVars PROVE TrustInv'
  BY Zenon
<1>1. CASE \E h \in Handler : HandlerStep(h)
  BY <1>1, StepInv, Zenon
<1>a. ASSUME UNCHANGED <<tnow, seen, job, state, trustFile, spool, anchor, crashes>>,
             owner' \in Ca \cup {None}
      PROVE  TrustInv'
  <2>1. TrustTypeOK' /\ Past'
    BY <1>a, Zenon DEF TrustInv, TrustTypeOK, Past
  <2> QED
    BY <1>a, <2>1, Zenon DEF TrustInv
<1>2. CASE OwnerChanges
  <2>1. tnow + CaLife \in Nat
    BY TrustAssumption DEF TrustInv, TrustTypeOK
  <2>2. owner' \in Ca \cup {None}
    BY <1>2, <2>1, Zenon DEF OwnerChanges, Ca
  <2> QED
    BY <1>2, <1>a, <2>2, Zenon DEF OwnerChanges
<1>3. CASE TrustRestart
  <2>1. /\ UNCHANGED <<tnow, owner, seen>> /\ job' = [h \in Handler |-> Resting] /\ crashes' = crashes + 1
        /\ spool' \in {spool, None} /\ anchor' \in {anchor, None}
        /\ state' \in {trustFile, None} /\ trustFile' \in {trustFile, None}
    BY <1>3, Zenon DEF TrustRestart
  <2>2. TrustTypeOK'
    <3>1. Resting \in JobRecord
      BY RestingOK, Zenon DEF JobOK
    <3>2. job' \in [Handler -> JobRecord]
      BY <2>1, <3>1, Zenon
    <3>3. TrustTypeOK
      BY Zenon  DEF TrustInv
    <3>4. tnow' \in Nat /\ crashes' \in Nat /\ seen' \in [Tld \X CaKey -> Nat \cup {None}]
      BY <2>1, <3>3, SMTT(60) DEF TrustTypeOK
    <3>5. {owner', spool', anchor'} \subseteq Ca \cup {None}
      BY <2>1, <3>3, Zenon DEF TrustTypeOK
    <3>6. {state', trustFile'} \subseteq StateRecord \cup {None}
      BY <2>1, <3>3, SMTT(60) DEF TrustTypeOK
    <3> QED
      BY <3>2, <3>4, <3>5, <3>6, Zenon DEF TrustTypeOK
  <2>3. StateOK(state', tnow', seen') /\ StateOK(trustFile', tnow', seen')
    BY <2>1, Zenon DEF TrustInv, StateOK
  <2>4. CaOK(spool', tnow', seen') /\ CaOK(anchor', tnow', seen')
    BY <2>1, Zenon DEF TrustInv, CaOK
  <2>5. \A h \in Handler : JobOK(job'[h], tnow', seen')
    <3> SUFFICES ASSUME NEW h \in Handler PROVE JobOK(job'[h], tnow', seen')
      BY Zenon
    <3>1. job'[h] = Resting
      BY <2>1, Zenon
    <3> QED
      BY <3>1, TrustAssumption DEF JobOK, Resting, JobRecord, StateOK, Certifying
  <2> QED
    BY <2>1, <2>2, <2>3, <2>4, <2>5, Zenon DEF TrustInv, Past
<1>4. CASE TrustTick
  <2>1. UNCHANGED <<owner, state, trustFile, spool, anchor, job, seen, crashes>> /\ tnow' = tnow + 1
    BY <1>4, Zenon DEF TrustTick
  <2>2. Onwards
    BY <2>1 DEF Onwards, TrustInv, TrustTypeOK
  <2>3. /\ \A o : JobOK(o, tnow, seen) => JobOK(o, tnow', seen')
        /\ \A o : StateOK(o, tnow, seen) => StateOK(o, tnow', seen')
        /\ \A o : CaOK(o, tnow, seen) => CaOK(o, tnow', seen')
    BY <2>2, JobStays, StateStays, CaStays, Zenon
  <2>4. StateOK(state', tnow', seen') /\ StateOK(trustFile', tnow', seen') /\ CaOK(spool', tnow', seen') /\ CaOK(anchor', tnow', seen')
    BY <2>1, <2>3, Zenon DEF TrustInv
  <2>5. \A h \in Handler : JobOK(job'[h], tnow', seen')
    BY <2>1, <2>3, Zenon DEF TrustInv
  <2>6. TrustTypeOK'
    BY <2>1, <2>2, Zenon DEF TrustInv, TrustTypeOK, Onwards
  <2>7. Past'
    BY <2>1, SMTT(60) DEF TrustInv, TrustTypeOK, Past
  <2> QED
    BY <2>4, <2>5, <2>6, <2>7, Zenon DEF TrustInv
<1>5. CASE UNCHANGED trustVars
  BY <1>5, <1>a, Zenon DEF trustVars, TrustInv, TrustTypeOK
<1> QED
  BY <1>1, <1>2, <1>3, <1>4, <1>5, Zenon DEF TrustNext

\* No step binds a new key that was not waited for.
LEMMA GateInv == TrustInv /\ [TrustNext]_trustVars => [GatePassed]_trustVars
<1> SUFFICES ASSUME TrustInv, TrustNext,
                    state # None, state' # None, state.tld = state'.tld, crashes' = crashes,
                    state.exp > tnow, state.key # state'.key
             PROVE  \/ /\ seen[state'.tld, state'.key] # None
                       /\ tnow - seen[state'.tld, state'.key] >= RotationGrace
                    \/ \E h \in Handler : job[h].pc \in {"commit", "hold"} /\ job'[h].pc = "marshal"
                                         /\ job[h].saw # Binding(state)
  BY Zenon   DEF GatePassed
<1>0. /\ tnow \in Nat /\ crashes \in Nat /\ StateOK(state, tnow, seen) /\ job \in [Handler -> JobRecord]
      /\ state \in StateRecord /\ state.exp \in Nat
  BY Zenon   DEF TrustInv, TrustTypeOK, StateOK, StateRecord
<1>1. PICK h \in Handler : Decide(h) \/ Hold(h) \/ Commit(h)
  <2>1. ~TrustRestart
    BY <1>0 DEF TrustRestart
  <2> QED
    BY <2>1, Zenon DEF TrustNext, HandlerStep, Notify, MintAndSpool, InstallStores, Sweep, Purge, Unspool, Uninstall,
              Marshal, WriteState, ReadSpool, Reinstall, OnAliasDead, OwnerChanges, TrustTick
<1> DEFINE j == job[h]
<1>2. JobOK(j, tnow, seen)
  BY Zenon  DEF TrustInv
<1>3. CASE Decide(h)
  <2>1. j.pc = "decide"
    BY <1>3, Zenon DEF Decide
  <2>2. /\ TrustVerdict(j) \in {"none", "install", "complete", "quarantine", "abort", "rehold", "defer"}
        /\ TrustVerdict(j) = "rehold" => state.status = "quarantined"
    BY <1>2, <2>1, VerdictFacts, Zenon
  <2>3. state.status # "quarantined"
    <3>1. state.status = "quarantined" => state.exp = 0
      BY <1>0, Zenon DEF StateOK
    <3>2. state.exp # 0
      BY <1>0
    <3> QED
      BY <3>1, <3>2, Zenon
  <2>4. state' = state \/ state' = Installed(state)
        \/ state' = [state EXCEPT !.pending = [key |-> j.ca.key, since |-> j.at], !.status = "rotating"]
    BY <1>3, <2>2, <2>3, Zenon DEF Decide
  <2>5. state'.key = state.key
    BY <1>0, <2>4, Zenon DEF Installed, StateRecord
  <2> QED
    BY <2>5, Zenon
<1>4. CASE Hold(h)
  <2>1. j.pc = "hold" /\ job'[h].pc = "marshal"
    BY <1>0, <1>4, Zenon DEF Hold, JobRecord
  <2>2. j.saw = None /\ Binding(state) \in Bindings
    BY <1>0, <1>2, <2>1, Zenon DEF JobOK, Binding, Bindings, StateRecord
  <2>3. None \notin Bindings
    BY TrustAssumption, Zenon
  <2> QED
    BY <2>1, <2>2, <2>3, Zenon
<1>5. CASE Commit(h)
  <2>1. j.pc = "commit" /\ job'[h].pc = "marshal" /\ state'.tld = j.ca.tld /\ state'.key = j.ca.key
    BY <1>0, <1>5, Zenon DEF Commit, HandlerTo, JobRecord
  <2>2. /\ Justified(j.saw, j.ca, j.at, seen) /\ j.ca \in Ca /\ j.at \in Nat /\ j.at <= tnow
        /\ seen[j.ca.tld, j.ca.key] # None /\ seen[j.ca.tld, j.ca.key] <= j.at
    BY <1>2, <2>1, Zenon DEF JobOK, JobRecord, Certifying
  <2> SUFFICES ASSUME j.saw = Binding(state) PROVE tnow - seen[j.ca.tld, j.ca.key] >= RotationGrace
    BY <2>1, <2>2, Zenon
  <2>3. j.saw = <<state.tld, state.key, state.exp>>
    BY Zenon  DEF Binding
  <2>4. j.saw[1] = j.ca.tld /\ j.saw[2] # j.ca.key /\ j.saw[3] = state.exp
    BY <2>1, <2>3, SMTT(60)
  <2>5. j.saw # None
    <3>1. None \notin Bindings
      BY TrustAssumption, Zenon
    <3> QED
      BY <1>0, <2>3, <3>1, SMTT(60) DEF Bindings, StateRecord
  <2>a. tnow \in Nat /\ state.exp \in Nat /\ j.at \in Nat /\ j.at <= tnow
    BY <1>0, <2>2, Zenon
  <2>6. ~(j.saw[3] <= j.at)
    BY <2>a, <2>4
  <2>7. j.at - seen[j.ca.tld, j.ca.key] >= RotationGrace
    BY <2>2, <2>4, <2>5, <2>6, Zenon DEF Justified
  <2>8. seen[j.ca.tld, j.ca.key] \in Nat /\ RotationGrace \in Nat
    <3>1. <<j.ca.tld, j.ca.key>> \in Tld \X CaKey /\ seen \in [Tld \X CaKey -> Nat \cup {None}]
      BY <2>2, Zenon DEF Ca, TrustInv, TrustTypeOK
    <3> QED
      BY <2>2, <3>1, TrustAssumption, Zenon
  <2>9. \A x, y, z, g \in Nat : y <= x /\ y - z >= g => x - z >= g
    OBVIOUS
  <2> QED
    BY <2>a, <2>7, <2>8, <2>9, Zenon
<1> QED
  BY <1>1, <1>3, <1>4, <1>5, Zenon

\* The observation gate of trustsync.go holds against every interleaving of
\* handlers: a live CA is replaced by another of the same identity only after
\* the grace period, or by a handler whose decision another one has overtaken.
THEOREM RotationWaits == TrustSpec => RotationIsObserved
BY TrustInitInv, TrustNextInv, GateInv, PTL DEF TrustSpec, RotationIsObserved

\* The quarantine of section 7.5: while only one identity has been notified,
\* nothing of it is spooled or anchored inside its contest window.
THEOREM YoungStayOut == TrustSpec => []QuarantineHolds
<1>1. TrustInv => QuarantineHolds
  BY Zenon   DEF TrustInv, CaOK, Excused, Mature, OtherSeen, QuarantineHolds, Young
<1> QED
  BY <1>1, TrustInitInv, TrustNextInv, PTL DEF TrustSpec

===============================================================================
