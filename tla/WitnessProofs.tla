---------------------------- MODULE WitnessProofs ----------------------------
(***************************************************************************)
(* Proofs about a node as a witness and about its claim pool, for every    *)
(* set of aliases, identities and carriers and every budget, window and    *)
(* delay: the cooldown keeps signatures for competing claimants apart; the *)
(* pool and its eviction queue stay exact, alone and across crashes and    *)
(* reloads; tombstones stay; the holding period of a re-attestation        *)
(* survives a restart; and a reload brings back what was saved.            *)
(***************************************************************************)
EXTENDS WitnessNode, PoolRestart, SequenceTheorems, WellFoundedInduction, TLAPS

-----------------------------------------------------------------------------
(*****************************************************************************)
(* The cooldown.  Only Screen, Sign and the clock touch what the invariant   *)
(* reads.                                                                    *)
(*****************************************************************************)

\* Initially nothing is signed and no handler runs.
LEMMA WitnessInitInv == WitnessInit => WitnessInv
<1>1. MaxTime \in Nat /\ 1 <= MaxTime
  BY PoolBudgetAssumption
<1> QED
  BY <1>1, IdAssumption DEF WitnessInit, PoolInit, WitnessInv, WitnessTypeOK, ClocksAgree,
     LastIsRecent, UnprotectedIsOld, WitnessSpacing, Seen, Time, AliasOfId

\* Steps that leave the witness tables alone and do not move the clock back
\* beyond a handler's bound keep the invariant.
LEMMA QuietStep ==
  ASSUME WitnessInv, now' \in Time, now <= now',
         \A h \in pending : now' <= h.at + HandlerDelay,
         offered' \subseteq Carrier,
         UNCHANGED <<witnessLast, pending, signed, accepted>>
  PROVE  WitnessInv'
<1> USE IdAssumption, WitnessAssumption
<1>0. now \in Int /\ now' \in Int /\ HandlerDelay \in Int /\ WitnessCooldown \in Int
  BY DEF WitnessInv, WitnessTypeOK, Time
<1>1. WitnessTypeOK'
  BY Zenon   DEF WitnessInv, WitnessTypeOK
<1>2. ClocksAgree'
  BY <1>0 DEF WitnessInv, WitnessTypeOK, ClocksAgree, Seen, Signature, Handler, NoSignature, Time, Never
<1>3. LastIsRecent'
  BY Zenon   DEF WitnessInv, LastIsRecent, Seen
<1>4. UnprotectedIsOld'
  BY <1>0 DEF WitnessInv, WitnessTypeOK, UnprotectedIsOld, Seen, Signature, Time
<1>5. WitnessSpacing'
  BY Zenon   DEF WitnessInv, WitnessSpacing, Competing
<1> QED
  BY <1>1, <1>2, <1>3, <1>4, <1>5, Zenon DEF WitnessInv

\* The screens add a handler that read the present instant.
LEMMA ScreenStep ==
  ASSUME WitnessInv, NEW i \in Ident, NEW r \in BOOLEAN, Screen(i, r)
  PROVE  WitnessInv'
<1> USE IdAssumption, WitnessAssumption
<1>0. now \in Time /\ now' = now /\ UNCHANGED <<witnessLast, signed, accepted, offered>>
  BY Zenon   DEF Screen, poolVars, WitnessInv, WitnessTypeOK
<1>1. Request(i, r) \in Handler /\ Request(i, r).at = now
  <2>1. (r /\ TooOld(i, now)) \in BOOLEAN
    BY Zenon
  <2> QED
    BY <2>1, <1>0, Zenon DEF Request, Handler
<1>2. pending' = pending \cup {Request(i, r)}
  BY Zenon   DEF Screen
<1>3. WitnessTypeOK'
  BY <1>0, <1>1, <1>2, Zenon DEF WitnessInv, WitnessTypeOK
<1>4. ClocksAgree'
  BY <1>0, <1>1, <1>2 DEF WitnessInv, ClocksAgree, Seen, Time
<1>5. LastIsRecent' /\ UnprotectedIsOld' /\ WitnessSpacing'
  BY <1>0, Zenon DEF WitnessInv, LastIsRecent, UnprotectedIsOld, WitnessSpacing, Seen, Competing
<1> QED
  BY <1>3, <1>4, <1>5, Zenon DEF WitnessInv

\* A handler that is refused only leaves.
LEMMA RefusedStep ==
  ASSUME WitnessInv, NEW h \in pending, Sign(h), Cooling(h)
  PROVE  WitnessInv'
<1>1. UNCHANGED <<now, witnessLast, signed, accepted, offered>> /\ pending' = pending \ {h}
  BY Zenon   DEF Sign, poolVars
<1>2. WitnessTypeOK' /\ ClocksAgree'
  BY <1>1, Zenon DEF WitnessInv, WitnessTypeOK, ClocksAgree, Seen
<1>3. LastIsRecent' /\ UnprotectedIsOld' /\ WitnessSpacing'
  BY <1>1, Zenon DEF WitnessInv, LastIsRecent, UnprotectedIsOld, WitnessSpacing, Seen, Competing
<1> QED
  BY <1>2, <1>3, Zenon DEF WitnessInv

\* Recording a signature sets its alias's entry and can only prune others
\* whose cooldown is over, or this one when there is no cooldown at all.
LEMMA RecordedEntry ==
  ASSUME WitnessInv, NEW h \in pending
  PROVE  /\ Recorded(h) \in [Alias -> Signature \cup {NoSignature}]
         /\ \A a \in Alias : Recorded(h)[a] # NoSignature =>
              Recorded(h)[a] = IF a = AliasOfId(h.ident)
                               THEN [ident |-> h.ident, at |-> h.at] ELSE witnessLast[a]
         /\ Recorded(h)[AliasOfId(h.ident)] = NoSignature => WitnessCooldown <= 0
         /\ \A a \in Alias : Recorded(h)[a] = NoSignature /\ a # AliasOfId(h.ident) /\ Seen(a) =>
              h.at - witnessLast[a].at >= WitnessCooldown
<1> USE IdAssumption, WitnessAssumption
<1> DEFINE b == AliasOfId(h.ident)
           new == [ident |-> h.ident, at |-> h.at]
           w == [witnessLast EXCEPT ![b] = new]
<1>1. h \in Handler /\ b \in Alias /\ new \in Signature
  BY Zenon   DEF WitnessInv, WitnessTypeOK, Handler, AliasOfId, Identity, Signature
<1>2. w \in [Alias -> Signature \cup {NoSignature}]
  BY <1>1, Zenon DEF WitnessInv, WitnessTypeOK
<1>3. new # NoSignature /\ h.at \in Int /\ WitnessCooldown \in Int
  BY <1>1 DEF NoSignature, Signature, Handler, Time, Never
<1>4. \A a \in Alias : w[a] = IF a = b THEN new ELSE witnessLast[a]
  BY <1>1, Zenon DEF WitnessInv, WitnessTypeOK
<1>5. \A a \in Alias : \/ Recorded(h)[a] = w[a]
                       \/ /\ Recorded(h)[a] = NoSignature
                          /\ h.at - w[a].at >= WitnessCooldown
  BY Zenon   DEF Recorded
<1>6. Recorded(h) \in [Alias -> Signature \cup {NoSignature}]
  BY <1>2, Zenon DEF Recorded
<1>7. \A a \in Alias : Recorded(h)[a] # NoSignature =>
         Recorded(h)[a] = IF a = b THEN new ELSE witnessLast[a]
  BY <1>4, <1>5, Zenon
<1>8. Recorded(h)[b] = NoSignature => WitnessCooldown <= 0
  <2>1. w[b] = new /\ new.at = h.at
    BY <1>1, <1>4, Zenon
  <2>2. CASE Recorded(h)[b] = w[b]
    BY <2>1, <2>2, <1>3, Zenon
  <2>3. CASE h.at - w[b].at >= WitnessCooldown
    BY <2>1, <2>3, <1>3
  <2> QED
    BY <1>1, <1>5, <2>2, <2>3, Zenon
<1>9. \A a \in Alias : Recorded(h)[a] = NoSignature /\ a # b /\ Seen(a) =>
         h.at - witnessLast[a].at >= WitnessCooldown
  BY <1>4, <1>5, Zenon DEF Seen
<1> QED
  BY <1>6, <1>7, <1>8, <1>9, Zenon

\* At the moment of signing, every earlier signature for another claimant of
\* the alias is a cooldown older than the clock, but for one handler delay,
\* and older than the new one but for two.
LEMMA RivalsAreOld ==
  ASSUME WitnessInv, NEW h \in pending, ~Cooling(h), NEW s \in signed,
         Competing(s, h)
  PROVE  /\ now >= s.at + WitnessCooldown - HandlerDelay
         /\ h.at - s.at >= WitnessCooldown - 2 * HandlerDelay
<1> USE IdAssumption, WitnessAssumption
<1> DEFINE b == AliasOfId(h.ident)
<1>1. h \in Handler /\ s \in Signature /\ b \in Alias /\ AliasOfId(s.ident) = b
  BY Zenon   DEF WitnessInv, WitnessTypeOK, Handler, AliasOfId, Identity, Competing
<1>2. /\ h.at \in Int /\ s.at \in Int /\ now \in Int
      /\ HandlerDelay \in Nat /\ WitnessCooldown \in Nat
  BY <1>1 DEF WitnessInv, WitnessTypeOK, Handler, Signature, Time
<1>3. h.at <= now /\ now <= h.at + HandlerDelay
  BY Zenon   DEF WitnessInv, ClocksAgree
<1>4. CASE ~Seen(b) \/ ClaimantOf(witnessLast[b].ident) # ClaimantOf(s.ident)
  <2>1. now >= s.at + WitnessCooldown - HandlerDelay
    BY <1>1, <1>4, Zenon DEF WitnessInv, UnprotectedIsOld
  <2> QED
    BY <1>2, <1>3, <2>1
<1>5. CASE Seen(b) /\ ClaimantOf(witnessLast[b].ident) = ClaimantOf(s.ident)
  <2>1. witnessLast[b] \in Signature
    BY <1>1, <1>5, Zenon DEF WitnessInv, WitnessTypeOK, Seen
  <2>2. s.at <= witnessLast[b].at + HandlerDelay
    BY <1>1, <1>5, Zenon DEF WitnessInv, LastIsRecent
  <2>3. ClaimantOf(witnessLast[b].ident) # ClaimantOf(h.ident)
    BY <1>5, Zenon DEF Competing
  <2>4. ~(h.at - witnessLast[b].at < WitnessCooldown)
    BY <1>5, <2>3, Zenon DEF Cooling
  <2>5. witnessLast[b].at \in Int
    BY <2>1 DEF Signature, Time
  <2> QED
    BY <1>2, <1>3, <2>2, <2>4, <2>5, SMTT(60)
<1> QED
  BY <1>4, <1>5, Zenon

\* A signature keeps the invariant.
LEMMA SignedStep ==
  ASSUME WitnessInv, NEW h \in pending, Sign(h), ~Cooling(h)
  PROVE  WitnessInv'
<1> USE IdAssumption, WitnessAssumption
<1> DEFINE b == AliasOfId(h.ident)
           new == [ident |-> h.ident, at |-> h.at]
<1>1. /\ now' = now /\ offered' = offered /\ pending' = pending \ {h}
      /\ witnessLast' = Recorded(h)
      /\ signed' = signed \cup {new}
      /\ accepted' = [accepted EXCEPT ![b] = IF Seen(b) THEN @ ELSE @ + 1]
  BY Zenon   DEF Sign, StoreReAttests, poolVars
<1>2. h \in Handler /\ b \in Alias /\ new \in Signature /\ new.at = h.at /\ new.ident = h.ident
  BY Zenon   DEF WitnessInv, WitnessTypeOK, Handler, AliasOfId, Identity, Signature
<1>3. /\ now \in Int /\ h.at \in Int /\ HandlerDelay \in Nat /\ WitnessCooldown \in Nat
      /\ h.at <= now /\ now <= h.at + HandlerDelay
  BY <1>2 DEF WitnessInv, WitnessTypeOK, ClocksAgree, Handler, Time
<1>4. \A s \in signed : s \in Signature /\ s.at \in Int /\ s.at <= now
  BY SMTT(60)  DEF WitnessInv, WitnessTypeOK, ClocksAgree, Signature, Time
<1>5. WitnessTypeOK'
  <2>1. accepted' \in [Alias -> Nat]
    BY <1>1, <1>2 DEF WitnessInv, WitnessTypeOK
  <2> QED
    BY <1>1, <1>2, <2>1, RecordedEntry, Zenon DEF WitnessInv, WitnessTypeOK
<1>6. ClocksAgree'
  <2>1. \A s \in signed' : s.at <= now'
    BY <1>1, <1>2, <1>3, <1>4, Zenon
  <2>2. \A g \in pending' : g.at <= now' /\ now' <= g.at + HandlerDelay
    BY <1>1, Zenon DEF WitnessInv, ClocksAgree
  <2>3. \A a \in Alias : Seen(a)' => AliasOfId(witnessLast'[a].ident) = a /\ witnessLast'[a].at <= now'
    BY <1>1, <1>2, <1>3, RecordedEntry, SMTT(60) DEF WitnessInv, ClocksAgree, Seen
  <2> QED
    BY <2>1, <2>2, <2>3, Zenon DEF ClocksAgree
<1>7. LastIsRecent'
  <2> SUFFICES ASSUME NEW s \in signed', Seen(AliasOfId(s.ident))'
               PROVE  s.at <= witnessLast'[AliasOfId(s.ident)].at + HandlerDelay
    BY Zenon   DEF LastIsRecent
  <2>0. AliasOfId(s.ident) \in Alias
    BY <1>1, <1>2, <1>4, Zenon DEF Signature, AliasOfId, Identity
  <2>1. CASE AliasOfId(s.ident) = b
    <3>1. witnessLast'[b] = new
      BY <1>1, <1>2, <2>1, RecordedEntry, Zenon DEF Seen
    <3> QED
      BY <1>1, <1>2, <1>3, <1>4, <2>1, <3>1, SMTT(60)
  <2>2. CASE AliasOfId(s.ident) # b
    BY <1>1, <1>2, <2>0, <2>2, RecordedEntry, Zenon DEF WitnessInv, LastIsRecent, Seen
  <2> QED
    BY <2>1, <2>2, Zenon
<1>8. UnprotectedIsOld'
  <2> SUFFICES ASSUME NEW s \in signed',
                      ~Seen(AliasOfId(s.ident))' \/
                      ClaimantOf(witnessLast'[AliasOfId(s.ident)].ident) # ClaimantOf(s.ident)
               PROVE  now' >= s.at + WitnessCooldown - HandlerDelay
    BY Zenon   DEF UnprotectedIsOld
  <2> DEFINE a == AliasOfId(s.ident)
  <2>0. a \in Alias /\ s.at \in Int /\ s.at <= now
    BY <1>1, <1>2, <1>3, <1>4, Zenon DEF Signature, AliasOfId, Identity
  <2>1. CASE a = b /\ ~Seen(a)'
    <3>1. WitnessCooldown <= 0
      BY <1>1, <2>1, RecordedEntry, Zenon DEF Seen
    <3> QED
      BY <1>1, <1>3, <2>0, <3>1
  <2>2. CASE a = b /\ Seen(a)'
    <3>1. witnessLast'[b] = new
      BY <1>1, <1>2, <2>2, RecordedEntry, Zenon DEF Seen
    <3>2. s \in signed /\ Competing(s, h)
      BY <1>1, <1>2, <2>2, <3>1, Zenon DEF Competing
    <3> QED
      BY <1>1, <3>2, RivalsAreOld, Zenon
  <2>3. CASE a # b /\ ~Seen(a)' /\ Seen(a)
    <3>1. s \in signed /\ s.at <= witnessLast[a].at + HandlerDelay
      BY <1>1, <1>2, <2>3, Zenon DEF WitnessInv, LastIsRecent
    <3>2. h.at - witnessLast[a].at >= WitnessCooldown
      BY <1>1, <2>0, <2>3, RecordedEntry, Zenon DEF Seen
    <3>3. witnessLast[a].at \in Int
      BY <2>0, <2>3 DEF WitnessInv, WitnessTypeOK, Seen, Signature, Time
    <3> QED
      BY <1>1, <1>3, <2>0, <3>1, <3>2, <3>3, SMTT(60)
  <2>4. CASE a # b /\ (Seen(a)' \/ ~Seen(a))
    <3>1. s \in signed
      BY <1>1, <1>2, <2>4, Zenon
    <3>2. Seen(a)' => witnessLast'[a] = witnessLast[a]
      BY <1>1, <2>0, <2>4, RecordedEntry, Zenon DEF Seen
    <3>3. ~Seen(a) \/ ClaimantOf(witnessLast[a].ident) # ClaimantOf(s.ident)
      BY <2>4, <3>2, Zenon
    <3> QED
      BY <1>1, <3>1, <3>3, Zenon DEF WitnessInv, UnprotectedIsOld
  <2> QED
    BY <2>1, <2>2, <2>3, <2>4, Zenon
<1>9. WitnessSpacing'
  <2>1. \A s \in signed : Competing(s, new) \/ Competing(new, s) =>
           h.at - s.at >= WitnessCooldown - 2 * HandlerDelay
    <3>1. \A s \in signed : Competing(s, new) \/ Competing(new, s) => Competing(s, h)
      BY <1>2, Zenon DEF Competing
    <3> QED
      BY <3>1, RivalsAreOld, Zenon
  <2>2. ~Competing(new, new)
    BY Zenon   DEF Competing
  <2>3. \A s, t \in signed : Competing(s, t) =>
           s.at - t.at >= WitnessCooldown - 2 * HandlerDelay
           \/ t.at - s.at >= WitnessCooldown - 2 * HandlerDelay
    BY Zenon   DEF WitnessInv, WitnessSpacing
  <2> SUFFICES ASSUME NEW s \in signed', NEW t \in signed', Competing(s, t)
               PROVE  s.at - t.at >= WitnessCooldown - 2 * HandlerDelay
                      \/ t.at - s.at >= WitnessCooldown - 2 * HandlerDelay
    BY Zenon   DEF WitnessSpacing, Competing
  <2> QED
    BY <1>1, <1>2, <2>1, <2>2, <2>3, Zenon
<1> QED
  BY <1>5, <1>6, <1>7, <1>8, <1>9, Zenon DEF WitnessInv

\* Every step of the witness node keeps the invariant.
LEMMA WitnessStep == WitnessInv /\ [WitnessNext]_witnessVars => WitnessInv'
<1> SUFFICES ASSUME WitnessInv, [WitnessNext]_witnessVars PROVE WitnessInv'
  BY Zenon
<1> USE WitnessAssumption
<1>0. /\ now \in Time /\ offered \subseteq Carrier
      /\ \A h \in pending : now <= h.at + HandlerDelay /\ h.at \in Int
      /\ HandlerDelay \in Int /\ now \in Int /\ MaxTime \in Int
  BY PoolBudgetAssumption DEF WitnessInv, WitnessTypeOK, ClocksAgree, Handler, Time
<1>1. ASSUME NEW i \in Ident, NEW r \in BOOLEAN, Screen(i, r) PROVE WitnessInv'
  BY <1>1, ScreenStep, Zenon
<1>2. ASSUME NEW h \in pending, Sign(h) PROVE WitnessInv'
  BY <1>2, SignedStep, RefusedStep, Zenon
<1>3. ASSUME NEW e \in Served, PutClaim(e) PROVE WitnessInv'
  <2>1. now' = now /\ offered' \subseteq Carrier /\ UNCHANGED <<witnessLast, pending, signed, accepted>>
    BY <1>0, <1>3, Zenon DEF PutClaim, Offer, Served, Minted
  <2> QED
    BY <1>0, <2>1, QuietStep, SMTT(60)
<1>4. ASSUME NEW e \in Served, CollectClaim(e) PROVE WitnessInv'
  <2>1. now' = now /\ offered' \subseteq Carrier /\ UNCHANGED <<witnessLast, pending, signed, accepted>>
    BY <1>0, <1>4, Zenon DEF CollectClaim, Offer, Served, Minted
  <2> QED
    BY <1>0, <2>1, QuietStep
<1>5. CASE SweepLoop
  <2>1. now' = now /\ offered' = offered /\ UNCHANGED <<witnessLast, pending, signed, accepted>>
    BY <1>5, Zenon DEF SweepLoop, Sweep
  <2> QED
    BY <1>0, <2>1, QuietStep
<1>6. CASE Elapse
  <2>1. /\ now' = now + 1 /\ now < MaxTime /\ offered' = offered
        /\ UNCHANGED <<witnessLast, pending, signed, accepted>>
    BY <1>6, Zenon DEF Elapse, Tick
  <2>2. \A h \in pending : now < h.at + HandlerDelay
    BY <1>6, Zenon DEF Elapse
  <2>3. now' \in Time /\ now <= now' /\ \A h \in pending : now' <= h.at + HandlerDelay
    BY <1>0, <2>1, <2>2, SMTT(60) DEF Time
  <2> QED
    BY <1>0, <2>1, <2>3, QuietStep, Zenon
<1>7. CASE UNCHANGED witnessVars
  <2>1. now' = now /\ offered' = offered /\ UNCHANGED <<witnessLast, pending, signed, accepted>>
    BY <1>7, Zenon DEF witnessVars, poolVars
  <2> QED
    BY <1>0, <2>1, QuietStep
<1> QED
  BY <1>1, <1>2, <1>3, <1>4, <1>5, <1>6, <1>7, Zenon DEF WitnessNext

\* The witness tables keep their types (hWitness, hPut, the sweep loop).
THEOREM WitnessTypes == WitnessSpec => []WitnessTypeOK
<1>1. WitnessInv => WitnessTypeOK
  BY Zenon   DEF WitnessInv
<1> QED
  BY WitnessInitInv, WitnessStep, <1>1, PTL DEF WitnessSpec

\* hWitness: signatures for different claimants of one alias are at least
\* WITNESS_COOLDOWN apart, less the time two handlers may hold their clock.
THEOREM WitnessSpaced == WitnessSpec => []WitnessSpacing
<1>1. WitnessInv => WitnessSpacing
  BY Zenon   DEF WitnessInv
<1> QED
  BY WitnessInitInv, WitnessStep, <1>1, PTL DEF WitnessSpec

-----------------------------------------------------------------------------
(*****************************************************************************)
(* Induction over the natural numbers, and functions defined step by step.   *)
(*****************************************************************************)

\* A non-empty set of natural numbers has a least element.
LEMMA LeastNat ==
    ASSUME NEW T, T \subseteq Nat, T # {}
    PROVE  \E x \in T : \A y \in T : x <= y
<1> DEFINE R == OpToRel(<,Nat)
<1>1. IsWellFoundedOn(R, Nat)
  BY NatLessThanWellFounded, Zenon
<1>2. \A p, q \in Nat : p < q => <<p, q>> \in R
  BY Zenon   DEF OpToRel
<1> HIDE DEF R
<1>3. PICK x \in T : \A y \in T : ~(<<y, x>> \in R)
  BY <1>1, WFMin, Zenon
<1>4. \A y \in T : ~(y < x)
  BY <1>2, <1>3, Zenon
<1> QED
  BY <1>4

\* A set with 0, and with the successor of every natural number in it, has them
\* all.
LEMMA SetInduction ==
    ASSUME NEW T, 0 \in T, \A n \in Nat : n \in T => n + 1 \in T
    PROVE  Nat \subseteq T
<1> SUFFICES ASSUME Nat \ T # {} PROVE FALSE
  BY Zenon
<1>1. PICK x \in Nat \ T : \A y \in Nat \ T : x <= y
  BY LeastNat, Zenon
<1>2. x # 0 /\ x - 1 \in Nat /\ x - 1 \notin Nat \ T
  BY <1>1
<1> QED
  BY <1>1, <1>2

\* The steps of an iteration, and what it means for a function to follow them.
Steps(N, S) == [1 .. N -> [S -> S]]
Iterates(g, N, x, F) == g[0] = x /\ \A i \in 1 .. N : g[i] = F[i][g[i - 1]]

\* An iteration of any length exists.
LEMMA Iterated ==
    ASSUME NEW N \in Nat, NEW S, NEW x \in S, NEW F \in Steps(N, S)
    PROVE  \E g \in [0 .. N -> S] : Iterates(g, N, x, F)
<1> USE DEF Steps, Iterates
<1> DEFINE Upto(n) == \E g \in [0 .. n -> S] : g[0] = x /\ \A i \in 1 .. n : g[i] = F[i][g[i - 1]]
           T == {n \in Nat : n <= N => Upto(n)}
<1>1. 0 \in T
  <2>1. [i \in 0 .. 0 |-> x] \in [0 .. 0 -> S] /\ [i \in 0 .. 0 |-> x][0] = x
    OBVIOUS
  <2>2. \A i \in 1 .. 0 : FALSE
    OBVIOUS
  <2> QED
    BY <2>1, <2>2, Zenon
<1>2. ASSUME NEW n \in Nat, n \in T PROVE n + 1 \in T
  <2> SUFFICES ASSUME n + 1 <= N PROVE Upto(n + 1)
    OBVIOUS
  <2>1. PICK g \in [0 .. n -> S] : g[0] = x /\ \A i \in 1 .. n : g[i] = F[i][g[i - 1]]
    BY <1>2
  <2> DEFINE h == [i \in 0 .. n + 1 |-> IF i = n + 1 THEN F[n + 1][g[n]] ELSE g[i]]
  <2>2. F[n + 1] \in [S -> S] /\ g[n] \in S
    BY <2>1
  <2>3. F[n + 1][g[n]] \in S
    BY <2>2, Zenon
  <2>4. h \in [0 .. n + 1 -> S]
    BY <2>1, <2>3
  <2>5. h[0] = x /\ h[n + 1] = F[n + 1][g[n]] /\ \A i \in 0 .. n : h[i] = g[i]
    BY <2>1
  <2> HIDE DEF h
  <2>6. ASSUME NEW i \in 1 .. n + 1 PROVE h[i] = F[i][h[i - 1]]
    <3>1. CASE i = n + 1
      BY <2>5, <3>1
    <3>2. CASE i \in 1 .. n
      BY <2>1, <2>5, <3>2
    <3> QED
      BY <3>1, <3>2
  <2> QED
    BY <2>4, <2>5, <2>6, Zenon
<1> HIDE DEF T
<1>3. N \in T
  BY <1>1, <1>2, SetInduction, Zenon
<1> QED
  BY <1>3 DEF T

-----------------------------------------------------------------------------
\* A list without repetitions, and what it lists.
Injective(q) == \A i, j \in DOMAIN q : q[i] = q[j] => i = j
Lists(q, a) == \E i \in DOMAIN q : q[i] = a

\* Appending an alias that is not queued keeps the queue free of repetitions.
LEMMA AppendQueue ==
  ASSUME NEW q \in Seq(Alias), Injective(q), NEW a \in Alias, ~Lists(q, a)
  PROVE  /\ Append(q, a) \in Seq(Alias) /\ Injective(Append(q, a))
         /\ \A g \in Alias : Lists(Append(q, a), g) <=> Lists(q, g) \/ g = a
<1>1. /\ Append(q, a) \in Seq(Alias) /\ Len(Append(q, a)) = Len(q) + 1
      /\ Len(q) \in Nat /\ DOMAIN q = 1 .. Len(q)
      /\ DOMAIN Append(q, a) = 1 .. Len(q) + 1
  OBVIOUS
<1>2. \A i \in 1 .. Len(q) + 1 : Append(q, a)[i] = IF i = Len(q) + 1 THEN a ELSE q[i]
  OBVIOUS
<1>3. Injective(Append(q, a))
  BY <1>1, <1>2, SMTT(60) DEF Injective, Lists
<1>4. \A g \in Alias : Lists(Append(q, a), g) <=> Lists(q, g) \/ g = a
  BY <1>1, <1>2, SMTT(60) DEF Lists
<1> QED
  BY <1>1, <1>3, <1>4, Zenon

\* There is nothing after the last.
LEMMA NothingLeft == \A m, n \in Nat : n <= m /\ ~(n + 1 <= m) => 0 = m - n
  OBVIOUS

\* Dropping the first n of a queue without repetitions leaves exactly the rest.
LEMMA DropQueue ==
  ASSUME NEW q \in Seq(Alias), Injective(q), NEW n \in 0 .. Len(q)
  PROVE  LET t == SubSeq(q, n + 1, Len(q))
         IN  /\ t \in Seq(Alias) /\ Injective(t)
             /\ \A g \in Alias : Lists(t, g) <=> Lists(q, g) /\ ~\E i \in 1 .. n : q[i] = g
<1> DEFINE t == SubSeq(q, n + 1, Len(q))
<1>1. /\ Len(q) \in Nat /\ DOMAIN q = 1 .. Len(q) /\ n \in Nat /\ n <= Len(q)
  OBVIOUS
<1>2. /\ t \in Seq(Alias)
      /\ Len(t) = IF n + 1 <= Len(q) THEN Len(q) - (n + 1) + 1 ELSE 0
      /\ \A i \in 1 .. Len(q) - (n + 1) + 1 : t[i] = q[n + 1 + i - 1]
  <2>1. n + 1 \in Int /\ Len(q) \in Int /\ \A i \in n + 1 .. Len(q) : q[i] \in Alias
    BY <1>1
  <2> QED
    BY <2>1, SubSeqProperties, SMTT(60)
<1> HIDE DEF t
<1>3. /\ DOMAIN t = 1 .. Len(q) - n
      /\ \A i \in DOMAIN t : i \in Nat /\ n + i \in DOMAIN q /\ t[i] = q[n + i]
  <2>1. Len(t) = Len(q) - n
    <3>1. CASE n + 1 <= Len(q)
      <4>1. Len(t) = Len(q) - (n + 1) + 1
        BY <1>2, <3>1, Zenon
      <4> QED
        BY <1>1, <4>1
    <3>2. CASE ~(n + 1 <= Len(q))
      <4>1. Len(t) = 0
        BY <1>2, <3>2, Zenon
      <4> QED
        BY <1>1, <3>2, <4>1, NothingLeft, Zenon
    <3> QED
      BY <3>1, <3>2, Zenon
  <2>2. DOMAIN t = 1 .. Len(q) - n
    BY <1>2, <2>1, SMTT(60)
  <2>3. ASSUME NEW i \in 1 .. Len(q) - n PROVE t[i] = q[n + i]
    <3>1. i \in 1 .. Len(q) - (n + 1) + 1 /\ n + 1 + i - 1 = n + i
      BY <1>1
    <3> QED
      BY <1>2, <3>1, Zenon
  <2> QED
    BY <1>1, <2>2, <2>3, SMTT(60)
<1>4. Injective(t)
  <2> SUFFICES ASSUME NEW i \in DOMAIN t, NEW j \in DOMAIN t, t[i] = t[j] PROVE i = j
    BY Zenon   DEF Injective
  <2>1. q[n + i] = q[n + j] /\ n + i \in DOMAIN q /\ n + j \in DOMAIN q
    BY <1>3, Zenon
  <2>2. n + i = n + j
    BY <2>1, Zenon DEF Injective
  <2> QED
    BY <1>1, <1>3, <2>2, SMTT(60)
<1>5. ASSUME NEW g \in Alias PROVE Lists(t, g) <=> Lists(q, g) /\ ~\E i \in 1 .. n : q[i] = g
  <2>1. ASSUME NEW k \in DOMAIN t, t[k] = g
        PROVE  Lists(q, g) /\ ~\E i \in 1 .. n : q[i] = g
    <3>1. n + k \in DOMAIN q /\ q[n + k] = g
      BY <1>3, <2>1, Zenon
    <3>2. ASSUME NEW i \in 1 .. n, q[i] = g PROVE FALSE
      <4>1. i = n + k
        BY <1>1, <3>1, <3>2, SMTT(60) DEF Injective
      <4> QED
        BY <1>1, <1>3, <4>1, SMTT(60)
    <3> QED
      BY <3>1, <3>2, Zenon DEF Lists
  <2>2. ASSUME NEW k \in DOMAIN q, q[k] = g, ~\E i \in 1 .. n : q[i] = g
        PROVE  Lists(t, g)
    <3>1. k > n
      BY <1>1, <2>2, SMTT(60)
    <3>2. k - n \in DOMAIN t /\ t[k - n] = g
      <4>1. k - n \in DOMAIN t /\ n + (k - n) = k
        BY <1>1, <1>3, <2>2, <3>1, SMTT(60)
      <4> QED
        BY <1>3, <2>2, <4>1, Zenon
    <3> QED
      BY <3>2, Zenon DEF Lists
  <2> QED
    BY <2>1, <2>2, Zenon DEF Lists
<1> QED
  BY <1>2, <1>4, <1>5, Zenon DEF t

-----------------------------------------------------------------------------
(***************************************************************************)
(* What Sweep's compactions leave.                                         *)
(***************************************************************************)

\* c is what has been kept after each element of s.
KeepSteps(A, s, S, c) ==
    /\ c \in [0 .. Len(s) -> Seq(A)] /\ c[0] = << >>
    /\ \A i \in 1 .. Len(s) : c[i] = IF s[i] \in S THEN Append(c[i - 1], s[i]) ELSE c[i - 1]
    /\ KeepIn(s, S) = c[Len(s)]

\* KeepIn is built element by element.
LEMMA KeepInSteps ==
  ASSUME NEW A, NEW s \in Seq(A), NEW S
  PROVE  \E c : KeepSteps(A, s, S, c)
<1> DEFINE N == Len(s)
           Next1(t, n) == IF s[n] \in S THEN Append(t, s[n]) ELSE t
           F == [i \in 1 .. N |-> [t \in Seq(A) |-> Next1(t, i)]]
           Rec(g) == [n \in 0 .. N |-> IF n = 0 THEN << >> ELSE Next1(g[n - 1], n)]
           c == CHOOSE g : g = Rec(g)
<1>1. N \in Nat /\ (\A i \in 1 .. N : s[i] \in A) /\ << >> \in Seq(A)
  OBVIOUS
<1>2. KeepIn(s, S) = c[N]
  BY Zenon    DEF KeepIn
<1> HIDE DEF N
<1>3. \A i \in 1 .. N : \A t \in Seq(A) : Next1(t, i) \in Seq(A)
  BY <1>1
<1> HIDE DEF Next1
<1>4. F \in Steps(N, Seq(A))
  BY <1>3, Zenon DEF Steps
<1>5. PICK g \in [0 .. N -> Seq(A)] : Iterates(g, N, << >>, F)
  BY <1>1, <1>4, Iterated, Zenon
<1>6. g = Rec(g)
  <2>0. \A i \in 1 .. N : i - 1 \in 0 .. N
    BY <1>1
  <2>1. \A i \in 1 .. N : g[i - 1] \in Seq(A) /\ g[i] = F[i][g[i - 1]]
    BY <1>5, <2>0, Zenon DEF Iterates
  <2>2. \A i \in 1 .. N : g[i] = Next1(g[i - 1], i)
    BY <2>1, Zenon
  <2>3. g[0] = << >>
    BY <1>5, Zenon DEF Iterates
  <2>4. \A n \in 0 .. N : n = 0 \/ n \in 1 .. N
    BY <1>1
  <2>5. \A n \in 0 .. N : g[n] = IF n = 0 THEN << >> ELSE Next1(g[n - 1], n)
    BY <2>2, <2>3, <2>4, Zenon
  <2> QED
    BY <2>5, Zenon
<1>7. c = Rec(c)
  BY <1>6, Zenon
<1> HIDE DEF c
<1>8. DOMAIN c = 0 .. N /\ c[0] = << >> /\ \A i \in 1 .. N : c[i] = Next1(c[i - 1], i)
  <2>1. DOMAIN c = 0 .. N /\ \A i \in 0 .. N : c[i] = IF i = 0 THEN << >> ELSE Next1(c[i - 1], i)
    BY <1>7, Zenon
  <2>2. 0 \in 0 .. N /\ \A i \in 1 .. N : i \in 0 .. N /\ i # 0
    BY <1>1
  <2> QED
    BY <2>1, <2>2, Zenon
<1> DEFINE Z == {i \in Nat : i <= N => c[i] \in Seq(A)}
<1>9. 0 \in Z
  BY <1>1, <1>8, Zenon
<1>10. ASSUME NEW i \in Nat, i \in Z PROVE i + 1 \in Z
  <2> SUFFICES ASSUME i + 1 <= N PROVE c[i + 1] \in Seq(A)
    OBVIOUS
  <2>1. i + 1 \in 1 .. N /\ c[i] \in Seq(A) /\ (i + 1) - 1 = i
    BY <1>1, <1>10
  <2> QED
    BY <1>3, <1>8, <2>1, Zenon
<1> HIDE DEF Z
<1>11. Nat \subseteq Z
  BY <1>9, <1>10, SetInduction, Zenon
<1>12. c = [i \in 0 .. N |-> c[i]]
  BY <1>7, Zenon
<1>13. \A i \in 0 .. N : c[i] \in Seq(A)
  BY <1>1, <1>11 DEF Z
<1>14. c \in [0 .. N -> Seq(A)]
  BY <1>12, <1>13, Zenon
<1> QED
  BY <1>2, <1>8, <1>14, Zenon DEF N, Next1, KeepSteps

\* Compacting the insertion order leaves exactly the aliases kept, each once.
LEMMA KeepInQueue ==
  ASSUME NEW q \in Seq(Alias), Injective(q), NEW S
  PROVE  /\ KeepIn(q, S) \in Seq(Alias) /\ Injective(KeepIn(q, S))
         /\ \A g \in Alias : Lists(KeepIn(q, S), g) <=> Lists(q, g) /\ g \in S
<1>0. PICK c : KeepSteps(Alias, q, S, c)
  BY KeepInSteps, Zenon
<1>1. /\ c \in [0 .. Len(q) -> Seq(Alias)] /\ c[0] = << >>
      /\ \A i \in 1 .. Len(q) : c[i] = IF q[i] \in S THEN Append(c[i - 1], q[i]) ELSE c[i - 1]
      /\ KeepIn(q, S) = c[Len(q)]
  BY <1>0, Zenon DEF KeepSteps
<1> DEFINE N == Len(q)
           Part(i, g) == \E j \in 1 .. i : q[j] = g /\ g \in S
           Z == {i \in Nat : i <= N => Injective(c[i]) /\ \A g \in Alias : Lists(c[i], g) <=> Part(i, g)}
<1>2. N \in Nat /\ DOMAIN q = 1 .. N /\ \A i \in 1 .. N : q[i] \in Alias
  OBVIOUS
<1>3. 0 \in Z
  <2>1. DOMAIN c[0] = {} /\ ~\E j \in 1 .. 0 : TRUE
    BY <1>1
  <2> QED
    BY <2>1, Zenon DEF Injective, Lists
<1>4. ASSUME NEW i \in Nat, i \in Z PROVE i + 1 \in Z
  <2> SUFFICES ASSUME i + 1 <= N PROVE Injective(c[i + 1]) /\ \A g \in Alias : Lists(c[i + 1], g) <=> Part(i + 1, g)
    OBVIOUS
  <2> DEFINE p == c[i]
             x == q[i + 1]
  <2>a. i + 1 \in 1 .. N /\ (i + 1) - 1 = i /\ i \in 0 .. N
    BY <1>2
  <2>1. i + 1 \in 1 .. N /\ (i + 1) - 1 = i /\ p \in Seq(Alias) /\ x \in Alias
    BY <1>1, <1>2, <2>a, Zenon
  <2>2. Injective(p) /\ \A g \in Alias : Lists(p, g) <=> Part(i, g)
    BY <1>2, <1>4
  <2>3. c[i + 1] = IF x \in S THEN Append(p, x) ELSE p
    BY <1>1, <2>1, Zenon
  <2>4. ~Lists(p, x)
    <3>1. ASSUME NEW j \in 1 .. i, q[j] = x PROVE FALSE
      BY <1>2, <2>1, <3>1 DEF Injective
    <3> QED
      BY <2>1, <2>2, <3>1, Zenon
  <2>5. \A g \in Alias : Part(i + 1, g) <=> Part(i, g) \/ (g = x /\ g \in S)
    <3>1. 1 .. i + 1 = (1 .. i) \cup {i + 1}
      OBVIOUS
    <3> QED
      BY <3>1, Zenon
  <2> HIDE DEF p, x, Part
  <2>6. CASE x \in S
    <3>1. Injective(Append(p, x)) /\ \A g \in Alias : Lists(Append(p, x), g) <=> Lists(p, g) \/ g = x
      BY <2>1, <2>2, <2>4, AppendQueue, Zenon
    <3> QED
      BY <2>2, <2>3, <2>5, <2>6, <3>1, Zenon
  <2>7. CASE x \notin S
    BY <2>2, <2>3, <2>5, <2>7, Zenon
  <2> QED
    BY <2>6, <2>7, Zenon
<1> HIDE DEF Z
<1>5. N \in Z
  BY <1>2, <1>3, <1>4, SetInduction, Zenon
<1>6. Injective(c[N]) /\ \A g \in Alias : Lists(c[N], g) <=> Part(N, g)
  BY <1>2, <1>5 DEF Z
<1>7. c[N] \in Seq(Alias) /\ KeepIn(q, S) = c[N]
  BY <1>1, <1>2
<1>8. \A g \in Alias : Part(N, g) <=> Lists(q, g) /\ g \in S
  BY <1>2, Zenon DEF Lists
<1> HIDE DEF N, Part
<1> QED
  BY <1>6, <1>7, <1>8, Zenon

\* A carrier's claims are compared as numbers.
LEMMA OrderKeys ==
    /\ \A d, e \in Carrier : LessOrderKey(d, e) => ~LessOrderKey(e, d)
    /\ \A d, e, f \in Carrier : ~LessOrderKey(e, d) /\ ~LessOrderKey(f, e) => ~LessOrderKey(f, d)
<1>1. \A e \in Carrier : Id[IdentOf(e)].ts \in Nat /\ Id[IdentOf(e)].pow \in Nat /\ Id[IdentOf(e)].tld \in Nat
  BY IdAssumption, CarriesAssumption, Zenon DEF IdentOf, CarrierRecord, Identity
<1> QED
  BY <1>1 DEF LessOrderKey

\* The sequences of at most two elements.
LEMMA ShortSeqs ==
    /\ \A n \in Nat : n <= 2 => n \in 0 .. 2
    /\ \A x : Append(<< >>, x) = <<x>>
    /\ \A x, y : Append(<<x>>, y) = <<x, y>> /\ <<x>> \o <<y>> = <<x, y>>
    /\ \A x, y : Len(<<x, y>>) = 2 /\ {<<x, y>>[i] : i \in DOMAIN <<x, y>>} = {x, y}
<1>1. \A n \in Nat : n <= 2 => n \in 0 .. 2
  OBVIOUS
<1>2. \A x : Append(<< >>, x) = <<x>>
  OBVIOUS
<1>3. ASSUME NEW x, NEW y PROVE Append(<<x>>, y) = <<x, y>> /\ <<x>> \o <<y>> = <<x, y>>
  <2> DEFINE A == {x, y}
             p == <<x>>
             q == <<y>>
             t == <<x, y>>
  <2>a. /\ p \in Seq(A) /\ q \in Seq(A) /\ t \in Seq(A) /\ y \in A
        /\ Len(p) = 1 /\ Len(q) = 1 /\ Len(t) = 2 /\ p[1] = x /\ q[1] = y /\ t[1] = x /\ t[2] = y
    OBVIOUS
  <2> HIDE DEF A, p, q, t
  <2>b. 1 .. 2 = {1, 2} /\ 1 + 1 = 2 /\ 1 .. 1 = {1} /\ 1 <= 1 /\ ~(2 <= 1) /\ 2 - 1 = 1
    OBVIOUS
  <2>1. Append(p, y) = t
    <3>1. Append(p, y) \in Seq(A) /\ Len(Append(p, y)) = 2 /\ Append(p, y)[1] = x /\ Append(p, y)[2] = y
      <4>1. /\ Append(p, y) \in Seq(A) /\ Len(Append(p, y)) = Len(p) + 1
            /\ (\A i \in 1 .. Len(p) : Append(p, y)[i] = p[i]) /\ Append(p, y)[Len(p) + 1] = y
        <5>1. p \in Seq(A) /\ y \in A
          BY <2>a, Zenon
        <5> QED
          BY <5>1, AppendProperties
      <4> QED
        BY <2>a, <2>b, <4>1, Zenon
    <3> QED
      BY <2>a, <2>b, <3>1, SeqEqual
  <2>2. p \o q = t
    <3>1. p \o q \in Seq(A) /\ Len(p \o q) = 2 /\ (p \o q)[1] = x /\ (p \o q)[2] = y
      BY <2>a, <2>b, ConcatProperties, SMTT(60)
    <3> QED
      BY <2>a, <2>b, <3>1, SeqEqual, SMTT(60)
  <2> USE DEF p, q, t
  <2> QED
    BY <2>1, <2>2, Zenon
<1>4. ASSUME NEW x, NEW y PROVE Len(<<x, y>>) = 2 /\ {<<x, y>>[i] : i \in DOMAIN <<x, y>>} = {x, y}
  OBVIOUS
<1> QED
  BY <1>1, <1>2, <1>3, <1>4, Zenon

\* A sequence in one of them.
LEMMA ShortLen ==
  ASSUME NEW A, NEW s \in Seq(A), Len(s) <= 2
  PROVE  Len(s) \in 0 .. 2 /\ DOMAIN s = 1 .. Len(s) /\ \A i \in 1 .. Len(s) : s[i] \in A
<1>1. Len(s) \in Nat /\ DOMAIN s = 1 .. Len(s) /\ \A i \in 1 .. Len(s) : s[i] \in A
  BY LenProperties, Zenon
<1> QED
  BY <1>1, ShortSeqs, Zenon

\* What Sweep keeps of an alias that holds at most two carriers.
LEMMA KeptShort ==
  ASSUME NEW s \in Seq(Carrier), Len(s) <= 2, NEW S
  PROVE  LET t == KeepIn(s, S)
         IN  /\ t \in Seq(Carrier) /\ Len(t) <= Len(s) /\ (Len(t) = 2 => t = s)
             /\ {t[i] : i \in DOMAIN t} = {s[i] : i \in DOMAIN s} \cap S
<1>1. PICK c : KeepSteps(Carrier, s, S, c)
  BY KeepInSteps, Zenon
<1>2. /\ c[0] = << >> /\ KeepIn(s, S) = c[Len(s)]
      /\ \A i \in 1 .. Len(s) : c[i] = IF s[i] \in S THEN Append(c[i - 1], s[i]) ELSE c[i - 1]
  BY <1>1, Zenon DEF KeepSteps
<1>3. Len(s) \in 0 .. 2 /\ DOMAIN s = 1 .. Len(s) /\ \A i \in 1 .. Len(s) : s[i] \in Carrier
  BY ShortLen, Zenon
<1>4. CASE Len(s) = 0
  <2>1. KeepIn(s, S) = << >> /\ s = << >>
    BY <1>2, <1>4
  <2> QED
    BY <2>1
<1>5. CASE Len(s) = 1
  <2>1. c[1] = IF s[1] \in S THEN Append(<< >>, s[1]) ELSE << >>
    <3>1. 1 \in 1 .. Len(s) /\ 1 - 1 = 0
      BY <1>5
    <3> QED
      BY <1>2, <3>1, Zenon
  <2>2. KeepIn(s, S) = IF s[1] \in S THEN <<s[1]>> ELSE << >>
    BY <1>2, <1>5, <2>1, ShortSeqs, Zenon
  <2>3. s = <<s[1]>> /\ s[1] \in Carrier
    BY <1>3, <1>5, SMTT(60)
  <2> QED
    BY <2>2, <2>3
<1>6. CASE Len(s) = 2
  <2>1. 1 \in 1 .. Len(s) /\ 2 \in 1 .. Len(s) /\ 1 - 1 = 0 /\ 2 - 1 = 1
    BY <1>6
  <2>2. /\ c[1] = IF s[1] \in S THEN Append(<< >>, s[1]) ELSE << >>
        /\ c[2] = IF s[2] \in S THEN Append(c[1], s[2]) ELSE c[1]
    BY <1>2, <2>1, Zenon
  <2>3. KeepIn(s, S) = c[2]
    BY <1>2, <1>6, Zenon
  <2>4. s = <<s[1], s[2]>> /\ s[1] \in Carrier /\ s[2] \in Carrier
    BY <1>3, <1>6
  <2>5. CASE s[1] \in S /\ s[2] \in S
    <3>0. c[1] = Append(<< >>, s[1]) /\ c[2] = Append(c[1], s[2])
      BY <2>2, <2>5, Zenon
    <3>1. KeepIn(s, S) = <<s[1], s[2]>>
      <4>1. c[1] = <<s[1]>>
        BY <3>0, ShortSeqs, Zenon
      <4>2. c[2] = Append(<<s[1]>>, s[2])
        BY <3>0, <4>1, Zenon
      <4>3. Append(<<s[1]>>, s[2]) = <<s[1], s[2]>>
        BY ShortSeqs, Zenon
      <4> QED
        BY <2>3, <4>2, <4>3, Zenon
    <3>2. KeepIn(s, S) = s
      BY <2>4, <3>1, Zenon
    <3>3. {s[i] : i \in DOMAIN s} = {s[1], s[2]}
      BY <1>3, <1>6
    <3> QED
      BY <2>5, <3>2, <3>3
  <2>6. CASE s[1] \in S /\ s[2] \notin S
    <3>1. KeepIn(s, S) = <<s[1]>>
      BY <2>2, <2>3, <2>6
    <3> QED
      BY <2>4, <2>6, <3>1
  <2>7. CASE s[1] \notin S /\ s[2] \in S
    <3>1. KeepIn(s, S) = <<s[2]>>
      BY <2>2, <2>3, <2>7
    <3> QED
      BY <2>4, <2>7, <3>1
  <2>8. CASE s[1] \notin S /\ s[2] \notin S
    <3>1. KeepIn(s, S) = << >>
      BY <2>2, <2>3, <2>8, Zenon
    <3> QED
      BY <2>4, <2>8, <3>1
  <2> QED
    BY <2>5, <2>6, <2>7, <2>8, Zenon
<1> QED
  BY <1>3, <1>4, <1>5, <1>6

-----------------------------------------------------------------------------
(***************************************************************************)
(* The pool and its eviction queue.                                        *)
(***************************************************************************)

\* s holds at most two distinct carriers of alias a, best first.
TopTwo(s, a) ==
    /\ s \in Seq(Carrier) /\ Len(s) <= 2
    /\ \A i \in DOMAIN s : AliasOf(s[i]) = a
    /\ Len(s) = 2 => s[1] # s[2] /\ ~LessOrderKey(s[2], s[1])

\* The queue q lists exactly the aliases of P, each once.
Queues(q, P) ==
    /\ q \in Seq(Alias) /\ Injective(q)
    /\ \A a \in Alias : P[a] # << >> <=> Lists(q, a)

\* The pool's part of the inductive invariants.
PoolShape ==
    /\ pool \in [Alias -> Seq(Carrier)]
    /\ \A a \in Alias : TopTwo(pool[a], a)
    /\ Queues(order, pool)

\* Which is PoolExact.
LEMMA ShapeExact == PoolShape => PoolExact
  BY SMTT(60)  DEF PoolShape, TopTwo, Queues, Injective, Lists, PoolExact, PoolQueueExact, PoolTop2, Members

\* Where OfferSeen puts a carrier it wants.
LEMMA RankedIs ==
  ASSUME NEW a \in Alias, NEW cur, TopTwo(cur, a), NEW e \in Carrier, ~NotWanted(cur, e)
  PROVE  /\ cur = << >> => Ranked(cur, e) = <<e>>
         /\ cur # << >> => /\ cur[1] \in Carrier /\ AliasOf(cur[1]) = a /\ cur[1] # e
                           /\ Ranked(cur, e) = IF LessOrderKey(e, cur[1]) THEN <<e, cur[1]>> ELSE <<cur[1], e>>
                           /\ Len(cur) = 2 => cur[2] \in Carrier /\ LessOrderKey(e, cur[2])
<1>1. cur \in Seq(Carrier) /\ Len(cur) \in 0 .. 2 /\ DOMAIN cur = 1 .. Len(cur)
  BY ShortLen, Zenon DEF TopTwo
<1>2. cur = << >> => Ranked(cur, e) = <<e>>
  <2> SUFFICES ASSUME cur = << >> PROVE Ranked(cur, e) = <<e>>
    BY Zenon
  <2>1. Len(cur) = 0 /\ Len(cur) # 2 /\ Len(cur) # 1
    OBVIOUS
  <2>2. Ranked(cur, e) = Append(cur, e)
    BY <2>1, Zenon DEF Ranked
  <2> QED
    BY <2>2
<1>3. ASSUME cur # << >>
      PROVE  /\ cur[1] \in Carrier /\ AliasOf(cur[1]) = a /\ cur[1] # e
             /\ Ranked(cur, e) = IF LessOrderKey(e, cur[1]) THEN <<e, cur[1]>> ELSE <<cur[1], e>>
             /\ Len(cur) = 2 => cur[2] \in Carrier /\ LessOrderKey(e, cur[2])
  <2>1. Len(cur) \in 1 .. 2 /\ 1 \in DOMAIN cur
    BY <1>1, <1>3
  <2>2. cur[1] \in Carrier /\ AliasOf(cur[1]) = a /\ cur[1] # e
    BY <1>1, <2>1 DEF TopTwo, NotWanted
  <2>3. Len(cur) = 2 => cur[2] \in Carrier /\ LessOrderKey(e, cur[2])
    BY <1>1 DEF NotWanted
  <2> DEFINE kept == IF Len(cur) = 2 THEN <<cur[1]>> ELSE cur
  <2>4. kept = <<cur[1]>>
    BY <1>1, <2>1
  <2>5. Ranked(cur, e) = IF Len(kept) = 1 /\ LessOrderKey(e, kept[1]) THEN <<e>> \o kept ELSE Append(kept, e)
    BY Zenon   DEF Ranked
  <2> HIDE DEF kept
  <2>6. Len(kept) = 1 /\ kept[1] = cur[1] /\ <<e>> \o kept = <<e, cur[1]>> /\ Append(kept, e) = <<cur[1], e>>
    <3>1. Len(<<cur[1]>>) = 1 /\ <<cur[1]>>[1] = cur[1]
      BY Zenon
    <3> QED
      BY <2>4, <3>1, ShortSeqs, Zenon
  <2> QED
    BY <2>2, <2>3, <2>5, <2>6, Zenon
<1> QED
  BY <1>2, <1>3, Zenon

\* So the alias still holds its best two.
LEMMA RankedTopTwo ==
  ASSUME NEW a \in Alias, NEW cur, TopTwo(cur, a), NEW e \in Carrier, AliasOf(e) = a, ~NotWanted(cur, e)
  PROVE  TopTwo(Ranked(cur, e), a) /\ Ranked(cur, e) # << >>
<1>1. CASE cur = << >>
  <2>1. Ranked(cur, e) = <<e>>
    BY <1>1, RankedIs, Zenon
  <2> QED
    BY <2>1 DEF TopTwo
<1>2. CASE cur # << >>
  <2>1. /\ cur[1] \in Carrier /\ AliasOf(cur[1]) = a /\ cur[1] # e
        /\ Ranked(cur, e) = IF LessOrderKey(e, cur[1]) THEN <<e, cur[1]>> ELSE <<cur[1], e>>
    BY <1>2, RankedIs, SMTT(60)
  <2>2. CASE LessOrderKey(e, cur[1])
    <3>1. Ranked(cur, e) = <<e, cur[1]>> /\ ~LessOrderKey(cur[1], e)
      BY <2>1, <2>2, OrderKeys, Zenon
    <3> QED
      BY <2>1, <3>1 DEF TopTwo
  <2>3. CASE ~LessOrderKey(e, cur[1])
    <3>1. Ranked(cur, e) = <<cur[1], e>>
      BY <2>1, <2>3, Zenon
    <3> QED
      BY <2>1, <2>3, <3>1 DEF TopTwo
  <2> QED
    BY <2>2, <2>3, Zenon
<1> QED
  BY <1>1, <1>2, Zenon

\* evictOverBudgetLocked takes the oldest aliases off the queue and out of the
\* pool.
LEMMA EvictShape ==
  ASSUME NEW P \in [Alias -> Seq(Carrier)], \A a \in Alias : TopTwo(P[a], a),
         NEW q, Queues(q, P), NEW load, NEW seen, NEW atts, EvictOverBudget(P, q, load, seen, atts)
  PROVE  /\ PoolShape'
         /\ \E n \in 0 .. Len(q) - 1 :
               pool' = [a \in Alias |-> IF a \in {q[i] : i \in 1 .. n} THEN << >> ELSE P[a]]
<1>0. q \in Seq(Alias) /\ Injective(q) /\ (\A a \in Alias : P[a] # << >> <=> Lists(q, a)) /\ Len(q) \in Nat
  BY LenProperties, Zenon DEF Queues
<1>1. PICK n \in 0 .. Len(q) - 1 :
         /\ pool' = [a \in Alias |-> IF a \in {q[i] : i \in 1 .. n} THEN << >> ELSE P[a]]
         /\ order' = SubSeq(q, n + 1, Len(q))
  BY Zenon    DEF EvictOverBudget
<1> DEFINE gone == {q[i] : i \in 1 .. n}
<1>2. n \in 0 .. Len(q)
  BY <1>0
<1>3. /\ order' \in Seq(Alias) /\ Injective(order')
      /\ \A a \in Alias : Lists(order', a) <=> Lists(q, a) /\ ~\E i \in 1 .. n : q[i] = a
  BY <1>0, <1>1, <1>2, DropQueue, Zenon
<1>4. \A a \in Alias : a \in gone <=> \E i \in 1 .. n : q[i] = a
  BY Zenon
<1>5. \A a \in Alias : pool'[a] = IF a \in gone THEN << >> ELSE P[a]
  BY <1>1, Zenon
<1> HIDE DEF gone
<1>6. \A a \in Alias : TopTwo(pool'[a], a)
  <2>1. \A a \in Alias : TopTwo(<< >>, a)
    BY DEF TopTwo
  <2> QED
    BY <1>5, <2>1, Zenon
<1>7. pool' \in [Alias -> Seq(Carrier)]
  <2>1. \A a \in Alias : pool'[a] \in Seq(Carrier)
    BY <1>6, Zenon DEF TopTwo
  <2>2. pool' = [a \in Alias |-> pool'[a]]
    BY <1>1, Zenon
  <2> QED
    BY <2>1, <2>2, Zenon
<1>8. \A a \in Alias : pool'[a] # << >> <=> Lists(order', a)
  BY <1>0, <1>3, <1>4, <1>5, Zenon
<1> QED
  BY <1>1, <1>3, <1>6, <1>7, <1>8, Zenon DEF PoolShape, Queues

\* What OfferSeen does to the pool: nothing, or the carrier goes in where it
\* ranks, or it opens an alias and the oldest ones may be evicted.
LEMMA OfferShape ==
  ASSUME PoolShape, NEW e \in Carrier, NEW fs, NEW atts, OfferSeen(e, fs, atts)
  PROVE  /\ PoolShape'
         /\ \/ NotWanted(pool[AliasOf(e)], e) /\ UNCHANGED <<pool, order>>
            \/ /\ ~NotWanted(pool[AliasOf(e)], e) /\ pool[AliasOf(e)] # << >> /\ order' = order
               /\ pool' = [pool EXCEPT ![AliasOf(e)] = Ranked(pool[AliasOf(e)], e)]
            \/ /\ ~NotWanted(pool[AliasOf(e)], e) /\ pool[AliasOf(e)] = << >>
               /\ \E n \in 0 .. Len(order) :
                     pool' = [a \in Alias |-> IF a \in {order[i] : i \in 1 .. n} THEN << >>
                                              ELSE IF a = AliasOf(e) THEN <<e>> ELSE pool[a]]
<1> DEFINE a == AliasOf(e)
           cur == pool[a]
           P == [pool EXCEPT ![a] = Ranked(cur, e)]
<1>1. a \in Alias
  BY IdAssumption, CarriesAssumption, Zenon DEF AliasOf, CarrierRecord, Identity
<1>2. /\ pool \in [Alias -> Seq(Carrier)] /\ (\A b \in Alias : TopTwo(pool[b], b))
      /\ Queues(order, pool) /\ order \in Seq(Alias) /\ Injective(order)
      /\ \A b \in Alias : pool[b] # << >> <=> Lists(order, b)
  BY Zenon   DEF PoolShape, Queues
<1>3. TopTwo(cur, a)
  BY <1>1, <1>2, Zenon
<1>4. ~NotWanted(cur, e) => TopTwo(Ranked(cur, e), a) /\ Ranked(cur, e) # << >>
  BY <1>1, <1>3, RankedTopTwo, Zenon
<1>5. ~NotWanted(cur, e) => P \in [Alias -> Seq(Carrier)] /\ \A b \in Alias : TopTwo(P[b], b)
  <2>1. TopTwo(Ranked(cur, e), a) => Ranked(cur, e) \in Seq(Carrier)
    BY Zenon   DEF TopTwo
  <2> HIDE DEF cur
  <2> QED
    BY <1>1, <1>2, <1>4, <2>1, Zenon
<1>6. \A b \in Alias : P[b] = IF b = a THEN Ranked(cur, e) ELSE pool[b]
  BY <1>2, Zenon
<1>7. CASE NotWanted(cur, e) /\ UNCHANGED index
  <2>1. UNCHANGED <<pool, order>>
    BY <1>7, Zenon DEF index
  <2>2. PoolShape'
    BY <2>1, Zenon DEF PoolShape, TopTwo, Queues
  <2> QED
    BY <1>7, <2>1, <2>2, Zenon
<1>8. CASE ~NotWanted(cur, e) /\ cur # << >> /\ pool' = P /\ order' = order
  <2>1. Queues(order', pool')
    BY <1>1, <1>2, <1>4, <1>6, <1>8, Zenon DEF Queues
  <2>2. PoolShape'
    BY <1>5, <1>8, <2>1, Zenon DEF PoolShape
  <2> QED
    BY <1>8, <2>2, Zenon
<1>9. ASSUME ~NotWanted(cur, e), cur = << >>, NEW load, NEW seen, EvictOverBudget(P, Append(order, a), load, seen, atts)
      PROVE  /\ PoolShape'
             /\ \E n \in 0 .. Len(order) :
                     pool' = [b \in Alias |-> IF b \in {order[i] : i \in 1 .. n} THEN << >>
                                              ELSE IF b = a THEN <<e>> ELSE pool[b]]
  <2> DEFINE q == Append(order, a)
  <2>1. ~Lists(order, a)
    BY <1>1, <1>2, <1>9, Zenon
  <2>2. q \in Seq(Alias) /\ Injective(q) /\ \A g \in Alias : Lists(q, g) <=> Lists(order, g) \/ g = a
    BY <1>1, <1>2, <2>1, AppendQueue, Zenon
  <2>3. Len(order) \in Nat /\ Len(q) = Len(order) + 1 /\ \A i \in 1 .. Len(order) : q[i] = order[i]
    BY <1>1, <1>2, AppendProperties, LenProperties, SMTT(60)
  <2> HIDE DEF q, P, cur
  <2>4. Queues(q, P)
    BY <1>2, <1>4, <1>6, <1>9, <2>2, Zenon DEF Queues
  <2>5. EvictOverBudget(P, q, load, seen, atts)
    BY <1>9, Zenon DEF q
  <2>6. /\ PoolShape'
        /\ \E n \in 0 .. Len(q) - 1 :
               pool' = [b \in Alias |-> IF b \in {q[i] : i \in 1 .. n} THEN << >> ELSE P[b]]
    BY <1>5, <1>9, <2>4, <2>5, EvictShape, SMTT(60)
  <2>7. PICK n \in 0 .. Len(q) - 1 :
               pool' = [b \in Alias |-> IF b \in {q[i] : i \in 1 .. n} THEN << >> ELSE P[b]]
    BY <2>6, Zenon
  <2>8. n \in 0 .. Len(order)
    BY <2>3
  <2>9. {q[i] : i \in 1 .. n} = {order[i] : i \in 1 .. n}
    <3>1. \A i \in 1 .. n : q[i] = order[i]
      BY <2>3, <2>8, SMTT(60)
    <3> QED
      BY <3>1, Zenon
  <2>10. Ranked(cur, e) = <<e>>
    BY <1>1, <1>3, <1>9, RankedIs, Zenon
  <2>11. pool' = [b \in Alias |-> IF b \in {order[i] : i \in 1 .. n} THEN << >>
                                              ELSE IF b = a THEN <<e>> ELSE pool[b]]
    <3> DEFINE gone == {order[i] : i \in 1 .. n}
    <3>1. pool' = [b \in Alias |-> IF b \in gone THEN << >> ELSE P[b]]
      BY <2>7, <2>9, Zenon
    <3> HIDE DEF gone
    <3>2. \A b \in Alias : P[b] = IF b = a THEN <<e>> ELSE pool[b]
      BY <1>6, <2>10, Zenon
    <3>3. pool' = [b \in Alias |-> IF b \in gone THEN << >> ELSE IF b = a THEN <<e>> ELSE pool[b]]
      BY <3>1, <3>2, Zenon
    <3> QED
      BY <3>3, Zenon DEF gone
  <2> QED
    BY <2>6, <2>8, <2>11, Zenon
<1> QED
  BY <1>7, <1>8, <1>9, Zenon DEF OfferSeen

\* What Sweep does to the pool: of each alias it keeps the carriers whose
\* reuse window is open.
LEMMA SweepShape ==
  ASSUME PoolShape, SweepEffect
  PROVE  /\ PoolShape'
         /\ \A a \in Alias : {pool'[a][i] : i \in DOMAIN pool'[a]} = {e \in Members(a) : WindowOpen(e, now)}
<1> DEFINE S == {e \in Carrier : WindowOpen(e, now)}
           B == {a \in Alias : Kept(pool[a]) # << >>}
<1>1. /\ pool \in [Alias -> Seq(Carrier)] /\ (\A a \in Alias : TopTwo(pool[a], a))
      /\ order \in Seq(Alias) /\ Injective(order) /\ \A a \in Alias : pool[a] # << >> <=> Lists(order, a)
  BY Zenon   DEF PoolShape, Queues
<1>2. pool' = [a \in Alias |-> KeepIn(pool[a], S)] /\ order' = KeepIn(order, B)
  BY Zenon    DEF SweepEffect, Kept, SweptOrder
<1>3. \A a \in Alias : a \in B <=> pool'[a] # << >>
  BY <1>2, Zenon DEF Kept
<1>4. \A a \in Alias : Members(a) \subseteq Carrier
  BY <1>1, SMTT(60) DEF Members
<1> HIDE DEF B
<1>5. ASSUME NEW a \in Alias
      PROVE  /\ pool'[a] \in Seq(Carrier) /\ Len(pool'[a]) <= Len(pool[a]) /\ (Len(pool'[a]) = 2 => pool'[a] = pool[a])
             /\ {pool'[a][i] : i \in DOMAIN pool'[a]} = Members(a) \cap S
  <2>1. pool[a] \in Seq(Carrier) /\ Len(pool[a]) <= 2 /\ pool'[a] = KeepIn(pool[a], S)
    BY <1>1, <1>2, Zenon DEF TopTwo
  <2> HIDE DEF S
  <2> QED
    BY <2>1, KeptShort, SMTT(60) DEF Members
<1>6. ASSUME NEW a \in Alias
      PROVE  {pool'[a][i] : i \in DOMAIN pool'[a]} = {e \in Members(a) : WindowOpen(e, now)}
  BY <1>4, <1>5, Zenon
<1>7. \A a \in Alias : TopTwo(pool'[a], a)
  <2> SUFFICES ASSUME NEW a \in Alias PROVE TopTwo(pool'[a], a)
    BY Zenon
  <2>1. TopTwo(pool[a], a)
    BY <1>1, Zenon
  <2>2. \A e \in Members(a) : AliasOf(e) = a
    BY <2>1, Zenon DEF TopTwo, Members
  <2>3. \A i \in DOMAIN pool'[a] : AliasOf(pool'[a][i]) = a
    BY <1>5, <2>2, Zenon
  <2>4. Len(pool'[a]) <= 2
    <3>1. Len(pool'[a]) \in Nat /\ Len(pool[a]) \in Nat
      BY <1>1, <1>5, LenProperties, Zenon
    <3>2. Len(pool[a]) <= 2 /\ Len(pool'[a]) <= Len(pool[a])
      BY <1>5, <2>1, Zenon DEF TopTwo
    <3> QED
      BY <3>1, <3>2, SMTT(60)
  <2> QED
    BY <1>5, <2>1, <2>3, <2>4, Zenon DEF TopTwo
<1>8. \A a \in Alias : pool'[a] # << >> => pool[a] # << >>
  <2> SUFFICES ASSUME NEW a \in Alias, pool[a] = << >> PROVE pool'[a] = << >>
    BY Zenon
  <2>1. Len(pool[a]) = 0 /\ pool'[a] \in Seq(Carrier) /\ Len(pool'[a]) <= Len(pool[a])
    BY <1>5, Zenon
  <2>2. Len(pool'[a]) = 0
    BY <2>1, LenProperties, SMTT(60)
  <2> QED
    BY <2>1, <2>2, EmptySeq, Zenon
<1>9. /\ order' \in Seq(Alias) /\ Injective(order')
      /\ \A a \in Alias : Lists(order', a) <=> Lists(order, a) /\ a \in B
  BY <1>1, <1>2, KeepInQueue, Zenon
<1>10. Queues(order', pool')
  BY <1>1, <1>3, <1>8, <1>9, Zenon DEF Queues
<1>11. pool' \in [Alias -> Seq(Carrier)]
  BY <1>2, <1>5, Zenon
<1> QED
  BY <1>6, <1>7, <1>10, <1>11, Zenon DEF PoolShape

\* The empty pool.
LEMMA EmptyShape ==
    /\ pool = NoPool /\ order = << >> => PoolShape
    /\ pool' = NoPool /\ order' = << >> => PoolShape'
<1>1. << >> \in Seq(Carrier) /\ << >> \in Seq(Alias) /\ \A a \in Alias : TopTwo(<< >>, a)
  BY DEF TopTwo
<1>2. Injective(<< >>) /\ \A a \in Alias : ~Lists(<< >>, a)
  BY DEF Injective, Lists
<1>3. NoPool \in [Alias -> Seq(Carrier)] /\ \A a \in Alias : NoPool[a] = << >>
  BY <1>1, Zenon DEF NoPool
<1>4. Queues(<< >>, NoPool) /\ \A a \in Alias : TopTwo(NoPool[a], a)
  BY <1>1, <1>2, <1>3, Zenon DEF Queues
<1> QED
  BY <1>3, <1>4, Zenon DEF PoolShape

\* A step that leaves the pool alone.
LEMMA SameShape == PoolShape /\ UNCHANGED <<pool, order>> => PoolShape'
  BY Zenon   DEF PoolShape, TopTwo, Queues

\* Every step of the pool on its own.
LEMMA PoolStep == PoolShape /\ [PoolNext]_poolVars => PoolShape'
<1> SUFFICES ASSUME PoolShape, [PoolNext]_poolVars PROVE PoolShape'
  BY Zenon
<1>1. ASSUME NEW e \in Minted, Offer(e) PROVE PoolShape'
  <2>1. e \in Carrier
    BY Zenon   DEF Minted
  <2> QED
    BY <1>1, <2>1, OfferShape, Zenon DEF Offer
<1>2. ASSUME NEW i, NEW n, NEW t, StoreReAttests(Id[i].alias, i, [node |-> n, ts |-> t]) PROVE PoolShape'
  BY <1>2, SameShape, Zenon DEF StoreReAttests, index
<1>3. CASE Sweep
  BY <1>3, SweepShape, Zenon DEF Sweep
<1>4. CASE Tick
  BY <1>4, SameShape, Zenon DEF Tick, index
<1>5. CASE UNCHANGED poolVars
  BY <1>5, SameShape, Zenon DEF poolVars, index
<1> QED
  BY <1>1, <1>2, <1>3, <1>4, <1>5, Zenon DEF PoolNext

\* Displacement, eviction and sweeping keep the pool and the insertion order
\* that FIFO eviction walks in agreement, and every alias at its best two.
THEOREM PoolStaysExact == PoolSpec => []PoolExact
<1>1. PoolInit => PoolShape
  BY EmptyShape, Zenon DEF PoolInit
<1> QED
  BY <1>1, PoolStep, ShapeExact, PTL DEF PoolSpec

\* OfferSeen loses an open tombstone only by displacing or evicting it.
LEMMA OfferKeeps ==
  ASSUME PoolShape, NEW d \in Carrier, NEW fs, NEW atts, OfferSeen(d, fs, atts),
         NEW a \in Alias, NEW e \in Members(a), e \notin {pool'[a][i] : i \in DOMAIN pool'[a]}
  PROVE  \/ \E i \in DOMAIN order : order[i] = a /\ \A j \in 1 .. i : pool'[order[j]] = << >>
         \/ Len(pool'[a]) = 2 /\ \A i \in 1 .. 2 : ~LessOrderKey(e, pool'[a][i])
<1> DEFINE b == AliasOf(d)
<1>1. /\ pool \in [Alias -> Seq(Carrier)] /\ (\A g \in Alias : TopTwo(pool[g], g))
      /\ order \in Seq(Alias) /\ DOMAIN order = 1 .. Len(order) /\ Len(order) \in Nat
      /\ b \in Alias /\ \A i \in 1 .. Len(order) : order[i] \in Alias
  BY IdAssumption, CarriesAssumption, LenProperties, SMTT(60) DEF PoolShape, Queues, AliasOf, CarrierRecord, Identity
<1>2. PICK k \in DOMAIN pool[a] : e = pool[a][k]
  BY Zenon   DEF Members
<1>3. CASE UNCHANGED <<pool, order>>
  BY <1>2, <1>3, Zenon
<1>4. CASE ~NotWanted(pool[b], d) /\ pool[b] # << >> /\ pool' = [pool EXCEPT ![b] = Ranked(pool[b], d)]
  <2>1. a = b
    BY <1>1, <1>2, <1>4, Zenon
  <2> DEFINE cur == pool[b]
  <2>2. TopTwo(cur, b) /\ cur # << >> /\ pool'[a] = Ranked(cur, d) /\ ~NotWanted(cur, d)
    BY <1>1, <1>4, <2>1, Zenon
  <2>3. /\ cur[1] \in Carrier
        /\ Ranked(cur, d) = IF LessOrderKey(d, cur[1]) THEN <<d, cur[1]>> ELSE <<cur[1], d>>
        /\ Len(cur) = 2 => cur[2] \in Carrier /\ LessOrderKey(d, cur[2])
    BY <1>1, <2>2, RankedIs
  <2>4. Len(cur) \in 0 .. 2 /\ DOMAIN cur = 1 .. Len(cur)
    BY <2>2, ShortLen, Zenon DEF TopTwo
  <2>5. pool'[a] = <<d, cur[1]>> \/ pool'[a] = <<cur[1], d>>
    BY <2>2, <2>3, Zenon
  <2> HIDE DEF cur
  <2>6. /\ {pool'[a][i] : i \in DOMAIN pool'[a]} = {d, cur[1]} /\ Len(pool'[a]) = 2
        /\ \A i \in 1 .. 2 : pool'[a][i] \in {d, cur[1]}
    BY <2>5, SMTT(60)
  <2>7. k = 2 /\ Len(cur) = 2 /\ e = cur[2]
    <3>1. k \in 1 .. Len(cur) /\ e = cur[k]
      BY <1>2, <2>1, <2>4, Zenon DEF cur
    <3>2. k # 1
      BY <2>6, <3>1, Zenon
    <3> QED
      BY <2>4, <3>1, <3>2, SMTT(60)
  <2>8. ~LessOrderKey(cur[2], cur[1]) /\ ~LessOrderKey(cur[2], d)
    <3>1. ~LessOrderKey(cur[2], cur[1])
      BY <2>2, <2>7, Zenon DEF TopTwo
    <3> QED
      BY <2>3, <2>7, <3>1, OrderKeys, Zenon
  <2> QED
    BY <2>6, <2>7, <2>8, Zenon
<1>5. ASSUME pool[b] = << >>, NEW n \in 0 .. Len(order),
             pool' = [g \in Alias |-> IF g \in {order[i] : i \in 1 .. n} THEN << >>
                                      ELSE IF g = b THEN <<d>> ELSE pool[g]]
      PROVE  \E i \in DOMAIN order : order[i] = a /\ \A j \in 1 .. i : pool'[order[j]] = << >>
  <2>1. a # b
    BY <1>2, <1>5, SMTT(60)
  <2>2. pool'[a] # pool[a]
    BY <1>2, Zenon
  <2>3. a \in {order[i] : i \in 1 .. n}
    BY <1>5, <2>1, <2>2, Zenon
  <2>4. PICK i \in 1 .. n : order[i] = a
    BY <2>3, Zenon
  <2>5. i \in DOMAIN order /\ \A j \in 1 .. i : j \in 1 .. n /\ order[j] \in Alias
    BY <1>1
  <2>6. \A j \in 1 .. i : pool'[order[j]] = << >>
    BY <1>5, <2>5, Zenon
  <2> QED
    BY <2>4, <2>5, <2>6, Zenon
<1> QED
  BY <1>3, <1>4, <1>5, OfferShape, Zenon

\* hWitness can rely on the reuse window: a pooled claim whose window is open
\* is given up only to two claims that do not order after it, or with its
\* whole alias, the oldest aliases first.
THEOREM TombstonesAreKept == PoolSpec => TombstonesStay
<1> DEFINE Keeps ==
        \A a \in Alias : \A e \in Members(a) :
          WindowOpen(e, now) /\ e \notin {pool'[a][i] : i \in DOMAIN pool'[a]}
          => \/ \E i \in DOMAIN order :
                   order[i] = a /\ \A j \in 1 .. i : pool'[order[j]] = << >>
             \/ Len(pool'[a]) = 2 /\ \A i \in 1 .. 2 : ~LessOrderKey(e, pool'[a][i])
<1>1. PoolInit => PoolShape
  BY EmptyShape, Zenon DEF PoolInit
<1>2. ASSUME PoolShape, PoolNext PROVE Keeps
  <2>1. UNCHANGED pool => Keeps
    BY Zenon    DEF Members
  <2>2. ASSUME NEW e \in Minted, Offer(e) PROVE Keeps
    <3>1. e \in Carrier
      BY Zenon   DEF Minted
    <3>2. OfferSeen(e, Never, reattests)
      BY <2>2, Zenon DEF Offer
    <3> QED
      BY <1>2, <3>1, <3>2, OfferKeeps, Zenon
  <2>3. ASSUME NEW i, NEW n, NEW t, StoreReAttests(Id[i].alias, i, [node |-> n, ts |-> t]) PROVE Keeps
    BY <2>1, <2>3, Zenon DEF StoreReAttests, index
  <2>4. CASE Sweep
    <3>1. \A a \in Alias : {pool'[a][i] : i \in DOMAIN pool'[a]} = {e \in Members(a) : WindowOpen(e, now)}
      BY <1>2, <2>4, SweepShape, Zenon DEF Sweep
    <3> QED
      BY <3>1, Zenon
  <2>5. CASE Tick
    BY <2>1, <2>5, Zenon DEF Tick, index
  <2> HIDE DEF Keeps
  <2> QED
    BY <1>2, <2>2, <2>3, <2>4, <2>5, Zenon DEF PoolNext
<1>3. PoolShape /\ [PoolNext]_poolVars => [Keeps]_poolVars
  BY <1>2, Zenon
<1> HIDE DEF Keeps
<1>4. PoolSpec => [][Keeps]_poolVars
  BY <1>1, <1>3, PoolStep, PTL DEF PoolSpec
<1> QED
  BY <1>4, PTL DEF TombstonesStay, Keeps

-----------------------------------------------------------------------------
(***************************************************************************)
(* The pool across restarts.                                               *)
(***************************************************************************)

\* No first-seen stamp is in the future.
StampsPast ==
    /\ now \in Nat /\ now # Never
    /\ firstSeen \in [Alias -> [Ident -> Nat]]
    /\ \A a \in Alias, i \in Ident : firstSeen[a][i] <= now

\* What OfferSeen does to the stamps: it gives the identity one if it had none,
\* and the aliases it evicts lose theirs.
LEMMA OfferStamps ==
  ASSUME StampsPast, NEW e \in Carrier, NEW fs \in Nat, NEW atts, OfferSeen(e, fs, atts), now' = now
  PROVE  /\ StampsPast'
         /\ \A a \in Alias, i \in Ident :
               \/ firstSeen'[a][i] \in {Never, firstSeen[a][i]}
               \/ i = IdentOf(e) /\ firstSeen'[a][i] = Stamp(fs)
<1> DEFINE a == AliasOf(e)
           j == IdentOf(e)
           new == IF firstSeen[a][j] # Never THEN firstSeen[a][j] ELSE Stamp(fs)
           seen == [firstSeen EXCEPT ![a][j] = new]
<1>1. j \in Ident /\ a \in Alias
  BY IdAssumption, CarriesAssumption, Zenon DEF AliasOf, IdentOf, CarrierRecord, Identity
<1>2. now \in Nat /\ firstSeen \in [Alias -> [Ident -> Nat]] /\ \A b \in Alias, i \in Ident : firstSeen[b][i] <= now
  BY Zenon   DEF StampsPast
<1>3. Stamp(fs) \in Nat /\ Stamp(fs) <= now
  BY <1>2, SMTT(60) DEF Stamp
<1>4. new \in Nat /\ new <= now /\ (new = firstSeen[a][j] \/ new = Stamp(fs))
  BY <1>1, <1>2, <1>3, Zenon
<1> HIDE DEF new
<1>5. /\ seen \in [Alias -> [Ident -> Nat]]
      /\ \A b \in Alias, i \in Ident : seen[b][i] = IF b = a /\ i = j THEN new ELSE firstSeen[b][i]
  BY <1>1, <1>2, <1>4, Zenon
<1>6. \/ firstSeen' = seen
      \/ \E gone : firstSeen' = [b \in Alias |-> IF b \in gone THEN NoStamps ELSE seen[b]]
  <2>1. seen = [firstSeen EXCEPT ![AliasOf(e)][IdentOf(e)] = IF @ # Never THEN @ ELSE Stamp(fs)]
    BY <1>1, <1>2, Zenon DEF new
  <2> HIDE DEF seen
  <2>2. CASE firstSeen' = seen
    BY <2>2, Zenon
  <2>3. ASSUME NEW P, NEW q, NEW load, EvictOverBudget(P, q, load, seen, atts)
        PROVE  \E gone : firstSeen' = [b \in Alias |-> IF b \in gone THEN NoStamps ELSE seen[b]]
    BY <2>3, Zenon DEF EvictOverBudget
  <2> QED
    BY <2>1, <2>2, <2>3, Zenon DEF OfferSeen
<1> HIDE DEF seen
<1>7. NoStamps \in [Ident -> Nat] /\ \A i \in Ident : NoStamps[i] = Never /\ Never <= now /\ Never \in Nat
  BY <1>2, SMTT(60) DEF NoStamps, Never
<1>8. /\ firstSeen' \in [Alias -> [Ident -> Nat]]
      /\ \A b \in Alias, i \in Ident : firstSeen'[b][i] = Never \/ firstSeen'[b][i] = seen[b][i]
  <2>1. CASE firstSeen' = seen
    BY <1>5, <2>1, Zenon
  <2>2. ASSUME NEW gone, firstSeen' = [b \in Alias |-> IF b \in gone THEN NoStamps ELSE seen[b]]
        PROVE  /\ firstSeen' \in [Alias -> [Ident -> Nat]]
               /\ \A b \in Alias, i \in Ident : firstSeen'[b][i] = Never \/ firstSeen'[b][i] = seen[b][i]
    <3>1. \A b \in Alias : firstSeen'[b] = NoStamps \/ firstSeen'[b] = seen[b]
      BY <2>2, Zenon
    <3>2. \A b \in Alias : firstSeen'[b] \in [Ident -> Nat]
      BY <1>5, <1>7, <3>1, Zenon
    <3>3. firstSeen' \in [Alias -> [Ident -> Nat]]
      BY <2>2, <3>2, Zenon
    <3> QED
      BY <1>7, <3>1, <3>3, Zenon
  <2> QED
    BY <1>6, <2>1, <2>2, Zenon
<1>9. \A b \in Alias, i \in Ident : firstSeen'[b][i] <= now'
  BY <1>2, <1>4, <1>5, <1>7, <1>8, SMTT(60)
<1>10. StampsPast'
  BY <1>8, <1>9, Zenon DEF StampsPast
<1> QED
  BY <1>4, <1>5, <1>8, <1>10, SMTT(60)

\* A save and a reload hold carriers and the stamps of identities, none of
\* them from the future.
DiskTypes ==
    /\ files \subseteq Carrier /\ unsaved \subseteq Carrier
    /\ \A i \in Ident : meta[i].fs \in Nat /\ meta[i].fs <= now
    /\ cursor \in Carrier \cup {-1}

\* The inductive invariant of a pool that is saved and reloaded.
RestartShape == PoolShape /\ StampsPast /\ DiskTypes /\ HoldSurvivesRestart

\* RetainFile reads the next file.
LEMMA NextFile ==
  ASSUME DiskTypes, RetainFile
  PROVE  \E e \in files :
            /\ phase = "loading" /\ e \in Carrier /\ ~(e <= cursor) /\ cursor' = e
            /\ \A f \in files : f <= e => f <= cursor \/ f = e
            /\ IF WorthPooling(e)
               THEN OfferSeen(e, meta[IdentOf(e)].fs,
                        [reattests EXCEPT ![AliasOf(e)][IdentOf(e)] = bindRetainedMeta(@, meta[IdentOf(e)].att)])
               ELSE UNCHANGED <<index, firstSeen, reattests>>
            /\ UNCHANGED <<now, disk, unsaved, phase>>
<1> DEFINE left == {e \in files : e > cursor}
           m == Min(left)
<1>1. left # {} /\ left \subseteq Nat /\ files \subseteq Carrier /\ files \subseteq Nat /\ cursor \in Int
  BY CarriesAssumption DEF RetainFile, DiskTypes
<1>2. PICK x \in left : \A y \in left : x <= y
  BY <1>1, LeastNat, Zenon
<1>3. m \in left /\ \A y \in left : m <= y
  BY <1>2, Zenon DEF Min
<1>4. /\ phase = "loading" /\ cursor' = m
      /\ IF WorthPooling(m)
         THEN OfferSeen(m, meta[IdentOf(m)].fs,
                  [reattests EXCEPT ![AliasOf(m)][IdentOf(m)] = bindRetainedMeta(@, meta[IdentOf(m)].att)])
         ELSE UNCHANGED <<index, firstSeen, reattests>>
      /\ UNCHANGED <<now, disk, unsaved, phase>>
  BY Zenon    DEF RetainFile
<1> HIDE DEF m
<1>5. m \in files /\ m \in Carrier /\ ~(m <= cursor) /\ \A f \in files : f <= m => f <= cursor \/ f = m
  BY <1>1, <1>3
<1> QED
  BY <1>4, <1>5, Zenon

\* PersistFile writes a carrier that is still to be written.
LEMMA WrittenFile ==
  ASSUME unsaved \subseteq Carrier, PersistFile
  PROVE  files' \subseteq files \cup unsaved /\ unsaved' \subseteq unsaved /\ UNCHANGED <<poolVars, meta, phase, cursor>>
<1> DEFINE First(x) == \A y \in unsaved : AliasOf(x) < AliasOf(y) \/ (AliasOf(x) = AliasOf(y) /\ x <= y)
           e == CHOOSE x \in unsaved : First(x)
           A == {AliasOf(x) : x \in unsaved}
<1>1. files' = files \cup {e} /\ unsaved' = unsaved \ {e} /\ unsaved # {} /\ UNCHANGED <<poolVars, meta, phase, cursor>>
  BY Zenon    DEF PersistFile
<1>2. unsaved \subseteq Nat /\ A \subseteq Nat /\ \A x \in unsaved : AliasOf(x) \in Nat
  BY IdAssumption, CarriesAssumption, AliasAssumption, Zenon DEF AliasOf, CarrierRecord, Identity
<1>3. PICK a \in A : \A b \in A : a <= b
  BY <1>1, <1>2, LeastNat, Zenon
<1> DEFINE B == {x \in unsaved : AliasOf(x) = a}
<1>4. B # {} /\ B \subseteq Nat
  BY <1>2, <1>3, Zenon
<1>5. PICK x \in B : \A y \in B : x <= y
  BY <1>4, LeastNat, Zenon
<1>6. x \in unsaved /\ First(x)
  <2>1. ASSUME NEW y \in unsaved PROVE AliasOf(x) < AliasOf(y) \/ (AliasOf(x) = AliasOf(y) /\ x <= y)
    <3>1. a <= AliasOf(y) /\ AliasOf(x) = a /\ a \in Nat /\ AliasOf(y) \in Nat
      BY <1>2, <1>3, <1>5, Zenon
    <3>2. AliasOf(y) = a => x <= y
      BY <1>5, Zenon
    <3> QED
      BY <3>1, <3>2
  <2> QED
    BY <1>5, <2>1, Zenon
<1> HIDE DEF First
<1>7. e \in unsaved
  BY <1>6, Zenon
<1> QED
  BY <1>1, <1>7, Zenon

\* A node that starts for the first time.
LEMMA RestartStart == PoolRestartInit => RestartShape
<1> SUFFICES ASSUME PoolRestartInit PROVE RestartShape
  BY Zenon
<1>1. PoolShape
  BY EmptyShape, Zenon DEF PoolRestartInit, PoolInit
<1>2. StampsPast
  BY SMTT(60)  DEF PoolRestartInit, PoolInit, NoFirstSeen, NoStamps, Never, StampsPast
<1>3. DiskTypes /\ HoldSurvivesRestart
  BY DEF PoolRestartInit, PoolInit, NoMeta, Never, DiskTypes, HoldSurvivesRestart
<1> QED
  BY <1>1, <1>2, <1>3, Zenon DEF RestartShape

\* A step of the running node, or of the save, that writes no file.
LEMMA RunningStep ==
  ASSUME RestartShape, PoolShape', StampsPast', Serving, phase' # "loading", now <= now',
         unsaved' \subseteq Carrier, UNCHANGED <<disk, cursor>>
  PROVE  RestartShape'
<1>1. now \in Nat /\ now' \in Nat
  BY Zenon   DEF RestartShape, StampsPast
<1>2. DiskTypes'
  BY <1>1, SMTT(60) DEF RestartShape, DiskTypes, disk
<1>3. HoldSurvivesRestart'
  BY Zenon   DEF HoldSurvivesRestart
<1> QED
  BY <1>2, <1>3, Zenon DEF RestartShape

\* Serving, saving, crashing and reloading all keep it.
LEMMA RestartStep == RestartShape /\ [PoolRestartNext]_restartVars => RestartShape'
<1> SUFFICES ASSUME RestartShape, [PoolRestartNext]_restartVars PROVE RestartShape'
  BY Zenon
<1>0. PoolShape /\ StampsPast /\ DiskTypes /\ HoldSurvivesRestart
  BY Zenon   DEF RestartShape
<1>n. now \in Nat /\ now <= now
  BY <1>0 DEF StampsPast
<1>s. UNCHANGED <<now, firstSeen>> => StampsPast'
  BY <1>0, Zenon DEF StampsPast
<1>1. CASE Serve
  <2>1. Serving /\ UNCHANGED <<disk, unsaved, phase, cursor>>
    BY <1>1, Zenon DEF Serve
  <2>2. ASSUME NEW e \in Minted, Offer(e) PROVE PoolShape' /\ StampsPast' /\ now' = now
    <3>1. e \in Carrier /\ Never \in Nat
      BY Zenon   DEF Minted, Never
    <3>2. OfferSeen(e, Never, reattests) /\ now' = now
      BY <2>2, Zenon DEF Offer
    <3> QED
      BY <1>0, <3>1, <3>2, OfferShape, OfferStamps, Zenon
  <2>3. ASSUME NEW i, NEW n, StoreReAttests(Id[i].alias, i, [node |-> n, ts |-> now])
        PROVE  PoolShape' /\ StampsPast' /\ now' = now
    BY <1>0, <1>s, <2>3, SameShape, Zenon DEF StoreReAttests, index
  <2>4. PoolShape' /\ StampsPast' /\ now' = now
    BY <1>1, <2>2, <2>3, Zenon DEF Serve
  <2>5. unsaved' \subseteq Carrier /\ phase' # "loading" /\ UNCHANGED <<disk, cursor>>
    BY <1>0, <2>1, Zenon DEF DiskTypes, Serving
  <2> QED
    BY <1>n, <2>1, <2>4, <2>5, RunningStep, Zenon
<1>2. CASE Pass
  <2>1. now' = now + 1 /\ UNCHANGED <<pool, order, firstSeen, files, meta, unsaved, phase, cursor>>
    BY <1>2, Zenon DEF Pass, Tick, index, disk
  <2>2. PoolShape'
    BY <1>0, <2>1, SameShape, Zenon
  <2>3. StampsPast'
    BY <1>0, <2>1, SMTT(60) DEF StampsPast, Never
  <2>4. DiskTypes'
    BY <1>0, <1>n, <2>1, SMTT(60) DEF DiskTypes
  <2>5. HoldSurvivesRestart'
    BY <1>0, <2>1, Zenon DEF HoldSurvivesRestart
  <2> QED
    BY <2>2, <2>3, <2>4, <2>5, Zenon DEF RestartShape
<1>3. CASE PersistBegin
  <2>1. /\ Serving /\ SweepEffect /\ phase' # "loading" /\ UNCHANGED <<now, disk, cursor>>
        /\ unsaved' = UNION {{pool'[a][i] : i \in DOMAIN pool'[a]} : a \in Alias}
    BY <1>3, Zenon DEF PersistBegin, Serving
  <2>2. PoolShape'
    BY <1>0, <2>1, SweepShape, Zenon
  <2>3. unsaved' \subseteq Carrier
    <3>1. \A a \in Alias : {pool'[a][i] : i \in DOMAIN pool'[a]} \subseteq Carrier
      BY <2>2, SMTT(60) DEF PoolShape
    <3> QED
      BY <2>1, <3>1, Zenon
  <2>4. StampsPast'
    <3>1. firstSeen' = [a \in Alias |-> [i \in Ident |->
             IF pool[a] # << >> /\ i \notin KeptIdents(a) THEN Never ELSE firstSeen[a][i]]]
      BY <2>1, Zenon DEF SweepEffect
    <3>2. Never \in Nat /\ Never <= now
      BY <1>n, SMTT(60) DEF Never
    <3>3. \A a \in Alias, i \in Ident : firstSeen[a][i] \in Nat /\ firstSeen[a][i] <= now
      BY <1>0, Zenon DEF StampsPast
    <3>4. firstSeen' \in [Alias -> [Ident -> Nat]]
      BY <3>1, <3>2, <3>3, Zenon
    <3>5. \A a \in Alias, i \in Ident : firstSeen'[a][i] = Never \/ firstSeen'[a][i] = firstSeen[a][i]
      BY <3>1, Zenon
    <3>6. \A a \in Alias, i \in Ident : firstSeen'[a][i] <= now
      BY <3>2, <3>3, <3>5, Zenon
    <3> QED
      BY <1>0, <2>1, <3>4, <3>6, Zenon DEF StampsPast
  <2>5. now <= now' /\ UNCHANGED <<disk, cursor>>
    BY <1>n, <2>1, Zenon
  <2> QED
    BY <2>1, <2>2, <2>3, <2>4, <2>5, RunningStep, Zenon
<1>4. CASE PersistFile
  <2>1. files' \subseteq files \cup unsaved /\ unsaved' \subseteq unsaved /\ UNCHANGED <<poolVars, meta, phase, cursor>>
    BY <1>0, <1>4, WrittenFile, Zenon DEF DiskTypes
  <2>2. UNCHANGED <<now, pool, order, firstSeen>>
    BY <2>1, Zenon DEF poolVars, index
  <2>3. DiskTypes' /\ HoldSurvivesRestart'
    BY <1>0, <2>1, <2>2, Zenon DEF DiskTypes, HoldSurvivesRestart
  <2> QED
    BY <1>0, <1>s, <2>2, <2>3, SameShape, Zenon DEF RestartShape
<1>5. CASE PersistMeta
  <2>1. /\ UNCHANGED <<now, pool, order, firstSeen, files, unsaved, cursor>> /\ phase' = "serving"
        /\ meta' = [i \in Ident |->
              IF firstSeen[Id[i].alias][i] = Never THEN NoMeta[i]
              ELSE [fs |-> firstSeen[Id[i].alias][i], att |-> reattests[Id[i].alias][i]]]
    BY <1>5, Zenon DEF PersistMeta, poolVars, index
  <2>2. \A i \in Ident : meta'[i].fs = firstSeen[Id[i].alias][i]
    <3> SUFFICES ASSUME NEW i \in Ident PROVE meta'[i].fs = firstSeen[Id[i].alias][i]
      BY Zenon
    <3>1. NoMeta[i].fs = Never
      BY Zenon   DEF NoMeta
    <3>2. meta'[i] = IF firstSeen[Id[i].alias][i] = Never THEN NoMeta[i]
                     ELSE [fs |-> firstSeen[Id[i].alias][i], att |-> reattests[Id[i].alias][i]]
      BY <2>1, Zenon
    <3> QED
      BY <3>1, <3>2, SMTT(60)
  <2>3. \A i \in Ident : Id[i].alias \in Alias
    BY IdAssumption, Zenon DEF Identity
  <2>4. DiskTypes'
    BY <1>0, <2>1, <2>2, <2>3 DEF DiskTypes, StampsPast
  <2>5. HoldSurvivesRestart'
    BY <2>1, Zenon DEF HoldSurvivesRestart
  <2> QED
    BY <1>0, <1>s, <2>1, <2>4, <2>5, SameShape, Zenon DEF RestartShape
<1>6. CASE Crash
  <2>1. /\ pool' = NoPool /\ order' = << >> /\ firstSeen' = NoFirstSeen /\ unsaved' = {} /\ cursor' = -1
        /\ UNCHANGED <<now, files, meta>>
    BY <1>6, Zenon DEF Crash, disk
  <2>2. \A a \in Alias, i \in Ident : firstSeen'[a][i] = Never
    BY <2>1, Zenon DEF NoFirstSeen, NoStamps
  <2>3. StampsPast'
    BY <1>0, <2>1, SMTT(60) DEF StampsPast, NoFirstSeen, NoStamps, Never
  <2>4. DiskTypes'
    BY <1>0, <2>1, Zenon DEF DiskTypes
  <2>5. HoldSurvivesRestart'
    <3>1. \A i \in Ident : Id[i].alias \in Alias
      BY IdAssumption, Zenon DEF Identity
    <3> QED
      BY <2>2, <3>1, Zenon DEF HoldSurvivesRestart
  <2> QED
    BY <2>1, <2>3, <2>4, <2>5, EmptyShape, Zenon DEF RestartShape
<1>7. CASE RetainFile
  <2>1. PICK e \in files :
            /\ phase = "loading" /\ e \in Carrier /\ cursor' = e
            /\ IF WorthPooling(e)
               THEN OfferSeen(e, meta[IdentOf(e)].fs,
                        [reattests EXCEPT ![AliasOf(e)][IdentOf(e)] = bindRetainedMeta(@, meta[IdentOf(e)].att)])
               ELSE UNCHANGED <<index, firstSeen, reattests>>
            /\ UNCHANGED <<now, disk, unsaved, phase>>
    BY <1>0, <1>7, NextFile, Zenon
  <2>2. DiskTypes'
    BY <1>0, <2>1, Zenon DEF DiskTypes, disk
  <2>3. CASE ~WorthPooling(e)
    <3>1. UNCHANGED <<pool, order, firstSeen, now, meta, phase>>
      BY <2>1, <2>3, Zenon DEF index, disk
    <3>2. HoldSurvivesRestart'
      BY <1>0, <3>1, Zenon DEF HoldSurvivesRestart
    <3> QED
      BY <1>0, <1>s, <2>2, <3>1, <3>2, SameShape, Zenon DEF RestartShape
  <2>4. ASSUME NEW atts, OfferSeen(e, meta[IdentOf(e)].fs, atts) PROVE RestartShape'
    <3> DEFINE fs == meta[IdentOf(e)].fs
    <3>1. fs \in Nat /\ fs <= now /\ IdentOf(e) \in Ident
      BY <1>0, <2>1, CarriesAssumption, Zenon DEF DiskTypes, IdentOf, CarrierRecord
    <3>2. Stamp(fs) = IF fs = Never THEN now ELSE fs
      BY <1>n, <3>1, SMTT(60) DEF Stamp
    <3>3. now' = now /\ meta' = meta
      BY <2>1, Zenon DEF disk
    <3> HIDE DEF fs
    <3>4. /\ StampsPast'
          /\ \A a \in Alias, i \in Ident :
               \/ firstSeen'[a][i] \in {Never, firstSeen[a][i]}
               \/ i = IdentOf(e) /\ firstSeen'[a][i] = Stamp(fs)
      BY <1>0, <2>1, <2>4, <3>1, <3>3, OfferStamps, Zenon DEF fs
    <3>5. HoldSurvivesRestart'
      <4> SUFFICES ASSUME NEW i \in Ident, firstSeen'[Id[i].alias][i] # Never, meta[i].fs # Never
                   PROVE  firstSeen'[Id[i].alias][i] = meta[i].fs
        BY <3>3, Zenon DEF HoldSurvivesRestart
      <4>1. Id[i].alias \in Alias
        BY IdAssumption, Zenon DEF Identity
      <4>2. CASE firstSeen'[Id[i].alias][i] = firstSeen[Id[i].alias][i]
        BY <1>0, <2>1, <4>2, Zenon DEF HoldSurvivesRestart
      <4>3. CASE i = IdentOf(e) /\ firstSeen'[Id[i].alias][i] = Stamp(fs)
        <5>1. fs = meta[i].fs
          BY <4>3, Zenon DEF fs
        <5> QED
          BY <3>2, <4>3, <5>1, Zenon
      <4> QED
        BY <3>4, <4>1, <4>2, <4>3, Zenon
    <3>6. PoolShape'
      BY <1>0, <2>1, <2>4, OfferShape, Zenon
    <3> QED
      BY <2>2, <3>4, <3>5, <3>6, Zenon DEF RestartShape
  <2> QED
    BY <2>1, <2>3, <2>4, Zenon
<1>8. CASE RetainDone
  <2>1. UNCHANGED <<now, pool, order, firstSeen, files, meta, unsaved>> /\ phase' = "serving" /\ cursor' = -1
    BY <1>8, Zenon DEF RetainDone, poolVars, index, disk
  <2>2. DiskTypes' /\ HoldSurvivesRestart'
    BY <1>0, <2>1, Zenon DEF DiskTypes, HoldSurvivesRestart
  <2> QED
    BY <1>0, <1>s, <2>1, <2>2, SameShape, Zenon DEF RestartShape
<1>9. CASE UNCHANGED restartVars
  <2>1. UNCHANGED <<now, pool, order, firstSeen, files, meta, unsaved, phase, cursor>>
    BY <1>9, Zenon DEF restartVars, poolVars, index, disk
  <2>2. DiskTypes' /\ HoldSurvivesRestart'
    BY <1>0, <2>1, Zenon DEF DiskTypes, HoldSurvivesRestart
  <2> QED
    BY <1>0, <1>s, <2>1, <2>2, SameShape, Zenon DEF RestartShape
<1> QED
  BY <1>1, <1>2, <1>3, <1>4, <1>5, <1>6, <1>7, <1>8, <1>9, Zenon DEF PoolRestartNext

\* A crash anywhere in a save, and the reload after it, leave the pool and its
\* queue exact.
THEOREM ReloadStaysExact == PoolRestartSpec => []PoolExact
<1>1. RestartShape => PoolExact
  BY ShapeExact, Zenon DEF RestartShape
<1> QED
  BY <1>1, RestartStart, RestartStep, PTL DEF PoolRestartSpec

\* A restart never re-arms the holding period of a re-attestation: whatever the
\* order of the files, an identity comes back with the stamp that was saved.
THEOREM HoldSurvives == PoolRestartSpec => []HoldSurvivesRestart
<1>1. RestartShape => HoldSurvivesRestart
  BY Zenon   DEF RestartShape
<1> QED
  BY <1>1, RestartStart, RestartStep, PTL DEF PoolRestartSpec

\* The pool has e, or its alias has two claims that do not order after it.
Represented(e) ==
    \/ e \in Members(AliasOf(e))
    \/ Len(pool[AliasOf(e)]) = 2 /\ \A d \in Members(AliasOf(e)) : ~LessOrderKey(e, d)

\* Every file read so far whose reuse window is open is represented.
ReadSoFar ==
    phase = "loading" =>
        \A e \in files : e <= cursor /\ WindowOpen(e, now) => Represented(e)

\* The reload evicts no alias, as when the pool is within its budgets.
NothingEvicted ==
    phase = "loading" => \A a \in Alias : pool[a] # << >> => pool'[a] # << >>

\* A claim that is represented stays so when another one is offered.
LEMMA OfferRepresents ==
  ASSUME PoolShape, NEW d \in Carrier, NEW fs, NEW atts, OfferSeen(d, fs, atts),
         \A a \in Alias : pool[a] # << >> => pool'[a] # << >>,
         NEW e \in Carrier, Represented(e)
  PROVE  Represented(e)'
<1> DEFINE a == AliasOf(e)
           b == AliasOf(d)
           new == {pool'[a][i] : i \in DOMAIN pool'[a]}
<1>1. /\ a \in Alias /\ b \in Alias /\ PoolShape' /\ TopTwo(pool[a], a) /\ pool \in [Alias -> Seq(Carrier)]
      /\ (\A g \in Alias : pool[g] # << >> <=> Lists(order, g))
  BY OfferShape, IdAssumption, CarriesAssumption, Zenon DEF PoolShape, Queues, AliasOf, CarrierRecord, Identity
<1>2. Len(pool'[a]) \in 0 .. 2 /\ DOMAIN pool'[a] = 1 .. Len(pool'[a])
  BY <1>1, ShortLen, Zenon DEF PoolShape, TopTwo
<1>3. SUFFICES e \in new \/ (Len(pool'[a]) = 2 /\ \A f \in new : ~LessOrderKey(e, f))
  BY Zenon   DEF Represented, Members
<1>4. CASE e \in Members(a)
  <2> SUFFICES ASSUME e \notin new PROVE Len(pool'[a]) = 2 /\ \A f \in new : ~LessOrderKey(e, f)
    BY Zenon
  <2>1. \/ \E i \in DOMAIN order : order[i] = a /\ \A j \in 1 .. i : pool'[order[j]] = << >>
        \/ Len(pool'[a]) = 2 /\ \A i \in 1 .. 2 : ~LessOrderKey(e, pool'[a][i])
    BY <1>1, <1>4, OfferKeeps, Zenon
  <2>2. pool[a] # << >>
    BY <1>4, SMTT(60) DEF Members
  <2>3. ASSUME NEW i \in DOMAIN order, order[i] = a, \A j \in 1 .. i : pool'[order[j]] = << >> PROVE FALSE
    <3>1. i \in 1 .. i
      <4>1. order \in Seq(Alias)
        BY Zenon   DEF PoolShape, Queues
      <4>2. DOMAIN order = 1 .. Len(order) /\ Len(order) \in Nat
        BY <4>1, LenProperties, Zenon
      <4> QED
        BY <4>2, SMTT(60)
    <3>2. pool'[a] = << >>
      BY <2>3, <3>1, Zenon
    <3> QED
      BY <1>1, <2>2, <3>2, Zenon
  <2> QED
    BY <1>2, <2>1, <2>3, Zenon
<1>5. CASE Len(pool[a]) = 2 /\ \A f \in Members(a) : ~LessOrderKey(e, f)
  <2>0. pool[a] # << >> /\ pool'[a] # << >>
    <3>1. Len(<< >>) # 2
      OBVIOUS
    <3>2. pool[a] # << >>
      BY <1>5, <3>1, Zenon
    <3> QED
      BY <1>1, <3>2, Zenon
  <2>1. CASE pool'[a] = pool[a]
    BY <1>5, <2>1, Zenon DEF Members
  <2>2. CASE ~NotWanted(pool[b], d) /\ pool[b] # << >> /\ pool' = [pool EXCEPT ![b] = Ranked(pool[b], d)]
    <3>1. CASE a # b
      BY <1>1, <2>1, <2>2, <3>1, Zenon
    <3>2. CASE a = b
      <4> DEFINE cur == pool[a]
      <4>1. cur[1] \in Members(a) /\ cur[2] \in Members(a)
        BY <1>1, <1>5 DEF Members, TopTwo
      <4>2. /\ cur[1] \in Carrier /\ cur[2] \in Carrier /\ LessOrderKey(d, cur[2])
            /\ Ranked(cur, d) = IF LessOrderKey(d, cur[1]) THEN <<d, cur[1]>> ELSE <<cur[1], d>>
        BY <1>1, <1>5, <2>2, <3>2, RankedIs, SMTT(60)
      <4>3. pool'[a] = Ranked(cur, d)
        BY <1>1, <2>2, <3>2, Zenon
      <4>4. ~LessOrderKey(e, cur[1]) /\ ~LessOrderKey(e, cur[2])
        BY <1>5, <4>1, Zenon
      <4>5. ~LessOrderKey(e, d)
        BY <4>2, <4>4, OrderKeys, Zenon
      <4> HIDE DEF cur
      <4>6. pool'[a] = <<d, cur[1]>> \/ pool'[a] = <<cur[1], d>>
        BY <4>2, <4>3, Zenon
      <4>7. Len(pool'[a]) = 2 /\ (new = {d, cur[1]} \/ new = {cur[1], d})
        <5>1. CASE pool'[a] = <<d, cur[1]>>
          <6>1. Len(<<d, cur[1]>>) = 2 /\ {<<d, cur[1]>>[i] : i \in DOMAIN <<d, cur[1]>>} = {d, cur[1]}
            BY ShortSeqs, Zenon
          <6> QED
            BY <5>1, <6>1, Zenon
        <5>2. CASE pool'[a] = <<cur[1], d>>
          <6>1. Len(<<cur[1], d>>) = 2 /\ {<<cur[1], d>>[i] : i \in DOMAIN <<cur[1], d>>} = {cur[1], d}
            BY ShortSeqs, Zenon
          <6> QED
            BY <5>2, <6>1, Zenon
        <5> QED
          BY <4>6, <5>1, <5>2, Zenon
      <4> QED
        BY <4>4, <4>5, <4>7, Zenon
    <3> QED
      BY <3>1, <3>2, Zenon
  <2>3. ASSUME pool[b] = << >>, NEW n \in 0 .. Len(order),
               pool' = [g \in Alias |-> IF g \in {order[i] : i \in 1 .. n} THEN << >>
                                        ELSE IF g = b THEN <<d>> ELSE pool[g]]
        PROVE  pool'[a] = pool[a]
    <3>1. a # b
      BY <2>0, <2>3, Zenon
    <3>2. pool'[a] = IF a \in {order[i] : i \in 1 .. n} THEN << >> ELSE IF a = b THEN <<d>> ELSE pool[a]
      BY <1>1, <2>3, Zenon
    <3> QED
      BY <2>0, <3>1, <3>2, Zenon
  <2> QED
    BY <2>1, <2>2, <2>3, OfferShape, Zenon
<1> QED
  BY <1>4, <1>5, Zenon DEF Represented

\* A claim that is offered is represented.
LEMMA OfferedIsRepresented ==
  ASSUME PoolShape, NEW e \in Carrier, NEW fs, NEW atts, OfferSeen(e, fs, atts)
  PROVE  Represented(e)'
<1> DEFINE a == AliasOf(e)
           cur == pool[a]
           new == {pool'[a][i] : i \in DOMAIN pool'[a]}
<1>1. /\ a \in Alias /\ PoolShape' /\ TopTwo(cur, a) /\ pool \in [Alias -> Seq(Carrier)]
      /\ (\A g \in Alias : pool[g] # << >> <=> Lists(order, g))
  BY OfferShape, IdAssumption, CarriesAssumption, Zenon DEF PoolShape, Queues, AliasOf, CarrierRecord, Identity
<1>2. SUFFICES e \in new \/ (Len(pool'[a]) = 2 /\ \A f \in new : ~LessOrderKey(e, f))
  BY Zenon   DEF Represented, Members
<1>3. CASE NotWanted(cur, e) /\ UNCHANGED <<pool, order>>
  <2>1. CASE \E i \in DOMAIN cur : cur[i] = e
    BY <1>3, <2>1, Zenon
  <2>2. CASE Len(cur) = 2 /\ ~LessOrderKey(e, cur[2])
    <3>1. cur[1] \in Carrier /\ cur[2] \in Carrier /\ ~LessOrderKey(cur[2], cur[1]) /\ DOMAIN cur = 1 .. 2
      <4>1. cur \in Seq(Carrier) /\ ~LessOrderKey(cur[2], cur[1])
        BY <1>1, <2>2, Zenon DEF TopTwo
      <4>2. DOMAIN cur = 1 .. Len(cur) /\ \A i \in 1 .. Len(cur) : cur[i] \in Carrier
        BY <4>1, LenProperties, Zenon
      <4> QED
        BY <2>2, <4>1, <4>2, SMTT(60)
    <3>2. ~LessOrderKey(e, cur[1])
      BY <2>2, <3>1, OrderKeys, Zenon
    <3> QED
      BY <1>3, <2>2, <3>1, <3>2, SMTT(60)
  <2> QED
    BY <1>3, <2>1, <2>2, Zenon DEF NotWanted
<1>4. CASE ~NotWanted(cur, e) /\ cur # << >> /\ pool' = [pool EXCEPT ![a] = Ranked(cur, e)]
  <2>1. Ranked(cur, e) = IF LessOrderKey(e, cur[1]) THEN <<e, cur[1]>> ELSE <<cur[1], e>>
    BY <1>1, <1>4, RankedIs, SMTT(60)
  <2>2. pool'[a] = Ranked(cur, e)
    BY <1>1, <1>4, Zenon
  <2>3. pool'[a] = <<e, cur[1]>> \/ pool'[a] = <<cur[1], e>>
    BY <2>1, <2>2, Zenon
  <2> HIDE DEF cur
  <2>4. new = {e, cur[1]}
    BY <2>3, SMTT(60)
  <2> QED
    BY <2>4, Zenon
<1>5. ASSUME cur = << >>, NEW n \in 0 .. Len(order),
             pool' = [g \in Alias |-> IF g \in {order[i] : i \in 1 .. n} THEN << >>
                                      ELSE IF g = a THEN <<e>> ELSE pool[g]]
      PROVE  e \in new
  <2>1. a \notin {order[i] : i \in 1 .. n}
    <3>1. ~Lists(order, a)
      BY <1>1, <1>5, Zenon
    <3>2. \A i \in 1 .. n : i \in DOMAIN order
      <4>1. order \in Seq(Alias)
        BY Zenon   DEF PoolShape, Queues
      <4>2. DOMAIN order = 1 .. Len(order) /\ Len(order) \in Nat
        BY <4>1, LenProperties, Zenon
      <4> QED
        BY <4>2, SMTT(60)
    <3> QED
      BY <3>1, <3>2, Zenon DEF Lists
  <2>2. pool'[a] = <<e>>
    BY <1>1, <1>5, <2>1, Zenon
  <2> QED
    BY <2>2
<1> QED
  BY <1>3, <1>4, <1>5, OfferShape, Zenon

\* What has been read stays represented, and so is the file read next.
LEMMA ReadStep == RestartShape /\ ReadSoFar /\ [PoolRestartNext]_restartVars /\ [NothingEvicted]_restartVars => ReadSoFar'
<1> SUFFICES ASSUME RestartShape, ReadSoFar, [PoolRestartNext]_restartVars, [NothingEvicted]_restartVars,
                    phase' = "loading", NEW e \in files', e <= cursor', WindowOpen(e, now)'
             PROVE  Represented(e)'
  BY Zenon   DEF ReadSoFar
<1>0. PoolShape /\ DiskTypes /\ now \in Nat /\ files \subseteq Carrier
  BY Zenon   DEF RestartShape, StampsPast, DiskTypes
<1>s. ASSUME phase = "loading", UNCHANGED <<pool, files, cursor>>, WindowOpen(e, now) PROVE Represented(e)'
  BY <1>s, Zenon DEF ReadSoFar, Represented, Members
<1>1. CASE Serve
  BY <1>1, Zenon DEF Serve, Serving
<1>2. CASE Pass
  <2>1. now' = now + 1 /\ UNCHANGED <<pool, files, phase, cursor>>
    BY <1>2, Zenon DEF Pass, Tick, index, disk
  <2>2. Carries[e].expires \in Nat
    BY <1>0, <2>1, CarriesAssumption, Zenon DEF CarrierRecord
  <2>3. WindowOpen(e, now)
    BY <1>0, <2>1, <2>2, PoolBudgetAssumption, SMTT(60) DEF WindowOpen
  <2> QED
    BY <1>s, <2>1, <2>3, Zenon
<1>3. CASE PersistBegin
  BY <1>3, Zenon DEF PersistBegin
<1>4. CASE PersistFile
  BY <1>4, Zenon DEF PersistFile
<1>5. CASE PersistMeta
  BY <1>5, Zenon DEF PersistMeta
<1>6. CASE Crash
  <2>1. cursor' = -1 /\ files' = files
    BY <1>6, Zenon DEF Crash, disk
  <2>2. e \in Nat
    BY <1>0, <2>1, CarriesAssumption, Zenon
  <2> QED
    BY <2>1, <2>2, SMTT(60)
<1>7. CASE RetainFile
  <2>1. PICK f \in files :
            /\ phase = "loading" /\ f \in Carrier /\ ~(f <= cursor) /\ cursor' = f
            /\ \A g \in files : g <= f => g <= cursor \/ g = f
            /\ IF WorthPooling(f)
               THEN OfferSeen(f, meta[IdentOf(f)].fs,
                        [reattests EXCEPT ![AliasOf(f)][IdentOf(f)] = bindRetainedMeta(@, meta[IdentOf(f)].att)])
               ELSE UNCHANGED <<index, firstSeen, reattests>>
            /\ UNCHANGED <<now, disk, unsaved, phase>>
    BY <1>0, <1>7, NextFile, Zenon
  <2>2. e \in files /\ e \in Carrier /\ WindowOpen(e, now) /\ (e <= cursor \/ e = f)
    BY <1>0, <2>1, Zenon DEF disk, WindowOpen
  <2>3. cursor' # cursor
    <3>1. f \in Nat
      BY <1>0, CarriesAssumption, Zenon
    <3> QED
      BY <2>1, <3>1, SMTT(60)
  <2>4. NothingEvicted
    <3>1. restartVars' # restartVars
      BY <2>3, Zenon DEF restartVars
    <3> QED
      BY <3>1, Zenon
  <2>5. e <= cursor => Represented(e)
    BY <2>1, <2>2, Zenon DEF ReadSoFar
  <2>6. CASE ~WorthPooling(f)
    <3>1. e # f
      BY <2>2, <2>6, Zenon DEF WorthPooling
    <3>2. UNCHANGED pool
      BY <2>1, <2>6, Zenon DEF index
    <3> QED
      BY <2>2, <2>5, <3>1, <3>2, Zenon DEF Represented, Members
  <2>7. ASSUME NEW atts, OfferSeen(f, meta[IdentOf(f)].fs, atts) PROVE Represented(e)'
    <3>1. \A a \in Alias : pool[a] # << >> => pool'[a] # << >>
      BY <2>1, <2>4, Zenon DEF NothingEvicted
    <3>2. CASE e = f
      <4>1. Represented(f)'
        BY <1>0, <2>1, <2>7, OfferedIsRepresented, Zenon
      <4> QED
        BY <3>2, <4>1, Zenon
    <3>3. CASE e <= cursor
      <4>1. Represented(e)
        BY <2>5, <3>3, Zenon
      <4> QED
        BY <1>0, <2>1, <2>2, <2>7, <3>1, <4>1, OfferRepresents, Zenon
    <3> QED
      BY <2>2, <3>2, <3>3, Zenon
  <2> QED
    BY <2>1, <2>6, <2>7, Zenon
<1>8. CASE RetainDone
  BY <1>8, Zenon DEF RetainDone
<1>9. CASE UNCHANGED restartVars
  <2>1. UNCHANGED <<now, pool, files, phase, cursor>>
    BY <1>9, Zenon DEF restartVars, poolVars, index, disk
  <2> QED
    BY <1>s, <2>1, Zenon DEF WindowOpen
<1> QED
  BY <1>1, <1>2, <1>3, <1>4, <1>5, <1>6, <1>7, <1>8, <1>9, Zenon DEF PoolRestartNext

\* RetainClaimPool brings back every saved claim whose reuse window is open, or
\* two that do not order after it, whatever the order of the files, as long as
\* the reload itself evicts no alias for budget.
THEOREM ReloadBringsBack ==
    PoolRestartSpec /\ [][NothingEvicted]_restartVars => []ReloadKeepsTop2
<1>1. PoolRestartInit => ReadSoFar
  BY Zenon   DEF PoolRestartInit, ReadSoFar
<1>2. ReadSoFar => ReloadKeepsTop2
  BY Zenon   DEF ReadSoFar, ReloadKeepsTop2, Represented
<1> QED
  BY <1>1, <1>2, RestartStart, RestartStep, ReadStep, PTL DEF PoolRestartSpec

=============================================================================
