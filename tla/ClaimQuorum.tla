---------------------------- MODULE ClaimQuorum ----------------------------
(***************************************************************************)
(* How a verifier counts a claim's witnesses and orders competing claims:  *)
(* internal/claims.  A claimant attaches attestations to its claim in the  *)
(* order it chooses; a verifier evaluates at most MaxEvaluations of them.  *)
(*                                                                         *)
(* An attestation's signature over the claim's identity is one bit (sig),  *)
(* its node id being bound to its key another part of the same bit; hashes *)
(* are numbers.  Competing claims arrive at a verifier in any order.       *)
(***************************************************************************)
EXTENDS Integers, Sequences, FiniteSets, TLC

CONSTANTS
    WitnessNode,     \* node ids
    WitnessSet,      \* the converged witness set, or Unenforced
    Unenforced,
    Quorum,          \* W
    MaxEvaluations,  \* maxWitnessEvaluations
    Skew, PresentWindow, FreshnessWindow,
    Stamps,          \* the instants witnesses date their attestations at
    ClaimTs,         \* the claim's asserted timestamp
    Rival,           \* competing claims: records [ts, pow, tld, valid]
    MaxSheet         \* bound: attestations attached

ASSUME QuorumAssumption ==
    /\ {Quorum, MaxEvaluations, Skew, PresentWindow, FreshnessWindow, ClaimTs} \subseteq Nat
    /\ Stamps \subseteq Nat

Attestation == [node : WitnessNode, ts : Stamps, sig : BOOLEAN]

VARIABLES
    sheet,  \* the claim's witnesses, in the claimant's order
    heard,  \* competing claims in the order a verifier collected them
    today   \* the verifier's clock

quorumVars == <<sheet, heard, today>>

QuorumTypeOK ==
    /\ sheet \in Seq(Attestation) /\ Len(sheet) <= MaxSheet
    /\ heard \in Seq(Rival)
    /\ \A i, j \in DOMAIN heard : heard[i] = heard[j] => i = j
    /\ today \in Stamps

QuorumInit == sheet = << >> /\ heard = << >> /\ today = ClaimTs

-----------------------------------------------------------------------------
Elems(s) == {s[i] : i \in DOMAIN s}
Counts(set, n) == set = Unenforced \/ n \in set

\* The first attestation of every node.
FirstOfNode(s) == {i \in DOMAIN s : \A j \in 1 .. i - 1 : s[j].node # s[i].node}

\* validWitnessesFromPrefixHash: deduplicated, cut at the cap, then verified.
ValidWitnesses(s) ==
    LET firsts == FirstOfNode(s)
        cut    == {i \in firsts : Cardinality({j \in firsts : j < i}) < MaxEvaluations}
    IN  {s[i] : i \in {j \in cut : s[j].sig}}

\* Fault: only the upper end of the band is checked.
CorroboratingOpen(s) ==
    {w \in ValidWitnesses(s) : w.ts <= ClaimTs + PresentWindow + Skew}

\* The corroboration band around the asserted timestamp.
Corroborating(s) ==
    {w \in ValidWitnesses(s) :
        ClaimTs - Skew <= w.ts /\ w.ts <= ClaimTs + PresentWindow + Skew}

HasQuorum(s, set) ==
    Cardinality({w.node : w \in {v \in Corroborating(s) : Counts(set, v.node)}}) >= Quorum

\* The freshness band around the verifier's clock.
Dated(w) == today - FreshnessWindow <= w.ts /\ w.ts <= today + Skew

\* FreshAttestations, after the first i of the sheet: a node is a duplicate once
\* one of its attestations was accepted; each other one costs an evaluation,
\* until the cap.
freshScan[i \in 0 .. Len(sheet)] ==
    IF i = 0 THEN [n |-> 0, out |-> {}]
    ELSE LET acc == freshScan[i - 1]
             w   == sheet[i]
         IN  IF w.node \in {v.node : v \in acc.out} \/ acc.n >= MaxEvaluations THEN acc
             ELSE [n   |-> acc.n + 1,
                   out |-> IF w.sig /\ Dated(w) THEN acc.out \cup {w} ELSE acc.out]

FreshAttestations == freshScan[Len(sheet)].out

HasFreshQuorum(set) ==
    Cardinality({w.node : w \in {v \in FreshAttestations : Counts(set, v.node)}}) >= Quorum

\* Fault: equal timestamps are left undecided.
LessOrderKeyByTime(a, b) == a.ts < b.ts

LessOrderKey(a, b) ==
    \/ a.ts < b.ts
    \/ a.ts = b.ts /\ a.pow < b.pow
    \/ a.ts = b.ts /\ a.pow = b.pow /\ a.tld < b.tld

\* SelectWinner scans for the smallest; the claimant binding and the proof of
\* work are checked again on the way (structurallyAndPoWValid).
NoClaim == [ts |-> 0, pow |-> 0, tld |-> 0, valid |-> FALSE]
SelectWinner(s) ==
    LET best[i \in 0 .. Len(s)] ==
            IF i = 0 THEN NoClaim
            ELSE IF s[i].valid /\ (best[i - 1] = NoClaim \/ LessOrderKey(s[i], best[i - 1]))
                 THEN s[i] ELSE best[i - 1]
    IN  best[Len(s)]
OrderClaims(s) == SortSeq(SelectSeq(s, LAMBDA c : c.valid), LessOrderKey)

-----------------------------------------------------------------------------
\* NewWitnessAttestation, and the claimant attaching what it was given.
Attach(w) ==
    /\ Len(sheet) < MaxSheet
    /\ sheet' = Append(sheet, w)
    /\ UNCHANGED <<heard, today>>

\* A verifier hears of one more competing claim (DecodeAliasClaim); offers are
\* collected by record hash.
Hear(c) ==
    /\ c \notin Elems(heard)
    /\ heard' = Append(heard, c)
    /\ UNCHANGED <<sheet, today>>

QuorumTick == today' \in {t \in Stamps : t > today} /\ UNCHANGED <<sheet, heard>>

QuorumNext ==
    \/ heard = << >> /\ \E w \in Attestation : Attach(w)
    \/ sheet = << >> /\ \E c \in Rival : Hear(c)
    \/ heard = << >> /\ QuorumTick

QuorumSpec == QuorumInit /\ [][QuorumNext]_quorumVars

-----------------------------------------------------------------------------
(* Properties.                                                              *)

\* The nodes that really signed the claim, in band and in the set.
Witnessed ==
    {w.node : w \in {v \in Elems(sheet) : v.sig /\ Counts(WitnessSet, v.node)
                        /\ v.ts \in ClaimTs - Skew .. ClaimTs + PresentWindow + Skew}}

\* The nodes of the set that really signed it lately.
Reattested ==
    {w.node : w \in {v \in Elems(sheet) : v.sig /\ Counts(WitnessSet, v.node)
                        /\ v.ts \in today - FreshnessWindow .. today + Skew}}

\* A quorum, of the claim's day or a fresh one, is never counted that W
\* distinct nodes did not sign, and none is missed when every node is listed
\* once and the list fits the evaluation cap: "truncation cannot hide a
\* legitimate quorum from its own claimant".
QuorumIsReal ==
    LET fits == /\ \A i, j \in DOMAIN sheet : i # j => sheet[i].node # sheet[j].node
                /\ Len(sheet) <= MaxEvaluations
    IN  /\ HasQuorum(sheet, WitnessSet) => Cardinality(Witnessed) >= Quorum
        /\ HasFreshQuorum(WitnessSet) => Cardinality(Reattested) >= Quorum
        /\ fits /\ Cardinality(Witnessed) >= Quorum => HasQuorum(sheet, WitnessSet)
        /\ fits /\ Cardinality(Reattested) >= Quorum => HasFreshQuorum(WitnessSet)

\* A step that takes no quorum away, and counts no node that was listed before.
FirstStands ==
    /\ HasQuorum(sheet, WitnessSet) => HasQuorum(sheet', WitnessSet)
    /\ \A w \in Corroborating(sheet') \ Corroborating(sheet) :
          \A i \in DOMAIN sheet : sheet[i].node # w.node

\* The first listed attestation of a node decides for it: attaching more can
\* never take a quorum away, nor let a node that was listed with a bad
\* signature count after all ("the first one wins").
FirstListedDecides == [][FirstStands]_quorumVars

\* "This total order is computable by any client from claim contents alone":
\* two verifiers that heard the same claims in different orders agree on the
\* winner, and it is the head of the ordered list.
WinnerIsOrderFree ==
    LET s == heard
    IN  /\ SelectWinner(s) = SelectWinner(OrderClaims(s))
        /\ OrderClaims(s) # << >> => SelectWinner(s) = Head(OrderClaims(s))
        /\ \A p \in [DOMAIN s -> Elems(s)] :
              Elems(p) = Elems(s) => SelectWinner(p) = SelectWinner(s)
=============================================================================
