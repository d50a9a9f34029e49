----------------------------- MODULE NamesProofs -----------------------------
(***************************************************************************)
(* Proofs about one name: what a verifier counts as a quorum of witnesses  *)
(* (ClaimQuorum), how a name changes hands: what makes a transfer and a    *)
(* recovery provable and who keeps authority below the name (Succession),  *)
(* and what a walk over the DHT that misses the name means (Walk), for any *)
(* number of witnesses, owners, envelopes, links and peers.                *)
(*                                                                         *)
(* The recursive functions of the first two modules are reasoned about by  *)
(* induction over sets of natural numbers: that they exist, what they      *)
(* satisfy at every step, and what follows.                                *)
(***************************************************************************)
EXTENDS Walk, ClaimQuorum, Succession, FiniteSetTheorems, TLAPS

-----------------------------------------------------------------------------
(***************************************************************************)
(* Induction over a set of natural numbers, and functions defined step by  *)
(* step.                                                                   *)
(***************************************************************************)

\* A non-empty set of natural numbers has a least element.
LEMMA LeastNat ==
    ASSUME NEW T, T \subseteq Nat, T # {}
    PROVE  \E x \in T : \A y \in T : x <= y
<1> DEFINE R == OpToRel(<,Nat)
<1>1. IsWellFoundedOn(R, Nat)
  BY NatLessThanWellFounded, Zenon
<1>2. \A p, q \in Nat : p < q => <<p, q>> \in R
  BY Zenon   DEF OpToRel
<1> HIDE DEF R
<1>3. PICK x \in T : \A y \in T : ~(<<y, x>> \in R)
  BY <1>1, WFMin, Zenon
<1>4. \A y \in T : ~(y < x)
  BY <1>2, <1>3, Zenon
<1> QED
  BY <1>4

\* A set with 0, and with the successor of every natural number in it, has them
\* all.
LEMMA SetInduction ==
    ASSUME NEW T, 0 \in T, \A n \in Nat : n \in T => n + 1 \in T
    PROVE  Nat \subseteq T
<1> SUFFICES ASSUME Nat \ T # {} PROVE FALSE
  BY Zenon
<1>1. PICK x \in Nat \ T : \A y \in Nat \ T : x <= y
  BY LeastNat, Zenon
<1>2. x # 0 /\ x - 1 \in Nat /\ x - 1 \notin Nat \ T
  BY <1>1
<1> QED
  BY <1>1, <1>2

\* The steps of an iteration, and what it means for a function to follow them.
Steps(N, S) == [1 .. N -> [S -> S]]
Iterates(g, N, x, F) == g[0] = x /\ \A i \in 1 .. N : g[i] = F[i][g[i - 1]]

\* An iteration of any length exists.
LEMMA Iterated ==
    ASSUME NEW N \in Nat, NEW S, NEW x \in S, NEW F \in Steps(N, S)
    PROVE  \E g \in [0 .. N -> S] : Iterates(g, N, x, F)
<1> USE DEF Steps, Iterates
<1> DEFINE Upto(n) == \E g \in [0 .. n -> S] : g[0] = x /\ \A i \in 1 .. n : g[i] = F[i][g[i - 1]]
           T == {n \in Nat : n <= N => Upto(n)}
<1>1. 0 \in T
  <2>1. [i \in 0 .. 0 |-> x] \in [0 .. 0 -> S] /\ [i \in 0 .. 0 |-> x][0] = x
    OBVIOUS
  <2>2. \A i \in 1 .. 0 : FALSE
    OBVIOUS
  <2> QED
    BY <2>1, <2>2, Zenon
<1>2. ASSUME NEW n \in Nat, n \in T PROVE n + 1 \in T
  <2> SUFFICES ASSUME n + 1 <= N PROVE Upto(n + 1)
    OBVIOUS
  <2>1. PICK g \in [0 .. n -> S] : g[0] = x /\ \A i \in 1 .. n : g[i] = F[i][g[i - 1]]
    BY <1>2
  <2> DEFINE h == [i \in 0 .. n + 1 |-> IF i = n + 1 THEN F[n + 1][g[n]] ELSE g[i]]
  <2>2. F[n + 1] \in [S -> S] /\ g[n] \in S
    BY <2>1
  <2>3. F[n + 1][g[n]] \in S
    BY <2>2, Zenon
  <2>4. h \in [0 .. n + 1 -> S]
    BY <2>1, <2>3
  <2>5. h[0] = x /\ h[n + 1] = F[n + 1][g[n]] /\ \A i \in 0 .. n : h[i] = g[i]
    BY <2>1
  <2> HIDE DEF h
  <2>6. ASSUME NEW i \in 1 .. n + 1 PROVE h[i] = F[i][h[i - 1]]
    <3>1. CASE i = n + 1
      BY <2>5, <3>1
    <3>2. CASE i \in 1 .. n
      BY <2>1, <2>5, <3>2
    <3> QED
      BY <3>1, <3>2
  <2> QED
    BY <2>4, <2>5, <2>6, Zenon
<1> HIDE DEF T
<1>3. N \in T
  BY <1>1, <1>2, SetInduction, Zenon
<1> QED
  BY <1>3 DEF T

-----------------------------------------------------------------------------
(***************************************************************************)
(* The witnesses of a claim.                                               *)
(***************************************************************************)

\* The claim's sheet is a list of attestations, and the verifier has a clock.
QuorumInv == sheet \in Seq(Attestation) /\ today \in Nat

\* It is empty at the start.
LEMMA QuorumStart == QuorumInit => QuorumInv
BY QuorumAssumption DEF QuorumInit, QuorumInv

\* Attaching, hearing and the clock keep it so.
LEMMA QuorumStep == QuorumInv /\ [QuorumNext]_quorumVars => QuorumInv'
<1> SUFFICES ASSUME QuorumInv, [QuorumNext]_quorumVars PROVE QuorumInv'
  BY Zenon
<1>1. ASSUME NEW w \in Attestation, Attach(w) PROVE QuorumInv'
  BY <1>1 DEF Attach, QuorumInv
<1>2. ASSUME NEW c, Hear(c) PROVE QuorumInv'
  BY <1>2, Zenon DEF Hear, QuorumInv
<1>3. CASE QuorumTick
  <2>1. sheet' = sheet /\ today' \in Stamps
    BY <1>3, Zenon DEF QuorumTick
  <2>2. Stamps \subseteq Nat
    BY QuorumAssumption, Zenon
  <2>3. today' \in Nat
    BY <2>1, <2>2, Zenon
  <2> QED
    BY <2>1, <2>3, Zenon DEF QuorumInv
<1>4. CASE UNCHANGED quorumVars
  BY <1>4, Zenon DEF quorumVars, QuorumInv
<1> QED
  BY <1>1, <1>2, <1>3, <1>4, Zenon DEF QuorumNext

\* The nodes HasQuorum counts.
Counted(s) == {w.node : w \in {v \in Corroborating(s) : Counts(WitnessSet, v.node)}}

\* Whoever is counted really signed, in the band and in the witness set.
LEMMA CountedWitnessed ==
    ASSUME QuorumInv
    PROVE  Counted(sheet) \subseteq Witnessed
<1> SUFFICES ASSUME NEW n \in Counted(sheet) PROVE n \in Witnessed
  BY Zenon
<1>1. PICK w \in Corroborating(sheet) : Counts(WitnessSet, w.node) /\ n = w.node
  BY Zenon   DEF Counted
<1>2. w \in ValidWitnesses(sheet) /\ ClaimTs - Skew <= w.ts /\ w.ts <= ClaimTs + PresentWindow + Skew
  BY <1>1, Zenon DEF Corroborating
<1>3. PICK i \in DOMAIN sheet : w = sheet[i] /\ w.sig
  BY <1>2, Zenon DEF ValidWitnesses, FirstOfNode
<1>4. w \in Elems(sheet) /\ w \in Attestation
  BY <1>3 DEF Elems, QuorumInv
<1>5. w.ts \in Int
  <2>1. w.ts \in Stamps
    BY <1>4, Zenon DEF Attestation
  <2>2. Stamps \subseteq Nat
    BY QuorumAssumption, Zenon
  <2>3. w.ts \in Nat
    BY <2>1, <2>2, Zenon
  <2> QED
    BY <2>3
<1>6. w.ts \in ClaimTs - Skew .. ClaimTs + PresentWindow + Skew
  BY <1>2, <1>5, QuorumAssumption
<1> QED
  BY <1>1, <1>3, <1>4, <1>6, Zenon DEF Witnessed

\* Finitely many nodes signed.
LEMMA SheetFinite ==
    ASSUME QuorumInv
    PROVE  IsFiniteSet(Witnessed) /\ IsFiniteSet(Reattested)
<1> DEFINE D == DOMAIN sheet
           signers == {sheet[i].node : i \in D}
           f == [i \in D |-> sheet[i].node]
<1>1. IsFiniteSet(D)
  BY FS_Interval DEF QuorumInv
<1>2. f \in Surjection(D, signers)
  <2>1. f \in [D -> signers]
    BY Zenon
  <2>2. ASSUME NEW n \in signers PROVE \E i \in D : f[i] = n
    BY Zenon
  <2> QED
    BY <2>1, <2>2, Zenon DEF Surjection
<1>3. Witnessed \in SUBSET signers /\ Reattested \in SUBSET signers
  BY Zenon   DEF Witnessed, Reattested, Elems
<1> HIDE DEF f, D, signers
<1>4. IsFiniteSet(signers)
  BY <1>1, <1>2, FS_Surjection, Zenon
<1> QED
  BY <1>3, <1>4, FS_Subset, Zenon

\* When every node is listed once and the list fits the cap, whoever signed is
\* counted.
LEMMA WitnessedCounted ==
    ASSUME QuorumInv, Len(sheet) <= MaxEvaluations,
           \A i, j \in DOMAIN sheet : i # j => sheet[i].node # sheet[j].node
    PROVE  Witnessed \subseteq Counted(sheet)
<1>1. DOMAIN sheet = 1 .. Len(sheet) /\ Len(sheet) \in Nat
  BY DEF QuorumInv
<1>2. FirstOfNode(sheet) = DOMAIN sheet
  BY <1>1 DEF FirstOfNode
<1>3. ASSUME NEW i \in DOMAIN sheet
      PROVE  Cardinality({j \in DOMAIN sheet : j < i}) < MaxEvaluations
  <2>1. {j \in DOMAIN sheet : j < i} = 1 .. i - 1
    BY <1>1
  <2>2. i - 1 \in Int /\ 1 \in Int /\ i - 1 < Len(sheet) /\ i - 1 >= 0
    BY <1>1
  <2>3. Cardinality(1 .. i - 1) = i - 1
    BY <2>2, FS_Interval
  <2>4. MaxEvaluations \in Nat
    BY QuorumAssumption, Zenon
  <2>5. i - 1 < MaxEvaluations
    BY <2>2, <2>4, <1>1
  <2> QED
    BY <2>1, <2>3, <2>5, Zenon
<1>4. ASSUME NEW i \in DOMAIN sheet, sheet[i].sig
      PROVE  sheet[i] \in ValidWitnesses(sheet)
  BY <1>2, <1>3, <1>4, Zenon DEF ValidWitnesses
<1> SUFFICES ASSUME NEW n \in Witnessed PROVE n \in Counted(sheet)
  BY Zenon
<1>5. PICK v \in Elems(sheet) :
         /\ v.sig /\ Counts(WitnessSet, v.node) /\ n = v.node
         /\ v.ts \in ClaimTs - Skew .. ClaimTs + PresentWindow + Skew
  BY Zenon   DEF Witnessed
<1>6. v \in ValidWitnesses(sheet)
  BY <1>4, <1>5, Zenon DEF Elems
<1>7. ClaimTs - Skew <= v.ts /\ v.ts <= ClaimTs + PresentWindow + Skew
  BY <1>5
<1>8. v \in Corroborating(sheet)
  BY <1>6, <1>7, Zenon DEF Corroborating
<1> QED
  BY <1>5, <1>8, Zenon DEF Counted

\* One step of the scan for fresh attestations.
ScanOne(i, acc) ==
    IF sheet[i].node \in {v.node : v \in acc.out} \/ acc.n >= MaxEvaluations THEN acc
    ELSE [n   |-> acc.n + 1,
          out |-> IF sheet[i].sig /\ Dated(sheet[i]) THEN acc.out \cup {sheet[i]} ELSE acc.out]

\* The scan exists and takes one step per attestation.
LEMMA ScanSteps ==
    ASSUME QuorumInv
    PROVE  /\ freshScan \in [0 .. Len(sheet) -> [n : Nat, out : SUBSET Attestation]]
           /\ freshScan[0] = [n |-> 0, out |-> {}]
           /\ \A i \in 1 .. Len(sheet) : freshScan[i] = ScanOne(i, freshScan[i - 1])
<1> DEFINE N == Len(sheet)
           S == [n : Nat, out : SUBSET Attestation]
           x == [n |-> 0, out |-> {}]
           F == [i \in 1 .. N |-> [acc \in S |-> ScanOne(i, acc)]]
           Eq(f) == f = [i \in 0 .. N |-> IF i = 0 THEN x ELSE ScanOne(i, f[i - 1])]
<1>0. N \in Nat /\ DOMAIN sheet = 1 .. N
  BY DEF QuorumInv
<1>1. x \in S
  BY Zenon
<1>2. ASSUME NEW i \in 1 .. N, NEW acc \in S PROVE ScanOne(i, acc) \in S
  <2>1. sheet[i] \in Attestation
    BY <1>0 DEF QuorumInv
  <2> QED
    BY <2>1 DEF ScanOne
<1>3. F \in Steps(N, S)
  BY <1>2, Zenon DEF Steps
<1> HIDE DEF x, S, N
<1>4. PICK g \in [0 .. N -> S] : Iterates(g, N, x, F)
  <2> HIDE DEF F
  <2> QED
    BY <1>0, <1>1, <1>3, Iterated, Zenon
<1>5. ASSUME NEW i \in 1 .. N PROVE g[i] = ScanOne(i, g[i - 1])
  <2>1. g[i - 1] \in S
    BY <1>0
  <2> QED
    BY <2>1, <1>4, Zenon DEF Iterates
<1>6. Eq(g)
  BY <1>0, <1>4, <1>5 DEF Iterates
<1>7. freshScan = CHOOSE f : Eq(f)
  BY Zenon   DEF freshScan, ScanOne, x, N
<1>8. Eq(freshScan)
  BY <1>6, <1>7, Zenon
<1>9. /\ freshScan[0] = x
      /\ \A i \in 1 .. N : freshScan[i] = ScanOne(i, freshScan[i - 1])
      /\ freshScan = [i \in 0 .. N |-> freshScan[i]]
  BY <1>0, <1>8, SMTT(60)
<1> DEFINE T == {i \in Nat : i <= N => freshScan[i] \in S}
<1>10. 0 \in T
  BY <1>1, <1>9, Zenon
<1>11. ASSUME NEW i \in Nat, i \in T PROVE i + 1 \in T
  <2> SUFFICES ASSUME i + 1 <= N PROVE freshScan[i + 1] \in S
    OBVIOUS
  <2>1. freshScan[i] \in S /\ i + 1 \in 1 .. N /\ (i + 1) - 1 = i
    BY <1>0, <1>11
  <2>2. freshScan[i + 1] = ScanOne(i + 1, freshScan[i])
    BY <1>9, <2>1, Zenon
  <2> QED
    BY <1>2, <2>1, <2>2, Zenon
<1>12. Nat \subseteq T
  <2> HIDE DEF T
  <2> QED
    BY <1>10, <1>11, SetInduction, Zenon
<1>13. freshScan \in [0 .. N -> S]
  BY <1>0, <1>9, <1>12
<1> QED
  BY <1>9, <1>13, Zenon DEF x, S, N

\* An attestation that is signed and dated inside the freshness window.
Recent(k) == sheet[k].sig /\ Dated(sheet[k])

\* Whatever the scan accepts is on the list, signed and fresh, and it evaluates
\* no more than it has seen.
LEMMA ScanOut ==
    ASSUME QuorumInv, NEW i \in 0 .. Len(sheet)
    PROVE  /\ freshScan[i].out \subseteq {sheet[k] : k \in {m \in 1 .. i : Recent(m)}}
           /\ freshScan[i].n <= i
<1> DEFINE Fine(m) == /\ freshScan[m].out \subseteq {sheet[k] : k \in {j \in 1 .. m : Recent(j)}}
                      /\ freshScan[m].n <= m
           T == {m \in Nat : m <= Len(sheet) => Fine(m)}
<1>0. Len(sheet) \in Nat
  BY DEF QuorumInv
<1>1. 0 \in T
  BY ScanSteps
<1>2. ASSUME NEW m \in Nat, m \in T PROVE m + 1 \in T
  <2> SUFFICES ASSUME m + 1 <= Len(sheet) PROVE Fine(m + 1)
    OBVIOUS
  <2>1. Fine(m) /\ m + 1 \in 1 .. Len(sheet) /\ (m + 1) - 1 = m /\ m \in 0 .. Len(sheet)
    BY <1>0, <1>2
  <2>2. freshScan[m + 1] = ScanOne(m + 1, freshScan[m])
    BY <2>1, ScanSteps, Zenon
  <2>3. freshScan[m].n \in Nat
    BY <2>1, ScanSteps, Zenon
  <2>4. freshScan[m + 1].n \in {freshScan[m].n, freshScan[m].n + 1}
    BY <2>2 DEF ScanOne
  <2>5. freshScan[m + 1].out \subseteq freshScan[m].out \cup {sheet[k] : k \in {j \in {m + 1} : Recent(j)}}
    BY <2>2 DEF ScanOne, Recent
  <2>6. {sheet[k] : k \in {j \in 1 .. m : Recent(j)}} \cup {sheet[k] : k \in {j \in {m + 1} : Recent(j)}}
          \subseteq {sheet[k] : k \in {j \in 1 .. m + 1 : Recent(j)}}
    OBVIOUS
  <2>7. freshScan[m + 1].n <= m + 1
    BY <2>1, <2>3, <2>4
  <2> QED
    BY <2>1, <2>5, <2>6, <2>7, Zenon
<1> HIDE DEF T
<1>3. i \in Nat /\ i <= Len(sheet) /\ i \in T
  BY <1>0, <1>1, <1>2, SetInduction
<1> QED
  BY <1>3, Zenon DEF T

\* When every node is listed once and the list fits the cap, the scan accepts
\* all that is fresh.
LEMMA ScanAll ==
    ASSUME QuorumInv, Len(sheet) <= MaxEvaluations,
           \A k, m \in DOMAIN sheet : k # m => sheet[k].node # sheet[m].node,
           NEW i \in 0 .. Len(sheet)
    PROVE  {sheet[k] : k \in {m \in 1 .. i : Recent(m)}} \subseteq freshScan[i].out
<1> DEFINE All(m) == {sheet[k] : k \in {j \in 1 .. m : Recent(j)}}
           T == {m \in Nat : m <= Len(sheet) => All(m) \subseteq freshScan[m].out}
<1>0. Len(sheet) \in Nat /\ DOMAIN sheet = 1 .. Len(sheet) /\ MaxEvaluations \in Nat
  BY QuorumAssumption DEF QuorumInv
<1>1. 0 \in T
  OBVIOUS
<1>2. ASSUME NEW m \in Nat, m \in T PROVE m + 1 \in T
  <2> SUFFICES ASSUME m + 1 <= Len(sheet) PROVE All(m + 1) \subseteq freshScan[m + 1].out
    OBVIOUS
  <2>1. All(m) \subseteq freshScan[m].out /\ m + 1 \in 1 .. Len(sheet) /\ (m + 1) - 1 = m /\ m \in 0 .. Len(sheet)
    BY <1>0, <1>2
  <2>2. freshScan[m + 1] = ScanOne(m + 1, freshScan[m])
    BY <2>1, ScanSteps, Zenon
  <2>3. freshScan[m].n \in Nat /\ freshScan[m].n <= m /\ freshScan[m].out \subseteq All(m)
    BY <2>1, ScanSteps, ScanOut, Zenon
  <2>4. ~(freshScan[m].n >= MaxEvaluations)
    BY <1>0, <2>1, <2>3
  <2>5. ASSUME NEW v \in All(m) PROVE sheet[m + 1].node # v.node
    <3>1. PICK k \in 1 .. m : v = sheet[k]
      BY <2>5, Zenon
    <3>2. k \in DOMAIN sheet /\ m + 1 \in DOMAIN sheet /\ k # m + 1
      BY <1>0, <2>1, <3>1
    <3> QED
      BY <3>1, <3>2, Zenon
  <2>6. sheet[m + 1].node \notin {v.node : v \in freshScan[m].out}
    BY <2>3, <2>5, Zenon
  <2>7. freshScan[m + 1].out = IF Recent(m + 1) THEN freshScan[m].out \cup {sheet[m + 1]} ELSE freshScan[m].out
    BY <2>2, <2>4, <2>6 DEF ScanOne, Recent
  <2>8. All(m + 1) \subseteq All(m) \cup (IF Recent(m + 1) THEN {sheet[m + 1]} ELSE {})
    OBVIOUS
  <2> HIDE DEF All
  <2> QED
    BY <2>1, <2>7, <2>8, Zenon
<1> HIDE DEF T
<1>3. i \in Nat /\ i <= Len(sheet) /\ i \in T
  BY <1>0, <1>1, <1>2, SetInduction
<1> QED
  BY <1>3, Zenon DEF T

\* The nodes HasFreshQuorum counts.
CountedFresh == {w.node : w \in {v \in FreshAttestations : Counts(WitnessSet, v.node)}}

\* The nodes counted as fresh against those that really signed.
LEMMA FreshCounted ==
    ASSUME QuorumInv
    PROVE  /\ CountedFresh \subseteq Reattested
           /\ (/\ \A i, j \in DOMAIN sheet : i # j => sheet[i].node # sheet[j].node
               /\ Len(sheet) <= MaxEvaluations) => Reattested \subseteq CountedFresh
<1> DEFINE N == Len(sheet)
           All == {sheet[k] : k \in {m \in 1 .. N : Recent(m)}}
<1>0. N \in Nat /\ DOMAIN sheet = 1 .. N /\ N \in 0 .. N
  BY DEF QuorumInv
<1>1. FreshAttestations \subseteq All
  BY <1>0, ScanOut, Zenon DEF FreshAttestations
<1>2. ASSUME NEW k \in DOMAIN sheet
      PROVE  Recent(k) <=> sheet[k].sig /\ sheet[k].ts \in today - FreshnessWindow .. today + Skew
  <2>0. sheet[k] \in Attestation
    BY DEF QuorumInv
  <2>1. sheet[k].ts \in Stamps
    BY <2>0, Zenon DEF Attestation
  <2>2. Stamps \subseteq Nat
    BY QuorumAssumption, Zenon
  <2>3. sheet[k].ts \in Nat
    BY <2>1, <2>2, Zenon
  <2> QED
    BY <2>3, QuorumAssumption DEF QuorumInv, Recent, Dated
<1>3. Reattested = {w.node : w \in {v \in All : Counts(WitnessSet, v.node)}}
  BY <1>0, <1>2, Zenon DEF Reattested, Elems
<1>4. ASSUME \A i, j \in DOMAIN sheet : i # j => sheet[i].node # sheet[j].node, N <= MaxEvaluations
      PROVE  All \subseteq FreshAttestations
  BY <1>0, <1>4, ScanAll, Zenon DEF FreshAttestations
<1> HIDE DEF All
<1> QED
  BY <1>1, <1>3, <1>4, Zenon DEF CountedFresh

\* The two counts compared.
LEMMA QuorumCounted == QuorumInv => QuorumIsReal
<1> SUFFICES ASSUME QuorumInv PROVE QuorumIsReal
  BY Zenon
<1> DEFINE fits == /\ \A i, j \in DOMAIN sheet : i # j => sheet[i].node # sheet[j].node
                   /\ Len(sheet) <= MaxEvaluations
<1>1. /\ HasQuorum(sheet, WitnessSet) <=> Cardinality(Counted(sheet)) >= Quorum
      /\ HasFreshQuorum(WitnessSet) <=> Cardinality(CountedFresh) >= Quorum
  BY Zenon   DEF HasQuorum, Counted, HasFreshQuorum, CountedFresh
<1>2. /\ Cardinality(Counted(sheet)) <= Cardinality(Witnessed)
      /\ Cardinality(Counted(sheet)) \in Nat /\ Cardinality(Witnessed) \in Nat
  BY CountedWitnessed, SheetFinite, FS_Subset, FS_CardinalityType, Zenon
<1>3. /\ Cardinality(CountedFresh) <= Cardinality(Reattested)
      /\ Cardinality(CountedFresh) \in Nat /\ Cardinality(Reattested) \in Nat
  BY FreshCounted, SheetFinite, FS_Subset, FS_CardinalityType, Zenon
<1>4. /\ HasQuorum(sheet, WitnessSet) => Cardinality(Witnessed) >= Quorum
      /\ HasFreshQuorum(WitnessSet) => Cardinality(Reattested) >= Quorum
  BY <1>1, <1>2, <1>3, QuorumAssumption
<1>5. ASSUME fits PROVE Counted(sheet) = Witnessed /\ CountedFresh = Reattested
  BY <1>5, CountedWitnessed, WitnessedCounted, FreshCounted, Zenon
<1>6. /\ fits /\ Cardinality(Witnessed) >= Quorum => HasQuorum(sheet, WitnessSet)
      /\ fits /\ Cardinality(Reattested) >= Quorum => HasFreshQuorum(WitnessSet)
  <2> HIDE DEF fits
  <2> QED
    BY <1>1, <1>5, Zenon
<1> QED
  BY <1>4, <1>6, Zenon DEF QuorumIsReal

\* A quorum is real (validWitnessesFromPrefixHash, the corroboration band,
\* FreshAttestations): W distinct nodes of the witness set signed, in the band
\* of the claim's day or the freshness window, whenever W are counted, and none
\* is missed on a list without repetitions that fits the evaluation cap; for
\* every witness set, W, cap, band and list.
THEOREM QuorumReal == QuorumSpec => []QuorumIsReal
<1>1. QuorumInit => QuorumInv
  BY QuorumStart, Zenon
<1>2. QuorumInv /\ [QuorumNext]_quorumVars => QuorumInv'
  BY QuorumStep, Zenon
<1>3. QuorumInv => QuorumIsReal
  BY QuorumCounted, Zenon
<1> QED
  BY <1>1, <1>2, <1>3, PTL DEF QuorumSpec

\* One more attestation at the end takes no valid witness away, and adds at
\* most itself, for a node not listed before.
LEMMA AttachAdds ==
    ASSUME NEW s \in Seq(Attestation), NEW w \in Attestation
    PROVE  /\ ValidWitnesses(s) \subseteq ValidWitnesses(Append(s, w))
           /\ \A v \in ValidWitnesses(Append(s, w)) \ ValidWitnesses(s) :
                 v = w /\ \A i \in DOMAIN s : s[i].node # w.node
<1> DEFINE t == Append(s, w)
           N == Len(s)
           Before(x, i) == {j \in FirstOfNode(x) : j < i}
           Cut(x) == {i \in FirstOfNode(x) : Cardinality(Before(x, i)) < MaxEvaluations}
<1>1. /\ N \in Nat /\ DOMAIN s = 1 .. N /\ DOMAIN t = 1 .. N + 1
      /\ t[N + 1] = w /\ \A i \in 1 .. N : t[i] = s[i]
  OBVIOUS
<1>2. /\ ValidWitnesses(s) = {s[i] : i \in {j \in Cut(s) : s[j].sig}}
      /\ ValidWitnesses(t) = {t[i] : i \in {j \in Cut(t) : t[j].sig}}
  BY Zenon   DEF ValidWitnesses
<1> HIDE DEF t, N
<1>3. \A i \in 1 .. N : i \in FirstOfNode(t) <=> i \in FirstOfNode(s)
  BY <1>1 DEF FirstOfNode
<1>4. FirstOfNode(s) \subseteq 1 .. N /\ FirstOfNode(t) \subseteq 1 .. N + 1
  BY <1>1, Zenon DEF FirstOfNode
<1>5. ASSUME NEW i \in 1 .. N PROVE Before(t, i) = Before(s, i)
  BY <1>1, <1>3, <1>4
<1>6. \A i \in 1 .. N : i \in Cut(t) <=> i \in Cut(s)
  BY <1>3, <1>5, Zenon
<1>7. Cut(s) \subseteq 1 .. N /\ Cut(t) \subseteq 1 .. N + 1
  BY <1>4, Zenon
<1>8. N + 1 \in Cut(t) => \A i \in DOMAIN s : s[i].node # w.node
  BY <1>1 DEF FirstOfNode
<1> HIDE DEF Cut, Before
<1>9. ValidWitnesses(s) \subseteq ValidWitnesses(t)
  BY <1>1, <1>2, <1>6, <1>7, Zenon
<1>10. ASSUME NEW v \in ValidWitnesses(t), v \notin ValidWitnesses(s)
       PROVE  v = w /\ \A i \in DOMAIN s : s[i].node # w.node
  <2>1. PICK i \in Cut(t) : t[i].sig /\ v = t[i]
    BY <1>2, Zenon
  <2>2. i \notin 1 .. N
    BY <1>1, <1>2, <1>6, <1>10, <2>1, Zenon
  <2>3. i = N + 1
    BY <1>1, <1>7, <2>1, <2>2
  <2> QED
    BY <1>1, <1>8, <2>1, <2>3, Zenon
<1> QED
  BY <1>9, <1>10, Zenon DEF t

\* Finitely many nodes are counted.
LEMMA CountedFinite ==
    ASSUME QuorumInv
    PROVE  IsFiniteSet(Counted(sheet)) /\ Cardinality(Counted(sheet)) \in Nat
BY CountedWitnessed, SheetFinite, FS_Subset, FS_CardinalityType, Zenon

\* No step takes a quorum away.
LEMMA FirstListedStep ==
    ASSUME QuorumInv, QuorumInv', [QuorumNext]_quorumVars
    PROVE  FirstStands
<1>1. CASE sheet' = sheet
  BY <1>1, Zenon DEF FirstStands
<1>2. ASSUME NEW w \in Attestation, Attach(w)
      PROVE  FirstStands
  <2>0. sheet' = Append(sheet, w)
    BY <1>2, Zenon DEF Attach
  <2>1. /\ ValidWitnesses(sheet) \subseteq ValidWitnesses(sheet')
        /\ \A v \in ValidWitnesses(sheet') \ ValidWitnesses(sheet) :
              v = w /\ \A i \in DOMAIN sheet : sheet[i].node # w.node
    BY <2>0, AttachAdds, Zenon DEF QuorumInv
  <2>2. Corroborating(sheet) \subseteq Corroborating(sheet')
    BY <2>1, Zenon DEF Corroborating
  <2>3. Counted(sheet) \subseteq Counted(sheet')
    BY <2>2, Zenon DEF Counted
  <2>4. IsFiniteSet(Counted(sheet')) /\ Cardinality(Counted(sheet')) \in Nat
    <3>1. IsFiniteSet(Counted(sheet))' /\ (Cardinality(Counted(sheet)) \in Nat)'
      BY CountedFinite, PTL
    <3> QED
      BY <3>1, Zenon
  <2>5. Cardinality(Counted(sheet)) <= Cardinality(Counted(sheet'))
    BY <2>3, <2>4, FS_Subset, Zenon
  <2>6. HasQuorum(sheet, WitnessSet) => HasQuorum(sheet', WitnessSet)
    BY <2>4, <2>5, CountedFinite, QuorumAssumption DEF HasQuorum, Counted
  <2>7. \A v \in Corroborating(sheet') \ Corroborating(sheet) : v \in ValidWitnesses(sheet') \ ValidWitnesses(sheet)
    BY Zenon   DEF Corroborating
  <2> QED
    BY <2>1, <2>6, <2>7, Zenon DEF FirstStands
<1>3. ASSUME NEW c, Hear(c) PROVE sheet' = sheet
  BY <1>3, Zenon DEF Hear
<1> QED
  BY <1>1, <1>2, <1>3, Zenon DEF QuorumNext, QuorumTick, quorumVars

\* The first listed attestation of a node decides for it (the deduplication
\* before verification in validWitnessesFromPrefixHash): attaching more never
\* takes a quorum away and never makes a node count that was listed before; for
\* every witness set, W, cap and band.
THEOREM FirstListed == QuorumSpec => FirstListedDecides
<1>1. QuorumInit => QuorumInv
  BY QuorumStart, Zenon
<1>2. QuorumInv /\ [QuorumNext]_quorumVars => QuorumInv'
  BY QuorumStep, Zenon
<1>3. QuorumInv /\ QuorumInv' /\ [QuorumNext]_quorumVars =>
        FirstStands
  BY FirstListedStep, Zenon
<1> QED
  BY <1>1, <1>2, <1>3, PTL DEF QuorumSpec, FirstListedDecides

-----------------------------------------------------------------------------
(***************************************************************************)
(* A name that changes hands.                                              *)
(***************************************************************************)

\* An envelope with the evidence file beside it.
SuccFile ==
    [owner : Owners, signer : Owners, seq : Nat, prev : Nat, created : Int, expires : Int,
     delegation : Owners \cup Delegates \cup {Nobody},
     evidence : {Nobody} \cup [anchor : Nat, newOwner : Owners, notBefore : Int, sigs : SUBSET Custodians]]

\* The subtree goes with the name, or to a key that never owns it.
Settled(e) == e.delegation \in {Nobody, e.owner} \/ e.delegation \notin Owners

\* It follows a record on file: as a transfer, the owner of that record signed
\* it; as a recovery, the new owner did and the declaration starts the timelock.
Chained(e) ==
    /\ e.prev \in {0} \cup DOMAIN files
    /\ e.prev # 0 => e.seq = files[e.prev].seq + 1
    /\ e.evidence # Nobody =>
          /\ e.evidence.notBefore = e.created + Timelock
          /\ e.evidence.newOwner = e.owner /\ e.signer = e.owner
    /\ e.evidence = Nobody /\ e.prev # 0 => e.signer = files[e.prev].owner

\* The inductive invariant: every envelope ever built is settled and follows an
\* earlier one, and the slot holds one the store archived.
SuccInv ==
    /\ snow \in Int
    /\ files \in Seq(SuccFile)
    /\ head \in archive /\ archive \subseteq DOMAIN files
    /\ \A i \in DOMAIN files : Settled(files[i]) /\ Chained(files[i]) /\ files[i].prev < i

\* The founding record delegates to nobody, to the founder or to a third party.
LEMMA SuccStart == SuccInit => SuccInv
<1> SUFFICES ASSUME SuccInit PROVE SuccInv
  BY Zenon
<1>1. PICK d \in Delegates : files = <<Founding(d)>>
  BY Zenon   DEF SuccInit
<1>2. Founding(d) \in SuccFile
  BY SuccessionAssumption DEF Founding, SuccFile
<1>3. Settled(Founding(d))
  BY SuccessionAssumption, Zenon DEF Founding, Settled
<1>5. Founding(d).prev = 0 /\ Founding(d).evidence = Nobody
  BY Zenon   DEF Founding
<1> HIDE DEF Founding
<1>4. files \in Seq(SuccFile) /\ DOMAIN files = {1} /\ files[1] = Founding(d)
  BY <1>1, <1>2
<1> QED
  BY <1>3, <1>4, <1>5 DEF SuccInit, SuccInv, Chained

\* Writing a settled envelope keeps the invariant.
LEMMA WriteKeeps ==
    ASSUME SuccInv, NEW e \in SuccFile, Settled(e), Chained(e), Write(e)
    PROVE  SuccInv'
<1>1. files' = Append(files, e) /\ snow' = snow /\ head' = head /\ archive' = archive
  BY Zenon   DEF Write
<1>2. /\ files' \in Seq(SuccFile)
      /\ DOMAIN files' = DOMAIN files \cup {Len(files) + 1}
      /\ \A i \in DOMAIN files : files'[i] = files[i]
      /\ files'[Len(files) + 1] = e
  BY <1>1 DEF SuccInv
<1>3. Len(files) \in Nat /\ DOMAIN files = 1 .. Len(files)
  BY DEF SuccInv
<1>4. ASSUME NEW i \in DOMAIN files' PROVE (Settled(files[i]) /\ Chained(files[i]))' /\ files'[i].prev < i
  <2>1. CASE i \in DOMAIN files
    <3>1. files'[i] = files[i] /\ Settled(files[i]) /\ Chained(files[i]) /\ files[i].prev < i
      BY <1>2, <2>1, Zenon DEF SuccInv
    <3>2. files[i].prev # 0 => files'[files[i].prev] = files[files[i].prev]
      BY <1>2, <3>1, Zenon DEF Chained
    <3> QED
      BY <1>2, <3>1, <3>2, Zenon DEF Settled, Chained
  <2>2. CASE i = Len(files) + 1
    <3>1. files'[i] = e /\ e.prev < i
      BY <1>2, <1>3, <2>2 DEF Chained
    <3>2. e.prev # 0 => files'[e.prev] = files[e.prev]
      BY <1>2, Zenon DEF Chained
    <3> QED
      BY <1>2, <3>1, <3>2, Zenon DEF Settled, Chained
  <2> QED
    BY <1>2, <2>1, <2>2, Zenon
<1> QED
  BY <1>1, <1>2, <1>4, Zenon DEF SuccInv

\* Whatever a tool builds from an envelope on file is settled: transfer,
\* recover and renew.
LEMMA BuiltIsSettled ==
    ASSUME SuccInv, NEW i \in DOMAIN files, NEW new \in Owners
    PROVE  /\ LET e == BuildHandoffEnvelope(i, new)
              IN  e \in SuccFile /\ Settled(e) /\ Chained(e)
           /\ \A S \in SUBSET Custodians :
                 LET e == BuildRecoveryEnvelope(i, new, Declaration(i, new, S))
                 IN  e \in SuccFile /\ Settled(e) /\ Chained(e)
           /\ LET e == RenewEnvelope(i)
              IN  e \in SuccFile /\ Settled(e) /\ Chained(e)
<1> DEFINE p == files[i]
<1>1. p \in SuccFile /\ i \in Nat /\ snow \in Int /\ Settled(p)
  BY DEF SuccInv
<1> DEFINE dl == Redelegated(p, new)
<1>2. dl \in Owners \cup Delegates \cup {Nobody}
  BY <1>1, Zenon DEF Redelegated, SuccFile
<1>3. dl = new \/ dl \notin Owners
  BY <1>1, Zenon DEF Redelegated, Settled, SuccFile
<1> DEFINE mx == IF p.expires - snow < MinRemaining THEN MinRemaining ELSE p.expires - snow
<1>4. mx \in Int
  BY <1>1, SuccessionAssumption DEF SuccFile
<1>5. RecordTTL \in Nat /\ Timelock \in Nat
  BY SuccessionAssumption, Zenon
<1>6. p.owner \in Owners /\ p.seq \in Nat /\ p.delegation \in Owners \cup Delegates \cup {Nobody}
  BY <1>1, Zenon DEF SuccFile
<1> HIDE DEF dl, mx, p
<1>7. BuildHandoffEnvelope(i, new) =
        [owner |-> new, signer |-> p.owner, seq |-> p.seq + 1, prev |-> i, created |-> snow,
         expires |-> snow + RecordTTL, delegation |-> dl, evidence |-> Nobody]
  BY Zenon   DEF BuildHandoffEnvelope, p, dl
<1>8. ASSUME NEW S \in SUBSET Custodians
      PROVE  LET e == BuildRecoveryEnvelope(i, new, Declaration(i, new, S))
             IN  e \in SuccFile /\ Settled(e) /\ Chained(e)
  <2> DEFINE ev == Declaration(i, new, S)
  <2>1. ev \in [anchor : Nat, newOwner : Owners, notBefore : Int, sigs : SUBSET Custodians]
    BY <1>1, <1>5 DEF Declaration
  <2>4. ev # Nobody
    BY <2>1, SuccessionAssumption, Zenon
  <2>5. ev.notBefore = snow + Timelock /\ ev.newOwner = new
    BY Zenon   DEF Declaration
  <2> HIDE DEF ev
  <2>2. BuildRecoveryEnvelope(i, new, ev) =
        [owner |-> new, signer |-> new, seq |-> p.seq + 1, prev |-> i, created |-> snow,
         expires |-> snow + mx, delegation |-> dl, evidence |-> ev]
    BY Zenon   DEF BuildRecoveryEnvelope, p, dl, mx
  <2>3. BuildRecoveryEnvelope(i, new, ev) \in SuccFile /\ Settled(BuildRecoveryEnvelope(i, new, ev))
    BY <2>1, <2>2, <1>1, <1>2, <1>3, <1>4, <1>6, SMTT(60) DEF SuccFile, Settled
  <2>6. Chained(BuildRecoveryEnvelope(i, new, ev))
    BY <2>2, <2>4, <2>5, SMTT(60) DEF Chained, p
  <2> QED
    BY <2>3, <2>6, Zenon DEF ev
<1>9. RenewEnvelope(i) =
        [owner |-> p.owner, signer |-> p.owner, seq |-> p.seq + 1, prev |-> 0, created |-> snow,
         expires |-> snow + RecordTTL, delegation |-> p.delegation, evidence |-> Nobody]
  BY Zenon   DEF RenewEnvelope, p
<1>10. BuildHandoffEnvelope(i, new) \in SuccFile /\ Settled(BuildHandoffEnvelope(i, new))
  BY <1>1, <1>2, <1>3, <1>5, <1>6, <1>7, SMTT(60) DEF SuccFile, Settled
<1>11. RenewEnvelope(i) \in SuccFile
  BY <1>1, <1>5, <1>6, <1>9, SMTT(60) DEF SuccFile
<1>12. Settled(RenewEnvelope(i))
  BY <1>1, <1>9, SMTT(60) DEF Settled
<1>13. Chained(BuildHandoffEnvelope(i, new)) /\ Chained(RenewEnvelope(i))
  BY <1>7, <1>9 DEF Chained, p
<1> QED
  BY <1>8, <1>10, <1>11, <1>12, <1>13, Zenon

\* Building, publishing and the clock keep the invariant.
LEMMA SuccStep == SuccInv /\ [SuccNext]_succVars => SuccInv'
<1> SUFFICES ASSUME SuccInv, [SuccNext]_succVars PROVE SuccInv'
  BY Zenon
<1>1. ASSUME NEW i \in DOMAIN files, RunHandoff(i) PROVE SuccInv'
  BY <1>1, BuiltIsSettled, WriteKeeps, Zenon DEF RunHandoff
<1>2. ASSUME NEW i \in DOMAIN files, CmdRecover(i) PROVE SuccInv'
  <2>1. PICK new \in Owners, S \in SUBSET Custodians \ {{}} :
           Write(BuildRecoveryEnvelope(i, new, Declaration(i, new, S)))
    BY <1>2, Zenon DEF CmdRecover
  <2> QED
    BY <2>1, BuiltIsSettled, WriteKeeps, Zenon
<1>3. ASSUME NEW i \in DOMAIN files, Renew(i) PROVE SuccInv'
  BY <1>3, BuiltIsSettled, WriteKeeps, SuccessionAssumption, Zenon DEF Renew
<1>4. ASSUME NEW i \in DOMAIN files, Publish(i) PROVE SuccInv'
  BY <1>4, Zenon DEF Publish, SuccInv, Settled, Chained
<1>5. CASE SuccTick
  BY <1>5, SMTT(60) DEF SuccTick, SuccInv, Settled, Chained
<1>6. CASE UNCHANGED succVars
  BY <1>6, Zenon DEF succVars, SuccInv, Settled, Chained
<1> QED
  BY <1>1, <1>2, <1>3, <1>4, <1>5, <1>6, Zenon DEF SuccNext

\* A settled record lets no former owner sign below it.
LEMMA SettledLetsGo == SuccInv => FormerOwnersLetGo
<1> SUFFICES ASSUME SuccInv, NEW c \in Owners \ {files[head].owner}, Verdict(head, c, "evidence")
             PROVE  FALSE
  BY Zenon   DEF FormerOwnersLetGo
<1>1. Descends(head, c)
  BY Zenon   DEF Verdict, VerifyAuthorityChain, WithHandoffs, WithTransfers
<1> QED
  BY <1>1, Zenon DEF Descends, SuccInv, Settled

\* Who handed a name over can no longer sign below it (the delegation rule of
\* buildHandoffEnvelope and buildRecoveryEnvelope, verifyDescents): for any
\* number of transfers, recoveries and renewals, built from whatever envelope
\* and published in whatever order, provided the third parties the founder
\* delegated to do not come to own the name.
THEOREM FormerOwnersOut == SuccSpec => []FormerOwnersLetGo
<1>1. SuccInit => SuccInv
  BY SuccStart, Zenon
<1>2. SuccInv /\ [SuccNext]_succVars => SuccInv'
  BY SuccStep, Zenon
<1>3. SuccInv => FormerOwnersLetGo
  BY SettledLetsGo, Zenon
<1> QED
  BY <1>1, <1>2, <1>3, PTL DEF SuccSpec

\* The handoff walk exists, and one more link is one more hop.
LEMMA ProvedSteps ==
    ASSUME SuccInv, NEW d \in 0 .. MaxDepth, NEW j
    PROVE  j \in handoffProved[d] <=>
             /\ j \in DOMAIN files
             /\ SelfCertified(j) \/ (d > 0 /\ Hop(j) /\ files[j].prev \in handoffProved[d - 1])
<1> DEFINE S == SUBSET DOMAIN files
           Origin == {k \in DOMAIN files : SelfCertified(k)}
           Further(X) == {k \in DOMAIN files : SelfCertified(k) \/ (Hop(k) /\ files[k].prev \in X)}
           F == [i \in 1 .. MaxDepth |-> [X \in S |-> Further(X)]]
           Eq(f) == f = [i \in 0 .. MaxDepth |->
                           {k \in DOMAIN files : SelfCertified(k) \/ (i > 0 /\ Hop(k) /\ files[k].prev \in f[i - 1])}]
<1>0. MaxDepth \in Nat
  BY SuccessionAssumption, Zenon
<1>1. Origin \in S /\ \A X \in S : Further(X) \in S
  BY Zenon
<1>2. F \in Steps(MaxDepth, S)
  BY <1>1, Zenon DEF Steps
<1>3. PICK g \in [0 .. MaxDepth -> S] : Iterates(g, MaxDepth, Origin, F)
  <2> HIDE DEF F, S, Origin
  <2> QED
    BY <1>0, <1>1, <1>2, Iterated, Zenon
<1>4. ASSUME NEW i \in 0 .. MaxDepth
      PROVE  g[i] = {k \in DOMAIN files : SelfCertified(k) \/ (i > 0 /\ Hop(k) /\ files[k].prev \in g[i - 1])}
  <2>1. CASE i = 0
    BY <1>3, <2>1 DEF Iterates
  <2>2. CASE i \in 1 .. MaxDepth
    <3>1. g[i - 1] \in S
      BY <1>0, <2>2
    <3>2. g[i] = Further(g[i - 1])
      <4> HIDE DEF Further, S
      <4> QED
        BY <1>3, <2>2, <3>1, Zenon DEF Iterates
    <3> QED
      BY <2>2, <3>2
  <2> QED
    BY <1>0, <2>1, <2>2
<1>5. Eq(g)
  BY <1>4, Zenon
<1>6. handoffProved = CHOOSE f : Eq(f)
  BY Zenon   DEF handoffProved
<1>7. Eq(handoffProved)
  BY <1>5, <1>6, Zenon
<1> QED
  BY <1>7, Zenon

\* The same for the walk that knows transfers only.
LEMMA TransferSteps ==
    ASSUME SuccInv, NEW d \in 0 .. MaxDepth, NEW j
    PROVE  j \in transferProved[d] <=>
             /\ j \in DOMAIN files
             /\ IF files[j].signer = files[j].owner THEN SelfCertified(j)
                ELSE d > 0 /\ Linked(j) /\ TransferHop(j) /\ files[j].prev \in transferProved[d - 1]
<1> DEFINE S == SUBSET DOMAIN files
           By(k, more) == IF files[k].signer = files[k].owner THEN SelfCertified(k) ELSE more
           Origin == {k \in DOMAIN files : By(k, FALSE)}
           Further(X) == {k \in DOMAIN files : By(k, Linked(k) /\ TransferHop(k) /\ files[k].prev \in X)}
           F == [i \in 1 .. MaxDepth |-> [X \in S |-> Further(X)]]
           Eq(f) == f = [i \in 0 .. MaxDepth |->
                           {k \in DOMAIN files :
                              IF files[k].signer = files[k].owner THEN SelfCertified(k)
                              ELSE i > 0 /\ Linked(k) /\ TransferHop(k) /\ files[k].prev \in f[i - 1]}]
<1>0. MaxDepth \in Nat
  BY SuccessionAssumption, Zenon
<1>1. Origin \in S /\ \A X \in S : Further(X) \in S
  BY Zenon
<1>2. F \in Steps(MaxDepth, S)
  BY <1>1, Zenon DEF Steps
<1>3. PICK g \in [0 .. MaxDepth -> S] : Iterates(g, MaxDepth, Origin, F)
  <2> HIDE DEF F, S, Origin
  <2> QED
    BY <1>0, <1>1, <1>2, Iterated, Zenon
<1>4. ASSUME NEW i \in 0 .. MaxDepth
      PROVE  g[i] = {k \in DOMAIN files :
                       IF files[k].signer = files[k].owner THEN SelfCertified(k)
                       ELSE i > 0 /\ Linked(k) /\ TransferHop(k) /\ files[k].prev \in g[i - 1]}
  <2>1. CASE i = 0
    BY <1>3, <2>1 DEF Iterates
  <2>2. CASE i \in 1 .. MaxDepth
    <3>1. g[i - 1] \in S
      BY <1>0, <2>2
    <3>2. g[i] = Further(g[i - 1])
      <4> HIDE DEF Further, S
      <4> QED
        BY <1>3, <2>2, <3>1, Zenon DEF Iterates
    <3> QED
      BY <2>2, <3>2
  <2> QED
    BY <1>0, <2>1, <2>2, SMTT(60)
<1>5. Eq(g)
  BY <1>4, Zenon
<1>6. transferProved = CHOOSE f : Eq(f)
  BY Zenon   DEF transferProved
<1>7. Eq(transferProved)
  BY <1>5, <1>6, Zenon
<1> QED
  BY <1>7, ZenonT(60)

\* The lineage of a record exists: the record, and unless it is self-certified
\* the lineage of its predecessor.
LEMMA LineageSteps ==
    ASSUME SuccInv
    PROVE  /\ lineage[0] = {}
           /\ \A j \in DOMAIN files :
                lineage[j] = {j} \cup (IF SelfCertified(j) THEN {} ELSE lineage[files[j].prev])
<1> DEFINE N == Len(files)
           Link(f, j) == {j} \cup (IF SelfCertified(j) THEN {} ELSE f[files[j].prev])
           Val(f, j) == IF j = 0 THEN {} ELSE Link(f, j)
           Upto(n) == \E g : g = [j \in 0 .. n |-> Val(g, j)]
           T == {n \in Nat : n <= N => Upto(n)}
<1>0. N \in Nat /\ DOMAIN files = 1 .. N /\ \A j \in 1 .. N : files[j].prev \in 0 .. j - 1
  <2>1. N \in Nat /\ DOMAIN files = 1 .. N
    BY DEF SuccInv
  <2>2. ASSUME NEW j \in 1 .. N PROVE files[j].prev \in 0 .. j - 1
    BY <2>1 DEF SuccInv, Chained
  <2> QED
    BY <2>1, <2>2, Zenon
<1> HIDE DEF N
<1>1. 0 \in T
  <2> DEFINE g0 == [j \in 0 .. 0 |-> {}]
  <2>1. g0 = [j \in 0 .. 0 |-> Val(g0, j)]
    <3> HIDE DEF Link
    <3> QED
      OBVIOUS
  <2> QED
    BY <2>1, Zenon
<1>2. ASSUME NEW n \in Nat, n \in T PROVE n + 1 \in T
  <2> SUFFICES ASSUME n + 1 <= N PROVE Upto(n + 1)
    OBVIOUS
  <2>1. PICK g : g = [j \in 0 .. n |-> Val(g, j)]
    BY <1>0, <1>2
  <2> DEFINE h == [j \in 0 .. n + 1 |-> IF j = n + 1 THEN Link(g, n + 1) ELSE g[j]]
  <2>2. ASSUME NEW j \in 1 .. n + 1 PROVE files[j].prev \in 0 .. n /\ h[files[j].prev] = g[files[j].prev]
    BY <1>0
  <2>3. ASSUME NEW j \in 1 .. n + 1 PROVE Link(h, j) = Link(g, j)
    <3> HIDE DEF h
    <3> QED
      BY <2>2, Zenon
  <2>4. ASSUME NEW j \in 0 .. n + 1 PROVE h[j] = Val(h, j)
    <3>1. CASE j = n + 1
      <4>1. h[j] = Link(g, j)
        BY <3>1, Zenon
      <4> QED
        BY <2>3, <3>1, <4>1, SMTT(60)
    <3>2. CASE j = 0
      <4>1. h[j] = g[0]
        BY <3>2
      <4> QED
        BY <2>1, <3>2, <4>1
    <3>3. CASE j \in 1 .. n
      <4>1. h[j] = g[j]
        BY <3>3
      <4>2. g[j] = Val(g, j)
        <5> HIDE DEF Val
        <5> QED
          BY <2>1, <3>3
      <4>3. j \in 1 .. n + 1 /\ j # 0
        BY <3>3, SMTT(60)
      <4>4. Link(h, j) = Link(g, j)
        BY <2>3, <4>3, Zenon
      <4> HIDE DEF Link, h
      <4> QED
        BY <4>1, <4>2, <4>3, <4>4, Zenon
    <3> QED
      BY <3>1, <3>2, <3>3, SMTT(60)
  <2>5. h = [j \in 0 .. n + 1 |-> h[j]]
    BY Zenon
  <2> HIDE DEF h, Val
  <2>6. h = [j \in 0 .. n + 1 |-> Val(h, j)]
    BY <2>4, <2>5, Zenon
  <2> QED
    BY <2>6, Zenon
<1>3. Upto(N)
  <2>1. N \in T
    <3> HIDE DEF T
    <3> QED
      BY <1>0, <1>1, <1>2, SetInduction, Zenon
  <2> QED
    BY <1>0, <2>1
<1>4. lineage = CHOOSE g : g = [j \in 0 .. N |-> Val(g, j)]
  BY Zenon   DEF lineage, N
<1>5. lineage = [j \in 0 .. N |-> Val(lineage, j)]
  <2> HIDE DEF Val
  <2> QED
    BY <1>3, <1>4, Zenon
<1>6. \A j \in 0 .. N : lineage[j] = Val(lineage, j)
  <2> HIDE DEF Val
  <2> QED
    BY <1>0, <1>5, Zenon
<1>7. lineage[0] = {} /\ \A j \in 1 .. N : lineage[j] = Link(lineage, j)
  <2> HIDE DEF Link
  <2> QED
    BY <1>0, <1>6
<1> QED
  BY <1>0, <1>7, Zenon

\* Every record in the lineage of a proved one is self-certified or passes the
\* check of a hop.
LEMMA LineageProved ==
    ASSUME SuccInv, NEW d \in 0 .. MaxDepth, NEW j \in handoffProved[d]
    PROVE  \A i \in lineage[j] : i \in DOMAIN files /\ (SelfCertified(i) \/ Hop(i))
<1> DEFINE Fine(k) == \A i \in lineage[k] : i \in DOMAIN files /\ (SelfCertified(i) \/ Hop(i))
           T == {n \in Nat : n <= MaxDepth => \A k \in handoffProved[n] : Fine(k)}
<1>0. MaxDepth \in Nat
  BY SuccessionAssumption, Zenon
<1>1. ASSUME NEW n \in 0 .. MaxDepth, NEW k \in handoffProved[n], SelfCertified(k) PROVE Fine(k)
  <2>1. k \in DOMAIN files
    BY ProvedSteps, Zenon
  <2>2. lineage[k] = {k}
    BY <1>1, <2>1, LineageSteps, Zenon
  <2> QED
    BY <1>1, <2>1, <2>2, Zenon
<1>2. 0 \in T
  <2> SUFFICES ASSUME NEW k \in handoffProved[0] PROVE Fine(k)
    BY Zenon
  <2>1. 0 \in 0 .. MaxDepth
    BY <1>0
  <2>2. SelfCertified(k)
    BY <2>1, ProvedSteps
  <2> QED
    BY <1>1, <2>1, <2>2, Zenon
<1>3. ASSUME NEW n \in Nat, n \in T PROVE n + 1 \in T
  <2> SUFFICES ASSUME n + 1 <= MaxDepth, NEW k \in handoffProved[n + 1], ~SelfCertified(k) PROVE Fine(k)
    BY <1>0, <1>1
  <2>1. n + 1 \in 0 .. MaxDepth /\ n \in 0 .. MaxDepth /\ (n + 1) - 1 = n
    BY <1>0
  <2>2. k \in DOMAIN files /\ Hop(k) /\ files[k].prev \in handoffProved[n]
    BY <2>1, ProvedSteps, Zenon
  <2>3. Fine(files[k].prev)
    BY <1>0, <1>3, <2>1, <2>2, SMTT(60)
  <2>4. lineage[k] = {k} \cup lineage[files[k].prev]
    BY <2>2, LineageSteps, Zenon
  <2> QED
    BY <2>2, <2>3, <2>4, Zenon
<1>4. d \in T
  <2> HIDE DEF T
  <2> QED
    BY <1>0, <1>2, <1>3, SetInduction, SMTT(60)
<1> QED
  BY <1>0, <1>4

\* A recovery that passes the check of a hop was declared a timelock ago, by a
\* threshold of the custodians.
LEMMA HopWaited ==
    ASSUME SuccInv, NEW i \in DOMAIN files, Hop(i), IsRecovery(i)
    PROVE  snow >= files[i].created + Timelock /\ Cardinality(files[i].evidence.sigs) >= Threshold
<1> DEFINE ev == files[i].evidence
           Evidence == [anchor : Nat, newOwner : Owners, notBefore : Int, sigs : SUBSET Custodians]
<1>1. /\ ev # Nobody
      /\ snow >= ev.notBefore
      /\ CountRecoveryQuorum(ev, files[i].prev) >= Threshold
  BY Zenon   DEF Hop, IsRecovery, RecoveryHop, VerifyRecovery
<1>2. files[i] \in SuccFile /\ Chained(files[i])
  BY SMTT(60)  DEF SuccInv
<1>3. ev \in Evidence
  BY <1>1, <1>2, Zenon DEF SuccFile
<1>4. ev.notBefore = files[i].created + Timelock
  BY <1>1, <1>2, Zenon DEF Chained
<1> HIDE DEF ev
<1>5. ev.sigs \cap Custodians = ev.sigs
  BY <1>3, Zenon
<1>6. Threshold \in Nat /\ Threshold > 0
  BY SuccessionAssumption
<1>7. Cardinality(ev.sigs) >= Threshold
  BY <1>1, <1>5, <1>6, SMTT(60) DEF CountRecoveryQuorum
<1> QED
  BY <1>1, <1>4, <1>7, Zenon DEF ev

\* So a proved record rests on no recovery that did not wait.
LEMMA RecoveryTakesTime == SuccInv => RecoveryWaits
<1> SUFFICES ASSUME SuccInv, Proves(head), NEW i \in lineage[head], IsRecovery(i), ~SelfCertified(i)
             PROVE  /\ snow >= files[i].created + Timelock
                    /\ Cardinality(files[i].evidence.sigs) >= Threshold
  BY Zenon   DEF RecoveryWaits
<1>0. MaxDepth \in 0 .. MaxDepth /\ head \in DOMAIN files
  BY SuccessionAssumption, SMTT(60) DEF SuccInv
<1>1. SelfCertified(head) \/ head \in handoffProved[MaxDepth]
  BY Zenon   DEF Proves, Verdict, VerifyAuthorityChain, WithHandoffs, HandoffWalk
<1>2. head \in handoffProved[MaxDepth]
  BY <1>0, <1>1, ProvedSteps, Zenon
<1>3. i \in DOMAIN files /\ Hop(i)
  BY <1>0, <1>2, LineageProved, Zenon
<1> QED
  BY <1>3, HopWaited, Zenon

\* A recovery takes effect late enough and backed enough (verifyRecoveryHop,
\* countRecoveryQuorum): whenever the record in the slot proves its owner,
\* every recovery in its lineage was declared a timelock ago or earlier by a
\* threshold of the custodians, although the store kept it before; for any
\* number of records, any policy and any depth of the walk.
THEOREM RecoveryTakesItsTime == SuccSpec => []RecoveryWaits
<1>1. SuccInit => SuccInv
  BY SuccStart, Zenon
<1>2. SuccInv /\ [SuccNext]_succVars => SuccInv'
  BY SuccStep, Zenon
<1>3. SuccInv => RecoveryWaits
  BY RecoveryTakesTime, Zenon
<1> QED
  BY <1>1, <1>2, <1>3, PTL DEF SuccSpec

\* What the walk over transfers proves, the walk over handoffs proves in as
\* many links.
LEMMA TransfersAreHandoffs ==
    ASSUME SuccInv, NEW d \in 0 .. MaxDepth
    PROVE  transferProved[d] \subseteq handoffProved[d]
<1> DEFINE T == {n \in Nat : n <= MaxDepth => transferProved[n] \subseteq handoffProved[n]}
<1>0. MaxDepth \in Nat
  BY SuccessionAssumption, Zenon
<1>1. 0 \in T
  <2>1. 0 \in 0 .. MaxDepth
    BY <1>0
  <2> SUFFICES ASSUME NEW k \in transferProved[0] PROVE k \in handoffProved[0]
    BY Zenon
  <2>2. k \in DOMAIN files /\ SelfCertified(k)
    BY <2>1, TransferSteps, SMTT(60)
  <2> QED
    BY <2>1, <2>2, ProvedSteps, Zenon
<1>2. ASSUME NEW n \in Nat, n \in T PROVE n + 1 \in T
  <2> SUFFICES ASSUME n + 1 <= MaxDepth, NEW k \in transferProved[n + 1] PROVE k \in handoffProved[n + 1]
    OBVIOUS
  <2>1. n + 1 \in 0 .. MaxDepth /\ n \in 0 .. MaxDepth /\ (n + 1) - 1 = n /\ n + 1 > 0
    BY <1>0, SMTT(60)
  <2>2. k \in DOMAIN files /\ (SelfCertified(k) \/ (Linked(k) /\ TransferHop(k) /\ files[k].prev \in transferProved[n]))
    BY <2>1, TransferSteps, Zenon
  <2>3. SelfCertified(k) \/ (Hop(k) /\ files[k].prev \in handoffProved[n])
    BY <1>0, <1>2, <2>1, <2>2 DEF Hop
  <2> QED
    BY <2>1, <2>2, <2>3, ProvedSteps, Zenon
<1>3. d \in T
  <2> HIDE DEF T
  <2> QED
    BY <1>0, <1>1, <1>2, SetInduction, SMTT(60)
<1> QED
  BY <1>0, <1>3, SMTT(60)

\* Each verifier accepts what the older ones accept.
LEMMA OlderAgree == SuccInv => OlderVerifiersAgree
<1> SUFFICES ASSUME SuccInv, NEW i \in archive, NEW c \in Owners
             PROVE  /\ Verdict(i, c, "records") => Verdict(i, c, "history")
                    /\ Verdict(i, c, "history") => Verdict(i, c, "evidence")
  BY Zenon   DEF OlderVerifiersAgree
<1>0. MaxDepth \in 0 .. MaxDepth /\ i \in DOMAIN files
  BY SuccessionAssumption, SMTT(60) DEF SuccInv
<1>1. SelfCertified(i) => TransferWalk(i)
  BY <1>0, TransferSteps, Zenon DEF TransferWalk, SelfCertified
<1>2. TransferWalk(i) => HandoffWalk(i)
  BY <1>0, TransfersAreHandoffs, Zenon DEF TransferWalk, HandoffWalk
<1> QED
  BY <1>1, <1>2, Zenon DEF Verdict, VerifyAuthorityChain, WithTransfers, WithHandoffs

\* The hand-off verifier only adds to the older ones
\* (VerifyAuthorityChainWithHandoffs): whatever a resolver without evidence, or
\* without history, accepts, one with both accepts; for every archive and every
\* depth of the walk.
THEOREM OlderVerifiers == SuccSpec => []OlderVerifiersAgree
<1>1. SuccInit => SuccInv
  BY SuccStart, Zenon
<1>2. SuccInv /\ [SuccNext]_succVars => SuccInv'
  BY SuccStep, Zenon
<1>3. SuccInv => OlderVerifiersAgree
  BY OlderAgree, Zenon
<1> QED
  BY <1>1, <1>2, <1>3, PTL DEF SuccSpec

\* A record's lineage is finite and reaches back only.
LEMMA LineageBounded ==
    ASSUME SuccInv, NEW j \in DOMAIN files
    PROVE  lineage[j] \subseteq 1 .. j /\ IsFiniteSet(lineage[j])
<1> DEFINE N == Len(files)
           T == {n \in Nat : n <= N => \A k \in 0 .. n : lineage[k] \subseteq 1 .. k}
<1>0. N \in Nat /\ DOMAIN files = 1 .. N /\ \A k \in 1 .. N : files[k].prev \in 0 .. k - 1
  <2>1. N \in Nat /\ DOMAIN files = 1 .. N
    BY SMTT(60)  DEF SuccInv
  <2>2. ASSUME NEW k \in 1 .. N PROVE files[k].prev \in 0 .. k - 1
    BY <2>1, SMTT(60) DEF SuccInv, Chained
  <2> QED
    BY <2>1, <2>2, Zenon
<1> HIDE DEF N
<1>1. 0 \in T
  BY LineageSteps
<1>2. ASSUME NEW n \in Nat, n \in T PROVE n + 1 \in T
  <2> SUFFICES ASSUME n + 1 <= N PROVE \A k \in 0 .. n + 1 : lineage[k] \subseteq 1 .. k
    OBVIOUS
  <2>0. \A k \in 0 .. n : lineage[k] \subseteq 1 .. k
    BY <1>0, <1>2
  <2>1. n + 1 \in DOMAIN files /\ files[n + 1].prev \in 0 .. n
    BY <1>0
  <2>2. lineage[files[n + 1].prev] \subseteq 1 .. n
    BY <2>0, <2>1, SMTT(60)
  <2>3. lineage[n + 1] \subseteq {n + 1} \cup lineage[files[n + 1].prev]
    BY <2>1, LineageSteps, Zenon
  <2>4. lineage[n + 1] \subseteq 1 .. n + 1
    BY <2>2, <2>3
  <2> QED
    BY <2>0, <2>4
<1>3. N \in T
  <2> HIDE DEF T
  <2> QED
    BY <1>0, <1>1, <1>2, SetInduction, Zenon
<1>4. lineage[j] \subseteq 1 .. j /\ j \in Int /\ 1 \in Int
  BY <1>0, <1>3
<1> QED
  BY <1>4, FS_Interval, FS_Subset, Zenon

\* A proved record is proved in as many links as its lineage has.
LEMMA ShortLineage ==
    ASSUME SuccInv, NEW n \in 0 .. MaxDepth, NEW j \in handoffProved[MaxDepth],
           Cardinality(lineage[j]) <= n + 1
    PROVE  j \in handoffProved[n]
<1> DEFINE Short(m) == \A e \in 0 .. MaxDepth : \A k \in handoffProved[e] :
                          Cardinality(lineage[k]) <= m + 1 => k \in handoffProved[m]
           T == {m \in Nat : m <= MaxDepth => Short(m)}
<1>0. MaxDepth \in Nat
  BY SuccessionAssumption, Zenon
<1>1. ASSUME NEW e \in 0 .. MaxDepth, NEW k \in handoffProved[e], ~SelfCertified(k)
      PROVE  /\ e > 0 /\ k \in DOMAIN files /\ Hop(k)
             /\ files[k].prev \in handoffProved[e - 1]
             /\ Cardinality(lineage[k]) = Cardinality(lineage[files[k].prev]) + 1
             /\ Cardinality(lineage[files[k].prev]) \in Nat
             /\ Cardinality(lineage[files[k].prev]) >= 1
  <2> DEFINE p == files[k].prev
  <2>1. e > 0 /\ k \in DOMAIN files /\ Hop(k) /\ p \in handoffProved[e - 1]
    BY <1>1, ProvedSteps, Zenon
  <2>2. e - 1 \in 0 .. MaxDepth
    BY <1>0, <2>1, SMTT(60)
  <2>3. p \in DOMAIN files
    BY <2>1, <2>2, ProvedSteps, Zenon
  <2>4. p < k /\ k \in Nat /\ p \in Nat
    BY <2>1, <2>3, SMTT(60) DEF SuccInv
  <2>5. lineage[k] = lineage[p] \cup {k}
    BY <1>1, <2>1, LineageSteps, Zenon
  <2>6. IsFiniteSet(lineage[p]) /\ k \notin lineage[p]
    BY <2>3, <2>4, LineageBounded, SMTT(60)
  <2>7. p \in lineage[p]
    BY <2>3, LineageSteps, Zenon
  <2>8. Cardinality(lineage[p]) \in Nat
    BY <2>6, FS_CardinalityType, Zenon
  <2>9. Cardinality(lineage[k]) = Cardinality(lineage[p]) + 1
    BY <2>5, <2>6, FS_AddElement, Zenon
  <2>10. Cardinality(lineage[p]) # 0
    BY <2>6, <2>7, FS_EmptySet, Zenon
  <2> QED
    BY <2>1, <2>8, <2>9, <2>10, SMTT(60)
<1>2. ASSUME NEW e \in 0 .. MaxDepth, NEW k \in handoffProved[e], SelfCertified(k), NEW m \in 0 .. MaxDepth
      PROVE  k \in handoffProved[m]
  BY <1>2, ProvedSteps, Zenon
<1>3. 0 \in T
  <2> SUFFICES ASSUME NEW e \in 0 .. MaxDepth, NEW k \in handoffProved[e], Cardinality(lineage[k]) <= 0 + 1
               PROVE  k \in handoffProved[0]
    BY Zenon
  <2>1. SelfCertified(k)
    BY <1>1
  <2> QED
    BY <1>0, <1>2, <2>1, SMTT(60)
<1>4. ASSUME NEW m \in Nat, m \in T PROVE m + 1 \in T
  <2> SUFFICES ASSUME m + 1 <= MaxDepth, NEW e \in 0 .. MaxDepth, NEW k \in handoffProved[e],
                      Cardinality(lineage[k]) <= (m + 1) + 1
               PROVE  k \in handoffProved[m + 1]
    OBVIOUS
  <2>0. m + 1 \in 0 .. MaxDepth /\ m \in 0 .. MaxDepth /\ (m + 1) - 1 = m /\ m + 1 > 0
    BY <1>0, SMTT(60)
  <2>1. CASE SelfCertified(k)
    BY <1>2, <2>0, <2>1, Zenon
  <2>2. CASE ~SelfCertified(k)
    <3> DEFINE p == files[k].prev
               c == Cardinality(lineage[p])
    <3>1. /\ e > 0 /\ k \in DOMAIN files /\ Hop(k) /\ p \in handoffProved[e - 1]
          /\ Cardinality(lineage[k]) = c + 1 /\ c \in Nat
      BY <1>1, <2>2, Zenon
    <3>2. e - 1 \in 0 .. MaxDepth
      BY <1>0, <3>1, SMTT(60)
    <3>3. Cardinality(lineage[p]) <= m + 1
      BY <3>1, SMTT(60)
    <3>4. Short(m)
      BY <1>4, <2>0, SMTT(60)
    <3>5. p \in handoffProved[m]
      BY <3>1, <3>2, <3>3, <3>4, Zenon
    <3> QED
      BY <2>0, <3>1, <3>5, ProvedSteps, Zenon
  <2> QED
    BY <2>1, <2>2, Zenon
<1>5. n \in T
  <2> HIDE DEF T
  <2> QED
    BY <1>0, <1>3, <1>4, SetInduction
<1>6. MaxDepth \in 0 .. MaxDepth
  BY <1>0
<1> QED
  BY <1>0, <1>5, <1>6

\* The rule of the handoff walk, as a predicate of one state.
ProvedRule ==
    \A d \in 0 .. MaxDepth : \A j :
      j \in handoffProved[d] <=>
        /\ j \in DOMAIN files
        /\ SelfCertified(j) \/ (d > 0 /\ Hop(j) /\ files[j].prev \in handoffProved[d - 1])

\* It holds in every state.
LEMMA ProvedRules == SuccInv => ProvedRule
BY ProvedSteps, Zenon DEF ProvedRule

\* It holds in the next state.
LEMMA ProvedNext ==
    ASSUME SuccInv', NEW d \in 0 .. MaxDepth, NEW j
    PROVE  j \in handoffProved'[d] <=>
             /\ j \in DOMAIN files'
             /\ SelfCertified(j)' \/ (d > 0 /\ Hop(j)' /\ files'[j].prev \in handoffProved'[d - 1])
<1>1. ProvedRule'
  BY ProvedRules, PTL
<1> QED
  BY <1>1, Zenon DEF ProvedRule

\* An archive that grows takes no proof away.
LEMMA StillProved ==
    ASSUME SuccInv, SuccInv', UNCHANGED <<files, snow>>, archive \subseteq archive', NEW d \in 0 .. MaxDepth
    PROVE  handoffProved[d] \subseteq handoffProved'[d]
<1> DEFINE T == {n \in Nat : n <= MaxDepth => handoffProved[n] \subseteq handoffProved'[n]}
<1>0. MaxDepth \in Nat
  BY SuccessionAssumption, Zenon
<1>1. ASSUME NEW k PROVE (SelfCertified(k)' <=> SelfCertified(k)) /\ (Hop(k) => Hop(k)')
  BY Zenon   DEF SelfCertified, Hop, Linked, VerifyChainLink, TransferHop, RecoveryHop, VerifyRecovery, CountRecoveryQuorum
<1>2. 0 \in T
  <2>1. 0 \in 0 .. MaxDepth
    BY <1>0, SMTT(60)
  <2> SUFFICES ASSUME NEW k \in handoffProved[0] PROVE k \in handoffProved'[0]
    BY Zenon
  <2>2. k \in DOMAIN files' /\ SelfCertified(k)'
    BY <1>1, <2>1, ProvedSteps, SMTT(60)
  <2> QED
    BY <2>1, <2>2, ProvedNext, Zenon
<1>3. ASSUME NEW n \in Nat, n \in T PROVE n + 1 \in T
  <2> SUFFICES ASSUME n + 1 <= MaxDepth, NEW k \in handoffProved[n + 1] PROVE k \in handoffProved'[n + 1]
    OBVIOUS
  <2>1. n + 1 \in 0 .. MaxDepth /\ n \in 0 .. MaxDepth /\ (n + 1) - 1 = n /\ n + 1 > 0
    BY <1>0, SMTT(60)
  <2>2. k \in DOMAIN files /\ (SelfCertified(k) \/ (Hop(k) /\ files[k].prev \in handoffProved[n]))
    BY <2>1, ProvedSteps, Zenon
  <2>3. k \in DOMAIN files' /\ (SelfCertified(k)' \/ (Hop(k)' /\ files'[k].prev \in handoffProved'[n]))
    BY <1>0, <1>1, <1>3, <2>1, <2>2, SMTT(60)
  <2> QED
    BY <2>1, <2>3, ProvedNext, Zenon
<1>4. d \in T
  <2> HIDE DEF T
  <2> QED
    BY <1>0, <1>2, <1>3, SetInduction, SMTT(60)
<1> QED
  BY <1>0, <1>4

\* Only publishing changes the slot.
LEMMA SlotStep ==
    ASSUME SuccInv, [SuccNext]_succVars, head' # head
    PROVE  /\ UNCHANGED <<files, snow>> /\ archive' = archive \cup {head'}
           /\ head' \in DOMAIN files /\ Accepted(head')
<1>1. ASSUME NEW e, Write(e) PROVE FALSE
  BY <1>1, Zenon DEF Write
<1>2. ASSUME NEW i \in DOMAIN files, Publish(i)
      PROVE  /\ UNCHANGED <<files, snow>> /\ archive' = archive \cup {head'}
             /\ head' \in DOMAIN files /\ Accepted(head')
  BY <1>2, Zenon DEF Publish
<1>3. ~UNCHANGED succVars /\ ~SuccTick
  BY Zenon   DEF succVars, SuccTick
<1>4. ASSUME NEW i \in DOMAIN files, RunHandoff(i) \/ CmdRecover(i) \/ Renew(i) PROVE FALSE
  BY <1>1, <1>4, Zenon DEF RunHandoff, CmdRecover, Renew
<1> QED
  BY <1>2, <1>3, <1>4, Zenon DEF SuccNext

\* When a record on file proves its owner.
LEMMA ProvedHead ==
    ASSUME SuccInv, NEW i \in DOMAIN files
    PROVE  Proves(i) <=> snow < files[i].expires /\
             (SelfCertified(i) \/ (files[i].prev # 0 /\ i \in handoffProved[MaxDepth]))
<1>0. files[i] \in SuccFile /\ i # 0
  BY DEF SuccInv
<1>1. files[i].owner \in Owners /\ i # 0 /\ Nobody \notin Owners
  BY <1>0, SuccessionAssumption, Zenon DEF SuccFile
<1>2. Descends(i, files[i].owner)
  BY <1>1, Zenon DEF Descends
<1> QED
  BY <1>1, <1>2, Zenon DEF Proves, Verdict, VerifyAuthorityChain, WithHandoffs, HandoffWalk

\* When the record in the slot proves its owner.
HeadRule ==
    Proves(head) <=> snow < files[head].expires /\
        (SelfCertified(head) \/ (files[head].prev # 0 /\ head \in handoffProved[MaxDepth]))

\* That rule holds in every state.
LEMMA HeadRules == SuccInv => HeadRule
<1> SUFFICES ASSUME SuccInv PROVE HeadRule
  BY Zenon
<1>1. head \in DOMAIN files
  BY Zenon   DEF SuccInv
<1> QED
  BY <1>1, ProvedHead, Zenon DEF HeadRule

\* A step that puts a successor of a proved record into the slot: the new
\* record is proved exactly if its own hop is.
LEMMA SuccessorProved ==
    ASSUME SuccInv, SuccInv', [SuccNext]_succVars, head' # head, Proves(head),
           files[head'].prev = head, snow < files[head'].expires,
           Cardinality(lineage[head]) <= MaxDepth
    PROVE  /\ (SelfCertified(head') \/ TransferHop(head') \/ (files[head'].signer = files[head'].owner /\ RecoveryHop(head')))
                => Proves(head)'
           /\ Proves(head)' => SelfCertified(head') \/ TransferHop(head') \/ RecoveryHop(head')
<1>0. MaxDepth \in Nat /\ MaxDepth - 1 \in 0 .. MaxDepth /\ MaxDepth \in 0 .. MaxDepth /\ MaxDepth > 0
  BY SuccessionAssumption
<1>1. /\ UNCHANGED <<files, snow>> /\ archive' = archive \cup {head'} /\ head' \in DOMAIN files
  BY SlotStep, Zenon
<1>2. head \in DOMAIN files /\ head \in archive /\ head # 0
  BY SMTT(60)  DEF SuccInv
<1>3. head \in handoffProved[MaxDepth]
  <2>1. SelfCertified(head) \/ head \in handoffProved[MaxDepth]
    BY HeadRules, Zenon DEF HeadRule
  <2> QED
    BY <1>0, <1>2, <2>1, ProvedSteps, Zenon
<1>4. head \in handoffProved[MaxDepth - 1]
  <2>1. Cardinality(lineage[head]) <= (MaxDepth - 1) + 1
    BY <1>0
  <2> QED
    BY <1>0, <1>3, <2>1, ShortLineage, Zenon
<1>5. head \in handoffProved'[MaxDepth - 1]
  BY <1>0, <1>1, <1>4, StillProved, Zenon
<1>6. HeadRule'
  BY HeadRules, PTL
<1>7. Linked(head)'
  <2>1. Chained(files[head']) /\ files[head'] \in SuccFile /\ files[head] \in SuccFile
    BY <1>1, <1>2, SMTT(60) DEF SuccInv
  <2>2. files[head'].seq = files[head].seq + 1 /\ files[head].seq \in Nat
    BY <1>2, <2>1, Zenon DEF Chained, SuccFile
  <2> QED
    BY <1>1, <1>2, <2>2, SMTT(60) DEF Linked, VerifyChainLink
<1>8. /\ SelfCertified(head)' <=> SelfCertified(head')
      /\ Hop(head)' <=> TransferHop(head') \/ (files[head'].signer = files[head'].owner /\ RecoveryHop(head'))
  <2>1. SelfCertified(head)' <=> SelfCertified(head')
    BY <1>1, Zenon DEF SelfCertified
  <2>2. TransferHop(head)' <=> TransferHop(head')
    BY <1>1, Zenon DEF TransferHop
  <2>3. RecoveryHop(head)' <=> RecoveryHop(head')
    BY <1>1, Zenon DEF RecoveryHop, VerifyRecovery, CountRecoveryQuorum
  <2>4. Hop(head)' <=> TransferHop(head)' \/ (files'[head'].signer = files'[head'].owner /\ RecoveryHop(head)')
    BY <1>7, Zenon DEF Hop
  <2> QED
    BY <1>1, <2>1, <2>2, <2>3, <2>4, Zenon
<1>9. head' \in handoffProved'[MaxDepth] <=> SelfCertified(head)' \/ Hop(head)'
  BY <1>0, <1>1, <1>5, ProvedNext, Zenon
<1> QED
  BY <1>1, <1>2, <1>6, <1>8, <1>9, Zenon DEF HeadRule

\* A published transfer of a proved record is proved.
LEMMA TransferStep ==
    ASSUME SuccInv, SuccInv', [SuccNext]_succVars
    PROVE  TransferProves
BY SuccessorProved, Zenon DEF TransferProves

\* What the tools build, the store stores and the resolver proves
\* (buildHandoffEnvelope, PutWithEvidence, verifyHandoffWalk): publishing a
\* transfer of a proved record, in time, leaves a proved record in the slot
\* until the lineage outgrows the walk; for any number of owners and records
\* and any depth.
THEOREM HandoffsStayProvable == SuccSpec => HandoffStaysProvable
<1>1. SuccInit => SuccInv
  BY SuccStart, Zenon
<1>2. SuccInv /\ [SuccNext]_succVars => SuccInv'
  BY SuccStep, Zenon
<1>3. SuccInv /\ SuccInv' /\ [SuccNext]_succVars => TransferProves
  BY TransferStep, Zenon
<1> QED
  BY <1>1, <1>2, <1>3, PTL DEF SuccSpec, HandoffStaysProvable

\* A published recovery of a proved record is proved exactly if the report said
\* so.
LEMMA ReportStep ==
    ASSUME SuccInv, SuccInv', [SuccNext]_succVars
    PROVE  ReportHolds
<1> SUFFICES ASSUME head' # head, Proves(head), files[head'].prev = head, IsRecovery(head'),
                    ~SelfCertified(head'), snow < files[head'].expires, Cardinality(lineage[head]) <= MaxDepth
             PROVE  LET report == CmdVerifyRecovery(files[head'].evidence, head, snow)
                    IN  /\ report # "below threshold"
                        /\ Proves(head)' <=> report = "executable"
  BY Zenon   DEF ReportHolds
<1> DEFINE e == files[head']
           ev == e.evidence
           quorum == CountRecoveryQuorum(ev, head)
           due == ev.notBefore
           earliest == files[head].created + Timelock
<1>1. head' \in DOMAIN files /\ Accepted(head')
  BY SlotStep, Zenon
<1>2. head \in DOMAIN files /\ head # 0
  BY SMTT(60) DEF SuccInv
<1>3. e \in SuccFile /\ files[head] \in SuccFile /\ Chained(e)
  BY <1>1, <1>2, SMTT(60) DEF SuccInv
<1>4. e.prev # 0 /\ ~TransferHop(head') /\ e.signer # files[head].owner
  BY Zenon   DEF IsRecovery, TransferHop
<1>5. ev # Nobody /\ ev.newOwner = e.owner /\ e.signer = e.owner
  BY <1>3, <1>4, Zenon DEF Chained
<1>6. ev \in [anchor : Nat, newOwner : Owners, notBefore : Int, sigs : SUBSET Custodians]
  BY <1>3, <1>5, Zenon DEF SuccFile
<1>7. quorum \in Nat /\ Threshold \in Nat
  <2>1. IsFiniteSet(ev.sigs \cap Custodians)
    BY SuccessionAssumption, FS_Subset, Zenon
  <2>2. Cardinality(ev.sigs \cap Custodians) \in Nat
    BY <2>1, FS_CardinalityType, Zenon
  <2> QED
    BY <2>2, SuccessionAssumption, Zenon DEF CountRecoveryQuorum
<1>8. due \in Int /\ earliest \in Int /\ snow \in Int
  <2>1. snow \in Int
    BY Zenon   DEF SuccInv
  <2>2. due \in Int
    BY <1>6, Zenon
  <2>3. files[head].created \in Int
    BY <1>3, Zenon DEF SuccFile
  <2>4. earliest \in Int
    BY <2>3, SuccessionAssumption, SMTT(60)
  <2> QED
    BY <2>1, <2>2, <2>4, Zenon
<1>9. Displaces(head', head)
  <2>1. snow < files[head].expires
    BY Zenon   DEF Proves
  <2>2. SlotLive
    BY <1>2, <1>3, <1>8, <2>1, SuccessionAssumption, SMTT(60) DEF SlotLive, SuccFile
  <2> QED
    BY <1>1, <2>2, Zenon DEF Accepted
<1>10. quorum >= Threshold /\ due >= earliest
  BY <1>4, <1>9, Zenon DEF Displaces, RecoveryAcceptable, VerifyRecovery
<1>11. CmdVerifyRecovery(ev, head, snow) = IF snow < due THEN "not elapsed" ELSE "executable"
  <2>1. ~(quorum < Threshold) /\ ~(due < earliest)
    BY <1>7, <1>8, <1>10, SMTT(60)
  <2> QED
    BY <2>1, Zenon DEF CmdVerifyRecovery
<1>12. RecoveryHop(head') <=> snow >= due
  BY <1>5, <1>10, Zenon DEF RecoveryHop, VerifyRecovery
<1>13. Proves(head)' <=> RecoveryHop(head')
  BY <1>4, <1>5, SuccessorProved, Zenon
<1> HIDE DEF e, ev, quorum, due, earliest
<1>14. CmdVerifyRecovery(ev, head, snow) # "below threshold"
       /\ (Proves(head)' <=> CmdVerifyRecovery(ev, head, snow) = "executable")
  <2>1. (snow >= due) <=> ~(snow < due)
    BY <1>8
  <2>2. CASE snow < due
    BY <1>11, <1>12, <1>13, <2>1, <2>2, Zenon
  <2>3. CASE ~(snow < due)
    BY <1>11, <1>12, <1>13, <2>1, <2>3, SMTT(60)
  <2> QED
    BY <2>2, <2>3, Zenon
<1> QED
  BY <1>14, Zenon DEF ev, e

\* verify-recovery foretells the outcome (cmdVerifyRecovery, PutWithEvidence,
\* verifyHandoffWalk): a published recovery of a proved record is proved at
\* once if the declaration was reported executable, otherwise not, and one
\* below the threshold never takes the slot; for every policy, clock and depth.
THEOREM ReportIsRight == SuccSpec => ReportForetells
<1>1. SuccInit => SuccInv
  BY SuccStart, Zenon
<1>2. SuccInv /\ [SuccNext]_succVars => SuccInv'
  BY SuccStep, Zenon
<1>3. SuccInv /\ SuccInv' /\ [SuccNext]_succVars => ReportHolds
  BY ReportStep, Zenon
<1> QED
  BY <1>1, <1>2, <1>3, PTL DEF SuccSpec, ReportForetells

-----------------------------------------------------------------------------
(***************************************************************************)
(* The walks: a clean miss is explained.                                   *)
(***************************************************************************)

\* What the walks keep per walk, and the shared table and penalties, are what
\* the declarations say; no penalty runs longer than its window.
WalksTyped ==
    /\ walkClock \in Nat
    /\ table \subseteq Node
    /\ deadUntil \in [Node -> Nat]
    /\ phase \in [Walk -> {"new", "round", "probing", "done"}]
    /\ walkResult \in [Walk -> {"none", "miss", "busy", "degraded", "found", "nodes"}]
    /\ shortlist \in [Walk -> SUBSET Node] /\ queried \in [Walk -> SUBSET Node]
    /\ batch \in [Walk -> SUBSET Node] /\ walkAnswered \in [Walk -> SUBSET Node]
    /\ width \in [Walk -> Nat \ {0}] /\ rounds \in [Walk -> Nat]
    /\ degraded \in [Walk -> BOOLEAN] /\ cancelled \in [Walk -> BOOLEAN]

\* A penalty ends within its window from now.
PenaltiesEnd == \A c \in Node : deadUntil[c] <= walkClock + PenaltyWindow

\* Whom a walk has asked and is not asking has answered it in full, unless a
\* probe of it failed or was throttled, or its caller has gone.
AskedAnswered ==
    \A w \in Walk :
        /\ phase[w] # "probing" => batch[w] = {}
        /\ ~cancelled[w] /\ ~degraded[w] => queried[w] \subseteq walkAnswered[w] \cup batch[w]

\* The inductive invariant of the walks.
WalkInv == WalksTyped /\ PenaltiesEnd /\ AskedAnswered /\ CleanMissExplained

\* walkBatch: a round without a probe has nobody left to ask.
LEMMA EmptyBatch ==
    ASSUME WalksTyped, NEW w \in Walk, Batch(w) = {}
    PROVE  Candidates(w) = {}
<1> DEFINE C == Candidates(w)
           first == C \cap proven[w]
<1> SUFFICES ASSUME C # {} PROVE FALSE
  BY Zenon
<1>1. C \subseteq Nat
  BY WalkAssumption, Zenon DEF Candidates, WalksTyped
<1>2. \E c \in C : \A d \in C : ~Earlier(w, d, c)
  <2>1. CASE first # {}
    <3>1. PICK c \in first : \A d \in first : c <= d
      BY <1>1, <2>1, LeastNat, Zenon
    <3> QED
      BY <1>1, <3>1 DEF Earlier
  <2>2. CASE first = {}
    <3>1. PICK c \in C : \A d \in C : c <= d
      BY <1>1, LeastNat, Zenon
    <3> QED
      BY <1>1, <2>2, <3>1 DEF Earlier
  <2> QED
    BY <2>1, <2>2, Zenon
<1>3. PICK c \in C : \A d \in C : ~Earlier(w, d, c)
  BY <1>2, Zenon
<1>4. {d \in C : Earlier(w, d, c)} = {}
  BY <1>3, Zenon
<1>5. Cardinality({d \in C : Earlier(w, d, c)}) = 0
  BY <1>4, FS_EmptySet, Zenon
<1>6. c \in Batch(w)
  BY <1>3, <1>5 DEF Batch, WalksTyped
<1> QED
  BY <1>6, Zenon

\* The types hold at first.
LEMMA WalkStart ==
    ASSUME WalkInit
    PROVE  WalkInv
<1>1. WalksTyped
  BY WalkAssumption, Zenon DEF WalkInit, WalksTyped
<1>2. PenaltiesEnd
  BY WalkAssumption DEF WalkInit, PenaltiesEnd
<1>3. AskedAnswered /\ CleanMissExplained
  BY Zenon   DEF WalkInit, AskedAnswered, CleanMissExplained
<1> QED
  BY <1>1, <1>2, <1>3, Zenon DEF WalkInv

\* acquireWalk: a walk that has nobody to ask misses, any other begins.
LEMMA WalkBegins ==
    ASSUME WalkInv, NEW w \in Walk, WalkBegin(w)
    PROVE  WalkInv'
<1> DEFINE how == walkResult'[w]
<1>0. phase[w] = "new" /\ UNCHANGED <<walkClock, table, deadUntil, queried, batch, width, rounds,
                                      degraded, cancelled, walkAnswered>>
  BY Zenon   DEF WalkBegin
<1>1. /\ walkResult' = [walkResult EXCEPT ![w] = IF Shortlist = {} THEN "miss" ELSE
                           IF kind[w] = "get" /\ Cardinality(slots) >= WalkSlots THEN "busy" ELSE "none"]
      /\ shortlist' = [shortlist EXCEPT ![w] = Shortlist]
  BY Zenon    DEF WalkBegin
<1>2. \E p \in {"round", "done"} : phase' = [phase EXCEPT ![w] = p]
  BY Zenon    DEF WalkBegin
<1>3. Shortlist \subseteq Node
  BY Zenon   DEF Shortlist, Closest, WalkInv, WalksTyped
<1>4. WalksTyped'
  BY <1>0, <1>1, <1>2, <1>3, Zenon DEF WalkInv, WalksTyped
<1>5. PenaltiesEnd'
  BY <1>0, Zenon DEF WalkInv, PenaltiesEnd
<1>6. AskedAnswered'
  BY <1>0, <1>2, Zenon DEF WalkInv, AskedAnswered, WalksTyped
<1>7. CleanMissExplained'
  <2> SUFFICES ASSUME NEW v \in Walk, phase'[v] = "done", walkResult'[v] = "miss", ~cancelled'[v],
                      rounds'[v] < MaxRounds, NEW c \in shortlist'[v] \ {Self}
               PROVE  c \in walkAnswered'[v] \/ (c \notin queried'[v] /\ deadUntil'[c] > 0)
    BY Zenon   DEF CleanMissExplained
  <2>1. CASE v = w
    BY <1>1, <2>1, Zenon DEF WalkInv, WalksTyped
  <2>2. CASE v # w
    BY <1>0, <1>1, <1>2, <2>2, Zenon DEF WalkInv, WalksTyped, CleanMissExplained
  <2> QED
    BY <2>1, <2>2, Zenon
<1> QED
  BY <1>4, <1>5, <1>6, <1>7, Zenon DEF WalkInv

\* The end of a walk: it misses cleanly only when it has asked everybody it may
\* ask and each of them answered.
LEMMA WalkEnds ==
    ASSUME WalkInv, NEW w \in Walk, phase[w] = "round", rounds[w] = MaxRounds \/ Batch(w) = {},
           WalkEnd(w),
           UNCHANGED <<kind, walkClock, table, confirmed, deadUntil, shortlist, proven, width,
                       best, missed, degraded, cancelled, walkAnswered>>
    PROVE  WalkInv'
<1>1. /\ phase' = [phase EXCEPT ![w] = "done"]
      /\ walkResult' = [walkResult EXCEPT ![w] = IF kind[w] = "get" THEN GetOutcome(w) ELSE "nodes"]
      /\ UNCHANGED <<queried, batch, rounds>>
  BY Zenon   DEF WalkEnd
<1>2. WalksTyped'
  BY <1>1, Zenon DEF WalkInv, WalksTyped, GetOutcome
<1>3. PenaltiesEnd'
  BY Zenon   DEF WalkInv, PenaltiesEnd
<1>4. AskedAnswered'
  BY <1>1, Zenon DEF WalkInv, AskedAnswered, WalksTyped
<1>5. CleanMissExplained'
  <2> SUFFICES ASSUME NEW v \in Walk, phase'[v] = "done", walkResult'[v] = "miss", ~cancelled'[v],
                      rounds'[v] < MaxRounds, NEW c \in shortlist'[v] \ {Self}
               PROVE  c \in walkAnswered'[v] \/ (c \notin queried'[v] /\ deadUntil'[c] > 0)
    BY Zenon   DEF CleanMissExplained
  <2>1. CASE v = w
    <3>1. ~degraded[w] /\ ~cancelled[w]
      BY <1>1, <2>1, Zenon DEF WalkInv, WalksTyped, GetOutcome
    <3>2. queried[w] \subseteq walkAnswered[w]
      BY <3>1, Zenon DEF WalkInv, AskedAnswered
    <3>3. rounds[w] < MaxRounds /\ rounds[w] \in Nat /\ MaxRounds \in Nat
      BY <1>1, <2>1, WalkAssumption, Zenon DEF WalkInv, WalksTyped
    <3>4. Candidates(w) = {}
      BY <3>3, EmptyBatch DEF WalkInv
    <3>5. c \in shortlist[w] /\ c # Self /\ c \in Node
      BY <2>1, Zenon DEF WalkInv, WalksTyped
    <3>6. c \in queried[w] \/ Penalized(c)
      BY <3>4, <3>5, Zenon DEF Candidates
    <3>7. Penalized(c) => deadUntil[c] > 0
      BY <3>5 DEF Penalized, WalkInv, WalksTyped
    <3> QED
      BY <1>1, <2>1, <3>2, <3>6, <3>7, Zenon
  <2>2. CASE v # w
    BY <1>1, <2>2, Zenon DEF WalkInv, WalksTyped, CleanMissExplained
  <2> QED
    BY <2>1, <2>2, Zenon
<1> QED
  BY <1>2, <1>3, <1>4, <1>5, Zenon DEF WalkInv

\* A round that probes somebody.
LEMMA WalkProbes ==
    ASSUME WalkInv, NEW w \in Walk, WalkRound(w)
    PROVE  WalkInv'
<1>1. CASE rounds[w] = MaxRounds \/ Batch(w) = {}
  BY <1>1, WalkEnds, Zenon DEF WalkRound
<1>2. CASE ~(rounds[w] = MaxRounds \/ Batch(w) = {})
  <2>1. /\ phase[w] = "round" /\ phase' = [phase EXCEPT ![w] = "probing"]
        /\ batch' = [batch EXCEPT ![w] = Batch(w)]
        /\ queried' = [queried EXCEPT ![w] = queried[w] \cup Batch(w)]
        /\ rounds' = [rounds EXCEPT ![w] = rounds[w] + 1]
        /\ UNCHANGED <<walkClock, table, deadUntil, shortlist, width, degraded, cancelled,
                       walkAnswered, walkResult>>
    BY <1>2, Zenon DEF WalkRound
  <2>2. Batch(w) \subseteq Node
    BY Zenon   DEF Batch, Candidates, WalkInv, WalksTyped
  <2>3. WalksTyped'
    BY <2>1, <2>2 DEF WalkInv, WalksTyped
  <2>4. PenaltiesEnd'
    BY <2>1, Zenon DEF WalkInv, PenaltiesEnd
  <2>5. AskedAnswered'
    BY <2>1, Zenon DEF WalkInv, AskedAnswered, WalksTyped
  <2>6. CleanMissExplained'
    BY <2>1, Zenon DEF WalkInv, CleanMissExplained, WalksTyped
  <2> QED
    BY <2>3, <2>4, <2>5, <2>6, Zenon DEF WalkInv
<1> QED
  BY <1>1, <1>2, Zenon

\* A penalty that runs is only ever prolonged.
LEMMA PenaltyKept ==
    ASSUME WalkInv, NEW S, NEW t, t = walkClock + PenaltyWindow,
           deadUntil' = [c \in Node |-> IF c \in S THEN t ELSE deadUntil[c]]
    PROVE  /\ deadUntil' \in [Node -> Nat]
           /\ \A c \in Node : deadUntil'[c] <= t /\ (deadUntil[c] > 0 => deadUntil'[c] > 0)
<1>1. t \in Nat /\ \A c \in Node : deadUntil[c] \in Nat /\ deadUntil[c] <= t
  BY WalkAssumption DEF WalkInv, WalksTyped, PenaltiesEnd
<1> QED
  BY <1>1

\* The results of a round: one that leaves the walk undegraded was answered in
\* full by everybody it asked.
LEMMA WalkCollects ==
    ASSUME WalkInv, NEW w \in Walk, WalkCollect(w)
    PROVE  WalkInv'
<1>1. PICK ans \in [batch[w] -> {"ok", "fail", "throttled", "cancelled"}],
           promoted \in SUBSET MultiHomed :
        /\ \A c \in DOMAIN ans : ans[c] \in Answers(w, c)
        /\ table' = Absorb(w, ans, promoted).table
        /\ shortlist' = [shortlist EXCEPT ![w] = Absorb(w, ans, promoted).shortlist]
        /\ deadUntil' = [c \in Node |-> IF kind[w] = "get" /\ c \in Corpses(w, ans, promoted)
                                        THEN walkClock + PenaltyWindow ELSE deadUntil[c]]
        /\ degraded' = [degraded EXCEPT ![w] =
                          degraded[w] \/ \E c \in DOMAIN ans : Failed(w, ans[c]) \/ ans[c] = "throttled"]
        /\ width' = [width EXCEPT ![w] = Widened(w, ans)]
        /\ walkAnswered' = [walkAnswered EXCEPT ![w] =
                              walkAnswered[w] \cup {c \in DOMAIN ans : ans[c] = "ok"}]
  BY Zenon    DEF WalkCollect
<1>2. /\ phase[w] = "probing" /\ phase' = [phase EXCEPT ![w] = "round"]
      /\ batch' = [batch EXCEPT ![w] = {}]
      /\ UNCHANGED <<walkClock, queried, rounds, cancelled, walkResult>>
  BY Zenon   DEF WalkCollect
<1>3. DOMAIN ans = batch[w] /\ batch[w] \subseteq Node
  BY Zenon   DEF WalkInv, WalksTyped
<1>4. Taught(ans) \subseteq Node
  BY <1>3, WalkAssumption, ZenonT(30) DEF Taught
<1>5. /\ Absorb(w, ans, promoted).shortlist = shortlist[w] \cup Taught(ans)
      /\ Absorb(w, ans, promoted).table \subseteq table \cup batch[w] \cup Taught(ans)
  BY <1>3, Zenon DEF Absorb
<1>6. Widened(w, ans) \in Nat \ {0}
  BY WalkAssumption DEF Widened, WalkInv, WalksTyped
<1>7. /\ deadUntil' \in [Node -> Nat]
      /\ \A c \in Node : deadUntil'[c] <= walkClock + PenaltyWindow /\ (deadUntil[c] > 0 => deadUntil'[c] > 0)
  <2> DEFINE S == {c \in Corpses(w, ans, promoted) : kind[w] = "get"}
             t == walkClock + PenaltyWindow
  <2>1. deadUntil' = [c \in Node |-> IF c \in S THEN t ELSE deadUntil[c]]
    BY <1>1, Zenon
  <2> HIDE DEF S
  <2> QED
    BY <2>1, PenaltyKept, Zenon
<1>8. WalksTyped'
  <2>1. table' \subseteq Node
    BY <1>1, <1>3, <1>4, <1>5, Zenon DEF WalkInv, WalksTyped
  <2>2. shortlist' \in [Walk -> SUBSET Node]
    BY <1>1, <1>4, <1>5, Zenon DEF WalkInv, WalksTyped
  <2>3. width' \in [Walk -> Nat \ {0}]
    BY <1>1, <1>6, Zenon DEF WalkInv, WalksTyped
  <2>4. walkAnswered' \in [Walk -> SUBSET Node]
    BY <1>1, <1>3, Zenon DEF WalkInv, WalksTyped
  <2>5. degraded' \in [Walk -> BOOLEAN]
    BY <1>1, Zenon DEF WalkInv, WalksTyped
  <2>6. phase' \in [Walk -> {"new", "round", "probing", "done"}] /\ batch' \in [Walk -> SUBSET Node]
    BY <1>2, Zenon DEF WalkInv, WalksTyped
  <2> QED
    BY <1>2, <1>7, <2>1, <2>2, <2>3, <2>4, <2>5, <2>6, Zenon DEF WalkInv, WalksTyped
<1>9. PenaltiesEnd'
  BY <1>2, <1>7, Zenon DEF PenaltiesEnd
<1>10. AskedAnswered'
  <2> SUFFICES ASSUME NEW v \in Walk
               PROVE  /\ phase'[v] # "probing" => batch'[v] = {}
                      /\ ~cancelled'[v] /\ ~degraded'[v] => queried'[v] \subseteq walkAnswered'[v] \cup batch'[v]
    BY Zenon   DEF AskedAnswered
  <2>1. CASE v # w
    BY <1>1, <1>2, <2>1, Zenon DEF WalkInv, AskedAnswered, WalksTyped
  <2>2. CASE v = w
    <3>1. batch'[w] = {}
      BY <1>2, Zenon DEF WalkInv, WalksTyped
    <3>2. ASSUME ~cancelled'[w], ~degraded'[w] PROVE queried'[w] \subseteq walkAnswered'[w]
      <4>1. ~cancelled[w] /\ ~degraded[w] /\ \A c \in DOMAIN ans : ~Failed(w, ans[c]) /\ ans[c] # "throttled"
        BY <1>1, <1>2, <3>2, Zenon DEF WalkInv, WalksTyped
      <4>2. \A c \in batch[w] : ans[c] = "ok"
        BY <1>1, <1>3, <4>1, Zenon DEF Answers, Failed
      <4>3. walkAnswered'[w] = walkAnswered[w] \cup batch[w]
        BY <1>1, <1>3, <4>2, Zenon DEF WalkInv, WalksTyped
      <4> QED
        BY <1>2, <4>1, <4>3, Zenon DEF WalkInv, AskedAnswered
    <3> QED
      BY <2>2, <3>1, <3>2, Zenon
  <2> QED
    BY <2>1, <2>2, Zenon
<1>11. CleanMissExplained'
  <2> SUFFICES ASSUME NEW v \in Walk, phase'[v] = "done", walkResult'[v] = "miss", ~cancelled'[v],
                      rounds'[v] < MaxRounds, NEW c \in shortlist'[v] \ {Self}
               PROVE  c \in walkAnswered'[v] \/ (c \notin queried'[v] /\ deadUntil'[c] > 0)
    BY Zenon   DEF CleanMissExplained
  <2>1. v # w /\ phase[v] = "done" /\ shortlist'[v] = shortlist[v] /\ walkAnswered'[v] = walkAnswered[v]
    BY <1>1, <1>2, Zenon DEF WalkInv, WalksTyped
  <2>2. c \in Node
    BY <2>1, Zenon DEF WalkInv, WalksTyped
  <2>3. c \in walkAnswered[v] \/ (c \notin queried[v] /\ deadUntil[c] > 0)
    BY <1>2, <2>1, Zenon DEF WalkInv, CleanMissExplained
  <2> QED
    BY <1>2, <1>7, <2>1, <2>2, <2>3, Zenon
<1> QED
  BY <1>8, <1>9, <1>10, <1>11, Zenon DEF WalkInv

\* The end of a walk's context, and time: neither asks anybody.
LEMMA WalkWaits ==
    ASSUME WalkInv, WalkTick \/ \E w \in Walk : WalkCancel(w)
    PROVE  WalkInv'
<1>1. ASSUME NEW w \in Walk, WalkCancel(w) PROVE WalkInv'
  <2>1. /\ cancelled' = [cancelled EXCEPT ![w] = TRUE] /\ phase[w] \in {"round", "probing"}
        /\ UNCHANGED <<walkClock, table, deadUntil, phase, walkResult, shortlist, queried, batch,
                       walkAnswered, width, rounds, degraded>>
    BY <1>1, Zenon DEF WalkCancel
  <2>2. WalksTyped' /\ PenaltiesEnd'
    BY <2>1, Zenon DEF WalkInv, WalksTyped, PenaltiesEnd
  <2>3. AskedAnswered' /\ CleanMissExplained'
    BY <2>1, Zenon DEF WalkInv, WalksTyped, AskedAnswered, CleanMissExplained
  <2> QED
    BY <2>2, <2>3, Zenon DEF WalkInv
<1>2. ASSUME WalkTick PROVE WalkInv'
  <2>1. /\ walkClock' = walkClock + 1
        /\ UNCHANGED <<table, deadUntil, phase, walkResult, shortlist, queried, batch,
                       walkAnswered, width, rounds, degraded, cancelled>>
    BY <1>2, Zenon DEF WalkTick
  <2>2. WalksTyped' /\ PenaltiesEnd'
    BY <2>1, WalkAssumption DEF WalkInv, WalksTyped, PenaltiesEnd
  <2>3. AskedAnswered' /\ CleanMissExplained'
    BY <2>1, Zenon DEF WalkInv, AskedAnswered, CleanMissExplained
  <2> QED
    BY <2>2, <2>3, Zenon DEF WalkInv
<1> QED
  BY <1>1, <1>2, Zenon

\* However the walks interleave, and whatever the probes return: a walk that
\* reports a clean miss (IterativeGetDetailed without ErrDegradedMiss) has an
\* answer in full from every contact it learned of, except those a failure had
\* penalized when it wanted to ask them, for any network, any number of walks
\* and any penalty window.
THEOREM CleanMisses == WalkSpec => []CleanMissExplained
<1>1. WalkInit => WalkInv
  BY WalkStart, Zenon
<1>2. WalkInv /\ [WalkNext]_walkVars => WalkInv'
  <2> SUFFICES ASSUME WalkInv, [WalkNext]_walkVars PROVE WalkInv'
    BY Zenon
  <2>1. ASSUME NEW w \in Walk, WalkStep(w) PROVE WalkInv'
    BY <2>1, WalkBegins, WalkProbes, WalkCollects, Zenon DEF WalkStep
  <2>2. CASE UNCHANGED walkVars
    BY <2>2, Zenon DEF walkVars, WalkInv, WalksTyped, PenaltiesEnd, AskedAnswered, CleanMissExplained
  <2> QED
    BY <2>1, <2>2, WalkWaits, Zenon DEF WalkNext
<1>3. WalkInv => CleanMissExplained
  BY Zenon   DEF WalkInv
<1> QED
  BY <1>1, <1>2, <1>3, PTL DEF WalkSpec

===============================================================================
