----------------------------- MODULE Difficulty -----------------------------
(***************************************************************************)
(* The Appendix A.4 proof-of-work difficulty of one node                   *)
(* (internal/dht/gossip.go): its own D, retargeted every PoWRetargetBlock  *)
(* first co-signs, the ring of values that peers advertise in their        *)
(* witness responses, the state file, and the two uses of the result: the  *)
(* bits a claimant mines at and the floor a verifier holds claims to       *)
(* (resolver.effectivePoWDifficulty).                                      *)
(***************************************************************************)
EXTENDS Integers, FiniteSets, FiniteSetsExt, Sequences, SequencesExt, TLC

CONSTANTS
    DInit,                                     \* PoWDifficultyInit
    DCeiling,                                  \* maxObservedDifficulty
    RetargetBlock,                             \* PoWRetargetBlock
    TargetInterval,                            \* PoWTargetInterval
    RingSize,                                  \* difficultyRingSize
    Gossiped,                                  \* the values peers advertise
    Told,                                      \* those of peers that tell their own D
    MaxCosigns, MaxDiffRestarts, MaxDiffClock  \* bounds

VARIABLES
    dnow,  \* the node's clock
    diff,  \* [current, accepted, blockStart, observed]: difficultyState
    file,  \* the state file
    cosigns, diffRestarts

diffVars == <<dnow, diff, file, cosigns, diffRestarts>>

NoFile == [current |-> 0, accepted |-> 0, blockStart |-> 0, observed |-> <<>>]
newDifficultyState(now) == [current |-> DInit, accepted |-> 0, blockStart |-> now, observed |-> <<>>]

----------------------------------------------------------------------------
\* clamp(round(log2(target / actual)), -2, 2), by comparing squares.
LogRatio(actual, target) ==
    CASE actual <= 0 -> 2
      [] actual > 0 /\ target * target >= 8 * actual * actual -> 2
      [] actual > 0 /\ target * target < 8 * actual * actual /\ target * target >= 2 * actual * actual -> 1
      [] target * target < 2 * actual * actual /\ 2 * target * target >= actual * actual -> 0
      [] 2 * target * target < actual * actual /\ 8 * target * target >= actual * actual -> -1
      [] OTHER -> -2

RetargetDifficulty(d, actual, target) ==
    IF target <= 0 THEN Max({d, DInit}) ELSE Max({d + LogRatio(actual, target), DInit})

recordAccepted(d) ==
    IF d.accepted + 1 < RetargetBlock THEN [d EXCEPT !.accepted = @ + 1]
    ELSE [d EXCEPT !.current = RetargetDifficulty(@, dnow - d.blockStart, RetargetBlock * TargetInterval),
                   !.blockStart = dnow, !.accepted = 0]

InRange(v) == DInit <= v /\ v <= DCeiling
LastN(s) == IF Len(s) > RingSize THEN SubSeq(s, Len(s) - RingSize + 1, Len(s)) ELSE s

\* Fault: the middle of the ring is taken before it is sorted.
MedianUnsorted(ring) == ring[((Len(ring) - 1) \div 2) + 1]

\* The lower middle of the sorted ring.
medianObserved(ring) == SortSeq(ring, LAMBDA a, b : a < b)[((Len(ring) - 1) \div 2) + 1]

NetworkDifficulty == IF diff.observed = <<>> THEN diff.current ELSE medianObserved(diff.observed)

\* A claim's nonce records the bits it was mined at.
effectivePoWDifficulty(bits) == Max({bits, NetworkDifficulty, DInit})
Verifies(bits) == bits >= effectivePoWDifficulty(bits)

----------------------------------------------------------------------------
\* The first co-sign of an alias counts towards the block.
Cosign ==
    /\ cosigns < MaxCosigns
    /\ diff' = recordAccepted(diff) /\ cosigns' = cosigns + 1
    /\ UNCHANGED <<dnow, file, diffRestarts>>

\* A witness response advertises v.
Observe ==
    /\ \E v \in Gossiped : InRange(v) /\ diff' = [diff EXCEPT !.observed = LastN(Append(@, v))]
    /\ UNCHANGED <<dnow, file, cosigns, diffRestarts>>

\* persistAuxState: every minute and at shutdown.
SaveDifficultyState ==
    /\ file' = diff
    /\ UNCHANGED <<dnow, diff, cosigns, diffRestarts>>

restore(j) ==
    [current |-> IF InRange(j.current) THEN j.current ELSE DInit,
     accepted |-> IF j.accepted \in 0 .. RetargetBlock - 1 THEN j.accepted ELSE 0,
     blockStart |-> j.blockStart,
     observed |-> LastN(SelectSeq(j.observed, InRange))]

\* The daemon stops, after its last save or without it, and starts again.
DiffRestart ==
    /\ diffRestarts < MaxDiffRestarts /\ diffRestarts' = diffRestarts + 1
    /\ \E clean \in BOOLEAN :
          LET f == IF clean THEN diff ELSE file
          IN /\ file' = f
             /\ diff' = IF f = NoFile THEN newDifficultyState(dnow) ELSE restore(f)
    /\ UNCHANGED <<dnow, cosigns>>

DiffTick == dnow < MaxDiffClock /\ dnow' = dnow + 1 /\ UNCHANGED <<diff, file, cosigns, diffRestarts>>

DiffInit ==
    /\ dnow = 0 /\ diff = newDifficultyState(0) /\ file = NoFile
    /\ cosigns = 0 /\ diffRestarts = 0

DiffNext == Cosign \/ Observe \/ SaveDifficultyState \/ DiffRestart \/ DiffTick

DiffSpec == DiffInit /\ [][DiffNext]_diffVars

----------------------------------------------------------------------------
\* Type invariant of the difficulty state; D never drops under its floor.
DiffTypeOK ==
    /\ dnow \in 0 .. MaxDiffClock
    /\ diff.current \in DInit .. DInit + 2 * MaxCosigns
    /\ diff.accepted \in 0 .. RetargetBlock - 1 /\ diff.blockStart \in 0 .. dnow
    /\ diff.observed \in BoundedSeq(DInit .. DCeiling, RingSize)

\* While most of the ring comes from peers that tell their own D, a claim mined
\* at the highest of their values passes this verifier and one below the lowest
\* does not: the other values in the ring cannot move the floor out of their range.
MajorityDecides ==
    LET told == {i \in DOMAIN diff.observed : diff.observed[i] \in Told}
        values == {diff.observed[i] : i \in told}
    IN 2 * Cardinality(told) > Len(diff.observed) =>
          Verifies(Max(values)) /\ \A bits \in DInit .. Min(values) - 1 : ~Verifies(bits)
=============================================================================
