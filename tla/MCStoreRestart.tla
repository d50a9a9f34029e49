--------------------------- MODULE MCStoreRestart ---------------------------
(***************************************************************************)
(* A claim-bearing TLD root, published at K_claim and at K_tld, its        *)
(* transfer, its recovery and the new owner's renewal, all of which carry  *)
(* the claim on.  The two keys' puts are separate messages, so either may  *)
(* never arrive.  K_claim sorts before K_tld: its file is seeded first.    *)
(***************************************************************************)
EXTENDS StoreRestart

CONSTANTS a, b, r, g

MCPrincipal == {a, b, r, g}
ClaimKey == 1
TldKey == 2
MCKey == {ClaimKey, TldKey}

Guardian == [keys |-> {g}, threshold |-> 1, timelock |-> 1]

Root(owner, signer, seq, prev, expires) ==
    [nameKey |-> TldKey, claimKey |-> ClaimKey, parent |-> NoKey,
     owner |-> owner, signer |-> signer, delegation |-> Nobody, seq |-> seq,
     prev |-> prev, created |-> 1, expires |-> expires, policy |-> Guardian,
     size |-> 1, sigOK |-> TRUE]

MCEnv ==
    <<Root(a, a, 1, NoHash, 1),    \* 1 a's root
      Root(b, a, 2, 1, 3),         \* 2 transfer to b
      Root(r, r, 2, 1, 3),         \* 3 recovery to r
      Root(b, b, 3, NoHash, 3)>>   \* 4 b's renewal, which names no predecessor

\* One hand-off per name, by transfer or by recovery.
OneHopHashes == 1 .. 3
OneHopEnv == [h \in OneHopHashes |-> MCEnv[h]]

MCBlob == {1}
MCEvidence ==
    <<[newOwner |-> r, notBefore |-> 2, anchor |-> 1, signers |-> {g},
       len |-> 1, decodes |-> TRUE]>>

=============================================================================
