--------------------------- MODULE MCEnvelopeStore ---------------------------
(***************************************************************************)
(* A small universe of envelopes for the record store: a TLD root with its *)
(* transfer and its recovery, and a name under it that the owner updates,  *)
(* a delegate re-publishes and a stranger contests.  K_claim is elsewhere  *)
(* in the key space: this node is sent no put for it.                      *)
(***************************************************************************)
EXTENDS EnvelopeStore

CONSTANTS a, b, r, g1, g2  \* owner, transferee, recovered key, guardians

MCPrincipal == {a, b, r, g1, g2}
MCKey == {1, 2}                 \* K_tld, K_name of a name under it
TldKey == 1
NameKey == 2

NoPolicy == [keys |-> {}, threshold |-> 0, timelock |-> 0]
Guardians == [keys |-> {g1, g2}, threshold |-> 2, timelock |-> 1]

Rec(key, owner, signer, deleg, seq, prev, expires, policy, size) ==
    [nameKey |-> key, claimKey |-> NoKey, parent |-> IF key = NameKey THEN TldKey ELSE NoKey,
     owner |-> owner, signer |-> signer, delegation |-> deleg, seq |-> seq,
     prev |-> prev, created |-> 1, expires |-> expires, policy |-> policy,
     size |-> size, sigOK |-> TRUE]

MCEnv ==
    <<Rec(TldKey, a, a, Nobody, 1, NoHash, 2, Guardians, 1),  \* 1 a's root
      Rec(TldKey, b, a, Nobody, 2, 1, 3, Guardians, 2),       \* 2 transfer to b
      Rec(TldKey, r, r, Nobody, 2, 1, 3, Guardians, 1),       \* 3 recovery to r
      Rec(TldKey, b, b, r, 3, NoHash, 2, Guardians, 1),       \* 4 b's update, delegates to r
      Rec(NameKey, a, a, Nobody, 1, NoHash, 2, NoPolicy, 1),  \* 5 a's name
      Rec(NameKey, b, b, Nobody, 1, NoHash, 3, NoPolicy, 2),  \* 6 the name under b
      Rec(TldKey, b, b, Nobody, 2, 1, 3, Guardians, 1)>>      \* 7 recovery to b, no quorum

MCEvidence ==
    <<[newOwner |-> r, notBefore |-> 2, anchor |-> 1, signers |-> {g1, g2},
       len |-> 2, decodes |-> TRUE],
      [newOwner |-> b, notBefore |-> 2, anchor |-> 1, signers |-> {g1},
       len |-> 1, decodes |-> TRUE]>>

MCHash == DOMAIN MCEnv
MCBlob == DOMAIN MCEvidence

\* The scenario explored: it says which envelopes and blobs reach this node.
VARIABLE scenario

\* handoff, without evidence: the live map, the byte budget and the history.
\* recovery: the root, its transfer, its recovery to r, for which both
\* guardians signed, and one to b, for which one of them did.
Reaching == [handoff |-> {1, 2, 4, 5, 6}, recovery |-> {1, 2, 3, 7}]

HeldHashes ==
    {h \in Hash : history[h] # Never \/ evidence[h] # NoBlob \/ \E k \in Key : entries[k] = h}

MCInit == Init /\ scenario \in DOMAIN Reaching

MCNext ==
    /\ Next /\ UNCHANGED scenario
    /\ HeldHashes' \subseteq Reaching[scenario]
    /\ scenario = "handoff" => (\A h \in Hash : evidence'[h] = NoBlob)

MCSpec == MCInit /\ [][MCNext]_<<storeVars, scenario>>
=============================================================================
