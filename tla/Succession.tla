----------------------------- MODULE Succession -----------------------------
(***************************************************************************)
(* How a top-level name changes hands: the files that `transfer`, `rotate` *)
(* and `recover` (internal/cli/lifecycle.go) and a renewal                 *)
(* (internal/renewal) build from a previous envelope, the gate a storing   *)
(* node puts them through, and the three verifiers a resolver proves the   *)
(* stored record with (internal/wire/wire.go, transfer.go,                 *)
(* recovery_walk.go).                                                      *)
(*                                                                         *)
(* A signed envelope is its index in `files`, which doubles as its         *)
(* H_record.  An operator may build from any envelope file, however stale, *)
(* and publish any file at any later time, more than once.  The storing    *)
(* nodes are one store with an audit history that is never trimmed; the    *)
(* store's budgets, and evidence that is lost, are in EnvelopeStore.       *)
(***************************************************************************)
EXTENDS Integers, FiniteSets, Sequences

CONSTANTS
    Owners,        \* keys that may own the name
    Founder,       \* the key whose hash is the tld_id in the name
    Delegates,     \* delegation of the first record: Nobody, Founder, others
    Custodians,    \* the keys of the recovery policy
    Threshold,     \* RecoveryPolicyWire.Threshold
    Timelock,      \* RecoveryPolicyWire.Timelock
    RecordTTL,     \* constants.RecordDefaultTTL
    MinRemaining,  \* constants.ResponseTTLCap, the floor of R2's lifetime
    StoreGrace,    \* constants.ExpiryGrace
    MaxDepth,      \* transferMaxDepth
    Nobody,
    MaxFiles,      \* bound: envelopes ever built
    MaxSuccClock   \* bound: the clock

ASSUME SuccessionAssumption ==
    /\ Founder \in Owners
    /\ {Threshold, RecordTTL, MinRemaining, MaxDepth} \subseteq Nat \ {0}
    /\ Timelock \in Nat /\ StoreGrace \in Nat /\ IsFiniteSet(Custodians)
    /\ Nobody \notin Owners
    /\ Nobody \notin [anchor : Nat, newOwner : Owners, notBefore : Int, sigs : SUBSET Custodians]
    /\ Delegates \cap Owners \subseteq {Founder}  \* a third party's key never owns the name

VARIABLES
    snow,    \* the clock of every tool, store and resolver
    files,   \* every envelope built, with the evidence file beside it
    head,    \* the envelope in the store's slot of the name, 0 when none
    archive  \* envelopes the store holds or retains as history

succVars == <<snow, files, head, archive>>

Founding(d) ==
    [owner |-> Founder, signer |-> Founder, seq |-> 1, prev |-> 0, created |-> 0,
     expires |-> RecordTTL, delegation |-> d, evidence |-> Nobody]

-----------------------------------------------------------------------------
(* What the tools build.                                                    *)

\* Fault: the delegation is carried over as it stands.
RedelegatedVerbatim(p, new) == p.delegation

\* Subtree authority that followed the previous owner follows the new one; a
\* third party's delegation survives.
Redelegated(p, new) == IF p.delegation \in {Nobody, p.owner} THEN new ELSE p.delegation

\* buildHandoffEnvelope: signed by the owner of the previous record, which is
\* the only key the tool accepts.
BuildHandoffEnvelope(i, new) ==
    LET p == files[i]
    IN  [owner |-> new, signer |-> p.owner, seq |-> p.seq + 1, prev |-> i, created |-> snow,
         expires |-> snow + RecordTTL, delegation |-> Redelegated(p, new), evidence |-> Nobody]

\* The declaration `recover` signs: who gets the name, over which record, not
\* before when, and which custodians signed.
Declaration(i, new, S) == [anchor |-> i, newOwner |-> new, notBefore |-> snow + Timelock, sigs |-> S]

\* buildRecoveryEnvelope: the new owner signs, what is left of the lifetime of
\* the lost record is carried over.
BuildRecoveryEnvelope(i, new, ev) ==
    LET p == files[i]
    IN  [owner |-> new, signer |-> new, seq |-> p.seq + 1, prev |-> i, created |-> snow,
         expires |-> snow + (IF p.expires - snow < MinRemaining THEN MinRemaining ELSE p.expires - snow),
         delegation |-> Redelegated(p, new), evidence |-> ev]

\* RenewEnvelope: the owner's fresh lease; no prev_hash is set.
RenewEnvelope(i) ==
    LET p == files[i]
    IN  [owner |-> p.owner, signer |-> p.owner, seq |-> p.seq + 1, prev |-> 0, created |-> snow,
         expires |-> snow + RecordTTL, delegation |-> p.delegation, evidence |-> Nobody]

-----------------------------------------------------------------------------
(* Recovery evidence.                                                       *)

\* countRecoveryQuorum: distinct policy keys with a valid signature over this
\* very record.
CountRecoveryQuorum(ev, anchor) == IF ev.anchor = anchor THEN Cardinality(ev.sigs \cap Custodians) ELSE 0

\* Fault: the timelock is left to the store.
VerifyRecoveryAtOnce(ev, anchor, created, t) ==
    /\ ev.notBefore >= created + Timelock
    /\ CountRecoveryQuorum(ev, anchor) >= Threshold

\* wire.VerifyRecovery.
VerifyRecovery(ev, anchor, created, t) ==
    /\ ev.notBefore >= created + Timelock
    /\ CountRecoveryQuorum(ev, anchor) >= Threshold
    /\ t >= ev.notBefore

\* `verify-recovery`: what the operator is told of a declaration at time t.
CmdVerifyRecovery(ev, anchor, t) ==
    CASE CountRecoveryQuorum(ev, anchor) < Threshold -> "below threshold"
      [] CountRecoveryQuorum(ev, anchor) >= Threshold /\ ev.notBefore < files[anchor].created + Timelock
             -> "backdated"
      [] OTHER -> IF t < ev.notBefore THEN "not elapsed" ELSE "executable"

-----------------------------------------------------------------------------
(* The gate of the storing nodes.                                           *)

EnvelopeWins(i, j) == files[i].seq > files[j].seq \/ (files[i].seq = files[j].seq /\ i > j)

\* wire.VerifyChainLink.
VerifyChainLink(i, j) == files[i].prev \in {0, j} /\ files[i].seq > files[j].seq

\* A recovery is stored during its timelock: the quorum counts, the clock does
\* not.
RecoveryAcceptable(i, j) ==
    LET ev == files[i].evidence
    IN  /\ ev # Nobody
        /\ files[i].signer = files[i].owner /\ ev.newOwner = files[i].signer
        /\ VerifyRecovery(ev, j, files[j].created, ev.notBefore)

\* Rule 3 of PutWithEvidence for a name without a parent.
Displaces(i, j) ==
    /\ EnvelopeWins(i, j)
    /\ files[i].prev # 0 => VerifyChainLink(i, j)
    /\ \/ files[i].signer = files[j].owner
       \/ files[i].prev # 0 /\ RecoveryAcceptable(i, j)

SlotLive == head # 0 /\ snow < files[head].expires + StoreGrace

Accepted(i) == SlotLive => (i = head \/ Displaces(i, head))

-----------------------------------------------------------------------------
(* What a resolver proves.                                                  *)

\* selfCertifiedTldRoot.
SelfCertified(i) == files[i].signer = files[i].owner /\ files[i].owner = Founder

\* The checks both walks make of one prev_hash link.
Linked(i) ==
    LET p == files[i].prev
    IN  /\ p # 0
        /\ p \in archive
        /\ files[p].seq + 1 = files[i].seq
        /\ VerifyChainLink(i, p)

\* verifyRecoveryHop, at the resolver's clock.
RecoveryHop(i) ==
    LET ev == files[i].evidence
        p == files[i].prev
    IN  /\ ev # Nobody
        /\ ev.newOwner = files[i].owner
        /\ VerifyRecovery(ev, p, files[p].created, snow)

TransferHop(i) == files[i].signer = files[files[i].prev].owner

Hop(i) ==
    /\ Linked(i)
    /\ \/ TransferHop(i)
       \/ /\ ~TransferHop(i)
          /\ files[i].signer = files[i].owner
          /\ RecoveryHop(i)

\* verifyHandoffWalk: the records that at most d links lead back from to the
\* self-certified origin.
handoffProved[d \in 0 .. MaxDepth] ==
    {j \in DOMAIN files : SelfCertified(j) \/ (d > 0 /\ Hop(j) /\ files[j].prev \in handoffProved[d - 1])}

HandoffWalk(i) == i \in handoffProved[MaxDepth]

\* verifyTransferWalk: it stops at the first record its own owner signed.
transferProved[d \in 0 .. MaxDepth] ==
    {j \in DOMAIN files :
        IF files[j].signer = files[j].owner
        THEN SelfCertified(j)
        ELSE d > 0 /\ Linked(j) /\ TransferHop(j) /\ files[j].prev \in transferProved[d - 1]}

TransferWalk(i) == i \in transferProved[MaxDepth]

\* verifyDescents, for a sub-name's record signed by c under the root i; the
\* chain the resolver assembles descends label by label.
Descends(i, c) == c \in {files[i].owner, files[i].delegation} \ {Nobody}

\* The three verifiers, on the chain of root i and a record c signed.
VerifyAuthorityChain(i, c) == SelfCertified(i) /\ Descends(i, c)

WithTransfers(i, c) == TransferWalk(i) /\ Descends(i, c)

WithHandoffs(i, c) == (SelfCertified(i) \/ HandoffWalk(i)) /\ Descends(i, c)

\* Resolver.verifyAuthorityChain, by what its record source can fetch.
Verdict(i, c, source) ==
    IF files[i].prev = 0 \/ source = "records"
    THEN VerifyAuthorityChain(i, c)
    ELSE IF source = "evidence" THEN WithHandoffs(i, c) ELSE WithTransfers(i, c)

\* The record in the slot is inside its window and proves its owner.
Proves(i) == i # 0 /\ snow < files[i].expires /\ Verdict(i, files[i].owner, "evidence")

-----------------------------------------------------------------------------
(* Behaviour.                                                               *)

SuccInit ==
    /\ snow = 0
    /\ \E d \in Delegates : files = <<Founding(d)>>
    /\ head = 1 /\ archive = {1}

\* A tool writes an envelope; signing the same record again changes nothing.
Write(e) ==
    /\ Len(files) < MaxFiles
    /\ ~\E j \in DOMAIN files : files[j] = e
    /\ files' = Append(files, e)
    /\ UNCHANGED <<snow, head, archive>>

\* `transfer` and `rotate`.
RunHandoff(i) == \E new \in Owners : Write(BuildHandoffEnvelope(i, new))

\* `recover -out-envelope`: a declaration that reaches the threshold and does
\* not verify once due is an error, one below the threshold only a warning.
CmdRecover(i) ==
    \E new \in Owners, S \in SUBSET Custodians \ {{}} :
        LET ev == Declaration(i, new, S)
        IN  /\ VerifyRecovery(ev, i, files[i].created, ev.notBefore) \/ Cardinality(S) < Threshold
            /\ Write(BuildRecoveryEnvelope(i, new, ev))

Renew(i) == Write(RenewEnvelope(i))

\* Fault: the displaced record is dropped.
PublishForgetting(i) ==
    /\ Accepted(i)
    /\ head # i
    /\ head' = i /\ archive' = {i}
    /\ UNCHANGED <<snow, files>>

\* `publish -files ... -evidence ...`; the displaced record becomes history.
Publish(i) ==
    /\ Accepted(i)
    /\ head # i
    /\ head' = i /\ archive' = archive \cup {i}
    /\ UNCHANGED <<snow, files>>

SuccTick == snow < MaxSuccClock /\ snow' = snow + 1 /\ UNCHANGED <<files, head, archive>>

SuccNext ==
    \/ \E i \in DOMAIN files : RunHandoff(i) \/ CmdRecover(i) \/ Renew(i) \/ Publish(i)
    \/ SuccTick

SuccSpec == SuccInit /\ [][SuccNext]_succVars

-----------------------------------------------------------------------------
(* Properties.                                                              *)

Envelope ==
    [owner : Owners, signer : Owners, seq : 1 .. MaxFiles + 1, prev : 0 .. MaxFiles,
     created : 0 .. MaxSuccClock, expires : 1 .. MaxSuccClock + RecordTTL,
     delegation : Owners \cup Delegates, evidence : {Nobody} \cup
        [anchor : 1 .. MaxFiles, newOwner : Owners, notBefore : 0 .. MaxSuccClock + Timelock,
         sigs : SUBSET Custodians]]

\* Envelopes chain to earlier ones, sequences stay inside what the number of
\* files allows, and the slot holds an archived envelope.
SuccTypeOK ==
    /\ snow \in 0 .. MaxSuccClock
    /\ \A i \in DOMAIN files : files[i] \in Envelope /\ files[i].prev < i /\ files[i].seq <= i
    /\ head \in archive /\ archive \subseteq DOMAIN files

IsRecovery(i) == files[i].prev # 0 /\ ~TransferHop(i)

\* The records from i back to the last one the founder signed for itself, which
\* needs no proof, or to one without a predecessor.
lineage[j \in 0 .. Len(files)] ==
    IF j = 0 THEN {} ELSE {j} \cup (IF SelfCertified(j) THEN {} ELSE lineage[files[j].prev])

\* A recovery takes effect late enough and backed enough (verifyRecoveryHop at
\* the resolver's clock, countRecoveryQuorum): when the record in the slot
\* proves its owner, every recovery it rests on was declared at least a
\* timelock ago by a threshold of the custodians, although the store already
\* kept it during the timelock.
RecoveryWaits ==
    Proves(head) =>
        \A i \in lineage[head] :
            IsRecovery(i) /\ ~SelfCertified(i) =>
                /\ snow >= files[i].created + Timelock
                /\ Cardinality(files[i].evidence.sigs) >= Threshold

\* Who handed the name over can no longer sign below it (the delegation rule of
\* buildHandoffEnvelope and buildRecoveryEnvelope, verifyDescents): under a
\* proved record no key that ever owned the name, other than its owner, has a
\* sub-name's record accepted.
FormerOwnersLetGo ==
    Proves(head) =>
        \A c \in Owners \ {files[head].owner} : ~Verdict(head, c, "evidence")

\* The hand-off verifier only adds to the older ones (the compatibility claim
\* of VerifyAuthorityChainWithHandoffs): whatever a resolver without evidence,
\* or without history, accepts, one with both accepts.
OlderVerifiersAgree ==
    \A i \in archive, c \in Owners :
        /\ Verdict(i, c, "records") => Verdict(i, c, "history")
        /\ Verdict(i, c, "history") => Verdict(i, c, "evidence")

\* A step that puts a transfer of the proved record into the slot, in time and
\* with a link of the walk to spare, leaves a proved record there.
TransferProves ==
    (/\ head' # head /\ Proves(head)
     /\ files[head'].prev = head /\ TransferHop(head')
     /\ snow < files[head'].expires
     /\ Cardinality(lineage[head]) <= MaxDepth) => Proves(head)'

\* What the tools build, the store stores and the resolver proves
\* (buildHandoffEnvelope, PutWithEvidence, verifyHandoffWalk): publishing a
\* transfer of a proved record, in time, leaves a proved record in the slot
\* until the lineage outgrows the walk.
HandoffStaysProvable == [][TransferProves]_succVars

\* A step that puts a recovery of the proved record into the slot, in time,
\* leaves a proved record there if and only if the report said so.
ReportHolds ==
    (/\ head' # head /\ Proves(head)
     /\ files[head'].prev = head /\ IsRecovery(head') /\ ~SelfCertified(head')
     /\ snow < files[head'].expires
     /\ Cardinality(lineage[head]) <= MaxDepth) =>
         LET report == CmdVerifyRecovery(files[head'].evidence, head, snow)
         IN  /\ report # "below threshold"
             /\ Proves(head)' <=> report = "executable"

\* The operator's report foretells the outcome (verify-recovery against
\* PutWithEvidence and verifyHandoffWalk): when a recovery of the proved record
\* in the slot is published, the name is proved for the new owner at once if
\* verify-recovery called the declaration executable, and otherwise is not; a
\* declaration below the threshold never takes the slot.
ReportForetells == [][ReportHolds]_succVars

\* Stated of a renewal (renewal.go, RenewEnvelope: "same rule as every update:
\* the authority chain names this key"): when the owner of a proved record
\* publishes its renewal, the record that replaces it proves the same owner.
RenewalStaysProvable ==
    [][(/\ head' # head /\ Proves(head)
        /\ files[head'] = [RenewEnvelope(head) EXCEPT !.created = files[head'].created,
                                                     !.expires = files[head'].expires]
        /\ snow < files[head'].expires) => Proves(head)']_succVars

=============================================================================
