---------------------------- MODULE EnvelopeStore ----------------------------
(***************************************************************************)
(* The in-memory record store of one freens node: internal/dht/store.go    *)
(* (live map, byte budget, superseded-envelope history) and the recovery   *)
(* evidence table of internal/dht/evidence.go, with the winner, chain-link *)
(* and recovery rules of internal/wire that its acceptance gate calls.     *)
(*                                                                         *)
(* An envelope is its record hash H_record: the content a hash stands for  *)
(* is the constant Env[h], so equal hashes are equal records, as in the    *)
(* code.  Hashes and keys are numbers because the code compares both       *)
(* bytewise.  Every operation runs under the store's one mutex, hence is   *)
(* one action.                                                             *)
(***************************************************************************)
EXTENDS Integers, FiniteSets, Sequences, FiniteSetsExt

CONSTANTS
    Hash,          \* H_record of every envelope that may be put
    Key,           \* DHT keys (K_tld, K_name, K_claim)
    Principal,     \* Ed25519 public keys
    Env,           \* [Hash -> Envelope]
    Blob,          \* recovery-evidence blobs that may accompany a put
    Evidence,      \* [Blob -> EvidenceRecord]
    Half,          \* 2^63: int64 arithmetic wraps there
    ExpiryGrace,   \* seconds a record outlives its expires field
    MaxBytes,      \* byte budget of the live map
    HistoryMax,    \* entry budget of the history
    HistMaxBytes,  \* byte budget of the history
    EvidenceMax,   \* entry budget of the evidence table
    EvidMaxBytes,  \* byte budget of the evidence table
    MaxBlobLen,    \* longest evidence blob the table takes
    MaxTime        \* bound on the clock, for model checking

NoHash == 0
NoKey == 0
NoBlob == 0
Nobody == 0
Never == -1         \* "not in the history"

Time == 0 .. MaxTime

RecoveryPolicy == [keys : SUBSET Principal, threshold : Nat, timelock : Nat]

\* The fields of wire.SignedEnvelope and wire.FreensRecord the store reads.
\* nameKey is K_tld or K_name, claimKey the K_claim of an embedded alias claim,
\* parent the key of the enclosing name (NoKey for a TLD root); a policy with
\* threshold 0 stands for "no policy", which VerifyRecovery refuses alike.
Envelope ==
    [nameKey : Key, claimKey : Key \cup {NoKey}, parent : Key \cup {NoKey},
     owner : Principal, signer : Principal,
     delegation : Principal \cup {Nobody},
     seq : Nat, prev : Hash \cup {NoHash},
     created : Nat, expires : Nat, policy : RecoveryPolicy,
     size : Nat, sigOK : BOOLEAN]

\* signers are the keys whose signature over (anchor, newOwner, notBefore)
\* verifies; decodes says whether DecodeRecoveryEvidence takes the bytes.
EvidenceRecord ==
    [newOwner : Principal, notBefore : Nat, anchor : Hash,
     signers : SUBSET Principal, len : Nat, decodes : BOOLEAN]

ASSUME HashAssumption == Hash \subseteq Nat \ {NoHash} /\ IsFiniteSet(Hash)   \* 32-byte strings
ASSUME KeyAssumption == Key \subseteq Nat \ {NoKey} /\ IsFiniteSet(Key)
ASSUME BlobAssumption == Blob \subseteq Nat \ {NoBlob}
ASSUME PrincipalAssumption == Nobody \notin Principal
ASSUME EnvAssumption == Env \in [Hash -> Envelope]
ASSUME EvidenceAssumption == Evidence \in [Blob -> EvidenceRecord]
ASSUME BudgetAssumption ==
    /\ {ExpiryGrace, MaxBytes, HistMaxBytes, EvidMaxBytes, MaxBlobLen} \subseteq Nat
    /\ {HistoryMax, EvidenceMax, Half} \subseteq Nat \ {0}
    /\ MaxTime \in Nat

VARIABLES
    now,            \* the node's clock
    entries,        \* key -> hash of the live-map entry, or NoHash
    access,         \* key -> lastAccess of that entry (0 when there is none)
    bytes,          \* running total of the entries' sizes
    history,        \* hash -> lastAccess of the history entry, or Never
    historyBytes,   \* running total of the history entries' sizes
    evidence,       \* hash -> retained evidence blob, or NoBlob
    evidenceOrder,  \* insertion order of the evidence table, oldest first
    evidenceBytes   \* running total of the blobs' lengths

live == <<entries, access, bytes>>
hist == <<history, historyBytes>>
evid == <<evidence, evidenceOrder, evidenceBytes>>
storeVars == <<now, live, hist, evid>>

\* Every key an envelope legitimately lives at (StorageKeys, putKeyFor).
StorageKeys(h) == {Env[h].nameKey, Env[h].claimKey} \ {NoKey}

-----------------------------------------------------------------------------
(* wire: which of two envelopes wins, chains to, or recovers the other.     *)

EnvelopeWins(newer, older) ==
    \/ Env[newer].seq > Env[older].seq
    \/ Env[newer].seq = Env[older].seq /\ newer > older

VerifyChainLink(newer, older) ==
    /\ Env[newer].prev \in {NoHash, older}
    /\ Env[newer].seq > Env[older].seq

\* NotBefore >= created + timelock, with the sum saturating at 2^64 - 1;
\* a creation time of 0 switches the bound off.
TimelockBound(created, policy) ==
    IF created = 0 THEN 0 ELSE Min({created + policy.timelock, 2 * Half - 1})

VerifyRecovery(policy, ev, prevHash, prevCreated, at) ==
    /\ policy.threshold >= 1
    /\ ev.notBefore >= TimelockBound(prevCreated, policy)
    /\ ev.anchor = prevHash
    /\ Cardinality(policy.keys \cap ev.signers) >= policy.threshold
    /\ at >= ev.notBefore

-----------------------------------------------------------------------------
(* Liveness of an entry.  expires is a uint64 converted to int64 before the *)
(* grace is added, so a lifetime near 2^63 wraps to a negative instant.    *)

Int64(x) == LET m == x % (2 * Half) IN IF m < Half THEN m ELSE m - 2 * Half

Alive(h, t) == t < Int64(Env[h].expires + ExpiryGrace)

Held(E) == {k \in Key : E[k] # NoHash}
SizeOf(S) == MapThenSumSet(LAMBDA h : Env[h].size, S)
LoadOf(E, K) == MapThenSumSet(LAMBDA k : Env[E[k]].size, K)

-----------------------------------------------------------------------------
(* History of superseded envelopes (retainHistoryLocked).                   *)

Retained(H) == {h \in Hash : H[h] # Never}

\* evictHistoryOldestLocked: oldest lastAccess first, ties to the smaller hash.
OlderIn(H, h) == {g \in Retained(H) : H[g] < H[h] \/ (H[g] = H[h] /\ g < h)}

\* One retainHistoryLocked: replace, account, then drop the oldest while a
\* budget is exceeded and more than one entry is left.
RetainOne(H, item) ==
    LET at   == [H.at EXCEPT ![item.hash] = item.at]
        load == H.bytes + Env[item.hash].size
                - (IF H.at[item.hash] # Never THEN Env[item.hash].size ELSE 0)
        n    == Cardinality(Retained(at))
        Goes(h) == LET older == OlderIn(at, h)
                       left  == n - Cardinality(older)
                   IN  /\ left > 1
                       /\ left > HistoryMax \/ load - SizeOf(older) > HistMaxBytes
        gone == {h \in Retained(at) : Goes(h)}
    IN  [at    |-> [h \in Hash |-> IF h \in gone THEN Never ELSE at[h]],
         bytes |-> load - SizeOf(gone)]

RetainAll(items) ==
    LET after[i \in 0 .. Len(items)] ==
          IF i = 0 THEN [at |-> history, bytes |-> historyBytes]
                   ELSE RetainOne(after[i - 1], items[i])
    IN  after[Len(items)]

\* The history after retaining items in this order.
Retain(items) ==
    LET H == RetainAll(items)
    IN  history' = H.at /\ historyBytes' = H.bytes

\* The history items of entries K of a live map, in some order: a Go map is
\* ranged over in no fixed order.
ItemsOf(E, A, order) ==
    [i \in DOMAIN order |-> [hash |-> E[order[i]], at |-> A[order[i]]]]

-----------------------------------------------------------------------------
(* Evidence table (putEvidenceLocked, putEvidenceValidated).                *)

BlobBytes(ev, order, m) == MapThenSumSet(LAMBDA i : Evidence[ev[order[i]]].len, 1 .. m)

\* The FIFO loop goes on while a budget is exceeded and entries are left.
EvidenceOver(left, load) == left > 1 /\ (left > EvidenceMax \/ load > EvidMaxBytes)

\* Fault: a replaced blob is queued a second time.
QueuedAgain(h) == Append(evidenceOrder, h)

Queued(h) == IF evidence[h] = NoBlob THEN Append(evidenceOrder, h) ELSE evidenceOrder

ReplacedLen(h) == IF evidence[h] = NoBlob THEN 0 ELSE Evidence[evidence[h]].len

PutEvidence(h, b) ==
    LET order == Queued(h)
        ev    == [evidence EXCEPT ![h] = b]
        load  == evidenceBytes + Evidence[b].len - ReplacedLen(h)
        Over(n) == EvidenceOver(Len(order) - n, load - BlobBytes(ev, order, n))
    IN  \E n \in 0 .. Len(order) - 1 :
            /\ ~Over(n)
            /\ \A m \in 0 .. n - 1 : Over(m)
            /\ evidenceOrder' = SubSeq(order, n + 1, Len(order))
            /\ evidence' = [g \in Hash |-> IF \E i \in 1 .. n : order[i] = g
                                           THEN NoBlob ELSE ev[g]]
            /\ evidenceBytes' = load - BlobBytes(ev, order, n)

ValidBlob(b) == b # NoBlob /\ Evidence[b].len <= MaxBlobLen /\ Evidence[b].decodes

\* Node.retainEvidence: best effort, an invalid blob leaves the table alone.
RetainEvidence(h, b) == IF ValidBlob(b) THEN PutEvidence(h, b) ELSE UNCHANGED evid

-----------------------------------------------------------------------------
(* The acceptance gate of PutWithEvidence.                                  *)

\* recoveryAcceptableLocked: in-band evidence, else the blob retained for
\* this very record, verified at its own notBefore.
RecoveryAcceptable(h, cur, b) ==
    LET used == IF b # NoBlob THEN b ELSE evidence[h]
    IN  /\ used # NoBlob
        /\ Evidence[used].decodes
        /\ Env[h].signer = Env[h].owner
        /\ Evidence[used].newOwner = Env[h].signer
        /\ VerifyRecovery(Env[cur].policy, Evidence[used], cur, Env[cur].created,
                          Evidence[used].notBefore)

\* parentAuthorizesLocked: the live record of the enclosing name owns or
\* delegates to the newcomer's signer.
ParentAuthorizes(h, cur) ==
    LET p == Env[cur].parent
    IN  /\ p # NoKey
        /\ entries[p] # NoHash
        /\ Alive(entries[p], now)
        /\ Env[h].signer \in {Env[entries[p]].owner, Env[entries[p]].delegation}

HasLive(k) == entries[k] # NoHash /\ Alive(entries[k], now)

\* Fault: a record without predecessor displaces whoever owns the name.
MayDisplaceUnowned(h, cur, b) ==
    /\ EnvelopeWins(h, cur)
    /\ Env[h].prev # NoHash =>
          /\ VerifyChainLink(h, cur)
          /\ Env[h].signer = Env[cur].owner \/ RecoveryAcceptable(h, cur, b)

\* Rule 3: what a newcomer that is not the stored record must satisfy to
\* displace a live incumbent.
MayDisplace(h, cur, b) ==
    /\ EnvelopeWins(h, cur)
    /\ IF Env[h].prev # NoHash
       THEN /\ VerifyChainLink(h, cur)
            /\ Env[h].signer = Env[cur].owner \/ RecoveryAcceptable(h, cur, b)
       ELSE Env[h].signer = Env[cur].owner \/ ParentAuthorizes(h, cur)

SameStored(k, h) == HasLive(k) /\ entries[k] = h

Accepts(k, h, b) ==
    /\ Env[h].sigOK
    /\ HasLive(k) => (entries[k] = h \/ MayDisplace(h, entries[k], b))

-----------------------------------------------------------------------------
(* Installing a winner, and the sweeps that follow in the same call.        *)

\* evictExpiredLocked, then enforceCapLocked, on live map E with access
\* times A and load b after k was put.  The second expiry pass of
\* enforceCapLocked finds nothing the first one left.
DeadIn(E) == {j \in Held(E) : ~Alive(E[j], now)}

OlderKeys(A, K, j) == {i \in K : A[i] < A[j] \/ (A[i] = A[j] /\ i < j)}

\* Fault: eviction stops with two entries left.
OverCapLeavesTwo(E, A, load, k) ==
    LET held == Held(E)
    IN  {j \in held \ {k} :
            LET older == OlderKeys(A, held \ {k}, j)
            IN  /\ load - LoadOf(E, older) > MaxBytes
                /\ Cardinality(held) - Cardinality(older) > 2}

\* j is evicted when, all less recently used candidates gone, the load still
\* exceeds the budget and more than one entry is left; k is never a candidate.
OverCap(E, A, load, k) ==
    LET held == Held(E)
    IN  {j \in held \ {k} :
            LET older == OlderKeys(A, held \ {k}, j)
            IN  /\ load - LoadOf(E, older) > MaxBytes
                /\ Cardinality(held) - Cardinality(older) > 1}

Without(F, K, none) == [k \in Key |-> IF k \in K THEN none ELSE F[k]]

ReplacedSize(k) == IF entries[k] = NoHash THEN 0 ELSE Env[entries[k]].size

\* The orders the expiry pass may range over K in, and the one of the cap pass.
Orders(K) == {s \in [1 .. Cardinality(K) -> K] : \A i, j \in DOMAIN s : s[i] = s[j] => i = j}
LruOrder(A, K) ==
    [i \in 1 .. Cardinality(K) |-> CHOOSE j \in K : Cardinality(OlderKeys(A, K, j)) = i - 1]

Install(k, h) ==
    LET old   == entries[k]
        E     == [entries EXCEPT ![k] = h]
        A     == [access EXCEPT ![k] = now]
        load  == bytes + Env[h].size - ReplacedSize(k)
        dead  == DeadIn(E)
        E1    == Without(E, dead, NoHash)
        load1 == load - LoadOf(E, dead)
        over  == OverCap(E1, A, load1, k)
        first == IF old = NoHash THEN << >> ELSE <<[hash |-> old, at |-> access[k]]>>
    IN  /\ entries' = Without(E1, over, NoHash)
        /\ access' = Without(A, dead \cup over, 0)
        /\ bytes' = load1 - LoadOf(E, over)
        /\ \E order \in Orders(dead) :
              Retain(first \o ItemsOf(E, A, order) \o ItemsOf(E, A, LruOrder(A, over)))

Touch(k) == access' = [access EXCEPT ![k] = now] /\ UNCHANGED <<entries, bytes>>

\* An accepted PutWithEvidence: a re-put of the stored record only touches it.
PutAccepted(k, h) ==
    IF SameStored(k, h) THEN Touch(k) /\ UNCHANGED hist ELSE Install(k, h)

\* Fault: the dropped entry is not kept in the history.
DropDeadUnretained(k) ==
    /\ entries' = [entries EXCEPT ![k] = NoHash]
    /\ access' = [access EXCEPT ![k] = 0]
    /\ bytes' = bytes - Env[entries[k]].size
    /\ UNCHANGED hist

\* A store read of an entry past its grace moves it to the history.
DropDead(k) ==
    /\ entries' = [entries EXCEPT ![k] = NoHash]
    /\ access' = [access EXCEPT ![k] = 0]
    /\ bytes' = bytes - Env[entries[k]].size
    /\ Retain(<<[hash |-> entries[k], at |-> access[k]]>>)

-----------------------------------------------------------------------------
(* Operations.                                                              *)

\* NewEnvelopeStore.
NoEntries == [k \in Key |-> NoHash]
NoAccess == [k \in Key |-> 0]
NoHistory == [h \in Hash |-> Never]
NoEvidence == [h \in Hash |-> NoBlob]

Init ==
    /\ now = 0
    /\ entries = NoEntries /\ access = NoAccess /\ bytes = 0
    /\ history = NoHistory /\ historyBytes = 0
    /\ evidence = NoEvidence /\ evidenceOrder = << >> /\ evidenceBytes = 0

\* The put RPC (hPut from its store call on), and the local side of
\* PublishWithEvidence: an accepted envelope's evidence is retained too.
PutAccept(k, h, b) ==
    /\ Accepts(k, h, b)
    /\ PutAccepted(k, h)
    /\ RetainEvidence(h, b)
    /\ UNCHANGED now

\* A refused put: hPut reads the incumbent back to tell a stale record from an
\* idempotent one, which touches it.
PutRefuse(k, h, b) ==
    /\ Env[h].sigOK
    /\ ~Accepts(k, h, b)
    /\ Touch(k)
    /\ UNCHANGED <<now, hist, evid>>

Get(k) ==
    /\ entries[k] # NoHash
    /\ IF HasLive(k) THEN Touch(k) /\ UNCHANGED hist ELSE DropDead(k)
    /\ UNCHANGED <<now, evid>>

\* Remove keeps nothing: no history entry is made.
Remove_(k) ==
    /\ entries[k] # NoHash
    /\ entries' = [entries EXCEPT ![k] = NoHash]
    /\ access' = [access EXCEPT ![k] = 0]
    /\ bytes' = bytes - Env[entries[k]].size
    /\ UNCHANGED <<now, hist, evid>>

\* LookupEvidence caches a blob fetched from the network under the hash asked
\* for, whether or not the record is stored here.
CacheEvidence(h, b) ==
    /\ evidence[h] = NoBlob
    /\ ValidBlob(b)
    /\ PutEvidence(h, b)
    /\ UNCHANGED <<now, live, hist>>

Tick ==
    /\ now < MaxTime
    /\ now' = now + 1
    /\ UNCHANGED <<live, hist, evid>>

Next ==
    \/ \E h \in Hash : \E k \in StorageKeys(h) : \E b \in Blob \cup {NoBlob} :
          \/ PutAccept(k, h, b)
          \/ PutRefuse(k, h, b)
    \/ \E k \in Key : Get(k)
    \/ \E k \in Key : Remove_(k)
    \/ \E h \in Hash, b \in Blob : CacheEvidence(h, b)
    \/ Tick

Spec == Init /\ [][Next]_storeVars

-----------------------------------------------------------------------------
(* Properties.                                                              *)

\* Every table holds hashes, instants and blobs of the declared sets.
TypeOK ==
    /\ now \in Time
    /\ entries \in [Key -> Hash \cup {NoHash}]
    /\ access \in [Key -> Time]
    /\ evidence \in [Hash -> Blob \cup {NoBlob}]
    /\ evidenceOrder \in Seq(Hash)

\* The O(1) running totals s.bytes, s.historyBytes and s.evidenceBytes always
\* equal the sizes actually held, whatever replacements, sweeps and evictions
\* happened (every branch of store.go adjusts them by hand).
ByteAccounting ==
    /\ bytes = LoadOf(entries, Held(entries))
    /\ historyBytes = SizeOf(Retained(history))
    /\ evidenceBytes = BlobBytes(evidence, evidenceOrder, Len(evidenceOrder))

\* After any call the running totals are exact and each table is within its
\* budgets, or down to the one entry its eviction loop refuses to drop.
BudgetsHold ==
    /\ ByteAccounting
    /\ bytes <= MaxBytes \/ Cardinality(Held(entries)) <= 1
    /\ LET n == Cardinality(Retained(history))
       IN  n <= 1 \/ (n <= HistoryMax /\ historyBytes <= HistMaxBytes)
    /\ LET n == Cardinality({h \in Hash : evidence[h] # NoBlob})
       IN  n <= 1 \/ (n <= EvidenceMax /\ evidenceBytes <= EvidMaxBytes)

\* The FIFO queue of the evidence table lists exactly the retained hashes,
\* each once: the eviction loop can neither drop a blob twice nor run past
\* the end of the queue.
EvidenceQueueExact ==
    /\ \A i, j \in DOMAIN evidenceOrder : evidenceOrder[i] = evidenceOrder[j] => i = j
    /\ \A h \in Hash : evidence[h] # NoBlob <=> \E i \in DOMAIN evidenceOrder : evidenceOrder[i] = h

\* A change of owner is licensed when the old owner signed the successor, a
\* quorum of the old record's policy did, or the live parent record names the
\* new signer.
Licensed(old, new) ==
    \/ Env[new].signer = Env[old].owner
    \/ /\ Env[new].prev = old
       /\ \E b \in Blob :
             /\ Evidence[b].newOwner = Env[new].owner
             /\ Evidence[b].anchor = old
             /\ Cardinality(Env[old].policy.keys \cap Evidence[b].signers)
                  >= Env[old].policy.threshold
             /\ Env[old].policy.threshold >= 1
    \/ ParentAuthorizes(new, old)

\* What a step may do to a key that holds a live record: keep it, drop it, or
\* install a record that beats it and is licensed.
LiveRecordStep ==
    \A k \in Key :
        HasLive(k) /\ entries'[k] \notin {entries[k], NoHash}
        => EnvelopeWins(entries'[k], entries[k]) /\ Licensed(entries[k], entries'[k])

\* While a record is live at a key, no step installs a successor there that
\* does not beat it in (sequence, hash) or is not licensed by the displaced
\* record's own owner, policy or live parent (rule 3 of Put).
LiveRecordSafe == [][LiveRecordStep]_storeVars

\* Leaving(k): the entry at k leaves the live map in this step.
Leaving == {k \in Key : entries[k] # NoHash /\ entries'[k] # entries[k]}

\* The history could hold all of S.
Fits(S) == Cardinality(S) <= HistoryMax /\ SizeOf(S) <= HistMaxBytes

\* No envelope that is superseded, expires or is evicted is lost to the audit
\* trail while the history has room for the leaving entries and the one being
\* put: each is in the history after the step (section 8.3 needs every
\* predecessor).  Only Remove discards; a Get that drops a dead entry does not.
SupersededIsRetained ==
    [][(\E k \in Key : Get(k)) \/ (\A k \in Key : ~Remove_(k))
       => LET into == {entries[k] : k \in Leaving} \cup Retained(history)
          IN  (\A h \in Hash : Fits(into \cup {h}))
              => \A k \in Leaving : history'[entries[k]] # Never]_storeVars

=============================================================================
