---------------------------- MODULE LeaseKeeper ----------------------------
(***************************************************************************)
(* How an owner's daemon keeps one claim-bearing name alive on the network *)
(* (main.go: reconcileLoop, renewOnce, reconcileLeases, reconcileLeaseAt;  *)
(* renewal.go; transport.go: the publish path and republishDue).  The name *)
(* lives at two storage keys.  Every tick re-signs a lease that is close   *)
(* to its end, publishes it, installs it locally, and then compares the    *)
(* network's copy with the local one.                                      *)
(*                                                                         *)
(* Time is relative: an envelope carries the ticks it has left, and its    *)
(* sequence number is counted from the generation base, which moves with   *)
(* the oldest copy anywhere, so only the order of generations is kept.     *)
(* hash is the tie-break between two envelopes of one sequence number.     *)
(*                                                                         *)
(* Everything the environment does wrong is drawn from faults: a holder    *)
(* not reached, an answer lost, a walk that ends degraded or misses, a     *)
(* holder that loses its store, a crash, a tick spent down, and a fresh    *)
(* signature whose hash ranks low.                                         *)
(***************************************************************************)
EXTENDS Integers, FiniteSets, FiniteSetsExt

CONSTANTS
    Holder,       \* the nodes the publish path targets
    StorageKey,   \* K_tld and K_claim
    NameKey,      \* the one of them Publish uses (KeyForWireName)
    Lease,        \* RecordDefaultTTL, in ticks
    RenewBelow,   \* (1 - RenewThreshold) * Lease
    LeaseGrace,   \* expiry grace, in ticks
    VerifyEvery,  \* reconcileVerifyInterval, in ticks
    Faults        \* faults a behaviour may contain

ASSUME LeaseAssumption ==
    /\ NameKey \in StorageKey
    /\ {Lease, RenewBelow, LeaseGrace, VerifyEvery} \subseteq Nat \ {0}
    /\ RenewBelow < Lease
    /\ Faults \in Nat

NoEnv == [seq |-> 0, hash |-> 0, left |-> 0 - LeaseGrace]
Nowhere == [k \in StorageKey |-> NoEnv]

VARIABLES
    own,       \* storage key -> the daemon's local envelope
    saved,     \* the snapshot of own on disk
    held,      \* holder -> storage key -> envelope
    throttle,  \* storage key -> ticks until a healthy check is repeated
    stage,     \* where the reconciler stands in its tick
    todo,      \* the keys, or <<entry, key>> pairs, still to visit
    hand,      \* the envelope being published
    landed,    \* some peer acknowledged it
    faults     \* faults left

leaseVars == <<own, saved, held, throttle, stage, todo, hand, landed, faults>>

Signed == [seq : Nat \ {0}, hash : Int, left : (1 - LeaseGrace) .. Lease]

\* Some key's live entry is taken as the name's current record.
LeaseTypeOK ==
    /\ own \in [StorageKey -> Signed \cup {NoEnv}]
    /\ saved \in [StorageKey -> Signed \cup {NoEnv}]
    /\ held \in [Holder -> [StorageKey -> Signed \cup {NoEnv}]]
    /\ throttle \in [StorageKey -> 0 .. VerifyEvery]
    /\ stage \in {"idle", "renew", "publish", "install", "verify", "repair", "down"}
    /\ IF stage = "verify" \/ stage = "repair" THEN todo \subseteq StorageKey \X StorageKey
                                               ELSE todo \subseteq StorageKey
    /\ hand \in Signed \cup {NoEnv}
    /\ landed \in BOOLEAN
    /\ faults \in 0 .. Faults

-----------------------------------------------------------------------------
(* Envelopes.                                                               *)

\* wire.EnvelopeWins.
Supersedes(new, old) ==
    \/ new.seq > old.seq
    \/ new.seq = old.seq /\ new.hash > old.hash

\* The store's acceptance rule for an owner-signed envelope: the same record,
\* or a winner, or nothing live to displace.
SameLease(a, b) == a # NoEnv /\ a.seq = b.seq /\ a.hash = b.hash /\ a.left = b.left
Takes(old, new) == old = NoEnv \/ SameLease(old, new) \/ Supersedes(new, old)

\* One tick older; past the grace it is evicted.
Aged(e) == IF e.left - 1 <= 0 - LeaseGrace THEN NoEnv ELSE [e EXCEPT !.left = @ - 1]

\* Fault: a record is renewed only once it has expired.
ShouldRenewLate(e) == e.left < 0

ShouldRenew(e) == e.left < RenewBelow \/ e.left <= 0

\* RenewEnvelope: the next sequence number and a full lease.
RenewEnvelope(e, h) == [seq |-> e.seq + 1, hash |-> h, left |-> Lease]

Entries == {k \in StorageKey : own[k] # NoEnv}

\* StorageKeys lists the name key first; the store's entries come sorted.
Before(a, b) == a = NameKey \/ (b # NameKey /\ a <= b)
FirstOf(K) == CHOOSE a \in K : \A b \in K : Before(a, b)

Copies(o, s, n) == {o[k] : k \in StorageKey} \cup {s[k] : k \in StorageKey}
                   \cup UNION {{n[p][k] : k \in StorageKey} : p \in Holder}

\* Sequence numbers are renumbered from the oldest copy that is left.
Base(o, s, n) == LET S == {e.seq : e \in Copies(o, s, n) \ {NoEnv}}
                 IN  IF S = {} THEN 0 ELSE Min(S) - 1
Down(e, d) == IF e = NoEnv THEN e ELSE [e EXCEPT !.seq = @ - d]
Settle(o, s, n) ==
    LET d == Base(o, s, n)
    IN  /\ own' = [k \in StorageKey |-> Down(o[k], d)]
        /\ saved' = [k \in StorageKey |-> Down(s[k], d)]
        /\ held' = [p \in Holder |-> [k \in StorageKey |-> Down(n[p][k], d)]]

Spend(n) == faults >= n /\ faults' = faults - n

-----------------------------------------------------------------------------
LeaseInit ==
    /\ own = [k \in StorageKey |-> [seq |-> 1, hash |-> 0, left |-> Lease]]
    /\ saved = own
    /\ held = [p \in Holder |-> own]
    /\ throttle = [k \in StorageKey |-> 0]
    /\ stage = "idle" /\ todo = {} /\ hand = NoEnv /\ landed = FALSE
    /\ faults = Faults

\* The ticker fires (reconcileLoop, reconcileTick); the tick before it is over,
\* and the persist loop, ten times as frequent, has been round since.
Wake ==
    /\ stage = "idle" /\ saved = own
    /\ stage' = "renew"
    /\ Settle([k \in StorageKey |-> Aged(own[k])], [k \in StorageKey |-> Aged(saved[k])],
              [p \in Holder |-> [k \in StorageKey |-> Aged(held[p][k])]])
    /\ throttle' = [k \in StorageKey |-> IF throttle[k] = 0 THEN 0 ELSE throttle[k] - 1]
    /\ UNCHANGED <<todo, hand, landed, faults>>

\* Pass (b) visits every own entry at every key.
ToVerify(E) == {k \in StorageKey : E[k] # NoEnv} \X StorageKey

\* The fresh record's hash is as good as drawn at random: where a twin of its
\* sequence number is out already it ranks above or, a fault, below it.
Draw(seq) ==
    LET T == {e.hash : e \in {f \in Copies(own, saved, held) : f.seq = seq}}
    IN  IF T = {} THEN {[hash |-> 0, cost |-> 0]}
        ELSE {[hash |-> Max(T) + 1, cost |-> 0], [hash |-> Min(T) - 1, cost |-> 1]}

\* renewOnce: the first entry of the name the scan meets stands for it.
RenewOnce ==
    /\ stage = "renew"
    /\ \/ /\ Entries = {}
          /\ stage' = "verify" /\ todo' = {}
          /\ UNCHANGED <<hand, landed, faults>>
       \/ /\ Entries # {} /\ ~ShouldRenew(own[Min(Entries)])
          /\ stage' = "verify" /\ todo' = ToVerify(own)
          /\ UNCHANGED <<hand, landed, faults>>
       \/ /\ Entries # {} /\ ShouldRenew(own[Min(Entries)])
          /\ \E d \in Draw(own[Min(Entries)].seq + 1) :
                /\ Spend(d.cost)
                /\ hand' = RenewEnvelope(own[Min(Entries)], d.hash)
          /\ stage' = "publish" /\ todo' = StorageKey /\ landed' = FALSE
    /\ UNCHANGED <<own, saved, held, throttle>>

\* publishKeyedStats: the holders offered e at k that hold it afterwards.
Offer(n, k, e, reached) ==
    [p \in Holder |-> IF p \in reached /\ Takes(n[p][k], e)
                      THEN [n[p] EXCEPT ![k] = e] ELSE n[p]]

\* One key of PublishKeyedAtStats: targets and rescue walk reach the holders
\* in reached, and those in acked get their answer back.
PublishAt(k) ==
    \E reached \in SUBSET Holder :
        LET taken == {p \in reached : Takes(held[p][k], hand)}
        IN  \E acked \in SUBSET taken :
               /\ Spend(Cardinality(Holder \ reached) + Cardinality(taken \ acked))
               /\ held' = Offer(held, k, hand, reached)
               /\ landed' = (landed \/ acked # {})

\* Fault: the fresh lease is not installed locally.
PublishedForgotten(left) ==
    IF left # {} THEN stage' = "publish" /\ todo' = left
    ELSE stage' = "verify" /\ todo' = ToVerify(own)

\* After the last key: install what landed somewhere, else go on to pass (b).
Published(left) ==
    IF left # {} THEN stage' = "publish" /\ todo' = left
    ELSE IF landed' THEN stage' = "install" /\ todo' = StorageKey
    ELSE stage' = "verify" /\ todo' = ToVerify(own)

PublishStep ==
    /\ stage = "publish"
    /\ PublishAt(FirstOf(todo)) /\ Published(todo \ {FirstOf(todo)})
    /\ UNCHANGED <<own, saved, throttle, hand>>

\* store.Put of the fresh envelope, one key after the other.
InstallStep ==
    /\ stage = "install"
    /\ LET k    == FirstOf(todo)
           new  == IF Takes(own[k], hand) THEN [own EXCEPT ![k] = hand] ELSE own
           left == todo \ {k}
       IN  /\ own' = new
           /\ IF left = {} THEN stage' = "verify" /\ todo' = ToVerify(new)
                           ELSE stage' = stage /\ todo' = left
    /\ UNCHANGED <<saved, held, throttle, hand, landed, faults>>

\* What the walk for k brings back: the best copy the holders have.
Found(k) ==
    LET S == {held[p][k] : p \in Holder} \ {NoEnv}
    IN  IF S = {} THEN NoEnv ELSE CHOOSE e \in S : \A f \in S : ~Supersedes(f, e)

\* A healthy result, and nothing else, arms the throttle of the key.
Armed(k, found, e) ==
    IF SameLease(found, e) THEN [throttle EXCEPT ![k] = VerifyEvery] ELSE throttle

\* reconcileLeaseAt for the pair <<j, k>>: the entry of key j at key k.
VerifyAt(j, k) ==
    /\ todo' = todo \ {<<j, k>>}
    /\ \/ /\ throttle[k] > 0
          /\ UNCHANGED <<throttle, stage, hand, landed, faults>>
       \/ /\ throttle[k] = 0 /\ Spend(1)          \* ErrDegradedMiss, ErrWalkBusy
          /\ throttle' = Armed(k, NoEnv, own[j])
          /\ UNCHANGED <<stage, hand, landed>>
       \/ \E found \in {Found(k), NoEnv} :
             /\ throttle[k] = 0
             /\ IF found # Found(k) THEN Spend(1) ELSE UNCHANGED faults
             /\ throttle' = Armed(k, found, own[j])
             /\ IF SameLease(found, own[j]) THEN UNCHANGED <<stage, hand, landed>>
                ELSE stage' = "repair" /\ hand' = own[j] /\ landed' = FALSE

VerifyStep ==
    /\ stage = "verify"
    /\ \/ /\ todo = {}
          /\ stage' = "idle" /\ hand' = NoEnv /\ landed' = FALSE
          /\ UNCHANGED <<todo, throttle, faults>>
       \/ /\ todo # {}
          /\ LET j == Min({q[1] : q \in todo})
             IN  VerifyAt(j, FirstOf({q[2] : q \in {r \in todo : r[1] = j}}))
    /\ UNCHANGED <<own, saved, held>>

\* The repair re-puts the existing envelope at every key; its outcome is
\* only logged.  Its faults are those of the publishes above.
RepairStep ==
    /\ stage = "repair"
    /\ \E reached \in SUBSET Holder :
          /\ Spend(Cardinality(Holder \ reached))
          /\ held' = [p \in Holder |-> [k \in StorageKey |->
                         Offer(held, k, hand, reached)[p][k]]]
    /\ stage' = "verify"
    /\ UNCHANGED <<own, saved, throttle, todo, hand, landed>>

-----------------------------------------------------------------------------
(* The rest of the world.                                                   *)

\* persistLoop: a snapshot of the store.
Snapshot ==
    /\ stage # "down" /\ saved # own
    /\ saved' = own
    /\ UNCHANGED <<own, held, throttle, stage, todo, hand, landed, faults>>

Crash ==
    /\ stage # "down"
    /\ Spend(1)
    /\ stage' = "down" /\ own' = Nowhere /\ todo' = {} /\ hand' = NoEnv /\ landed' = FALSE
    /\ throttle' = [k \in StorageKey |-> 0]
    /\ UNCHANGED <<saved, held>>

\* A tick goes by while the daemon is down.
DownTick ==
    /\ stage = "down"
    /\ Spend(1)
    /\ Settle(own, [k \in StorageKey |-> Aged(saved[k])],
              [p \in Holder |-> [k \in StorageKey |-> Aged(held[p][k])]])
    /\ UNCHANGED <<throttle, stage, todo, hand, landed>>

\* The boot tick runs at once.
Boot ==
    /\ stage = "down"
    /\ own' = saved /\ stage' = "renew"
    /\ UNCHANGED <<saved, held, throttle, todo, hand, landed, faults>>

\* A holder restarts without its store.
HolderLoses(p) ==
    /\ Spend(1)
    /\ held' = [held EXCEPT ![p] = Nowhere]
    /\ UNCHANGED <<own, saved, throttle, stage, todo, hand, landed>>

\* republishDue on a holder: a record past RefreshFraction of its life goes
\* out at its name key, from either of its two entries, to every target,
\* the owner's own node included.
RepublishDue(p) ==
    \E k \in StorageKey :
        LET e == held[p][k]
        IN  /\ e # NoEnv /\ e.left <= RenewBelow
            /\ held' = Offer(held, NameKey, e, Holder)
            /\ own' = IF stage # "down" /\ Takes(own[NameKey], e)
                      THEN [own EXCEPT ![NameKey] = e] ELSE own
            /\ UNCHANGED <<saved, throttle, stage, todo, hand, landed, faults>>

KeeperStep == Wake \/ RenewOnce \/ PublishStep \/ InstallStep \/ VerifyStep
              \/ RepairStep \/ Boot

LeaseNext ==
    \/ KeeperStep
    \/ Snapshot
    \/ Crash
    \/ DownTick
    \/ \E p \in Holder : HolderLoses(p)
    \/ \E p \in Holder : RepublishDue(p)

\* The ticker never stops, the reconciler is one goroutine that finishes its
\* tick, the persist loop runs every minute and a dead daemon is restarted.
LeaseFairness == WF_leaseVars(KeeperStep) /\ WF_leaseVars(Snapshot)

LeaseSpec == LeaseInit /\ [][LeaseNext]_leaseVars /\ LeaseFairness

-----------------------------------------------------------------------------
(* Properties.                                                              *)

Resolvable(k) == \E p \in Holder : held[p][k].left > 0

\* The name never goes dark: at every key some holder has an unexpired lease,
\* as long as fewer things have gone wrong than there are holders (renewOnce
\* retries on every tick of the last fifth, reconcileLeases repairs).
LeaseNeverLapses ==
    Faults - faults < Cardinality(Holder) => \A k \in StorageKey : Resolvable(k)

\* Whatever went wrong, the reconciler repairs it: from some point on every
\* holder has, at every key, exactly the owner's current lease whenever the
\* reconciler is between ticks (the ticks are the confirmation).
LeaseConverges ==
    <>[](stage = "idle" => \A p \in Holder, k \in StorageKey :
            own[k] # NoEnv /\ SameLease(held[p][k], own[k]) /\ own[k].left > 0)
=============================================================================
