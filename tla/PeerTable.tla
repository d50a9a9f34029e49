------------------------------ MODULE PeerTable ------------------------------
(***************************************************************************)
(* The routing table of a node (internal/dht/routing.go) and everything    *)
(* that writes to it: verified inbound messages, advertised contacts and   *)
(* the ping that confirms them, missed walk probes, the live-eviction      *)
(* loop, the idle sweep, and the peerbook that carries it over a restart.  *)
(*                                                                         *)
(* Each table method holds the table's lock, so it is one step.  Callers   *)
(* that read the table and write it later (learnPeer, probeFailed,         *)
(* evictCandidate, confirmContact, the sweep) are two steps or more.       *)
(* A peer is its node ID; the key that determines it is left out.  Time    *)
(* counts from 1, and 0 is the code's "never".                             *)
(***************************************************************************)
EXTENDS Integers, Sequences, FiniteSets, TLC

CONSTANTS
    Peer, Addr,
    NumBuckets,    \* numBuckets
    BucketOf,      \* peer -> index of its bucket
    HeardAt, TaughtAt,\* peer -> the addresses it speaks from, and is taught at
    Viable,        \* the addresses this node can reach (viableIP)
    Capacity,      \* slots of a bucket
    MaxAddrsPerContact,
    ContactIdleTTL,
    PeerBookRecency,
    EvictQueue,    \* capacity of evictCh
    Seeds,         \* sequence of [id, addr] from seeds.conf
    MaxPeerClock,  \* bound on the clock
    MaxConfirms,   \* bound on concurrent confirmContact goroutines
    MaxTasks       \* bound on concurrent tasks that read, then write, the table

ASSUME PeerAssumption ==
    /\ NumBuckets \in Nat /\ BucketOf \in [Peer -> 1 .. NumBuckets]
    /\ HeardAt \in [Peer -> SUBSET Addr]
    /\ TaughtAt \in [Peer -> SUBSET Addr]
    /\ IsFiniteSet(Addr) /\ Viable \subseteq Addr /\ Seeds \in Seq([id : Peer, addr : Addr])
    /\ {Capacity, MaxAddrsPerContact, EvictQueue} \subseteq Nat \ {0}
    /\ {ContactIdleTTL, PeerBookRecency} \subseteq Nat
    /\ {MaxPeerClock, MaxConfirms, MaxTasks} \subseteq Nat

VARIABLES
    peerClock,
    rt,            \* bucket index -> sequence of contacts, oldest first
    evictCh,       \* queued newcomers of full buckets
    evictPending,  \* bucket indices queued or in flight
    evicting,      \* the request evictionLoop is serving, or Idle
    learning,      \* the contact between rt.Get and rt.Add of a learner, or Idle
    probing,       \* a missed probe between rt.Get and its effect, or Idle
    confirming,    \* running confirmContact goroutines
    sweeping,      \* peers the idle sweep has found stale, or Idle
    book,          \* the peerbook file, sequence of [id, addr, conf]
    lastHeard      \* history: <<peer, address>> -> last verified message

peerVars == <<peerClock, rt, evictCh, evictPending, evicting,
              learning, probing, confirming, sweeping, book, lastHeard>>

Idle == [idle |-> TRUE]
Buckets == 1 .. NumBuckets
Listed(s) == {s[i] : i \in DOMAIN s}
First(S) == CHOOSE i \in S : \A j \in S : i <= j
Newest(t, u) == IF u > t THEN u ELSE t

\* append(s[:i], s[i+1:]...)
CutAt(s, i) == [j \in 1 .. Len(s) - 1 |-> IF j < i THEN s[j] ELSE s[j + 1]]

\* What a loop that keeps the members of K leaves of s.
Filtered(s, K) ==
    LET kept[n \in 0 .. Len(s)] ==
            IF n = 0 THEN << >> ELSE IF s[n] \in K THEN Append(kept[n - 1], s[n]) ELSE kept[n - 1]
    IN  kept[Len(s)]

AddrState(a, seen, conf) == [addr |-> a, seen |-> seen, conf |-> conf]

\* NewNodeContact, with the stamps its callers add.  FirstSeen, which only the
\* choice of replica targets reads, is left out.
Contact(p, a, seen, conf) ==
    [id |-> p, addr |-> a, seen |-> seen, conf |-> conf, alts |-> << >>]

-----------------------------------------------------------------------------
(* Addresses of one contact *)

addrOutranks(in, cur) ==
    IF in.conf > 0 \/ cur.conf > 0 THEN in.conf > cur.conf ELSE in.seen > cur.seen

\* Fault: a new preferred address keeps the confirmation of the old one.
UsingAltKeepsConf(c, i, oldConf) ==
    [id |-> c.id, addr |-> c.alts[i].addr, seen |-> c.alts[i].seen, conf |-> c.conf,
     alts |-> [c.alts EXCEPT ![i] = AddrState(c.addr, c.seen, oldConf)]]

\* Swap the preferred address with alternate i.
UsingAlt(c, i, oldConf) ==
    [id |-> c.id, addr |-> c.alts[i].addr, seen |-> c.alts[i].seen, conf |-> c.alts[i].conf,
     alts |-> [c.alts EXCEPT ![i] = AddrState(c.addr, c.seen, oldConf)]]

\* repointPreferredIfNeeded: the first of the best-ranked alternates takes over.
repointPreferred(c) ==
    LET better == {i \in DOMAIN c.alts : addrOutranks(c.alts[i], c)}
        best == {i \in better : \A j \in better : ~addrOutranks(c.alts[j], c.alts[i])}
    IN  IF best = {} THEN c ELSE UsingAlt(c, First(best), c.conf)

\* trimAlts, for the one entry that an append can bring over the limit.
trimAlts(alts) ==
    IF Len(alts) < MaxAddrsPerContact THEN alts
    ELSE LET oldest == {i \in DOMAIN alts :
                          \A j \in DOMAIN alts : alts[i].seen <= alts[j].seen}
         IN  CutAt(alts, First(oldest))

mergeAddr(c, in) ==
    LET known == {i \in DOMAIN c.alts : c.alts[i].addr = in.addr}
    IN  CASE in.addr = c.addr -> c
          [] in.addr # c.addr /\ known # {} ->
               LET i == First(known)
               IN  repointPreferred([c EXCEPT !.alts = [c.alts EXCEPT ![i] =
                     AddrState(in.addr, in.seen, Newest(c.alts[i].conf, in.conf))]])
          [] OTHER ->
               repointPreferred([c EXCEPT !.alts =
                 trimAlts(Append(c.alts, AddrState(in.addr, in.seen, in.conf)))])

\* OtherAddrs: freshest confirmation first, then freshest learn.
OtherAddrs(c) ==
    SortSeq(c.alts, LAMBDA a, b : a.conf > b.conf \/ (a.conf = b.conf /\ a.seen > b.seen))

Recent(a) == peerClock - a.seen <= ContactIdleTTL

-----------------------------------------------------------------------------
(* The table *)

IndexIn(bucket, p) == {i \in DOMAIN bucket : bucket[i].id = p}
Known(table, p) == IndexIn(table[BucketOf[p]], p) # {}

\* Get: the stored contact (Known must hold).
Get(table, p) == table[BucketOf[p]][First(IndexIn(table[BucketOf[p]], p))]

\* Add refuses a stranger when its bucket is full.
Refused(table, c) == ~Known(table, c.id) /\ Len(table[BucketOf[c.id]]) >= Capacity

\* AddOrRefresh: merge the address; a direct exchange also moves the contact
\* to the tail.
Add(table, c) ==
    LET b == BucketOf[c.id]
    IN  CASE Known(table, c.id) ->
               LET i == First(IndexIn(table[b], c.id))
                   cur == mergeAddr(table[b][i], c)
                   new == [cur EXCEPT !.conf = Newest(@, c.conf)]
               IN  IF c.conf > 0
                   THEN [table EXCEPT ![b] = Append(CutAt(@, i), [new EXCEPT !.seen = c.seen])]
                   ELSE [table EXCEPT ![b][i] = new]
          [] Refused(table, c) -> table
          [] OTHER -> [table EXCEPT ![b] = Append(@, c)]

RemoveContact(table, p) ==
    IF ~Known(table, p) THEN table
    ELSE [table EXCEPT ![BucketOf[p]] = CutAt(@, First(IndexIn(@, p)))]

\* The stored contact of p becomes c.
Replace(table, p, c) ==
    [table EXCEPT ![BucketOf[p]] = [@ EXCEPT ![First(IndexIn(@, p))] = c]]

Demote(table, p) ==
    IF ~Known(table, p) THEN table ELSE Replace(table, p, [Get(table, p) EXCEPT !.conf = 0])

AltsAt(c, a) == {i \in DOMAIN c.alts : c.alts[i].addr = a}
CanPromote(table, p, a) == Known(table, p) /\ AltsAt(Get(table, p), a) # {}

\* PromoteAlt: the outgoing address loses its confirmation.
PromoteAlt(table, p, a) ==
    IF ~CanPromote(table, p, a) THEN table
    ELSE LET c == Get(table, p) IN Replace(table, p, UsingAlt(c, First(AltsAt(c, a)), 0))

AllContacts(table) == UNION {Listed(table[b]) : b \in Buckets}

\* PruneStaleAlts, for one contact: its confirmed alternates and the recent ones.
WithRecentAlts(c, olderThan) ==
    [c EXCEPT !.alts = Filtered(@, {a \in Listed(@) : ~(a.conf = 0 /\ peerClock - a.seen > olderThan)})]

PruneStaleAlts(table, olderThan) ==
    [b \in Buckets |-> [i \in DOMAIN table[b] |-> WithRecentAlts(table[b][i], olderThan)]]

-----------------------------------------------------------------------------
(* Learning *)

\* Fault: a full queue keeps the bucket marked.
ScheduledStuck(pending, queue, c) ==
    [pending |-> pending \cup {BucketOf[c.id]},
     queue |-> IF BucketOf[c.id] \notin pending /\ Len(queue) < EvictQueue
               THEN Append(queue, c) ELSE queue]

\* scheduleEviction: one request per bucket; a full queue drops it.
Scheduled(pending, queue, c) ==
    IF BucketOf[c.id] \in pending \/ Len(queue) >= EvictQueue
    THEN [pending |-> pending, queue |-> queue]
    ELSE [pending |-> pending \cup {BucketOf[c.id]}, queue |-> Append(queue, c)]

\* learn, on the state it changes.
Learned(st, c) ==
    LET s == Scheduled(st.pending, st.queue, c)
    IN  [table |-> Add(st.table, c),
         pending |-> IF Refused(st.table, c) THEN s.pending ELSE st.pending,
         queue |-> IF Refused(st.table, c) THEN s.queue ELSE st.queue]

Now == [table |-> rt, pending |-> evictPending, queue |-> evictCh]

Learn(c) ==
    LET st == Learned(Now, c)
    IN  rt' = st.table /\ evictPending' = st.pending /\ evictCh' = st.queue

\* Room for another task, besides the eviction loop.
MayStart ==
    Cardinality({x \in {<<1, learning>>, <<2, probing>>, <<3, sweeping>>} : x[2] # Idle})
      + Cardinality(confirming) < MaxTasks

\* handle and learnPeer up to the insertion: a verified message of p, observed
\* at one address and advertising another (or none), from a peer that is
\* neither transient nor flagged.  The advertised address is used if viable.
Inbound(p, observed, advertised) ==
    LET a == IF advertised \in Viable THEN advertised ELSE observed
    IN  /\ learning = Idle /\ MayStart
        /\ learning' = [contact |-> Contact(p, a, peerClock, peerClock), isNew |-> FALSE]
        /\ lastHeard' = [lastHeard EXCEPT ![<<p, a>>] = peerClock]
        /\ UNCHANGED <<peerClock, rt, evictCh, evictPending, evicting,
                       probing, confirming, sweeping, book>>

\* learnContact up to the insertion: p taught at address a by a node list.
Advertised(p, a) ==
    /\ learning = Idle /\ MayStart
    /\ a \in Viable
    /\ learning' = [contact |-> Contact(p, a, peerClock, 0), isNew |-> ~Known(rt, p)]
    /\ UNCHANGED <<peerClock, rt, evictCh, evictPending, evicting,
                   probing, confirming, sweeping, book, lastHeard>>

\* learn, and the confirmation ping of a stranger that was only advertised.
LearnStep ==
    /\ learning # Idle
    /\ Learn(learning.contact)
    /\ learning' = Idle
    /\ LET c == learning.contact
       IN  confirming' =
             IF /\ learning.isNew /\ \A g \in confirming : g.id # c.id
                /\ Cardinality(confirming) < MaxConfirms
             THEN confirming \cup {[id |-> c.id, cands |-> <<c.addr>>, next |-> 0]}
             ELSE confirming
    /\ UNCHANGED <<peerClock, evicting, probing, sweeping, book, lastHeard>>

\* confirmContact reads the recent alternates of its contact.
ConfirmBegin(g) ==
    /\ g \in confirming /\ g.next = 0
    /\ LET more == IF Known(rt, g.id)
                   THEN SelectSeq(OtherAddrs(Get(rt, g.id)),
                          LAMBDA a : Recent(a) /\ a.addr # g.cands[1])
                   ELSE << >>
           cands == g.cands \o [i \in DOMAIN more |-> more[i].addr]
       IN  confirming' = (confirming \ {g}) \cup {[g EXCEPT !.cands = cands, !.next = 1]}
    /\ UNCHANGED <<peerClock, rt, evictCh, evictPending, evicting,
                   learning, probing, sweeping, book, lastHeard>>

\* A ping of confirmContact misses: the first miss promotes the second candidate.
ConfirmMiss(g) ==
    /\ g \in confirming /\ g.next > 0
    /\ rt' = IF g.next = 1 /\ Len(g.cands) > 1 THEN PromoteAlt(rt, g.id, g.cands[2]) ELSE rt
    /\ confirming' = (confirming \ {g}) \cup
         (IF g.next < Len(g.cands) THEN {[g EXCEPT !.next = @ + 1]} ELSE {})
    /\ UNCHANGED <<peerClock, evictCh, evictPending, evicting,
                   learning, probing, sweeping, book, lastHeard>>

\* A ping is answered; the read loop does the confirming (Inbound).
ConfirmAnswered(g) ==
    /\ g \in confirming /\ g.next > 0
    /\ confirming' = confirming \ {g}
    /\ UNCHANGED <<peerClock, rt, evictCh, evictPending, evicting,
                   learning, probing, sweeping, book, lastHeard>>

-----------------------------------------------------------------------------
(* Missed probes of the walks *)

\* probeFailed reads the stored contact of the peer whose address a missed: its
\* recent other addresses, best first, and whether it is confirmed.
ProbeMissed(p, a) ==
    LET others == IF Known(rt, p)
                  THEN SelectSeq(OtherAddrs(Get(rt, p)), LAMBDA x : x.addr # a /\ Recent(x))
                  ELSE << >>
    IN  /\ probing = Idle /\ MayStart
        /\ probing' = [id |-> p,
                       others |-> [i \in DOMAIN others |-> others[i].addr],
                       confirmed |-> Known(rt, p) /\ Get(rt, p).conf > 0]
        /\ UNCHANGED <<peerClock, rt, evictCh, evictPending, evicting,
                       learning, confirming, sweeping, book, lastHeard>>

\* The alternates that PromoteAlt still finds.
Failovers == SelectSeq(probing.others, LAMBDA a : CanPromote(rt, probing.id, a))

\* Fail over, or demote a confirmed contact, or remove.
ProbeEffect ==
    CASE Failovers # << >> -> PromoteAlt(rt, probing.id, Failovers[1])
      [] Failovers = << >> /\ probing.confirmed -> Demote(rt, probing.id)
      [] OTHER -> RemoveContact(rt, probing.id)

\* The rest of probeFailed.
ProbeActs ==
    /\ probing # Idle
    /\ rt' = ProbeEffect
    /\ probing' = Idle
    /\ UNCHANGED <<peerClock, evictCh, evictPending, evicting, learning,
                   confirming, sweeping, book, lastHeard>>

-----------------------------------------------------------------------------
(* Live eviction *)

\* evictionLoop takes a request; evictCandidate retries the insertion first.
EvictTake ==
    /\ evicting = Idle /\ evictCh # << >>
    /\ LET c == Head(evictCh)
       IN  /\ rt' = Add(rt, c)
           /\ evicting' = IF Refused(rt, c)
                          THEN [new |-> c, oldest |-> Head(rt[BucketOf[c.id]]), alts |-> {}]
                          ELSE Idle
           /\ evictPending' = IF Refused(rt, c) THEN evictPending
                              ELSE evictPending \ {BucketOf[c.id]}
    /\ evictCh' = Tail(evictCh)
    /\ UNCHANGED <<peerClock, learning, probing, confirming, sweeping,
                   book, lastHeard>>

\* Fault: a kept incumbent leaves its bucket marked.
EvictDoneMarked ==
    evicting' = Idle /\ evictPending' = evictPending

EvictDone ==
    evicting' = Idle /\ evictPending' = evictPending \ {BucketOf[evicting.new.id]}

\* The oldest contact answers, or its address cannot be resolved.
EvictKeep ==
    /\ evicting # Idle
    /\ EvictDone
    /\ UNCHANGED <<peerClock, rt, evictCh, learning, probing,
                   confirming, sweeping, book, lastHeard>>

\* The oldest contact misses; its other addresses are read and pinged.
EvictMissed ==
    /\ evicting # Idle /\ evicting.alts = {}
    /\ Known(rt, evicting.oldest.id)
    /\ LET live == Get(rt, evicting.oldest.id)
       IN  evicting' = [evicting EXCEPT !.alts =
               {live.alts[i].addr : i \in DOMAIN live.alts} \ {evicting.oldest.addr}]
    /\ evicting'.alts # {}
    /\ UNCHANGED <<peerClock, rt, evictCh, evictPending, learning,
                   probing, confirming, sweeping, book, lastHeard>>

EvictAltAnswers(a) ==
    /\ evicting # Idle /\ a \in evicting.alts
    /\ rt' = PromoteAlt(rt, evicting.oldest.id, a)
    /\ EvictDone
    /\ UNCHANGED <<peerClock, evictCh, learning, probing, confirming,
                   sweeping, book, lastHeard>>

\* No address answered: the newcomer takes the slot.
EvictSwap ==
    /\ evicting # Idle
    /\ rt' = Add(RemoveContact(rt, evicting.oldest.id), evicting.new)
    /\ EvictDone
    /\ UNCHANGED <<peerClock, evictCh, learning, probing, confirming,
                   sweeping, book, lastHeard>>

-----------------------------------------------------------------------------
(* Idle sweep, peerbook, restart *)

Effective(c) == IF c.conf = 0 THEN c.seen ELSE c.conf

\* sweepIdleContacts judges a copy of the table ...
SweepRead ==
    /\ sweeping = Idle /\ MayStart
    /\ sweeping' = [stale |-> {c.id : c \in {x \in AllContacts(rt) :
                                    peerClock - Effective(x) > ContactIdleTTL}}]
    /\ UNCHANGED <<peerClock, rt, evictCh, evictPending, evicting,
                   learning, probing, confirming, book, lastHeard>>

\* ... and then removes from the table, and prunes the alternates.
SweepRemove ==
    /\ sweeping # Idle
    /\ rt' = PruneStaleAlts(
               [b \in Buckets |-> Filtered(rt[b], {c \in Listed(rt[b]) : c.id \notin sweeping.stale})],
               2 * ContactIdleTTL)
    /\ sweeping' = Idle
    /\ UNCHANGED <<peerClock, evictCh, evictPending, evicting,
                   learning, probing, confirming, book, lastHeard>>

BookEntry(c) == [id |-> c.id, addr |-> c.addr, conf |-> c.conf]

\* confirmedPeers: confirmed contacts heard from lately, in storage order.
Bookable(bucket) ==
    Filtered(bucket, {c \in Listed(bucket) : c.conf > 0 /\ peerClock - c.conf <= PeerBookRecency})
confirmedPeers ==
    LET upTo[b \in 0 .. NumBuckets] ==
            IF b = 0 THEN << >>
            ELSE upTo[b - 1] \o [i \in DOMAIN Bookable(rt[b]) |-> BookEntry(Bookable(rt[b])[i])]
    IN  upTo[NumBuckets]

\* savePeerbook: an empty list leaves the old book.
savePeerbook ==
    /\ confirmedPeers # << >>
    /\ book' = confirmedPeers
    /\ UNCHANGED <<peerClock, rt, evictCh, evictPending, evicting,
                   learning, probing, confirming, sweeping, lastHeard>>

\* The book entries peersFromSources keeps: an address that a seed gives is not
\* taken twice.
Unseeded == Filtered(book, {x \in Listed(book) : [id |-> x.id, addr |-> x.addr] \notin Listed(Seeds)})

\* Bootstrap of seeds then book: a book entry carries its confirmation.
Sources ==
    [i \in DOMAIN Seeds |-> Contact(Seeds[i].id, Seeds[i].addr, peerClock, 0)]
      \o [i \in DOMAIN Unseeded |->
            Contact(Unseeded[i].id, Unseeded[i].addr, peerClock, Unseeded[i].conf)]
EmptyTable == [table |-> [b \in Buckets |-> << >>], pending |-> {}, queue |-> << >>]
Booted ==
    LET boot[n \in 0 .. Len(Sources)] ==
            IF n = 0 THEN EmptyTable ELSE Learned(boot[n - 1], Sources[n])
    IN  boot[Len(Sources)]

\* The daemon stops, at any point, and starts again from the book.
PeerRestart ==
    /\ rt' = Booted.table /\ evictPending' = Booted.pending /\ evictCh' = Booted.queue
    /\ evicting' = Idle /\ learning' = Idle /\ probing' = Idle /\ sweeping' = Idle
    /\ confirming' = {}
    /\ UNCHANGED <<peerClock, book, lastHeard>>

PeerTick ==
    /\ peerClock < MaxPeerClock
    /\ peerClock' = peerClock + 1
    /\ UNCHANGED <<rt, evictCh, evictPending, evicting, learning,
                   probing, confirming, sweeping, book, lastHeard>>

PeerInit ==
    /\ peerClock = 1
    /\ rt = [b \in Buckets |-> << >>]
    /\ evictCh = << >> /\ evictPending = {}
    /\ evicting = Idle /\ learning = Idle /\ probing = Idle /\ sweeping = Idle
    /\ confirming = {}
    /\ book = << >>
    /\ lastHeard = [x \in Peer \X Addr |-> 0]

EvictStep ==
    \/ EvictTake \/ EvictKeep \/ EvictMissed \/ EvictSwap
    \/ \E a \in Addr : EvictAltAnswers(a)

PeerNext ==
    \/ \E p \in Peer :
         \/ \E a, adv \in HeardAt[p] : Inbound(p, a, adv)
         \/ \E a \in TaughtAt[p] : Advertised(p, a) \/ ProbeMissed(p, a)
    \/ \E g \in confirming : ConfirmBegin(g) \/ ConfirmMiss(g) \/ ConfirmAnswered(g)
    \/ LearnStep \/ ProbeActs \/ EvictStep \/ SweepRead \/ SweepRemove
    \/ savePeerbook \/ PeerRestart \/ PeerTick

\* evictionLoop is a goroutine whose pings all time out, so it keeps going.
PeerSpec == PeerInit /\ [][PeerNext]_peerVars /\ WF_peerVars(EvictStep)

-----------------------------------------------------------------------------
(* Properties *)

Stamp == 0..MaxPeerClock
AddrStates == [addr : Addr, seen : Stamp, conf : Stamp]

ContactOK(c) ==
    /\ c.id \in Peer /\ c.addr \in Addr
    /\ {c.seen, c.conf} \subseteq Stamp
    /\ Listed(c.alts) \subseteq AddrStates

\* Every table of the peer layer is well typed.
PeerTypeOK ==
    /\ peerClock \in 1..MaxPeerClock
    /\ DOMAIN rt = Buckets
    /\ \A c \in AllContacts(rt) \cup Listed(evictCh) : ContactOK(c)
    /\ evictPending \subseteq Buckets
    /\ learning = Idle \/ ContactOK(learning.contact)
    /\ \A g \in confirming : g.next \in 0..Len(g.cands)

\* Every confirmation stamp there is: <<peer, address, stamp>>.
Confirmations ==
    LET stored == AllContacts(rt) \cup Listed(evictCh)
    IN  {<<c.id, c.addr, c.conf>> : c \in stored}
        \cup {<<x.id, x.addr, x.conf>> : x \in Listed(book)}
        \cup UNION {{<<c.id, a.addr, a.conf>> : a \in Listed(c.alts)} : c \in stored}

\* "ConfirmedAt is only advanced by direct verified exchanges with that exact
\* address" (AddrState): no stamp, on a contact, an alternate address, a queued
\* newcomer or in the book, is newer than the last verified message of that
\* peer that gave that address.
ConfirmationsAreGenuine ==
    \A x \in Confirmations : x[3] <= lastHeard[<<x[1], x[2]>>]

\* The addresses a peer is ever known at, and whether the table tracks them all.
AddrsOf(p) == HeardAt[p] \cup TaughtAt[p] \cup {x.addr : x \in {y \in Listed(Seeds) : y.id = p}}
AllTracked(p) == Cardinality(AddrsOf(p)) <= MaxAddrsPerContact

\* No stamp is newer than the last verified message of that peer: re-teaching,
\* failover, eviction and restarts make no liveness up ("advertisement is not
\* evidence of life", learnContact).  And for a peer with no more addresses than
\* the table tracks, none is newer than the last message that gave its address.
ConfirmationsAreEarned ==
    \A x \in Confirmations :
        /\ \E a \in Addr : x[3] <= lastHeard[<<x[1], a>>]
        /\ AllTracked(x[1]) => x[3] <= lastHeard[<<x[1], x[2]>>]

\* A bucket is marked pending exactly while its request is queued or served,
\* and has one request: a lost mark would ping twice, a leaked one would stop
\* eviction in that bucket for good (scheduleEviction, evictionLoop).
EvictionMarkExact ==
    /\ evictPending = {BucketOf[c.id] : c \in Listed(evictCh)}
                      \cup (IF evicting = Idle THEN {} ELSE {BucketOf[evicting.new.id]})
    /\ \A i, j \in DOMAIN evictCh :
         BucketOf[evictCh[i].id] = BucketOf[evictCh[j].id] => i = j
    /\ evicting # Idle => \A c \in Listed(evictCh) : BucketOf[c.id] # BucketOf[evicting.new.id]

\* A bucket whose eviction is pending is resolved: the eviction loop never
\* wedges, whatever the table does while it pings.
EvictionResolves ==
    <>[][~PeerRestart]_peerVars => \A b \in Buckets : b \in evictPending ~> b \notin evictPending
=============================================================================
