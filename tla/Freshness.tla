------------------------------ MODULE Freshness ------------------------------
(***************************************************************************)
(* DHTLookup (internal/dht/transport.go): which local copy of a record is  *)
(* served without asking the network.  A key without a fetch stamp is      *)
(* authoritative and fresh until it expires; a key with one is a network   *)
(* cache, fresh for a window.  Stamps live in memory and in fetched.json,  *)
(* the copies in the store and its *.cbor files, written one after the     *)
(* other (cmd/freens/main.go).                                             *)
(*                                                                         *)
(* One key; a copy is a generation number, published with a lease of       *)
(* CopyLease ticks, and `by` remembers how this node came to hold it.      *)
(***************************************************************************)
EXTENDS Integers, Sequences

CONSTANTS
    Looker,        \* concurrent lookups of the key
    CopyLease,     \* lifetime of a generation
    Window,        \* cacheFreshness
    Grace,         \* ExpiryGrace: the store keeps a lapsed copy this long
    MaxGens,       \* bound on the generations published
    MaxFreshClock  \* bound on the clock

ASSUME FreshAssumption ==
    /\ {CopyLease, Window} \subseteq Nat \ {0}
    /\ {Grace, MaxGens, MaxFreshClock} \subseteq Nat

VARIABLES
    freshClock,
    latestGen,   \* expiry of each generation published so far, oldest first
    ownCopies,   \* the store's copy: [gen, by], gen = 0 for none
    stamp,       \* fetchedAt[key], -1 for none
    diskCopy,    \* the copy in the persist directory
    diskStamp,   \* fetched.json
    persisting,  \* the envelopes are written, the stamps not yet
    looking,     \* looker -> its lookup: [at, got], or NotLooking
    pruning,     \* a pass over the stamps found the key's copy gone
    fetched,     \* history: the last time a lookup that found a copy began
    laundered    \* history: a restart found a fetched copy without its stamp

freshVars == <<freshClock, latestGen, ownCopies, stamp, diskCopy, diskStamp, persisting, looking, pruning,
               fetched, laundered>>

NoCopy == [gen |-> 0, by |-> "none"]
NotLooking == [at |-> -1, got |-> -1]

Expires(c) == latestGen[c.gen]
Lapsed(c, t) == t >= Expires(c)

\* EnvelopeStore.Get and Has
Alive(c, t) == c.gen > 0 /\ t < Expires(c) + Grace

\* freshLocked
freshLocked(c, t) == Alive(c, t) /\ ~Lapsed(c, t) /\ (stamp < 0 \/ t < stamp + Window)

\* Lookup and LookupClaim: a fresh copy is served as it is (no step of this
\* model); otherwise the lookup walks.
LookBegin(l) ==
    /\ looking[l] = NotLooking /\ ~freshLocked(ownCopies, freshClock)
    /\ looking' = [looking EXCEPT ![l] = [at |-> freshClock, got |-> -1]]
    /\ UNCHANGED <<freshClock, latestGen, ownCopies, stamp, diskCopy, diskStamp, persisting, pruning, fetched, laundered>>

\* The walk ends with a generation, or with none (0); a lapsed winner has been
\* retried once (expiredWinner) and is kept only if nothing beat it.
LookWalked(l, g) ==
    /\ looking[l] # NotLooking /\ looking[l].got < 0
    /\ looking' = [looking EXCEPT ![l].got = g]
    /\ UNCHANGED <<freshClock, latestGen, ownCopies, stamp, diskCopy, diskStamp, persisting, pruning, fetched, laundered>>

\* store.Put: a newer generation replaces the copy, an equal one is accepted.
CopyStored(g, how, t) ==
    IF g > ownCopies.gen \/ ~Alive(ownCopies, t) THEN [gen |-> g, by |-> how] ELSE ownCopies

\* A miss: the cached copy is returned, or the miss is (a lapsed copy of a claim
\* only when the walk was clean).  Nothing changes.
LookMissed(l) ==
    /\ looking[l].got = 0
    /\ looking' = [looking EXCEPT ![l] = NotLooking]
    /\ UNCHANGED <<freshClock, latestGen, ownCopies, stamp, diskCopy, diskStamp, persisting, pruning, fetched, laundered>>

\* stampFetchedAt: the time the lookup began.
StampFetchedAt(l) == looking[l].at

\* A hit: Put, then stampFetchedAt.  A reader between the two finds the copy
\* with the old stamp or none, as after a push.
LookStore(l) ==
    /\ looking[l].got > 0
    /\ ownCopies' = CopyStored(looking[l].got, "fetched", looking[l].at)
    /\ stamp' = StampFetchedAt(l)
    /\ fetched' = IF looking[l].at > fetched THEN looking[l].at ELSE fetched
    /\ looking' = [looking EXCEPT ![l] = NotLooking]
    /\ UNCHANGED <<freshClock, latestGen, diskCopy, diskStamp, persisting, pruning, laundered>>

\* stampFetchedAt's pass over a full table, in two steps: the key's copy is gone ...
PruneFind ==
    /\ ~pruning /\ stamp >= 0 /\ ~Alive(ownCopies, freshClock)
    /\ pruning' = TRUE
    /\ UNCHANGED <<freshClock, latestGen, ownCopies, stamp, diskCopy, diskStamp, persisting, looking, fetched, laundered>>

\* Fault: the stamp goes without a second look at the store.
PruneStale == -1

\* ... and still is under the second lock.
Pruned == IF Alive(ownCopies, freshClock) THEN stamp ELSE -1

PruneDelete ==
    /\ pruning
    /\ stamp' = Pruned
    /\ pruning' = FALSE
    /\ UNCHANGED <<freshClock, latestGen, ownCopies, diskCopy, diskStamp, persisting, looking, fetched, laundered>>

\* hPut: a peer pushes a generation into the store.
Pushed(g) ==
    /\ ~Lapsed([gen |-> g], freshClock) /\ g >= ownCopies.gen
    /\ ownCopies' = CopyStored(g, "pushed", freshClock)
    /\ UNCHANGED <<freshClock, latestGen, stamp, diskCopy, diskStamp, persisting, looking, pruning, fetched, laundered>>

\* The owner, somewhere else, publishes the next generation.
PublishGen ==
    /\ Len(latestGen) < MaxGens
    /\ latestGen' = Append(latestGen, freshClock + CopyLease)
    /\ UNCHANGED <<freshClock, ownCopies, stamp, diskCopy, diskStamp, persisting, looking, pruning, fetched, laundered>>

\* persistLoop: PersistTo, then persistFetchMeta.
PersistCopies ==
    /\ ~persisting
    /\ diskCopy' = ownCopies /\ persisting' = TRUE
    /\ UNCHANGED <<freshClock, latestGen, ownCopies, stamp, diskStamp, looking, pruning, fetched, laundered>>

PersistStamps ==
    /\ persisting
    /\ diskStamp' = stamp /\ persisting' = FALSE
    /\ UNCHANGED <<freshClock, latestGen, ownCopies, stamp, diskCopy, looking, pruning, fetched, laundered>>

\* The process ends at any point and starts again from the directory.
FreshRestart ==
    /\ ownCopies' = diskCopy /\ stamp' = diskStamp
    /\ persisting' = FALSE /\ pruning' = FALSE
    /\ looking' = [l \in Looker |-> NotLooking]
    /\ laundered' = (laundered \/ (diskCopy.by = "fetched" /\ diskStamp < 0))
    /\ UNCHANGED <<freshClock, latestGen, diskCopy, diskStamp, fetched>>

FreshTick ==
    /\ freshClock < MaxFreshClock
    /\ freshClock' = freshClock + 1
    /\ UNCHANGED <<latestGen, ownCopies, stamp, diskCopy, diskStamp, persisting, looking, pruning, fetched, laundered>>

FreshInit ==
    /\ freshClock = 0 /\ latestGen = <<CopyLease>>
    /\ ownCopies = NoCopy /\ stamp = -1 /\ diskCopy = NoCopy /\ diskStamp = -1
    /\ persisting = FALSE /\ pruning = FALSE /\ laundered = FALSE
    /\ looking = [l \in Looker |-> NotLooking] /\ fetched = -1

FreshNext ==
    \/ \E l \in Looker :
         \/ LookBegin(l)
         \/ \E g \in 0..Len(latestGen) : LookWalked(l, g)
         \/ LookMissed(l) \/ LookStore(l)
    \/ \E g \in 1..Len(latestGen) : Pushed(g)
    \/ PruneFind \/ PruneDelete \/ PublishGen
    \/ PersistCopies \/ PersistStamps \/ FreshRestart \/ FreshTick

FreshSpec == FreshInit /\ [][FreshNext]_freshVars

-----------------------------------------------------------------------------
(* Properties *)

\* The store, the stamps and the lookups are well typed.
FreshTypeOK ==
    /\ freshClock \in 0..MaxFreshClock
    /\ {stamp, diskStamp, fetched} \subseteq -1..freshClock
    /\ {ownCopies.gen, diskCopy.gen} \subseteq 0..Len(latestGen)
    /\ \A l \in Looker : looking[l].got \in -1..Len(latestGen) /\ looking[l].at \in -1..freshClock

\* What is served without asking the network has not lapsed and, if this node
\* fetched it, a walk confirmed the key within the window, however lookups,
\* pushes, the pruning of stamps and restarts interleave (a restart between the
\* two files apart): an update published elsewhere is seen within one window.
CacheStaysRevalidated ==
    freshLocked(ownCopies, freshClock) =>
        /\ ~Lapsed(ownCopies, freshClock)
        /\ ownCopies.by = "fetched" /\ ~laundered => freshClock - fetched < Window
=============================================================================
