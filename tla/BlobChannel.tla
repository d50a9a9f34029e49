---------------------------- MODULE BlobChannel ----------------------------
(***************************************************************************)
(* The release-archive cache and the TCP blob channel of one seeder        *)
(* (internal/dht/blobcache.go, blobtcp.go) with the receivers that stream  *)
(* from it (internal/cli/upgrade.go, tcpStreamFrom).  Upgrade runs and     *)
(* blobseed are separate processes that copy archives into the cache       *)
(* directory while the daemon serves them, so a file is an inode: a name   *)
(* can be removed or renamed under an open descriptor, and two processes   *)
(* that open the same temporary name write into the same inode.  The bytes *)
(* of an archive are its manifest chunks: "good", or a "hole" of zeros.    *)
(***************************************************************************)
EXTENDS Integers, FiniteSets, FiniteSetsExt, Functions, Sequences, SequencesExt

CONSTANTS
    Blob,                  \* whole-file digests
    ArchiveChunks,         \* chunks of an archive
    Storer,                \* processes that fill the cache
    Wants,                 \* the archives each of them stores
    Fetcher,               \* receivers
    IpAt,                  \* the source address of each receiver
    MaxConnsGlobal,        \* blobTCPMaxConnsGlobal
    MaxConnsPerIP,         \* blobTCPMaxConnsPerIP
    MaxCacheEntries,       \* maxBlobCacheEntries
    MaxStores, MaxStreams  \* bounds: runs of a storer, connections of a receiver

VARIABLES
    dir,              \* file name -> inode, 0 when absent
    bytes,            \* inode -> the chunks written so far
    touched,          \* the inodes by modification time, oldest first
    store,            \* the copy each storer is at
    link,             \* the connection of each receiver, both ends
    global, connsOf,  \* the accept loop's counters
    flaggedBy         \* receivers whose ledger holds a wrong-slice entry for this seeder

blobVars == <<dir, bytes, touched, store, link, global, connsOf, flaggedBy>>

Names == Blob \X {"gz", "tmp"}
Inodes == 1 .. 2 * Cardinality(Blob) + Cardinality(Storer) + Cardinality(Fetcher)
NotStoring(left) == [pc |-> "idle", blob |-> 0, ino |-> 0, at |-> 0, doomed |-> {}, left |-> left]
NotConnected(left) ==
    [srv |-> "none", cli |-> "none", blob |-> 0, ino |-> 0, off |-> 0,
     size |-> 0, status |-> "none", wire |-> <<>>, got |-> 0, left |-> left]

PresentFiles == {f \in Names : dir[f] # 0}
FreeInode ==
    Min(Inodes \ (Range(dir) \cup {store[p].ino : p \in Storer} \cup {link[c].ino : c \in Fetcher}))

----------------------------------------------------------------------------
(* Filling the cache.                                                      *)

StoreEnds(p) == store' = [store EXCEPT ![p] = NotStoring(@.left)]

TmpName(b) == <<b, "tmp">>

\* An upgrade stores the archive it verified; the prefetch of the other
\* platforms and blobseed skip what is cached already.
StoreBegin(p) ==
    /\ store[p].pc = "idle" /\ store[p].left > 0
    /\ \E b \in Wants[p], own \in BOOLEAN :
          /\ own \/ dir[<<b, "gz">>] = 0
          /\ store' = [store EXCEPT ![p].pc = "open", ![p].blob = b, ![p].left = @ - 1]
    /\ UNCHANGED <<dir, bytes, touched, link, global, connsOf, flaggedBy>>

Touch(i) == touched' = Append(SelectSeq(touched, LAMBDA x : x # i), i)

\* O_CREATE|O_TRUNC: an existing temporary file is emptied, not replaced.
StoreOpen(p) ==
    /\ store[p].pc = "open"
    /\ LET f == TmpName(store[p].blob)
           i == IF dir[f] # 0 THEN dir[f] ELSE FreeInode
       IN /\ dir' = [dir EXCEPT ![f] = i]
          /\ bytes' = [bytes EXCEPT ![i] = <<>>]
          /\ Touch(i)
          /\ store' = [store EXCEPT ![p].pc = "copy", ![p].ino = i, ![p].at = 0]
    /\ UNCHANGED <<link, global, connsOf, flaggedBy>>

\* A write at offset k: what lies before it and was never written reads as zeros.
Patched(s, k) ==
    [i \in 1 .. Max({Len(s), k}) |-> IF i = k THEN "good" ELSE IF i <= Len(s) THEN s[i] ELSE "hole"]

StoreWrite(p) ==
    /\ store[p].pc = "copy" /\ store[p].at < ArchiveChunks
    /\ bytes' = [bytes EXCEPT ![store[p].ino] = Patched(@, store[p].at + 1)]
    /\ Touch(store[p].ino)
    /\ store' = [store EXCEPT ![p].at = @ + 1]
    /\ UNCHANGED <<dir, link, global, connsOf, flaggedBy>>

\* A failed write removes the temporary name.
StoreFails(p) ==
    /\ store[p].pc = "copy"
    /\ dir' = [dir EXCEPT ![TmpName(store[p].blob)] = 0]
    /\ StoreEnds(p)
    /\ UNCHANGED <<bytes, touched, link, global, connsOf, flaggedBy>>

\* The rename moves whatever the temporary name holds now; with nothing there
\* it fails and Store returns before the prune.
StoreRename(p) ==
    /\ store[p].pc = "copy" /\ store[p].at = ArchiveChunks
    /\ LET f == TmpName(store[p].blob)
       IN IF dir[f] = 0
          THEN StoreEnds(p) /\ UNCHANGED dir
          ELSE /\ dir' = [[dir EXCEPT ![f] = 0] EXCEPT ![<<store[p].blob, "gz">>] = dir[f]]
               /\ store' = [store EXCEPT ![p].pc = "prune", ![p].ino = 0]
    /\ UNCHANGED <<bytes, touched, link, global, connsOf, flaggedBy>>

OlderEntry(f, g) ==
    SelectLastInSeq(touched, LAMBDA i : i = dir[f]) < SelectLastInSeq(touched, LAMBDA i : i = dir[g])

\* The entries, temporary files included, past the newest MaxCacheEntries.
Stale == {f \in PresentFiles : Cardinality({g \in PresentFiles : OlderEntry(f, g)}) >= MaxCacheEntries}

PruneList(p) ==
    /\ store[p].pc = "prune"
    /\ IF Stale = {} THEN StoreEnds(p)
       ELSE store' = [store EXCEPT ![p].pc = "remove", ![p].doomed = Stale]
    /\ UNCHANGED <<dir, bytes, touched, link, global, connsOf, flaggedBy>>

\* The listed names are removed, whatever they name by now.
PruneRemove(p) ==
    /\ store[p].pc = "remove"
    /\ \E f \in store[p].doomed :
          /\ dir' = [dir EXCEPT ![f] = 0]
          /\ IF store[p].doomed = {f} THEN StoreEnds(p)
             ELSE store' = [store EXCEPT ![p].doomed = @ \ {f}]
    /\ UNCHANGED <<bytes, touched, link, global, connsOf, flaggedBy>>

\* The process is killed; what it wrote stays.
StoreKilled(p) ==
    /\ store[p].pc # "idle" /\ StoreEnds(p)
    /\ UNCHANGED <<dir, bytes, touched, link, global, connsOf, flaggedBy>>

----------------------------------------------------------------------------
(* The daemon's accept loop and handlers.                                  *)

Closed(c) == link[c].cli = "none"

Over(ip) == global >= MaxConnsGlobal \/ connsOf[ip] >= MaxConnsPerIP

\* BlobTCPGet dials; the accept loop counts the connection in or drops it.
Connect(c) ==
    /\ link[c].cli = "none" /\ link[c].srv = "none" /\ link[c].left > 0
    /\ IF Over(IpAt[c])
       THEN /\ link' = [link EXCEPT ![c].left = @ - 1]
            /\ UNCHANGED <<global, connsOf>>
       ELSE /\ \E b \in Blob : link' = [link EXCEPT ![c].left = @ - 1, ![c].blob = b,
                                                    ![c].srv = "request", ![c].cli = "header"]
            /\ global' = global + 1 /\ connsOf' = [connsOf EXCEPT ![IpAt[c]] = @ + 1]
    /\ UNCHANGED <<dir, bytes, touched, store, flaggedBy>>

\* The status byte: a refused token, an archive that is not cached, an offset
\* at or past the end (an empty file), or the header with the file's size.
Statuses(c) ==
    LET i == dir[<<link[c].blob, "gz">>]
    IN {"bad token", IF i = 0 THEN "absent" ELSE IF bytes[i] = <<>> THEN "bad request" ELSE "ok"}

Handle(c) ==
    /\ link[c].srv = "request"
    /\ \E s \in Statuses(c) :
          LET i == dir[<<link[c].blob, "gz">>]
          IN link' = IF s = "ok"
                     THEN [link EXCEPT ![c].srv = "stream", ![c].status = s, ![c].ino = i,
                                       ![c].size = Len(bytes[i])]
                     ELSE [link EXCEPT ![c].srv = "done", ![c].status = s]
    /\ UNCHANGED <<dir, bytes, touched, store, global, connsOf, flaggedBy>>

\* One read of the open file and one write to the peer; a short file or a
\* closed peer ends the handler.
Stream(c) ==
    /\ link[c].srv = "stream"
    /\ LET k == link[c].off + 1
           ended == k > Min({ArchiveChunks, link[c].size}) \/ k > Len(bytes[link[c].ino]) \/ Closed(c)
       IN link' = IF ended THEN [link EXCEPT ![c].srv = "done"]
                  ELSE [link EXCEPT ![c].off = k, ![c].wire = Append(@, bytes[link[c].ino][k])]
    /\ UNCHANGED <<dir, bytes, touched, store, global, connsOf, flaggedBy>>

\* The handshake or the connection deadline, or a broken connection.
Cut(c) ==
    /\ link[c].srv \in {"request", "stream"}
    /\ link' = [link EXCEPT ![c].srv = "done"]
    /\ UNCHANGED <<dir, bytes, touched, store, global, connsOf, flaggedBy>>

\* Both ends are through with the connection.
Settled(k) == IF k.srv = "none" /\ k.cli = "none" THEN NotConnected(k.left) ELSE k

SlotReleased(ip) == global' = global - 1 /\ connsOf' = [connsOf EXCEPT ![ip] = @ - 1]

ReleaseSlot(c) ==
    /\ link[c].srv = "done"
    /\ SlotReleased(IpAt[c])
    /\ link' = [link EXCEPT ![c] = Settled([@ EXCEPT !.srv = "none", !.ino = 0])]
    /\ UNCHANGED <<dir, bytes, touched, store, flaggedBy>>

----------------------------------------------------------------------------
(* The receiver.                                                           *)

Hangup(c) == link' = [link EXCEPT ![c] = Settled([@ EXCEPT !.cli = "none", !.wire = <<>>])]

\* The answer's header: a refusal, or a connection closed before it, ends the attempt.
Header(c) ==
    /\ link[c].cli = "header"
    /\ \/ link[c].status = "ok" /\ link' = [link EXCEPT ![c].cli = "stream"]
       \/ link[c].status \notin {"ok", "none"} /\ Hangup(c)
       \/ link[c].status = "none" /\ link[c].srv \in {"done", "none"} /\ Hangup(c)
    /\ UNCHANGED <<dir, bytes, touched, store, global, connsOf, flaggedBy>>

\* Fault: a stream that ends early counts as a wrong slice.
WrongSliceOrShort(c) == link[c].wire = <<>> \/ Head(link[c].wire) # "good"

\* Only a chunk that arrived and does not hash to the manifest's digest is proof.
WrongSlice(c) == link[c].wire # <<>> /\ Head(link[c].wire) # "good"

\* One manifest chunk: it verifies, it is a wrong slice, or the stream ended early.
ReceiveChunk(c) ==
    /\ link[c].cli = "stream" /\ link[c].got < ArchiveChunks
    /\ link[c].wire # <<>> \/ link[c].srv \in {"done", "none"}
    /\ IF WrongSlice(c) THEN Hangup(c) /\ flaggedBy' = flaggedBy \cup {c}
       ELSE /\ UNCHANGED flaggedBy
            /\ IF link[c].wire = <<>> THEN Hangup(c)
               ELSE link' = [link EXCEPT ![c].got = @ + 1, ![c].wire = Tail(@)]
    /\ UNCHANGED <<dir, bytes, touched, store, global, connsOf>>

\* Every chunk verified, or the phase's budget ran out.
Leaves(c) ==
    /\ link[c].cli \in {"header", "stream"} /\ Hangup(c)
    /\ UNCHANGED <<dir, bytes, touched, store, global, connsOf, flaggedBy>>

----------------------------------------------------------------------------
BlobInit ==
    /\ dir = [f \in Names |-> 0] /\ bytes = [i \in Inodes |-> <<>>] /\ touched = <<>>
    /\ store = [p \in Storer |-> NotStoring(MaxStores)]
    /\ link = [c \in Fetcher |-> NotConnected(MaxStreams)]
    /\ global = 0 /\ connsOf = [ip \in Range(IpAt) |-> 0] /\ flaggedBy = {}

StoreStep(p) ==
    \/ StoreBegin(p) \/ StoreOpen(p) \/ StoreWrite(p) \/ StoreFails(p) \/ StoreRename(p)
    \/ PruneList(p) \/ PruneRemove(p) \/ StoreKilled(p)

ConnStep(c) ==
    \/ Connect(c) \/ Handle(c) \/ Stream(c) \/ Cut(c) \/ ReleaseSlot(c)
    \/ Header(c) \/ ReceiveChunk(c) \/ Leaves(c)

BlobNext == (\E p \in Storer : StoreStep(p)) \/ (\E c \in Fetcher : ConnStep(c))

BlobSpec == BlobInit /\ [][BlobNext]_blobVars

----------------------------------------------------------------------------
\* Type invariant of the cache directory and the channel.
BlobTypeOK ==
    /\ dir \in [Names -> Inodes \cup {0}]
    /\ \A i \in Inodes : bytes[i] \in BoundedSeq({"good", "hole"}, ArchiveChunks)
    /\ IsInjective(touched) /\ Range(touched) \subseteq Inodes
    /\ \A p \in Storer :
          /\ store[p].pc \in {"idle", "open", "copy", "prune", "remove"}
          /\ store[p].at \in 0 .. ArchiveChunks /\ store[p].left \in 0 .. MaxStores
    /\ \A c \in Fetcher :
          /\ link[c].srv \in {"none", "request", "stream", "done"}
          /\ link[c].cli \in {"none", "header", "stream"}
          /\ link[c].got \in 0 .. ArchiveChunks /\ link[c].off \in 0 .. ArchiveChunks
    /\ global \in 0 .. MaxConnsGlobal /\ flaggedBy \subseteq Fetcher

\* A seeder that caches only verified archives is never recorded as hostile by
\* a receiver: copies, kills in the middle of a copy, prunes and re-stores under
\* a running stream may cut the stream short, but no receiver gets a slice that
\* fails its manifest hash.
NoFalseVerdict == flaggedBy = {}
=============================================================================
