---------------------------- MODULE StoreRestart ----------------------------
(***************************************************************************)
(* The record store across process lifetimes: the once-a-minute snapshot   *)
(* of cmd/freens persistLoop, the final snapshot of a graceful stop, a     *)
(* crash at any point (including half-way through a snapshot), and the     *)
(* start-up re-seeding of seedFromDir.                                     *)
(*                                                                         *)
(* A snapshot writes one file per key or hash, each atomically             *)
(* (internal/atomicfile), and deletes none: files of keys no longer held   *)
(* stay behind.  os.ReadDir returns the files in name order.               *)
(***************************************************************************)
EXTENDS EnvelopeStore

VARIABLES
    disk,      \* key -> hash in <key>.cbor, or NoHash
    diskHist,  \* hashes in history/<hash>.cbor
    diskEvid,  \* hash -> blob in evidence/<hash>.cbor, or NoBlob
    stage,     \* what the process is doing: Up, Down, or a seeding stage
    cursor,    \* name of the last file the seeding stage has read
    saving     \* which part of a running snapshot comes next

files == <<disk, diskHist, diskEvid>>
proc == <<stage, cursor, saving>>
vars == <<storeVars, files, proc>>

Stages == {"down", "evidence", "names", "claims", "history", "up"}
Parts == {"records", "history", "evidence"}

TypeOKRestart ==
    /\ TypeOK
    /\ disk \in [Key -> Hash \cup {NoHash}]
    /\ diskHist \subseteq Hash
    /\ diskEvid \in [Hash -> Blob \cup {NoBlob}]
    /\ stage \in Stages
    /\ cursor \in Nat
    /\ saving \in Parts

RestartInit ==
    /\ Init
    /\ disk = [k \in Key |-> NoHash]
    /\ diskHist = {}
    /\ diskEvid = [h \in Hash |-> NoBlob]
    /\ stage = "up" /\ cursor = 0 /\ saving = "records"

-----------------------------------------------------------------------------
(* Snapshots.  upTo is the last file name written: all of them, unless the *)
(* process dies on the way.                                                *)

RecordFiles(upTo) == [k \in Key |-> IF HasLive(k) /\ k <= upTo THEN entries[k] ELSE disk[k]]
HistoryFiles(upTo) == diskHist \cup {h \in Retained(history) : h <= upTo}
EvidenceFiles(upTo) ==
    [h \in Hash |-> IF evidence[h] # NoBlob /\ h <= upTo THEN evidence[h] ELSE diskEvid[h]]

All == Max(Key \cup Hash)

PersistTo ==
    /\ stage = "up" /\ saving = "records"
    /\ disk' = RecordFiles(All)
    /\ saving' = "history"
    /\ UNCHANGED <<storeVars, diskHist, diskEvid, stage, cursor>>

PersistHistoryTo ==
    /\ stage = "up" /\ saving = "history"
    /\ diskHist' = HistoryFiles(All)
    /\ saving' = "evidence"
    /\ UNCHANGED <<storeVars, disk, diskEvid, stage, cursor>>

PersistEvidenceTo ==
    /\ stage = "up" /\ saving = "evidence"
    /\ diskEvid' = EvidenceFiles(All)
    /\ saving' = "records"
    /\ UNCHANGED <<storeVars, disk, diskHist, stage, cursor>>

\* The memory image is gone; the next process starts from an empty store.
Halt ==
    /\ entries' = NoEntries /\ access' = NoAccess /\ bytes' = 0
    /\ history' = NoHistory /\ historyBytes' = 0
    /\ evidence' = NoEvidence /\ evidenceOrder' = << >> /\ evidenceBytes' = 0
    /\ stage' = "down" /\ cursor' = 0 /\ saving' = "records"
    /\ UNCHANGED now

\* A crash may catch a snapshot after any prefix of its files.
Crash ==
    /\ stage = "up"
    /\ \E upTo \in Key \cup Hash \cup {0} :
          /\ disk' = RecordFiles(IF saving = "records" THEN upTo ELSE 0)
          /\ diskHist' = HistoryFiles(IF saving = "history" THEN upTo ELSE 0)
          /\ diskEvid' = EvidenceFiles(IF saving = "evidence" THEN upTo ELSE 0)
    /\ Halt

\* A graceful stop ends the servers first, so its three parts see one state.
Shutdown ==
    /\ stage = "up"
    /\ disk' = RecordFiles(All)
    /\ diskHist' = HistoryFiles(All)
    /\ diskEvid' = EvidenceFiles(All)
    /\ Halt

-----------------------------------------------------------------------------
(* seedFromDir: evidence files, then record files, then history files, each *)
(* in name order; the node serves nothing until it is done.                *)

Unread(names) == {n \in names : n > cursor}

RecordNames == {k \in Key : disk[k] # NoHash}
EvidenceNames == {h \in Hash : diskEvid[h] # NoBlob}

\* Move on when a stage has read its last file.
Advance(from, names, to) ==
    /\ stage = from
    /\ Unread(names) = {}
    /\ stage' = to /\ cursor' = 0
    /\ UNCHANGED <<storeVars, files, saving>>

\* Fault: records are seeded before their evidence.
BootRecordsFirst ==
    /\ stage = "down"
    /\ stage' = "names"
    /\ UNCHANGED <<storeVars, files, cursor, saving>>

Boot ==
    /\ stage = "down"
    /\ stage' = "evidence"
    /\ UNCHANGED <<storeVars, files, cursor, saving>>

SeedEvidence ==
    /\ stage = "evidence"
    /\ Unread(EvidenceNames) # {}
    /\ LET h == Min(Unread(EvidenceNames))
       IN  RetainEvidence(h, diskEvid[h]) /\ cursor' = h
    /\ UNCHANGED <<now, live, hist, files, stage, saving>>

\* store.Put(key, env, now, true): a refusal leaves the store as it is.
SeedPut(k, h) ==
    IF Accepts(k, h, NoBlob) THEN PutAccepted(k, h) ELSE UNCHANGED <<live, hist>>

\* The file's envelope is put at its name key, then at its claim key.
SeedAtNameKey ==
    /\ stage = "names"
    /\ Unread(RecordNames) # {}
    /\ LET k == Min(Unread(RecordNames))
           h == disk[k]
       IN  /\ SeedPut(Env[h].nameKey, h)
           /\ IF Env[h].claimKey = NoKey
              THEN cursor' = k /\ UNCHANGED stage
              ELSE stage' = "claims" /\ UNCHANGED cursor
    /\ UNCHANGED <<now, evid, files, saving>>

SeedAtClaimKey ==
    /\ stage = "claims"
    /\ LET k == Min(Unread(RecordNames))
           h == disk[k]
       IN  /\ SeedPut(Env[h].claimKey, h)
           /\ cursor' = k
    /\ stage' = "names"
    /\ UNCHANGED <<now, evid, files, saving>>

SeedHistory ==
    /\ stage = "history"
    /\ Unread(diskHist) # {}
    /\ LET h == Min(Unread(diskHist))
       IN  Retain(<<[hash |-> h, at |-> now]>>) /\ cursor' = h
    /\ UNCHANGED <<now, live, evid, files, stage, saving>>

Seed ==
    \/ Boot
    \/ SeedEvidence
    \/ Advance("evidence", EvidenceNames, "names")
    \/ SeedAtNameKey
    \/ SeedAtClaimKey
    \/ Advance("names", RecordNames, "history")
    \/ SeedHistory
    \/ Advance("history", diskHist, "up")

-----------------------------------------------------------------------------
\* The operations of the running node (a refused put touches the incumbent,
\* as Get does).  Time passes while it is up or down.
Serve ==
    /\ stage = "up"
    /\ \/ \E h \in Hash : \E k \in StorageKeys(h) : \E b \in Blob \cup {NoBlob} : PutAccept(k, h, b)
       \/ \E k \in Key : Get(k)
    /\ UNCHANGED <<files, proc>>

Pass ==
    /\ stage \in {"up", "down"}
    /\ Tick
    /\ UNCHANGED <<files, proc>>

RestartNext ==
    \/ Serve
    \/ Pass
    \/ PersistTo
    \/ PersistHistoryTo
    \/ PersistEvidenceTo
    \/ Crash
    \/ Shutdown
    \/ Seed

RestartSpec == RestartInit /\ [][RestartNext]_vars

-----------------------------------------------------------------------------
(* Properties.                                                              *)

Booted == stage = "history" /\ stage' = "up"

\* The record files fit the live map, so seeding evicts nothing.
FilesFit ==
    LET pairs == {<<k, disk[j]>> : k \in Key, j \in RecordNames}
    IN  MapThenSumSet(LAMBDA p : Env[p[2]].size, pairs) <= MaxBytes

\* Record n directly succeeds o by a transfer its owner signed or by a
\* recovery whose evidence is on disk.
DirectHandoff(o, n) ==
    /\ VerifyChainLink(n, o) /\ Env[n].prev = o
    /\ \/ Env[n].signer = Env[o].owner
       \/ LET blob == diskEvid[n]
          IN  /\ ValidBlob(blob)
              /\ Env[n].signer = Env[n].owner /\ Evidence[blob].newOwner = Env[n].signer
              /\ VerifyRecovery(Env[o].policy, Evidence[blob], o, Env[o].created,
                                Evidence[blob].notBefore)

\* The live records of other files that are also put at k.
Rivals(k) == {disk[j] : j \in {i \in RecordNames : k \in StorageKeys(disk[i])
                                                   /\ Alive(disk[i], now)}} \ {disk[k]}

\* After a restart each key serves the record of its own file again, even when
\* the file of another key (a claim at K_claim) holds a predecessor that is
\* read first: a direct transfer or recovery displaces it, because evidence
\* is loaded before records.
ReseedsWinner ==
    [][Booted /\ FilesFit
       => \A k \in RecordNames :
             Alive(disk[k], now) /\ (\A o \in Rivals(k) : DirectHandoff(o, disk[k]))
             => entries'[k] = disk[k]]_vars
=============================================================================
