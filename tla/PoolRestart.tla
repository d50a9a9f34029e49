----------------------------- MODULE PoolRestart -----------------------------
(***************************************************************************)
(* The claim pool across restarts: PersistClaimPoolTo and RetainClaimPool  *)
(* of claims_pool.go.  The once-a-minute save sweeps, writes one file per  *)
(* pooled carrier, named by H_record, and then the meta file with the      *)
(* first-seen stamps and re-attestations.  It never deletes a file.  The   *)
(* pool's lock is released between its parts, so offers interleave, and a  *)
(* crash can fall anywhere.  Start-up reads the meta file and then offers  *)
(* the files one by one in directory order (ascending H_record).           *)
(***************************************************************************)
EXTENDS ClaimPool

\* K_claim is compared byte by byte; here the aliases are numbered in its order.
ASSUME AliasAssumption == Alias \subseteq Nat

VARIABLES
    files,    \* carriers with a file in the claims directory
    meta,     \* identity -> what claims-meta.json says of it
    unsaved,  \* carriers the save in progress has still to write
    phase,    \* "serving", "saving" or "loading"
    cursor    \* the last file RetainClaimPool has read

disk == <<files, meta>>
restartVars == <<poolVars, disk, unsaved, phase, cursor>>

IdentityMeta == [fs : Time \cup {Never}, att : Seq(Attestation)]
NoMeta == [i \in Ident |-> [fs |-> Never, att |-> << >>]]

Serving == phase # "loading"

-----------------------------------------------------------------------------
\* The running node's operations, also while a save is under way.
Serve ==
    /\ Serving
    /\ \/ \E e \in Minted : Offer(e)
       \/ \E i \in ReAttested, n \in Node :
             StoreReAttests(Id[i].alias, i, [node |-> n, ts |-> now])
    /\ UNCHANGED <<disk, unsaved, phase, cursor>>

Pass == Tick /\ UNCHANGED <<disk, unsaved, phase, cursor>>

\* PersistClaimPoolTo: Sweep; the entries to write are read right after it.
PersistBegin ==
    /\ phase = "serving"
    /\ SweepEffect
    /\ unsaved' = UNION {{pool'[a][i] : i \in DOMAIN pool'[a]} : a \in Alias}
    /\ phase' = "saving"
    /\ UNCHANGED <<now, disk, cursor>>

\* One atomic file write; the entries go in (key, H_record) order, of which
\* only the prefixes a crash may leave behind matter.
PersistFile ==
    /\ phase = "saving" /\ unsaved # {}
    /\ LET e == CHOOSE x \in unsaved : \A y \in unsaved :
                   AliasOf(x) < AliasOf(y) \/ (AliasOf(x) = AliasOf(y) /\ x <= y)
       IN  files' = files \cup {e} /\ unsaved' = unsaved \ {e}
    /\ UNCHANGED <<poolVars, meta, phase, cursor>>

\* PersistClaimPoolMeta: every identity with a first-seen stamp.
PersistMeta ==
    /\ phase = "saving" /\ unsaved = {}
    /\ meta' = [i \in Ident |->
          LET a == Id[i].alias
          IN  IF firstSeen[a][i] = Never THEN NoMeta[i]
              ELSE [fs |-> firstSeen[a][i], att |-> reattests[a][i]]]
    /\ phase' = "serving"
    /\ UNCHANGED <<poolVars, files, unsaved, cursor>>

Crash ==
    /\ Serving
    /\ pool' = NoPool /\ order' = << >> /\ poolBytes' = 0
    /\ firstSeen' = NoFirstSeen /\ reattests' = NoReAttests
    /\ unsaved' = {} /\ phase' = "loading" /\ cursor' = -1
    /\ UNCHANGED <<now, disk>>

\* Fault: dead claims are not reloaded.
WorthPoolingLive(e) == now < Carries[e].expires

WorthPooling(e) == WindowOpen(e, now)

\* RetainClaimPool's loop body: a file whose window is over is skipped; any
\* other is offered with its identity's stamp, then bindRetainedMeta adds the
\* saved re-attestations.
bindRetainedMeta(have, saved) ==
    LET bound[n \in 0 .. Len(saved)] ==
            IF n = 0 THEN have ELSE AddReAttest(bound[n - 1], saved[n])
    IN  bound[Len(saved)]

RetainFile ==
    LET left == {e \in files : e > cursor}
        e    == Min(left)
        m    == meta[IdentOf(e)]
    IN  /\ phase = "loading" /\ left # {}
        /\ cursor' = e
        /\ IF WorthPooling(e)
           THEN OfferSeen(e, m.fs, [reattests EXCEPT ![AliasOf(e)][IdentOf(e)] = bindRetainedMeta(@, m.att)])
           ELSE UNCHANGED <<index, firstSeen, reattests>>
        /\ UNCHANGED <<now, disk, unsaved, phase>>

RetainDone ==
    /\ phase = "loading" /\ \A e \in files : e <= cursor
    /\ phase' = "serving" /\ cursor' = -1
    /\ UNCHANGED <<poolVars, disk, unsaved>>

PoolRestartInit ==
    /\ PoolInit
    /\ files = {} /\ meta = NoMeta
    /\ unsaved = {} /\ phase = "serving" /\ cursor = -1

PoolRestartNext ==
    \/ Serve \/ Pass
    \/ PersistBegin \/ PersistFile \/ PersistMeta
    \/ Crash \/ RetainFile \/ RetainDone

PoolRestartSpec == PoolRestartInit /\ [][PoolRestartNext]_restartVars

-----------------------------------------------------------------------------
(* Properties.                                                              *)

\* The directory holds carriers, the meta file stamps and re-attestations.
PoolRestartTypeOK ==
    /\ PoolTypeOK
    /\ files \subseteq Carrier /\ unsaved \subseteq Carrier
    /\ meta \in [Ident -> IdentityMeta]
    /\ phase \in {"serving", "saving", "loading"}
    /\ cursor \in Carrier \cup {-1}

\* RetainClaimPool brings back every claim it can: once all files are read, a
\* saved claim whose reuse window is open is pooled, or its alias holds two
\* claims that do not order after it.  (For a pool within its budgets.)
ReloadKeepsTop2 ==
    phase = "loading" /\ (\A e \in files : e <= cursor) =>
        \A e \in files : WindowOpen(e, now) =>
            \/ e \in Members(AliasOf(e))
            \/ /\ Len(pool[AliasOf(e)]) = 2
               /\ \A d \in Members(AliasOf(e)) : ~LessOrderKey(e, d)

\* The re-attestation holding period survives a restart: no identity comes
\* back with a stamp later than the saved one, so a restart never re-arms it.
HoldSurvivesRestart ==
    phase = "loading" =>
        \A i \in Ident :
            LET fs == firstSeen[Id[i].alias][i]
            IN  fs # Never /\ meta[i].fs # Never => fs = meta[i].fs
=============================================================================
