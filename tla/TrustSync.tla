----------------------------- MODULE TrustSync -----------------------------
(***************************************************************************)
(* The sink that turns a verified owner CA into a trust anchor of this     *)
(* machine (internal/trustsync): the spool file, the system and NSS stores *)
(* and the state kept in cross.json, for one alias.  A handler decides     *)
(* under the engine's lock and acts outside it, so every step after the    *)
(* decision interleaves with the other handlers: OnOwnerCA and OnAliasDead *)
(* run on goroutines of the resolver, the sweeper and the operator's       *)
(* `trust remove` and reinstall on their own.                              *)
(*                                                                         *)
(* A CA is [tld, key, exp]; its cross-certificate carries the CA's own     *)
(* validity, so a certificate is that same record.  The system bundle and  *)
(* the NSS databases are written and cleared together: `anchor`.           *)
(***************************************************************************)
EXTENDS Integers, Absent

CONSTANTS
    Handler,          \* goroutines
    Tld, CaKey,
    Matures,          \* tld -> the instant its claim leaves the contest window
    CaLife, RefreshWithin, RotationGrace, MintThrottle,
    DiskFaults,       \* BOOLEAN: a spool write may fail
    MaxOwnerChanges,  \* bound: changes of the owner and crashes together
    MaxCrashes, MaxTrustClock

Ca == [tld : Tld, key : CaKey, exp : Nat]
Pending == [key : CaKey, since : Nat]
Bindings == Tld \X CaKey \X Nat
StateRecord ==
    [tld : Tld, key : CaKey, exp : Nat, status : {"installed", "quarantined", "rotating"},
     pending : Pending \cup {None}, minted : Nat \cup {None}]
JobRecord ==
    [pc : {"idle", "decide", "hold", "spool", "stores", "commit", "marshal", "write", "purge",
           "unspool", "uninstall", "reinstall"},
     then : {"idle", "decide"}, ca : Ca \cup {None}, young : BOOLEAN, at : Nat, present : BOOLEAN,
     saw : Bindings \cup {None}, image : StateRecord \cup {None}]

ASSUME TrustAssumption ==
    /\ 1 \in Tld /\ 1 \in CaKey /\ Matures \in [Tld -> Nat]
    /\ {CaLife, RefreshWithin, RotationGrace, MintThrottle} \subseteq Nat
    /\ DiskFaults \in BOOLEAN
    /\ None \notin Nat \cup Ca \cup Pending \cup Bindings \cup StateRecord

VARIABLES
    tnow,
    owner,      \* what the network answers for the alias: a CA, or None when it is dead
    state,      \* Engine.state[alias], or None
    trustFile,  \* cross.json
    spool, anchor,
    job,        \* what each handler is doing
    seen,       \* <<tld, key>> -> when a notification first carried it, or None (history)
    ownerChanges, crashes

trustVars == <<tnow, owner, state, trustFile, spool, anchor, job, seen, ownerChanges, crashes>>

Resting == [pc |-> "idle", then |-> "idle", ca |-> None, young |-> FALSE, at |-> 0,
            present |-> FALSE, saw |-> None, image |-> None]
Young(t) == tnow < Matures[t]
Expired(c) == c.exp <= tnow

TrustTypeOK ==
    /\ tnow \in Nat /\ crashes \in Nat
    /\ {owner, spool, anchor} \subseteq Ca \cup {None}
    /\ {state, trustFile} \subseteq StateRecord \cup {None}
    /\ job \in [Handler -> JobRecord] /\ seen \in [Tld \X CaKey -> Nat \cup {None}]

TrustInit ==
    /\ tnow = 0 /\ owner = [tld |-> 1, key |-> 1, exp |-> CaLife]
    /\ state = None /\ trustFile = None /\ spool = None /\ anchor = None
    /\ job = [h \in Handler |-> Resting] /\ seen = [b \in Tld \X CaKey |-> None]
    /\ ownerChanges = 0 /\ crashes = 0

-----------------------------------------------------------------------------
(* The shared tails of the handlers                                         *)

HandlerTo(h, pc) == job' = [job EXCEPT ![h].pc = pc]
GiveUpJob(h) == job' = [job EXCEPT ![h] = Resting]

\* saveState: the image is marshalled under the lock and written outside it.
Marshal(h) ==
    /\ job[h].pc = "marshal" /\ job' = [job EXCEPT ![h].pc = "write", ![h].image = state]
    /\ UNCHANGED <<tnow, owner, state, trustFile, spool, anchor, seen, ownerChanges, crashes>>
WriteState(h) ==
    /\ job[h].pc = "write" /\ trustFile' = job[h].image
    /\ IF job[h].then = "idle" THEN GiveUpJob(h) ELSE HandlerTo(h, job[h].then)
    /\ UNCHANGED <<tnow, owner, state, spool, anchor, seen, ownerChanges, crashes>>

Unspool(h) ==
    /\ job[h].pc = "unspool" /\ spool' = None /\ HandlerTo(h, "uninstall")
    /\ UNCHANGED <<tnow, owner, state, trustFile, anchor, seen, ownerChanges, crashes>>
Uninstall(h) ==
    /\ job[h].pc = "uninstall" /\ anchor' = None /\ HandlerTo(h, "marshal")
    /\ UNCHANGED <<tnow, owner, state, trustFile, spool, seen, ownerChanges, crashes>>

-----------------------------------------------------------------------------
(* sweepSpool                                                               *)

Lapses == spool # None /\ Expired(spool)

\* The spool half, run by h in state j: an expired file goes; what is left
\* is reported present.
SweptSpool(h, j) ==
    /\ spool' = IF Lapses THEN None ELSE spool
    /\ job' = [job EXCEPT ![h] = [j EXCEPT !.pc = IF Lapses THEN "purge" ELSE j.then,
                                           !.present = spool # None /\ ~Lapses]]

\* purgeIfExpired.
Purge(h) ==
    /\ job[h].pc = "purge"
    /\ IF state = None \/ state.exp = 0 \/ ~Expired(state)
       THEN UNCHANGED state /\ (IF job[h].then = "idle" THEN GiveUpJob(h) ELSE HandlerTo(h, job[h].then))
       ELSE state' = None /\ HandlerTo(h, "uninstall")
    /\ UNCHANGED <<tnow, owner, trustFile, spool, anchor, seen, ownerChanges, crashes>>

\* RunSweeper's tick.
Sweep(h) ==
    /\ job[h].pc = "idle" /\ Lapses /\ SweptSpool(h, Resting)
    /\ UNCHANGED <<tnow, owner, state, trustFile, anchor, seen, ownerChanges, crashes>>

-----------------------------------------------------------------------------
(* OnOwnerCA                                                                *)

\* A resolution found the alias alive; the CA is screened and the spool swept.
Notify(h) ==
    /\ job[h].pc = "idle" /\ owner # None
    /\ SweptSpool(h, [Resting EXCEPT !.then = "decide", !.ca = owner, !.at = tnow,
                                     !.young = Young(owner.tld)])
    /\ seen' = [seen EXCEPT ![<<owner.tld, owner.key>>] = IF @ = None THEN tnow ELSE @]
    /\ UNCHANGED <<tnow, owner, state, trustFile, anchor, ownerChanges, crashes>>

StillHeld(j) == [tld |-> j.ca.tld, key |-> j.ca.key, exp |-> 0, status |-> "quarantined",
            pending |-> None, minted |-> None]
FreshAt(j) == state.exp > 0 /\ j.at + RefreshWithin < state.exp

\* Fault: any pending rotation completes at the next sighting.
RotationAtOnce(j) ==
    IF state.pending = None \/ state.pending.key # j.ca.key THEN "defer" ELSE "complete"

FirstSight(j) == IF j.young THEN "quarantine" ELSE "install"

\* The same CA again.
SameCa(j) ==
    CASE state.pending # None -> "abort"
      [] state.pending = None /\ state.status = "quarantined" -> IF j.young THEN "none" ELSE "install"
      [] state.pending = None /\ state.status = "installed" ->
            IF j.young THEN "none"
            ELSE IF FreshAt(j) /\ ~j.present THEN "install"
            ELSE IF state.minted # None /\ j.at - state.minted < MintThrottle THEN "none"
            ELSE IF FreshAt(j) THEN "none" ELSE "install"

\* The observation gate on another CA under a live binding.
CaRotation(j) ==
    IF state.pending = None \/ state.pending.key # j.ca.key THEN "defer"
    ELSE IF j.at - state.pending.since >= RotationGrace THEN "complete" ELSE "none"

OtherCa(j) ==
    IF state.status = "quarantined" THEN (IF j.young THEN "rehold" ELSE "install")
    ELSE IF state.exp <= j.at THEN "install" ELSE CaRotation(j)

TrustVerdict(j) ==
    IF state = None THEN FirstSight(j)
    ELSE IF state.tld # j.ca.tld THEN "install"
    ELSE IF state.key = j.ca.key THEN SameCa(j) ELSE OtherCa(j)

Installed(s) == [s EXCEPT !.pending = None, !.status = "installed"]

\* What the decision is based on (history).
Binding(s) == IF s = None THEN None ELSE <<s.tld, s.key, s.exp>>

\* The decision, under the lock.
Decide(h) ==
    LET j == job[h]
        v == TrustVerdict(j)
    IN  /\ j.pc = "decide"
        /\ CASE v = "none"                    -> GiveUpJob(h) /\ UNCHANGED state
             [] v \in {"install", "complete"} ->
                   /\ job' = [job EXCEPT ![h].pc = "spool", ![h].then = "idle", ![h].saw = Binding(state)]
                   /\ state' = IF v = "complete" THEN Installed(state) ELSE state
             [] v = "quarantine" ->
                   job' = [job EXCEPT ![h].pc = "hold", ![h].saw = Binding(state)] /\ UNCHANGED state
             [] OTHER ->
                   /\ job' = [job EXCEPT ![h].pc = "marshal", ![h].then = "idle"]
                   /\ state' = CASE v = "abort"  -> Installed(state)
                                 [] v = "rehold" -> StillHeld(j)
                                 [] v = "defer"  ->
                                      [state EXCEPT !.pending = [key |-> j.ca.key, since |-> j.at],
                                                    !.status = "rotating"]
        /\ UNCHANGED <<tnow, owner, trustFile, spool, anchor, seen, ownerChanges, crashes>>

\* actQuarantine takes the lock again.
Hold(h) ==
    /\ job[h].pc = "hold" /\ state' = StillHeld(job[h])
    /\ job' = [job EXCEPT ![h].pc = "marshal", ![h].then = "idle"]
    /\ UNCHANGED <<tnow, owner, trustFile, spool, anchor, seen, ownerChanges, crashes>>

\* actInstall: an expired CA is not certified; the spool comes first.
MintAndSpool(h) ==
    /\ job[h].pc = "spool"
    /\ IF job[h].ca.exp <= job[h].at THEN GiveUpJob(h) /\ UNCHANGED spool
       ELSE /\ HandlerTo(h, "stores")
            /\ \E ok \in {TRUE, ~DiskFaults} : spool' = IF ok THEN job[h].ca ELSE spool
    /\ UNCHANGED <<tnow, owner, state, trustFile, anchor, seen, ownerChanges, crashes>>
InstallStores(h) ==
    /\ job[h].pc = "stores" /\ anchor' = job[h].ca /\ HandlerTo(h, "commit")
    /\ UNCHANGED <<tnow, owner, state, trustFile, spool, seen, ownerChanges, crashes>>
Commit(h) ==
    LET c == job[h].ca
    IN  /\ job[h].pc = "commit" /\ HandlerTo(h, "marshal")
        /\ state' = [tld |-> c.tld, key |-> c.key, exp |-> c.exp, status |-> "installed",
                     pending |-> None, minted |-> job[h].at]
        /\ UNCHANGED <<tnow, owner, trustFile, spool, anchor, seen, ownerChanges, crashes>>

-----------------------------------------------------------------------------
(* OnAliasDead, RemoveAlias, InstallCrossCertsNow                           *)

\* A walk found the alias dead, some time ago, with the identity t or without
\* one; a signal for another identity is ignored.  RemoveAlias is the same without identity.
OnAliasDead(h, t) ==
    /\ job[h].pc = "idle" /\ state # None /\ t \in {None, state.tld}
    /\ state' = None /\ HandlerTo(h, "unspool")
    /\ UNCHANGED <<tnow, owner, trustFile, spool, anchor, seen, ownerChanges, crashes>>

\* The repair of a purged store: the spooled certificate is read, then put back.
ReadSpool(h) ==
    /\ job[h].pc = "idle" /\ state # None /\ state.status = "installed"
    /\ spool # None /\ ~Expired(spool)
    /\ job' = [job EXCEPT ![h].pc = "reinstall", ![h].ca = spool]
    /\ UNCHANGED <<tnow, owner, state, trustFile, spool, anchor, seen, ownerChanges, crashes>>
Reinstall(h) ==
    /\ job[h].pc = "reinstall" /\ anchor' = job[h].ca /\ HandlerTo(h, "marshal")
    /\ UNCHANGED <<tnow, owner, state, trustFile, spool, seen, ownerChanges, crashes>>

-----------------------------------------------------------------------------
(* The world around it                                                      *)

\* The owner re-issues its CA, rotates its key, hands the alias over, loses it.
OwnerChanges ==
    /\ ownerChanges + crashes < MaxOwnerChanges /\ ownerChanges' = ownerChanges + 1
    /\ owner' \in {None} \cup [tld : Tld, key : CaKey, exp : {tnow + CaLife}]
    /\ owner' # owner
    /\ owner' # None /\ owner'.key # 1 => owner # None /\ owner'.tld = owner.tld
    /\ UNCHANGED <<tnow, state, trustFile, spool, anchor, job, seen, crashes>>

\* New after a crash: the saved state, and a first sweep.
TrustRestart ==
    /\ crashes < MaxCrashes /\ ownerChanges + crashes < MaxOwnerChanges /\ crashes' = crashes + 1
    /\ job' = [h \in Handler |-> Resting]
    /\ LET purged == Lapses /\ trustFile # None /\ trustFile.exp # 0 /\ Expired(trustFile)
       IN  /\ spool' = IF Lapses THEN None ELSE spool
           /\ state' = IF purged THEN None ELSE trustFile
           /\ trustFile' = IF purged THEN None ELSE trustFile
           /\ anchor' = IF purged THEN None ELSE anchor
    /\ UNCHANGED <<tnow, owner, seen, ownerChanges>>

TrustTick ==
    /\ tnow < MaxTrustClock /\ tnow' = tnow + 1
    /\ UNCHANGED <<owner, state, trustFile, spool, anchor, job, seen, ownerChanges, crashes>>

HandlerStep(h) ==
    \/ Notify(h) \/ Decide(h) \/ Hold(h) \/ MintAndSpool(h) \/ InstallStores(h) \/ Commit(h)
    \/ Sweep(h) \/ Purge(h) \/ Unspool(h) \/ Uninstall(h) \/ Marshal(h) \/ WriteState(h)
    \/ ReadSpool(h) \/ Reinstall(h)
    \/ \E t \in Tld \cup {None} : OnAliasDead(h, t)
TrustNext == (\E h \in Handler : HandlerStep(h)) \/ OwnerChanges \/ TrustRestart \/ TrustTick

TrustSpec == TrustInit /\ [][TrustNext]_trustVars

-----------------------------------------------------------------------------
(* Properties.                                                              *)

\* The contest window is never trusted away: no interleaving of handlers,
\* sweeps and crashes anchors a young identity (the quarantine of section
\* 7.5), as long as no other identity was ever notified for the alias.
QuarantineHolds ==
    \A c \in {spool, anchor} \ {None} :
        Young(c.tld) => \E t \in Tld \ {c.tld}, k \in CaKey : seen[t, k] # None

\* The observation gate: another CA replaces a live one of the same identity
\* only when it had been observed for the grace period, even when a purge, a
\* repair or a crash comes between the decision and the commit, or when the
\* handler that commits it decided on a binding that another handler has
\* replaced since.  (A restart itself goes back to what was saved.)
GatePassed ==
    /\ state # None /\ state' # None /\ state.tld = state'.tld /\ crashes' = crashes
    /\ state.exp > tnow /\ state.key # state'.key
    => \/ LET first == seen[state'.tld, state'.key]
          IN  first # None /\ tnow - first >= RotationGrace
       \/ \E h \in Handler : job[h].pc \in {"commit", "hold"} /\ job'[h].pc = "marshal"
                            /\ job[h].saw # Binding(state)
RotationIsObserved == [][GatePassed]_trustVars

=============================================================================
