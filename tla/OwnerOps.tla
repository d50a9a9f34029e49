------------------------------ MODULE OwnerOps ------------------------------
(***************************************************************************)
(* The owner's commands on one alias: register, name, renew, revoke and    *)
(* forget, from the command line (through the running daemon or as a       *)
(* one-shot node with -peers) and from the web interface.  One command     *)
(* runs at a time; it may be killed between any two of its steps, and the  *)
(* publication job it left in the daemon goes on without it.               *)
(*                                                                         *)
(* A claim is its prefix hash: the owner key and the timestamp it was      *)
(* mined at.  A record is what the commands decide on: its sequence, the   *)
(* tombstone flag, the recovery policy, the claim and its hash, which      *)
(* settles ties.  The replicas of the name's keys are a set of stores; how *)
(* a walk finds them is Walk, how a store chooses is EnvelopeStore, what a *)
(* witness checks is WitnessNode.                                          *)
(***************************************************************************)
EXTENDS Integers, FiniteSets, FiniteSetsExt, Absent

CONSTANTS
    Witness,        \* the nodes closest to K_claim
    OpsQuorum,      \* constants.W
    Replica,        \* the nodes closest to the name's keys
    MaxKeys,        \* bound: owner keys generated
    MaxSets,        \* bound: recovery key sets generated
    RecCount,       \* recovery keyfiles of a name
    WitnessWindow,  \* constants.WitnessPresentWindow
    Cooldown,       \* constants.WitnessCooldown
    Attempts,       \* witnessRetryAttempts
    Menu,           \* the commands that may be given
    MaxRuns,        \* bound: commands given
    MaxSlips,       \* bound: failed calls, lost replicas and killed commands
    MaxOpsClock     \* bound: the clock

ASSUME OpsAssumption ==
    /\ {OpsQuorum, RecCount, Attempts, MaxKeys, MaxSets} \subseteq Nat \ {0}
    /\ {WitnessWindow, Cooldown, MaxRuns, MaxSlips, MaxOpsClock} \subseteq Nat
    /\ Menu \subseteq [op : {"register", "name", "renew", "revoke", "forget"},
                       tool : {"cli", "web"}, daemon : BOOLEAN, slot : {"apex", "sub"}]

VARIABLES
    onow,      \* the clock
    keys,      \* the keychain directory, as far as it concerns the alias
    warm,      \* the witnesses this machine's walks reach
    bound,     \* per witness, the claim it signed last for the alias, and when
    memo,      \* the daemon's witnessCache: finished collections, by claim
    stores,    \* per replica, slot and owner, the record held
    ownStore,  \* the daemon's own store, likewise
    run,       \* the command in progress
    opsJob,    \* the daemon's publication it waits for
    orphans,   \* publications whose command is gone
    runs, slips

opsVars == <<onow, keys, warm, bound, memo, stores, ownStore, run, opsJob, orphans, runs, slips>>

Owner == 1..MaxKeys

\* The name's own key, a sub-name's key, and K_claim.
Slot == {"apex", "sub", "claim"}

\* The mined claim: Timestamp and ClaimantPK fix the prefix hash.
Claim == [owner : Owner, ts : 0..MaxOpsClock]

\* RecoveryPolicyWire: the set of keyfiles each of its keys came from.
Files == 1..RecCount

\* SignedEnvelope, as the commands tell records apart.
OpsRecord == [seq : Nat, dead : BOOLEAN, policy : [Files -> 1..MaxSets] \cup {None},
           claim : Claim \cup {None}, owner : Owner, hash : {0, 1}]

Slip == slips < MaxSlips /\ slips' = slips + 1

Same == UNCHANGED slips

-----------------------------------------------------------------------------
(* The network the commands meet.                                          *)

\* EnvelopeWins, between two records of one name signed by its owner.
Wins(e, f) == f = None \/ e.seq > f.seq \/ (e.seq = f.seq /\ e.hash > f.hash)

\* hPut: a winner is stored; a repetition of the stored record also succeeds.
PeerTakes(e, f) == Wins(e, f) \/ e = f

\* fetchEnvelope, IterativeGet: the winning record of the replicas.
Newest(slot, o) ==
    LET held == {stores[r][slot][o] : r \in Replica} \ {None}
    IN IF held = {} THEN None ELSE CHOOSE e \in held : \A f \in held : ~Wins(f, e)

\* publishKeyedStats: e is put at a slot of the stores in s.  Falling short of
\* all replicas is a slip.
PutAt(s, slot, e) ==
    /\ stores' = [r \in Replica |->
                    IF r \in s /\ Wins(e, stores[r][slot][e.owner])
                    THEN [stores[r] EXCEPT ![slot][e.owner] = e] ELSE stores[r]]
    /\ IF s = Replica THEN Same ELSE Slip

\* Publish and PublishClaim succeed when one store accepted.
PublishAccepted(s, slot, e) == \E r \in s : PeerTakes(e, stores[r][slot][e.owner])

\* hWitness on a claim of this machine: the age gate and the cooldown.
Willing(w, c) ==
    /\ onow - c.ts < WitnessWindow
    /\ bound[w] # None => bound[w].claim = c \/ onow - bound[w].at >= Cooldown

\* witnessFromPeer over the candidates s; the ones that sign remember the claim.
Signers(s, c) == {w \in s : Willing(w, c)}

Remember(s, c) == [w \in Witness |-> IF w \in s THEN [claim |-> c, at |-> onow] ELSE bound[w]]

-----------------------------------------------------------------------------
(* Beginning and ending a command.                                         *)

Rest == [step |-> "idle"]

FreshRun(c) == [cmd |-> c, step |-> "key", claim |-> None, best |-> {}, attempt |-> 1,
             env |-> None, alone |-> orphans = {}, rescued |-> FALSE, result |-> "none"]

OpsGoto(step) == run' = [run EXCEPT !.step = step]

Finish(result) == run' = [run EXCEPT !.step = "end", !.result = result]

Is(op) == run.cmd.op = op

Net == <<stores, ownStore, opsJob, orphans>>

\* The command line's dispatch and the web interface's handlers; the web
\* interface's startJob attaches to a registration that already runs.
BeginCommand(c) ==
    /\ run.step = "idle" /\ runs < MaxRuns
    /\ run' = FreshRun(c) /\ runs' = runs + 1
    /\ UNCHANGED <<onow, keys, warm, bound, memo, Net, slips>>

ProcessExits ==
    /\ run.step = "end" /\ run' = Rest
    /\ UNCHANGED <<onow, keys, warm, bound, memo, Net, runs, slips>>

\* The process dies or is interrupted.  Its job in the daemon goes on.
Kill ==
    /\ run.step \notin {"idle", "end"} /\ Slip
    /\ run' = Rest
    /\ orphans' = orphans \cup ({opsJob} \ {None}) /\ opsJob' = None
    /\ UNCHANGED <<onow, keys, warm, bound, memo, stores, ownStore, runs>>

-----------------------------------------------------------------------------
(* The keychain: owner key, recovery keyfiles, parked claim.               *)

\* cmdRegister, Register: the key of an earlier attempt is reused, and only a
\* missing one is generated and saved.
OwnerKey == keys.owner = None /\ keys.born < MaxKeys

GenerateKey ==
    /\ run.step = "key" /\ Is("register") /\ OwnerKey
    /\ keys' = [keys EXCEPT !.owner = keys.born + 1, !.born = @ + 1]
    /\ OpsGoto("recs")
    /\ Same /\ UNCHANGED <<onow, warm, bound, memo, Net, runs>>

\* seedKeypair, loadOwner: the other commands refuse a name without a key.
LoadKey ==
    /\ run.step = "key"
    /\ IF keys.owner = None THEN ~Is("register") /\ Finish("refused")
       ELSE OpsGoto(IF Is("register") THEN "recs" ELSE "discover")
    /\ Same /\ UNCHANGED <<onow, keys, warm, bound, memo, Net, runs>>

PresentClaim == {i \in Files : keys.recs[i] # None}

\* RecoveryPlan: a complete set is loaded, none is generated, part of one is
\* refused.
RecoveryPlan == IF PresentClaim = Files THEN "load" ELSE IF PresentClaim = {} THEN "write" ELSE "refuse"

\* One keyfile at a time: a kill in between leaves part of a set.
Recover ==
    /\ \/ /\ run.step = "recs"
          /\ \/ RecoveryPlan = "load" /\ OpsGoto("claim")
             \/ RecoveryPlan = "refuse" /\ Finish("refused")
             \/ RecoveryPlan = "write" /\ keys.sets < MaxSets /\ run' = [run EXCEPT !.step = "write", !.attempt = 1]
          /\ keys' = [keys EXCEPT !.sets = IF RecoveryPlan = "write" THEN @ + 1 ELSE @]
       \/ /\ run.step = "write"
          /\ keys' = [keys EXCEPT !.recs[run.attempt] = keys.sets]
          /\ run' = IF run.attempt = RecCount THEN [run EXCEPT !.step = "claim", !.attempt = 1]
                    ELSE [run EXCEPT !.attempt = @ + 1]
    /\ Same /\ UNCHANGED <<onow, warm, bound, memo, Net, runs>>

\* LoadReusableClaim: the parked claim, when it is this owner's and a witness
\* would still sign it.
ReusableClaim(c) == c # None /\ c.owner = keys.owner /\ onow - c.ts < WitnessWindow

\* MineAliasClaim and SaveReusableClaim, unless the parked claim is reusable.
MineClaim ==
    /\ run.step = "claim"
    /\ LET c == IF ReusableClaim(keys.parked) THEN keys.parked ELSE [owner |-> keys.owner, ts |-> onow]
       IN /\ keys' = [keys EXCEPT !.parked = c]
          /\ run' = [run EXCEPT !.step = "collect", !.claim = c]
    /\ Same /\ UNCHANGED <<onow, warm, bound, memo, Net, runs>>

-----------------------------------------------------------------------------
(* Collecting the witnesses.                                               *)

BetterHaul(s, t) == IF Cardinality(s) > Cardinality(t) THEN s ELSE t

\* The best haul so far; enough ends the attempts, the last ends them short.
Retried(haul) ==
    LET best == BetterHaul(haul, run.best)
    IN [run EXCEPT !.best = best, !.attempt = IF @ < Attempts THEN @ + 1 ELSE @,
          !.step = IF Cardinality(best) >= OpsQuorum THEN "discover" ELSE IF run.attempt < Attempts THEN "collect" ELSE "end",
          !.result = IF Cardinality(best) < OpsQuorum /\ run.attempt = Attempts THEN "too few" ELSE @]

\* The web interface's loop also ends, with what it has, when its job's five
\* minutes are over.
CutShort(haul) ==
    LET best == BetterHaul(haul, run.best)
    IN [run EXCEPT !.best = best, !.step = IF Cardinality(best) >= OpsQuorum THEN "discover" ELSE "end",
          !.result = IF Cardinality(best) < OpsQuorum THEN "cut short" ELSE @]

Counted(haul) ==
    \/ run' = Retried(haul) /\ Same
    \/ run.cmd.tool = "web" /\ run' = CutShort(haul) /\ Slip

\* handleWitness: a finished collection of the same claim is answered from the
\* memo.
Memoised(c) == c \in DOMAIN memo

Recall ==
    /\ run.step = "collect" /\ run.cmd.daemon /\ Memoised(run.claim)
    /\ Counted(memo[run.claim])
    /\ UNCHANGED <<onow, keys, warm, bound, memo, Net, runs>>

\* The walk toward K_claim, which warms the table, and the calls it leads to.
Walked(more) ==
    LET reach == warm \cup more  haul == Signers(reach, run.claim)
    IN warm' = reach /\ bound' = Remember(haul, run.claim)

Memoise(haul) == [c \in DOMAIN memo \cup {run.claim} |-> IF c = run.claim THEN haul ELSE memo[c]]

\* handleWitness without a memo: what was collected is memoised.
DaemonCollects(more) ==
    /\ run.step = "collect" /\ run.cmd.daemon /\ ~Memoised(run.claim)
    /\ Walked(more)
    /\ LET haul == Signers(warm', run.claim)
       IN /\ memo' = Memoise(haul)
          /\ \/ Counted(haul)
             \/ Slip /\ Finish("failed")        \* the caller's timeout: the walk went on without it
    /\ UNCHANGED <<onow, keys, Net, runs>>

\* The one-shot node collects in the command itself.
NodeCollects(more) ==
    /\ run.step = "collect" /\ ~run.cmd.daemon
    /\ Walked(more) /\ Counted(Signers(warm', run.claim))
    /\ UNCHANGED <<onow, keys, memo, Net, runs>>

\* The admin call, or starting the node, fails.
CollectFails ==
    /\ run.step = "collect" /\ Slip /\ Finish("failed")
    /\ UNCHANGED <<onow, keys, warm, bound, memo, Net, runs>>

-----------------------------------------------------------------------------
(* Discovering the sequence and signing.                                   *)

SlotOf(c) == IF c.op = "register" THEN "apex" ELSE IF c.op = "name" THEN "sub" ELSE c.slot

NextSeq(cur) == IF cur = None THEN 1 ELSE cur.seq + 1

\* The apex record with policy and claim; a sub-name's carries neither.
Apex(cur, h) == [seq |-> NextSeq(cur), dead |-> FALSE, policy |-> keys.recs,
                 claim |-> run.claim, owner |-> keys.owner, hash |-> h]

Plain(cur, h) == [seq |-> NextSeq(cur), dead |-> FALSE, policy |-> None,
                  claim |-> None, owner |-> keys.owner, hash |-> h]

\* The signed revocation (publishRevokedAt).
Tombstone(cur, h) == [Plain(cur, h) EXCEPT !.dead = TRUE]

\* RenewEnvelope: the record again at the next sequence.
RenewedRecord(cur, h) == [cur EXCEPT !.seq = @ + 1, !.dead = FALSE, !.hash = h]

Sign(e) == run' = [run EXCEPT !.env = e, !.step = "publish"]

PruneNext == run' = [run EXCEPT !.step = "prune", !.attempt = 1]

Dead(cur) == IF cur = None THEN FALSE ELSE cur.dead

\* What each command does with the record its walk found (None: a clean miss).
CliRegister(cur, h) == Is("register") /\ Sign(Apex(cur, h))

\* cmdName: an address is given, or inherited from the apex.
CliName(cur, h) ==
    /\ Is("name")
    /\ \/ Sign(Plain(cur, h))
       \/ Newest("apex", keys.owner) = None /\ Finish("refused")

\* renewOne: nothing to renew, revoked, still fresh and not forced, or renewed.
CliRenew(cur, h) ==
    /\ Is("renew")
    /\ IF cur = None \/ Dead(cur) THEN Finish("refused") ELSE Finish("ok") \/ Sign(RenewedRecord(cur, h))

CliRevoke(cur, h) == Is("revoke") /\ IF cur = None THEN Finish("refused") ELSE Sign(Tombstone(cur, h))

CliForget(cur, h) == Is("forget") /\ IF cur = None \/ Dead(cur) THEN PruneNext ELSE Sign(Tombstone(cur, h))

\* The same commands as the web interface's engine writes them.
WebRegister(cur, h) == Is("register") /\ Sign(Apex(cur, h))

WebSetName(cur, h) ==
    /\ Is("name")
    /\ \/ Sign(Plain(cur, h))
       \/ Newest("apex", keys.owner) = None /\ Finish("refused")

\* Renew: the web interface does not ask whether the record is revoked.
WebRenew(cur, h) ==
    Is("renew") /\ IF cur = None THEN Finish("refused") ELSE Finish("refused") \/ Sign(RenewedRecord(cur, h))

WebRevoke(cur, h) == Is("revoke") /\ Sign(Tombstone(cur, h))

OpsDecide(cur, h) ==
    IF run.cmd.tool = "cli"
    THEN CliRegister(cur, h) \/ CliName(cur, h) \/ CliRenew(cur, h) \/ CliRevoke(cur, h) \/ CliForget(cur, h)
    ELSE WebRegister(cur, h) \/ WebSetName(cur, h) \/ WebRenew(cur, h) \/ WebRevoke(cur, h)

Discover(h) ==
    /\ run.step = "discover"
    /\ OpsDecide(Newest(SlotOf(run.cmd), keys.owner), h)
    /\ Same /\ UNCHANGED <<onow, keys, warm, bound, memo, Net, runs>>

\* A failed walk is no miss: every command stops, but the command line's
\* register goes on as if nothing were published.
LenientUnlessForget == ~Is("forget")

LenientDiscovery == Is("register") /\ run.cmd.tool = "cli"

DiscoverFails(h) ==
    /\ run.step = "discover" /\ Slip
    /\ IF LenientDiscovery THEN OpsDecide(None, h) ELSE Finish("failed")
    /\ UNCHANGED <<onow, keys, warm, bound, memo, Net, runs>>

-----------------------------------------------------------------------------
(* Publishing: the daemon's jobs.                                          *)

Job == [env : OpsRecord, slot : {"apex", "sub", "claim"}, leg : {"name", "claim", "over"},
        accepted : 0..2, ok : BOOLEAN]

\* startPublishJob, for Publish (name leg, then claim leg) or PublishClaim.
NewJob(leg) == [env |-> run.env, slot |-> SlotOf(run.cmd), leg |-> leg, accepted |-> 0, ok |-> TRUE]

\* storeLocally: at every key of the record, under the winner rule.
StoreLocally(j) ==
    [sl \in Slot |-> [o \in Owner |->
        IF /\ o = j.env.owner /\ Wins(j.env, ownStore[sl][o])
           /\ sl = j.slot \/ (sl = "claim" /\ j.env.claim # None)
        THEN j.env ELSE ownStore[sl][o]]]

\* runPublish, primary leg: a refusal everywhere fails the job.
NameLeg(j, s) ==
    LET ok == PublishAccepted(s, j.slot, j.env)
    IN [j EXCEPT !.ok = ok, !.accepted = IF ok THEN 1 ELSE 0,
          !.leg = IF ok /\ j.env.claim # None THEN "claim" ELSE "over"]

\* runPublish, claim leg: alone it decides the job; after the primary leg it
\* only adds to the count.
ClaimLeg(j, s) ==
    LET ok == PublishAccepted(s, "claim", j.env)
    IN [j EXCEPT !.leg = "over", !.accepted = @ + (IF ok THEN 1 ELSE 0), !.ok = ok \/ j.accepted = 1]

\* One leg of job j reaches the stores in s and leaves the job as in done.
Leg(j, s, done) ==
    \/ /\ j.leg = "name" /\ PutAt(s, j.slot, j.env)
       /\ done = NameLeg(j, s)
       /\ ownStore' = IF done.ok THEN StoreLocally(j) ELSE ownStore
    \/ /\ j.leg = "claim" /\ PutAt(s, "claim", j.env)
       /\ done = ClaimLeg(j, s) /\ UNCHANGED ownStore

JobStep(s) ==
    /\ opsJob # None /\ opsJob.leg # "over"
    /\ \E done \in {NameLeg(opsJob, s), ClaimLeg(opsJob, s)} : Leg(opsJob, s, done) /\ opsJob' = done
    /\ UNCHANGED <<onow, keys, warm, bound, memo, run, orphans, runs>>

OrphanStep(j, s) ==
    /\ \E done \in {NameLeg(j, s), ClaimLeg(j, s)} :
        /\ Leg(j, s, done)
        /\ orphans' = (orphans \ {j}) \cup (IF done.leg = "over" THEN {} ELSE {done})
    /\ UNCHANGED <<onow, keys, warm, bound, memo, run, opsJob, runs>>

\* Client.publish: the daemon takes the job, and the command polls.
Submit ==
    /\ run.step = "publish" /\ run.cmd.daemon
    /\ opsJob' = NewJob("name") /\ OpsGoto("wait")
    /\ Same /\ UNCHANGED <<onow, keys, warm, bound, memo, stores, ownStore, orphans, runs>>

\* Whether the claim is published once more after n keys accepted: the command
\* line repairs a claim leg that did not land, the web interface's register
\* always repeats it, its other operations never do.
RegisterRepairs(n) == Is("register") /\ n < 2

RenewRepairs(n) == Is("renew") /\ n < 2 /\ run.env.claim # None

Repairs(n) == IF run.cmd.tool = "cli" THEN RegisterRepairs(n) \/ RenewRepairs(n) ELSE Is("register")

AfterPublish(n) ==
    IF Is("forget") THEN PruneNext ELSE IF Repairs(n) THEN OpsGoto("claimleg") ELSE Finish("ok")

\* A failed publication ends the command; forget keeps the keys.
PublishFailed == Finish("failed")

\* pollJob: the job's outcome.
Poll ==
    /\ run.step = "wait" /\ opsJob.leg = "over"
    /\ IF opsJob.ok THEN AfterPublish(opsJob.accepted) ELSE PublishFailed
    /\ opsJob' = None
    /\ Same /\ UNCHANGED <<onow, keys, warm, bound, memo, stores, ownStore, orphans, runs>>

\* pollJob: the context ends, or a poll fails, while the job runs.
PollFails ==
    /\ run.step \in {"wait", "waitclaim"} /\ opsJob.leg # "over" /\ Slip
    /\ IF run.step = "wait" THEN PublishFailed
       ELSE IF Is("register") /\ run.cmd.tool = "cli" THEN OpsGoto("verify") ELSE Finish("failed")
    /\ orphans' = orphans \cup {opsJob} /\ opsJob' = None
    /\ UNCHANGED <<onow, keys, warm, bound, memo, stores, ownStore, runs>>

\* PublishClaim through the daemon.
SubmitClaim ==
    /\ run.step = "claimleg" /\ run.cmd.daemon
    /\ opsJob' = NewJob("claim") /\ OpsGoto("waitclaim")
    /\ Same /\ UNCHANGED <<onow, keys, warm, bound, memo, stores, ownStore, orphans, runs>>

PollClaim ==
    /\ run.step = "waitclaim" /\ opsJob.leg = "over"
    /\ IF opsJob.ok THEN Finish("ok")
       ELSE IF Is("register") /\ run.cmd.tool = "cli" THEN OpsGoto("verify") ELSE Finish("failed")
    /\ opsJob' = None
    /\ Same /\ UNCHANGED <<onow, keys, warm, bound, memo, stores, ownStore, orphans, runs>>

\* handleResolve, local store first at both hops.
ClaimKnown(slot, o) == IF ownStore[slot][o] # None THEN ownStore[slot][o] ELSE Newest(slot, o)

Resolves(o) == ClaimKnown("claim", o) # None /\ ClaimKnown("apex", o) # None /\ ~ClaimKnown("apex", o).dead

\* cmdRegister's verify: a name that resolves counts as published.
VerifyResult ==
    /\ run.step = "verify"
    /\ run' = [run EXCEPT !.step = "end", !.rescued = TRUE,
                 !.result = IF Resolves(keys.owner) THEN "ok" ELSE "failed"]
    /\ Same /\ UNCHANGED <<onow, keys, warm, bound, memo, Net, runs>>

\* The one-shot node publishes in the command itself.
PublishHere(s) ==
    /\ run.step \in {"publish", "claimleg"} /\ ~run.cmd.daemon
    /\ \/ /\ run.step = "publish" /\ PutAt(s, SlotOf(run.cmd), run.env)
          /\ IF PublishAccepted(s, SlotOf(run.cmd), run.env) THEN AfterPublish(1) ELSE PublishFailed
       \/ /\ run.step = "claimleg" /\ PutAt(s, "claim", run.env)
          /\ IF PublishAccepted(s, "claim", run.env) THEN Finish("ok") ELSE Finish("failed")
    /\ UNCHANGED <<onow, keys, warm, bound, memo, ownStore, opsJob, orphans, runs>>

\* pruneKeychainFiles: the owner key, the parked claim, then the recovery
\* keyfiles, whichever slot was forgotten.
Prune ==
    /\ run.step = "prune"
    /\ keys' = IF run.attempt = 1 THEN [keys EXCEPT !.owner = None]
               ELSE IF run.attempt = 2 THEN [keys EXCEPT !.parked = None]
               ELSE [keys EXCEPT !.recs[run.attempt - 2] = None]
    /\ run' = IF run.attempt = RecCount + 2 THEN [run EXCEPT !.step = "end", !.result = "ok"]
              ELSE [run EXCEPT !.attempt = @ + 1]
    /\ Same /\ UNCHANGED <<onow, warm, bound, memo, Net, runs>>

-----------------------------------------------------------------------------
(* Around the commands.                                                    *)

\* A replica leaves and another takes its place empty.  The loss of the last
\* copy of a record is left out: then no sequence can be discovered.
Churn(r) ==
    /\ Slip
    /\ stores' = [stores EXCEPT ![r] = [sl \in Slot |-> [o \in Owner |-> None]]]
    /\ stores' # stores
    /\ \A sl \in Slot, o \in Owner : stores[r][sl][o] # None =>
        \E q \in Replica \ {r} : stores[q][sl][o] # None /\ ~Wins(stores[r][sl][o], stores[q][sl][o])
    /\ UNCHANGED <<onow, keys, warm, bound, memo, ownStore, run, opsJob, orphans, runs>>

\* The daemon's other traffic reaches a witness.
WarmUp(w) ==
    /\ w \notin warm /\ warm' = warm \cup {w}
    /\ UNCHANGED <<onow, keys, bound, memo, Net, run, runs, slips>>

OpsTick ==
    /\ onow < MaxOpsClock /\ onow' = onow + 1
    /\ UNCHANGED <<keys, warm, bound, memo, Net, run, runs, slips>>

OpsInit ==
    /\ onow = 0
    /\ keys = [owner |-> None, recs |-> [i \in Files |-> None], parked |-> None, born |-> 0, sets |-> 0]
    /\ warm = {} /\ bound = [w \in Witness |-> None] /\ memo = <<>>
    /\ stores = [r \in Replica |-> [sl \in Slot |-> [o \in Owner |-> None]]]
    /\ ownStore = [sl \in Slot |-> [o \in Owner |-> None]]
    /\ run = Rest /\ opsJob = None /\ orphans = {} /\ runs = 0 /\ slips = 0

OpsNext ==
    \/ \E c \in Menu : BeginCommand(c)
    \/ ProcessExits \/ Kill
    \/ GenerateKey \/ LoadKey \/ Recover \/ MineClaim
    \/ Recall \/ CollectFails \/ \E more \in SUBSET Witness : DaemonCollects(more) \/ NodeCollects(more)
    \/ \E h \in {0, 1} : Discover(h) \/ DiscoverFails(h)
    \/ Submit \/ SubmitClaim \/ Poll \/ PollClaim \/ PollFails \/ VerifyResult \/ Prune
    \/ \E s \in SUBSET Replica : JobStep(s) \/ PublishHere(s) \/ \E j \in orphans : OrphanStep(j, s)
    \/ \E r \in Replica : Churn(r)
    \/ \E w \in Witness : WarmUp(w)
    \/ OpsTick

OpsSpec == OpsInit /\ [][OpsNext]_opsVars

-----------------------------------------------------------------------------
(* Properties.                                                             *)

\* Types; a job is waited for exactly in the two waiting steps (pollJob), and
\* every record of a slot is its owner's.
OpsTypeOK ==
    /\ onow \in 0..MaxOpsClock /\ warm \subseteq Witness
    /\ keys.owner \in Owner \cup {None} /\ keys.parked \in Claim \cup {None}
    /\ \A c \in DOMAIN memo : c \in Claim /\ memo[c] \subseteq Witness
    /\ \A r \in Replica, sl \in Slot, o \in Owner :
        stores[r][sl][o] # None => stores[r][sl][o] \in OpsRecord /\ stores[r][sl][o].owner = o
    /\ (opsJob # None) <=> run.step \in {"wait", "waitclaim"}
    /\ \A j \in orphans \cup ({opsJob} \ {None}) : j \in Job

Succeeds == run.step # "idle" /\ run'.step = "end" /\ run.step # "end" /\ run'.result = "ok"

\* discoverEnvelope, currentSequence, renewOne: when no earlier command left a
\* publication under way, a command that published and says so (the command
\* line's register aside, whose discovery is lenient) is not already beaten at
\* some replica by a record it should have found.
SuccessIsNewest ==
    [][(Succeeds /\ run.env # None /\ run.alone /\ ~(run.cmd.op = "register" /\ run.cmd.tool = "cli")) =>
        \A r \in Replica : LET e == stores'[r][SlotOf(run.cmd)][run.env.owner]
                           IN e # None => ~Wins(e, run.env)]_opsVars
=============================================================================
