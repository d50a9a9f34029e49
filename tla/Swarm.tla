-------------------------------- MODULE Swarm --------------------------------
(***************************************************************************)
(* fetchTarballFromPeers (internal/cli/upgrade.go): workers assemble a     *)
(* release archive from chunks that untrusted peers serve.  The workers    *)
(* share a cursor over the chunk list, which a failed chunk rewinds, a     *)
(* rotation of live peers with strikes, a retry budget, and -- because the *)
(* worker closure assigns the enclosing function's variable -- `err`, the  *)
(* result of the last getViaPlan of any worker.                            *)
(***************************************************************************)
EXTENDS Integers, Sequences, SequencesExt

CONSTANTS
    Worker,       \* fetch goroutines (at most 6)
    Seeders,      \* the viable, unflagged peers, in rotation order
    Liars,        \* those that may serve a wrong slice
    NChunks,      \* len(man.Chunks)
    RetryBudget,  \* requeues that rewind the cursor (3*len(man.Chunks))
    MaxThrottles  \* attempts on one chunk while the peer throttles (200)

ASSUME SwarmAssumption ==
    /\ NChunks \in Nat \ {0} /\ RetryBudget \in Nat /\ MaxThrottles \in Nat
    /\ Liars \subseteq Range(Seeders)

VARIABLES
    next,       \* the cursor: index of the next chunk to hand out
    retries,    \* requeues so far
    rotation,   \* live, the shared rotation
    turn,       \* liveIdx
    strikes,    \* seeder -> strikes
    err,        \* the shared variable
    pc,         \* worker -> where it is in its loop
    chunk,      \* worker -> the chunk it popped
    peer,       \* worker -> the seeder it asks
    data,       \* worker -> what its last fetch returned
    throttled,  \* worker -> attempts
    written,    \* chunks written to the file
    diskFailed,\* a WriteAt failed
    flagged     \* seeders recorded in the ledger for a wrong slice

swarmVars == <<next, retries, rotation, turn, strikes, err, pc, chunk, peer, data, throttled, written, diskFailed, flagged>>

Peers == Range(Seeders)
Chunks == 0..(NChunks - 1)

WorkerTo(w, where) == pc' = [pc EXCEPT ![w] = where] /\ UNCHANGED <<chunk, peer, data, throttled>>

\* The end of an iteration; the loop's own variables go out of scope.
WorkerLeaves(w, where) ==
    /\ pc' = [pc EXCEPT ![w] = where]
    /\ chunk' = [chunk EXCEPT ![w] = 0]
    /\ peer' = [peer EXCEPT ![w] = Seeders[1]]
    /\ data' = [data EXCEPT ![w] = "none"]
    /\ throttled' = [throttled EXCEPT ![w] = 0]

\* pop: the next chunk, or the worker is finished.
Pop(w) ==
    /\ pc[w] = "pop"
    /\ IF next < NChunks
       THEN /\ next' = next + 1 /\ chunk' = [chunk EXCEPT ![w] = next]
            /\ pc' = [pc EXCEPT ![w] = "peer"] /\ UNCHANGED <<peer, data, throttled>>
       ELSE WorkerLeaves(w, "done") /\ UNCHANGED next
    /\ UNCHANGED <<retries, rotation, turn, strikes, err, written, diskFailed, flagged>>

\* Fault: nothing bounds the requeues.
RequeueForever(i) ==
    /\ retries' = retries
    /\ next' = IF next > i THEN i ELSE next

\* requeue: rewind the cursor to the chunk, within the retry budget.
Requeue(i) ==
    /\ retries' = retries + 1
    /\ next' = IF retries + 1 <= RetryBudget /\ next > i THEN i ELSE next

\* nextPeer: with nobody left in the rotation the worker gives up.
NextPeer(w) ==
    /\ pc[w] = "peer"
    /\ IF rotation = <<>>
       THEN Requeue(chunk[w]) /\ WorkerLeaves(w, "done") /\ UNCHANGED turn
       ELSE /\ peer' = [peer EXCEPT ![w] = rotation[(turn % Len(rotation)) + 1]]
            /\ turn' = (turn + 1) % Len(rotation)
            /\ pc' = [pc EXCEPT ![w] = "fetch"]
            /\ UNCHANGED <<next, retries, chunk, data, throttled>>
    /\ UNCHANGED <<rotation, strikes, err, written, diskFailed, flagged>>

\* What a seeder may answer: getViaPlan's bytes and error.
SeederAnswers(s) ==
    {[data |-> "slice", err |-> "nil"]}
    \cup {[data |-> "none", err |-> e] : e \in {"throttled", "absent", "other"}}
    \cup (IF s \in Liars THEN {[data |-> "wrong", err |-> "nil"]} ELSE {})

\* data is the worker's own; err is everyone's.
Fetch(w) ==
    /\ pc[w] = "fetch"
    /\ \E a \in SeederAnswers(peer[w]) : data' = [data EXCEPT ![w] = a.data] /\ err' = a.err
    /\ pc' = [pc EXCEPT ![w] = "paced"]
    /\ UNCHANGED <<next, retries, rotation, turn, strikes, chunk, peer, throttled, written, diskFailed, flagged>>

\* The loop's first read of err: throttling is retried in place.
Paced(w) ==
    /\ pc[w] = "paced"
    /\ \/ /\ err # "throttled"
          /\ WorkerTo(w, "absent?") /\ UNCHANGED <<retries, next>>
       \/ /\ err = "throttled" /\ throttled[w] < MaxThrottles
          /\ throttled' = [throttled EXCEPT ![w] = @ + 1]
          /\ pc' = [pc EXCEPT ![w] = "fetch"]
          /\ UNCHANGED <<chunk, peer, data, retries, next>>
       \/ /\ err = "throttled" /\ throttled[w] = MaxThrottles
          /\ Requeue(chunk[w]) /\ WorkerLeaves(w, "pop")
    /\ UNCHANGED <<rotation, turn, strikes, err, written, diskFailed, flagged>>

\* strikeN: two strikes take a peer out of the rotation.
Strike(s, n) ==
    /\ strikes' = [strikes EXCEPT ![s] = IF @ + n > 2 THEN 2 ELSE @ + n]
    /\ rotation' = IF strikes[s] + n < 2 THEN rotation ELSE SelectSeq(rotation, LAMBDA q : q # s)
    /\ turn' = IF rotation' = <<>> THEN turn ELSE turn % Len(rotation')

\* The second read of err.
AbsentCheck(w) ==
    /\ pc[w] = "absent?"
    /\ IF err = "absent"
       THEN Strike(peer[w], 2) /\ Requeue(chunk[w]) /\ WorkerLeaves(w, "pop")
       ELSE WorkerTo(w, "failed?") /\ UNCHANGED <<strikes, rotation, turn, retries, next>>
    /\ UNCHANGED <<err, written, diskFailed, flagged>>

\* The third read of err.
FailedCheck(w) ==
    /\ pc[w] = "failed?"
    /\ IF err # "nil"
       THEN Strike(peer[w], 1) /\ Requeue(chunk[w]) /\ WorkerLeaves(w, "pop")
       ELSE WorkerTo(w, "hash?") /\ UNCHANGED <<strikes, rotation, turn, retries, next>>
    /\ UNCHANGED <<err, written, diskFailed, flagged>>

\* Bytes that do not hash to the manifest's digest are proof against the peer
\* (RecordViolation); good bytes are written.
HashCheck(w) ==
    /\ pc[w] = "hash?"
    /\ \/ /\ data[w] # "slice"
          /\ flagged' = flagged \cup {peer[w]}
          /\ Strike(peer[w], 5) /\ Requeue(chunk[w]) /\ WorkerLeaves(w, "pop")
          /\ UNCHANGED <<written, diskFailed>>
       \/ /\ data[w] = "slice"
          /\ written' = written \cup {chunk[w]}
          /\ WorkerLeaves(w, "pop")
          /\ UNCHANGED <<flagged, strikes, rotation, turn, retries, next, diskFailed>>
       \/ /\ data[w] = "slice"
          /\ diskFailed' = TRUE
          /\ Requeue(chunk[w]) /\ WorkerLeaves(w, "done")
          /\ UNCHANGED <<flagged, strikes, rotation, turn, written>>
    /\ UNCHANGED err

SwarmInit ==
    /\ next = 0 /\ retries = 0 /\ turn = 0 /\ err = "nil"
    /\ rotation = Seeders
    /\ strikes = [s \in Peers |-> 0]
    /\ pc = [w \in Worker |-> "pop"]
    /\ chunk = [w \in Worker |-> 0]
    /\ peer = [w \in Worker |-> Seeders[1]]
    /\ data = [w \in Worker |-> "none"]
    /\ throttled = [w \in Worker |-> 0]
    /\ written = {} /\ diskFailed = FALSE /\ flagged = {}

Step(w) ==
    Pop(w) \/ NextPeer(w) \/ Fetch(w) \/ Paced(w) \/ AbsentCheck(w) \/ FailedCheck(w) \/ HashCheck(w)

SwarmNext == \E w \in Worker : Step(w)

SwarmFairness == \A w \in Worker : WF_swarmVars(Step(w))

SwarmSpec == SwarmInit /\ [][SwarmNext]_swarmVars /\ SwarmFairness

-----------------------------------------------------------------------------
(* Properties *)

Finished == \A w \in Worker : pc[w] = "done"

\* The swarm's shared and private state is well typed.
SwarmTypeOK ==
    /\ next \in 0..NChunks /\ retries \in Nat
    /\ Range(rotation) \subseteq Peers /\ turn \in 0..Len(Seeders)
    /\ strikes \in [Peers -> 0..2]
    /\ err \in {"nil", "throttled", "absent", "other"}
    /\ pc \in [Worker -> {"pop", "peer", "fetch", "paced", "absent?", "failed?", "hash?", "done"}]
    /\ chunk \in [Worker -> Chunks] /\ peer \in [Worker -> Peers]
    /\ data \in [Worker -> {"none", "slice", "wrong"}]
    /\ throttled \in [Worker -> 0..MaxThrottles]
    /\ written \subseteq Chunks /\ diskFailed \in BOOLEAN /\ flagged \subseteq Peers

\* Once a worker has taken a chunk they all finish, whatever the peers answer: the
\* retry and throttle budgets hand a swarm that cannot finish over to the origin
\* download.
SwarmEnds == (\E w \in Worker : pc[w] # "pop") ~> Finished

\* What the ledger says of every entry: only a peer that served a wrong slice
\* is recorded for one.
OnlyLiarsFlagged == flagged \subseteq Liars
=============================================================================
