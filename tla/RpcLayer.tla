------------------------------ MODULE RpcLayer -------------------------------
(***************************************************************************)
(* The RPC transport of a node (internal/dht/transport.go): sendQuery and  *)
(* its pending table, the single read loop, and the bounded pool that runs *)
(* the heavy handlers.                                                     *)
(*                                                                         *)
(* Datagrams are lost, duplicated, delayed and reordered.  A call is its   *)
(* transaction ID; IDs are 8 random bytes and are taken to be distinct.    *)
(* An answer may reach the read loop before the timer, between the timer   *)
(* and the deferred delete of the pending entry, or after both.            *)
(***************************************************************************)
EXTENDS Integers, Sequences, FiniteSets

CONSTANTS
    Call,         \* outbound queries, by transaction ID
    Query,        \* inbound queries
    Heavy,        \* the inbound put, witness and blob.get queries
    PoolQueue,    \* capacity of the handler pool's channel
    PoolWorkers,  \* number of handler goroutines
    MaxCopies     \* bound on the copies of an answer in the network

ASSUME RpcAssumption ==
    /\ IsFiniteSet(Query) /\ Heavy \subseteq Query
    /\ Call \cap {"none", "error"} = {}
    /\ {PoolQueue, PoolWorkers, MaxCopies} \subseteq Nat

VARIABLES
    callState,  \* call -> "new" | "waiting" | "leaving" | "done"
    result,     \* call -> what its sendQuery returns
    pendingTx,  \* calls with an entry in the pending map
    answerCh,   \* call -> answers in its channel
    copies,     \* call -> copies of its answer in the network
    reading,    \* calls whose answer passed the read loop's filter: {} or one
    arrived,    \* inbound queries in the network
    poolCh,     \* the handler pool's channel
    running,    \* queries on handler goroutines
    answered,   \* query -> how often it was answered
    live,       \* handler goroutines that have not exited
    stopping    \* how far Close has come: 0, 1 = context cancelled, 2 = socket closed

callVars == <<callState, result, pendingTx, answerCh, copies, reading>>
poolRpcVars == <<arrived, poolCh, running, answered, live>>
rpcVars == <<callVars, poolRpcVars, stopping>>

-----------------------------------------------------------------------------
(* Outbound calls *)

\* sendQuery registers the transaction and writes the datagram; the peer may
\* answer any number of times, or never.
SendQuery(t) ==
    /\ callState[t] = "new" /\ stopping < 2
    /\ callState' = [callState EXCEPT ![t] = "waiting"]
    /\ pendingTx' = pendingTx \cup {t}
    /\ \E n \in 0..MaxCopies : copies' = [copies EXCEPT ![t] = n]
    /\ UNCHANGED <<result, answerCh, reading, poolRpcVars, stopping>>

\* The address is not viable from here, or an earlier step of sendQuery fails:
\* the call returns before it is registered.
SendRefused(t) ==
    /\ callState[t] = "new"
    /\ callState' = [callState EXCEPT ![t] = "done"]
    /\ result' = [result EXCEPT ![t] = "error"]
    /\ UNCHANGED <<pendingTx, answerCh, copies, reading, poolRpcVars, stopping>>

\* The select of sendQuery takes the answer ...
TakeAnswer(t) ==
    /\ callState[t] = "waiting" /\ answerCh[t] # << >>
    /\ callState' = [callState EXCEPT ![t] = "leaving"]
    /\ result' = [result EXCEPT ![t] = Head(answerCh[t])]
    /\ answerCh' = [answerCh EXCEPT ![t] = Tail(@)]
    /\ UNCHANGED <<pendingTx, copies, reading, poolRpcVars, stopping>>

\* ... or the timer or the context ends the call, or the write failed; an
\* answer may be in the channel already.
GiveUp(t) ==
    /\ callState[t] = "waiting"
    /\ callState' = [callState EXCEPT ![t] = "leaving"]
    /\ result' = [result EXCEPT ![t] = "error"]
    /\ UNCHANGED <<pendingTx, answerCh, copies, reading, poolRpcVars, stopping>>

\* The deferred delete of sendQuery.
Leave(t) ==
    /\ callState[t] = "leaving"
    /\ callState' = [callState EXCEPT ![t] = "done"]
    /\ pendingTx' = pendingTx \ {t}
    /\ UNCHANGED <<result, answerCh, copies, reading, poolRpcVars, stopping>>

-----------------------------------------------------------------------------
(* The read loop *)

\* handle reads one copy of an answer and lets it pass if someone waits for it
\* (hasPending); otherwise the datagram is dropped unverified.
ReadAnswer(t) ==
    /\ reading = {} /\ copies[t] > 0
    /\ copies' = [copies EXCEPT ![t] = @ - 1]
    /\ reading' = IF t \in pendingTx THEN {t} ELSE {}
    /\ UNCHANGED <<callState, result, pendingTx, answerCh, poolRpcVars, stopping>>

\* Fault: deliver leaves the pending entry to sendQuery.
DeliverKeeping(t) ==
    /\ t \in reading
    /\ answerCh' = IF t \in pendingTx THEN [answerCh EXCEPT ![t] = Append(@, t)] ELSE answerCh
    /\ reading' = {}
    /\ UNCHANGED <<callState, result, pendingTx, copies, poolRpcVars, stopping>>

\* deliver looks the transaction up again, under the lock, and takes its entry.
Deliver(t) ==
    /\ t \in reading
    /\ pendingTx' = pendingTx \ {t}
    /\ answerCh' = IF t \in pendingTx THEN [answerCh EXCEPT ![t] = Append(@, t)] ELSE answerCh
    /\ reading' = {}
    /\ UNCHANGED <<callState, result, copies, poolRpcVars, stopping>>

-----------------------------------------------------------------------------
(* Inbound queries *)

\* handleQuery: a heavy query is queued if the pool has room, and otherwise
\* answered on the read loop like a light one.
ReadQuery(q) ==
    /\ reading = {} /\ q \in arrived
    /\ arrived' = arrived \ {q}
    /\ LET pooled == q \in Heavy /\ Len(poolCh) < PoolQueue
       IN  /\ poolCh' = IF pooled THEN Append(poolCh, q) ELSE poolCh
           /\ answered' = IF pooled THEN answered ELSE [answered EXCEPT ![q] = @ + 1]
    /\ UNCHANGED <<callVars, running, live, stopping>>

\* A handler goroutine takes a task; also while it drains the queue on Close.
WorkerTakes ==
    /\ poolCh # << >> /\ Cardinality(running) < live
    /\ running' = running \cup {Head(poolCh)}
    /\ poolCh' = Tail(poolCh)
    /\ UNCHANGED <<callVars, arrived, answered, live, stopping>>

WorkerAnswers(q) ==
    /\ q \in running
    /\ running' = running \ {q}
    /\ answered' = [answered EXCEPT ![q] = @ + 1]
    /\ UNCHANGED <<callVars, arrived, poolCh, live, stopping>>

\* A cancelled worker leaves once it finds the queue empty.
WorkerExits ==
    /\ stopping > 0 /\ poolCh = << >> /\ Cardinality(running) < live
    /\ live' = live - 1
    /\ UNCHANGED <<callVars, arrived, poolCh, running, answered, stopping>>

\* Close cancels the background context (stopBackground) ...
StopBackground ==
    /\ stopping = 0
    /\ stopping' = 1
    /\ UNCHANGED <<callVars, poolRpcVars>>

\* ... and then closes the socket: the read loop returns.
CloseSocket ==
    /\ stopping = 1 /\ reading = {}
    /\ stopping' = 2
    /\ arrived' = {}
    /\ copies' = [t \in Call |-> 0]
    /\ UNCHANGED <<callState, result, pendingTx, answerCh, reading, poolCh, running,
                   answered, live>>

RpcInit ==
    /\ callState = [t \in Call |-> "new"] /\ result = [t \in Call |-> "none"]
    /\ pendingTx = {} /\ answerCh = [t \in Call |-> << >>]
    /\ copies = [t \in Call |-> 0] /\ reading = {}
    /\ arrived = Query /\ poolCh = << >> /\ running = {}
    /\ answered = [q \in Query |-> 0]
    /\ live = PoolWorkers /\ stopping = 0

CallStep(t) == TakeAnswer(t) \/ GiveUp(t) \/ Leave(t)
ReadStep == (\E t \in Call : ReadAnswer(t) \/ Deliver(t)) \/ (\E q \in Query : ReadQuery(q))
WorkStep == WorkerTakes \/ WorkerExits \/ \E q \in Query : WorkerAnswers(q)

RpcNext ==
    \/ \E t \in Call : SendQuery(t) \/ SendRefused(t) \/ CallStep(t)
    \/ ReadStep \/ WorkStep \/ StopBackground \/ CloseSocket

\* A waiting call has a timer; the read loop and the workers are goroutines
\* that never block on each other.
RpcFairness ==
    /\ \A t \in Call : WF_rpcVars(CallStep(t))
    /\ WF_rpcVars(ReadStep) /\ WF_rpcVars(WorkStep)

RpcSpec == RpcInit /\ [][RpcNext]_rpcVars /\ RpcFairness

-----------------------------------------------------------------------------
(* Properties *)

\* The transport's tables are well typed.
RpcTypeOK ==
    /\ callState \in [Call -> {"new", "waiting", "leaving", "done"}]
    /\ result \in [Call -> {"none", "error"} \cup Call]
    /\ pendingTx \subseteq Call
    /\ answerCh \in [Call -> Seq(Call)]
    /\ copies \in [Call -> 0..MaxCopies]
    /\ reading \subseteq Call
    /\ arrived \subseteq Query /\ running \subseteq Query /\ poolCh \in Seq(Query)
    /\ answered \in [Query -> Nat]
    /\ live \in 0..PoolWorkers /\ stopping \in 0..2

\* Whatever the network duplicates or delays, at most one answer is ever put
\* in a call's channel, so deliver's "buffer full" branch is dead; a call that
\* returns an answer returns one to its own transaction; and only a call that
\* has not returned holds a pending entry, so no transaction leaks, however the
\* answer, the timer and the deferred delete interleave.
AtMostOneAnswer ==
    \A t \in Call :
        /\ Len(answerCh[t]) <= 1
        /\ \A i \in DOMAIN answerCh[t] : answerCh[t][i] = t
        /\ result[t] \in {"none", "error", t}
        /\ result[t] = t => answerCh[t] = << >> /\ t \notin pendingTx
        /\ t \in pendingTx => callState[t] \in {"waiting", "leaving"}

\* What that rests on: a call has an entry, or an answer in its channel, or
\* took it, one of the three at most, and none before it is sent.
OnePlace ==
    \A t \in Call :
        /\ answerCh[t] \in {<< >>, <<t>>}
        /\ t \in pendingTx => answerCh[t] = << >> /\ result[t] # t
        /\ callState[t] = "new" => t \notin pendingTx /\ answerCh[t] = << >>
        /\ callState[t] \in {"new", "waiting"} => result[t] = "none"

\* Every call returns: an answer, the timer or the context ends it.
CallsReturn == \A t \in Call : callState[t] = "waiting" ~> callState[t] = "done"

\* A query that is read before Close begins is answered, at a full pool as
\* well, and the workers drain the queue when Close cancels them
\* ("backpressure DEGRADES to the old behavior, it never drops a peer's packet").
QueriesAnswered ==
    \A q \in Query : (q \notin arrived /\ stopping = 0) ~> answered[q] = 1
=============================================================================
