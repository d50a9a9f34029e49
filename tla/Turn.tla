-------------------------------- MODULE Turn --------------------------------
(***************************************************************************)
(* The relay (src/internal/turn): one server that grants relayed sockets   *)
(* to clients it knows by their transport address, and the client end of   *)
(* one allocation each.                                                    *)
(*                                                                         *)
(* The server's handlers run on one goroutine (serve), but they let go of  *)
(* s.mu between looking an allocation up and acting on it, and expiry      *)
(* timers and Close run beside them: a handler is therefore a step that    *)
(* looks (serve.at = "idle" to the handler's name) and a step that acts.   *)
(*                                                                         *)
(* Time is kept as what is LEFT of each deadline, so that behaviours may   *)
(* run for ever.  A transaction identifier is kept as the "live" mark of a *)
(* datagram: the mark is lost when the client stops waiting for it.        *)
(***************************************************************************)
EXTENDS Integers, FiniteSets, Absent

CONSTANTS TurnClient,    \* client transport addresses: one Conn each
          IpOf,          \* the IP of a client address
          Remote,        \* addresses a client may want to reach
          MaxAllocsPerIP, MaxTotalAllocs, MaxPermissions,
          Lifetime,      \* granted lifetime
          Wait,          \* how long a round trip waits for its answer
          DialAttempts, RefreshFailMax,
          LateRequests,  \* may a request arrive after its sender gave up?
          MaxLosses      \* bound: datagrams lost

ASSUME TurnAssumption ==
    /\ IpOf \in [TurnClient -> TurnClient]
    /\ {MaxAllocsPerIP, MaxTotalAllocs, MaxPermissions, Wait, DialAttempts,
        RefreshFailMax} \subseteq Nat \ {0}
    /\ Lifetime \in Nat \ {0, 1} /\ LateRequests \in BOOLEAN
    /\ MaxLosses \in Nat
    /\ IsFiniteSet(TurnClient)
    /\ None \notin [relay : TurnClient \X Nat, left : Int, perms : SUBSET ({None} \cup Remote)]

VARIABLES allocs,  \* s.allocs: the allocation of a client address, or None
          open,    \* relayed sockets that are open
          perIP,   \* s.perIP
          shut,    \* s.closed
          serve,   \* the serve goroutine: idle, or a handler in mid course
          wire,    \* datagrams under way
          conn,    \* the client ends
          losses   \* datagrams lost so far

turnVars == <<allocs, open, perIP, shut, serve, wire, conn, losses>>

Method == {"allocate", "refresh", "release", "permit"}
Relay == TurnClient \X (1 .. DialAttempts)
Ip == {IpOf[c] : c \in TurnClient}
NotServing == [at |-> "idle", of |-> None, a |-> None]
Half == Lifetime \div 2

\* Allocations of an IP address that are in the table.
LiveOf(ip) == {c \in TurnClient : IpOf[c] = ip /\ allocs[c] # None}

TurnInit ==
    /\ allocs = [c \in TurnClient |-> None]
    /\ open = {} /\ wire = {} /\ losses = 0
    /\ perIP = [i \in Ip |-> 0]
    /\ shut = FALSE
    /\ serve = NotServing
    /\ conn = [c \in TurnClient |-> [phase |-> "new", tries |-> 0, relayed |-> None,
                  perms |-> {}, due |-> 0, fails |-> 0,
                  left |-> [m \in Method |-> None], want |-> None]]

(***************************************************************************)
(* The server.                                                             *)
(***************************************************************************)

\* s.decPerIP: the entry is deleted when it would reach zero.
DecPerIP(p, ip) == [p EXCEPT ![ip] = IF @ > 1 THEN @ - 1 ELSE 0]

\* An answer goes out only to a sender that still waits for it: the others
\* are dropped by the client's reader, which no longer knows the identifier.
Reply(q, kind, r) == IF q.live
                     THEN {[q EXCEPT !.kind = kind, !.relay = r]} ELSE {}

\* Relayed sockets are numbered per client in the order they are opened.
NextRelay(c) == IF allocs[c] = None THEN <<c, 1>> ELSE <<c, allocs[c].relay[2] + 1>>

\* A request is taken off the socket and its handler runs up to the point where
\* it gives up s.mu for the first time; signatures of these clients verify.
Receive(q) ==
    /\ serve = NotServing /\ ~shut
    /\ q \in wire /\ q.kind = "request"
    /\ LET refused == \/ q.m = "allocate" /\ Cardinality({c \in TurnClient : allocs[c] # None})
                                               >= MaxTotalAllocs
                      \/ q.m # "allocate" /\ allocs[q.c] = None
       IN  IF refused
           THEN /\ wire' = (wire \ {q}) \cup Reply(q, "error", None)
                /\ serve' = serve
           ELSE /\ wire' = wire \ {q}
                /\ serve' = [at |-> q.m, of |-> q,
                             a |-> IF allocs[q.c] = None THEN None
                                   ELSE allocs[q.c].relay]
    /\ UNCHANGED <<allocs, open, perIP, shut, conn, losses>>

\* Fault: the socket of a replaced allocation stays open.
ReplacedLeaks(c) == {}

\* What is left to close when an allocation is replaced.
Replaced(c) == IF allocs[c] = None THEN {} ELSE {allocs[c].relay}

\* handleAllocate from its second lock on: closed, the cap, the replacement.
Allocate ==
    LET q  == serve.of
        ip == IpOf[q.c]
        r  == NextRelay(q.c)
    IN  /\ serve.at = "allocate"
        /\ serve' = NotServing
        /\ IF shut
           THEN UNCHANGED <<allocs, open, perIP, wire>>
           ELSE IF perIP[ip] >= MaxAllocsPerIP
           THEN /\ wire' = wire \cup Reply(q, "error", None)
                /\ UNCHANGED <<allocs, open, perIP>>
           ELSE /\ open' = (open \ Replaced(q.c)) \cup {r}
                /\ perIP' = [(IF allocs[q.c] = None THEN perIP ELSE DecPerIP(perIP, ip))
                                EXCEPT ![ip] = @ + 1]
                /\ allocs' = [allocs EXCEPT ![q.c] =
                                 [relay |-> r, left |-> Lifetime, perms |-> {}]]
                /\ wire' = wire \cup Reply(q, "ok", r)
        /\ UNCHANGED <<shut, conn, losses>>

\* The allocation that the handler looked up is still the one in the table.
Current(c) == allocs[c] # None /\ allocs[c].relay = serve.a

\* handleRefresh with a lifetime: the allocation that was looked up is extended,
\* whether or not it is still in the table, and success is answered.
Refresh ==
    LET q == serve.of
    IN  /\ serve.at = "refresh"
        /\ serve' = NotServing
        /\ allocs' = IF Current(q.c) THEN [allocs EXCEPT ![q.c].left = Lifetime] ELSE allocs
        /\ wire' = wire \cup Reply(q, "ok", None)
        /\ UNCHANGED <<open, perIP, shut, conn, losses>>

\* handleRefresh with lifetime zero.
ReleaseAlloc ==
    LET q == serve.of
    IN  /\ serve.at = "release"
        /\ serve' = NotServing
        /\ allocs' = [allocs EXCEPT ![q.c] = None]
        /\ perIP' = DecPerIP(perIP, IpOf[q.c])
        /\ open' = open \ {serve.a}
        /\ wire' = wire \cup Reply(q, "ok", None)
        /\ UNCHANGED <<shut, conn, losses>>

\* handleCreatePermission.
Permit ==
    LET q    == serve.of
        full == Current(q.c) /\ Cardinality(allocs[q.c].perms) >= MaxPermissions
    IN  /\ serve.at = "permit"
        /\ serve' = NotServing
        /\ allocs' = IF Current(q.c) /\ ~full
                     THEN [allocs EXCEPT ![q.c].perms = @ \cup {q.peer}] ELSE allocs
        /\ wire' = wire \cup Reply(q, IF full THEN "error" ELSE "ok", None)
        /\ UNCHANGED <<open, perIP, shut, conn, losses>>

\* expire: the timer of an allocation whose time is up.
Expire(c) ==
    /\ allocs[c] # None /\ allocs[c].left = 0
    /\ allocs' = [allocs EXCEPT ![c] = None]
    /\ perIP' = DecPerIP(perIP, IpOf[c])
    /\ open' = open \ {allocs[c].relay}
    /\ UNCHANGED <<shut, serve, wire, conn, losses>>

\* Server.Close.
Close ==
    /\ ~shut
    /\ shut' = TRUE
    /\ open' = open \ {allocs[c].relay : c \in {d \in TurnClient : allocs[d] # None}}
    /\ allocs' = [c \in TurnClient |-> None]
    /\ perIP' = [i \in Ip |-> 0]
    /\ UNCHANGED <<serve, wire, conn, losses>>

\* A handler goes on, or the timer of an allocation fires.
ServerStep == Allocate \/ Refresh \/ ReleaseAlloc \/ Permit \/ \E c \in TurnClient : Expire(c)

(***************************************************************************)
(* The client.                                                             *)
(***************************************************************************)

\* roundTrip up to its wait: a waiter is registered and the request written.
SendRequest(k, c, m) == [k EXCEPT ![c].left[m] = Wait]
Request(c, m) == [c |-> c, m |-> m, kind |-> "request", live |-> TRUE,
                  relay |-> None, peer |-> IF m = "permit" THEN conn[c].want ELSE None]

\* Client.Dial up to its first Allocate.
DialRelay(c) ==
    /\ conn[c].phase = "new"
    /\ conn' = [SendRequest(conn, c, "allocate") EXCEPT ![c].phase = "dialing", ![c].tries = 1]
    /\ wire' = wire \cup {Request(c, "allocate")}
    /\ UNCHANGED <<allocs, open, perIP, shut, serve, losses>>

\* refreshLoop wakes half a lifetime after its last answer.
RefreshWake(c) ==
    /\ conn[c].phase = "up" /\ conn[c].due = 0 /\ conn[c].left["refresh"] = None
    /\ conn' = SendRequest(conn, c, "refresh")
    /\ wire' = wire \cup {Request(c, "refresh")}
    /\ UNCHANGED <<allocs, open, perIP, shut, serve, losses>>

\* WriteTo a peer without a known permission: createPermission first.
WriteTo(c, p) ==
    /\ conn[c].phase = "up" /\ p \notin conn[c].perms
    /\ conn[c].left["permit"] = None
    /\ conn' = [SendRequest(conn, c, "permit") EXCEPT ![c].want = p]
    /\ wire' = wire \cup {[Request(c, "permit") EXCEPT !.peer = p]}
    /\ UNCHANGED <<allocs, open, perIP, shut, serve, losses>>

\* Conn.Close up to its Lifetime-0 Refresh.
CloseConn(c) ==
    /\ conn[c].phase = "up"
    /\ conn' = [SendRequest(conn, c, "release") EXCEPT ![c].phase = "closing"]
    /\ wire' = wire \cup {Request(c, "release")}
    /\ UNCHANGED <<allocs, open, perIP, shut, serve, losses>>

\* The end of a Conn: the socket is closed, every waiter is sent away.
Ended(k, c, how) == [k EXCEPT ![c].phase = how, ![c].left = [m \in Method |-> None]]

\* refreshLoop after a failed round trip: the third in a row ends the Conn.
RefreshFailed(k, c) ==
    IF k[c].fails + 1 >= RefreshFailMax THEN Ended(k, c, "dead")
    ELSE [k EXCEPT ![c].fails = @ + 1, ![c].due = Half]

\* What a round trip that failed does to the Conn.
RequestFailed(k, c, m) ==
    CASE m = "allocate" -> Ended(k, c, "failed")
      [] m = "refresh" -> RefreshFailed(k, c)
      [] m = "release" -> Ended(k, c, "closed")
      [] m = "permit" -> [k EXCEPT ![c].want = None]

\* What a round trip that succeeded does to the Conn.
Succeeded(k, c, q) ==
    CASE q.m = "allocate" -> [k EXCEPT ![c].phase = "up", ![c].relayed = q.relay,
                                       ![c].due = Half]
      [] q.m = "refresh" -> [k EXCEPT ![c].fails = 0, ![c].due = Half]
      [] q.m = "release" -> Ended(k, c, "closed")
      [] q.m = "permit" -> [k EXCEPT ![c].perms = @ \cup {k[c].want}, ![c].want = None]

\* Datagrams of a client whose waiters in "gone" went away.
Forgotten(w, c, gone) ==
    LET its == {q \in w : q.c = c /\ q.m \in gone}
    IN  (w \ its) \cup (IF LateRequests
                        THEN {[q EXCEPT !.live = FALSE] :
                                 q \in {r \in its : r.kind = "request"}}
                        ELSE {})

\* The request a handler is working on loses its waiter as well.
Orphaned(c, gone) == IF serve.at # "idle" /\ serve.of.c = c /\ serve.of.m \in gone
                     THEN [serve EXCEPT !.of.live = FALSE] ELSE serve

\* readLoop hands an answer to its waiter.
ResponseArrives(q) ==
    LET c == q.c
        k == [conn EXCEPT ![c].left[q.m] = None]
        n == IF q.kind = "ok" THEN Succeeded(k, c, q) ELSE RequestFailed(k, c, q.m)
        gone == {m \in Method : n[c].left[m] = None /\ conn[c].left[m] # None /\ m # q.m}
    IN  /\ q \in wire /\ q.kind # "request" /\ conn[c].left[q.m] # None
        /\ conn' = n
        /\ wire' = Forgotten(wire \ {q}, c, gone)
        /\ serve' = Orphaned(c, gone)
        /\ UNCHANGED <<allocs, open, perIP, shut, losses>>

\* The wait of a round trip is over: Allocate is tried again, the others fail.
TimedOut(c, m) ==
    LET k == [conn EXCEPT ![c].left[m] = None]
        again == m = "allocate" /\ k[c].tries < DialAttempts
        n == IF again THEN [SendRequest(k, c, m) EXCEPT ![c].tries = @ + 1] ELSE RequestFailed(k, c, m)
        gone == {x \in Method : conn[c].left[x] # None /\ (x = m \/ n[c].left[x] = None)}
    IN  /\ conn[c].left[m] = 0
        /\ conn' = n
        /\ wire' = Forgotten(wire, c, gone) \cup (IF again THEN {Request(c, m)} ELSE {})
        /\ serve' = Orphaned(c, gone)
        /\ UNCHANGED <<allocs, open, perIP, shut, losses>>

\* Server.serve and readLoop take the next datagram of one kind.
Serve(c, m) == \E q \in wire : q.c = c /\ q.m = m /\ Receive(q)
ReadLoop(c, m) == \E q \in wire : q.c = c /\ q.m = m /\ ResponseArrives(q)

(***************************************************************************)
(* The network and time.                                                   *)
(***************************************************************************)

Lose(q) ==
    /\ q \in wire /\ losses < MaxLosses
    /\ wire' = wire \ {q}
    /\ losses' = losses + 1
    /\ UNCHANGED <<allocs, open, perIP, shut, serve, conn>>

Less(n) == IF n = None THEN None ELSE IF n = 0 THEN 0 ELSE n - 1

\* Time passes once nothing that is due at this moment is left undone: timers
\* fire, handlers run and answers are read in far less than a round trip's wait.
TurnTick ==
    /\ serve = NotServing
    /\ \A q \in wire : q.kind = "request" /\ (shut \/ ~q.live)
    /\ \A c \in TurnClient : /\ allocs[c] # None => allocs[c].left > 0
                             /\ \A m \in Method : conn[c].left[m] # 0
                             /\ conn[c].phase = "up" /\ conn[c].left["refresh"] = None
                                   => conn[c].due > 0
    /\ allocs' = [c \in TurnClient |-> IF allocs[c] = None THEN None
                                   ELSE [allocs[c] EXCEPT !.left = @ - 1]]
    /\ conn' = [c \in TurnClient |-> [conn[c] EXCEPT !.due = Less(@),
                                     !.left = [m \in Method |-> Less(@[m])]]]
    /\ UNCHANGED <<open, perIP, shut, serve, wire, losses>>

TurnNext ==
    \/ \E q \in wire : Receive(q) \/ ResponseArrives(q) \/ Lose(q)
    \/ Allocate \/ Refresh \/ ReleaseAlloc \/ Permit
    \/ Close \/ TurnTick
    \/ \E c \in TurnClient : DialRelay(c) \/ RefreshWake(c) \/ CloseConn(c) \/ Expire(c)
    \/ \E c \in TurnClient, p \in Remote : WriteTo(c, p)
    \/ \E c \in TurnClient, m \in Method : TimedOut(c, m)

\* Both sockets are read for as long as datagrams wait there, in whatever order
\* they came; the refresh loop and every timer of a round trip are goroutines of
\* their own; and time passes however many writes there are.
TurnFairness ==
    /\ WF_turnVars(ServerStep) /\ SF_turnVars(TurnTick)
    /\ \A c \in TurnClient :
          /\ WF_turnVars(RefreshWake(c))
          /\ \A m \in Method : /\ SF_turnVars(Serve(c, m)) /\ WF_turnVars(ReadLoop(c, m))
                               /\ WF_turnVars(TimedOut(c, m))

TurnSpec == TurnInit /\ [][TurnNext]_turnVars /\ TurnFairness

(***************************************************************************)
(* Properties.                                                             *)
(***************************************************************************)

\* The tables keep their shape: an address holds at most one allocation, the
\* permission table and the daemon-wide table stay within their caps.
TurnTypeOK ==
    /\ \A c \in TurnClient : allocs[c] # None =>
          /\ allocs[c].relay \in Relay /\ allocs[c].left \in 0 .. Lifetime
          /\ allocs[c].perms \subseteq Remote
          /\ Cardinality(allocs[c].perms) <= MaxPermissions
    /\ Cardinality({c \in TurnClient : allocs[c] # None}) <= MaxTotalAllocs
    /\ open \subseteq Relay
    /\ perIP \in [Ip -> 0 .. MaxAllocsPerIP]
    /\ \A c \in TurnClient : conn[c].fails < RefreshFailMax /\ conn[c].due \in 0 .. Half

\* No slot is lost: the count held against an IP address never exceeds the
\* allocations it has, so an address is never locked out by allocations that are
\* gone.  (handleAllocate's replacement, handleRefresh's release, expire and
\* Close each settle the count in a lock section of their own.)
NoSlotIsLost == \A i \in Ip : perIP[i] <= Cardinality(LiveOf(i))

\* No socket is lost: the relayed sockets that are open are those of the table, so
\* neither a replaced nor an expired nor a closed-down allocation leaves a socket
\* and its relay loop behind.
NoSocketIsLost ==
    open = {allocs[c].relay : c \in {d \in TurnClient : allocs[d] # None}}

\* The relay server loses neither slots nor sockets.
NothingIsLost == NoSlotIsLost /\ NoSocketIsLost

\* "silently losing an allocation would leave a relayed node unreachable without
\* notice": a Conn whose allocation is gone ends (refreshLoop).
LossIsNoticed ==
    \A c \in TurnClient : (conn[c].phase = "up" /\ allocs[c] = None)
                         ~> conn[c].phase \in {"dead", "closing", "closed"}
=============================================================================
