---------------------------- MODULE Reachability ----------------------------
(***************************************************************************)
(* The address a node advertises and who keeps it right: the ladder of     *)
(* Start (explicit address, relay, STUN), the router mapping of the daemon *)
(* (src/internal/upnp, main.go), and the three monitors that rewrite the   *)
(* address at run time: the mapping's renewal, the STUN refresh and the    *)
(* hostname re-resolve.                                                    *)
(*                                                                         *)
(* An address is a pair <<ip, port>>.  Port 1 is the port the node listens *)
(* on, port 2 the next, port 3 stands for the random ones; HostIp is what  *)
(* the operator's hostname resolves to.                                    *)
(***************************************************************************)
EXTENDS Integers, Absent

CONSTANTS Ladders,        \* configurations: [adv, relay, upnp, stun]
          MaxEvents,      \* bound: router events
          MaxRouterSlips  \* bound: router calls that fail

ASSUME ReachAssumption ==
    /\ MaxEvents \in Nat /\ MaxRouterSlips \in Nat
    /\ Ladders \subseteq [adv : {"none", "literal", "host"}, relay : BOOLEAN,
                          upnp : BOOLEAN, stun : BOOLEAN]
    /\ None \notin [ip : {1, 2}, port : 1 .. 3] \cup (Nat \X Nat)

VARIABLES ladder,      \* the configuration of this daemon
          bootStage,   \* boot, node, up, closing, down; raced when a renewal was
                       \* under way while the mappings were released
          router,      \* [ip, maps, taken]: the gateway
          events, routerSlips,
          advertised,  \* n.advertise (None: the observed source)
          udp, tcp,    \* upnpMapping, upnpTCPMapping
          renewal,     \* the renewal goroutine
          hostMon,     \* the re-resolve monitor: None, or the address it applied
          stunMon,     \* does the STUN monitor run?
          relayed      \* is the socket a relay tunnel?

reachVars == <<ladder, bootStage, router, events, routerSlips, advertised, udp, tcp, renewal,
               hostMon, stunMon, relayed>>

Ips == {1, 2}
Ports == 1 .. 3
RelayAddr == <<8, 1>>
Literal == <<9, 1>>
HostAddr(ip) == <<ip, 1>>
Asleep == [at |-> "idle", m |-> None, tm |-> None, nm |-> None, changed |-> FALSE]

\* The mapped address, Mapping.Addr.
PublicAddr(m) == <<m.ip, m.port>>

(***************************************************************************)
(* The gateway: the answers to the calls of upnp.go.                       *)
(***************************************************************************)

FreePorts(proto) == {p \in Ports : <<proto, p>> \notin router.taken}

\* The port that exact-port mapping ends up with: the first of the candidates no
\* other device holds (fault 718 moves on, any other stops).
ExactPort == IF FreePorts("udp") = {} THEN None
             ELSE CHOOSE p \in FreePorts("udp") : \A q \in FreePorts("udp") : p <= q

\* What MapUDP may do, as <<the mapping or None, the ports left mapped, calls that
\* failed>>: the gateway picks a port, or takes the exact port, or refuses; the
\* exact-port branch asks for the address only after the entry exists.
MapUDP ==
    {<<[ip |-> router.ip, port |-> p], {p}, 0>> : p \in FreePorts("udp")}
    \cup {<<None, {}, 1>>}
    \cup (IF ExactPort = None THEN {}
          ELSE {<<[ip |-> router.ip, port |-> ExactPort], {ExactPort}, 1>>,
                <<None, {ExactPort}, 2>>})

\* MapTCPExact: that port or nothing; here, too, the address comes last.
MapTCPExact(p) ==
    {<<None, {}, 1>>}
    \cup (IF p \in FreePorts("tcp")
          THEN {<<[ip |-> router.ip, port |-> p], {p}, 0>>, <<None, {p}, 1>>} ELSE {})

Mapped(proto, ports) == router.maps \cup {<<proto, p>> : p \in ports}

(***************************************************************************)
(* Start.                                                                  *)
(***************************************************************************)

ReachInit ==
    /\ ladder \in Ladders
    /\ bootStage = "boot"
    /\ router \in [ip : {1}, maps : {{}}, taken : {{}, {<<"udp", 1>>}}]
    /\ events = 0 /\ routerSlips = 0
    /\ advertised = None /\ udp = None /\ tcp = None
    /\ renewal = Asleep /\ hostMon = None /\ stunMon = FALSE /\ relayed = FALSE

\* The daemon maps its port when no better rung is configured: UDP, then TCP on the
\* same external port.
MapAtStart ==
    /\ bootStage = "boot" /\ ladder.upnp /\ ladder.adv = "none" /\ ~ladder.relay
    /\ \E u \in MapUDP :
          /\ routerSlips + u[3] <= MaxRouterSlips
          /\ udp' = u[1]
          /\ IF u[1] = None
             THEN /\ tcp' = None /\ routerSlips' = routerSlips + u[3]
                  /\ router' = [router EXCEPT !.maps = Mapped("udp", u[2])]
             ELSE \E t \in MapTCPExact(u[1].port) :
                  /\ routerSlips + u[3] + t[3] <= MaxRouterSlips
                  /\ routerSlips' = routerSlips + u[3] + t[3]
                  /\ tcp' = t[1]
                  /\ router' = [router EXCEPT !.maps =
                                   Mapped("udp", u[2]) \cup {<<"tcp", p>> : p \in t[2]}]
          /\ advertised' = IF u[1] = None THEN None ELSE PublicAddr(u[1])
    /\ bootStage' = "node"
    /\ UNCHANGED <<ladder, events, renewal, hostMon, stunMon, relayed>>

NoMapping ==
    /\ bootStage = "boot" /\ ~(ladder.upnp /\ ladder.adv = "none" /\ ~ladder.relay)
    /\ bootStage' = "node"
    /\ UNCHANGED <<ladder, router, events, routerSlips, advertised, udp, tcp, renewal, hostMon,
                   stunMon, relayed>>

\* validateAdvertise at Start: a hostname may not resolve, which leaves nothing.
Validated == CASE ladder.adv = "literal" -> {Literal}
               [] ladder.adv = "host" -> {HostAddr(router.ip), None}
               [] OTHER -> {advertised}

\* startSTUN: off when an address is advertised already.
StunWanted(a) == ladder.stun /\ a = None

\* StartAdvertiseResolve: a hostname is watched, whatever became of it at Start.
Watched(a) == IF ladder.adv = "host" THEN [applied |-> a] ELSE None

\* Node.Start, then StartAdvertiseResolve: the relay when nothing is advertised
\* yet, STUN when nothing is advertised even then, and the re-resolve monitor
\* whenever the operator gave a hostname.
Start ==
    /\ bootStage = "node"
    /\ bootStage' = "up"
    /\ \E a \in Validated, granted \in BOOLEAN :
          LET viaRelay == ladder.relay /\ a = None /\ granted
          IN  /\ advertised' = IF viaRelay THEN RelayAddr ELSE a
              /\ relayed' = viaRelay
    /\ stunMon' = StunWanted(advertised')
    /\ hostMon' = Watched(advertised')
    /\ UNCHANGED <<ladder, router, events, routerSlips, udp, tcp, renewal>>

(***************************************************************************)
(* The monitors.                                                           *)
(***************************************************************************)

\* The renewal tick reads both mappings.
RenewWake ==
    /\ bootStage = "up" /\ renewal.at = "idle" /\ udp # None
    /\ renewal' = [Asleep EXCEPT !.at = "udp", !.m = udp, !.tm = tcp]
    /\ UNCHANGED <<ladder, bootStage, router, events, routerSlips, advertised, udp, tcp, hostMon,
                   stunMon, relayed>>

\* What EnsureFresh concludes of the UDP mapping m, as <<mapping or None, changed,
\* ports newly mapped, failed calls, did the probe itself fail>>.
EnsureFresh(m) ==
    {<<None, FALSE, {}, 1, TRUE>>}
    \cup (IF <<"udp", m.port>> \in router.maps \cup router.taken
          THEN {<<[m EXCEPT !.ip = router.ip], router.ip # m.ip, {}, 0, FALSE>>,
                <<m, FALSE, {}, 1, FALSE>>}
          ELSE {<<u[1], u[1] # None, u[2], u[3], FALSE>> : u \in MapUDP})

RenewUdp ==
    /\ renewal.at = "udp"
    /\ \E r \in EnsureFresh(renewal.m) :
          /\ routerSlips + r[4] <= MaxRouterSlips
          /\ routerSlips' = routerSlips + r[4]
          /\ router' = [router EXCEPT !.maps = Mapped("udp", r[3])]
          /\ renewal' = [renewal EXCEPT !.at = "tcp", !.nm = r[1], !.changed = r[2]]
    /\ UNCHANGED <<ladder, bootStage, events, advertised, udp, tcp, hostMon, stunMon, relayed>>

\* EnsureFreshTCP keeps the port it was given at start.
RenewTcp ==
    /\ renewal.at = "tcp"
    /\ renewal' = [renewal EXCEPT !.at = "commit"]
    /\ IF renewal.tm = None
       THEN UNCHANGED <<routerSlips, router, tcp>>
       ELSE LET p == renewal.tm.port
            IN  \/ /\ routerSlips < MaxRouterSlips /\ routerSlips' = routerSlips + 1      \* nothing concluded
                   /\ UNCHANGED <<router, tcp>>
                \/ /\ <<"tcp", p>> \in router.maps \cup router.taken
                   /\ tcp' = [renewal.tm EXCEPT !.ip = router.ip]
                   /\ UNCHANGED <<router, routerSlips>>
                \/ /\ <<"tcp", p>> \notin router.maps \cup router.taken
                   /\ \E t \in MapTCPExact(p) :
                         /\ routerSlips + t[3] <= MaxRouterSlips /\ routerSlips' = routerSlips + t[3]
                         /\ tcp' = IF t[1] = None THEN tcp ELSE t[1]
                         /\ router' = [router EXCEPT !.maps = Mapped("tcp", t[2])]
    /\ UNCHANGED <<ladder, bootStage, events, advertised, udp, hostMon, stunMon, relayed>>

\* The rest of the tick: the replacement is kept and its address advertised.
RenewCommit ==
    /\ renewal.at = "commit"
    /\ renewal' = Asleep
    /\ udp' = IF renewal.nm = None THEN udp ELSE renewal.nm
    /\ advertised' = IF renewal.nm # None /\ renewal.changed THEN PublicAddr(renewal.nm)
                     ELSE advertised
    /\ UNCHANGED <<ladder, bootStage, router, events, routerSlips, tcp, hostMon, stunMon, relayed>>

\* Discover: the address of a fresh socket, so its port is that socket's and not the
\* node's.
Reflexive == <<router.ip, 3>>

\* stunMonitor: a failed discovery changes nothing.
StunRefresh ==
    /\ bootStage = "up" /\ stunMon
    /\ advertised' = Reflexive
    /\ UNCHANGED <<ladder, bootStage, router, events, routerSlips, udp, tcp, renewal, hostMon,
                   stunMon, relayed>>

\* advertiseResolveMonitor: adopted when it differs from what it last applied.
HostRefresh ==
    /\ bootStage = "up" /\ hostMon # None
    /\ hostMon.applied # HostAddr(router.ip)
    /\ hostMon' = [applied |-> HostAddr(router.ip)]
    /\ advertised' = HostAddr(router.ip)
    /\ UNCHANGED <<ladder, bootStage, router, events, routerSlips, udp, tcp, renewal, stunMon, relayed>>

(***************************************************************************)
(* Shutdown: bgStop is closed, the mappings are read, then released; the   *)
(* renewal goroutine is not waited for.                                    *)
(***************************************************************************)

Shutdown ==
    /\ bootStage = "up"
    /\ bootStage' = "closing"
    /\ UNCHANGED <<ladder, router, events, routerSlips, advertised, udp, tcp, renewal, hostMon,
                   stunMon, relayed>>

\* The entries the daemon knows of.
MappingHeld == {<<"udp", m.port>> : m \in {udp} \ {None}} \cup {<<"tcp", m.port>> : m \in {tcp} \ {None}}

\* Fault: the TCP entry is left behind.
ReleasedUdp == {<<"udp", m.port>> : m \in {udp} \ {None}}

\* What is deleted from the gateway: both mappings.
Withdrawn == MappingHeld

ReleaseMapping ==
    /\ bootStage = "closing"
    /\ bootStage' = IF renewal.at = "idle" THEN "down" ELSE "raced"
    /\ router' = [router EXCEPT !.maps = @ \ Withdrawn]
    /\ UNCHANGED <<ladder, events, routerSlips, advertised, udp, tcp, renewal, hostMon, stunMon,
                   relayed>>

(***************************************************************************)
(* The gateway's own life.                                                 *)
(***************************************************************************)

\* It reboots, forgetting its entries, or is given another address; the operator's
\* hostname follows the address.
RouterEvent ==
    /\ events < MaxEvents /\ bootStage # "boot"
    /\ events' = events + 1
    /\ \/ \E ip \in Ips : router' = [router EXCEPT !.maps = {}, !.ip = ip]
       \/ \E ip \in Ips : router' = [router EXCEPT !.ip = ip]
    /\ UNCHANGED <<ladder, bootStage, routerSlips, advertised, udp, tcp, renewal, hostMon, stunMon,
                   relayed>>

RenewalStep == RenewWake \/ RenewUdp \/ RenewTcp \/ RenewCommit

ReachNext ==
    \/ MapAtStart \/ NoMapping \/ Start
    \/ RenewWake \/ RenewUdp \/ RenewTcp \/ RenewCommit
    \/ StunRefresh \/ HostRefresh
    \/ Shutdown \/ ReleaseMapping \/ RouterEvent

\* The tickers of the monitors keep firing.
ReachFairness == WF_reachVars(RenewalStep) /\ WF_reachVars(HostRefresh)

ReachSpec == ReachInit /\ [][ReachNext]_reachVars /\ ReachFairness

(***************************************************************************)
(* Properties.                                                             *)
(***************************************************************************)

\* Every address is one of the ladder's, and at most one rung is in use: a relayed
\* node holds no mapping.
ReachTypeOK ==
    /\ bootStage \in {"boot", "node", "up", "closing", "down", "raced"}
    /\ advertised \in {None, RelayAddr, Literal} \cup (Ips \X Ports)
    /\ \A m \in {udp, tcp} \ {None} : m.ip \in Ips /\ m.port \in Ports
    /\ router.maps \subseteq {"udp", "tcp"} \X Ports
    /\ relayed => udp = None /\ tcp = None
    /\ renewal.at # "idle" => renewal.m # None

\* "re-map when the entry vanished, follow address changes": between renewals the
\* advertised address is the one of the mapping the daemon holds (main.go's renewal
\* updates the two in different places).
AdvertisedIsMapped ==
    udp # None /\ bootStage # "boot" /\ renewal.at = "idle" => advertised = PublicAddr(udp)

\* The daemon leaves nothing on the gateway that it does not know of, and nothing at
\* all once it is down, as long as no call to the gateway failed and no renewal was
\* under way while it released its mappings.
MappedIsHeld ==
    routerSlips = 0 /\ renewal.at = "idle" =>
        router.maps \subseteq (IF bootStage = "down" THEN {} ELSE MappingHeld)

\* An explicit address is operator policy: no monitor ever replaces it.
ExplicitKept == bootStage = "up" /\ ladder.adv = "literal" => advertised' = advertised

ExplicitStands == [][ExplicitKept]_reachVars

\* Whatever the gateway goes through, the advertised address leads back to the node
\* for good once the gateway stays put: its address, and a port mapped to the node.
ReachabilityHeals ==
    (bootStage = "up" /\ udp # None)
       ~> \/ bootStage # "up"
          \/ /\ advertised # None /\ advertised[1] = router.ip
             /\ <<"udp", advertised[2]>> \in router.maps

=============================================================================
