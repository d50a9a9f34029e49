------------------------------ MODULE EdgeProofs ------------------------------
(***************************************************************************)
(* Proofs about where a node meets the network: the table of pending       *)
(* queries (RpcLayer), the router's port mappings and the advertised       *)
(* address (Reachability), and the relay (Turn), for any number of calls,  *)
(* clients and remotes and every capacity.                                 *)
(***************************************************************************)
EXTENDS RpcLayer, Reachability, Turn, FiniteSetTheorems, TLAPS

-----------------------------------------------------------------------------
(***************************************************************************)
(* The table of pending queries.                                           *)
(***************************************************************************)

\* The inductive invariant of the transaction table.
CallInv == RpcTypeOK /\ AtMostOneAnswer /\ OnePlace

\* It holds before the first query.
LEMMA CallInit == RpcInit => CallInv
BY RpcAssumption DEF RpcInit, CallInv, RpcTypeOK, AtMostOneAnswer, OnePlace

\* Sending, refusing, delivering, timing out, duplicates and late answers keep
\* it.
LEMMA CallNext == CallInv /\ [RpcNext]_rpcVars => CallInv'
<1> SUFFICES ASSUME CallInv, [RpcNext]_rpcVars PROVE CallInv'
  BY Zenon
<1> USE RpcAssumption DEF CallInv, RpcTypeOK, AtMostOneAnswer, OnePlace
<1>1. ASSUME NEW t \in Call, SendQuery(t) PROVE CallInv'
  BY <1>1 DEF SendQuery, poolRpcVars
<1>2. ASSUME NEW t \in Call, SendRefused(t) PROVE CallInv'
  BY <1>2 DEF SendRefused, poolRpcVars
<1>3. ASSUME NEW t \in Call, TakeAnswer(t) PROVE CallInv'
  <2>1. answerCh[t] = <<t>> /\ t \notin pendingTx
    BY <1>3, Zenon DEF TakeAnswer
  <2>2. Head(<<t>>) = t /\ Tail(<<t>>) = << >>
    OBVIOUS
  <2>3. answerCh' = [answerCh EXCEPT ![t] = << >>] /\ result' = [result EXCEPT ![t] = t]
    BY <1>3, <2>1, <2>2, Zenon DEF TakeAnswer
  <2> QED
    BY <1>3, <2>1, <2>3 DEF TakeAnswer, poolRpcVars
<1>4. ASSUME NEW t \in Call, GiveUp(t) PROVE CallInv'
  BY <1>4 DEF GiveUp, poolRpcVars
<1>5. ASSUME NEW t \in Call, Leave(t) PROVE CallInv'
  BY <1>5, SMTT(60) DEF Leave, poolRpcVars
<1>6. ASSUME NEW t \in Call, ReadAnswer(t) PROVE CallInv'
  BY <1>6, SMTT(60) DEF ReadAnswer, poolRpcVars
<1>7. ASSUME NEW t \in Call, Deliver(t) PROVE CallInv'
  <2>1. Append(<< >>, t) = <<t>>
    OBVIOUS
  <2>2. t \in pendingTx => answerCh' = [answerCh EXCEPT ![t] = <<t>>]
    BY <1>7, <2>1, Zenon DEF Deliver
  <2>3. CASE t \in pendingTx
    <3>1. RpcTypeOK'
      BY <1>7, <2>2, <2>3 DEF Deliver, poolRpcVars
    <3>2. OnePlace'
      <4>1. answerCh'[t] = <<t>> /\ t \notin pendingTx' /\ callState' = callState /\ result' = result
        BY <1>7, <2>2, <2>3, ZenonT(60) DEF Deliver
      <4>2. \A u \in Call \ {t} : answerCh'[u] = answerCh[u] /\ (u \in pendingTx' <=> u \in pendingTx)
        BY <1>7, <2>2, <2>3 DEF Deliver
      <4>3. /\ callState[t] \in {"waiting", "leaving"}
            /\ callState[t] = "waiting" => result[t] = "none"
        BY <2>3, Zenon
      <4>4. OnePlace
        BY Zenon
      <4> HIDE DEF CallInv, RpcTypeOK, AtMostOneAnswer
      <4> QED
        BY <4>1, <4>2, <4>3, <4>4, Zenon
    <3>3. AtMostOneAnswer'
      BY <1>7, <2>2, <2>3 DEF Deliver
    <3> QED
      BY <3>1, <3>2, <3>3, Zenon
  <2>4. CASE t \notin pendingTx
    BY <1>7, <2>4, Zenon DEF Deliver, poolRpcVars
  <2> QED
    BY <2>3, <2>4, Zenon
<1>8. ASSUME NEW q \in Query, ReadQuery(q) PROVE CallInv'
  BY <1>8, SMTT(60) DEF ReadQuery, callVars
<1>9. CASE WorkerTakes
  BY <1>9 DEF WorkerTakes, callVars
<1>10. ASSUME NEW q \in Query, WorkerAnswers(q) PROVE CallInv'
  BY <1>10 DEF WorkerAnswers, callVars
<1>11. CASE WorkerExits
  <2>1. Cardinality(running) \in Nat
    BY FS_Subset, FS_CardinalityType, Zenon
  <2> QED
    BY <1>11, <2>1 DEF WorkerExits, callVars
<1>12. CASE StopBackground
  BY <1>12 DEF StopBackground, callVars, poolRpcVars
<1>13. CASE CloseSocket
  BY <1>13 DEF CloseSocket
<1>14. CASE UNCHANGED rpcVars
  BY <1>14, Zenon DEF rpcVars, callVars, poolRpcVars
<1> HIDE DEF CallInv, RpcTypeOK, AtMostOneAnswer, OnePlace
<1> QED
  BY <1>1, <1>2, <1>3, <1>4, <1>5, <1>6, <1>7, <1>8, <1>9, <1>10, <1>11, <1>12, <1>13, <1>14, Zenon
  DEF RpcNext, CallStep, ReadStep, WorkStep

\* Whatever the network does to its answer, a call gets at most one, its own,
\* and leaves no pending entry behind (sendQuery, deliver).
THEOREM OneAnswerPerCall == RpcSpec => []AtMostOneAnswer
<1>1. CallInv => AtMostOneAnswer
  BY Zenon  DEF CallInv
<1> QED
  BY <1>1, CallInit, CallNext, PTL DEF RpcSpec

-----------------------------------------------------------------------------
(***************************************************************************)
(* The port mappings and the advertised address.                           *)
(***************************************************************************)

\* A mapping as the router reports it.
Mapping == [ip : {1, 2}, port : 1 .. 3]
\* A line of the router's table.
Entry == {"udp", "tcp"} \X (1 .. 3)
\* The renewal goroutine: its step, and what it holds.
Renewals == [at : {"idle", "udp", "tcp", "commit"}, m : {None} \cup Mapping, tm : {None} \cup Mapping,
             nm : {None} \cup Mapping, changed : BOOLEAN]

\* Types of the ladder, the router, the mappings held and the renewal.
ReachTypes ==
    /\ ladder \in [adv : {"none", "literal", "host"}, relay : BOOLEAN, upnp : BOOLEAN, stun : BOOLEAN]
    /\ bootStage \in {"boot", "node", "up", "closing", "down", "raced"}
    /\ router \in [ip : {1, 2}, maps : SUBSET Entry, taken : SUBSET Entry]
    /\ routerSlips \in Nat
    /\ udp \in {None} \cup Mapping /\ tcp \in {None} \cup Mapping
    /\ renewal \in Renewals

\* A renewal under way works on the mappings the daemon holds; an unchanged
\* verdict leaves the mapping as it is.
RenewalInv ==
    /\ renewal.at # "idle" => udp # None /\ renewal.m = udp
    /\ renewal.at \in {"udp", "tcp"} => renewal.tm = tcp
    /\ renewal.at \in {"tcp", "commit"} /\ renewal.nm # None /\ ~renewal.changed => renewal.nm = renewal.m
    /\ bootStage \in {"boot", "node", "down"} => renewal.at = "idle"

\* Which rung of the ladder is in use: a mapping only when no address is
\* configured; the monitors only where they have something to do.
LadderInv ==
    /\ udp # None => ladder.adv = "none"
    /\ hostMon # None => ladder.adv = "host"
    /\ stunMon => ladder.adv # "literal" /\ udp = None
    /\ bootStage = "boot" => udp = None /\ tcp = None /\ router.maps = {}
    /\ bootStage \in {"boot", "node"} => ~stunMon /\ hostMon = None

\* The UDP mapping after the renewal under way.
NextUdp == IF renewal.at \in {"tcp", "commit"} THEN renewal.nm ELSE udp

\* Without failed calls the gateway's entries are those of the mappings held,
\* the one the renewal is about to keep taken for the one it replaces.
EntryInv ==
    routerSlips = 0 =>
        /\ renewal.at \in {"tcp", "commit"} => renewal.nm # None
        /\ bootStage = "down" => router.maps = {}
        /\ \A p \in 1 .. 3 : <<"udp", p>> \in router.maps => NextUdp # None /\ NextUdp.port = p
        /\ \A p \in 1 .. 3 : <<"tcp", p>> \in router.maps => tcp # None /\ tcp.port = p

\* A held mapping is what is advertised.
AddressInv ==
    udp # None => advertised = PublicAddr(udp)

\* The inductive invariant.
ReachInv == ReachTypes /\ RenewalInv /\ LadderInv /\ EntryInv /\ AddressInv

\* No mapping and no address is the absent one.
LEMMA NoneApart ==
    /\ None \notin Mapping
    /\ \A m \in Mapping : PublicAddr(m) # None
    /\ RelayAddr # None /\ Literal # None
<1>1. None \notin Mapping /\ None \notin Nat \X Nat
    BY ReachAssumption, Zenon DEF Mapping
<1>2. \A m \in Mapping : PublicAddr(m) \in Nat \X Nat
    BY DEF Mapping, PublicAddr
<1>3. RelayAddr \in Nat \X Nat /\ Literal \in Nat \X Nat
    BY Zenon  DEF RelayAddr, Literal
<1> QED BY <1>1, <1>2, <1>3, Zenon

\* At the start nothing is mapped.
LEMMA ReachInitial == ReachInit => ReachInv
<1> SUFFICES ASSUME ReachInit PROVE ReachInv
    BY Zenon
<1>1. ReachTypes
  <2>1. Asleep \in Renewals
    BY Zenon  DEF Asleep, Renewals
  <2>2. router \in [ip : {1, 2}, maps : SUBSET Entry, taken : SUBSET Entry]
    BY DEF ReachInit, Entry
  <2> QED BY <2>1, <2>2, ReachAssumption, Zenon DEF ReachInit, ReachTypes
<1>2. RenewalInv
    BY Zenon  DEF ReachInit, RenewalInv, Asleep
<1>3. LadderInv
    BY Zenon  DEF ReachInit, LadderInv
<1>4. EntryInv
    BY Zenon  DEF ReachInit, EntryInv, Asleep
<1>5. AddressInv
    BY Zenon  DEF ReachInit, AddressInv
<1> QED BY <1>1, <1>2, <1>3, <1>4, <1>5, Zenon DEF ReachInv

\* The ports a request may be given.
LEMMA PortsFree ==
    ASSUME ReachTypes
    PROVE  /\ FreePorts("udp") \subseteq 1 .. 3 /\ FreePorts("tcp") \subseteq 1 .. 3
           /\ ExactPort = None \/ ExactPort \in 1 .. 3
<1>1. FreePorts("udp") \subseteq 1 .. 3 /\ FreePorts("tcp") \subseteq 1 .. 3
    BY Zenon  DEF FreePorts, Ports
<1>2. ASSUME FreePorts("udp") # {} PROVE ExactPort \in 1 .. 3
  <2>1. \E p \in FreePorts("udp") : \A q \in FreePorts("udp") : p <= q
    <3>1. CASE 1 \in FreePorts("udp")
      BY <1>1, <3>1
    <3>2. CASE 1 \notin FreePorts("udp") /\ 2 \in FreePorts("udp")
      BY <1>1, <3>2
    <3>3. CASE 1 \notin FreePorts("udp") /\ 2 \notin FreePorts("udp")
      BY <1>1, <1>2, <3>3
    <3> QED BY <3>1, <3>2, <3>3, Zenon
  <2>2. ExactPort \in FreePorts("udp")
    BY <1>2, <2>1, Zenon DEF ExactPort
  <2> QED BY <1>1, <2>2, Zenon
<1> QED BY <1>1, <1>2, Zenon DEF ExactPort

\* What the calls to the gateway return: a mapping with the ports it left mapped;
\* a call that did not fail maps exactly the port it returns.
LEMMA MapUDPResult ==
    ASSUME ReachTypes, NEW u \in MapUDP
    PROVE  /\ u[1] \in {None} \cup Mapping /\ u[2] \subseteq 1 .. 3 /\ u[3] \in Nat
           /\ u[3] = 0 => u[1] # None /\ u[2] = {u[1].port}
<1>0. router.ip \in {1, 2}
    BY Zenon  DEF ReachTypes
<1>1. ASSUME NEW p \in FreePorts("udp"), u = <<[ip |-> router.ip, port |-> p], {p}, 0>>
      PROVE  /\ u[1] \in Mapping /\ u[2] \subseteq 1 .. 3 /\ u[3] = 0 /\ u[2] = {u[1].port}
    BY <1>0, <1>1, PortsFree, Zenon DEF Mapping
<1>2. ASSUME u = <<None, {}, 1>> PROVE u[1] = None /\ u[2] = {} /\ u[3] = 1
    BY <1>2, Zenon
<1>3. ASSUME ExactPort # None, u = <<[ip |-> router.ip, port |-> ExactPort], {ExactPort}, 1>>
      PROVE  u[1] \in Mapping /\ u[2] \subseteq 1 .. 3 /\ u[3] = 1
    BY <1>0, <1>3, PortsFree, Zenon DEF Mapping
<1>4. ASSUME ExactPort # None, u = <<None, {ExactPort}, 2>>
      PROVE  u[1] = None /\ u[2] \subseteq 1 .. 3 /\ u[3] = 2
    BY <1>4, PortsFree, Zenon
<1>5. \/ \E p \in FreePorts("udp") : u = <<[ip |-> router.ip, port |-> p], {p}, 0>>
      \/ u = <<None, {}, 1>>
      \/ ExactPort # None /\ u = <<[ip |-> router.ip, port |-> ExactPort], {ExactPort}, 1>>
      \/ ExactPort # None /\ u = <<None, {ExactPort}, 2>>
    BY Zenon  DEF MapUDP
<1> QED BY <1>1, <1>2, <1>3, <1>4, <1>5, NoneApart

\* What an exact TCP mapping may return: the port asked for, or nothing after a
\* slip of the router.
LEMMA MapTCPResult ==
    ASSUME ReachTypes, NEW p \in 1 .. 3, NEW t \in MapTCPExact(p)
    PROVE  /\ t[1] \in {None} \cup Mapping /\ t[2] \subseteq {p} /\ t[3] \in Nat
           /\ t[1] # None => t[1].port = p
           /\ t[3] = 0 => t[1] # None
<1>0. router.ip \in {1, 2}
    BY Zenon  DEF ReachTypes
<1>1. ASSUME t = <<[ip |-> router.ip, port |-> p], {p}, 0>>
      PROVE  t[1] \in Mapping /\ t[2] = {p} /\ t[3] = 0 /\ t[1].port = p
    BY <1>0, <1>1, Zenon DEF Mapping
<1>2. ASSUME t = <<None, {}, 1>> PROVE t[1] = None /\ t[2] = {} /\ t[3] = 1
    BY <1>2, Zenon
<1>3. ASSUME t = <<None, {p}, 1>> PROVE t[1] = None /\ t[2] = {p} /\ t[3] = 1
    BY <1>3, Zenon
<1>4. t = <<[ip |-> router.ip, port |-> p], {p}, 0>> \/ t = <<None, {}, 1>> \/ t = <<None, {p}, 1>>
    BY Zenon  DEF MapTCPExact
<1> QED BY <1>1, <1>2, <1>3, <1>4, NoneApart

\* EnsureFresh keeps the mapping it was given or maps anew because its entry is gone.
LEMMA EnsureFreshResult ==
    ASSUME ReachTypes, NEW m \in Mapping, NEW r \in EnsureFresh(m)
    PROVE  /\ r[1] \in {None} \cup Mapping /\ r[2] \in BOOLEAN /\ r[3] \subseteq 1 .. 3 /\ r[4] \in Nat
           /\ r[1] # None /\ ~r[2] => r[1] = m
           /\ r[4] = 0 => /\ r[1] # None
                          /\ \/ r[3] = {} /\ r[1].port = m.port
                             \/ r[3] = {r[1].port} /\ <<"udp", m.port>> \notin router.maps
<1>0. router.ip \in {1, 2}
    BY Zenon  DEF ReachTypes
<1>1. CASE r = <<None, FALSE, {}, 1, TRUE>>
    BY <1>1
<1>2. CASE r = <<m, FALSE, {}, 1, FALSE>>
    BY <1>2
<1>3. CASE r = <<[m EXCEPT !.ip = router.ip], router.ip # m.ip, {}, 0, FALSE>>
  <2>1. r[1] = [m EXCEPT !.ip = router.ip] /\ r[2] = (router.ip # m.ip) /\ r[3] = {} /\ r[4] = 0
    BY <1>3, Zenon
  <2>2. r[1] \in Mapping /\ r[1].port = m.port /\ (router.ip = m.ip => r[1] = m)
    BY <1>0, <2>1, Zenon DEF Mapping
  <2>3. r[2] \in BOOLEAN /\ (~r[2] => router.ip = m.ip)
    BY <2>1, Zenon
  <2>4. r[4] \in Nat /\ r[3] \subseteq 1 .. 3
    BY <2>1
  <2> QED BY <2>1, <2>2, <2>3, <2>4, NoneApart, Zenon
<1>4. ASSUME NEW u \in MapUDP, r = <<u[1], u[1] # None, u[2], u[3], FALSE>>,
             <<"udp", m.port>> \notin router.maps
      PROVE  /\ r[1] \in {None} \cup Mapping /\ r[2] \in BOOLEAN /\ r[3] \subseteq 1 .. 3 /\ r[4] \in Nat
             /\ r[1] # None => r[2]
             /\ r[4] = 0 => r[1] # None /\ r[3] = {r[1].port}
  <2>1. r[1] = u[1] /\ r[2] = (u[1] # None) /\ r[3] = u[2] /\ r[4] = u[3]
    BY <1>4, Zenon
  <2> QED BY <2>1, MapUDPResult, Zenon
<1>5. \/ r = <<None, FALSE, {}, 1, TRUE>>
      \/ r = <<[m EXCEPT !.ip = router.ip], router.ip # m.ip, {}, 0, FALSE>>
      \/ r = <<m, FALSE, {}, 1, FALSE>>
      \/ /\ <<"udp", m.port>> \notin router.maps
         /\ \E u \in MapUDP : r = <<u[1], u[1] # None, u[2], u[3], FALSE>>
    BY Zenon   DEF EnsureFresh
<1> QED BY <1>1, <1>2, <1>3, <1>4, <1>5, Zenon

\* Every rung of the ladder, every step of a renewal, every change of the
\* router and the shutdown keep the invariant.
LEMMA ReachStep == ReachInv /\ [ReachNext]_reachVars => ReachInv'
<1> SUFFICES ASSUME ReachInv, [ReachNext]_reachVars PROVE ReachInv'
    BY Zenon
<1> USE DEF ReachInv
<1>1. CASE MapAtStart
  <2>1. PICK u \in MapUDP :
          /\ routerSlips + u[3] <= MaxRouterSlips
          /\ udp' = u[1]
          /\ IF u[1] = None
             THEN /\ tcp' = None /\ routerSlips' = routerSlips + u[3]
                  /\ router' = [router EXCEPT !.maps = Mapped("udp", u[2])]
             ELSE \E t \in MapTCPExact(u[1].port) :
                  /\ routerSlips + u[3] + t[3] <= MaxRouterSlips
                  /\ routerSlips' = routerSlips + u[3] + t[3]
                  /\ tcp' = t[1]
                  /\ router' = [router EXCEPT !.maps =
                                   Mapped("udp", u[2]) \cup {<<"tcp", p>> : p \in t[2]}]
          /\ advertised' = IF u[1] = None THEN None ELSE PublicAddr(u[1])
    BY <1>1, Zenon DEF MapAtStart
  <2>2. /\ u[1] \in {None} \cup Mapping /\ u[2] \subseteq 1 .. 3 /\ u[3] \in Nat
        /\ u[3] = 0 => u[1] # None /\ u[2] = {u[1].port}
    BY MapUDPResult, Zenon
  <2>3. bootStage = "boot" /\ router.maps = {} /\ renewal.at = "idle"
    BY <1>1, Zenon DEF MapAtStart, LadderInv, RenewalInv
  <2>4. /\ UNCHANGED <<ladder, renewal, hostMon, stunMon>> /\ bootStage' = "node" /\ ladder.adv = "none"
        /\ ~stunMon /\ hostMon = None
    BY <1>1, <2>3, Zenon DEF MapAtStart, LadderInv
  <2>5. /\ router' \in [ip : {1, 2}, maps : SUBSET Entry, taken : SUBSET Entry]
        /\ tcp' \in {None} \cup Mapping /\ routerSlips' \in Nat
        /\ routerSlips' = 0 => /\ udp' # None /\ tcp' # None
                               /\ \A p \in 1 .. 3 : <<"udp", p>> \in router'.maps => udp'.port = p
                               /\ \A p \in 1 .. 3 : <<"tcp", p>> \in router'.maps => tcp'.port = p
    <3>1. CASE u[1] = None
      <4>1. tcp' = None /\ routerSlips' = routerSlips + u[3] /\ router' = [router EXCEPT !.maps = Mapped("udp", u[2])]
        BY <2>1, <3>1, Zenon
      <4>2. Mapped("udp", u[2]) \subseteq Entry
        BY <2>2, <2>3 DEF Mapped, Entry
      <4>3. routerSlips' \in Nat /\ routerSlips' # 0
        BY <2>2, <3>1, <4>1 DEF ReachTypes
      <4> QED BY <4>1, <4>2, <4>3, Zenon DEF ReachTypes
    <3>2. CASE u[1] # None
      <4>0. u[1].port \in 1 .. 3
        BY <2>2, <3>2, Zenon DEF Mapping
      <4>1. PICK t \in MapTCPExact(u[1].port) :
                  /\ routerSlips + u[3] + t[3] <= MaxRouterSlips
                  /\ routerSlips' = routerSlips + u[3] + t[3]
                  /\ tcp' = t[1]
                  /\ router' = [router EXCEPT !.maps =
                                   Mapped("udp", u[2]) \cup {<<"tcp", p>> : p \in t[2]}]
        BY <2>1, <3>2, Zenon
      <4>2. /\ t[1] \in {None} \cup Mapping /\ t[2] \subseteq {u[1].port} /\ t[3] \in Nat
            /\ t[1] # None => t[1].port = u[1].port
            /\ t[3] = 0 => t[1] # None
        BY <4>0, MapTCPResult, Zenon
      <4> DEFINE M == Mapped("udp", u[2]) \cup {<<"tcp", p>> : p \in t[2]}
      <4>3. /\ M \subseteq Entry
            /\ \A p \in 1 .. 3 : <<"udp", p>> \in M => p \in u[2]
            /\ \A p \in 1 .. 3 : <<"tcp", p>> \in M => p \in t[2]
        BY <2>2, <2>3, <4>0, <4>2 DEF Mapped, Entry
      <4>4. routerSlips' \in Nat /\ (routerSlips' = 0 => u[3] = 0 /\ t[3] = 0)
        BY <2>2, <4>1, <4>2 DEF ReachTypes
      <4>5. router' = [router EXCEPT !.maps = M]
        BY <4>1, Zenon
      <4>6. router'.maps = M /\ router' \in [ip : {1, 2}, maps : SUBSET Entry, taken : SUBSET Entry]
        BY <4>3, <4>5, Zenon DEF ReachTypes
      <4> HIDE DEF M
      <4> QED BY <2>1, <2>2, <4>1, <4>2, <4>3, <4>4, <4>6, Zenon
    <3> QED BY <3>1, <3>2, Zenon
  <2>6. ReachTypes'
    BY <2>1, <2>2, <2>4, <2>5, Zenon DEF ReachTypes
  <2>7. RenewalInv'
    BY <2>3, <2>4, Zenon DEF RenewalInv
  <2>8. LadderInv'
    BY <2>4, Zenon DEF LadderInv
  <2>9. EntryInv'
    BY <2>3, <2>4, <2>5, Zenon DEF EntryInv, NextUdp
  <2>10. AddressInv'
    BY <2>1, Zenon DEF AddressInv, PublicAddr
  <2> QED BY <2>6, <2>7, <2>8, <2>9, <2>10, Zenon
<1>2. CASE NoMapping
  <2>1. bootStage' = "node" /\ bootStage = "boot"
        /\ UNCHANGED <<ladder, router, routerSlips, advertised, udp, tcp, renewal, hostMon, stunMon>>
    BY <1>2, Zenon DEF NoMapping
  <2> QED BY <2>1, Zenon DEF ReachTypes, RenewalInv, LadderInv, EntryInv, NextUdp, AddressInv, PublicAddr
<1>3. CASE Start
  <2>1. /\ bootStage' = "up" /\ bootStage = "node"
        /\ UNCHANGED <<ladder, router, routerSlips, udp, tcp, renewal>>
    BY <1>3, Zenon DEF Start
  <2>2. PICK a \in Validated, granted \in BOOLEAN :
          advertised' = IF ladder.relay /\ a = None /\ granted THEN RelayAddr ELSE a
    BY <1>3, Zenon DEF Start
  <2>3. stunMon' = (ladder.stun /\ advertised' = None) /\ (hostMon' # None => ladder.adv = "host")
    BY <1>3, Zenon DEF Start, StunWanted, Watched
  <2>4. ASSUME udp # None PROVE advertised' = advertised /\ advertised # None
    <3>1. ladder.adv = "none" /\ udp \in Mapping /\ advertised = PublicAddr(udp)
      BY <2>4, Zenon DEF LadderInv, ReachTypes, AddressInv
    <3>2. a = advertised
      BY <3>1, Zenon DEF Validated
    <3> QED BY <2>2, <3>1, <3>2, NoneApart, Zenon
  <2>5. ladder.adv = "literal" => advertised' # None
    BY <2>2, NoneApart, Zenon DEF Validated
  <2>6. LadderInv'
    BY <2>1, <2>3, <2>4, <2>5, Zenon DEF LadderInv
  <2>7. AddressInv'
    BY <2>1, <2>4, Zenon DEF AddressInv, PublicAddr
  <2>8. ReachTypes' /\ RenewalInv' /\ EntryInv'
    BY <2>1 DEF ReachTypes, RenewalInv, EntryInv, NextUdp
  <2> QED BY <2>6, <2>7, <2>8, Zenon
<1>4. CASE RenewWake
  <2>1. /\ bootStage = "up" /\ renewal.at = "idle" /\ udp # None
        /\ UNCHANGED <<ladder, bootStage, router, routerSlips, advertised, udp, tcp, hostMon, stunMon>>
    BY <1>4, Zenon DEF RenewWake
  <2>2. renewal' = [at |-> "udp", m |-> udp, tm |-> tcp, nm |-> None, changed |-> FALSE]
    BY <1>4, Zenon DEF RenewWake, Asleep
  <2>3. ReachTypes'
    BY <2>1, <2>2, Zenon DEF ReachTypes, Renewals
  <2>4. RenewalInv' /\ LadderInv' /\ EntryInv' /\ AddressInv'
    BY <2>1, <2>2, Zenon DEF RenewalInv, LadderInv, EntryInv, NextUdp, AddressInv, PublicAddr
  <2> QED BY <2>3, <2>4, Zenon
<1>5. CASE RenewUdp
  <2>0. renewal.m = udp /\ udp \in Mapping /\ renewal.at = "udp" /\ renewal \in Renewals
    BY <1>5, Zenon DEF RenewUdp, RenewalInv, ReachTypes
  <2>1. PICK r \in EnsureFresh(udp) :
          /\ routerSlips' = routerSlips + r[4]
          /\ router' = [router EXCEPT !.maps = Mapped("udp", r[3])]
          /\ renewal' = [renewal EXCEPT !.at = "tcp", !.nm = r[1], !.changed = r[2]]
    BY <1>5, <2>0, Zenon DEF RenewUdp
  <2>2. /\ r[1] \in {None} \cup Mapping /\ r[2] \in BOOLEAN /\ r[3] \subseteq 1 .. 3 /\ r[4] \in Nat
        /\ r[1] # None /\ ~r[2] => r[1] = udp
        /\ r[4] = 0 => /\ r[1] # None
                       /\ \/ r[3] = {} /\ r[1].port = udp.port
                          \/ r[3] = {r[1].port} /\ <<"udp", udp.port>> \notin router.maps
    BY <2>0, EnsureFreshResult, Zenon
  <2>3. UNCHANGED <<ladder, bootStage, advertised, udp, tcp, hostMon, stunMon>>
    BY <1>5, Zenon DEF RenewUdp
  <2>4. /\ renewal' \in Renewals /\ renewal'.at = "tcp" /\ renewal'.m = udp /\ renewal'.tm = renewal.tm
        /\ renewal'.nm = r[1] /\ renewal'.changed = r[2]
    BY <2>0, <2>1, <2>2, Zenon DEF Renewals
  <2> DEFINE M == Mapped("udp", r[3])
  <2>5. /\ M \subseteq Entry
        /\ \A p \in 1 .. 3 : <<"udp", p>> \in M => <<"udp", p>> \in router.maps \/ p \in r[3]
        /\ \A p \in 1 .. 3 : <<"tcp", p>> \in M => <<"tcp", p>> \in router.maps
    BY <2>2 DEF Mapped, Entry, ReachTypes
  <2>6. router'.maps = M /\ router' \in [ip : {1, 2}, maps : SUBSET Entry, taken : SUBSET Entry]
    BY <2>1, <2>5, Zenon DEF ReachTypes
  <2> HIDE DEF M
  <2>7. routerSlips' \in Nat /\ (routerSlips' = 0 => routerSlips = 0 /\ r[4] = 0)
    BY <2>1, <2>2 DEF ReachTypes
  <2>8. ReachTypes'
    BY <2>3, <2>4, <2>6, <2>7, Zenon DEF ReachTypes
  <2>9. bootStage \notin {"boot", "node", "down"}
    BY <2>0, Zenon DEF RenewalInv
  <2>10. RenewalInv'
    BY <2>0, <2>2, <2>3, <2>4, <2>9, NoneApart, Zenon DEF RenewalInv
  <2>11. LadderInv' /\ AddressInv'
    BY <2>3, <2>9, Zenon DEF LadderInv, AddressInv, PublicAddr
  <2>12. EntryInv'
    <3> SUFFICES ASSUME routerSlips' = 0
                 PROVE  /\ r[1] # None
                        /\ \A p \in 1 .. 3 : <<"udp", p>> \in M => r[1].port = p
                        /\ \A p \in 1 .. 3 : <<"tcp", p>> \in M => tcp # None /\ tcp.port = p
        BY <2>3, <2>4, <2>6, <2>9, Zenon DEF EntryInv, NextUdp
    <3>1. \A p \in 1 .. 3 : <<"udp", p>> \in router.maps => udp.port = p
      BY <2>0, <2>7, Zenon DEF EntryInv, NextUdp
    <3>2. \A p \in 1 .. 3 : <<"tcp", p>> \in router.maps => tcp # None /\ tcp.port = p
      BY <2>7, Zenon DEF EntryInv
    <3> QED BY <2>2, <2>5, <2>7, <3>1, <3>2, Zenon
  <2> QED BY <2>8, <2>10, <2>11, <2>12, Zenon
<1>6. CASE RenewTcp
  <2>0. renewal.m = udp /\ udp # None /\ renewal.tm = tcp /\ renewal.at = "tcp" /\ renewal \in Renewals
        /\ bootStage \notin {"boot", "node", "down"}
    BY <1>6, Zenon DEF RenewTcp, RenewalInv, ReachTypes
  <2>1. /\ UNCHANGED <<ladder, bootStage, advertised, udp, hostMon, stunMon>>
        /\ renewal' = [renewal EXCEPT !.at = "commit"]
    BY <1>6, Zenon DEF RenewTcp
  <2>2. /\ renewal' \in Renewals /\ renewal'.at = "commit" /\ renewal'.m = udp
        /\ renewal'.nm = renewal.nm /\ renewal'.changed = renewal.changed
    BY <2>0, <2>1, Zenon DEF Renewals
  <2>3. /\ router' \in [ip : {1, 2}, maps : SUBSET Entry, taken : SUBSET Entry] /\ routerSlips' \in Nat
        /\ routerSlips' = 0 => routerSlips = 0
        /\ tcp' \in {None} \cup Mapping
        /\ \A p \in 1 .. 3 : <<"udp", p>> \in router'.maps => <<"udp", p>> \in router.maps
        /\ \A p \in 1 .. 3 : <<"tcp", p>> \in router'.maps =>
              <<"tcp", p>> \in router.maps \/ (tcp # None /\ tcp.port = p)
        /\ tcp # None => tcp' # None /\ tcp'.port = tcp.port
    <3>1. CASE tcp = None
      BY <1>6, <2>0, <3>1, Zenon DEF RenewTcp, ReachTypes
    <3>2. CASE tcp # None
      <4>0. tcp \in Mapping /\ tcp.port \in 1 .. 3
        BY <3>2, Zenon DEF ReachTypes, Mapping
      <4>1. CASE routerSlips' = routerSlips + 1 /\ UNCHANGED <<router, tcp>>
        BY <3>2, <4>1 DEF ReachTypes
      <4>2. CASE tcp' = [tcp EXCEPT !.ip = router.ip] /\ UNCHANGED <<router, routerSlips>>
        <5>1. tcp' \in Mapping /\ tcp'.port = tcp.port
          BY <4>0, <4>2, Zenon DEF ReachTypes, Mapping
        <5> QED BY <4>2, <5>1, NoneApart, Zenon DEF ReachTypes
      <4>3. ASSUME NEW t \in MapTCPExact(tcp.port), routerSlips' = routerSlips + t[3],
                   tcp' = IF t[1] = None THEN tcp ELSE t[1],
                   router' = [router EXCEPT !.maps = Mapped("tcp", t[2])]
            PROVE
          /\ router' \in [ip : {1, 2}, maps : SUBSET Entry, taken : SUBSET Entry] /\ routerSlips' \in Nat
          /\ routerSlips' = 0 => routerSlips = 0
          /\ tcp' \in {None} \cup Mapping
          /\ \A p \in 1 .. 3 : <<"udp", p>> \in router'.maps => <<"udp", p>> \in router.maps
          /\ \A p \in 1 .. 3 : <<"tcp", p>> \in router'.maps =>
             <<"tcp", p>> \in router.maps \/ (tcp # None /\ tcp.port = p)
          /\ tcp # None => tcp' # None /\ tcp'.port = tcp.port
        <5>1. /\ t[1] \in {None} \cup Mapping /\ t[2] \subseteq {tcp.port} /\ t[3] \in Nat
              /\ t[1] # None => t[1].port = tcp.port
          BY <4>0, MapTCPResult, Zenon
        <5> DEFINE M == Mapped("tcp", t[2])
        <5>2. /\ M \subseteq Entry
              /\ \A p \in 1 .. 3 : <<"udp", p>> \in M => <<"udp", p>> \in router.maps
              /\ \A p \in 1 .. 3 : <<"tcp", p>> \in M => <<"tcp", p>> \in router.maps \/ p = tcp.port
          BY <4>0, <5>1 DEF Mapped, Entry, ReachTypes
        <5>3. router'.maps = M /\ router' \in [ip : {1, 2}, maps : SUBSET Entry, taken : SUBSET Entry]
          BY <4>3, <5>2, Zenon DEF ReachTypes
        <5> HIDE DEF M
        <5>4. routerSlips' \in Nat /\ (routerSlips' = 0 => routerSlips = 0)
          BY <4>3, <5>1 DEF ReachTypes
        <5> QED BY <3>2, <4>0, <4>3, <5>1, <5>2, <5>3, <5>4, Zenon
      <4> QED BY <1>6, <2>0, <3>2, <4>1, <4>2, <4>3, Zenon DEF RenewTcp
    <3> QED BY <3>1, <3>2, Zenon
  <2>4. ReachTypes'
    BY <2>1, <2>2, <2>3, Zenon DEF ReachTypes
  <2>5. RenewalInv'
    BY <2>0, <2>1, <2>2, Zenon DEF RenewalInv
  <2>6. LadderInv' /\ AddressInv'
    BY <2>0, <2>1, Zenon DEF LadderInv, AddressInv, PublicAddr
  <2>7. EntryInv'
    BY <2>0, <2>1, <2>2, <2>3, Zenon DEF EntryInv, NextUdp
  <2> QED BY <2>4, <2>5, <2>6, <2>7, Zenon
<1>7. CASE RenewCommit
  <2>0. renewal.m = udp /\ udp # None /\ renewal.at = "commit" /\ renewal \in Renewals
        /\ bootStage \notin {"boot", "node", "down"}
    BY <1>7, Zenon DEF RenewCommit, RenewalInv, ReachTypes
  <2>1. /\ UNCHANGED <<ladder, bootStage, router, routerSlips, tcp, hostMon, stunMon>>
        /\ renewal' = Asleep
        /\ udp' = IF renewal.nm = None THEN udp ELSE renewal.nm
        /\ advertised' = IF renewal.nm # None /\ renewal.changed THEN PublicAddr(renewal.nm) ELSE advertised
    BY <1>7, Zenon DEF RenewCommit
  <2>2. /\ Asleep \in Renewals /\ Asleep.at = "idle" /\ renewal.nm \in {None} \cup Mapping
        /\ renewal.changed \in BOOLEAN
    BY <2>0, Zenon DEF Asleep, Renewals
  <2>3. ReachTypes'
    BY <2>1, <2>2, Zenon DEF ReachTypes
  <2>4. udp' # None /\ (routerSlips = 0 => udp' = renewal.nm)
    BY <2>0, <2>1, Zenon DEF EntryInv
  <2>5. RenewalInv' /\ LadderInv'
    BY <2>0, <2>1, <2>2, <2>4, Zenon DEF RenewalInv, LadderInv
  <2>6. EntryInv'
    BY <2>0, <2>1, <2>2, <2>4, Zenon DEF EntryInv, NextUdp
  <2>7. AddressInv'
    <3>1. CASE renewal.nm # None /\ renewal.changed
      BY <2>1, <3>1, Zenon DEF AddressInv, PublicAddr
    <3>2. CASE renewal.nm # None /\ ~renewal.changed
      BY <2>0, <2>1, <3>2, Zenon DEF AddressInv, RenewalInv, PublicAddr
    <3>3. CASE renewal.nm = None
      BY <2>0, <2>1, <3>3, Zenon DEF AddressInv, PublicAddr
    <3> QED BY <3>1, <3>2, <3>3, Zenon
  <2> QED BY <2>3, <2>5, <2>6, <2>7, Zenon
<1>8. CASE StunRefresh
  <2>1. UNCHANGED <<ladder, bootStage, router, routerSlips, udp, tcp, renewal, hostMon, stunMon>> /\ udp = None
    BY <1>8, Zenon DEF StunRefresh, LadderInv
  <2> QED BY <2>1, SMTT(60) DEF ReachTypes, RenewalInv, LadderInv, EntryInv, NextUdp, AddressInv
<1>9. CASE HostRefresh
  <2>1. /\ UNCHANGED <<ladder, bootStage, router, routerSlips, udp, tcp, renewal, stunMon>>
        /\ udp = None /\ ladder.adv = "host" /\ bootStage = "up"
    BY <1>9, Zenon DEF HostRefresh, LadderInv
  <2> QED BY <2>1, Zenon DEF ReachTypes, RenewalInv, LadderInv, EntryInv, NextUdp, AddressInv
<1>10. CASE Shutdown
  <2>1. /\ UNCHANGED <<ladder, router, routerSlips, advertised, udp, tcp, renewal, hostMon, stunMon>>
        /\ bootStage' = "closing"
    BY <1>10, Zenon DEF Shutdown
  <2> QED BY <2>1 DEF ReachTypes, RenewalInv, LadderInv, EntryInv, NextUdp, AddressInv, PublicAddr
<1>11. CASE ReleaseMapping
  <2>1. /\ UNCHANGED <<ladder, routerSlips, advertised, udp, tcp, renewal, hostMon, stunMon>>
        /\ bootStage' = IF renewal.at = "idle" THEN "down" ELSE "raced"
        /\ router' = [router EXCEPT !.maps = @ \ Withdrawn]
    BY <1>11, Zenon DEF ReleaseMapping
  <2>2. /\ router' \in [ip : {1, 2}, maps : SUBSET Entry, taken : SUBSET Entry]
        /\ router'.maps = router.maps \ Withdrawn
    BY <2>1, Zenon DEF ReachTypes
  <2>3. ASSUME routerSlips = 0, renewal.at = "idle" PROVE router'.maps = {}
    <3>1. ASSUME NEW p \in 1 .. 3, <<"udp", p>> \in router.maps PROVE <<"udp", p>> \in Withdrawn
      BY <2>3, <3>1, Zenon DEF EntryInv, NextUdp, Withdrawn, MappingHeld
    <3>2. ASSUME NEW p \in 1 .. 3, <<"tcp", p>> \in router.maps PROVE <<"tcp", p>> \in Withdrawn
      BY <2>3, <3>2, Zenon DEF EntryInv, Withdrawn, MappingHeld
    <3>3. \A e \in router.maps : \E p \in 1 .. 3 : e = <<"udp", p>> \/ e = <<"tcp", p>>
      BY DEF ReachTypes, Entry
    <3> QED BY <2>2, <3>1, <3>2, <3>3, SMTT(60)
  <2>4. ReachTypes' /\ RenewalInv' /\ LadderInv' /\ AddressInv'
    BY <2>1, <2>2, Zenon DEF ReachTypes, RenewalInv, LadderInv, AddressInv, PublicAddr
  <2>5. EntryInv'
    BY <2>1, <2>2, <2>3, Zenon DEF EntryInv, NextUdp
  <2> QED BY <2>4, <2>5, Zenon
<1>12. CASE RouterEvent
  <2>1. UNCHANGED <<ladder, bootStage, routerSlips, advertised, udp, tcp, renewal, hostMon, stunMon>>
        /\ bootStage # "boot"
    BY <1>12, Zenon DEF RouterEvent
  <2>2. /\ router' \in [ip : {1, 2}, maps : SUBSET Entry, taken : SUBSET Entry]
        /\ router'.maps \subseteq router.maps
    BY <1>12, Zenon DEF RouterEvent, ReachTypes, Ips
  <2>3. EntryInv'
    BY <2>1, <2>2, Zenon DEF EntryInv, NextUdp
  <2>4. ReachTypes' /\ RenewalInv' /\ LadderInv' /\ AddressInv'
    BY <2>1, <2>2, SMTT(60) DEF ReachTypes, RenewalInv, LadderInv, AddressInv, PublicAddr
  <2> QED BY <2>3, <2>4, Zenon
<1>13. CASE UNCHANGED reachVars
  BY <1>13 DEF reachVars, ReachTypes, RenewalInv, LadderInv, EntryInv, NextUdp, AddressInv, PublicAddr
<1> QED BY <1>1, <1>2, <1>3, <1>4, <1>5, <1>6, <1>7, <1>8, <1>9, <1>10, <1>11, <1>12, <1>13, Zenon DEF ReachNext

\* The daemon leaves nothing on the gateway that it does not know of, and
\* nothing at all once it is down (MapUDP, MapTCPExact, ensureFresh and the
\* release at shutdown), as long as no call to the gateway failed and no
\* renewal was under way while it released its mappings; for every interleaving
\* of renewals, address changes and the shutdown.
THEOREM MappingsAreHeld == ReachSpec => []MappedIsHeld
<1>1. ReachInv => MappedIsHeld
  <2> SUFFICES ASSUME ReachInv, routerSlips = 0, renewal.at = "idle", bootStage # "down"
               PROVE  router.maps \subseteq MappingHeld
      BY Zenon  DEF MappedIsHeld, ReachInv, EntryInv
  <2>1. ASSUME NEW p \in 1 .. 3, <<"udp", p>> \in router.maps PROVE <<"udp", p>> \in MappingHeld
    BY <2>1, Zenon DEF ReachInv, EntryInv, NextUdp, MappingHeld
  <2>2. ASSUME NEW p \in 1 .. 3, <<"tcp", p>> \in router.maps PROVE <<"tcp", p>> \in MappingHeld
    BY <2>2, Zenon DEF ReachInv, EntryInv, MappingHeld
  <2>3. \A e \in router.maps : \E p \in 1 .. 3 : e = <<"udp", p>> \/ e = <<"tcp", p>>
    BY DEF ReachInv, ReachTypes, Entry
  <2> QED BY <2>1, <2>2, <2>3, Zenon
<1> QED BY <1>1, ReachInitial, ReachStep, PTL DEF ReachSpec

\* Between renewals the advertised address is the one of the mapping the daemon
\* holds (main.go's renewal updates the two in different places).
THEOREM MappedIsAdvertised == ReachSpec => []AdvertisedIsMapped
<1>1. ReachInv => AdvertisedIsMapped
    BY Zenon  DEF AdvertisedIsMapped, ReachInv, AddressInv
<1> QED BY <1>1, ReachInitial, ReachStep, PTL DEF ReachSpec

\* An explicit address is operator policy: once the daemon is up no monitor and
\* no renewal ever replaces it.
THEOREM ExplicitAddressStands == ReachSpec => ExplicitStands
<1>1. ReachInv /\ [ReachNext]_reachVars => ExplicitKept
  <2> SUFFICES ASSUME ReachInv, [ReachNext]_reachVars, bootStage = "up", ladder.adv = "literal"
               PROVE  advertised' = advertised
      BY Zenon  DEF ExplicitKept
  <2>1. udp = None /\ hostMon = None /\ ~stunMon /\ renewal.at = "idle"
      BY Zenon  DEF ReachInv, LadderInv, RenewalInv
  <2> QED BY <2>1, Zenon DEF ReachNext, MapAtStart, NoMapping, Start, RenewWake, RenewUdp, RenewTcp, RenewCommit,
              StunRefresh, HostRefresh, Shutdown, ReleaseMapping, RouterEvent, reachVars
<1> QED BY <1>1, ReachInitial, ReachStep, PTL DEF ReachSpec, ExplicitStands

-----------------------------------------------------------------------------
(***************************************************************************)
(* The relay.                                                              *)
(***************************************************************************)

\* Relay sockets: the client one was opened for, and its number.
Sockets == TurnClient \X Nat
\* An allocation in the server's table.
Allocation == [relay : Sockets, left : Int, perms : SUBSET ({None} \cup Remote)]
\* A request or a reply on the wire.
Datagram == [c : TurnClient, m : Method, kind : {"request", "ok", "error"}, live : BOOLEAN,
             relay : {None} \cup Sockets, peer : {None} \cup Remote]
\* A request the server is handling.
Handling == [at : Method, of : Datagram, a : {None} \cup Sockets]

\* Types of the table, the counters, the wire and the handler.
TurnTypes ==
    /\ allocs \in [TurnClient -> {None} \cup Allocation]
    /\ perIP \in [Ip -> Nat]
    /\ wire \subseteq Datagram
    /\ serve = NotServing \/ serve \in Handling

\* A relayed socket carries the client it was opened for, and the allocation a
\* release has looked up is still its client's, or its client has none.
OwnerInv ==
    /\ \A c \in TurnClient : allocs[c] # None => allocs[c].relay[1] = c
    /\ serve.at = "release" =>
          /\ serve.a[1] = serve.of.c
          /\ allocs[serve.of.c] # None => allocs[serve.of.c].relay = serve.a

\* The inductive invariant.
TurnInv == TurnTypes /\ OwnerInv /\ NothingIsLost

\* The idle handler handles nothing.
LEMMA MethodsNotIdle == "idle" \notin Method /\ NotServing \notin Handling
BY Zenon  DEF Method, Handling, NotServing

\* No allocation is the absent one.
LEMMA AllocationApart == None \notin Allocation
BY TurnAssumption, Zenon DEF Allocation, Sockets

\* The allocations of an address are finitely many.
LEMMA LiveFinite == \A i : IsFiniteSet(LiveOf(i)) /\ Cardinality(LiveOf(i)) \in Nat
<1>1. \A i : LiveOf(i) \subseteq TurnClient
    BY Zenon  DEF LiveOf
<1> QED BY <1>1, TurnAssumption, FS_Subset, FS_CardinalityType, Zenon

\* At the start nothing is allocated.
LEMMA TurnInitial == TurnInit => TurnInv
<1> SUFFICES ASSUME TurnInit PROVE TurnInv
    BY Zenon
<1>1. TurnTypes
    BY Zenon  DEF TurnInit, TurnTypes
<1>2. OwnerInv
    BY Zenon  DEF TurnInit, OwnerInv, NotServing
<1>3. NoSocketIsLost
    BY Zenon  DEF TurnInit, NoSocketIsLost
<1>4. NoSlotIsLost
    BY LiveFinite DEF TurnInit, NoSlotIsLost
<1> QED BY <1>1, <1>2, <1>3, <1>4, Zenon DEF TurnInv, NothingIsLost

\* What a client does, and what it puts on the wire, leaves the server's tables
\* alone; at most it withdraws its interest in the request being handled.
LEMMA ClientSteps ==
    ASSUME TurnInv, UNCHANGED <<allocs, open, perIP>>, wire' \subseteq Datagram,
           serve' = serve \/ (serve \in Handling /\ serve' = [serve EXCEPT !.of.live = FALSE])
    PROVE  TurnInv'
<1>1. /\ serve' = NotServing \/ serve' \in Handling
      /\ serve'.at = serve.at
      /\ serve.at = "release" => serve'.a = serve.a /\ serve'.of.c = serve.of.c
  <2>1. CASE serve' = serve
    BY <2>1, Zenon DEF TurnInv, TurnTypes
  <2>2. CASE serve \in Handling /\ serve' = [serve EXCEPT !.of.live = FALSE]
    <3> DEFINE q == [serve.of EXCEPT !.live = FALSE]
    <3>1. q \in Datagram /\ q.c = serve.of.c
      BY <2>2, Zenon DEF Handling, Datagram
    <3>2. serve' = [serve EXCEPT !.of = q]
      BY <2>2, Zenon DEF Handling
    <3> HIDE DEF q
    <3>3. serve' = [at |-> serve.at, of |-> q, a |-> serve.a] /\ serve.at \in Method /\ serve.a \in {None} \cup Sockets
      BY <2>2, <3>2, Zenon DEF Handling
    <3> QED BY <3>1, <3>3, Zenon DEF Handling
  <2> QED BY <2>1, <2>2, Zenon
<1>2. TurnTypes'
    BY <1>1, Zenon DEF TurnInv, TurnTypes
<1>3. OwnerInv'
    BY <1>1, Zenon DEF TurnInv, OwnerInv
<1>4. NothingIsLost'
    BY Zenon  DEF TurnInv, NothingIsLost, NoSlotIsLost, NoSocketIsLost, LiveOf
<1> QED BY <1>2, <1>3, <1>4, Zenon DEF TurnInv

\* A request is a datagram.
LEMMA RequestTyped ==
    ASSUME NEW c \in TurnClient, NEW m \in Method, m # "permit" PROVE Request(c, m) \in Datagram
BY Zenon  DEF Request, Datagram

\* So is a reply.
LEMMA ReplyTyped ==
    ASSUME NEW q \in Datagram, NEW k \in {"ok", "error"}, NEW r \in {None} \cup Sockets
    PROVE  Reply(q, k, r) \subseteq Datagram
BY Zenon   DEF Reply, Datagram

\* Marking requests as overtaken keeps them datagrams.
LEMMA ForgottenTyped ==
    ASSUME NEW w \in SUBSET Datagram, NEW c, NEW gone
    PROVE  Forgotten(w, c, gone) \subseteq Datagram
BY ZenonT(60) DEF Forgotten, Datagram

\* A handler whose request was overtaken goes on with it.
LEMMA OrphanedShape ==
    ASSUME TurnTypes, NEW c, NEW gone
    PROVE  Orphaned(c, gone) = serve \/ (serve \in Handling /\ Orphaned(c, gone) = [serve EXCEPT !.of.live = FALSE])
BY DEF Orphaned, TurnTypes, NotServing

\* The slot of one client: taken, given back, or kept.
LEMMA SlotTaken ==
    ASSUME NEW c \in TurnClient, allocs \in [TurnClient -> {None} \cup Allocation],
           allocs[c] = None, NEW v, v # None, allocs' = [allocs EXCEPT ![c] = v]
    PROVE  /\ Cardinality(LiveOf(IpOf[c])') = Cardinality(LiveOf(IpOf[c])) + 1
           /\ \A i : i # IpOf[c] => LiveOf(i)' = LiveOf(i)
<1>1. LiveOf(IpOf[c])' = LiveOf(IpOf[c]) \cup {c} /\ c \notin LiveOf(IpOf[c])
    BY Zenon  DEF LiveOf
<1>2. \A i : i # IpOf[c] => LiveOf(i)' = LiveOf(i)
    BY Zenon  DEF LiveOf
<1> QED BY <1>1, <1>2, LiveFinite, FS_AddElement

\* An allocation removed makes one live allocation less, for its own address
\* only.
LEMMA SlotGivenBack ==
    ASSUME NEW c \in TurnClient, allocs \in [TurnClient -> {None} \cup Allocation],
           allocs[c] # None, allocs' = [allocs EXCEPT ![c] = None]
    PROVE  /\ Cardinality(LiveOf(IpOf[c])') = Cardinality(LiveOf(IpOf[c])) - 1
           /\ \A i : i # IpOf[c] => LiveOf(i)' = LiveOf(i)
<1>1. LiveOf(IpOf[c])' = LiveOf(IpOf[c]) \ {c} /\ c \in LiveOf(IpOf[c])
    BY Zenon  DEF LiveOf
<1>2. \A i : i # IpOf[c] => LiveOf(i)' = LiveOf(i)
    BY Zenon  DEF LiveOf
<1> QED BY <1>1, <1>2, LiveFinite, FS_RemoveElement, ZenonT(60)

\* What decrementing an address's counter does: it never drops below zero.
LEMMA DecTyped ==
    ASSUME NEW p \in [Ip -> Nat], NEW i \in Ip
    PROVE  /\ DecPerIP(p, i) \in [Ip -> Nat]
           /\ \A j \in Ip \ {i} : DecPerIP(p, i)[j] = p[j]
           /\ DecPerIP(p, i)[i] <= p[i] /\ (p[i] > 0 => DecPerIP(p, i)[i] = p[i] - 1)
           /\ \A n \in Nat : p[i] <= n + 1 => DecPerIP(p, i)[i] <= n
BY DEF DecPerIP

\* A client's allocation goes away, by release or by expiry.
LEMMA AllocationGoes ==
    ASSUME TurnInv, NEW c \in TurnClient, NEW r,
           allocs' = [allocs EXCEPT ![c] = None], perIP' = DecPerIP(perIP, IpOf[c]), open' = open \ {r},
           r[1] = c, allocs[c] # None => allocs[c].relay = r
    PROVE  NothingIsLost' /\ perIP' \in [Ip -> Nat]
<1> DEFINE i == IpOf[c]
<1>0. i \in Ip /\ perIP \in [Ip -> Nat] /\ allocs \in [TurnClient -> {None} \cup Allocation]
    BY TurnAssumption, Zenon DEF Ip, TurnInv, TurnTypes
<1>1. NoSocketIsLost'
  <2>1. \A d \in TurnClient \ {c} : allocs'[d] = allocs[d] /\ (allocs[d] # None => allocs[d].relay # r)
    BY <1>0, Zenon DEF TurnInv, OwnerInv
  <2>2. allocs'[c] = None
    BY <1>0, Zenon
  <2>3. open = {allocs[d].relay : d \in {e \in TurnClient : allocs[e] # None}}
    BY Zenon  DEF TurnInv, NothingIsLost, NoSocketIsLost
  <2>4. \A x : x \in open' <=> \E d \in TurnClient : allocs'[d] # None /\ x = allocs'[d].relay
    BY <2>1, <2>2, <2>3, SMTT(60)
  <2> QED BY <2>4, SMTT(60) DEF NoSocketIsLost
<1>2. perIP' \in [Ip -> Nat] /\ \A j \in Ip \ {i} : perIP'[j] = perIP[j]
    BY <1>0, DecTyped, SMTT(60)
<1>3. perIP[i] <= Cardinality(LiveOf(i)) /\ \A j \in Ip : perIP[j] <= Cardinality(LiveOf(j))
    BY <1>0, Zenon DEF TurnInv, NothingIsLost, NoSlotIsLost
<1>4. Cardinality(LiveOf(i)) \in Nat /\ Cardinality(LiveOf(i)') \in Nat
  <2>1. IsFiniteSet(LiveOf(i)') /\ LiveOf(i)' \subseteq TurnClient
    BY TurnAssumption, FS_Subset, Zenon DEF LiveOf
  <2> QED BY <2>1, LiveFinite, FS_CardinalityType, Zenon
<1>5. perIP'[i] <= Cardinality(LiveOf(i)') /\ \A j \in Ip \ {i} : LiveOf(j)' = LiveOf(j)
  <2>1. CASE allocs[c] # None
    <3>1. Cardinality(LiveOf(i)') = Cardinality(LiveOf(i)) - 1 /\ \A j \in Ip \ {i} : LiveOf(j)' = LiveOf(j)
      BY <1>0, <2>1, SlotGivenBack, Zenon
    <3>2. \A n \in Nat : perIP[i] <= n + 1 => perIP'[i] <= n
      BY <1>0, DecTyped, Zenon
    <3>3. perIP[i] <= Cardinality(LiveOf(i)') + 1
      BY <1>3, <1>4, <3>1, SMTT(60)
    <3> QED BY <1>4, <3>1, <3>2, <3>3, Zenon
  <2>2. CASE allocs[c] = None
    <3>1. allocs' = allocs
      BY <1>0, <2>2, Zenon
    <3>2. LiveOf(i)' = LiveOf(i) /\ \A j \in Ip \ {i} : LiveOf(j)' = LiveOf(j)
      BY <3>1, Zenon DEF LiveOf
    <3>3. perIP'[i] <= perIP[i] /\ perIP[i] \in Nat /\ perIP'[i] \in Nat
      BY <1>0, <1>2, DecTyped, Zenon
    <3> QED BY <1>3, <1>4, <3>2, <3>3, SMTT(60)
  <2> QED BY <2>1, <2>2, Zenon
<1>6. NoSlotIsLost'
    BY <1>2, <1>3, <1>5, Zenon DEF NoSlotIsLost
<1> QED BY <1>1, <1>2, <1>6, Zenon DEF NothingIsLost

\* An allocation is changed but stays in the table with its socket.
LEMMA AllocationKept ==
    ASSUME TurnInv, UNCHANGED <<open, perIP>>, allocs' \in [TurnClient -> {None} \cup Allocation],
           \A d \in TurnClient : /\ allocs'[d] = None <=> allocs[d] = None
                                 /\ allocs[d] # None => allocs'[d].relay = allocs[d].relay
    PROVE  NothingIsLost'
<1>1. \A i : LiveOf(i)' = LiveOf(i)
    BY Zenon  DEF LiveOf
<1>2. NoSlotIsLost'
    BY <1>1, Zenon DEF TurnInv, NothingIsLost, NoSlotIsLost
<1>3. open = {allocs[d].relay : d \in {e \in TurnClient : allocs[e] # None}}
    BY Zenon  DEF TurnInv, NothingIsLost, NoSocketIsLost
<1>4. \A x : x \in open' <=> \E d \in TurnClient : allocs'[d] # None /\ x = allocs'[d].relay
    BY <1>3, Zenon
<1>5. NoSocketIsLost'
    BY <1>4, SMTT(60) DEF NoSocketIsLost
<1> QED BY <1>2, <1>5, Zenon DEF NothingIsLost

\* A client's allocation comes into the table, its first or in the place of another.
LEMMA AllocationComes ==
    ASSUME TurnInv, NEW c \in TurnClient, NEW v \in Allocation, v.relay[1] = c,
           allocs' = [allocs EXCEPT ![c] = v], open' = (open \ Replaced(c)) \cup {v.relay},
           perIP' = [(IF allocs[c] = None THEN perIP ELSE DecPerIP(perIP, IpOf[c])) EXCEPT ![IpOf[c]] = @ + 1]
    PROVE  NothingIsLost' /\ perIP' \in [Ip -> Nat]
<1> DEFINE ip == IpOf[c]
           p == IF allocs[c] = None THEN perIP ELSE DecPerIP(perIP, ip)
<1>0. ip \in Ip
    BY TurnAssumption, Zenon DEF Ip
<1>1. perIP' = [p EXCEPT ![ip] = @ + 1]
    BY Zenon
<1>2. allocs \in [TurnClient -> {None} \cup Allocation] /\ perIP \in [Ip -> Nat]
    BY Zenon  DEF TurnInv, TurnTypes
<1>5. v # None
    BY AllocationApart, Zenon
<1>7. p \in [Ip -> Nat] /\ perIP' \in [Ip -> Nat]
    BY <1>0, <1>1, <1>2, DecTyped, SMTT(60)
<1>10. NoSocketIsLost'
  <2>1. open = {allocs[d].relay : d \in {e \in TurnClient : allocs[e] # None}}
    BY Zenon  DEF TurnInv, NothingIsLost, NoSocketIsLost
  <2>2. \A d \in TurnClient \ {c} : allocs'[d] = allocs[d] /\ (allocs[d] # None => allocs[d].relay[1] # c)
    BY <1>1, <1>2, Zenon DEF TurnInv, OwnerInv
  <2>3. allocs'[c] = v
    BY <1>0, <1>1, <1>2, Zenon
  <2>4. \A x \in Replaced(c) : x[1] = c
    BY <1>0, Zenon DEF Replaced, TurnInv, OwnerInv
  <2>5. allocs[c] # None => allocs[c].relay \in Replaced(c)
    BY Zenon  DEF Replaced
  <2>6. \A x : x \in open' <=> \E d \in TurnClient : allocs'[d] # None /\ x = allocs'[d].relay
    BY <1>0, <1>1, <1>5, <2>1, <2>2, <2>3, <2>4, <2>5, SMTT(60)
  <2> QED BY <2>6, SMTT(60) DEF NoSocketIsLost
<1>11. NoSlotIsLost'
  <2>1. \A j \in Ip : perIP[j] <= Cardinality(LiveOf(j)) /\ perIP[j] \in Nat /\ Cardinality(LiveOf(j)) \in Nat
    BY <1>2, LiveFinite, Zenon DEF TurnInv, NothingIsLost, NoSlotIsLost
  <2>2. \A j \in Ip \ {ip} : perIP'[j] = perIP[j]
    BY <1>0, <1>1, <1>2, <1>7, DecTyped, SMTT(60)
  <2>3. CASE allocs[c] = None
    <3>1. /\ Cardinality(LiveOf(ip)') = Cardinality(LiveOf(ip)) + 1
          /\ \A j \in Ip \ {ip} : LiveOf(j)' = LiveOf(j)
      BY <1>0, <1>1, <1>2, <1>5, <2>3, SlotTaken, Zenon
    <3>2. perIP'[ip] = perIP[ip] + 1
      BY <1>0, <1>1, <1>2, <2>3, Zenon
    <3>3. perIP'[ip] <= Cardinality(LiveOf(ip)')
      BY <1>0, <2>1, <3>1, <3>2, SMTT(60)
    <3> QED BY <2>1, <2>2, <3>1, <3>3, Zenon DEF NoSlotIsLost
  <2>4. CASE allocs[c] # None
    <3>1. \A j : LiveOf(j)' = LiveOf(j)
      BY <1>0, <1>1, <1>2, <1>5, <2>4, Zenon DEF LiveOf
    <3>2. perIP'[ip] = DecPerIP(perIP, ip)[ip] + 1
      BY <1>0, <1>1, <1>7, <2>4, Zenon
    <3>3. Cardinality(LiveOf(ip)) # 0
      <4>1. c \in LiveOf(ip)
        BY <1>0, <2>4, Zenon DEF LiveOf
      <4> QED BY <4>1, LiveFinite, FS_EmptySet, Zenon
    <3>4. \A n \in Nat : perIP[ip] <= n + 1 => DecPerIP(perIP, ip)[ip] <= n
      BY <1>0, <1>2, DecTyped, Zenon
    <3>5. DecPerIP(perIP, ip)[ip] \in Nat
      BY <1>0, <1>2, DecTyped, SMTT(60)
    <3>6. perIP'[ip] <= Cardinality(LiveOf(ip))
      <4>1. Cardinality(LiveOf(ip)) - 1 \in Nat /\ perIP[ip] <= (Cardinality(LiveOf(ip)) - 1) + 1
        BY <1>0, <2>1, <3>3, SMTT(60)
      <4>2. DecPerIP(perIP, ip)[ip] <= Cardinality(LiveOf(ip)) - 1
        BY <3>4, <4>1, Zenon
      <4> QED BY <1>0, <2>1, <3>2, <3>5, <4>2, SMTT(60)
    <3> QED BY <2>1, <2>2, <3>1, <3>6, Zenon DEF NoSlotIsLost
  <2> QED BY <2>3, <2>4, Zenon
<1> QED BY <1>7, <1>10, <1>11, Zenon DEF NothingIsLost

\* Allocating keeps the invariant: the check of the per-address limit, the
\* counter and the table.
LEMMA AllocateStep == ASSUME TurnInv, Allocate PROVE TurnInv'
<1> DEFINE q == serve.of
           c == q.c
           ip == IpOf[c]
           r == NextRelay(c)
<1>0. serve \in Handling /\ q \in Datagram /\ c \in TurnClient /\ ip \in Ip
    BY TurnAssumption, SMTT(60) DEF Allocate, TurnInv, TurnTypes, NotServing, Handling, Datagram, Ip
<1>1. serve' = NotServing /\ NotServing.at = "idle"
    BY Zenon  DEF Allocate, NotServing
<1>2. CASE UNCHANGED <<allocs, open, perIP>>
  <2>1. wire \subseteq Datagram /\ allocs \in [TurnClient -> {None} \cup Allocation]
    BY Zenon  DEF TurnInv, TurnTypes
  <2>2. r \in Sockets
    BY <1>0, <2>1, SMTT(60) DEF NextRelay, Allocation, Sockets
  <2>3. wire' = wire \/ wire' = wire \cup Reply(q, "error", None) \/ wire' = wire \cup Reply(q, "ok", r)
    BY Zenon  DEF Allocate
  <2>4. wire' \subseteq Datagram
    BY <1>0, <2>1, <2>2, <2>3, ReplyTyped, Zenon
  <2> QED BY <1>1, <1>2, <2>4, Zenon
       DEF TurnInv, TurnTypes, OwnerInv, NothingIsLost, NoSlotIsLost, NoSocketIsLost, LiveOf
<1>3. CASE ~UNCHANGED <<allocs, open, perIP>>
  <2> DEFINE v == [relay |-> r, left |-> Lifetime, perms |-> {}]
             p == IF allocs[c] = None THEN perIP ELSE DecPerIP(perIP, ip)
  <2>1. /\ open' = (open \ Replaced(c)) \cup {r}
        /\ perIP' = [p EXCEPT ![ip] = @ + 1]
        /\ allocs' = [allocs EXCEPT ![c] = v]
        /\ wire' = wire \cup Reply(q, "ok", r)
    BY <1>3, Zenon DEF Allocate
  <2>2. allocs \in [TurnClient -> {None} \cup Allocation] /\ perIP \in [Ip -> Nat] /\ wire \subseteq Datagram
    BY Zenon  DEF TurnInv, TurnTypes
  <2>3. r \in Sockets /\ r[1] = c
    BY <1>0, <2>2, SMTT(60) DEF NextRelay, Allocation, Sockets
  <2>4. v \in Allocation /\ v.relay = r
    BY <2>3, TurnAssumption, SMTT(60) DEF Allocation
  <2>5. v # None
    BY <2>4, AllocationApart, Zenon
  <2> HIDE DEF v, r
  <2>6. wire' \subseteq Datagram
    BY <1>0, <2>1, <2>2, <2>3, ReplyTyped, Zenon
  <2>7. p \in [Ip -> Nat]
    BY <1>0, <2>2, DecTyped, Zenon
  <2>8. TurnTypes'
    BY <1>0, <1>1, <2>1, <2>2, <2>4, <2>6, <2>7, SMTT(60) DEF TurnTypes
  <2>9. OwnerInv'
    BY <1>0, <1>1, <2>1, <2>2, <2>3, <2>4, Zenon DEF TurnInv, OwnerInv
  <2>10. NothingIsLost'
    BY <1>0, <2>1, <2>3, <2>4, AllocationComes, Zenon
  <2> QED BY <2>8, <2>9, <2>10, Zenon DEF TurnInv
<1> QED BY <1>2, <1>3, Zenon

\* Refreshing, releasing and permitting keep it.
LEMMA ServerSteps ==
    ASSUME TurnInv, Refresh \/ ReleaseAlloc \/ Permit PROVE TurnInv'
<1> DEFINE q == serve.of
           c == q.c
<1>0. serve \in Handling /\ q \in Datagram /\ c \in TurnClient /\ serve' = NotServing
    BY DEF Refresh, ReleaseAlloc, Permit, TurnInv, TurnTypes, NotServing, Handling, Datagram
<1>1. allocs \in [TurnClient -> {None} \cup Allocation] /\ perIP \in [Ip -> Nat] /\ wire \subseteq Datagram
    BY Zenon  DEF TurnInv, TurnTypes
<1>2. wire' \subseteq Datagram
    BY <1>0, <1>1, ReplyTyped, Zenon DEF Refresh, ReleaseAlloc, Permit, Sockets
<1>3. NotServing.at = "idle"
    BY Zenon  DEF NotServing
<1>4. CASE ReleaseAlloc
  <2>1. /\ serve.a[1] = c /\ (allocs[c] # None => allocs[c].relay = serve.a)
        /\ allocs' = [allocs EXCEPT ![c] = None] /\ perIP' = DecPerIP(perIP, IpOf[c]) /\ open' = open \ {serve.a}
    BY <1>4, Zenon DEF ReleaseAlloc, TurnInv, OwnerInv
  <2>2. NothingIsLost' /\ perIP' \in [Ip -> Nat]
    BY <1>0, <2>1, AllocationGoes, Zenon
  <2>3. TurnTypes'
    BY <1>0, <1>1, <1>2, <2>1, <2>2, Zenon DEF TurnTypes
  <2>4. OwnerInv'
    BY <1>0, <1>1, <1>3, <2>1, Zenon DEF TurnInv, OwnerInv
  <2> QED BY <2>2, <2>3, <2>4, Zenon DEF TurnInv
<1>5. CASE Refresh \/ Permit
  <2>1. UNCHANGED <<open, perIP>>
    BY <1>5, Zenon DEF Refresh, Permit
  <2>2. /\ allocs' \in [TurnClient -> {None} \cup Allocation]
        /\ \A d \in TurnClient : /\ allocs'[d] = None <=> allocs[d] = None
                                 /\ allocs[d] # None => allocs'[d].relay = allocs[d].relay
    <3>1. CASE allocs' = allocs
      BY <1>1, <3>1, Zenon
    <3>2. CASE Refresh /\ Current(c)
      <4>1. allocs[c] \in Allocation /\ allocs' = [allocs EXCEPT ![c] = [allocs[c] EXCEPT !.left = Lifetime]]
        BY <1>0, <1>1, <3>2, Zenon DEF Refresh, Current
      <4>2. [allocs[c] EXCEPT !.left = Lifetime] \in Allocation
            /\ [allocs[c] EXCEPT !.left = Lifetime].relay = allocs[c].relay
        BY <4>1, TurnAssumption DEF Allocation
      <4> QED BY <1>0, <1>1, <4>1, <4>2, AllocationApart, Zenon
    <3>3. CASE Permit /\ Current(c) /\ allocs' # allocs
      <4> DEFINE w == [allocs[c] EXCEPT !.perms = @ \cup {q.peer}]
      <4>1. allocs[c] \in Allocation /\ allocs' = [allocs EXCEPT ![c] = w]
        BY <1>0, <1>1, <3>3, Zenon DEF Permit, Current
      <4>2. q.peer \in {None} \cup Remote
        BY <1>0, Zenon DEF Datagram
      <4>3. w \in Allocation /\ w.relay = allocs[c].relay
        BY <4>1, <4>2, Zenon DEF Allocation
      <4> HIDE DEF w
      <4> QED BY <1>0, <1>1, <4>1, <4>3, AllocationApart, Zenon
    <3> QED BY <1>5, <3>1, <3>2, <3>3, Zenon DEF Refresh, Permit
  <2>3. NothingIsLost'
    BY <2>1, <2>2, AllocationKept, Zenon
  <2>4. TurnTypes'
    BY <1>0, <1>1, <1>2, <2>1, <2>2, Zenon DEF TurnTypes
  <2>5. OwnerInv'
    BY <1>0, <1>3, <2>2, Zenon DEF TurnInv, OwnerInv
  <2> QED BY <2>3, <2>4, <2>5, Zenon DEF TurnInv
<1> QED BY <1>4, <1>5, Zenon

\* Taking a datagram from the wire keeps it.
LEMMA ReceiveStep == ASSUME TurnInv, NEW q \in wire, Receive(q) PROVE TurnInv'
<1>0. q \in Datagram /\ q.c \in TurnClient /\ q.m \in Method /\ serve = NotServing
    BY Zenon  DEF TurnInv, TurnTypes, Datagram, Receive
<1>1. UNCHANGED <<allocs, open, perIP>>
    BY Zenon  DEF Receive
<1>2. wire' \subseteq Datagram
    BY <1>0, ReplyTyped, Zenon DEF Receive, TurnInv, TurnTypes
<1>3. CASE serve' = serve
    BY <1>1, <1>2, <1>3, ClientSteps, Zenon
<1>4. CASE serve' # serve
  <2>1. /\ serve' = [at |-> q.m, of |-> q, a |-> IF allocs[q.c] = None THEN None ELSE allocs[q.c].relay]
        /\ q.m # "allocate" => allocs[q.c] # None
    BY <1>4, Zenon DEF Receive
  <2>2. allocs[q.c] # None => allocs[q.c].relay \in Sockets /\ allocs[q.c].relay[1] = q.c
    BY <1>0, Zenon DEF TurnInv, TurnTypes, OwnerInv, Allocation
  <2>3. serve' \in Handling
    BY <1>0, <2>1, <2>2, Zenon DEF Handling
  <2>4. OwnerInv'
    <3>1. serve'.at = q.m /\ serve'.of = q /\ (allocs[q.c] # None => serve'.a = allocs[q.c].relay)
      BY <2>1, Zenon
    <3> QED BY <1>1, <2>1, <2>2, <3>1, Zenon DEF TurnInv, OwnerInv
  <2> QED BY <1>1, <1>2, <2>3, <2>4, Zenon
        DEF TurnInv, TurnTypes, NothingIsLost, NoSlotIsLost, NoSocketIsLost, LiveOf
<1> QED BY <1>3, <1>4, Zenon

\* Every step of clients, server, expiry and network keeps it.
LEMMA TurnStep == TurnInv /\ [TurnNext]_turnVars => TurnInv'
<1> SUFFICES ASSUME TurnInv, [TurnNext]_turnVars PROVE TurnInv'
    BY Zenon
<1>w. wire \subseteq Datagram /\ TurnTypes
    BY Zenon  DEF TurnInv, TurnTypes
<1>1. ASSUME NEW q \in wire, Receive(q) PROVE TurnInv'
    BY <1>1, ReceiveStep, Zenon
<1>2. ASSUME NEW q \in wire, ResponseArrives(q) PROVE TurnInv'
  <2>1. PICK gone : wire' = Forgotten(wire \ {q}, q.c, gone) /\ serve' = Orphaned(q.c, gone)
                    /\ UNCHANGED <<allocs, open, perIP>>
    BY <1>2, Zenon DEF ResponseArrives
  <2>2. wire' \subseteq Datagram
    BY <1>w, <2>1, ForgottenTyped, Zenon
  <2> QED BY <1>w, <2>1, <2>2, OrphanedShape, ClientSteps, Zenon
<1>3. ASSUME NEW q \in wire, Lose(q) PROVE TurnInv'
    BY <1>w, <1>3, ClientSteps, Zenon DEF Lose
<1>4. CASE Allocate
    BY <1>4, AllocateStep, Zenon
<1>5. CASE Refresh \/ ReleaseAlloc \/ Permit
    BY <1>5, ServerSteps, Zenon
<1>6. CASE Close
  <2>1. /\ allocs' = [c \in TurnClient |-> None] /\ perIP' = [i \in Ip |-> 0] /\ open' = {}
        /\ UNCHANGED <<serve, wire>>
    BY <1>6, Zenon DEF Close, TurnInv, NothingIsLost, NoSocketIsLost
  <2>2. TurnTypes'
    BY <2>1, Zenon DEF TurnInv, TurnTypes
  <2>3. OwnerInv'
    <3>1. serve.at = "release" => serve.of.c \in TurnClient
      BY <1>w DEF TurnTypes, Handling, Datagram, NotServing
    <3> QED BY <2>1, <3>1, Zenon DEF TurnInv, OwnerInv
  <2>4. \A i : Cardinality(LiveOf(i)') \in Nat
    <3>1. \A i : LiveOf(i)' = {}
      BY <2>1, Zenon DEF LiveOf
    <3> QED BY <3>1, FS_EmptySet
  <2>5. NothingIsLost'
    BY <2>1, <2>4 DEF NothingIsLost, NoSlotIsLost, NoSocketIsLost
  <2> QED BY <2>2, <2>3, <2>5, Zenon DEF TurnInv
<1>7. CASE TurnTick
  <2>1. UNCHANGED <<open, perIP, serve, wire>> /\ serve = NotServing
    BY <1>7, Zenon DEF TurnTick
  <2>2. /\ allocs' \in [TurnClient -> {None} \cup Allocation]
        /\ \A d \in TurnClient : /\ allocs'[d] = None <=> allocs[d] = None
                                 /\ allocs[d] # None => allocs'[d].relay = allocs[d].relay
    <3>1. allocs' = [c \in TurnClient |-> IF allocs[c] = None THEN None ELSE [allocs[c] EXCEPT !.left = @ - 1]]
      BY <1>7, Zenon DEF TurnTick
    <3>2. ASSUME NEW c \in TurnClient, allocs[c] # None
          PROVE  [allocs[c] EXCEPT !.left = @ - 1] \in Allocation
                 /\ [allocs[c] EXCEPT !.left = @ - 1].relay = allocs[c].relay
      <4>1. allocs[c] \in Allocation /\ allocs[c].left - 1 \in Int
        BY <1>w, <3>2, SMTT(60) DEF TurnTypes, Allocation
      <4> QED BY <4>1, Zenon DEF Allocation
    <3> QED BY <3>1, <3>2, AllocationApart, Zenon
  <2>3. NothingIsLost'
    BY <2>1, <2>2, AllocationKept, Zenon
  <2>4. TurnTypes' /\ OwnerInv'
    BY <1>w, <2>1, <2>2, Zenon DEF TurnTypes, TurnInv, OwnerInv, NotServing
  <2> QED BY <2>3, <2>4, Zenon DEF TurnInv
<1>8. ASSUME NEW c \in TurnClient, DialRelay(c) \/ RefreshWake(c) \/ CloseConn(c) PROVE TurnInv'
  <2>1. "allocate" \in Method /\ "refresh" \in Method /\ "release" \in Method
    BY Zenon  DEF Method
  <2>2. UNCHANGED <<allocs, open, perIP, serve>> /\ wire' \subseteq Datagram
    BY <1>w, <1>8, <2>1, RequestTyped, Zenon DEF DialRelay, RefreshWake, CloseConn
  <2> QED BY <2>2, ClientSteps, Zenon
<1>9. ASSUME NEW c \in TurnClient, Expire(c) PROVE TurnInv'
  <2>1. /\ allocs[c] # None /\ allocs' = [allocs EXCEPT ![c] = None]
        /\ perIP' = DecPerIP(perIP, IpOf[c]) /\ open' = open \ {allocs[c].relay} /\ UNCHANGED <<serve, wire>>
        /\ allocs[c].relay[1] = c
    BY <1>9, Zenon DEF Expire, TurnInv, OwnerInv
  <2>2. NothingIsLost' /\ perIP' \in [Ip -> Nat]
    BY <2>1, AllocationGoes, Zenon
  <2>3. TurnTypes'
    BY <1>w, <2>1, <2>2, Zenon DEF TurnTypes
  <2>4. OwnerInv'
    <3>1. serve.at = "release" => serve.of.c \in TurnClient
      BY <1>w DEF TurnTypes, Handling, Datagram, NotServing
    <3> QED BY <1>w, <2>1, <3>1, Zenon DEF TurnTypes, TurnInv, OwnerInv
  <2> QED BY <2>2, <2>3, <2>4, Zenon DEF TurnInv
<1>10. ASSUME NEW c \in TurnClient, NEW p \in Remote, WriteTo(c, p) PROVE TurnInv'
  <2>1. [Request(c, "permit") EXCEPT !.peer = p] \in Datagram
    BY Zenon   DEF Request, Datagram, Method
  <2>2. UNCHANGED <<allocs, open, perIP, serve>> /\ wire' \subseteq Datagram
    BY <1>w, <1>10, <2>1, Zenon DEF WriteTo
  <2> QED BY <2>2, ClientSteps, Zenon
<1>11. ASSUME NEW c \in TurnClient, NEW m \in Method, TimedOut(c, m) PROVE TurnInv'
  <2>1. PICK gone, again :
          /\ wire' = Forgotten(wire, c, gone) \cup (IF again THEN {Request(c, m)} ELSE {})
          /\ again => m = "allocate"
          /\ serve' = Orphaned(c, gone) /\ UNCHANGED <<allocs, open, perIP>>
    BY <1>11, Zenon DEF TimedOut
  <2>2. wire' \subseteq Datagram
    BY <1>w, <2>1, ForgottenTyped, RequestTyped, Zenon
  <2> QED BY <1>w, <2>1, <2>2, OrphanedShape, ClientSteps, Zenon
<1>12. CASE UNCHANGED turnVars
    BY <1>w, <1>12, ClientSteps, Zenon DEF turnVars
<1> QED BY <1>1, <1>2, <1>3, <1>4, <1>5, <1>6, <1>7, <1>8, <1>9, <1>10, <1>11, <1>12, SMTT(60) DEF TurnNext

\* The relay loses neither slots nor sockets (handleAllocate's replacement,
\* handleRefresh's release, expire and Close, each in lock sections of its
\* own): the count held against an address never exceeds the allocations it
\* has, and the relayed sockets that are open are those of the table, whatever
\* is lost, duplicated, delayed or expires between the sections; for any number
\* of clients and addresses.
THEOREM RelayLosesNothing == TurnSpec => []NothingIsLost
<1>1. TurnInv => NothingIsLost
    BY Zenon  DEF TurnInv
<1> QED BY <1>1, TurnInitial, TurnStep, PTL DEF TurnSpec

===============================================================================
