------------------------------ MODULE Upstream ------------------------------
(***************************************************************************)
(* Forwarding to conventional DNS (internal/resolver, server.go and        *)
(* upstream_ref.go): the plaintext forwarder with its retries, the DoH     *)
(* forwarder that races it after the hedge delay, the bootstrap of the DoH *)
(* endpoint's address, and the cell through which a reload swaps upstreams.*)
(*                                                                         *)
(* Forwards run concurrently, each with the upstream it found in the cell. *)
(* An upstream is [doh, fallback, hedged]: a DoH endpoint by hostname, an  *)
(* endpoint by address, or none; plaintext servers or none; the race on or *)
(* off.  What the network answers is left open at every exchange.          *)
(***************************************************************************)
EXTENDS Integers, Absent

CONSTANTS
    Fwd,                \* concurrent forwards
    Upstreams,          \* the configurations a reload can set; None when nothing is configured
    NServers, NAttempts,
    MaxSwaps, MaxBoots  \* bounds: reloads, bootstraps that find the endpoint

ASSUME UpstreamAssumption ==
    /\ {NServers, NAttempts} \subseteq Nat \ {0} /\ {MaxSwaps, MaxBoots} \subseteq Nat
    /\ Upstreams \subseteq {None} \cup [doh : {"none", "name", "address"}, fallback : BOOLEAN,
                                      hedged : BOOLEAN]

VARIABLES
    ref,          \* UpstreamRef.u
    fwd,          \* forward -> its progress
    dohDegraded,  \* the DoHUpstream of each generation: its degraded flag,
    pinned,       \*   bootIPs: the number of the resolution they came from, 0 when none,
    stale,        \*   and whether they are due for a refresh
    resolved,     \* bootstrap resolutions that succeeded
    swaps         \* reloads so far: the generation of the upstream in the cell

upVars == <<ref, fwd, dohDegraded, pinned, stale, resolved, swaps>>

\* A forward: the two legs and what Forward returned.  `srv`, `try` are the
\* plaintext loop's indices; `waited`: the hedge timer has fired.
NoForward == [up |-> None, gen |-> 0, doh |-> "off", plain |-> "off", srv |-> 1, try |-> 1,
              waited |-> FALSE, result |-> "none"]
Gens == 0 .. MaxSwaps
FwdRecord ==
    [up : Upstreams \cup {None}, gen : Gens, doh : {"off", "dial", "boot", "post", "ok", "failed"},
     plain : {"off", "wait", "udp", "tcp", "ok", "truncated", "failed"},
     srv : 1 .. NServers + 1, try : 1 .. NAttempts, waited : BOOLEAN,
     result : {"none", "truncated", "failed"}]
Raced(u) == u.doh # "none" /\ u.hedged /\ u.fallback

UpInit ==
    /\ ref \in Upstreams /\ fwd = [f \in Fwd |-> NoForward]
    /\ dohDegraded = [g \in Gens |-> FALSE] /\ pinned = [g \in Gens |-> 0]
    /\ stale = [g \in Gens |-> FALSE] /\ resolved = 0 /\ swaps = 0

UpTypeOK ==
    /\ ref \in Upstreams /\ swaps \in Gens /\ resolved \in 0 .. MaxBoots
    /\ dohDegraded \in [Gens -> BOOLEAN] /\ stale \in [Gens -> BOOLEAN]
    /\ pinned \in [Gens -> 0 .. resolved]
    /\ fwd \in [Fwd -> FwdRecord]

Active(f) == fwd[f].up # None /\ fwd[f].result = "none"
\* Forward returns: its answer to the caller, or the failure it keeps until
\* the caller has seen it.
Answered(f) == fwd' = [fwd EXCEPT ![f] = NoForward]
Return(f, r) == fwd' = [fwd EXCEPT ![f].result = r]

-----------------------------------------------------------------------------
(* Forward                                                                  *)

\* The legs as Forward starts them: with a race the plaintext one waits for
\* the hedge delay; without one it only follows a failure.
Legs(u) == [doh   |-> IF u.doh = "none" THEN "off" ELSE "dial",
            plain |-> IF u.doh = "none" THEN "udp" ELSE IF Raced(u) THEN "wait" ELSE "off"]

\* UpstreamRef.Forward, then the one of the upstream it holds.
Begin(f) ==
    /\ fwd[f].up = None /\ ref # None
    /\ fwd' = [fwd EXCEPT ![f] =
          [NoForward EXCEPT !.up = ref, !.gen = swaps,
                            !.doh = Legs(ref).doh, !.plain = Legs(ref).plain]]
    /\ UNCHANGED <<ref, dohDegraded, pinned, stale, resolved, swaps>>

\* The caller has seen the failure.
Done(f) ==
    /\ fwd[f].result # "none" /\ Answered(f)
    /\ UNCHANGED <<ref, dohDegraded, pinned, stale, resolved, swaps>>

\* The caller's context ends while legs are out.
Cancel(f) ==
    /\ Active(f) /\ Answered(f)
    /\ UNCHANGED <<ref, dohDegraded, pinned, stale, resolved, swaps>>

-----------------------------------------------------------------------------
(* The plaintext leg: every server, each NAttempts times                    *)

\* Where the loop goes after a failed exchange.
NextTry(s) ==
    IF s.try < NAttempts THEN [s EXCEPT !.try = @ + 1, !.plain = "udp"]
    ELSE IF s.srv < NServers THEN [s EXCEPT !.srv = @ + 1, !.try = 1, !.plain = "udp"]
    ELSE [s EXCEPT !.srv = @ + 1, !.plain = "failed"]

\* Fault: a truncated answer is better than none.
TcpRetryServed(s) == {[s EXCEPT !.plain = "ok"], [s EXCEPT !.plain = "truncated"]}

\* The retry of a truncated answer over TCP; when it fails too, the truncated
\* answer counts as a failed exchange.
TcpRetry(s) == {[s EXCEPT !.plain = "ok"], NextTry(s)}

PlainExchange(f) ==
    /\ Active(f)
    /\ \/ /\ fwd[f].plain = "udp"
          /\ \E s \in {[fwd[f] EXCEPT !.plain = "ok"], NextTry(fwd[f]),
                       [fwd[f] EXCEPT !.plain = "tcp"]} : fwd' = [fwd EXCEPT ![f] = s]
       \/ /\ fwd[f].plain = "tcp"
          /\ \E s \in TcpRetry(fwd[f]) : fwd' = [fwd EXCEPT ![f] = s]
    /\ UNCHANGED <<ref, dohDegraded, pinned, stale, resolved, swaps>>

-----------------------------------------------------------------------------
(* The DoH leg                                                              *)

\* dialContext on an endpoint known by its name takes the pinned addresses
\* when they are fresh, and otherwise resolves it over the fallback servers.
Dial(f) ==
    /\ Active(f) /\ fwd[f].doh = "dial"
    /\ IF fwd[f].up.doh = "address" \/ (pinned[fwd[f].gen] # 0 /\ ~stale[fwd[f].gen])
       THEN fwd' = [fwd EXCEPT ![f].doh = "post"]
       ELSE fwd' = [fwd EXCEPT ![f].doh = "boot"]
    /\ UNCHANGED <<ref, dohDegraded, pinned, stale, resolved, swaps>>

\* What is pinned after a bootstrap: stale beats dark.
Repinned(old, found) == IF found THEN resolved + 1 ELSE old

\* bootstrapIPs after its resolution; without an address the system resolver
\* is asked instead.
Bootstrap(f) ==
    /\ Active(f) /\ fwd[f].doh = "boot"
    /\ \E found \in {FALSE, fwd[f].up.fallback /\ resolved < MaxBoots} :
          /\ resolved' = IF found THEN resolved + 1 ELSE resolved
          /\ pinned' = [pinned EXCEPT ![fwd[f].gen] = Repinned(@, found)]
          /\ stale' = [stale EXCEPT ![fwd[f].gen] = @ /\ ~found]
          /\ fwd' = [fwd EXCEPT ![f].doh = "post"]
    /\ UNCHANGED <<ref, dohDegraded, swaps>>

\* One POST: an answer or an error.
Post(f) ==
    /\ Active(f) /\ fwd[f].doh = "post"
    /\ \E r \in {"ok", "failed"} : fwd' = [fwd EXCEPT ![f].doh = r]
    /\ UNCHANGED <<ref, dohDegraded, pinned, stale, resolved, swaps>>

HedgeTimer(f) ==
    /\ Active(f) /\ fwd[f].plain = "wait"
    /\ fwd' = [fwd EXCEPT ![f].plain = "udp", ![f].waited = TRUE]
    /\ UNCHANGED <<ref, dohDegraded, pinned, stale, resolved, swaps>>

-----------------------------------------------------------------------------
(* Collecting the legs                                                      *)

\* The DoH answer wins and the other leg is cancelled.
TakeDoh(f) ==
    /\ Active(f) /\ fwd[f].doh = "ok"
    /\ Answered(f) /\ dohDegraded' = [dohDegraded EXCEPT ![fwd[f].gen] = FALSE]
    /\ UNCHANGED <<ref, pinned, stale, resolved, swaps>>

\* A plaintext answer wins, whatever the other leg is at; the strict path
\* does not announce it.
TakePlain(f) ==
    /\ Active(f) /\ fwd[f].plain \in {"ok", "truncated"}
    /\ IF fwd[f].plain = "ok" THEN Answered(f) ELSE Return(f, "truncated")
    /\ dohDegraded' = [dohDegraded EXCEPT ![fwd[f].gen] = @ \/ Raced(fwd[f].up)]
    /\ UNCHANGED <<ref, pinned, stale, resolved, swaps>>

\* The DoH leg failed: the hedge starts at once, or fallbackOr.
DohFailed(f) ==
    /\ Active(f) /\ fwd[f].doh = "failed" /\ fwd[f].plain \in {"off", "wait"}
    /\ IF fwd[f].up.fallback THEN fwd' = [fwd EXCEPT ![f].plain = "udp"]
       ELSE Return(f, "failed")
    /\ UNCHANGED <<ref, dohDegraded, pinned, stale, resolved, swaps>>

\* Both legs failed, or the only one.
BothFailed(f) ==
    /\ Active(f) /\ fwd[f].plain = "failed" /\ fwd[f].doh \in {"off", "failed"}
    /\ Return(f, "failed")
    /\ UNCHANGED <<ref, dohDegraded, pinned, stale, resolved, swaps>>

-----------------------------------------------------------------------------
\* Set: a reload swaps the upstream under the forwards in flight.
Set ==
    /\ swaps < MaxSwaps /\ swaps' = swaps + 1
    /\ \E u \in Upstreams \ {ref} : ref' = u
    /\ UNCHANGED <<fwd, dohDegraded, pinned, stale, resolved>>

\* bootstrapRefresh passes.
PinsAge ==
    /\ pinned[swaps] # 0 /\ ~stale[swaps] /\ stale' = [stale EXCEPT ![swaps] = TRUE]
    /\ UNCHANGED <<ref, fwd, dohDegraded, pinned, resolved, swaps>>

LegStep(f) == PlainExchange(f) \/ Dial(f) \/ Bootstrap(f) \/ Post(f) \/ HedgeTimer(f)
ForwardStep(f) ==
    LegStep(f) \/ TakeDoh(f) \/ TakePlain(f) \/ DohFailed(f) \/ BothFailed(f)
UpNext ==
    \/ \E f \in Fwd : Begin(f) \/ ForwardStep(f) \/ Cancel(f) \/ Done(f)
    \/ Set \/ PinsAge
UpFairness == \A f \in Fwd : WF_upVars(ForwardStep(f))

UpSpec == UpInit /\ [][UpNext]_upVars /\ UpFairness

-----------------------------------------------------------------------------
(* Properties.                                                              *)

\* Wiring DoH never reduces availability: a forward that fails, unless its
\* caller gave up, has put the query to every plaintext server it has, as
\* often as configured, and no truncated answer is passed on as whole.
NoLegLeftUntried ==
    \A f \in Fwd :
        /\ fwd[f].result = "failed" =>
              /\ fwd[f].up.doh # "none" => fwd[f].doh = "failed"
              /\ fwd[f].up.fallback => fwd[f].srv = NServers + 1
        /\ fwd[f].result # "truncated"

\* A DoH leg that answers is never doubled in plaintext unless it had been
\* out for the hedge delay (or was never the configured path): "a healthy DoH
\* leg still answers every query and never leaks it".
NothingLeaksEarly ==
    \A f \in Fwd :
        fwd[f].up # None /\ fwd[f].plain \in {"udp", "tcp", "ok"}
        => fwd[f].waited \/ fwd[f].doh \in {"off", "failed"}

\* The pinned addresses of the endpoint are never lost to a failed refresh,
\* nor replaced by those of a forward that still runs on a former upstream.
PinsStay ==
    \A g \in Gens :
        /\ pinned[g] # 0 => pinned'[g] # 0
        /\ pinned'[g] # pinned[g] => \E f \in Fwd : Active(f) /\ fwd[f].gen = g
NeverGoesDark == [][PinsStay]_upVars

\* Every forward returns, however its legs end.
ForwardsEnd == \A f \in Fwd : [](Active(f) => <>(~Active(f)))
=============================================================================
