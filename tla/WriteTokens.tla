----------------------------- MODULE WriteTokens -----------------------------
(***************************************************************************)
(* Write tokens (internal/dht/tokens.go) and the client that caches them,  *)
(* BlobSession (transport.go): a serving node derives a token from the     *)
(* source IP and the rotation epoch, accepts it in that epoch and the      *)
(* Tolerance next ones, and the session spends one token on many chunk     *)
(* requests, replacing it once when it is refused.                         *)
(*                                                                         *)
(* A token is [ip, epoch]: the HMAC of an IP under an epoch's secret is    *)
(* equal to another only if both agree.  The session's calls to one server *)
(* are sequential here; each of its messages may be lost.                  *)
(***************************************************************************)
EXTENDS Integers

CONSTANTS
    Client,     \* source IPs of sessions that talk to the server
    Rotation,   \* TokenRotation
    Tolerance,  \* previous epochs accepted: every caller passes 1
    MaxFlight,  \* bound on a query's time in flight (the query timeout)
    MaxTime     \* bound on the clock

ASSUME TokenAssumption ==
    /\ Rotation \in Nat \ {0} /\ Tolerance \in Nat \ {0}
    /\ MaxTime \in Nat /\ MaxFlight \in Nat /\ MaxFlight < Rotation

VARIABLES
    time,     \* the server's clock
    cached,   \* session -> [ip, epoch, at] it caches, or NoToken (at: history)
    call,     \* session -> "idle" | "token" (asking for one) | "chunk" (spending it)
    attempt,  \* session -> BlobSession.Get's loop counter
    sent,     \* session -> when the query in flight left
    outcome   \* session -> how its last Get ended

tokenVars == <<time, cached, call, attempt, sent, outcome>>

NoToken == [ip |-> 0, epoch |-> -1, at |-> -1]

Epoch(t) == t \div Rotation

\* Issue, for the source IP of the query it answers.
Issue(c) == [ip |-> c, epoch |-> Epoch(time), at |-> time]

\* Fault: only the current epoch is accepted.
VerifyCurrentOnly(c, token) == token.ip = c /\ token.epoch = Epoch(time)

\* Verify: the current epoch and the Tolerance before it.
Verify(c, token) == token.ip = c /\ \E off \in 0..Tolerance : token.epoch = Epoch(time) - off

Ask(c, what) ==
    /\ call' = [call EXCEPT ![c] = what]
    /\ sent' = [sent EXCEPT ![c] = time]

End(c, how) ==
    /\ call' = [call EXCEPT ![c] = "idle"]
    /\ outcome' = [outcome EXCEPT ![c] = how]

\* Get: use the cached token, or fetch one first (get, then ping).
GetBegin(c) ==
    /\ call[c] = "idle"
    /\ attempt' = [attempt EXCEPT ![c] = 0]
    /\ Ask(c, IF cached[c] = NoToken THEN "token" ELSE "chunk")
    /\ UNCHANGED <<time, cached, outcome>>

\* refreshToken's answer is cached and spent at once.
TokenArrives(c) ==
    /\ call[c] = "token"
    /\ cached' = [cached EXCEPT ![c] = Issue(c)]
    /\ Ask(c, "chunk")
    /\ UNCHANGED <<time, attempt, outcome>>

\* Any query of the session times out.
QueryLost(c) ==
    /\ call[c] # "idle"
    /\ End(c, "timeout")
    /\ UNCHANGED <<time, cached, attempt, sent>>

\* hBlobGet past its limiter: the token verifies, the chunk (or 404) comes back.
ChunkServed(c) ==
    /\ call[c] = "chunk" /\ Verify(c, cached[c])
    /\ \E how \in {"data", "absent"} : End(c, how)
    /\ UNCHANGED <<time, cached, attempt, sent>>

\* The limiter refuses before the token is looked at.
ChunkThrottled(c) ==
    /\ call[c] = "chunk"
    /\ End(c, "throttled")
    /\ UNCHANGED <<time, cached, attempt, sent>>

\* 302: the token is dropped and, on the first attempt, replaced.
ChunkRefused(c) ==
    /\ call[c] = "chunk" /\ ~Verify(c, cached[c])
    /\ cached' = [cached EXCEPT ![c] = NoToken]
    /\ \/ /\ attempt[c] = 0
          /\ attempt' = [attempt EXCEPT ![c] = 1]
          /\ Ask(c, "token")
          /\ UNCHANGED outcome
       \/ /\ attempt[c] = 1
          /\ End(c, "rejected")
          /\ UNCHANGED <<attempt, sent>>
    /\ UNCHANGED time

\* Time passes, but no query stays in flight beyond its timeout.
TokenTick ==
    /\ time < MaxTime
    /\ \A c \in Client : call[c] # "idle" => time - sent[c] < MaxFlight
    /\ time' = time + 1
    /\ UNCHANGED <<cached, call, attempt, sent, outcome>>

TokenInit ==
    /\ time = 0
    /\ cached = [c \in Client |-> NoToken]
    /\ call = [c \in Client |-> "idle"]
    /\ attempt = [c \in Client |-> 0]
    /\ sent = [c \in Client |-> 0]
    /\ outcome = [c \in Client |-> "none"]

TokenNext ==
    \/ \E c \in Client :
          GetBegin(c) \/ TokenArrives(c) \/ QueryLost(c) \/ ChunkServed(c) \/ ChunkThrottled(c) \/ ChunkRefused(c)
    \/ TokenTick

TokenSpec == TokenInit /\ [][TokenNext]_tokenVars

-----------------------------------------------------------------------------
(* Properties *)

\* The session's state is well typed.
TokenTypeOK ==
    /\ time \in 0..MaxTime
    /\ cached \in [Client -> [ip : Client \cup {0}, epoch : Int, at : Int]]
    /\ \A c \in Client :
         cached[c] = NoToken \/ (cached[c].ip = c /\ cached[c].at \in 0..time /\ cached[c].epoch = Epoch(cached[c].at))
    /\ call \in [Client -> {"idle", "token", "chunk"}]
    /\ attempt \in [Client -> {0, 1}]
    /\ sent \in [Client -> 0..MaxTime]
    /\ outcome \in [Client -> {"none", "timeout", "data", "absent", "throttled", "rejected"}]

\* Wherever in an epoch a token was issued, it is good for Tolerance whole
\* rotations and dead Tolerance + 1 rotations later; only its own IP may
\* spend it.
TokenWindow ==
    \A c, d \in Client :
        cached[c] # NoToken =>
            /\ (time - cached[c].at <= Rotation * Tolerance) => Verify(c, cached[c])
            /\ (time - cached[c].at >= Rotation * (Tolerance + 1)) => ~Verify(c, cached[c])
            /\ (d # c) => ~Verify(d, cached[c])

\* One refresh is always enough: the second attempt of a Get never meets 302,
\* so a live server that has the blob never costs the session an error.
RefreshOnceSuffices == \A c \in Client : outcome[c] # "rejected"
=============================================================================
