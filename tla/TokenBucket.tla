----------------------------- MODULE TokenBucket -----------------------------
(***************************************************************************)
(* What a rate limiter promises, without its table: every key always has a *)
(* bucket of at most Burst tokens that gains Rate tokens per tick, and a   *)
(* request is granted exactly when its key's bucket holds one.  A limiter  *)
(* with a bounded table may also forget keys while it serves another one;  *)
(* a forgotten key is back at a full bucket.                               *)
(***************************************************************************)
EXTENDS Integers

CONSTANTS Key, Rate, Burst

VARIABLES
    credit,  \* key -> tokens
    verdict  \* the last decision: <<key, granted>>, or <<>> before any

bucketVars == <<credit, verdict>>

AtMost(x) == IF x < Burst THEN x ELSE Burst

BucketInit ==
    /\ credit = [k \in Key |-> Burst]
    /\ verdict = <<>>

\* Time passes: every bucket gains Rate tokens, up to Burst.
Refill ==
    /\ credit' = [k \in Key |-> AtMost(credit[k] + Rate)]
    /\ UNCHANGED verdict

\* A request of k, while the keys in Forgotten are forgotten.
Request(k, Forgotten) ==
    /\ credit' = [j \in Key |->
                    IF j = k THEN (IF credit[k] >= 1 THEN credit[k] - 1 ELSE credit[k])
                    ELSE IF j \in Forgotten THEN Burst ELSE credit[j]]
    /\ verdict' = <<k, credit[k] >= 1>>

BucketNext == Refill \/ \E k \in Key, F \in SUBSET Key : Request(k, F)

BucketSpec == BucketInit /\ [][BucketNext]_bucketVars
=============================================================================
