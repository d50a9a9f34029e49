----------------------------- MODULE MCClaimPool -----------------------------
(***************************************************************************)
(* Small instances of the claim pool, alone and with its files.            *)
(***************************************************************************)
EXTENDS PoolRestart

MkId(a, c, ts, pow) == [alias |-> a, claimant |-> c, ts |-> ts, pow |-> pow, tld |-> c]
MkCarrier(i, expires, size) ==
    [ident |-> i, created |-> 0, expires |-> expires, size |-> size, full |-> TRUE]

\* Two aliases; identities 1 to 3 compete for alias 1 (3 is the earliest),
\* identity 4 holds alias 2.  Carriers 1 and 2 are two generations of identity 1.
MCId == <<MkId(1, 1, 2, 5), MkId(1, 2, 2, 6), MkId(1, 3, 1, 9), MkId(2, 4, 1, 1)>>
MCCarries ==
    <<MkCarrier(1, 1, 1), MkCarrier(1, 3, 2), MkCarrier(2, 2, 1), MkCarrier(3, 1, 2), MkCarrier(4, 3, 1)>>

\* Whether the node saves its pool and restarts, or is watched between saves.
VARIABLE scenario
poolScenarioVars == <<restartVars, scenario>>

MCPoolInit == PoolRestartInit /\ scenario \in {"between saves", "restarts"}

\* Between saves both aliases are contested and the byte budget binds.
BetweenSaves == scenario = "between saves" /\ PoolNext /\ UNCHANGED <<disk, unsaved, phase, cursor>>

\* Across restarts only alias 1 is, whose two best claims fit the budgets.
Restarts ==
    /\ scenario = "restarts" /\ PoolRestartNext
    /\ now' < MaxTime - 1 /\ firstSeen'[2] = NoFirstSeen[2]

MCPoolSpec == MCPoolInit /\ [][(BetweenSaves \/ Restarts) /\ UNCHANGED scenario]_poolScenarioVars
=============================================================================
