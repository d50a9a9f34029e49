------------------------------- MODULE MCNames -------------------------------
(***************************************************************************)
(* What several parties do with one name, one subject at a time: a walk    *)
(* that looks it up, the freshness of the copy it brings back, the quorum  *)
(* behind a claim, the commands of its owner, and its succession.          *)
(***************************************************************************)
EXTENDS Walk, Freshness, ClaimQuorum, OwnerOps, Succession

CONSTANT Focuses

VARIABLE focus

\* A node that knows 1 and 3 and learns of 2 and 4 from them; the newer copy is
\* with 4, which only 1 knows.
WKinds == {<<"get", "find">>, <<"get", "get">>}
WKnows == (0 :> {}) @@ <<{2, 4}, {1, 0}, {2}, {}>>
WHolds == (0 :> 0) @@ <<1, 0, 0, 2>>

\* One claim asserted by two TLDs, one with less work, one that does not verify.
QRival ==
    {[ts |-> 1, pow |-> 1, tld |-> 1, valid |-> TRUE], [ts |-> 1, pow |-> 1, tld |-> 2, valid |-> TRUE],
     [ts |-> 1, pow |-> 0, tld |-> 3, valid |-> TRUE], [ts |-> 0, pow |-> 1, tld |-> 4, valid |-> FALSE]}

\* The commands an owner runs: which, from where, and whether a daemon runs.
C(o, t, d, s) == [op |-> o, tool |-> t, daemon |-> d, slot |-> s]
OMenu ==
    {C("register", "cli", TRUE, "apex"), C("register", "cli", FALSE, "apex"), C("register", "web", TRUE, "apex"),
     C("name", "cli", TRUE, "sub"), C("name", "web", TRUE, "sub"),
     C("renew", "cli", TRUE, "apex"), C("renew", "web", TRUE, "apex"),
     C("revoke", "cli", FALSE, "apex"), C("revoke", "web", TRUE, "apex"), C("forget", "cli", TRUE, "apex")}

namesVars == <<focus, walkVars, freshVars, quorumVars, opsVars, succVars>>

MCInit ==
    /\ focus \in Focuses
    /\ WalkInit /\ FreshInit /\ QuorumInit /\ OpsInit /\ SuccInit
    /\ focus # "walk" => kind = <<"get", "find">>
    /\ focus # "succession" => files[1].delegation = Nobody

MCNext ==
    /\ UNCHANGED focus
    /\ IF focus = "walk" THEN WalkNext ELSE UNCHANGED walkVars
    /\ IF focus = "fresh" THEN FreshNext ELSE UNCHANGED freshVars
    /\ IF focus = "quorum" THEN QuorumNext ELSE UNCHANGED quorumVars
    /\ IF focus = "ops" THEN OpsNext ELSE UNCHANGED opsVars
    /\ IF focus = "succession" THEN SuccNext ELSE UNCHANGED succVars

MCSpec == MCInit /\ [][MCNext]_namesVars
=============================================================================
