------------------------------ MODULE MCResolver ------------------------------
(***************************************************************************)
(* The resolver of one machine, one subject at a time: its answer cache    *)
(* and flights, the resolution of a name by its configuration, the         *)
(* forwards of everything else, and the certificates it trusts.            *)
(***************************************************************************)
EXTENDS AnswerCache, Resolution, Upstream, TrustSync, TLC

CONSTANTS Focuses, c1, c2, r1, h1, h2

VARIABLE focus

\* Name 1 is a FreeNS name, name 2 goes upstream.
ARoute == (1 :> "freens") @@ (2 :> "upstream")
ASlots == [walk |-> 1, forward |-> 1]
ACasts == {{1, c1, c2, r1}, {1, 2, c1}, {2, c1, r1}}

\* Two identities, the second with the earlier claim; the routes, the rescue of
\* a route, a pin, a reserved alias, a public suffix and a contested alias.
RTs == (1 :> -1) @@ (2 :> -2)
RConf ==
    [route |-> "freens", explicit |-> TRUE, rescue |-> FALSE, public |-> FALSE, reserved |-> FALSE,
     pin |-> None, claimants |-> {1}]
RConfigs ==
    {[RConf EXCEPT !.claimants = {1, 2}], [RConf EXCEPT !.pin = 2], [RConf EXCEPT !.reserved = TRUE]}
      \cup {[RConf EXCEPT !.route = r, !.rescue = TRUE] : r \in {"deny", "dns", "freens-first"}}
      \cup {[RConf EXCEPT !.route = "dns-first", !.explicit = FALSE, !.rescue = TRUE, !.public = p] :
              p \in BOOLEAN}

\* Plain resolvers, DoH by name with hedging, DoH by address with and without
\* a fallback.
UPlain == [doh |-> "none", fallback |-> TRUE, hedged |-> FALSE]
UUps ==
    {None, UPlain, [doh |-> "name", fallback |-> TRUE, hedged |-> TRUE]}
      \cup {[doh |-> "address", fallback |-> f, hedged |-> FALSE] : f \in BOOLEAN}

\* The claim of the first TLD matures within the run, that of the second does not.
TMatures == (1 :> 1) @@ (2 :> 3)

\* The handlers of the trust engine are interchangeable.
MCSymmetry == Permutations({h1, h2})

resolverVars == <<focus, acVars, resVars, upVars, trustVars>>

\* A subject out of focus has one initial state.
MCInit ==
    /\ focus \in Focuses
    /\ ACInit /\ (focus # "cache" => cast = {1, 2, c1})
    /\ ResInit /\ (focus # "resolution" => cfg.pin # None)
    /\ UpInit /\ (focus # "upstream" => ref = None)
    /\ TrustInit

MCNext ==
    /\ UNCHANGED focus
    /\ IF focus = "cache" THEN ACNext ELSE UNCHANGED acVars
    /\ IF focus = "resolution" THEN ResNext ELSE UNCHANGED resVars
    /\ IF focus = "upstream" THEN UpNext ELSE UNCHANGED upVars
    /\ IF focus = "trust" THEN TrustNext ELSE UNCHANGED trustVars

MCSpec == MCInit /\ [][MCNext]_resolverVars
=============================================================================
