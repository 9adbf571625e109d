--------------------------- MODULE MCOrchestrator ---------------------------
(* One domain with two discoverable hosts besides the apex, one of which a   *)
(* later scope file excludes, and a foreign name; addresses inside and       *)
(* outside the declared range and a private one.                             *)
EXTENDS Orchestrator

CONSTANTS dot, com, shop, api, Api, evil, pub1, pub2, priv

MCLabels == {dot, com, shop, api, Api, evil, pub1, pub2, priv}
MCIps == {pub1, pub2, priv}
MCCanonLabel == [l \in MCLabels |-> CASE l = Api -> api [] l = dot -> Illegal [] OTHER -> l]
MCPublicSuffixes == {<<com>>}

NoPart == [domains |-> {}, subdomains |-> {}, ip_ranges |-> {}]
Shop   == [domains    |-> {<<com, shop>>},
           subdomains |-> {[wildcard |-> TRUE, host |-> <<com, shop>>]},
           ip_ranges  |-> {{pub1}}]

Scope(authorized, out, mode) ==
  [authorized |-> authorized, active_actions_allowed |-> TRUE,
   authorized_until |-> 0, last_verified_at |-> None,
   in_scope |-> Shop, out_of_scope |-> out, ip_ranges_mode |-> mode]

Open     == Scope(TRUE, NoPart, "boundary")
Narrower == Scope(TRUE, [NoPart EXCEPT !.domains = {<<com, shop, Api>>},
                                       !.ip_ranges = {{pub2}}], "additional")
Passive  == Scope(FALSE, NoPart, "boundary")

JustOpen == {Open}
OpenThenNarrower == {Open, Narrower}

MCScopes == {Open, Narrower, Passive}
MCDiscoverable == {<<com, shop>>, <<com, shop, Api>>}
MCArchivedUrls == {[form |-> "url", host |-> <<dot, com, shop, api>>]}
MCResolutions == {<<>>, <<pub1>>, <<pub1, pub2>>, <<pub1, priv>>}
FewResolutions == {<<>>, <<pub1>>}
MCCommands == {[mode |-> "recon", analyze |-> FALSE], [mode |-> "full", analyze |-> TRUE]}
FullOnly == {[mode |-> "full", analyze |-> TRUE]}

\* Runs to their end: a second seed, and an unauthorized file that excludes one
\* host and finds the other by way of either seed.
TwoSeeds == [Open EXCEPT !.authorized = FALSE,
                         !.in_scope.domains = {<<com, shop>>, <<com, evil>>},
                         !.out_of_scope.domains = {<<com, shop, Api>>}]
OpenOrTwoSeeds == {Open, TwoSeeds}
JustShop == {<<com, shop>>}
=============================================================================
