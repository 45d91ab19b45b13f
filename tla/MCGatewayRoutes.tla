-------------------------- MODULE MCGatewayRoutes --------------------------
(* Model-checking instance of GatewayRoutes: a route that moves between     *)
(* three releases, one of them without a live backend, two backend lists and *)
(* two sites, and a second one beside it, in its place or under every host.  *)
EXTENDS GatewayRoutes, TLC

CONSTANTS r1, r2, v1, v2, v3

Site1 == [host |-> "h", prefix |-> <<"/", "a">>]
Site2 == [host |-> "h", prefix |-> <<"/">>]
Site3 == [host |-> "*", prefix |-> <<"/", "a">>]
Sites == {Site1, Site2, Site3}

Upsert(r, site, v, backends) ==
    [route |-> r, row |-> [site |-> site, release |-> v, enabled |-> TRUE], backends |-> backends]
One  == [i \in {1} |-> TRUE]
Two  == [i \in {1, 2} |-> i = 2]
Down == [i \in {2} |-> FALSE]
Requests ==
    {Upsert(r1, Site1, v1, One), Upsert(r1, Site1, v2, One), Upsert(r1, Site2, v2, Two),
     Upsert(r1, Site1, v3, Down),
     Upsert(r2, Site2, v1, One), Upsert(r2, Site3, v1, One)}

Symmetry == Permutations(Admin)
=============================================================================
