----------------------------- MODULE MCGateway -----------------------------
(* Model-checking instance of Gateway: one route, enabled or disabled, under *)
(* a host that can be certified, and credentials that are rotated.           *)
EXTENDS Gateway

CONSTANTS r1, v1

Sites    == {[host |-> "h", prefix |-> <<"/">>]}
Requests ==
    {[route |-> r1, row |-> [site |-> s, release |-> v1, enabled |-> e], backends |-> [i \in {1} |-> TRUE]] :
        s \in Sites, e \in BOOLEAN}
StaticDomains == [c \in Config |-> {}]
=============================================================================
