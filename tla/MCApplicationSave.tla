------------------------- MODULE MCApplicationSave -------------------------
(* Two applications on one machine, one with two environments. *)
EXTENDS ApplicationSave, TLC

Apps == "prod" :> "a" @@ "test" :> "a" @@ "other" :> "b"

\* Consoles are alike, and the run has no liveness property.
Consoles == Permutations(Console)

Prod  == <<"prod", "i">>
Prod2 == <<"prod", "j">>
Test  == <<"test", "i">>
Other == <<"other", "i">>

On(port)  == [port |-> port, enabled |-> TRUE]
Off(port) == [port |-> port, enabled |-> FALSE]
To(site, pinned) == [site |-> site, enabled |-> TRUE, pins |-> pinned]
Closed(site) == [site |-> site, enabled |-> FALSE, pins |-> {}]
NoMap == [x \in {} |-> None]

Request(app, targets, routes, creating) ==
    [app |-> app, targets |-> targets, routes |-> routes, creating |-> creating]

Requests ==
    { Request("a", Prod :> On(1) @@ Test :> On(2),
              "prod" :> ("k" :> To("x", {})) @@ "test" :> ("m" :> To("y", {})), TRUE),
      Request("a", Prod :> On(1) @@ Prod2 :> On(3), "prod" :> ("k" :> To("x", {Prod})), FALSE),
      Request("a", Prod :> On(1) @@ Test :> Off(2), "test" :> ("m" :> Closed("y")), FALSE),
      Request("a", Test :> On(2), NoMap, FALSE),
      Request("b", Other :> On(2), "other" :> ("m" :> To("x", {})), TRUE) }
=============================================================================
