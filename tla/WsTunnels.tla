----------------------------- MODULE WsTunnels -----------------------------
(***************************************************************************)
(* WebSocket tunnels, which cross two processes: the gateway, which admits  *)
(* them against its limits, and the agenda-node that relays them to the     *)
(* app. Both keep a wstunnel.Registry, with a slot reserved before the      *)
(* handshake is proxied and attached to its connection when the handshake   *)
(* succeeds. Shutting a process down, or decommissioning an instance,       *)
(* drains the tunnels first, for a bounded time.                            *)
(*                                                                          *)
(* The node's registry has no limits and nobody reads its counters: they    *)
(* are left out. Time is a number of ticks of the rate limiter; timeouts    *)
(* may fire at any time.                                                    *)
(***************************************************************************)
EXTENDS Integers, FiniteSets

CONSTANTS
    Conn,          \* upgrade requests
    IP,            \* the client address of each
    Route,         \* routes with WebSocket enabled
    Instance,
    Leaving,       \* the instance that is decommissioned
    None,
    MaxTotal, MaxPerRoute, MaxPerIP,   \* limits; 0 is no limit
    Burst, Rate, Cost,                 \* rate limiter: tokens, per tick, of a handshake
    MaxTicks       \* bound on ticks of the rate limiter

ASSUME TunnelsAssumption ==
    /\ IsFiniteSet(Conn)
    /\ Leaving \in Instance /\ None \notin Route \X Instance
    /\ {MaxTotal, MaxPerRoute, MaxPerIP, Burst, Rate, MaxTicks} \subseteq Nat
    /\ Cost \in Nat \ {0}

Client == {IP[c] : c \in Conn}
Key    == Route \X Instance
Proc   == {"gateway", "node"}

VARIABLES
    key,      \* the route and instance a request matched, or None
    slot,     \* by process and request: none, reserved, attached, released;
              \* at the gateway also matched and allowed, before the reservation
    byRoute, byKey, byIP,   \* the gateway's counters
    broken,   \* requests whose handshake failed or whose tunnel ended
    phase,    \* of each process: up, stopping, draining, closed, exited
    tokens, ticks, passed,  \* the rate limiter, and handshakes it let through
    teardown  \* decommission of Leaving: stage, routes polled in this round, tunnels
              \* they reported, and (for the property) requests that then held a slot

vars == <<key, slot, byRoute, byKey, byIP, broken, phase, tokens, ticks, passed, teardown>>

Round == [stage |-> "wait", polled |-> {}, active |-> 0, held |-> {}]

Init ==
    /\ key = [c \in Conn |-> None]
    /\ slot = [p \in Proc |-> [c \in Conn |-> "none"]]
    /\ byRoute = [r \in Route |-> 0] /\ byKey = [k \in Key |-> 0] /\ byIP = [i \in Client |-> 0]
    /\ broken = {}
    /\ phase = [p \in Proc |-> "up"]
    /\ tokens = Burst /\ ticks = 0 /\ passed = 0
    /\ teardown = [Round EXCEPT !.stage = "none"]

Holding(p)  == {c \in Conn : slot[p][c] \in {"reserved", "attached"}}
Attached(p) == {c \in Conn : slot[p][c] = "attached"}
-----------------------------------------------------------------------------
(***************************************************************************)
(* Admission at the gateway.                                                *)
(***************************************************************************)
\* ServeProxy: the cached snapshot may still name an instance that is leaving.
Match(c, k) ==
    /\ slot["gateway"][c] = "none" /\ phase["gateway"] \in {"up", "stopping"}
    /\ key' = [key EXCEPT ![c] = k]
    /\ slot' = [slot EXCEPT !["gateway"][c] = "matched"]
    /\ UNCHANGED <<byRoute, byKey, byIP, broken, phase, tokens, ticks, passed, teardown>>

\* rejectHandshake: another protocol, an origin that is not allowed.
Rejected(c) ==
    /\ slot["gateway"][c] = "matched"
    /\ slot' = [slot EXCEPT !["gateway"][c] = "released"]
    /\ UNCHANGED <<key, byRoute, byKey, byIP, broken, phase, tokens, ticks, passed, teardown>>

\* RateLimiter.Allow. A token is spent also on a handshake that is then refused.
Allow(c) ==
    /\ slot["gateway"][c] = "matched"
    /\ IF tokens < Cost
         THEN /\ slot' = [slot EXCEPT !["gateway"][c] = "released"]
              /\ UNCHANGED <<tokens, passed>>
         ELSE /\ slot' = [slot EXCEPT !["gateway"][c] = "allowed"]
              /\ tokens' = tokens - Cost /\ passed' = passed + 1
    /\ UNCHANGED <<key, byRoute, byKey, byIP, broken, phase, ticks, teardown>>

Refill == IF tokens + Rate > Burst THEN Burst ELSE tokens + Rate

Tick ==
    /\ ticks < MaxTicks /\ ticks' = ticks + 1
    /\ tokens' = Refill
    /\ UNCHANGED <<key, slot, byRoute, byKey, byIP, broken, phase, passed, teardown>>

Below(limit, n) == limit = 0 \/ n < limit

\* Mutation: only established tunnels count.
WithinLimitsEstablished(c) ==
    /\ Below(MaxTotal, Cardinality(Attached("gateway")))
    /\ Below(MaxPerRoute, Cardinality({d \in Attached("gateway") : key[d][1] = key[c][1]}))
    /\ Below(MaxPerIP, Cardinality({d \in Attached("gateway") : IP[d] = IP[c]}))

WithinLimits(c) ==
    /\ Below(MaxTotal, Cardinality(Holding("gateway")))
    /\ Below(MaxPerRoute, byRoute[key[c][1]])
    /\ Below(MaxPerIP, byIP[IP[c]])

Draining(p) == phase[p] # "up"

\* Admit, under the registry's lock: a reservation, or a refusal.
Admit(c) ==
    /\ slot["gateway"][c] = "allowed"
    /\ IF Draining("gateway") \/ ~WithinLimits(c)
         THEN /\ slot' = [slot EXCEPT !["gateway"][c] = "released"]
              /\ UNCHANGED <<byRoute, byKey, byIP>>
         ELSE /\ slot' = [slot EXCEPT !["gateway"][c] = "reserved"]
              /\ byRoute' = [byRoute EXCEPT ![key[c][1]] = @ + 1]
              /\ byKey' = [byKey EXCEPT ![key[c]] = @ + 1]
              /\ byIP' = [byIP EXCEPT ![IP[c]] = @ + 1]
    /\ UNCHANGED <<key, broken, phase, tokens, ticks, passed, teardown>>
-----------------------------------------------------------------------------
(***************************************************************************)
(* The handshake, hop by hop, and the end of a tunnel.                      *)
(***************************************************************************)
\* The relay: an unknown instance or a draining node refuses.
Relay(c) ==
    /\ slot["gateway"][c] = "reserved" /\ slot["node"][c] = "none" /\ c \notin broken
    /\ phase["node"] # "exited"
    /\ \/ /\ Draining("node") /\ broken' = broken \cup {c} /\ UNCHANGED slot
       \/ /\ ~Draining("node") /\ slot' = [slot EXCEPT !["node"][c] = "reserved"] /\ UNCHANGED broken
    /\ UNCHANGED <<key, byRoute, byKey, byIP, phase, tokens, ticks, passed, teardown>>

\* The app answers 101: the node hijacks, then the gateway.
NodeAttach(c) ==
    /\ slot["node"][c] = "reserved" /\ c \notin broken
    /\ ~(teardown.stage = "down" /\ key[c][2] = Leaving)
    /\ slot' = [slot EXCEPT !["node"][c] = "attached"]
    /\ UNCHANGED <<key, byRoute, byKey, byIP, broken, phase, tokens, ticks, passed, teardown>>

GatewayAttach(c) ==
    /\ slot["gateway"][c] = "reserved" /\ slot["node"][c] = "attached"
    /\ slot' = [slot EXCEPT !["gateway"][c] = "attached"]
    /\ UNCHANGED <<key, byRoute, byKey, byIP, broken, phase, tokens, ticks, passed, teardown>>

Break(cs) == broken' = broken \cup cs

\* Mutation: no bound on the time a handshake may take.
HandshakeFailsRefused(c) ==
    /\ slot["gateway"][c] = "reserved" /\ slot["node"][c] = "none" /\ c \notin broken
    /\ Break({c})
    /\ UNCHANGED <<key, slot, byRoute, byKey, byIP, phase, tokens, ticks, passed, teardown>>

\* A dial error, a refusal, or no response header within the timeout.
HandshakeFails(c) ==
    /\ slot["gateway"][c] = "reserved" /\ slot["node"][c] # "attached" /\ c \notin broken
    /\ Break({c})
    /\ UNCHANGED <<key, slot, byRoute, byKey, byIP, phase, tokens, ticks, passed, teardown>>

\* Either peer closes, or nothing crosses the tunnel for the idle timeout.
TunnelEnds(c) ==
    /\ c \in Attached("gateway") \cup Attached("node") /\ c \notin broken
    /\ Break({c})
    /\ UNCHANGED <<key, slot, byRoute, byKey, byIP, phase, tokens, ticks, passed, teardown>>

\* Mutation: a handshake that failed keeps its reservation at its address.
ReleaseTunnelOnly(p, c) ==
    /\ c \in Holding(p) /\ c \in broken
    /\ slot' = [slot EXCEPT ![p][c] = "released"]
    /\ IF p = "node" THEN UNCHANGED <<byRoute, byKey, byIP>>
       ELSE /\ byRoute' = [byRoute EXCEPT ![key[c][1]] = @ - 1]
            /\ byKey' = [byKey EXCEPT ![key[c]] = @ - 1]
            /\ byIP' = IF slot[p][c] = "attached" THEN [byIP EXCEPT ![IP[c]] = @ - 1] ELSE byIP
    /\ UNCHANGED <<key, broken, phase, tokens, ticks, passed, teardown>>

\* The deferred Release, when ServeHTTP returns.
Release(p, c) ==
    /\ c \in Holding(p) /\ c \in broken
    /\ slot' = [slot EXCEPT ![p][c] = "released"]
    /\ IF p = "node" THEN UNCHANGED <<byRoute, byKey, byIP>>
       ELSE /\ byRoute' = [byRoute EXCEPT ![key[c][1]] = @ - 1]
            /\ byKey' = [byKey EXCEPT ![key[c]] = @ - 1]
            /\ byIP' = [byIP EXCEPT ![IP[c]] = @ - 1]
    /\ UNCHANGED <<key, broken, phase, tokens, ticks, passed, teardown>>
-----------------------------------------------------------------------------
(***************************************************************************)
(* Shutdown of the gateway or of a node.                                    *)
(***************************************************************************)
SetPhase(p, from, to) == phase[p] = from /\ phase' = [phase EXCEPT ![p] = to]

BeginDrain(p) ==
    /\ SetPhase(p, "up", "stopping")
    /\ UNCHANGED <<key, slot, byRoute, byKey, byIP, broken, tokens, ticks, passed, teardown>>

\* http.Server.Shutdown: requests in flight end, or its deadline passes.
ListenersClosed(p) ==
    /\ SetPhase(p, "stopping", "draining")
    /\ UNCHANGED <<key, slot, byRoute, byKey, byIP, broken, tokens, ticks, passed, teardown>>

\* Drain returns when no slot is held.
Drained(p) ==
    /\ Holding(p) = {}
    /\ SetPhase(p, "draining", "closed")
    /\ UNCHANGED <<key, slot, byRoute, byKey, byIP, broken, tokens, ticks, passed, teardown>>

\* The drain's own deadline: CloseAll closes what has a connection by then.
CloseAll(p) ==
    /\ Holding(p) # {}
    /\ SetPhase(p, "draining", "closed")
    /\ Break(Attached(p))
    /\ UNCHANGED <<key, slot, byRoute, byKey, byIP, tokens, ticks, passed, teardown>>

\* The process exits; its connections and its registry go with it.
Exit(p) ==
    /\ SetPhase(p, "closed", "exited")
    /\ Break(Holding(p) \cup IF p = "node" THEN {} ELSE Holding("node"))
    /\ slot' = [slot EXCEPT ![p] = [c \in Conn |-> IF slot[p][c] = "none" THEN "none" ELSE "released"]]
    /\ IF p = "node" THEN UNCHANGED <<byRoute, byKey, byIP>>
       ELSE /\ byRoute' = [r \in Route |-> 0]
            /\ byKey' = [k \in Key |-> 0]
            /\ byIP' = [i \in Client |-> 0]
    /\ UNCHANGED <<key, tokens, ticks, passed, teardown>>
-----------------------------------------------------------------------------
(***************************************************************************)
(* gateway_ws_drain of a decommission, after its gateway_drain.             *)
(***************************************************************************)
StartDrainStep ==
    /\ teardown.stage = "none"
    /\ teardown' = Round
    /\ UNCHANGED <<key, slot, byRoute, byKey, byIP, broken, phase, tokens, ticks, passed>>

\* Mutation: reservations are not reported.
ActiveEstablished(r) ==
    Cardinality({c \in Attached("gateway") : key[c] = <<r, Leaving>>})

\* The gateway's count for one route and the instance, from Stats.
ActiveWebSocketConnections(r) == byKey[<<r, Leaving>>]

Poll(r) ==
    /\ teardown.stage = "wait" /\ r \notin teardown.polled /\ phase["gateway"] # "exited"
    /\ teardown' = [teardown EXCEPT !.polled = @ \cup {r},
                                    !.active = @ + ActiveWebSocketConnections(r),
                                    !.held = @ \cup {c \in Holding("gateway") : key[c] = <<r, Leaving>>}]
    /\ UNCHANGED <<key, slot, byRoute, byKey, byIP, broken, phase, tokens, ticks, passed>>

\* All routes asked: done at zero; otherwise the next round, or the deadline.
PollEnds ==
    /\ teardown.stage = "wait" /\ teardown.polled = Route
    /\ \/ teardown.active = 0 /\ teardown' = [teardown EXCEPT !.stage = "quiet"]
       \/ teardown.active # 0 /\ teardown' \in {Round, [teardown EXCEPT !.stage = "gave up"]}
    /\ UNCHANGED <<key, slot, byRoute, byKey, byIP, broken, phase, tokens, ticks, passed>>

\* A gateway that cannot be asked does not hold a decommission up.
PollFails ==
    /\ teardown.stage = "wait"
    /\ teardown' = [teardown EXCEPT !.stage = "gave up"]
    /\ UNCHANGED <<key, slot, byRoute, byKey, byIP, broken, phase, tokens, ticks, passed>>

\* compose down cuts what is still attached.
ComposeDown ==
    /\ teardown.stage \in {"quiet", "gave up"}
    /\ teardown' = [Round EXCEPT !.stage = "down"]
    /\ Break({c \in Holding("node") : key[c][2] = Leaving})
    /\ UNCHANGED <<key, slot, byRoute, byKey, byIP, phase, tokens, ticks, passed>>

Shutdown(p) == ListenersClosed(p) \/ Drained(p) \/ CloseAll(p) \/ Exit(p)

Next ==
    \/ \E c \in Conn, k \in Key : Match(c, k)
    \/ \E c \in Conn :
          \/ Rejected(c) \/ Allow(c) \/ Admit(c)
          \/ Relay(c) \/ NodeAttach(c) \/ GatewayAttach(c)
          \/ HandshakeFails(c) \/ TunnelEnds(c)
          \/ \E p \in Proc : Release(p, c)
    \/ Tick
    \/ \E p \in Proc : BeginDrain(p) \/ Shutdown(p)
    \/ StartDrainStep \/ PollEnds \/ PollFails \/ ComposeDown
    \/ \E r \in Route : Poll(r)

Spec == Init /\ [][Next]_vars

GatewayHandler(c) ==
    Admit(c) \/ HandshakeFails(c) \/ GatewayAttach(c) \/ Release("gateway", c)

\* Handlers and shutdowns go on and their timeouts fire; no peer has to close a
\* tunnel, and nobody has to open or to drain one.
FairSpec ==
    /\ Spec
    /\ \A p \in Proc : WF_vars(Shutdown(p))
    /\ \A c \in Conn : WF_vars(GatewayHandler(c))
-----------------------------------------------------------------------------
(***************************************************************************)
(* Properties.                                                              *)
(***************************************************************************)
\* The gateway's counters are the number of slots held per route, per key and
\* per address, after any mixture of failed handshakes, ended tunnels and
\* drains: a slot is never lost and never counted twice.
SlotsAccounted ==
    LET held == Holding("gateway")
    IN  /\ \A r \in Route : byRoute[r] = Cardinality({c \in held : key[c][1] = r})
        /\ \A k \in Key : byKey[k] = Cardinality({c \in held : key[c] = k})
        /\ \A i \in Client : byIP[i] = Cardinality({c \in held : IP[c] = i})

\* However many handshakes are in flight together, no more tunnels than allowed
\* are ever established or about to be (Registry: slots are reserved before
\* the handshake), and no more handshakes pass than the bucket has held.
LimitsHold ==
    LET held == Holding("gateway")
    IN  /\ MaxTotal # 0 => Cardinality(held) <= MaxTotal
        /\ MaxPerRoute # 0 => \A r \in Route : Cardinality({c \in held : key[c][1] = r}) <= MaxPerRoute
        /\ MaxPerIP # 0 => \A i \in Client : Cardinality({c \in held : IP[c] = i}) <= MaxPerIP
        /\ tokens \in 0..Burst /\ passed * Cost <= Burst + ticks * Rate

\* A decommission that found no tunnel left cuts none that was there, not even
\* as a handshake in flight, when its route was asked about. (One admitted
\* later, from a snapshot older than the route drain, is cut.)
DrainWaitsForTunnels ==
    teardown.stage = "quiet" => \A c \in teardown.held : slot["gateway"][c] = "released"

\* No handshake holds its reservation for ever (each request here is made
\* once), and a process that begins to drain exits, though no client ever
\* closes its tunnel.
NothingHangs ==
    <>[](/\ \A c \in Conn : slot["gateway"][c] # "reserved"
         /\ \A p \in Proc : phase[p] \in {"up", "exited"})
=============================================================================
