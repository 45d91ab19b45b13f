------------------------------ MODULE Gateway ------------------------------
(***************************************************************************)
(* The gateway process: its routes (GatewayRoutes) and its certificates     *)
(* (EdgeTLS), which follow the hosts of the cached routes. A restart loses  *)
(* the cache and the credentials at once.                                   *)
(***************************************************************************)
EXTENDS GatewayRoutes, EdgeTLS

vars == <<routeVars, tlsVars>>

Init == RoutesInit /\ TLSInit

GatewayRestart == RoutesRestart /\ TLSRestart

Next ==
    \/ RoutesNext /\ UNCHANGED tlsVars
    \/ TLSNext(CachedHosts) /\ UNCHANGED routeVars
    \/ GatewayRestart

Spec == Init /\ [][Next]_vars

\* The monitor pushes at every tick, the loop reconciles at every tick, and not
\* every push is lost.
TLSFairness ==
    /\ WF_tlsVars(Push) /\ SF_tlsVars(Reconfigure)
    /\ \A t \in Task : WF_tlsVars(TaskStep(t, CachedHosts))

FairSpec == Spec /\ RoutesFairness /\ TLSFairness

\* The credentials of the settings reach the gateway, across its restarts and
\* lost pushes (GatewayTLSMonitor), and the set of domains it may serve or
\* obtain certificates for catches up with the routes, whichever of the two
\* reconciles wrote last.
TLSCatchesUp ==
    <>[](settings # Unset =>
            tls.cfg = settings /\ tls.managed = Desired(settings, CachedHosts))
=============================================================================
