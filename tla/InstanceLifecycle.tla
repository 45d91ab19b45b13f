-------------------------- MODULE InstanceLifecycle --------------------------
(***************************************************************************)
(* The instances of one application environment between deploy,            *)
(* decommission and deletion, the gateway route they share, and the        *)
(* machines they run on. Requests and their goroutines race each other and *)
(* the machine monitor, which re-registers node proxies on every tick and  *)
(* finishes teardowns when a machine recovers.                             *)
(*                                                                         *)
(* The route's backend mode is all_enabled (Selected = Instance) or        *)
(* selected; every machine runs an agenda-node. A deploy is one compose_up *)
(* and one gateway_routes_sync step: what a run does with its steps is the *)
(* business of ReleasePipeline.                                            *)
(***************************************************************************)
EXTENDS Integers, FiniteSets

CONSTANTS
    Client,       \* concurrent requests, each with the goroutine it starts
    Free,         \* the lock key is absent
    Instance,     \* enabled instances of the environment
    Selected,     \* the instances the route may point at
    Machine,
    Host,         \* the machine of each instance
    MaxOps,       \* bound on requests
    MaxOutages,   \* bound on machines going down
    MaxRestarts   \* bound on restarts of nodes and of the control plane

ASSUME ConstantsAssumption ==
    /\ Free \notin Client
    /\ Instance # {}
    /\ Selected \subseteq Instance
    /\ Host \in [Instance -> Machine]
    /\ MaxOps \in Nat
    /\ MaxOutages \in Nat
    /\ MaxRestarts \in Nat

VARIABLES
    tgt,       \* application_env_target rows: the desired state, or deleted
    rel,       \* the newest release of an instance that was deployed
    box,       \* whether the instance has containers
    route,     \* the gateway's copy of the route
    lock,      \* the client whose token is in the deploy lock of an instance
    proc,      \* requests and their goroutines
    up,        \* whether a machine can be reached
    hb,        \* whether a machine's last heartbeat is within the online window
    proxy,     \* instances registered with their node's reverse proxy
    last,      \* MachineMonitor.lastOnline
    todo,      \* instances ReconcileStopped has yet to tear down
    ops, outages, restarts

vars == <<tgt, rel, box, route, lock, proc, up, hb, proxy, last, todo,
          ops, outages, restarts>>
world    == <<up, hb>>
monitor  == <<last, todo>>
counters == <<ops, outages, restarts>>

RuntimeState == {"running", "stopped", "deleted"}
Op == {"none", "deploy", "decommission", "delete"}
PC == {"idle", "lock", "build", "compose_up", "routes_sync", "flip",
       "set_stopped", "build_teardown", "drain", "compose_down",
       "recheck", "delete", "alert", "unlock"}

\* stopped: DesiredState as loaded; back: the backends the Builder resolved.
Proc == [pc: PC, op: Op, inst: Instance, stopped: BOOLEAN, back: SUBSET Instance]
Idle == [pc |-> "idle", op |-> "none", inst |-> CHOOSE i \in Instance : TRUE,
         stopped |-> FALSE, back |-> {}]

Init ==
    /\ tgt = [i \in Instance |-> "running"]
    /\ rel = [i \in Instance |-> "none"]
    /\ box = [i \in Instance |-> FALSE]
    /\ route = [enabled |-> FALSE, backends |-> {}]
    /\ lock = [i \in Instance |-> Free]
    /\ proc = [c \in Client |-> Idle]
    /\ up = [m \in Machine |-> TRUE]
    /\ hb = [m \in Machine |-> TRUE]
    /\ proxy = {}
    /\ last = [m \in Machine |-> "unknown"]
    /\ todo = {}
    /\ ops = 0 /\ outages = 0 /\ restarts = 0
-----------------------------------------------------------------------------
(***************************************************************************)
(* Helpers.                                                                *)
(***************************************************************************)
Goto(c, pc) == proc' = [proc EXCEPT ![c].pc = pc]
Planned(c, pc, back) == proc' = [proc EXCEPT ![c] = [@ EXCEPT !.pc = pc, !.back = back]]
Return(c)   == proc' = [proc EXCEPT ![c] = Idle]
At(c, pc)   == proc[c].pc = pc

\* Mutation: DEL without comparing the token.
ReleaseKeyUnchecked(c) == lock' = [lock EXCEPT ![proc[c].inst] = Free]

ReleaseKey(c) ==
    lock' = [lock EXCEPT ![proc[c].inst] = IF @ = c THEN Free ELSE @]

\* Backends as the target rows give them: enabled, not stopped, selected.
ResolveRouteBackends == {i \in Selected : tgt[i] = "running"}

Reachable(i) == up[Host[i]]

\* UPDATE ... WHERE id: a deleted row stays deleted.
SetInstanceDesiredState(i, state) ==
    tgt' = [tgt EXCEPT ![i] = IF @ = "deleted" THEN @ ELSE state]

Request(c, i, op) ==
    /\ At(c, "idle")
    /\ tgt[i] # "deleted"
    /\ ops < MaxOps
    /\ ops' = ops + 1
    /\ proc' = [proc EXCEPT ![c] = [pc |-> "lock", op |-> op, inst |-> i,
                                    stopped |-> tgt[i] = "stopped", back |-> {}]]
    /\ UNCHANGED <<tgt, rel, box, route, lock, proxy, outages, restarts>>
    /\ UNCHANGED <<world, monitor>>

\* The application's save with an instance left out deletes rows as well; only
\* the lifecycle API is modelled here.
DeployRequest(c, i) == Request(c, i, "deploy")
DecommissionRequest(c, i) == Request(c, i, "decommission")
DeleteRequest(c, i) == tgt[i] = "stopped" /\ Request(c, i, "delete")

\* AcquireKey answers at once: granted, or ErrDeployLocked.
Acquire(c) ==
    /\ At(c, "lock")
    /\ IF lock[proc[c].inst] = Free
         THEN /\ lock' = [lock EXCEPT ![proc[c].inst] = c]
              /\ \/ proc[c].op = "deploy" /\ Goto(c, "build")
                 \/ proc[c].op = "decommission" /\ Goto(c, "set_stopped")
                 \/ proc[c].op = "delete" /\ Goto(c, "recheck")
         ELSE Return(c) /\ UNCHANGED lock
    /\ UNCHANGED <<tgt, rel, box, route, proxy, world, monitor, counters>>

\* A handler that fails before its goroutine starts releases the lock with the
\* request's context: after a hang-up that call is lost too.
HandlerFails(c) ==
    /\ proc[c].pc \in {"build", "set_stopped", "build_teardown", "recheck", "delete"}
    /\ ReleaseKey(c) \/ UNCHANGED lock
    /\ Return(c)
    /\ UNCHANGED <<tgt, rel, box, route, proxy, world, monitor, counters>>
-----------------------------------------------------------------------------
(***************************************************************************)
(* Deploy.                                                                 *)
(***************************************************************************)
\* prepareRun: the backends are frozen into the gateway_routes_sync step.
DeployBuild(c) ==
    /\ At(c, "build")
    /\ Planned(c, "compose_up", ResolveRouteBackends)
    /\ UNCHANGED <<tgt, rel, box, route, lock, proxy, world, monitor, counters>>

\* Mutation: the sync step is part of every pipeline.
ComposeUpAlwaysSyncs(c) ==
    /\ At(c, "compose_up")
    /\ Reachable(proc[c].inst)
    /\ box' = [box EXCEPT ![proc[c].inst] = TRUE]
    /\ Goto(c, "routes_sync")
    /\ UNCHANGED <<tgt, rel, route, lock, proxy, world, monitor, counters>>

\* Without a backend there is no gateway_routes_sync step.
ComposeUp(c) ==
    LET i == proc[c].inst
    IN  /\ At(c, "compose_up")
        /\ Reachable(i)
        /\ box' = [box EXCEPT ![i] = TRUE]
        /\ Goto(c, IF proc[c].back = {} THEN "flip" ELSE "routes_sync")
        /\ UNCHANGED <<tgt, rel, route, lock, proxy, world, monitor, counters>>

\* Every backend's proxy is registered with its node, then the route is upserted.
GatewayRouteSync(c, enabled, backends, registered, next) ==
    /\ \A i \in registered : Reachable(i)
    /\ proxy' = proxy \cup registered
    /\ route' = [enabled |-> enabled, backends |-> backends]
    /\ Goto(c, next)
    /\ UNCHANGED <<tgt, rel, box, lock, world, monitor, counters>>

RoutesSync(c) ==
    /\ At(c, "routes_sync")
    /\ GatewayRouteSync(c, TRUE, proc[c].back, proc[c].back, "flip")

\* A failing step: compose may have started containers, a sync may have
\* registered some of the backends it can reach.
StepFails(c) ==
    /\ proc[c].pc \in {"compose_up", "routes_sync", "drain", "compose_down"}
    /\ \/ UNCHANGED <<box, proxy>>
       \/ /\ At(c, "compose_up") /\ Reachable(proc[c].inst)
          /\ box' = [box EXCEPT ![proc[c].inst] = TRUE]
          /\ UNCHANGED proxy
       \/ /\ proc[c].pc \in {"routes_sync", "drain"}
          /\ \E some \in SUBSET {i \in proc[c].back : Reachable(i)} :
                proxy' = proxy \cup some
          /\ UNCHANGED box
    /\ Goto(c, "alert")
    /\ UNCHANGED <<tgt, rel, route, lock, world, monitor, counters>>

\* syncReleaseStatus: stopped is what the request loaded, not what the row says.
DeploySucceeds(c) ==
    LET i == proc[c].inst
    IN  /\ At(c, "flip")
        /\ rel' = [rel EXCEPT ![i] = IF @ = "none" THEN "pending_verify" ELSE @]
        /\ IF proc[c].stopped THEN SetInstanceDesiredState(i, "running")
                              ELSE UNCHANGED tgt
        /\ Goto(c, "unlock")
        /\ UNCHANGED <<box, route, lock, proxy, world, monitor, counters>>

\* An operator verifies what was deployed.
VerifyRelease(i) ==
    /\ rel[i] = "pending_verify"
    /\ rel' = [rel EXCEPT ![i] = "verified"]
    /\ UNCHANGED <<tgt, box, route, lock, proc, proxy, world, monitor, counters>>

AlertSent(c) ==
    /\ At(c, "alert")
    /\ Goto(c, "unlock")
    /\ UNCHANGED <<tgt, rel, box, route, lock, proxy, world, monitor, counters>>

Unlock(c) ==
    /\ At(c, "unlock")
    /\ ReleaseKey(c)
    /\ Return(c)
    /\ UNCHANGED <<tgt, rel, box, route, proxy, world, monitor, counters>>
-----------------------------------------------------------------------------
(***************************************************************************)
(* Decommission and deletion.                                              *)
(***************************************************************************)
PersistStopped(c) ==
    /\ At(c, "set_stopped")
    /\ SetInstanceDesiredState(proc[c].inst, "stopped")
    /\ Goto(c, "build_teardown")
    /\ UNCHANGED <<rel, box, route, lock, proxy, world, monitor, counters>>

BuildTeardown(c) ==
    /\ At(c, "build_teardown")
    /\ Planned(c, "drain", ResolveRouteBackends \ {proc[c].inst})
    /\ UNCHANGED <<tgt, rel, box, route, lock, proxy, world, monitor, counters>>

\* Without a survivor the route is disabled and keeps an unregistered
\* placeholder. The bounded wait for WebSocket tunnels that follows changes
\* nothing.
GatewayDrain(c) ==
    LET back == proc[c].back
    IN  /\ At(c, "drain")
        /\ GatewayRouteSync(c, back # {}, IF back = {} THEN {proc[c].inst} ELSE back,
                            back, "compose_down")

ComposeDown(c) ==
    /\ At(c, "compose_down")
    /\ Reachable(proc[c].inst)
    /\ box' = [box EXCEPT ![proc[c].inst] = FALSE]
    /\ Goto(c, "unlock")
    /\ UNCHANGED <<tgt, rel, route, lock, proxy, world, monitor, counters>>

\* Mutation: the check made before the lock is trusted.
RecheckSkipped(c) ==
    /\ At(c, "recheck")
    /\ Goto(c, "delete")
    /\ UNCHANGED <<tgt, rel, box, route, lock, proxy, world, monitor, counters>>

\* DeleteInstance reads the row again under the lock.
Recheck(c) ==
    /\ At(c, "recheck")
    /\ Goto(c, IF tgt[proc[c].inst] = "stopped" THEN "delete" ELSE "unlock")
    /\ UNCHANGED <<tgt, rel, box, route, lock, proxy, world, monitor, counters>>

\* Releases and the gateway's copy of the route outlive the row.
DeleteRow(c) ==
    /\ At(c, "delete")
    /\ tgt' = [tgt EXCEPT ![proc[c].inst] = "deleted"]
    /\ Goto(c, "unlock")
    /\ UNCHANGED <<rel, box, route, lock, proxy, world, monitor, counters>>
-----------------------------------------------------------------------------
(***************************************************************************)
(* The machine monitor.                                                    *)
(***************************************************************************)
\* Targets that have a verified release, stopped ones included.
ResyncMachine(m) ==
    {i \in Instance : Host[i] = m /\ up[m] /\ tgt[i] # "deleted" /\ rel[i] = "verified"}

\* Mutation: proxies are registered again on an observed edge only.
ResyncOnEdge(m) == IF hb[m] /\ last[m] # "online" THEN ResyncMachine(m) ELSE {}

ResyncProxies(m) == IF hb[m] THEN ResyncMachine(m) ELSE {}

\* One machine of evaluateOnce. Teardowns are listed on the first observation
\* of an online machine and on recovery.
Evaluate(m) ==
    /\ todo = {}
    /\ proxy' = proxy \cup ResyncProxies(m)
    /\ last' = [last EXCEPT ![m] = IF hb[m] THEN "online" ELSE "offline"]
    /\ todo' = IF hb[m] /\ last[m] # "online"
                 THEN {i \in Instance : Host[i] = m /\ tgt[i] = "stopped"}
                 ELSE {}
    /\ UNCHANGED <<tgt, rel, box, route, lock, proc, world, counters>>

\* ReconcileStopped goes through its list without the deploy lock; a failed
\* teardown is skipped until the next recovery.
ReconcileStopped(i) ==
    /\ i \in todo
    /\ todo' = todo \ {i}
    /\ \/ Reachable(i) /\ box' = [box EXCEPT ![i] = FALSE]
       \/ UNCHANGED box
    /\ UNCHANGED <<tgt, rel, route, lock, proc, proxy, world, last, counters>>
-----------------------------------------------------------------------------
(***************************************************************************)
(* The environment.                                                        *)
(***************************************************************************)
MachineDown(m) ==
    /\ up[m] /\ outages < MaxOutages
    /\ outages' = outages + 1
    /\ up' = [up EXCEPT ![m] = FALSE]
    /\ UNCHANGED <<tgt, rel, box, route, lock, proc, hb, proxy, monitor, ops, restarts>>

MachineUp(m) ==
    /\ ~up[m]
    /\ up' = [up EXCEPT ![m] = TRUE]
    /\ UNCHANGED <<tgt, rel, box, route, lock, proc, hb, proxy, monitor, counters>>

\* The node's heartbeat arrives, or the online window passes without one.
Heartbeat(m) ==
    /\ hb[m] # up[m]
    /\ hb' = [hb EXCEPT ![m] = up[m]]
    /\ UNCHANGED <<tgt, rel, box, route, lock, proc, up, proxy, monitor, counters>>

\* The node's proxy registry is in memory only.
NodeRestart(m) ==
    /\ up[m] /\ restarts < MaxRestarts
    /\ restarts' = restarts + 1
    /\ proxy' = {i \in proxy : Host[i] # m}
    /\ UNCHANGED <<tgt, rel, box, route, lock, proc, world, monitor, ops, outages>>

Crash ==
    /\ restarts < MaxRestarts
    /\ restarts' = restarts + 1
    /\ proc' = [c \in Client |-> Idle]
    /\ last' = [m \in Machine |-> "unknown"]
    /\ todo' = {}
    /\ UNCHANGED <<tgt, rel, box, route, lock, world, proxy, ops, outages>>

\* Between AcquireKey and the end of the run the TTL does not pass: it is the
\* run's timeout and 30 seconds more, the time an alert may take.
Working(c, i) ==
    proc[c].inst = i /\ proc[c].pc \notin {"idle", "lock", "alert", "unlock"}

LockExpires(i) ==
    /\ lock[i] # Free
    /\ ~Working(lock[i], i)
    /\ ~(proc[lock[i]].inst = i /\ At(lock[i], "unlock"))
    /\ lock' = [lock EXCEPT ![i] = Free]
    /\ UNCHANGED <<tgt, rel, box, route, proc, proxy, world, monitor, counters>>

ProcStep(c) ==
    \/ Acquire(c)
    \/ DeployBuild(c) \/ ComposeUp(c) \/ RoutesSync(c) \/ DeploySucceeds(c)
    \/ PersistStopped(c) \/ BuildTeardown(c) \/ GatewayDrain(c) \/ ComposeDown(c)
    \/ Recheck(c) \/ DeleteRow(c)
    \/ StepFails(c) \/ AlertSent(c) \/ Unlock(c)

MonitorStep ==
    \/ \E m \in Machine : Evaluate(m)
    \/ \E i \in Instance : ReconcileStopped(i)

Next ==
    \/ \E c \in Client, i \in Instance :
          DeployRequest(c, i) \/ DecommissionRequest(c, i) \/ DeleteRequest(c, i)
    \/ \E c \in Client : ProcStep(c) \/ HandlerFails(c)
    \/ \E i \in Instance : VerifyRelease(i) \/ LockExpires(i)
    \/ MonitorStep
    \/ \E m \in Machine : MachineDown(m) \/ MachineUp(m) \/ Heartbeat(m) \/ NodeRestart(m)
    \/ Crash

Spec == Init /\ [][Next]_vars

\* The monitor ticks for every machine and its loops end; a machine that is up
\* sends heartbeats.
Fairness ==
    /\ \A m \in Machine : WF_vars(Evaluate(m)) /\ WF_vars(Heartbeat(m))
    /\ \A i \in Instance : WF_vars(ReconcileStopped(i))

FairSpec == Spec /\ Fairness
-----------------------------------------------------------------------------
(***************************************************************************)
(* Properties.                                                             *)
(***************************************************************************)
\* Rows, requests, machines and the monitor have their declared shape; the
\* gateway never gets an enabled route without a backend, which it would reject.
TypeOK ==
    /\ tgt \in [Instance -> RuntimeState]
    /\ rel \in [Instance -> {"none", "pending_verify", "verified"}]
    /\ box \in [Instance -> BOOLEAN]
    /\ route \in [enabled: BOOLEAN, backends: SUBSET Instance]
    /\ route.enabled => route.backends # {}
    /\ lock \in [Instance -> Client \cup {Free}]
    /\ proc \in [Client -> Proc]
    /\ up \in [Machine -> BOOLEAN] /\ hb \in [Machine -> BOOLEAN]
    /\ proxy \subseteq Instance
    /\ last \in [Machine -> {"unknown", "online", "offline"}]
    /\ todo \subseteq Instance
    /\ ops \in 0..MaxOps /\ outages \in 0..MaxOutages /\ restarts \in 0..MaxRestarts

\* Deploy, decommission and deletion of one instance exclude each other
\* (the per-instance deploy lock), also when a lock expires under a run that is
\* still sending its alert.
LifecycleExclusive ==
    \A i \in Instance, c1, c2 \in Client :
        Working(c1, i) /\ Working(c2, i) => c1 = c2

\* Only a decommissioned instance's record is deleted (DeleteInstance's safety
\* property), and never underneath a teardown that is still running or a deploy
\* that is bringing the instance back.
DeleteIsSafe ==
    [][\A i \in Instance :
          tgt[i] # "deleted" /\ tgt'[i] = "deleted" =>
             /\ tgt[i] = "stopped"
             /\ \A c \in Client : Working(c, i) => proc[c].op = "delete"]_vars

\* A verified instance on a machine that stays up ends up, and stays,
\* registered with its node's proxy (ProxyResyncService), whatever restarts of
\* the node went unnoticed.
ProxyRestored ==
    \A i \in Instance :
        <>[](Reachable(i) /\ rel[i] = "verified" /\ tgt[i] # "deleted")
            => <>[](i \in proxy)

\* A successful deploy is the way to bring a decommissioned instance back
\* online (syncReleaseStatus): it ends with the instance in the route.
BroughtBackIsServed ==
    [][\A c \in Client :
          LET i == proc[c].inst
          IN  At(c, "flip") /\ proc'[c].pc = "unlock" /\ proc[c].stopped /\ i \in Selected
                 => route'.enabled /\ i \in route'.backends]_vars
=============================================================================
