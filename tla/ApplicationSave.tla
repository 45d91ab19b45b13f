-------------------------- MODULE ApplicationSave --------------------------
(***************************************************************************)
(* Saving applications: syncTargets writes an application's instances, then *)
(* the gateway routes of the environments the request names, then the pins  *)
(* of the routes, then removes what the request leaves out. Every statement *)
(* is on its own: a save can fail or lose its process between any two, and  *)
(* can overlap another save, the deletion of an instance or of the          *)
(* application, and the operator's decommissions.                           *)
(*                                                                          *)
(* Environments belong to one application each and all instances run on one *)
(* machine. Of a row, only what saves and validations read is kept.         *)
(***************************************************************************)
EXTENDS Integers, FiniteSets

CONSTANTS
    Console,      \* requests at one time
    App, Env, AppOf,   \* applications, their environments
    Name,         \* instance names
    Port, Key, Site,   \* ports, route keys, hosts with their paths
    Save,         \* requests: app, targets by slot (port, enabled), routes by
                  \* environment and key (site, pins, enabled: not on a disabled
                  \* instance), creating
    None,
    MaxRequests,  \* bound on requests
    MaxIntents    \* bound on decommissions and deploys

Slot == Env \X Name

\* What is kept of a row of application_env_target and application_gateway_route.
TargetRow == [id : Nat, port : Port, enabled : BOOLEAN, desired : {"running", "stopped"},
              asked : BOOLEAN]
RouteRow  == [env : Env, site : Site, enabled : BOOLEAN]

ASSUME SaveAssumption ==
    /\ AppOf \in [Env -> App] /\ None \notin App
    /\ None \notin TargetRow /\ None \notin RouteRow
    /\ \A q \in Save :
          /\ q.app \in App /\ q.creating \in BOOLEAN
          /\ DOMAIN q.targets \subseteq Slot /\ DOMAIN q.routes \subseteq Env
          /\ \A s \in DOMAIN q.targets :
                /\ AppOf[s[1]] = q.app
                /\ q.targets[s].port \in Port /\ q.targets[s].enabled \in BOOLEAN
          /\ \A e \in DOMAIN q.routes :
                /\ \E s \in DOMAIN q.targets : s[1] = e
                /\ \A k \in DOMAIN q.routes[e] :
                      /\ k \in Key /\ q.routes[e][k].site \in Site
                      /\ q.routes[e][k].enabled \in BOOLEAN
                      /\ q.routes[e][k].pins \subseteq Slot
    /\ MaxRequests \in Nat /\ MaxIntents \in Nat

VARIABLES
    apps,      \* application: not yet created, there, or deleted
    target,    \* application_env_target by slot; asked is for the property: enabled
               \* as the last save asked for
    route,     \* application_gateway_route by key
    pins,      \* application_gateway_route_backend: target ids by route
    proc,      \* the requests
    ids,       \* target ids given out
    stopped,   \* for the property: ids the operator has decommissioned
    deleted,   \* for the property: ids DeleteInstance has removed
    stranded,  \* for the property: environments whose last instance a DeleteInstance
               \* removed, and that was cut before it disabled their routes
    spoiled,   \* for the properties: two requests overlapped
    requests, intents

ghosts == <<stopped, deleted, stranded, spoiled>>
bounds == <<requests, intents>>
vars == <<apps, target, route, pins, proc, ids, ghosts, bounds>>

Idle == [pc |-> "idle"]

Init ==
    /\ apps = [a \in App |-> "new"]
    /\ target = [s \in Slot |-> None]
    /\ route = [k \in Key |-> None]
    /\ pins = [k \in Key |-> {}]
    /\ proc = [p \in Console |-> Idle]
    /\ ids = 0 /\ stopped = {} /\ deleted = {} /\ stranded = {} /\ spoiled = FALSE
    /\ requests = 0 /\ intents = 0

At(p, pc)   == proc[p].pc = pc
Rows(slots) == {s \in slots : target[s] # None}
Of(app)     == {s \in Slot : AppOf[s[1]] = app}

Begin(p, state) ==
    /\ At(p, "idle")
    /\ requests < MaxRequests /\ requests' = requests + 1
    /\ proc' = [proc EXCEPT ![p] = state]
    /\ spoiled' = (spoiled \/ \E o \in Console \ {p} : ~At(o, "idle"))
-----------------------------------------------------------------------------
(***************************************************************************)
(* Create and Update: syncTargets.                                          *)
(***************************************************************************)
\* Pins are ids of the rows as the save begins. An older one of the console's is
\* refused (SyncPins), and the save ends as in Fails.
PinIds(q) ==
    [e \in DOMAIN q.routes |-> [k \in DOMAIN q.routes[e] |->
        {target[s].id : s \in Rows(q.routes[e][k].pins)}]]

Routes(q) == UNION {{e} \X DOMAIN q.routes[e] : e \in DOMAIN q.routes}

\* What the validation looks up: the port of every enabled target, the key and the
\* site of every route, by one statement each.
Checks(q) ==
    ({"port"} \X {s \in DOMAIN q.targets : q.targets[s].enabled})
        \cup ({"key", "site"} \X Routes(q))

\* The application's rows are read once, before the validation.
StartSave(p, q) ==
    /\ apps[q.app] = IF q.creating THEN "new" ELSE "there"
    /\ apps' = [apps EXCEPT ![q.app] = "there"]
    /\ Begin(p, [pc |-> "validate", req |-> q, want |-> PinIds(q), left |-> Checks(q),
                 existing |-> [s \in Rows(Of(q.app)) |-> target[s].id]])
    /\ UNCHANGED <<target, route, pins, ids, stopped, deleted, stranded, intents>>

Known(p, s) == IF s \in DOMAIN proc[p].existing THEN proc[p].existing[s] ELSE 0

\* Mutation: only the ports of the request are compared.
PortTakenInRequest(p, s) ==
    LET q == proc[p].req
    IN  \E t \in DOMAIN q.targets \ {s} : q.targets[t].enabled /\ q.targets[t].port = q.targets[s].port

\* ListEnabledByMachinePort.
PortTaken(p, s) ==
    \E t \in Rows(Slot) : /\ target[t].enabled /\ target[t].port = proc[p].req.targets[s].port
                          /\ target[t].id # Known(p, s)

\* FindByRouteKey and FindByHostPath. A stored route is the same one if its
\* environment and key are (requests here carry no ids of routes: one under
\* another key fails when it is inserted a second time).
KeyTaken(e, k) == route[k] # None /\ route[k].env # e

SiteTaken(q, e, k) ==
    \E j \in Key : /\ route[j] # None /\ route[j].site = q.routes[e][k].site
                   /\ j # k \/ route[j].env # e

Passes(p, c) ==
    \/ c[1] = "port" /\ ~PortTaken(p, c[2])
    \/ c[1] = "key"  /\ ~KeyTaken(c[2][1], c[2][2])
    \/ c[1] = "site" /\ ~SiteTaken(proc[p].req, c[2][1], c[2][2])

Move(p, changes) == proc' = [proc EXCEPT ![p] = [x \in DOMAIN @ \cup DOMAIN changes |->
                                 IF x \in DOMAIN changes THEN changes[x] ELSE @[x]]]

\* One statement of validateTarget or validateGatewayRoutes, which asks for a
\* route's key before its site.
Check(p) ==
    /\ At(p, "validate")
    /\ \E c \in proc[p].left :
          /\ c[1] = "site" => <<"key", c[2]>> \notin proc[p].left
          /\ Passes(p, c)
          /\ Move(p, [left |-> proc[p].left \ {c}])
    /\ UNCHANGED <<apps, target, route, pins, ids, ghosts, bounds>>

\* What is compared within a request: the ports of its enabled targets, and the
\* keys and sites of its routes (validateAccumulatedGatewayRoutes).
Distinct(q) ==
    /\ \A s, t \in DOMAIN q.targets :
          s # t /\ q.targets[s].enabled /\ q.targets[t].enabled => q.targets[s].port # q.targets[t].port
    /\ \A a, b \in Routes(q) :
          a # b => a[2] # b[2] /\ q.routes[a[1]][a[2]].site # q.routes[b[1]][b[2]].site

\* A route that selects its backends needs one.
Validated(p) ==
    LET q == proc[p].req
    IN  /\ At(p, "validate") /\ proc[p].left = {}
        /\ Distinct(q)
        /\ \A r \in Routes(q) : q.routes[r[1]][r[2]].pins # {} => proc[p].want[r[1]][r[2]] # {}
        /\ Move(p, [pc |-> "targets", left |-> DOMAIN q.targets, valid |-> [s \in {} |-> 0]])
        /\ UNCHANGED <<apps, target, route, pins, ids, ghosts, bounds>>

\* A row that was read and is gone by now is created under its old id.
Created(p, s) ==
    LET want == proc[p].req.targets[s]
        old  == Known(p, s)
    IN  [id |-> IF old # 0 THEN old ELSE ids + 1, port |-> want.port,
         enabled |-> TRUE, desired |-> "running", asked |-> want.enabled]

\* Mutation: the whole row is written, with the state of a new one.
UpdatedWhole(p, s) ==
    [target[s] EXCEPT !.port = proc[p].req.targets[s].port, !.enabled = proc[p].req.targets[s].enabled,
                      !.asked = proc[p].req.targets[s].enabled, !.desired = "running"]

\* The update leaves desired_state out.
Updated(p, s) ==
    [target[s] EXCEPT !.port = proc[p].req.targets[s].port, !.enabled = proc[p].req.targets[s].enabled,
                      !.asked = proc[p].req.targets[s].enabled]

\* Upsert finds the row by its slot. A created one is enabled whatever was asked
\* for: the column has a default, so that the insert leaves false out.
Upsert(p, s) ==
    /\ At(p, "targets") /\ s \in proc[p].left
    /\ LET row == IF target[s] = None THEN Created(p, s) ELSE Updated(p, s)
       IN  /\ target' = [target EXCEPT ![s] = row]
           /\ ids' = IF row.id > ids THEN row.id ELSE ids
           /\ Move(p, [left |-> proc[p].left \ {s},
                       valid |-> [t \in DOMAIN proc[p].valid \cup {s} |->
                                    IF t = s THEN row.id ELSE proc[p].valid[t]]])
           /\ stopped' = IF target[s] = None THEN stopped \ {row.id} ELSE stopped
    /\ stranded' = stranded \ {s[1]}
    /\ UNCHANGED <<apps, route, pins, deleted, spoiled, bounds>>

\* Mutation: an environment whose routes no instance of the request names is
\* synchronised with no routes.
ProvidedAll(q) == {s[1] : s \in DOMAIN q.targets}

\* routesProvidedEnv.
Provided(q) == DOMAIN q.routes

TargetsWritten(p) ==
    /\ At(p, "targets") /\ proc[p].left = {}
    /\ Move(p, [pc |-> "routes", left |-> Provided(proc[p].req)])
    /\ UNCHANGED <<apps, target, route, pins, ids, ghosts, bounds>>

\* SyncByApplicationEnv: the routes asked for are written, the others of the
\* environment disabled. A created one is enabled whatever was asked for.
Synced(e, asked) ==
    [k \in Key |->
        IF k \in DOMAIN asked
          THEN [env |-> e, site |-> asked[k].site, enabled |-> asked[k].enabled \/ route[k] = None]
        ELSE IF route[k] # None /\ route[k].env = e THEN [route[k] EXCEPT !.enabled = FALSE]
        ELSE route[k]]

NoRoutes == [k \in {} |-> None]
Asked(q, e) == IF e \in DOMAIN q.routes THEN q.routes[e] ELSE NoRoutes

\* The unique indexes on key, and on host and path.
Unique(routes, e, asked) ==
    /\ \A k \in DOMAIN asked : route[k] # None => route[k].env = e
    /\ \A j, k \in Key : j # k /\ routes[j] # None /\ routes[k] # None => routes[j].site # routes[k].site

\* A created route has an id of its own, without pins.
SyncRoutes(p, e) ==
    LET asked == Asked(proc[p].req, e)
    IN  /\ At(p, "routes") /\ e \in proc[p].left
        /\ Unique(Synced(e, asked), e, asked)
        /\ route' = Synced(e, asked)
        /\ pins' = [k \in Key |-> IF k \in DOMAIN asked /\ route[k] = None THEN {} ELSE pins[k]]
        /\ Move(p, [pc |-> "pins", left |-> proc[p].left \ {e}, env |-> e, keys |-> DOMAIN asked])
        /\ UNCHANGED <<apps, target, ids, ghosts, bounds>>

\* SyncByRoute, for pins that name instances of the request.
SyncPins(p, k) ==
    LET want == proc[p].want[proc[p].env][k]
    IN  /\ At(p, "pins") /\ k \in proc[p].keys
        /\ want \subseteq {proc[p].valid[s] : s \in {t \in DOMAIN proc[p].valid : t[1] = proc[p].env}}
        /\ pins' = [pins EXCEPT ![k] = want]
        /\ Move(p, [keys |-> proc[p].keys \ {k}])
        /\ UNCHANGED <<apps, target, route, ids, ghosts, bounds>>

PinsWritten(p) ==
    /\ At(p, "pins") /\ proc[p].keys = {}
    /\ Move(p, [pc |-> "routes"])
    /\ UNCHANGED <<apps, target, route, pins, ids, ghosts, bounds>>

\* The rows read at the start that the request leaves out.
RoutesWritten(p) ==
    /\ At(p, "routes") /\ proc[p].left = {}
    /\ Move(p, [pc |-> "omitted",
                left |-> DOMAIN proc[p].existing \ DOMAIN proc[p].req.targets])
    /\ UNCHANGED <<apps, target, route, pins, ids, ghosts, bounds>>

EnvStays(p, e) == \E s \in DOMAIN proc[p].req.targets : s[1] = e

\* Mutation: an environment that is left out keeps its routes.
DisableFirstNever(p, s) == FALSE

\* The routes of an environment that is left out go first.
DisableFirst(p, s) == ~EnvStays(p, s[1])

Omit(p, s) ==
    /\ At(p, "omitted") /\ s \in proc[p].left
    /\ route' = IF DisableFirst(p, s) THEN Synced(s[1], NoRoutes) ELSE route
    /\ Move(p, [pc |-> "delete", slot |-> s])
    /\ UNCHANGED <<apps, target, pins, ids, ghosts, bounds>>

DeleteOmitted(p) ==
    LET s == proc[p].slot
    IN  /\ At(p, "delete")
        /\ target' = [target EXCEPT ![s] = None]
        /\ Move(p, [pc |-> "omitted", left |-> proc[p].left \ {s}])
        /\ UNCHANGED <<apps, route, pins, ids, ghosts, bounds>>

Saved(p) ==
    /\ At(p, "omitted") /\ proc[p].left = {}
    /\ proc' = [proc EXCEPT ![p] = Idle]
    /\ UNCHANGED <<apps, target, route, pins, ids, ghosts, bounds>>
-----------------------------------------------------------------------------
(***************************************************************************)
(* DeleteInstance and Delete. Health rows are left out.                     *)
(***************************************************************************)
\* Only a decommissioned instance is deleted; its pins go first.
DeleteInstance(p, s) ==
    /\ target[s] # None /\ target[s].desired = "stopped"
    /\ Begin(p, [pc |-> "unpin", slot |-> s, id |-> target[s].id])
    /\ UNCHANGED <<apps, target, route, pins, ids, stopped, deleted, stranded, intents>>

\* Mutation: the pins are left to the next save.
DeletePinsLater(p) ==
    /\ At(p, "unpin")
    /\ Move(p, [pc |-> "siblings"])
    /\ UNCHANGED <<apps, target, route, pins, ids, ghosts, bounds>>

DeletePins(p) ==
    /\ At(p, "unpin")
    /\ pins' = [k \in Key |-> pins[k] \ {proc[p].id}]
    /\ Move(p, [pc |-> "siblings"])
    /\ UNCHANGED <<apps, target, route, ids, ghosts, bounds>>

ListSiblings(p) ==
    LET e == proc[p].slot[1]
    IN  /\ At(p, "siblings")
        /\ Move(p, [pc |-> "remove", last |-> \A s \in Rows(Slot) : s[1] = e => target[s].id = proc[p].id])
        /\ UNCHANGED <<apps, target, route, pins, ids, ghosts, bounds>>

RemoveInstance(p) ==
    /\ At(p, "remove")
    /\ target' = [target EXCEPT ![proc[p].slot] = None]
    /\ deleted' = deleted \cup {proc[p].id}
    /\ IF proc[p].last THEN Move(p, [pc |-> "disable"]) ELSE proc' = [proc EXCEPT ![p] = Idle]
    /\ UNCHANGED <<apps, route, pins, ids, stopped, stranded, spoiled, bounds>>

\* The last instance of an environment takes its routes along.
DisableRoutes(p) ==
    /\ At(p, "disable")
    /\ route' = Synced(proc[p].slot[1], NoRoutes)
    /\ proc' = [proc EXCEPT ![p] = Idle]
    /\ UNCHANGED <<apps, target, pins, ids, ghosts, bounds>>

Delete(p, app) ==
    /\ apps[app] = "there"
    /\ Begin(p, [pc |-> "drop routes", app |-> app])
    /\ UNCHANGED <<apps, target, route, pins, ids, stopped, deleted, stranded, intents>>

\* The pins of a deleted route stay, under an id that is not given out again.
DeleteRoutes(p) ==
    LET gone == {k \in Key : route[k] # None /\ AppOf[route[k].env] = proc[p].app}
    IN  /\ At(p, "drop routes")
        /\ route' = [k \in Key |-> IF k \in gone THEN None ELSE route[k]]
        /\ Move(p, [pc |-> "drop targets"])
        /\ UNCHANGED <<apps, target, pins, ids, ghosts, bounds>>

DeleteTargets(p) ==
    /\ At(p, "drop targets")
    /\ target' = [s \in Slot |-> IF s \in Of(proc[p].app) THEN None ELSE target[s]]
    /\ Move(p, [pc |-> "drop app"])
    /\ UNCHANGED <<apps, route, pins, ids, ghosts, bounds>>

DeleteApp(p) ==
    /\ At(p, "drop app")
    /\ apps' = [apps EXCEPT ![proc[p].app] = "gone"]
    /\ proc' = [proc EXCEPT ![p] = Idle]
    /\ UNCHANGED <<target, route, pins, ids, ghosts, bounds>>
-----------------------------------------------------------------------------
\* A validation or a statement fails, or the process is lost. A failed Create
\* deletes the application, not the rows written so far.
Fails(p) ==
    /\ ~At(p, "idle")
    /\ \/ UNCHANGED apps
       \/ /\ "req" \in DOMAIN proc[p] /\ proc[p].req.creating
          /\ apps' = [apps EXCEPT ![proc[p].req.app] = "gone"]
    /\ stranded' = IF At(p, "disable") THEN stranded \cup {proc[p].slot[1]} ELSE stranded
    /\ proc' = [proc EXCEPT ![p] = Idle]
    /\ UNCHANGED <<target, route, pins, ids, stopped, deleted, spoiled, bounds>>

\* SetInstanceDesiredState, by a decommission or after a deploy.
SetInstanceDesiredState(s, state) ==
    /\ target[s] # None /\ target[s].desired # state
    /\ intents < MaxIntents /\ intents' = intents + 1
    /\ target' = [target EXCEPT ![s].desired = state]
    /\ stopped' = IF state = "stopped" THEN stopped \cup {target[s].id} ELSE stopped \ {target[s].id}
    /\ UNCHANGED <<apps, route, pins, proc, ids, deleted, stranded, spoiled, requests>>

Next ==
    \/ \E p \in Console :
          \/ \E q \in Save : StartSave(p, q)
          \/ \E s \in Slot : DeleteInstance(p, s)
          \/ \E app \in App : Delete(p, app)
          \/ Check(p) \/ Validated(p) \/ TargetsWritten(p) \/ PinsWritten(p) \/ RoutesWritten(p) \/ Saved(p)
          \/ \E s \in Slot : Upsert(p, s) \/ Omit(p, s)
          \/ \E e \in Env : SyncRoutes(p, e)
          \/ \E k \in Key : SyncPins(p, k)
          \/ DeleteOmitted(p)
          \/ DeletePins(p) \/ ListSiblings(p) \/ RemoveInstance(p) \/ DisableRoutes(p)
          \/ DeleteRoutes(p) \/ DeleteTargets(p) \/ DeleteApp(p)
          \/ Fails(p)
    \/ \E s \in Slot, state \in {"running", "stopped"} : SetInstanceDesiredState(s, state)

Spec == Init /\ [][Next]_vars
-----------------------------------------------------------------------------
(***************************************************************************)
(* Properties.                                                              *)
(***************************************************************************)
\* What the operator last asked of an instance stands, whatever saves began
\* before it and end after it, until the row is deleted: a config edit never
\* resurrects a decommissioned instance (ApplicationEnvTarget.DesiredState).
IntentStands ==
    \A s \in Rows(Slot) : (target[s].desired = "stopped") = (target[s].id \in stopped)

\* Two instances the operator enabled never share a port (validateTarget), also
\* when a save stopped half-way through its rows; of saves that did not overlap.
PortsUnique ==
    ~spoiled =>
        \A s, t \in {r \in Rows(Slot) : target[r].enabled /\ target[r].asked} :
            s # t => target[s].port # target[t].port

\* An environment without instances has no enabled route, at any moment of a save
\* and wherever it is cut, and after any deletion (syncTargets, DeleteInstance,
\* Delete); of requests that do not overlap. One cut is an exception, as
\* DeleteInstance removes the instance first: between that and the disabling of
\* its routes they are enabled without an instance, and stay so, if it ends
\* there, until the environment has an instance again.
RoutesNeedInstances ==
    ~spoiled =>
        \A k \in Key :
            route[k] # None /\ route[k].enabled =>
                \/ \E s \in Rows(Slot) : s[1] = route[k].env
                \/ \E p \in Console : At(p, "disable") /\ proc[p].slot[1] = route[k].env
                \/ route[k].env \in stranded

\* No route is pinned to an instance DeleteInstance has removed, wherever the
\* deletion is cut: such a pin makes every later save fail (DeleteByTargetID). Of
\* requests that do not overlap: a save that pins the instance between the removal
\* of its pins and its own is left out.
DeletedIsUnpinned == ~spoiled => \A k \in Key : pins[k] \cap deleted = {}

\* The routes a request may change: of the environments whose routes it names, or
\* that it leaves out or empties.
Covers(state, e) ==
    \/ "req" \in DOMAIN state /\ (e \in DOMAIN state.req.routes
          \/ (AppOf[e] = state.req.app /\ ~\E s \in DOMAIN state.req.targets : s[1] = e))
    \/ "app" \in DOMAIN state /\ AppOf[e] = state.app
    \/ "last" \in DOMAIN state /\ state.last /\ state.slot[1] = e

\* A save from another tab never disables or moves a route of an environment
\* it keeps and whose routes it does not name (syncTargets: routesProvidedEnv).
OtherRoutesUntouched ==
    [][\A k \in Key : route[k] # None /\ route'[k] # route[k] =>
          \E p \in Console : proc'[p] # proc[p] /\ Covers(proc[p], route[k].env)]_vars
=============================================================================
