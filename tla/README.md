# Agenda V2: formal models, checks and proofs

Agenda V2 is a deployment control plane. It turns a commit of an application
into running containers on a set of machines, keeps a gateway's routes pointed
at them, and takes them down again. This directory holds TLA+ models of the
parts of it where requests, background goroutines, monitors, machines and
restarts interleave, the TLC runs that check them on small instances, and
proofs, checked by TLAPS, of the results that should hold for every size.

Paths below are relative to `src/internal/` unless they start with `src/`.

## 1. Inventory

Three processes make up the system: the control plane (`src/cmd/agenda-v2`), the
gateway (`src/cmd/agenda-gateway`) and an agent on every machine
(`src/cmd/agenda-node`). MySQL rows are the control plane's only memory besides
the goroutines of the runs in progress and the monitors' maps; Redis holds the
deploy locks.

| Component | State | Operations | Interacts with | Hard because |
|---|---|---|---|---|
| Release pipeline (`application/release_app.go`, `pipeline/runner.go`, `service/application_release_service.go`) | release, deploy log and step rows; one goroutine per run | create, deploy, retry, pause, resume, verify, rollback, run, status sync | deploy lock, builder, steps | handlers read before they lock, a run outlives its request, a restart loses it |
| Deploy lock (`service/deploy_lock_service.go`) | one Redis key per instance, with a TTL | acquire, token-checked release, expiry | every operation on an instance | expiry under a live holder, unlock lost with the request |
| Environment deployments (`service/env_deployment_service.go`, `application/release_app.go`) | batch rows with an aggregate | deploy and roll back an environment, reconcile | a release per instance | many runs write one aggregate; fan-out fails half way |
| Instance lifecycle (`application/instance_lifecycle_app.go`, `application/instance_reconcile.go`) | desired state of a target row, containers, route | decommission, delete, reconcile stopped | lock, gateway, machines, monitor | several non-atomic effects, competing deploys, unreachable machines |
| Machine monitor, proxy resync (`application/machine_monitor.go`, `service/proxy_resync_service.go`) | `lastOnline` in memory, node proxy registry in memory | heartbeat, tick, resync, recovery edge | nodes, instance reconcile, alerts | restarts between two ticks leave no edge |
| Pipeline builder and steps (`pipeline/`) | none of its own; a run's frozen plan | build, resolve backends, execute a step | machines, gateway, rows | the plan is older than its execution |
| Application save (`service/application_service.go`) | application, target, route and pin rows | save, sync children, delete | everything that reads targets | a sequence of statements without a transaction, over rows others write |
| Environment variables (`service/application_environment_service.go`, `service/application_environment_backfill.go`) | a row per environment, a legacy baseline in `deploy_config` | edit, migrate at every start | builder | the migration is two statements |
| Machines (`service/machine_service.go`) | machine row with mode, token, heartbeat | create, edit, rotate, delete, heartbeat | nodes, monitor | whole rows are saved from older copies |
| Health checks (`application/health_monitor.go`, `service/application_health_service.go`) | health row per instance with counters | due check, manual check, clear | probes through nodes | probe, read and write are separate |
| Node jobs (`node/jobstore.go`, `runner/agent_runner.go`) | job table in the node's memory | dispatch, poll, delete, sweep | every step on an agent machine | lost answers, restarts, orphaned commands |
| WebSocket tunnels (`wstunnel/`, `gateway/application/websocket.go`) | slots and counters, draining flag | admit, attach, release, drain, close all | decommission waits on it | admission races drain |
| Gateway route table (`gateway/`) | route, backend and history rows, snapshot in memory | upsert, roll back, refresh, match | control plane's sync steps | snapshot older than rows, rollback of a rollback |
| Edge TLS (`gateway/edgetls/`, `service/gateway_tls_sync_service.go`) | issuer, managed domain set | reconfigure, reconcile | settings push | two writers of the managed set |
| Machine files (`service/machine_file_service.go`, `filestore/`) | file rows, files on machines | upload, verify, check at deploy | nodes | file and row are written separately |
| Alert rules (`application/alert_rule_monitor.go`, `service/alert_rule_service.go`) | rule row with its firing state | evaluate, edit, delete | Prometheus, notifications | the whole row is saved back |
| Database consoles, users, settings, git access, logs, metrics, HTTP layer, SDKs, web console | single rows, or none | request-scoped | | no interleaving of their own |

What makes the components correct:

- *Release pipeline*: one run per instance at a time; success is never reported
  for steps that did not run; a paused run is at rest and resumable; a release is
  `rolled_back` only when another took its place, and then for good; the lock is
  never held for ever.
- *Environment deployments*: children of different batches exclude each other per
  instance, no child is left waiting for a run that will not come, the aggregate
  of a batch at rest is that of its children.
- *Instance lifecycle*: deploy, decommission and deletion exclude each other; only
  a stopped instance is deleted; traffic goes before the containers do; bringing
  an instance back brings its traffic back.
- *Machine monitor*: a node that restarts gets its proxies back, seen or unseen.
- *Node jobs*: a step that has ended has no command left running.
- *Tunnels*: counters equal slots, limits hold, a drain leaves nothing open.
- *Route table*: the snapshot catches up with the rows, serves only what was
  committed together and the most specific route; rollback undoes the last switch.
- *Edge TLS*: the settings' credentials reach the gateway, the managed domains follow
  the routes.
- *Application save*: the operator's intent, ports, routes and pins survive saves that
  are cut or overlap other requests.
- *Health, alerts, files*: what the rows say converges to what is, and never claims
  more than was observed.
- *Machines, variables*: heartbeats and migrations undo nothing an operator did.

`PROJECT.json` lists every component with its status, and under `hazards` every
place in the code where one of these can go wrong in a way that a test would
hardly reach, with the property that watches it.

## 2. Modules

| Module | Models | Used by |
|---|---|---|
| `ReleasePipeline` | the releases, logs, runs and lock of one instance | `MCReleasePipeline`, `ReleasePipelineProofs` |
| `EnvDeployment` | batches over several instances | its own run `env_aggregate`, `BatchAggregates` |
| `BatchAggregates` | `EnvDeployment` with a history of what may make an aggregate old | `MCBatchAggregates`, `EnvDeploymentProofs` |
| `InstanceLifecycle` | instances, route, machines and monitor of one environment | `MCInstanceLifecycle`, `InstanceLifecycleProofs` |
| `NodeJobs` | the commands of one deploy on an agenda-node | `MCNodeJobs`, `NodeJobsProofs` |
| `GatewayRoutes` | route tables, history and cache of the gateway | `MCGatewayRoutes`, `Gateway` |
| `ServedRoutes` | the abstract promise of the cache, refined by `GatewayRoutes` | `GatewayRoutes` |
| `EdgeTLS` | credentials, issuer and managed domains of the gateway | `Gateway` |
| `Gateway` | the gateway process: `GatewayRoutes` and `EdgeTLS` composed | `MCGateway`, `GatewayRoutesProofs` |
| `WsTunnels` | tunnels through gateway and node, their drains | `MCWsTunnels`, `WsTunnelsProofs` |
| `ApplicationSave` | saves and deletions of applications | `MCApplicationSave`, `ApplicationSaveProofs` |
| `HealthChecks`, `AlertRules`, `MachineFiles`, `MachineRows`, `EnvVars` | one part of the control plane each | `ControlPlane` |
| `ControlPlane` | those five, and the restart that ends what they have in progress | its own run, `ControlPlaneProofs` |

A handler or a loop is split where it does I/O: every database or Redis statement
and every request to another process is an action, since another actor can come in
between. Data is reduced to what the code decides on.

### ReleasePipeline

`rel` and `log` are the release and deploy-log rows (a log with its step rows),
`lock` the Redis key, `req` the request handlers and `run` the run goroutines,
named by the token of the lock they hold. Deploy, for example, is `Deploy` (load and
check), `Acquire`, `PrepareRun`, `MarkDeployingRead`, `MarkDeploying` with `Spawn`.
`HandlerError` is a statement that fails, mostly because the client has gone; the
unlock is then tried with the same dead context, so the key may survive. A run goes
`RunStart`, `Boundary`, `StepSucceeds` or `StepFails`, `RunFinish` or `RunFail`, the
status sync (`MarkDeploySucceeded`, `MarkRolledBack`, `MarkDeployFailed`), the alert
and the unlock. `Timeout` is its deadline: from then on a write under the run's
context fails and its error is dropped, as in the code. `LockExpires` is the TTL; it
is longer than the run's own timeout by the slack that the alert may use up, so it
can pass in the tail of a run and not before. `Crash` is a restart of the control
plane.

A commit is empty or resolved, and a step has no content but its outcome; the
`deployed` field of a release is a history variable (a run of it succeeded).

### EnvDeployment, BatchAggregates

`batch` holds the rows, with the aggregate that Reconcile writes; `rel`, `run` and
`lock` are the children, abstracted from `ReleasePipeline`: Deploy is one step
that takes the lock and starts a run or is refused, a run ends in success or
failure. Reconcile is split at its read and its write, in the handler as in the
runs. `RollbackGuard` and `RollbackPlan` are the unfinished-rollback check and the
pairing of bad releases with their predecessors. `Redeploy` and `Verify` are the
single-release endpoints used on a child.

What can be lost: `RequestCut` ends a request between two statements, because the client
hung up or because the statement that failed is its last; `MarkLost` drops the error of a
handler's MarkDeployFailed or MarkRollingBack and goes on with the loop; `RunMarkLost` and
`RunCut` do the same for the writes of syncReleaseStatus, after which the batch is still
reconciled or nothing is left but the unlock. `failures` counts them.

`BatchAggregates` adds a history variable, `disturbed`: the batches of which two
Reconciles overlapped (one read while another had yet to write), whose request or a run
of whose children was cut or lost a write, or of which a child got an outcome from outside
its own run. A Reconcile that reads
while no other is about to write takes its batch out of the set again. Nothing in the
model looks at it.

### InstanceLifecycle

`tgt` is the desired state of each target row, `box` whether the instance has
containers, `route` the gateway's copy of the shared route, `proxy` the node
registries, `up` and `hb` the machines and their heartbeats, `last` and `todo` the
monitor's memory. A deploy is `DeployBuild` (which resolves the backends there and
then), `ComposeUp`, `RoutesSync`, `DeploySucceeds` (the flip to running); a
decommission `PersistStopped`, `BuildTeardown`, `GatewayDrain`, `ComposeDown`; a
deletion `Recheck` and `DeleteRow`. `Evaluate` is one machine's part of a monitor
tick: resync the proxies of an online machine and, on a recovery edge or a first
observation, list the stopped instances that `ReconcileStopped` then tears down one
by one, without a lock.

Left out here: routes in `single` mode, machines without an agent, the health row
(in `HealthChecks`), the route rows disabled when the last instance of an
environment goes (in `ApplicationSave`), the wait for WebSocket tunnels (in
`WsTunnels`).

### NodeJobs

The caller (`cur`, `pc`, `expired`, `end`, `last`, `ret`, `row`) is `agentRunner.run`
with the deploy around it, the node (`table`, `cmd`, `cancelled`, `buf`, `wrote`) the
job store and its processes, and `net` what is in flight between them: requests and
answers may be lost, may arrive late or in another order, and a request whose caller
has given up may still arrive. `Call`, `Posted`, `Poll`, `Polled`, `Cleanup` and
`Return` are the runner, `Dispatch`, `Get` and `Delete` the node's handlers,
`CommandExits`, `CommandKilled`, `JobDeadline` and `Sweep` what happens to a job,
`Expire` the deploy's deadline, `NodeRestart` a restart. Output is a sequence of
numbered bytes, so that `BufferWrite` and `TailOf` (`outputtail`) can be compared with
what was written: the node's buffer, the pipeline's and the row's limit cut it one
after the other. Left out: the limit on lines, and characters of several bytes.

### GatewayRoutes, ServedRoutes, EdgeTLS, Gateway

`db`, `backs` and `hist` are the gateway's tables, `cache` its snapshot, `proc` the
admin requests and the refresh loop. An upsert or rollback reads (`UpsertRead`,
`RollbackRead`) and commits (`UpsertCommit`, `RollbackCommit`): the transaction takes
no lock on what it reads, the unique index on host and prefix is `SiteTaken`. A
refresh is `LoadEnabledRoutes`, `LoadSnapshots` (the backends, in later statements)
and `Install`; the loop and the handlers overlap freely, and a load can fail.
`PathMatches`, `Match` and `AppRelativePath` are the matching and the rewriting of
paths, on sequences of characters. The weighted round robin and pinning are a choice
of any live backend.

`ServedRoutes` says what callers may rely on: each route is served from backends that
were committed together, or not at all. `GatewayRoutes` implements it
(`ServesCommittedVersions`), with the history variable `versions` for `committed` and
the cached version of each route for `served`; every commit maps to `Commit`, every
install to `Install`, everything else to a stutter.

`EdgeTLS` has the `settings` of the control plane, the manager (`tls`: credentials,
issuer, managed set), the domains the present issuer was `handed`, and two tasks, the
push in progress and the reconcile loop. `Reconfigure` builds a new issuer and clears
the set unless the credentials are the same; `ReconcileRead`, `ReconcileWrite` and
`ManageAsync` are reconcile at its two critical sections and the call of CertMagic,
which is external. `author` is a history variable, the issuer that the reconcile which
wrote the managed set had read. `Gateway` gives it the hosts of the cached routes and lets a
restart end both.

### WsTunnels

`slot` is the state of each upgrade request in the registry of the gateway and of the
node, `byRoute`, `byKey` and `byIP` the gateway's counters, `tokens` its rate limiter,
`phase` how far each process is in its shutdown, `teardown` the `gateway_ws_drain`
step of a decommission. A request is matched, passes the rate limiter (`Allow`),
reserves (`Admit`), is relayed (`Relay`, `NodeAttach`, `GatewayAttach`) or fails, ends
and is released; `BeginDrain`, `Drained`, `CloseAll` and `Exit` are a shutdown;
`Poll`, `PollEnds`, `PollFails` the decommission's questions, one route at a time.

### ApplicationSave

`target`, `route` and `pins` are the rows, `proc` the requests. A save is
`StartSave` (which reads the rows it will compare with), one `Check` for each statement
that asks whether a port, a key or a site is taken, `Validated`, one `Upsert` per target,
`SyncRoutes` per environment, `SyncPins` per route, and the removal of what it leaves out
(`DisableFirst`, `Omit`, `DeleteOmitted`). `DeleteInstance` and `Delete` are split the same
way; `Fails` ends a request at any statement.
`SetInstanceDesiredState` is the operator's decommission or deploy in between. Some
properties hold only of requests that did not overlap; `spoiled` records that two did.
`stranded` records the environments whose last instance a DeleteInstance removed before it
was cut: it removes the target first and disables the routes afterwards.

### ControlPlane and its five parts

They share no state, so their steps commute and a behaviour of the composition moves
one of them (`moving`) and restarts the process.

- `HealthChecks`: the monitor and the console check one instance, each `Load`,
  `Probe`, `ReadPrevious`, `Upsert`, with `GiveUp` for a check that ends early;
  `BuildHealthResult` holds the thresholds; `Stop` and `ClearTargetHealth` are a
  decommission.
- `AlertRules`: `ListEnabled`, `Query`, `SendToAll`, `SaveEvaluation` of the monitor on
  its copy of the rule, against `UpdateRead`, `UpdateSave`, `Create`, `Delete`.
- `MachineFiles`: uploads machine by machine, in any order. The writer on the machine
  has a temporary file of each transfer (`temp`): `PutFile` looks at the path and begins
  it, `Copied` completes it, `Cut` and `Abandon` are a transfer that breaks and one that is
  given up, and `Rename`, or `SshMove` with `SshStat` over SSH, puts it at the path. The
  request waits for the answer, but `TransferFails` and `RequestEnds` leave the writer to
  finish alone. `RecordUpload` inserts the row. `held` is a history variable, the contents
  a path has had. Verification passes of `StatFile` and `UpdateVerification`
  by the monitor and the console; `CheckEnvFiles` of a deploy; changes by hand.
- `MachineRows`: one machine's row; `ReadMachine` with `UpdateMachine` or
  `RotateAgentToken`, `DeleteMachine`, and heartbeats that check the token on one
  reading of the row and write later.
- `EnvVars`: one variable; `BackfillRead`, `BackfillUpsert`, `BackfillStrip` of a start,
  the edits of one and of all environments, and `Deployed`, what a deploy merges.

## 3. Runs

`tlc -workers 2 -config <cfg> <module>`. Deadlock is not checked: operators may simply
stop asking, and the bounds run out.

### Runs that pass

| Run | Instance | What it shows |
|---|---|---|
| `pipeline_concurrent` | 2 clients, 2 tokens, 1 step, 2 logs; overlapping requests for 1 release with 1 deadline, or single requests for 3 releases | `DeployExclusive`, `PausedIsQuiescent` under every interleaving of the endpoints, `RolledBackWasReplaced` over chains of rollbacks, refused and failed ones included |
| `pipeline_recovery` | of `ReleasePipeline` itself: 1 client, 2 steps, 1 restart, 1 deadline, fairness | `SuccessMeansEveryStepRan`, and `LockEventuallyFreed` after failures, restarts, lost unlocks |
| `env_fanout` | 2 instances, 4 releases; one of: overlapping requests of 2 clients, runs beside each other, 3 batches instead of 2, 1 request cut or write lost | `RollingBackHasReplacement`, `NoOrphanChild`, and `SettledIsCounted` when two requests share a batch's children or another batch supersedes them |
| `lifecycle` | 1 instance, 2 clients, 3 requests, 1 outage, 1 restart, fairness | `LifecycleExclusive`, `DeleteIsSafe`, `ProxyRestored` |
| `node_jobs` | 2 calls, 2 writes of 2 or 4 bytes, buffers of 3 and 4, 1 restart, fairness | a report is conclusive (`ReportIsConclusive`), output is the end of what was written (`StoredOutputIsTail`), nothing stays on the machine (`ComesToRest`) |
| `gateway_routes` | 2 admins and the loop, 2 routes, 3 releases, 4 writes | `HistoryKnowsCurrent`, `RollbackUndoesLastSwitch`, `MostSpecificRoute`, and the refinement `ServesCommittedVersions` |
| `gateway` | 1 route, 2 writes, 2 changes of credentials, 1 restart, fairness | `ManagedAreHanded`, `CacheCatchesUp`, `TLSCatchesUp` |
| `ws_tunnels` | 2 requests from one address, 2 routes, limits of 1 and 2, fairness | `SlotsAccounted`, `LimitsHold`, `DrainWaitsForTunnels`, `NothingHangs` |
| `app_save` | 2 applications, 3 environments, 3 requests of which 2 at a time, from alike consoles (symmetry), 1 decommission or deploy | `IntentStands`, `PortsUnique`, `RoutesNeedInstances`, `DeletedIsUnpinned`, `OtherRoutesUntouched` |
| `control_plane` | per part: 2 changes of the app; 3 of the condition and 3 requests; 2 machines, 2 uploads; 2 operators, 3 requests; 2 environments, 2 edits; 1 restart, fairness | `StatusHasProbes`, `StatusConverges`; `RowSaysWhatWasTold`, `AlertsFollowCondition`; `WholeFilesOnly`, `RecordedWasThere`, `FilesVerified`; `MachineAsAsked`; `BackfillKeepsProd` |

Two MC modules have a state constraint, `Bounds`. In `MCReleasePipeline`
either two requests overlap about one release, which may be paused and reach its deadline,
and none rolls back; or one request at a time makes up to three releases and rolls them
back. In `MCBatchAggregates` a state has at most one of four things: requests that overlap,
runs beside each other, a batch beyond `SharedBatches`, and a request that was cut or a
write that was lost. What needs two of these at once, say a rollback that races a deploy of
the same instance, is left to the proofs, which have no bounds.

Why the bounds are enough. A race on one row takes two requests, so there are two
clients, operators or admins, or one and a background loop (a client's run goes on
after its request has returned, which already gives one client two actors). A second
pipeline step is needed for a retry that keeps a finished step; a third release for a
rollback of a rollback; a batch, its rollback and a competing batch make three. An
aggregate is computed by two actors at most for each child and one for the request. Where a
lock or a row is per instance, one instance carries the property. Two jobs are a step
and its retry, or two steps; their writes stay below, meet and exceed both buffers, and
two of them cross a buffer in between. Four writes to the routes are two switches and
two rollbacks, or two pairs that overlap. Two tunnels meet a limit of one per route and
of two in all. Three saves are a creation and two that overlap. A rule with
`for_seconds = 3` at ticks of 2 fires at the second tick, one with 0 at the first, and
three changes let it fire, recover and fire again. In `MachineFiles` the machines of the
environment and the changes by hand, and the machines and the console's verifications,
share a bound: two machines, or one that is also changed and asked about. One deadline,
outage or restart is placed at every point of every behaviour.

Fairness. Handlers and goroutines are scheduled, steps end because their context is
bounded, Redis expires keys (`pipeline_recovery`); the monitor ticks, its loops end and
a live node sends heartbeats (`lifecycle`); deadlines and client timeouts pass, the node
kills cancelled and over-age jobs and sweeps (`node_jobs`); the refresh loop and the
pushes tick for ever, and neither fails for ever at the same statement (`gateway`);
handlers and shutdowns go on and their timeouts fire, while no peer has to close a tunnel
(`ws_tunnels`); monitors tick, and a pass that is tried for ever is not given up for ever
at the same step (`control_plane`; strong fairness, since a failed pass disables the
step until the next tick). Nothing is assumed of operators, machines, restarts or
messages, and a command need not end by itself.

Every property has a mutant under `mutants`: the model with one plausible bug (an unlock
that does not compare tokens, a job without a deadline, a cache that reads the current
release at load time, a heartbeat that saves the row it read, and so on) that TLC must
find.

### The runs that find a disagreement

| Run | Statement | What the code does |
|---|---|---|
| `lifecycle_brought_back` | a deploy brings a stopped instance back online | its backends were resolved while the row said stopped, so it comes back without traffic |
| `env_aggregate` | the last child to finish writes the final result of its batch | the request's Reconcile, or that of another child, may have read before that child ended and write after it; the batch stays `running` |

The second has a counterpart that holds, checked and proved: `SettledIsCounted` says that
such orders, and two others it names, are the only ones that leave a wrong aggregate.

## 4. Proofs

`tlapm <module>.tla`. Every safety property that a passing run checks is also a
theorem; the runs cover small instances, the theorems
every value of the constants. A property is rarely inductive as it stands, so each
module first proves a stronger invariant. (Those of
`ApplicationSave` and `BatchAggregates`, the largest, were run through TLC before they
were proved.) The constants carry only the assumptions named `...Assumption` in the modules,
which TLC evaluates in the runs: bounds are naturals, the values that stand for
"nothing" are not rows, a request names existing slots, environments and routes, limits
and thresholds are what the configuration accepts. In `WsTunnels` the requests are
finitely many, since they are counted.

`ReleasePipelineProofs`:

- `TypeCorrect`: `Spec => []TypeOK`. No run repeats it.
- `MutualExclusion`: `Spec => []DeployExclusive`. The invariant is not inductive:
  a state in which a run goes on under a lock that holds another token satisfies it
  and has successors that do not. `LockInv` adds what the lock means: whoever
  prepares or drives a run has its token in the key, a token belongs to one handler
  or run, and a handler has a token exactly between acquiring and handing over.
  Exclusion follows because the key has one value. The steps that matter are the
  token-checked release, which leaves another's key alone, and the expiry, which the
  TTL confines to keys whose holder no longer changes anything.
- `SuccessIsEarned` and `PausedIsAtRest`: `SuccessMeansEveryStepRan` and
  `PausedIsQuiescent`, together with a clause for a run that is about to pause
  (`StepsInv`), over `RefInv`: a handler or run past its load names a release and a log.
  They need `LockInv`, since what breaks them is a second worker on the same log.
- `RollbacksHaveReplacements`: `RolledBackWasReplaced`, from `Forward` (no step takes back
  that a row exists, what it replaces, or that it was deployed) and the fact that a run
  which closes its predecessor has marked its own release deployed.

`EnvDeploymentProofs`: `InstancesDeployAlone` (`OneDeployingPerInstance`, which no run
repeats after `DeployExclusive`), `RollingBackIsReplaced` and `ChildrenAreDriven` from one
invariant. `RunsInv`: a run holds the lock of its instance
until it has reconciled. `HandlersInv`: what a fan-out has left to do exists, and a
replacement was started before its loop marks the row it replaces. `OrphansBounded`
compares cardinalities: a step adds a draft nobody will deploy, or a release that reads
`deploying` without a run (`Undriven`), only if it counts as a failure, and then one
(`OrphansLeft`).

`SettledBatchesAreCounted`: `AggSpec => []SettledIsCounted`. A settled batch says nothing
about the way there, so `AggInv` speaks of every batch at every moment: either somebody
is still to reconcile it who has not read yet (`Busy`), or everyone who is about to write
has the aggregate of the children as they are now, and with nobody about to write the row
has it (`Known`). A step keeps this because the children's outcomes change only by a run
that then owes a Reconcile (`OutcomeAgg`), by a handler that does (`ClientAgg`, with
`OwnChildren`: what it deploys is a child of its batch), or from outside, which
`disturbed` records (`OverruledAlike`); and a read brings `Known` back when no older one is
under way (`ReadAlone`).

`InstanceLifecycleProofs`:

- `LifecycleTypes`: `Spec => []TypeOK`, which includes that the gateway is never
  given an enabled route without a backend.
- `LifecycleExclusion`: `Spec => []LifecycleExclusive`, from `HoldsLock`.
- `SafeDeletion`: `Spec => DeleteIsSafe`, an action property. `KnowsRow` says that a
  deletion past its check still has a stopped row: nobody else can flip it, since
  only a deploy that holds the lock does. That is why the check is repeated under
  the lock.

`NodeJobsProofs`:

- `ReportsAreConclusive`: the invariant ties three places together. `TableInv`: the table
  says what became of a command, and a running command that is not in it belongs to a call
  that has sent its DELETE or is over. `NetInv`, `AloneInv`: a POST or GET is in flight
  once, and a status other than running is still true when the answer arrives. `CallInv`:
  jobs are numbered in the order of the calls, and a result the caller holds is true.
- `BuffersAreTails`: `BufferIsTail`, which the runs see through the stored output.
  `BufferWrite` keeps `TailOK`, with a lemma for a write that fills the
  buffer (`WriteFills`) and one for a write that pushes out older bytes (`WriteAppends`).
- `StoredOutputsAreTails`: `StoredOutputIsTail`, through both limits. `OutputInv` follows
  the bytes: what is in flight (`AnswersInv`), what the caller keeps (`KeptInv`) and what is
  stored (`RowsInv`) come from some earlier buffer of the job, and once the job is over
  from its last one.

`GatewayRoutesProofs`:

- `HistoryIsKnown` and `RollbackIsUndo`. A write commits some time after it read; what
  saves it is that nothing it read is taken back (`Grows`): history and versions only
  grow, a release keeps its backends, a route its row. So it is enough that every release
  the current row or the history mentions has been `Reached`. `LastPosition` gives the
  newest entry that leads to the current release, for histories of any length.
- `ServesCommitted`: `RoutesSpec => ServesCommittedVersions`, the refinement of
  `ServedRoutes`, step by step: an install maps to `Install`, an upsert's commit to
  `Commit`, every other step to a stutter. `WasCommitted` carries it: what a refresh
  has put together from two readings is a version that was committed.
- `RoutesBySpecificity`: `MostSpecificRoute`. `MatchesIsCovers` shows that the code's test
  of a prefix accepts exactly the prefixes that end with a segment, `FirstMatch` that the
  order of the snapshot has a first match in every cache, `StripsPrefix` what
  `AppRelativePath` leaves. The lemma `CacheIsMatched` says it for every host and every
  path; the theorem for the sample paths of the property.
- `RoutesSurviveRestarts`: the same four properties of `Gateway`. A restart empties the
  cache and ends every request, so the invariants hold of it again, and in the refinement
  it maps to an `Install` of nothing.
- `ManagedReachTheIssuer`: `ManagedAreHanded`. With the shapes of the records it is
  inductive as it stands (`TLSInv`): a reconcile records the set in one step and hands it
  over in a later one, and `Promised` covers what lies between. Only a reconcile records,
  and a rotation empties the set; one that records under a new issuer what it read under
  the old is the exception, which the property names through `author`.

`WsTunnelsProofs`: `SlotsAreAccounted`, `LimitsAlwaysHold`, `DrainSeesTunnels`. Most steps
leave the holders alone (`SameHolders`); an admission and a release move every count by
one, the end of the gateway by all. `Bucket` bounds what the rate limiter gave and still
has by what went in. `RoundSawNothing`: a round of polls that has counted nothing has seen
no holder, because the count of a route is exact when it is asked.

`ControlPlaneProofs`, one part after the other:

- `MachinesAsAsked`: a request saves the whole row it read, so `ReadIsCurrent` says that,
  unless requests crossed, that row still has the mode and the token of the row there is.
- `BackfillIsNeutral`, an action property: `MergedRowIsCurrent`, the row a start is about
  to write is the merge of what is there now, since operators are not served yet.
- `StatusIsBacked`: `Room` leaves, beside the counter of the row, and of every row a check
  has read, a place for each result that is probed and not yet written.
- `FilesAreWhole`, `RowsWereThere`: `FilesInv`, of the files, the temporary files, the
  uploads and the rows. A temporary file that is about to be renamed is whole, except over
  SSH (`TempInv`): the first theorem needs that of every step that lets a transfer go on,
  cut or not. The second needs that a checksum is only answered after the rename.
- `RowsSayWhatWasTold`: in `AlertInv`, `MessageInv` says that what was last told is the
  state of the row or, between a message and its save, that of the evaluation's copy, and
  that until it decides this copy has the state of the row it read; `AlertShapes` says the
  same of an edit's. `astray` is set by what breaks this.

`ApplicationSaveProofs`:

- `IntentsStand`, with no condition on what overlaps: an id belongs to one slot, in the
  table and in every request that knows it (`IdsInv`), so a late upsert meets the row of
  the instance it read or none.
- `PortsAreUnique`, `RoutesHaveInstances`, `DeletedAreUnpinned`: as long as requests do not
  overlap, `SerialInv` says for each statement of a save or a deletion what it may still
  rely on: rows it read are there (`RowsHeld`), ports still to be written are free
  (`PortsHeld`), routes and pins it is ahead of are gone (`RoutesHeld`). All hold between
  any two statements, so a request may fail at any of them, with one exception that
  `RoutesHaveInstances` states: the environments in `stranded`. Requests that overlap are
  excluded from all three.
- `OtherRoutesStay`, an action property, whatever overlaps.

The theorems about locks rest on one assumption about time, built into `LockExpires`: a
run ends within its deadline and what follows the deadline, but for the alert, takes less
than the 30 seconds of slack in `lockTTL`.

Only model-checked is liveness under fairness, which is beyond the prover:
`LockEventuallyFreed`, `ProxyRestored`, `ComesToRest`, `CacheCatchesUp`, `TLSCatchesUp`,
`NothingHangs`, `StatusConverges`, `AlertsFollowCondition`, `FilesVerified`. Of two of them
the safety part is proved: `RowSaysWhatWasTold` and `ManagedAreHanded`.

## 5. Assumptions and limits

- Which statements fail. In `ReleasePipeline` and `InstanceLifecycle` a handler's fail
  (`HandlerError`, `HandlerFails`), the steps of a pipeline do, and what a run writes under
  its own deadline fails after it; what it writes on a detached context (the rows of its
  steps, the status of its release, the desired state) succeeds, as do the rows `NodeJobs`
  stores. Losing those status writes is `EnvDeployment`'s subject. In the modules of the
  gateway's tables, of the application save and of `ControlPlane` every write may fail.
- Ids are handed out in order and never reused, except by a whole-row save that finds
  its row deleted: GORM then inserts it again under its old id, and so do the models.
- In `ReleasePipeline` a command ends when its step does. `NodeJobs` shows when that is
  so: after every report but a failed dispatch and the deadline.
- Certificate issuance, Redis and MySQL are external: a unique index, a transaction and
  a key with a TTL are modelled by what the code relies on.

## 6. Known deviations

What the models reach and the code, its comments or an operator might not expect. Each
is a behaviour of a module above; the properties are stated so that they say what does
hold.

- *Late `rolling_back`* (`application/release_app.go:323`). Rollback marks the replaced
  release after it started the replacement; a replacement that finishes first has its
  `rolled_back` overwritten, and nothing leaves `rolling_back` any more.
- *Deploy from a stale row* (`application/release_app.go:170`). Deploy reads the target
  before it takes the lock and not again; a deploy can follow the instance's deletion.
- *Second Resume* (`application/release_app.go:262`). Loaded before the first one ran,
  it reports success with the empty commit it loaded.
- *Crossing aggregates* (`service/env_deployment_service.go:113`; `env_aggregate`). Of two
  overlapping Reconciles the one that read first may write last. A batch none of whose children
  could be created stays `running`.
- *Status lost* (`application/release_app.go:580`). The status a run writes at its end, and
  the MarkDeployFailed of a refused child, are tried once and their errors dropped. A child
  that so stays `draft` or `deploying` keeps its batch `running`; one that stays `deploying`
  is also refused by Deploy and Retry and blocks the rollback of its batch.
- *A deployed child marked failed* (`application/release_app.go:151`), when DeployEnv is
  refused because another request has deployed it.
- *Teardown by the monitor* (`application/instance_reconcile.go:102` and `:111`). It
  takes no lock and can remove what a deploy has just started; it also removes instances
  whose decommission ended before the gateway was drained. It is retried on recovery
  edges only (`application/machine_monitor.go:163`).
- *Orphaned command* (`runner/agent_runner.go:58`). A dispatch whose answer is lost is a
  failed step without a DELETE; the command runs on, or starts later, for up to 30
  minutes, beside that of a retry.
- *Unrecorded switch* (`gateway/repository/route_repository.go:82`). An upsert that
  overlaps a switch away from its own release writes no history entry; a rollback then
  follows an older one.
- *New issuer without domains* (`gateway/edgetls/edgetls.go:391`). A reconcile that
  read the old issuer and writes the managed set after a Reconfigure cleared it ("force the
  next reconcile to (re)manage against the new issuer", line 312) leaves the new issuer
  with nothing to manage until the set changes.
- *Handshake after the poll* (`pipeline/step_gateway_ws_drain.go:64`). One admitted from a
  snapshot older than the drain, after its route was asked about, is cut.
- *Uploads over SSH* (`runner/files.go:57`). A connection cut during the transfer ends the
  remote `cat` normally, and the part that arrived is moved into place. A move onto a
  directory goes inside it, and the row then has an empty checksum. Everywhere,
  `overwrite=false` is a check before a rename and two uploads can both pass it.
- *Alert saves* (`application/alert_rule_monitor.go:177`). A message is sent before the
  row is saved: a lost save repeats it. The row is saved whole, so an evaluation and an
  edit that cross undo each other and a deleted rule can come back.
- *Created disabled* (`domain/application_env_target.go`, `domain/alert_rule.go`). GORM
  replaces `false` by the column's default when a row is created: an instance, route or
  rule created as disabled is enabled.
- *Saves* (`service/application_service.go`). Without a transaction, a save that fails
  leaves what it has written: the targets of a failed creation occupy their ports. The
  check of a port and the write are two statements. A save that omits an instance leaves
  pins to it; DeleteInstance removes the target before it disables the routes of an
  emptied environment; a save whose row was deleted meanwhile creates it again, running;
  an environment whose representative target is disabled has its routes disabled.
- *Overlapping edits of a machine* (`service/machine_service.go:293`). An edit that read
  the row before a token rotation and saves it afterwards brings the old token back.
- *Variables after a failed migration*
  (`service/application_environment_backfill.go:103`). A start that wrote the production
  row and could not strip the baseline leaves both; a variable an operator then clears is
  still deployed, and is back in the row after the next start.
- *Settings cache* (`service/setting_service.go:146`, not modelled). Row and cache are
  written one after the other: two overlapping writes of one key can leave the cache with
  the other's value until a restart.

## 7. Not modelled

- Pure I/O without state of its own: git access beyond a commit that is resolved or not,
  log and metric queries, notification channels, node probes.
- Text: SQL and Redis guards, the compose override, paths and their validation.
- Single-row writes no other step reads back: users, settings (but for the TLS
  credentials), database instances and the append-only query log.
- Libraries: encryption, certificates. The SDKs and the web console are clients.
- The weighted round robin: its counter only spreads load over live backends.

`PROJECT.json` gives the status of every component.

## 8. Open

Composition of `InstanceLifecycle` with `GatewayRoutes`: which of the backend lists frozen
by two deploys is committed last (`pipeline/builder.go:659`).
