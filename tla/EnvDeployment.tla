---------------------------- MODULE EnvDeployment ----------------------------
(***************************************************************************)
(* Environment-wide deploys of one application: DeployEnv and RollbackEnv  *)
(* fan one intent out to a release per instance under an EnvDeployment     *)
(* batch; every child's run goroutine and, at the end, the handler itself  *)
(* call Reconcile, which reads the children and writes their aggregate to  *)
(* the batch row in a second statement.                                    *)
(*                                                                         *)
(* What happens inside one run is the business of ReleasePipeline: here    *)
(* Deploy is one step (it takes the instance's lock and starts a run, or   *)
(* is refused) and a run ends in success or failure. A status write or a   *)
(* Reconcile can fail by itself: the code logs such an error or drops it.  *)
(***************************************************************************)
EXTENDS Integers, FiniteSets

CONSTANTS
    Client,        \* concurrent HTTP requests
    NumInstances,  \* enabled instances of the environment
    MaxBatches,    \* bound on env_deployment rows
    MaxReleases,   \* bound on application_release rows
    MaxFailures    \* bound on requests that are cut and on writes that are lost

ASSUME ConstantsAssumption ==
    /\ NumInstances \in Nat \ {0}
    /\ MaxBatches \in Nat \ {0}
    /\ MaxReleases \in Nat /\ MaxReleases >= NumInstances
    /\ MaxFailures \in Nat

Instance == 1..NumInstances
Batch    == 1..MaxBatches
Release  == 1..MaxReleases

ReleaseStatus == {"none", "draft", "deploying", "pending_verify", "verified",
                  "failed", "rolling_back", "rolled_back"}
BatchStatus   == {"none", "running", "success", "partial_failed", "failed"}

VARIABLES
    rel,      \* application_release rows
    batch,    \* env_deployment rows
    lock,     \* the release whose run holds the deploy lock of an instance, or 0
    run,      \* run goroutines, by the release they deploy
    req,      \* request handlers, by client
    failures  \* requests that were cut and writes that were lost so far

vars == <<rel, batch, lock, run, req, failures>>

Aggregates == [status: BatchStatus, total: 0..MaxReleases, success: 0..MaxReleases,
               failed: 0..MaxReleases]
\* started: the row has a deploy_log_id, a run was started for it.
ReleaseRow == [status: ReleaseStatus, inst: 0..NumInstances, batch: 0..MaxBatches,
               prev: 0..MaxReleases, started: BOOLEAN]
BatchRow   == [agg: Aggregates, rollback_of: 0..MaxBatches]
RunPC      == {"idle", "running", "prev", "read", "write"}
HandlerPC  == {"idle", "guard", "plan", "fan", "deploy", "rolling", "write",
               "verify"}
Run        == [pc: RunPC, agg: Aggregates]
Request    == [pc: HandlerPC, batch: 0..MaxBatches, of: 0..MaxBatches,
               todo: SUBSET (Instance \cup Release), rel: 0..MaxReleases,
               agg: Aggregates]

NoAgg     == [status |-> "none", total |-> 0, success |-> 0, failed |-> 0]
NoRun     == [pc |-> "idle", agg |-> NoAgg]
Idle      == [pc |-> "idle", batch |-> 0, of |-> 0, todo |-> {}, rel |-> 0, agg |-> NoAgg]

Deployed  == {"pending_verify", "verified", "rolling_back", "rolled_back"}

IsNextRelease(r) ==
    rel[r].status = "none" /\ \A q \in Release : q < r => rel[q].status # "none"
IsNextBatch(b) ==
    batch[b].agg.status = "none" /\ \A d \in Batch : d < b => batch[d].agg.status # "none"

\* The environment has been rolled out and verified once: batch 1 and a release
\* of it on every instance.
Init ==
    /\ rel = [r \in Release |-> IF r \in Instance
                THEN [status |-> "verified", inst |-> r, batch |-> 1, prev |-> 0,
                      started |-> TRUE]
                ELSE [status |-> "none", inst |-> 0, batch |-> 0, prev |-> 0,
                      started |-> FALSE]]
    /\ batch = [b \in Batch |-> [rollback_of |-> 0, agg |-> IF b = 1
                THEN [status |-> "success", total |-> NumInstances,
                      success |-> NumInstances, failed |-> 0]
                ELSE NoAgg]]
    /\ lock = [i \in Instance |-> 0]
    /\ run = [r \in Release |-> NoRun]
    /\ req = [c \in Client |-> Idle]
    /\ failures = 0
-----------------------------------------------------------------------------
\* Reconcile's recomputation, from the children that exist now.
Children(b) == {r \in Release : rel[r].status # "none" /\ rel[r].batch = b}

Aggregate(b) ==
    LET success  == Cardinality({r \in Children(b) : rel[r].status \in Deployed})
        failed   == Cardinality({r \in Children(b) : rel[r].status = "failed"})
        total    == Cardinality(Children(b))
        inFlight == total - success - failed
        status   == IF inFlight > 0 \/ total = 0 THEN "running"
                    ELSE IF failed = 0 THEN "success"
                    ELSE IF success = 0 THEN "failed"
                    ELSE "partial_failed"
    IN  [status |-> status, total |-> total, success |-> success, failed |-> failed]

UpdateStatus(r, status) == [rel EXCEPT ![r].status = status]

\* Deploy accepts the release: it is draft or failed and its instance is free.
Deployable(r) == rel[r].status \in {"draft", "failed"} /\ lock[rel[r].inst] = 0

\* prepareRun, MarkDeploying and the go statement.
StartRun(r) ==
    /\ rel' = [rel EXCEPT ![r].status = "deploying", ![r].started = TRUE]
    /\ lock' = [lock EXCEPT ![rel[r].inst] = r]
    /\ run' = [run EXCEPT ![r].pc = "running"]
-----------------------------------------------------------------------------
(***************************************************************************)
(* Handlers. todo holds what the loop has left: instances for a deploy,    *)
(* the releases to supersede for a rollback.                               *)
(***************************************************************************)
CreateBatch(c, of, todo) ==
    \E b \in Batch :
       /\ IsNextBatch(b)
       /\ batch' = [batch EXCEPT ![b] = [rollback_of |-> of,
                      agg |-> [NoAgg EXCEPT !.status = "running",
                                            !.total = Cardinality(todo)]]]
       /\ req' = [req EXCEPT ![c] = [Idle EXCEPT !.pc = "fan", !.batch = b,
                                                 !.of = of, !.todo = todo]]

\* Every eligible instance, or the one that was named.
DeployEnv(c) ==
    /\ req[c].pc = "idle"
    /\ \E todo \in {Instance} \cup {{i} : i \in Instance} : CreateBatch(c, 0, todo)
    /\ UNCHANGED <<rel, lock, run, failures>>

\* What PlanEnvRollback makes of the children as they were loaded: one that is
\* deploying refuses the plan, those that changed nothing are passed over.
RollbackEnv(c, b) ==
    /\ req[c].pc = "idle"
    /\ batch[b].agg.status # "none"
    /\ \A r \in Children(b) : rel[r].status # "deploying"
    /\ LET bad == {r \in Children(b) : rel[r].status \notin {"draft", "failed", "rolled_back"}}
       IN  /\ bad # {}
           /\ req' = [req EXCEPT ![c] = [Idle EXCEPT !.pc = "guard", !.of = b, !.todo = bad]]
    /\ UNCHANGED <<rel, batch, lock, run, failures>>

\* GetUnfinishedRollbackOf.
RollbackGuard(c) ==
    /\ req[c].pc = "guard"
    /\ req' = IF \E b \in Batch : /\ batch[b].rollback_of = req[c].of
                                  /\ batch[b].agg.status = "running"
                THEN [req EXCEPT ![c] = Idle]
                ELSE [req EXCEPT ![c].pc = "plan"]
    /\ UNCHANGED <<rel, batch, lock, run, failures>>

\* An earlier verified release of the instance, for each of them or for none.
HasTarget(bad) == \E r \in Release : /\ r < bad
                                     /\ rel[r].inst = rel[bad].inst
                                     /\ rel[r].status = "verified"

RollbackPlan(c) ==
    /\ req[c].pc = "plan"
    /\ IF \A bad \in req[c].todo : HasTarget(bad)
         THEN CreateBatch(c, req[c].of, req[c].todo)
         ELSE req' = [req EXCEPT ![c] = Idle] /\ UNCHANGED batch
    /\ UNCHANGED <<rel, lock, run, failures>>

\* CreateBatchChild or CreateRollbackDraft.
DraftChild(c) ==
    /\ req[c].pc = "fan"
    /\ \E x \in req[c].todo, r \in Release :
          /\ IsNextRelease(r)
          /\ rel' = [rel EXCEPT ![r] =
                [status |-> "draft", batch |-> req[c].batch,
                 started |-> FALSE,
                 inst |-> IF req[c].of = 0 THEN x ELSE rel[x].inst,
                 prev |-> IF req[c].of = 0 THEN 0 ELSE x]]
          /\ req' = [req EXCEPT ![c].pc = "deploy", ![c].rel = r, ![c].todo = @ \ {x}]
    /\ UNCHANGED <<batch, lock, run, failures>>

\* A child that cannot be drafted is skipped.
DraftFails(c) ==
    /\ req[c].pc = "fan"
    /\ \E x \in req[c].todo : req' = [req EXCEPT ![c].todo = @ \ {x}]
    /\ UNCHANGED <<rel, batch, lock, run, failures>>

DeployChild(c) ==
    /\ req[c].pc = "deploy"
    /\ Deployable(req[c].rel)
    /\ StartRun(req[c].rel)
    /\ req' = IF req[c].of = 0 THEN [req EXCEPT ![c].pc = "fan", ![c].rel = 0]
                               ELSE [req EXCEPT ![c].pc = "rolling"]
    /\ UNCHANGED <<batch, failures>>

\* Mutation: the child that could not be started stays a draft.
DeployChildFailsKeepsDraft(c) ==
    /\ req[c].pc = "deploy"
    /\ req' = [req EXCEPT ![c].pc = "fan", ![c].rel = 0]
    /\ UNCHANGED <<rel, batch, lock, run, failures>>

\* Mutation: the loop does not continue after a failed start.
DeployChildFailsThenRolls(c) ==
    /\ req[c].pc = "deploy"
    /\ rel' = UpdateStatus(req[c].rel, "failed")
    /\ req' = IF req[c].of = 0 THEN [req EXCEPT ![c].pc = "fan", ![c].rel = 0]
                               ELSE [req EXCEPT ![c].pc = "rolling"]
    /\ UNCHANGED <<batch, lock, run, failures>>

\* Deploy is refused, by the lock or by an error of its own, and MarkDeployFailed
\* flips the child whatever its status is.
DeployChildFails(c) ==
    /\ req[c].pc = "deploy"
    /\ rel' = UpdateStatus(req[c].rel, "failed")
    /\ req' = [req EXCEPT ![c].pc = "fan", ![c].rel = 0]
    /\ UNCHANGED <<batch, lock, run, failures>>

\* Best effort, after the replacement has been started.
MarkRollingBack(c) ==
    /\ req[c].pc = "rolling"
    /\ rel' = UpdateStatus(rel[req[c].rel].prev, "rolling_back")
    /\ req' = [req EXCEPT ![c].pc = "fan", ![c].rel = 0]
    /\ UNCHANGED <<batch, lock, run, failures>>

\* The client hangs up: the context of the request is cancelled and every
\* statement left fails, also MarkDeployFailed and Reconcile. Or one fails by
\* itself that is the request's last: the guard, the plan, a statement of
\* Reconcile or Verify.
RequestCut(c) ==
    /\ req[c].pc # "idle"
    /\ failures < MaxFailures /\ failures' = failures + 1
    /\ req' = [req EXCEPT ![c] = Idle]
    /\ UNCHANGED <<rel, batch, lock, run>>

\* Deploy is refused and MarkDeployFailed fails, or MarkRollingBack fails: the
\* loop drops the error and goes on.
MarkLost(c) ==
    /\ req[c].pc \in {"deploy", "rolling"}
    /\ failures < MaxFailures /\ failures' = failures + 1
    /\ req' = [req EXCEPT ![c].pc = "fan", ![c].rel = 0]
    /\ UNCHANGED <<rel, batch, lock, run>>

ReconcileRead(c) ==
    /\ req[c].pc = "fan"
    /\ req[c].todo = {}
    /\ req' = [req EXCEPT ![c].pc = "write", ![c].agg = Aggregate(req[c].batch)]
    /\ UNCHANGED <<rel, batch, lock, run, failures>>

ReconcileWrite(c) ==
    /\ req[c].pc = "write"
    /\ batch' = [batch EXCEPT ![req[c].batch].agg = req[c].agg]
    /\ req' = [req EXCEPT ![c] = Idle]
    /\ UNCHANGED <<rel, lock, run, failures>>

\* Verify reads the row, checks it and writes it in a second statement; VerifyEnv
\* does so for the children one by one, each on its own.
Verify(c, r) ==
    /\ req[c].pc = "idle"
    /\ rel[r].status = "pending_verify"
    /\ req' = [req EXCEPT ![c] = [Idle EXCEPT !.pc = "verify", !.rel = r]]
    /\ UNCHANGED <<rel, batch, lock, run, failures>>

VerifyWrite(c) ==
    /\ req[c].pc = "verify"
    /\ rel' = UpdateStatus(req[c].rel, "verified")
    /\ req' = [req EXCEPT ![c] = Idle]
    /\ UNCHANGED <<batch, lock, run, failures>>

\* Deploy or Retry of one release by an operator.
Redeploy(c, r) ==
    /\ req[c].pc = "idle"
    /\ Deployable(r)
    /\ StartRun(r)
    /\ UNCHANGED <<batch, req, failures>>
-----------------------------------------------------------------------------
(***************************************************************************)
(* The end of a run: syncReleaseStatus, then the unlock.                   *)
(***************************************************************************)
RunSucceeds(r) ==
    /\ run[r].pc = "running"
    /\ rel' = UpdateStatus(r, "pending_verify")
    /\ run' = [run EXCEPT ![r].pc = "prev"]
    /\ UNCHANGED <<batch, lock, req, failures>>

\* Mutation: only a deploy that succeeded reconciles the batch.
RunFailsSilently(r) ==
    /\ run[r].pc = "running"
    /\ rel' = UpdateStatus(r, "failed")
    /\ run' = [run EXCEPT ![r] = NoRun]
    /\ lock' = [lock EXCEPT ![rel[r].inst] = 0]
    /\ UNCHANGED <<batch, req, failures>>

RunFails(r) ==
    /\ run[r].pc = "running"
    /\ rel' = UpdateStatus(r, "failed")
    /\ run' = [run EXCEPT ![r].pc = "read"]
    /\ UNCHANGED <<batch, lock, req, failures>>

MarkRolledBack(r) ==
    /\ run[r].pc = "prev"
    /\ rel' = IF rel[r].prev > 0 THEN UpdateStatus(rel[r].prev, "rolled_back") ELSE rel
    /\ run' = [run EXCEPT ![r].pc = "read"]
    /\ UNCHANGED <<batch, lock, req, failures>>

RunReconcileRead(r) ==
    /\ run[r].pc = "read"
    /\ run' = [run EXCEPT ![r] = [pc |-> "write", agg |-> Aggregate(rel[r].batch)]]
    /\ UNCHANGED <<rel, batch, lock, req, failures>>

RunReconcileWrite(r) ==
    /\ run[r].pc = "write"
    /\ batch' = [batch EXCEPT ![rel[r].batch].agg = run[r].agg]
    /\ run' = [run EXCEPT ![r] = NoRun]
    /\ lock' = [lock EXCEPT ![rel[r].inst] = 0]
    /\ UNCHANGED <<rel, req, failures>>

\* MarkDeployFailed or MarkRolledBack fails; the batch is reconciled all the same.
RunMarkLost(r) ==
    /\ run[r].pc \in {"running", "prev"}
    /\ failures < MaxFailures /\ failures' = failures + 1
    /\ run' = [run EXCEPT ![r].pc = "read"]
    /\ UNCHANGED <<rel, batch, lock, req>>

\* MarkDeploySucceeded, a Get, or a statement of Reconcile fails: nothing follows
\* but the unlock.
RunCut(r) ==
    /\ run[r].pc # "idle"
    /\ failures < MaxFailures /\ failures' = failures + 1
    /\ run' = [run EXCEPT ![r] = NoRun]
    /\ lock' = [lock EXCEPT ![rel[r].inst] = 0]
    /\ UNCHANGED <<rel, batch, req>>

HandlerStep(c) ==
    \/ RollbackGuard(c) \/ RollbackPlan(c) \/ DraftChild(c) \/ DraftFails(c)
    \/ DeployChild(c) \/ DeployChildFails(c) \/ MarkRollingBack(c)
    \/ ReconcileRead(c) \/ ReconcileWrite(c) \/ VerifyWrite(c)

RunStep(r) ==
    \/ RunSucceeds(r) \/ RunFails(r) \/ MarkRolledBack(r)
    \/ RunReconcileRead(r) \/ RunReconcileWrite(r)

Next ==
    \/ \E c \in Client :
          \/ DeployEnv(c) \/ HandlerStep(c) \/ RequestCut(c) \/ MarkLost(c)
          \/ \E b \in Batch : RollbackEnv(c, b)
          \/ \E r \in Release : Redeploy(c, r) \/ Verify(c, r)
    \/ \E r \in Release : RunStep(r) \/ RunMarkLost(r) \/ RunCut(r)

Spec == Init /\ [][Next]_vars
-----------------------------------------------------------------------------
(***************************************************************************)
(* Properties.                                                             *)
(***************************************************************************)
\* Every row, run and handler has its declared shape.
TypeOK ==
    /\ rel \in [Release -> ReleaseRow]
    /\ batch \in [Batch -> BatchRow]
    /\ lock \in [Instance -> 0..MaxReleases]
    /\ run \in [Release -> Run]
    /\ req \in [Client -> Request]
    /\ failures \in 0..MaxFailures

\* A release is rolling_back only when a run was started for a release that
\* replaces it: rolling_back accepts no verify, retry or rollback, so a release
\* that never got a replacement must keep its own status (RollbackEnv).
RollingBackHasReplacement ==
    \A r \in Release : rel[r].status = "rolling_back" =>
        \E n \in Release : rel[n].prev = r /\ rel[n].started

\* Releases that wait for a run that will never come: a draft no handler is about
\* to deploy, a deploying release without its run.
Orphans == {r \in Release :
    \/ /\ rel[r].status = "draft"
       /\ \A c \in Client : req[c].pc # "deploy" \/ req[c].rel # r
    \/ rel[r].status = "deploying" /\ run[r].pc # "running"}

\* No child waits for a run that will never come (DeployEnv), but for one at most
\* per request that was cut, run whose outcome was lost or refusal that could not
\* be recorded: refusals, locks and whatever order the runs end in leave none.
NoOrphanChild == Cardinality(Orphans) <= failures

\* The fan-outs of different batches never have two releases of one instance
\* deploying at the same time (the per-instance deploy lock); a release whose run
\* is over and that only reads deploying is not counted.
OneDeployingPerInstance ==
    \A r, q \in Release \ Orphans :
        rel[r].status = "deploying" /\ rel[q].status = "deploying"
            /\ rel[r].inst = rel[q].inst => r = q

\* A batch that exists, on which no run of a child and no request works.
Settled(b) ==
    /\ batch[b].agg.status # "none"
    /\ \A r \in Children(b) : run[r].pc = "idle"
    /\ \A c \in Client : req[c].batch # b

\* What the comment of Reconcile says: the last child to finish writes the final
\* result, so that a settled batch has the aggregate of its children.
LastChildWritesFinal == \A b \in Batch : Settled(b) => batch[b].agg = Aggregate(b)
=============================================================================
