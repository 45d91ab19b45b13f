--------------------------- MODULE ReleasePipeline ---------------------------
(***************************************************************************)
(* The release pipeline of one deploy target, that is of one (application, *)
(* env, instance): the ApplicationRelease status machine, the DeployLog    *)
(* and its step rows, the Redis deploy lock, the HTTP handlers that start  *)
(* or steer a run (Deploy, Retry, Pause, Resume, Rollback, Verify) and the *)
(* background goroutine that executes it and folds the result back into    *)
(* the release.                                                            *)
(*                                                                         *)
(* Every read or write of the database or of Redis is a step of its own,   *)
(* so a handler acts on what it read earlier, exactly as the code does.    *)
(* A handler that answers with an error before it has written anything     *)
(* changes no state and has no action.                                     *)
(***************************************************************************)
EXTENDS Integers

CONSTANTS
    Client,        \* concurrent HTTP requests
    Token,         \* lock tokens, the uuids of AcquireKey; a token names its run
    NoToken,       \* the lock key is absent
    NumSteps,      \* steps of the pipeline; step 1 is git_pull
    MaxReleases,   \* bound on release rows
    MaxLogs,       \* bound on deploy_log rows
    MaxCrashes,    \* bound on restarts of the control plane
    MaxTimeouts    \* bound on runs that reach their deadline

ASSUME ConstantsAssumption ==
    /\ NoToken \notin Token
    /\ NumSteps \in Nat \ {0}
    /\ MaxReleases \in Nat
    /\ MaxLogs \in Nat
    /\ MaxCrashes \in Nat
    /\ MaxTimeouts \in Nat

Release == 1..MaxReleases
Log     == 1..MaxLogs
Step    == 1..NumSteps

ReleaseStatus == {"none", "draft", "deploying", "pending_verify", "verified",
                  "failed", "rolling_back", "rolled_back"}
DeployStatus  == {"none", "pending", "running", "success", "failed", "paused"}
StepStatus    == {"pending", "running", "success", "failed"}

\* A commit_sha or trigger_sha is empty until git_pull has resolved the branch
\* head, or the full SHA of the commit.
Commit == {"", "sha"}

VARIABLES
    rel,       \* application_release rows ("none": not created yet)
    log,       \* deploy_log rows with their pipeline_step rows
    lock,      \* the deploy lock's value in Redis
    req,       \* request handlers, by client
    run,       \* run goroutines, by the token of the lock they hold
    crashes,   \* restarts so far
    timeouts   \* deadlines so far

vars == <<rel, log, lock, req, run, crashes, timeouts>>

ReleaseRow == [status: ReleaseStatus, deploy_log_id: 0..MaxLogs,
               previous_release_id: 0..MaxReleases, commit: Commit,
               deployed: BOOLEAN]
LogRow     == [status: DeployStatus, pause_requested: BOOLEAN, trigger_sha: Commit,
               steps: [Step -> StepStatus]]
HandlerPC  == {"idle", "draft", "load", "acquire", "prepare", "reset", "mark_read",
               "mark_write", "rolling", "pause_write", "verify_write"}
Op         == {"none", "deploy", "retry", "resume", "rollback", "pause", "verify"}
Request    == [pc: HandlerPC, op: Op, rel: 0..MaxReleases, bad: 0..MaxReleases,
               log: 0..MaxLogs, from: 0..NumSteps, sha: Commit,
               tok: Token \cup {NoToken}]
RunPC      == {"idle", "start", "boundary", "pausing", "exec", "finish", "fail",
                "succeeded", "prev", "failed", "alert", "unlock"}
Run        == [pc: RunPC, rel: 0..MaxReleases, log: 0..MaxLogs, sha: Commit,
               late: BOOLEAN]

Idle    == [pc |-> "idle", op |-> "none", rel |-> 0, bad |-> 0, log |-> 0,
            from |-> 0, sha |-> "", tok |-> NoToken]
NoRun   == [pc |-> "idle", rel |-> 0, log |-> 0, sha |-> "", late |-> FALSE]

\* The row an insert creates: ids are autoincremented.
IsNextRelease(r) ==
    rel[r].status = "none" /\ \A q \in Release : q < r => rel[q].status # "none"
IsNextLog(l) ==
    log[l].status = "none" /\ \A k \in Log : k < l => log[k].status # "none"

Init ==
    /\ rel = [r \in Release |-> [status |-> "none", deploy_log_id |-> 0,
                                 previous_release_id |-> 0, commit |-> "",
                                 deployed |-> FALSE]]
    /\ log = [l \in Log |-> [status |-> "none", pause_requested |-> FALSE,
                             trigger_sha |-> "", steps |-> [s \in Step |-> "pending"]]]
    /\ lock = NoToken
    /\ req = [c \in Client |-> Idle]
    /\ run = [t \in Token |-> NoRun]
    /\ crashes = 0
    /\ timeouts = 0
-----------------------------------------------------------------------------
(***************************************************************************)
(* The deploy lock: SETNX with a time to live, and a release that deletes  *)
(* the key only while it still holds the caller's token.                   *)
(***************************************************************************)
FreshTokens == {t \in Token : run[t].pc = "idle" /\ \A c \in Client : req[c].tok # t}

AcquireKey(t) == lock = NoToken /\ lock' = t

\* Mutation: DEL without comparing the token.
ReleaseKeyUnchecked(t) == lock' = NoToken

ReleaseKey(t) == lock' = IF lock = t THEN NoToken ELSE lock

(***************************************************************************)
(* Status writers. UpdateStatus writes the row whatever its status is.     *)
(***************************************************************************)
UpdateStatus(r, status) == [rel EXCEPT ![r].status = status]

\* Every run's rows at or after fromIdx go back to pending.
ResetFrom(l, from) ==
    [log EXCEPT ![l].steps = [s \in Step |-> IF s >= from THEN "pending" ELSE @[s]]]

\* Mutation: MarkRunning only updates a row that is pending, so a resumed run
\* still reads as paused.
MarkRunningFromPending(l) ==
    [log EXCEPT ![l].status = IF @ = "pending" THEN "running" ELSE @,
                ![l].pause_requested = FALSE]

MarkRunning(l) ==
    [log EXCEPT ![l].status = "running", ![l].pause_requested = FALSE]

MarkPaused(l, sha) ==
    [log EXCEPT ![l].status = "paused", ![l].pause_requested = FALSE,
                ![l].trigger_sha = sha]

Finish(l, status, sha) ==
    [log EXCEPT ![l].status = status, ![l].trigger_sha = sha]

\* Mutation: a row that failed counts as done.
DoneOrFailed(status) == status \in {"success", "failed"}

\* What the loop of Run passes over. Nothing ever writes skipped.
IsDone(status) == status = "success"

\* The first row of the log that is left to run.
IsNextStep(l, s) ==
    ~IsDone(log[l].steps[s]) /\ \A q \in Step : q < s => IsDone(log[l].steps[q])
-----------------------------------------------------------------------------
(***************************************************************************)
(* Request handlers.                                                       *)
(***************************************************************************)
Start(c, fields) == req' = [req EXCEPT ![c] = fields]
Goto(c, pc)      == req' = [req EXCEPT ![c].pc = pc]
Done(c)          == req' = [req EXCEPT ![c] = Idle]

\* A draft row for the head of a branch; the drafts that pin a commit are those
\* of CreateRollbackDraft.
CreateRelease(c) ==
    /\ req[c].pc = "idle"
    /\ \E r \in Release : IsNextRelease(r) /\ rel' = UpdateStatus(r, "draft")
    /\ UNCHANGED <<log, lock, req, run, crashes, timeouts>>

\* loadTarget and the fail-fast status check of Deploy.
Deploy(c, r) ==
    /\ req[c].pc = "idle"
    /\ rel[r].status \in {"draft", "failed"}
    /\ Start(c, [Idle EXCEPT !.pc = "acquire", !.op = "deploy", !.rel = r,
                             !.sha = rel[r].commit])
    /\ UNCHANGED <<rel, log, lock, run, crashes, timeouts>>

\* The same check when Rollback deploys the draft it has just created.
RollbackLoad(c) ==
    /\ req[c].pc = "load"
    /\ IF rel[req[c].rel].status \in {"draft", "failed"}
         THEN Goto(c, "acquire")
         ELSE Done(c)
    /\ UNCHANGED <<rel, log, lock, run, crashes, timeouts>>

\* loadForResume, then the status and range checks of Retry.
Retry(c, r, from) ==
    /\ req[c].pc = "idle"
    /\ rel[r].deploy_log_id # 0
    /\ log[rel[r].deploy_log_id].status = "failed"
    /\ Start(c, [Idle EXCEPT !.pc = "acquire", !.op = "retry", !.rel = r, !.from = from,
                             !.log = rel[r].deploy_log_id,
                             !.sha = log[rel[r].deploy_log_id].trigger_sha])
    /\ UNCHANGED <<rel, log, lock, run, crashes, timeouts>>

Resume(c, r) ==
    /\ req[c].pc = "idle"
    /\ rel[r].deploy_log_id # 0
    /\ log[rel[r].deploy_log_id].status = "paused"
    /\ Start(c, [Idle EXCEPT !.pc = "acquire", !.op = "resume", !.rel = r,
                             !.log = rel[r].deploy_log_id,
                             !.sha = log[rel[r].deploy_log_id].trigger_sha])
    /\ UNCHANGED <<rel, log, lock, run, crashes, timeouts>>

\* The go statement at the end of Deploy, Retry and Resume.
Spawn(c, t) ==
    run' = [run EXCEPT ![t] = [NoRun EXCEPT !.pc = "start", !.rel = req[c].rel,
                                            !.log = req[c].log, !.sha = req[c].sha]]

\* AcquireKey answers at once: the key is set, or the request ends with
\* ErrDeployLocked. A rollback that is refused leaves its draft behind.
Acquire(c) ==
    /\ req[c].pc = "acquire"
    /\ \/ /\ lock # NoToken
          /\ Done(c)
          /\ UNCHANGED <<lock, run>>
       \/ \E t \in FreshTokens :
             /\ AcquireKey(t)
             /\ IF req[c].op = "resume"
                  THEN Spawn(c, t) /\ Done(c)
                  ELSE /\ req[c].op # "retry" => \E l \in Log : IsNextLog(l)
                       /\ req' = [req EXCEPT ![c].tok = t,
                                    ![c].pc = IF req[c].op = "retry"
                                                THEN "reset" ELSE "prepare"]
                       /\ UNCHANGED run
    /\ UNCHANGED <<rel, log, crashes, timeouts>>

\* prepareRun: the deploy_log row and its pending step rows, with the commit of
\* the release as it was loaded.
PrepareRun(c) ==
    /\ req[c].pc = "prepare"
    /\ \E l \in Log :
          /\ IsNextLog(l)
          /\ log' = [log EXCEPT ![l].status = "pending", ![l].trigger_sha = req[c].sha]
          /\ req' = [req EXCEPT ![c].pc = "mark_read", ![c].log = l]
    /\ UNCHANGED <<rel, lock, run, crashes, timeouts>>

RetryReset(c) ==
    /\ req[c].pc = "reset"
    /\ log' = ResetFrom(req[c].log, req[c].from)
    /\ req' = [req EXCEPT ![c].pc = "mark_read", ![c].from = 0]
    /\ UNCHANGED <<rel, lock, run, crashes, timeouts>>

\* An error return. The handler releases the lock with the request's own
\* context; when that context is cancelled the release is lost as well and the
\* key stays until its TTL.
ErrorReturn(c) ==
    /\ ReleaseKey(req[c].tok) \/ UNCHANGED lock
    /\ Done(c)

\* MarkDeploying reads the row, checks it, and writes it in a second statement.
MarkDeployingRead(c) ==
    /\ req[c].pc = "mark_read"
    /\ IF rel[req[c].rel].status \in {"draft", "failed"}
         THEN Goto(c, "mark_write") /\ UNCHANGED lock
         ELSE ErrorReturn(c)
    /\ UNCHANGED <<rel, log, run, crashes, timeouts>>

MarkDeploying(c) ==
    /\ req[c].pc = "mark_write"
    /\ rel' = [UpdateStatus(req[c].rel, "deploying") EXCEPT
                 ![req[c].rel].deploy_log_id = req[c].log]
    /\ Spawn(c, req[c].tok)
    /\ IF req[c].op = "rollback"
         THEN req' = [req EXCEPT ![c] = [Idle EXCEPT !.pc = "rolling", !.bad = req[c].bad]]
         ELSE Done(c)
    /\ UNCHANGED <<log, lock, crashes, timeouts>>

\* Build, ResetFrom or a database statement fails, or the client hangs up and
\* cancels the request's context.
HandlerError(c) ==
    /\ req[c].pc \in {"load", "acquire", "prepare", "reset", "mark_read", "mark_write"}
    /\ ErrorReturn(c)
    /\ UNCHANGED <<rel, log, run, crashes, timeouts>>

Pause(c, r) ==
    /\ req[c].pc = "idle"
    /\ rel[r].deploy_log_id # 0
    /\ log[rel[r].deploy_log_id].status = "running"
    /\ Start(c, [Idle EXCEPT !.pc = "pause_write", !.op = "pause", !.rel = r,
                             !.log = rel[r].deploy_log_id])
    /\ UNCHANGED <<rel, log, lock, run, crashes, timeouts>>

SetPauseRequested(c) ==
    /\ req[c].pc = "pause_write"
    /\ log' = [log EXCEPT ![req[c].log].pause_requested = TRUE]
    /\ Done(c)
    /\ UNCHANGED <<rel, lock, run, crashes, timeouts>>

Verify(c, r) ==
    /\ req[c].pc = "idle"
    /\ rel[r].status = "pending_verify"
    /\ Start(c, [Idle EXCEPT !.pc = "verify_write", !.op = "verify", !.rel = r])
    /\ UNCHANGED <<rel, log, lock, run, crashes, timeouts>>

VerifyWrite(c) ==
    /\ req[c].pc = "verify_write"
    /\ rel' = UpdateStatus(req[c].rel, "verified")
    /\ Done(c)
    /\ UNCHANGED <<log, lock, run, crashes, timeouts>>

\* ResolveRollbackTarget: any verified release the operator names; the default,
\* the newest verified release older than the bad one, is one of them.
RollbackTargets == {r \in Release : rel[r].status = "verified"}

Rollback(c, bad) ==
    /\ req[c].pc = "idle"
    /\ rel[bad].status \notin {"none", "rolling_back", "rolled_back"}
    /\ \E r \in Release : IsNextRelease(r)
    /\ \E target \in RollbackTargets :
           Start(c, [Idle EXCEPT !.pc = "draft", !.op = "rollback", !.bad = bad,
                                 !.sha = rel[target].commit])
    /\ UNCHANGED <<rel, log, lock, run, crashes, timeouts>>

\* CreateRollbackDraft, whose release is then deployed like any other.
CreateRollbackDraft(c) ==
    /\ req[c].pc = "draft"
    /\ \E r \in Release :
          /\ IsNextRelease(r)
          /\ rel' = [rel EXCEPT ![r].status = "draft", ![r].commit = req[c].sha,
                                ![r].previous_release_id = req[c].bad]
          /\ req' = [req EXCEPT ![c].pc = "load", ![c].rel = r]
    /\ UNCHANGED <<log, lock, run, crashes, timeouts>>

\* Best effort: the write may fail, and the redeploy is already running.
MarkRollingBack(c) ==
    /\ req[c].pc = "rolling"
    /\ rel' \in {UpdateStatus(req[c].bad, "rolling_back"), rel}
    /\ Done(c)
    /\ UNCHANGED <<log, lock, run, crashes, timeouts>>
-----------------------------------------------------------------------------
(***************************************************************************)
(* The run goroutine: runAsync, Runner.Run and syncReleaseStatus. A late   *)
(* run is one whose context has reached its deadline; statements issued    *)
(* with that context then fail, those with a detached context do not.      *)
(***************************************************************************)
RunGoto(t, pc) == run' = [run EXCEPT ![t].pc = pc]

\* What is left of a run that touches neither its release nor its log any more.
Unwind(t, pc) == run' = [run EXCEPT ![t] = [NoRun EXCEPT !.pc = pc, !.late = run[t].late]]

\* MarkRunning, then the checks before the first step: ListByLog, the comparison
\* with the rebuilt blueprints and the localPath. Only the holder of the lock
\* writes step rows, so nothing can happen between the two.
RunStart(t) ==
    /\ run[t].pc = "start"
    /\ \/ ~run[t].late /\ log' = MarkRunning(run[t].log) /\ RunGoto(t, "boundary")
       \/ ~run[t].late /\ log' = MarkRunning(run[t].log) /\ RunGoto(t, "fail")
       \/ RunGoto(t, "fail") /\ UNCHANGED log
    /\ UNCHANGED <<rel, lock, req, crashes, timeouts>>

\* A step boundary. shouldPause re-reads the flag; a read error (a late run)
\* counts as no pause. Otherwise the row is marked running, best effort.
Boundary(t) ==
    /\ run[t].pc = "boundary"
    /\ LET l == run[t].log
       IN  \/ /\ \A s \in Step : IsDone(log[l].steps[s])
              /\ RunGoto(t, "finish")
              /\ UNCHANGED log
           \/ \E s \in Step :
              /\ IsNextStep(l, s)
              /\ IF log[l].pause_requested /\ ~run[t].late
                   THEN RunGoto(t, "pausing") /\ UNCHANGED log
                   ELSE /\ RunGoto(t, "exec")
                        /\ log' = IF run[t].late THEN log
                                  ELSE [log EXCEPT ![l].steps[s] = "running"]
    /\ UNCHANGED <<rel, lock, req, crashes, timeouts>>

\* The error of MarkPaused is ignored: a late run leaves the row running.
PauseRun(t) ==
    /\ run[t].pc = "pausing"
    /\ log' = IF run[t].late THEN log ELSE MarkPaused(run[t].log, run[t].sha)
    /\ Unwind(t, "unlock")
    /\ UNCHANGED <<rel, lock, req, crashes, timeouts>>

\* Execute returns; the row is saved with a detached context. git_pull leaves
\* the commit it checked out in the log kept in memory.
StepSucceeds(t) ==
    /\ run[t].pc = "exec"
    /\ \E s \in Step :
          /\ IsNextStep(run[t].log, s)
          /\ log' = [log EXCEPT ![run[t].log].steps[s] = "success"]
          /\ run' = [run EXCEPT ![t].pc = "boundary",
                                ![t].sha = IF s = 1 THEN "sha" ELSE @]
    /\ UNCHANGED <<rel, lock, req, crashes, timeouts>>

StepFails(t) ==
    /\ run[t].pc = "exec"
    /\ \E s \in Step :
          /\ IsNextStep(run[t].log, s)
          /\ log' = [log EXCEPT ![run[t].log].steps[s] = "failed"]
    /\ RunGoto(t, "fail")
    /\ UNCHANGED <<rel, lock, req, crashes, timeouts>>

\* fail writes with a detached context.
RunFail(t) ==
    /\ run[t].pc = "fail"
    /\ log' = Finish(run[t].log, "failed", run[t].sha)
    /\ RunGoto(t, "failed")
    /\ UNCHANGED <<rel, lock, req, crashes, timeouts>>

\* The final Finish uses the run's own context: when it fails the row keeps
\* status running, and the run still counts as a success.
RunFinish(t) ==
    /\ run[t].pc = "finish"
    /\ log' = IF run[t].late THEN log ELSE Finish(run[t].log, "success", run[t].sha)
    /\ RunGoto(t, "succeeded")
    /\ UNCHANGED <<rel, lock, req, crashes, timeouts>>

MarkDeploySucceeded(t) ==
    /\ run[t].pc = "succeeded"
    /\ LET r   == run[t].rel
           sha == IF run[t].sha = "" THEN rel[r].commit ELSE run[t].sha
       IN  rel' = [rel EXCEPT ![r].status = "pending_verify", ![r].deployed = TRUE,
                              ![r].commit = sha]
    /\ RunGoto(t, "prev")
    /\ UNCHANGED <<log, lock, req, crashes, timeouts>>

MarkRolledBack(t) ==
    /\ run[t].pc = "prev"
    /\ LET prev == rel[run[t].rel].previous_release_id
       IN  rel' = IF prev > 0 THEN UpdateStatus(prev, "rolled_back") ELSE rel
    /\ Unwind(t, "unlock")
    /\ UNCHANGED <<log, lock, req, crashes, timeouts>>

\* Mutation: a failed replacement also closes the release it was to replace.
MarkDeployFailedAndRolledBack(t) ==
    /\ run[t].pc = "failed"
    /\ LET prev == rel[run[t].rel].previous_release_id
       IN  rel' = IF prev > 0
                    THEN [UpdateStatus(run[t].rel, "failed") EXCEPT
                            ![prev].status = "rolled_back"]
                    ELSE UpdateStatus(run[t].rel, "failed")
    /\ Unwind(t, "alert")
    /\ UNCHANGED <<log, lock, req, crashes, timeouts>>

MarkDeployFailed(t) ==
    /\ run[t].pc = "failed"
    /\ rel' = UpdateStatus(run[t].rel, "failed")
    /\ Unwind(t, "alert")
    /\ UNCHANGED <<log, lock, req, crashes, timeouts>>

\* alertDeployFailed: up to 30 seconds of webhook calls, with the lock held.
AlertDeployFailed(t) ==
    /\ run[t].pc = "alert"
    /\ RunGoto(t, "unlock")
    /\ UNCHANGED <<rel, log, lock, req, crashes, timeouts>>

RunUnlock(t) ==
    /\ run[t].pc = "unlock"
    /\ ReleaseKey(t)
    /\ run' = [run EXCEPT ![t] = NoRun]
    /\ UNCHANGED <<rel, log, req, crashes, timeouts>>
-----------------------------------------------------------------------------
(***************************************************************************)
(* The environment.                                                        *)
(***************************************************************************)
\* The run's context reaches deploy.default_timeout.
Timeout(t) ==
    /\ run[t].pc \in {"start", "boundary", "pausing", "exec", "finish"}
    /\ ~run[t].late
    /\ timeouts < MaxTimeouts
    /\ run' = [run EXCEPT ![t].late = TRUE]
    /\ timeouts' = timeouts + 1
    /\ UNCHANGED <<rel, log, lock, req, crashes>>

\* Mutation: the key is set without a time to live.
LockNeverExpires == FALSE /\ UNCHANGED vars

\* The key lives for the timeout plus 30 seconds. Nobody holds it any more, or
\* its run passed the deadline and is still sending failure alerts: unwinding
\* the step and the two detached writes may take 25 seconds, the alert 30.
LockExpires ==
    /\ lock # NoToken
    /\ \/ run[lock].pc = "idle" /\ \A c \in Client : req[c].tok # lock
       \/ run[lock].pc = "alert" /\ run[lock].late
    /\ lock' = NoToken
    /\ UNCHANGED <<rel, log, req, run, crashes, timeouts>>

\* The control plane restarts: handlers and goroutines are gone, the database
\* and Redis keep what was written.
Crash ==
    /\ crashes < MaxCrashes
    /\ crashes' = crashes + 1
    /\ req' = [c \in Client |-> Idle]
    /\ run' = [t \in Token |-> NoRun]
    /\ UNCHANGED <<rel, log, lock, timeouts>>

HandlerStep(c) ==
    \/ RollbackLoad(c) \/ Acquire(c) \/ PrepareRun(c) \/ RetryReset(c)
    \/ MarkDeployingRead(c) \/ MarkDeploying(c)
    \/ SetPauseRequested(c) \/ VerifyWrite(c) \/ CreateRollbackDraft(c)
    \/ MarkRollingBack(c)

RunStep(t) ==
    \/ RunStart(t) \/ Boundary(t) \/ PauseRun(t)
    \/ StepSucceeds(t) \/ StepFails(t) \/ RunFail(t) \/ RunFinish(t)
    \/ MarkDeploySucceeded(t) \/ MarkRolledBack(t) \/ MarkDeployFailed(t)
    \/ AlertDeployFailed(t) \/ RunUnlock(t)

Operator(c) ==
    \/ CreateRelease(c)
    \/ \E r \in Release :
          \/ Deploy(c, r) \/ Resume(c, r) \/ Pause(c, r) \/ Verify(c, r) \/ Rollback(c, r)
          \/ \E from \in Step : Retry(c, r, from)

Next ==
    \/ \E c \in Client : Operator(c) \/ HandlerStep(c) \/ HandlerError(c)
    \/ \E t \in Token : RunStep(t) \/ Timeout(t)
    \/ LockExpires
    \/ Crash

Spec == Init /\ [][Next]_vars

\* Handlers and goroutines are scheduled, steps end (their context is bounded)
\* and Redis expires keys; operators owe nothing.
Fairness ==
    /\ \A c \in Client : WF_vars(HandlerStep(c))
    /\ \A t \in Token : WF_vars(RunStep(t))
    /\ WF_vars(LockExpires)

FairSpec == Spec /\ Fairness
-----------------------------------------------------------------------------
(***************************************************************************)
(* Properties.                                                             *)
(***************************************************************************)
\* Every row, handler and run has its declared shape.
TypeOK ==
    /\ rel \in [Release -> ReleaseRow]
    /\ log \in [Log -> LogRow]
    /\ lock \in Token \cup {NoToken}
    /\ req \in [Client -> Request]
    /\ run \in [Token -> Run]
    /\ crashes \in 0..MaxCrashes
    /\ timeouts \in 0..MaxTimeouts

\* A run that may still change containers, step rows or the release.
Driving(t) == run[t].pc \notin {"idle", "alert", "unlock"}

\* A handler between AcquireKey and the go statement or its error return.
Preparing(c) == req[c].tok # NoToken

\* One deploy at a time per instance (DeployLockService): the handlers that are
\* preparing a run and the runs that are executing one exclude each other, also
\* when a lock expires under a run that is late in sending its alerts.
DeployExclusive ==
    /\ \A t1, t2 \in Token : Driving(t1) /\ Driving(t2) => t1 = t2
    /\ \A c1, c2 \in Client : Preparing(c1) /\ Preparing(c2) => c1 = c2
    /\ \A c \in Client, t \in Token : ~(Preparing(c) /\ Driving(t))

\* The inductive form of DeployExclusive: who may drive or prepare is tied to the
\* value of the lock, and a token belongs to at most one handler or run.
LockInv ==
    /\ \A t \in Token : Driving(t) => lock = t
    /\ \A c \in Client : Preparing(c) => lock = req[c].tok /\ run[req[c].tok].pc = "idle"
    /\ \A c1, c2 \in Client : Preparing(c1) /\ req[c1].tok = req[c2].tok => c1 = c2
    /\ \A c \in Client :
          Preparing(c) <=> req[c].pc \in {"prepare", "reset", "mark_read", "mark_write"}

\* A run that is about to report success to its release has every step row of
\* its log in success, whatever other requests did to the rows meanwhile.
SuccessMeansEveryStepRan ==
    \A t \in Token : run[t].pc \in {"finish", "succeeded"} =>
        \A s \in Step : log[run[t].log].steps[s] = "success"

\* A paused log is at rest and can be resumed: a step is left to run and no run
\* is executing the log (Run, Resume).
PausedIsQuiescent ==
    \A l \in Log : log[l].status = "paused" =>
        /\ \E s \in Step : log[l].steps[s] # "success"
        /\ \A t \in Token : run[t].log = l =>
               run[t].pc \notin {"boundary", "pausing", "exec", "finish"}

\* A release is declared rolled_back only when a release that replaces it has
\* been deployed (syncReleaseStatus).
RolledBackWasReplaced ==
    \A b \in Release : rel[b].status = "rolled_back" =>
        \E n \in Release : rel[n].previous_release_id = b /\ rel[n].deployed

\* Whoever holds the lock, the key is eventually deleted or expires: after a
\* crash, a lost release or a run that fails.
LockEventuallyFreed == \A t \in Token : lock = t ~> lock # t
=============================================================================
