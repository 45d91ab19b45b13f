----------------------- MODULE ReleasePipelineProofs -----------------------
(***************************************************************************)
(* Machine-checked proofs about ReleasePipeline, for any number of         *)
(* clients, lock tokens, steps, releases, logs, crashes and deadlines.     *)
(***************************************************************************)
EXTENDS ReleasePipeline, TLAPS

-----------------------------------------------------------------------------
(***************************************************************************)
(* Type correctness.                                                       *)
(***************************************************************************)
\* The literals the actions write belong to the declared enumerations.
LEMMA Literals ==
    /\ HandlerPC = {"idle", "draft", "load", "acquire", "prepare", "reset", "mark_read",
                    "mark_write", "rolling", "pause_write", "verify_write"}
    /\ RunPC = {"idle", "start", "boundary", "pausing", "exec", "finish", "fail",
                "succeeded", "prev", "failed", "alert", "unlock"}
    /\ ReleaseStatus = {"none", "draft", "deploying", "pending_verify", "verified",
                        "failed", "rolling_back", "rolled_back"}
    /\ DeployStatus = {"none", "pending", "running", "success", "failed", "paused"}
    /\ StepStatus = {"pending", "running", "success", "failed"}
    /\ Op = {"none", "deploy", "retry", "resume", "rollback", "pause", "verify"}
    /\ Commit = {"", "sha"}
  BY DEF HandlerPC, RunPC, ReleaseStatus, DeployStatus, StepStatus, Op, Commit

LEMMA Ranges ==
    /\ Release \subseteq 0..MaxReleases
    /\ Log \subseteq 0..MaxLogs
    /\ Step \subseteq 0..NumSteps
    /\ \A l \in 0..MaxLogs : l # 0 => l \in Log
  BY ConstantsAssumption DEF Release, Log, Step

LEMMA IdleType == Idle \in Request
  BY ConstantsAssumption DEF Idle, Request, HandlerPC, Op, Commit

LEMMA NoRunType == NoRun \in Run
  BY ConstantsAssumption DEF NoRun, Run, RunPC, Commit

LEMMA UpdateStatusType ==
    ASSUME TypeOK, NEW r, NEW status \in ReleaseStatus
    PROVE  UpdateStatus(r, status) \in [Release -> ReleaseRow]
  BY DEF TypeOK, UpdateStatus, ReleaseRow

LEMMA GotoType ==
    ASSUME TypeOK, NEW c, NEW pc \in HandlerPC, Goto(c, pc)
    PROVE  req' \in [Client -> Request]
  BY ZenonT(60) DEF TypeOK, Goto, Request

LEMMA StartType ==
    ASSUME TypeOK, NEW c, NEW fields \in Request, Start(c, fields)
    PROVE  req' \in [Client -> Request]
  BY DEF TypeOK, Start

LEMMA DoneType ==
    ASSUME TypeOK, NEW c, Done(c)
    PROVE  req' \in [Client -> Request]
  BY IdleType DEF TypeOK, Done

LEMMA ReleaseKeyType ==
    ASSUME TypeOK, NEW t, ReleaseKey(t)
    PROVE  lock' \in Token \cup {NoToken}
  BY DEF TypeOK, ReleaseKey

LEMMA SpawnType ==
    ASSUME TypeOK, NEW c \in Client, NEW t, Spawn(c, t)
    PROVE  run' \in [Token -> Run]
  <1>1. "start" \in RunPC
    BY Literals
  <1>2. [NoRun EXCEPT !.pc = "start", !.rel = req[c].rel,
                      !.log = req[c].log, !.sha = req[c].sha] \in Run
    BY <1>1, NoRunType DEF TypeOK, Run, Request
  <1> QED
    BY <1>2 DEF TypeOK, Spawn

LEMMA RunGotoType ==
    ASSUME TypeOK, NEW t, NEW pc \in RunPC, RunGoto(t, pc)
    PROVE  run' \in [Token -> Run]
  BY DEF TypeOK, RunGoto, Run

LEMMA UnwindType ==
    ASSUME TypeOK, NEW t \in Token, NEW pc \in RunPC, Unwind(t, pc)
    PROVE  run' \in [Token -> Run]
  <1>1. [NoRun EXCEPT !.pc = pc, !.late = run[t].late] \in Run
    BY NoRunType DEF TypeOK, Run
  <1> QED
    BY <1>1 DEF TypeOK, Unwind

LEMMA InitType == Init => TypeOK
  <1> SUFFICES ASSUME Init PROVE TypeOK
    OBVIOUS
  <1>1. [status |-> "none", deploy_log_id |-> 0, previous_release_id |-> 0,
         commit |-> "", deployed |-> FALSE] \in ReleaseRow
    BY ConstantsAssumption DEF ReleaseRow, ReleaseStatus, Commit
  <1>2. [status |-> "none", pause_requested |-> FALSE, trigger_sha |-> "",
         steps |-> [s \in Step |-> "pending"]] \in LogRow
    BY DEF LogRow, DeployStatus, StepStatus, Commit
  <1>3. crashes \in 0..MaxCrashes /\ timeouts \in 0..MaxTimeouts
    <2>1. 0 \in 0..MaxCrashes /\ 0 \in 0..MaxTimeouts
      BY ConstantsAssumption
    <2> QED
      BY <2>1 DEF Init
  <1>4. rel \in [Release -> ReleaseRow]
    BY <1>1 DEF Init
  <1>5. log \in [Log -> LogRow]
    BY <1>2 DEF Init
  <1>6. req \in [Client -> Request] /\ run \in [Token -> Run] /\ lock \in Token \cup {NoToken}
    BY IdleType, NoRunType DEF Init
  <1> QED
    BY <1>3, <1>4, <1>5, <1>6 DEF TypeOK

LEMMA OperatorType ==
    ASSUME TypeOK, NEW c \in Client, Operator(c)
    PROVE  TypeOK'
  <1>1. CASE CreateRelease(c)
    <2>1. "draft" \in ReleaseStatus
      BY Literals
    <2> QED
      BY <1>1, <2>1, UpdateStatusType DEF CreateRelease, TypeOK
  <1>2. ASSUME NEW r \in Release, Deploy(c, r) PROVE TypeOK'
    <2>1. "acquire" \in HandlerPC /\ "deploy" \in Op /\ r \in 0..MaxReleases
      BY Literals, Ranges
    <2>2. [Idle EXCEPT !.pc = "acquire", !.op = "deploy", !.rel = r,
                       !.sha = rel[r].commit] \in Request
      BY <2>1, IdleType DEF TypeOK, ReleaseRow, Request
    <2> QED
      BY <1>2, <2>2, StartType DEF Deploy, TypeOK
  <1>3. ASSUME NEW r \in Release, NEW from \in Step, Retry(c, r, from) PROVE TypeOK'
    <2>1. "acquire" \in HandlerPC /\ "retry" \in Op /\ r \in 0..MaxReleases /\ from \in 0..NumSteps
      BY Literals, Ranges
    <2>2. rel[r].deploy_log_id \in 0..MaxLogs /\ log[rel[r].deploy_log_id].trigger_sha \in Commit
      BY <1>3, Ranges DEF Retry, TypeOK, ReleaseRow, LogRow
    <2>3. [Idle EXCEPT !.pc = "acquire", !.op = "retry", !.rel = r, !.from = from,
                       !.log = rel[r].deploy_log_id,
                       !.sha = log[rel[r].deploy_log_id].trigger_sha] \in Request
      BY <2>1, <2>2, IdleType DEF Request
    <2> QED
      BY <1>3, <2>3, StartType DEF Retry, TypeOK
  <1>4. ASSUME NEW r \in Release, Resume(c, r) PROVE TypeOK'
    <2>1. "acquire" \in HandlerPC /\ "resume" \in Op /\ r \in 0..MaxReleases
      BY Literals, Ranges
    <2>2. rel[r].deploy_log_id \in 0..MaxLogs /\ log[rel[r].deploy_log_id].trigger_sha \in Commit
      BY <1>4, Ranges DEF Resume, TypeOK, ReleaseRow, LogRow
    <2>3. [Idle EXCEPT !.pc = "acquire", !.op = "resume", !.rel = r,
                       !.log = rel[r].deploy_log_id,
                       !.sha = log[rel[r].deploy_log_id].trigger_sha] \in Request
      BY <2>1, <2>2, IdleType DEF Request
    <2> QED
      BY <1>4, <2>3, StartType DEF Resume, TypeOK
  <1>5. ASSUME NEW r \in Release, Pause(c, r) PROVE TypeOK'
    <2>1. "pause_write" \in HandlerPC /\ "pause" \in Op /\ r \in 0..MaxReleases
      BY Literals, Ranges
    <2>2. [Idle EXCEPT !.pc = "pause_write", !.op = "pause", !.rel = r,
                       !.log = rel[r].deploy_log_id] \in Request
      BY <2>1, IdleType DEF TypeOK, ReleaseRow, Request
    <2> QED
      BY <1>5, <2>2, StartType DEF Pause, TypeOK
  <1>6. ASSUME NEW r \in Release, Verify(c, r) PROVE TypeOK'
    <2>1. "verify_write" \in HandlerPC /\ "verify" \in Op /\ r \in 0..MaxReleases
      BY Literals, Ranges
    <2>2. [Idle EXCEPT !.pc = "verify_write", !.op = "verify", !.rel = r] \in Request
      BY <2>1, IdleType DEF Request
    <2> QED
      BY <1>6, <2>2, StartType DEF Verify, TypeOK
  <1>7. ASSUME NEW r \in Release, Rollback(c, r) PROVE TypeOK'
    <2>1. "draft" \in HandlerPC /\ "rollback" \in Op /\ r \in 0..MaxReleases
      BY Literals, Ranges
    <2>2. PICK target \in RollbackTargets :
             Start(c, [Idle EXCEPT !.pc = "draft", !.op = "rollback", !.bad = r,
                                   !.sha = rel[target].commit])
      BY <1>7 DEF Rollback
    <2>3. [Idle EXCEPT !.pc = "draft", !.op = "rollback", !.bad = r,
                       !.sha = rel[target].commit] \in Request
      BY <2>1, IdleType DEF TypeOK, ReleaseRow, Request, RollbackTargets
    <2> QED
      BY <1>7, <2>2, <2>3, StartType DEF Rollback, TypeOK
  <1> QED
    BY <1>1, <1>2, <1>3, <1>4, <1>5, <1>6, <1>7 DEF Operator

LEMMA HandlerType ==
    ASSUME TypeOK, NEW c \in Client, HandlerStep(c) \/ HandlerError(c)
    PROVE  TypeOK'
  <1>1. CASE RollbackLoad(c)
    <2>1. "acquire" \in HandlerPC
      BY Literals
    <2> QED
      BY <1>1, <2>1, GotoType, DoneType DEF RollbackLoad, TypeOK
  <1>2. CASE Acquire(c)
    <2>1. CASE lock # NoToken /\ Done(c) /\ UNCHANGED <<lock, run>>
      BY <1>2, <2>1, DoneType DEF Acquire, TypeOK
    <2>2. ASSUME NEW t \in FreshTokens, AcquireKey(t), Spawn(c, t), Done(c) PROVE TypeOK'
      BY <1>2, <2>2, SpawnType, DoneType DEF Acquire, AcquireKey, FreshTokens, TypeOK
    <2>3. ASSUME NEW t \in FreshTokens, AcquireKey(t), UNCHANGED run,
                 req' = [req EXCEPT ![c].tok = t,
                           ![c].pc = IF req[c].op = "retry" THEN "reset" ELSE "prepare"]
          PROVE  TypeOK'
      <3>1. "reset" \in HandlerPC /\ "prepare" \in HandlerPC
        BY Literals
      <3>2. req' \in [Client -> Request]
        BY <2>3, <3>1, ZenonT(60) DEF TypeOK, Request, FreshTokens
      <3> QED
        BY <1>2, <2>3, <3>2 DEF Acquire, AcquireKey, FreshTokens, TypeOK
    <2> QED
      BY <1>2, <2>1, <2>2, <2>3 DEF Acquire
  <1>3. CASE PrepareRun(c)
    <2>1. "mark_read" \in HandlerPC /\ "pending" \in DeployStatus
      BY Literals
    <2>2. PICK l \in Log :
             /\ log' = [log EXCEPT ![l].status = "pending", ![l].trigger_sha = req[c].sha]
             /\ req' = [req EXCEPT ![c].pc = "mark_read", ![c].log = l]
      BY <1>3 DEF PrepareRun
    <2>3. log' \in [Log -> LogRow]
      BY <2>1, <2>2, ZenonT(60) DEF TypeOK, LogRow, Request
    <2>4. req' \in [Client -> Request]
      BY <2>1, <2>2, Ranges, ZenonT(60) DEF TypeOK, Request
    <2> QED
      BY <1>3, <2>3, <2>4 DEF PrepareRun, TypeOK
  <1>4. CASE RetryReset(c)
    <2>1. "mark_read" \in HandlerPC /\ "pending" \in StepStatus
      BY Literals
    <2>2. 0 \in 0..NumSteps
      BY ConstantsAssumption
    <2>3. log' \in [Log -> LogRow]
      <3>1. ASSUME NEW row \in LogRow, NEW from
            PROVE  [row EXCEPT !.steps = [s \in Step |-> IF s >= from THEN "pending"
                                                         ELSE row.steps[s]]] \in LogRow
        BY <2>1 DEF LogRow
      <3> QED
        BY <1>4, <3>1 DEF RetryReset, ResetFrom, TypeOK
    <2>4. req' \in [Client -> Request]
      BY <1>4, <2>1, <2>2, ZenonT(60) DEF RetryReset, TypeOK, Request
    <2> QED
      BY <1>4, <2>3, <2>4 DEF RetryReset, TypeOK
  <1>5. ASSUME ErrorReturn(c) PROVE lock' \in Token \cup {NoToken} /\ req' \in [Client -> Request]
    BY <1>5, ReleaseKeyType, DoneType DEF ErrorReturn, TypeOK
  <1>6. CASE MarkDeployingRead(c)
    <2>1. "mark_write" \in HandlerPC
      BY Literals
    <2> QED
      BY <1>5, <1>6, <2>1, GotoType DEF MarkDeployingRead, TypeOK
  <1>7. CASE MarkDeploying(c)
    <2>1. "deploying" \in ReleaseStatus /\ "rolling" \in HandlerPC
      BY Literals
    <2>2. rel' \in [Release -> ReleaseRow]
      BY <1>7, <2>1, ZenonT(60) DEF MarkDeploying, UpdateStatus, TypeOK, ReleaseRow, Request
    <2>3. [Idle EXCEPT !.pc = "rolling", !.bad = req[c].bad] \in Request
      BY <2>1, IdleType DEF TypeOK, Request
    <2>4. req' \in [Client -> Request]
      BY <1>7, <2>3, DoneType DEF MarkDeploying, TypeOK
    <2> QED
      BY <1>7, <2>2, <2>4, SpawnType DEF MarkDeploying, TypeOK
  <1>8. CASE SetPauseRequested(c)
    <2>1. log' \in [Log -> LogRow]
      BY <1>8 DEF SetPauseRequested, TypeOK, LogRow
    <2> QED
      BY <1>8, <2>1, DoneType DEF SetPauseRequested, TypeOK
  <1>9. CASE VerifyWrite(c)
    <2>1. "verified" \in ReleaseStatus
      BY Literals
    <2> QED
      BY <1>9, <2>1, UpdateStatusType, DoneType DEF VerifyWrite, TypeOK
  <1>10. CASE CreateRollbackDraft(c)
    <2>1. "load" \in HandlerPC /\ "draft" \in ReleaseStatus
      BY Literals
    <2>2. PICK r \in Release :
             /\ rel' = [rel EXCEPT ![r].status = "draft", ![r].commit = req[c].sha,
                                   ![r].previous_release_id = req[c].bad]
             /\ req' = [req EXCEPT ![c].pc = "load", ![c].rel = r]
      BY <1>10 DEF CreateRollbackDraft
    <2>3. rel' \in [Release -> ReleaseRow]
      <3>1. req[c].sha \in Commit /\ req[c].bad \in 0..MaxReleases /\ rel \in [Release -> ReleaseRow]
        BY DEF TypeOK, Request
      <3> QED
        BY <2>1, <2>2, <3>1, ZenonT(60) DEF ReleaseRow
    <2>4. req' \in [Client -> Request]
      BY <2>1, <2>2, Ranges, ZenonT(60) DEF TypeOK, Request
    <2> QED
      BY <1>10, <2>3, <2>4 DEF CreateRollbackDraft, TypeOK
  <1>11. CASE MarkRollingBack(c)
    <2>1. "rolling_back" \in ReleaseStatus
      BY Literals
    <2> QED
      BY <1>11, <2>1, UpdateStatusType, DoneType DEF MarkRollingBack, TypeOK
  <1>12. CASE HandlerError(c)
    BY <1>5, <1>12 DEF HandlerError, TypeOK
  <1> QED
    BY <1>1, <1>2, <1>3, <1>4, <1>6, <1>7, <1>8, <1>9, <1>10, <1>11, <1>12 DEF HandlerStep

LEMMA RunType ==
    ASSUME TypeOK, NEW t \in Token, RunStep(t) \/ Timeout(t)
    PROVE  TypeOK'
  <1>1. CASE RunStart(t)
    <2>1. "boundary" \in RunPC /\ "fail" \in RunPC /\ "running" \in DeployStatus
      BY Literals
    <2>2. MarkRunning(run[t].log) \in [Log -> LogRow]
      BY <2>1 DEF MarkRunning, TypeOK, LogRow
    <2> QED
      BY <1>1, <2>1, <2>2, RunGotoType DEF RunStart, TypeOK
  <1>2. CASE Boundary(t)
    <2>1. {"finish", "pausing", "exec"} \subseteq RunPC /\ "running" \in StepStatus
      BY Literals
    <2>2. \A s \in Step : [log EXCEPT ![run[t].log].steps[s] = "running"] \in [Log -> LogRow]
      BY <2>1 DEF TypeOK, LogRow
    <2>3. log' \in [Log -> LogRow]
      BY <1>2, <2>2 DEF Boundary, TypeOK
    <2>4. run' \in [Token -> Run]
      BY <1>2, <2>1, RunGotoType DEF Boundary
    <2> QED
      BY <1>2, <2>3, <2>4 DEF Boundary, TypeOK
  <1>3. CASE PauseRun(t)
    <2>1. "unlock" \in RunPC /\ "paused" \in DeployStatus
      BY Literals
    <2>2. MarkPaused(run[t].log, run[t].sha) \in [Log -> LogRow]
      BY <2>1, ZenonT(60) DEF MarkPaused, TypeOK, LogRow, Run
    <2> QED
      BY <1>3, <2>1, <2>2, UnwindType DEF PauseRun, TypeOK
  <1>4. CASE StepSucceeds(t)
    <2>1. "boundary" \in RunPC /\ "success" \in StepStatus /\ "sha" \in Commit
      BY Literals
    <2>2. PICK s \in Step :
             /\ log' = [log EXCEPT ![run[t].log].steps[s] = "success"]
             /\ run' = [run EXCEPT ![t].pc = "boundary",
                                   ![t].sha = IF s = 1 THEN "sha" ELSE @]
      BY <1>4 DEF StepSucceeds
    <2>3. log' \in [Log -> LogRow]
      BY <2>1, <2>2 DEF TypeOK, LogRow
    <2>4. run' \in [Token -> Run]
      BY <2>1, <2>2, ZenonT(60) DEF TypeOK, Run
    <2> QED
      BY <1>4, <2>3, <2>4 DEF StepSucceeds, TypeOK
  <1>5. CASE StepFails(t)
    <2>1. "fail" \in RunPC /\ "failed" \in StepStatus
      BY Literals
    <2>2. \A s \in Step : [log EXCEPT ![run[t].log].steps[s] = "failed"] \in [Log -> LogRow]
      BY <2>1 DEF TypeOK, LogRow
    <2> QED
      BY <1>5, <2>1, <2>2, RunGotoType DEF StepFails, TypeOK
  <1>6. CASE RunFail(t)
    <2>1. "failed" \in RunPC /\ "failed" \in DeployStatus
      BY Literals
    <2>2. Finish(run[t].log, "failed", run[t].sha) \in [Log -> LogRow]
      BY <2>1, ZenonT(60) DEF Finish, TypeOK, LogRow, Run
    <2> QED
      BY <1>6, <2>1, <2>2, RunGotoType DEF RunFail, TypeOK
  <1>7. CASE RunFinish(t)
    <2>1. "succeeded" \in RunPC /\ "success" \in DeployStatus
      BY Literals
    <2>2. Finish(run[t].log, "success", run[t].sha) \in [Log -> LogRow]
      BY <2>1, ZenonT(60) DEF Finish, TypeOK, LogRow, Run
    <2> QED
      BY <1>7, <2>1, <2>2, RunGotoType DEF RunFinish, TypeOK
  <1>8. CASE MarkDeploySucceeded(t)
    <2>1. "prev" \in RunPC /\ "pending_verify" \in ReleaseStatus
      BY Literals
    <2> DEFINE r == run[t].rel
               sha == IF run[t].sha = "" THEN rel[r].commit ELSE run[t].sha
    <2>2. rel' = [rel EXCEPT ![r].status = "pending_verify", ![r].deployed = TRUE, ![r].commit = sha]
      BY <1>8 DEF MarkDeploySucceeded
    <2>3. r \in Release => sha \in Commit
      BY DEF TypeOK, ReleaseRow, Run
    <2> HIDE DEF r, sha
    <2>4. rel' \in [Release -> ReleaseRow]
      BY <2>1, <2>2, <2>3, ZenonT(60) DEF TypeOK, ReleaseRow
    <2> QED
      BY <1>8, <2>1, <2>4, RunGotoType DEF MarkDeploySucceeded, TypeOK
  <1>9. CASE MarkRolledBack(t)
    <2>1. "unlock" \in RunPC /\ "rolled_back" \in ReleaseStatus
      BY Literals
    <2>2. \A r : UpdateStatus(r, "rolled_back") \in [Release -> ReleaseRow]
      BY <2>1, UpdateStatusType
    <2>3. rel' \in [Release -> ReleaseRow]
      BY <1>9, <2>2 DEF MarkRolledBack, TypeOK
    <2> QED
      BY <1>9, <2>1, <2>3, UnwindType DEF MarkRolledBack, TypeOK
  <1>10. CASE MarkDeployFailed(t)
    <2>1. "alert" \in RunPC /\ "failed" \in ReleaseStatus
      BY Literals
    <2> QED
      BY <1>10, <2>1, UpdateStatusType, UnwindType DEF MarkDeployFailed, TypeOK
  <1>11. CASE AlertDeployFailed(t)
    <2>1. "unlock" \in RunPC
      BY Literals
    <2> QED
      BY <1>11, <2>1, RunGotoType DEF AlertDeployFailed, TypeOK
  <1>12. CASE RunUnlock(t)
    BY <1>12, ReleaseKeyType, NoRunType DEF RunUnlock, TypeOK
  <1>13. CASE Timeout(t)
    <2>1. run' \in [Token -> Run]
      BY <1>13 DEF Timeout, TypeOK, Run
    <2>2. timeouts' \in 0..MaxTimeouts
      BY <1>13, ConstantsAssumption DEF Timeout, TypeOK
    <2> QED
      BY <1>13, <2>1, <2>2 DEF Timeout, TypeOK
  <1> QED
    BY <1>1, <1>2, <1>3, <1>4, <1>5, <1>6, <1>7, <1>8, <1>9, <1>10, <1>11, <1>12, <1>13
    DEF RunStep

LEMMA NextType == TypeOK /\ [Next]_vars => TypeOK'
  <1> SUFFICES ASSUME TypeOK, [Next]_vars PROVE TypeOK'
    OBVIOUS
  <1>1. CASE LockExpires
    BY <1>1 DEF LockExpires, TypeOK
  <1>2. CASE Crash
    <2>1. crashes' \in 0..MaxCrashes
      BY <1>2, ConstantsAssumption DEF Crash, TypeOK
    <2> QED
      BY <1>2, <2>1, IdleType, NoRunType DEF Crash, TypeOK
  <1>3. CASE UNCHANGED vars
    BY <1>3 DEF vars, TypeOK
  <1> QED
    BY <1>1, <1>2, <1>3, OperatorType, HandlerType, RunType DEF Next

\* Every row, handler and run keeps its declared shape, whatever is interleaved.
THEOREM TypeCorrect == Spec => []TypeOK
  BY InitType, NextType, PTL DEF Spec

-----------------------------------------------------------------------------
(***************************************************************************)
(* Mutual exclusion. DeployExclusive is not inductive by itself: that two  *)
(* runs never drive together follows from each of them holding the one     *)
(* lock, so LockInv ties every driver and every preparing handler to the   *)
(* value of the lock.                                                      *)
(***************************************************************************)
LEMMA LockInvImpliesExclusive == TypeOK /\ LockInv => DeployExclusive
  BY ConstantsAssumption DEF TypeOK, LockInv, DeployExclusive, Driving, Preparing, Request

\* A handler that keeps or drops its token, with the lock and the runs untouched.
LEMMA RequestKeepsLockInv ==
    ASSUME TypeOK, TypeOK', LockInv, NEW c \in Client,
           UNCHANGED <<lock, run>>,
           \A d \in Client \ {c} : req'[d] = req[d],
           req'[c].tok \in {req[c].tok, NoToken},
           req'[c].tok # NoToken <=>
               req'[c].pc \in {"prepare", "reset", "mark_read", "mark_write"}
    PROVE  LockInv'
  <1>1. \A d \in Client : Preparing(d)' => Preparing(d) /\ req'[d].tok = req[d].tok
    BY DEF Preparing
  <1>2. (\A t \in Token : Driving(t) => lock = t)'
    BY DEF LockInv, Driving
  <1>3. (\A d \in Client : Preparing(d) => lock = req[d].tok /\ run[req[d].tok].pc = "idle")'
    BY <1>1 DEF LockInv
  <1>4. (\A c1, c2 \in Client : Preparing(c1) /\ req[c1].tok = req[c2].tok => c1 = c2)'
    BY <1>1 DEF LockInv, Preparing
  <1>5. (\A d \in Client :
           Preparing(d) <=> req[d].pc \in {"prepare", "reset", "mark_read", "mark_write"})'
    BY DEF LockInv, Preparing
  <1> QED
    BY <1>2, <1>3, <1>4, <1>5 DEF LockInv

\* A run that goes on, or stops driving, with the lock and the handlers untouched.
LEMMA RunKeepsLockInv ==
    ASSUME TypeOK, TypeOK', LockInv, NEW t \in Token,
           UNCHANGED <<lock, req>>,
           run[t].pc # "idle",
           \A u \in Token \ {t} : run'[u] = run[u],
           Driving(t)' => Driving(t)
    PROVE  LockInv'
  <1>1. (\A u \in Token : Driving(u) => lock = u)'
    BY DEF LockInv, Driving
  <1>2. (\A d \in Client : Preparing(d) => lock = req[d].tok /\ run[req[d].tok].pc = "idle")'
    <2> SUFFICES ASSUME NEW d \in Client, Preparing(d)
                 PROVE  lock = req[d].tok /\ run'[req[d].tok].pc = "idle"
      BY DEF Preparing
    <2>1. lock = req[d].tok /\ run[req[d].tok].pc = "idle" /\ req[d].tok \in Token
      BY DEF LockInv, TypeOK, Request, Preparing
    <2> QED
      BY <2>1
  <1> QED
    BY <1>1, <1>2 DEF LockInv, Preparing

LEMMA InitLock == Init => LockInv
  <1> SUFFICES ASSUME Init PROVE LockInv
    OBVIOUS
  <1>1. \A t \in Token : run[t].pc = "idle"
    BY DEF Init, NoRun
  <1>2. \A c \in Client : req[c].pc = "idle" /\ req[c].tok = NoToken
    BY DEF Init, Idle
  <1> QED
    BY <1>1, <1>2 DEF LockInv, Driving, Preparing

LEMMA OperatorLock ==
    ASSUME TypeOK, TypeOK', LockInv, NEW c \in Client, Operator(c)
    PROVE  LockInv'
  <1>1. UNCHANGED <<lock, run>>
    BY ZenonT(40) DEF Operator, CreateRelease, Deploy, Retry, Resume, Pause, Verify, Rollback
  <1>2. CASE CreateRelease(c)
    BY <1>1, <1>2 DEF CreateRelease, LockInv, Driving, Preparing
  <1>3. ASSUME NEW q, Start(c, q), q.tok = NoToken,
               q.pc \in {"acquire", "pause_write", "verify_write", "draft"}
        PROVE  LockInv'
    <2>1. req'[c] = q /\ \A d \in Client \ {c} : req'[d] = req[d]
      BY <1>3 DEF Start, TypeOK
    <2> QED
      BY <1>1, <1>3, <2>1, RequestKeepsLockInv
  <1>4. ASSUME NEW r \in Release, Deploy(c, r) PROVE LockInv'
    <2> DEFINE q == [Idle EXCEPT !.pc = "acquire", !.op = "deploy", !.rel = r,
                       !.sha = rel[r].commit]
    <2>1. q.tok = NoToken /\ q.pc \in {"acquire", "pause_write", "verify_write", "draft"}
      BY DEF Idle
    <2>2. Start(c, q)
      BY <1>4 DEF Deploy
    <2> QED
      BY <1>3, <2>1, <2>2
  <1>5. ASSUME NEW r \in Release, Resume(c, r) PROVE LockInv'
    <2> DEFINE q == [Idle EXCEPT !.pc = "acquire", !.op = "resume", !.rel = r,
                       !.log = rel[r].deploy_log_id,
                       !.sha = log[rel[r].deploy_log_id].trigger_sha]
    <2>1. q.tok = NoToken /\ q.pc \in {"acquire", "pause_write", "verify_write", "draft"}
      BY DEF Idle
    <2>2. Start(c, q)
      BY <1>5 DEF Resume
    <2> QED
      BY <1>3, <2>1, <2>2
  <1>6. ASSUME NEW r \in Release, Pause(c, r) PROVE LockInv'
    <2> DEFINE q == [Idle EXCEPT !.pc = "pause_write", !.op = "pause", !.rel = r,
                       !.log = rel[r].deploy_log_id]
    <2>1. q.tok = NoToken /\ q.pc \in {"acquire", "pause_write", "verify_write", "draft"}
      BY DEF Idle
    <2>2. Start(c, q)
      BY <1>6 DEF Pause
    <2> QED
      BY <1>3, <2>1, <2>2
  <1>7. ASSUME NEW r \in Release, Verify(c, r) PROVE LockInv'
    <2> DEFINE q == [Idle EXCEPT !.pc = "verify_write", !.op = "verify", !.rel = r]
    <2>1. q.tok = NoToken /\ q.pc \in {"acquire", "pause_write", "verify_write", "draft"}
      BY DEF Idle
    <2>2. Start(c, q)
      BY <1>7 DEF Verify
    <2> QED
      BY <1>3, <2>1, <2>2
  <1>8. ASSUME NEW r \in Release, NEW from \in Step, Retry(c, r, from) PROVE LockInv'
    <2> DEFINE q == [Idle EXCEPT !.pc = "acquire", !.op = "retry", !.rel = r, !.from = from,
                       !.log = rel[r].deploy_log_id,
                       !.sha = log[rel[r].deploy_log_id].trigger_sha]
    <2>1. q.tok = NoToken /\ q.pc \in {"acquire", "pause_write", "verify_write", "draft"}
      BY DEF Idle
    <2>2. Start(c, q)
      BY <1>8 DEF Retry
    <2> QED
      BY <1>3, <2>1, <2>2
  <1>9. ASSUME NEW r \in Release, Rollback(c, r) PROVE LockInv'
    <2> DEFINE q(target) == [Idle EXCEPT !.pc = "draft", !.op = "rollback", !.bad = r,
                                         !.sha = rel[target].commit]
    <2>1. \A target : /\ q(target).tok = NoToken
                      /\ q(target).pc \in {"acquire", "pause_write", "verify_write", "draft"}
      BY DEF Idle
    <2>2. PICK target \in RollbackTargets : Start(c, q(target))
      BY <1>9 DEF Rollback
    <2> QED
      BY <1>3, <2>1, <2>2
  <1> QED
    BY <1>2, <1>4, <1>5, <1>6, <1>7, <1>8, <1>9, SMTT(40) DEF Operator

LEMMA HandlerLock ==
    ASSUME TypeOK, TypeOK', LockInv, NEW c \in Client, HandlerStep(c) \/ HandlerError(c)
    PROVE  LockInv'
  <1>1. ASSUME Done(c) PROVE /\ req'[c].tok = NoToken /\ req'[c].pc = "idle"
                             /\ \A d \in Client \ {c} : req'[d] = req[d]
    BY <1>1 DEF Done, Idle, TypeOK
  <1>2. ASSUME NEW pc, Goto(c, pc)
        PROVE  /\ req'[c].tok = req[c].tok /\ req'[c].pc = pc
               /\ \A d \in Client \ {c} : req'[d] = req[d]
    BY <1>2 DEF Goto, TypeOK, Request
  <1>3. ASSUME Done(c), UNCHANGED <<lock, run>> PROVE LockInv'
    BY <1>1, <1>3, RequestKeepsLockInv
  <1>4. ASSUME ErrorReturn(c), UNCHANGED run PROVE LockInv'
    <2>1. CASE UNCHANGED lock
      BY <1>3, <1>4, <2>1 DEF ErrorReturn
    <2>2. CASE lock = req[c].tok /\ lock' = NoToken /\ lock # NoToken
      <3>1. \A t \in Token : ~Driving(t)
        BY <2>2 DEF LockInv, Preparing, Driving
      <3>2. \A d \in Client : req'[d].tok = NoToken
        BY <1>1, <1>4, <2>2 DEF ErrorReturn, LockInv, Preparing
      <3>3. \A d \in Client : Preparing(d)' <=> req'[d].pc \in {"prepare", "reset", "mark_read", "mark_write"}
        BY <1>1, <1>4 DEF ErrorReturn, LockInv, Preparing
      <3> QED
        BY <1>4, <3>1, <3>2, <3>3 DEF LockInv, Preparing, Driving
    <2> QED
      BY <1>4, <2>1, <2>2 DEF ErrorReturn, ReleaseKey
  <1>5. CASE RollbackLoad(c)
    BY <1>2, <1>3, <1>5, RequestKeepsLockInv DEF RollbackLoad, LockInv, Preparing
  <1>6. CASE Acquire(c)
    <2>1. CASE lock # NoToken /\ Done(c) /\ UNCHANGED <<lock, run>>
      BY <1>3, <2>1
    <2>2. ASSUME lock = NoToken
          PROVE  /\ \A t \in Token : ~Driving(t)
                 /\ \A d \in Client : req[d].tok = NoToken
      BY <2>2, ConstantsAssumption DEF LockInv, Preparing
    <2>3. ASSUME NEW t \in FreshTokens, AcquireKey(t), Spawn(c, t), Done(c) PROVE LockInv'
      <3>1. lock = NoToken /\ lock' = t /\ t \in Token
        BY <2>3 DEF AcquireKey, FreshTokens
      <3>2. \A d \in Client : req'[d].tok = NoToken
        BY <1>1, <2>2, <2>3, <3>1
      <3>3. \A u \in Token \ {t} : ~Driving(u)'
        BY <2>2, <2>3, <3>1 DEF Spawn, TypeOK, Driving
      <3>4. \A d \in Client : Preparing(d)' <=> req'[d].pc \in {"prepare", "reset", "mark_read", "mark_write"}
        BY <1>1, <2>3 DEF LockInv, Preparing
      <3> QED
        BY <3>1, <3>2, <3>3, <3>4 DEF LockInv, Preparing
    <2>4. ASSUME NEW t \in FreshTokens, AcquireKey(t), UNCHANGED run,
                 req' = [req EXCEPT ![c].tok = t,
                           ![c].pc = IF req[c].op = "retry" THEN "reset" ELSE "prepare"]
          PROVE  LockInv'
      <3>1. lock = NoToken /\ lock' = t /\ t \in Token /\ t # NoToken /\ run'[t].pc = "idle"
        BY <2>4, ConstantsAssumption DEF AcquireKey, FreshTokens
      <3>2. \A d \in Client \ {c} : req'[d] = req[d] /\ req'[d].tok = NoToken
        BY <2>2, <2>4, <3>1 DEF TypeOK
      <3>3. req'[c].tok = t /\ req'[c].pc \in {"reset", "prepare"}
        BY <2>4 DEF TypeOK, Request
      <3>4. \A u \in Token : ~Driving(u)'
        BY <2>2, <2>4, <3>1 DEF Driving
      <3> QED
        BY <3>1, <3>2, <3>3, <3>4 DEF LockInv, Preparing
    <2> QED
      BY <1>6, <2>1, <2>3, <2>4 DEF Acquire
  <1>7. CASE PrepareRun(c)
    <2>1. /\ req'[c].tok = req[c].tok /\ req'[c].pc = "mark_read"
          /\ \A d \in Client \ {c} : req'[d] = req[d]
      BY <1>7 DEF PrepareRun, TypeOK, Request
    <2> QED
      BY <1>7, <2>1, RequestKeepsLockInv DEF PrepareRun, LockInv, Preparing
  <1>8. CASE RetryReset(c)
    <2>1. /\ req'[c].tok = req[c].tok /\ req'[c].pc = "mark_read"
          /\ \A d \in Client \ {c} : req'[d] = req[d]
      BY <1>8 DEF RetryReset, TypeOK, Request
    <2> QED
      BY <1>8, <2>1, RequestKeepsLockInv DEF RetryReset, LockInv, Preparing
  <1>9. CASE MarkDeployingRead(c)
    <2>1. CASE Goto(c, "mark_write") /\ UNCHANGED lock
      BY <1>2, <1>9, <2>1, RequestKeepsLockInv DEF MarkDeployingRead, LockInv, Preparing
    <2> QED
      BY <1>4, <1>9, <2>1 DEF MarkDeployingRead
  <1>10. CASE MarkDeploying(c)
    <2>1. req[c].tok \in Token /\ lock = req[c].tok
      BY <1>10 DEF MarkDeploying, LockInv, Preparing, TypeOK, Request
    <2>2. /\ req'[c].tok = NoToken /\ req'[c].pc \in {"rolling", "idle"}
          /\ \A d \in Client \ {c} : req'[d] = req[d]
      <3>1. CASE Done(c)
        BY <1>1, <3>1
      <3>2. CASE req' = [req EXCEPT ![c] = [Idle EXCEPT !.pc = "rolling", !.bad = req[c].bad]]
        <4>1. [Idle EXCEPT !.pc = "rolling", !.bad = req[c].bad].tok = NoToken
          BY DEF Idle
        <4>2. [Idle EXCEPT !.pc = "rolling", !.bad = req[c].bad].pc = "rolling"
          BY DEF Idle
        <4> QED
          BY <3>2, <4>1, <4>2 DEF TypeOK
      <3> QED
        BY <1>10, <3>1, <3>2 DEF MarkDeploying
    <2>3. \A d \in Client \ {c} : req[d].tok = NoToken
      BY <2>1, ConstantsAssumption DEF LockInv, Preparing
    <2>4. \A u \in Token \ {req[c].tok} : ~Driving(u)'
      BY <1>10, <2>1 DEF MarkDeploying, Spawn, TypeOK, LockInv, Driving
    <2>5. \A d \in Client : ~Preparing(d)'
      BY <2>2, <2>3 DEF Preparing
    <2>6. \A d \in Client : req'[d].pc \notin {"prepare", "reset", "mark_read", "mark_write"}
      BY <2>2, <2>3 DEF LockInv, Preparing
    <2> QED
      BY <1>10, <2>1, <2>4, <2>5, <2>6 DEF MarkDeploying, LockInv
  <1>11. CASE SetPauseRequested(c)
    BY <1>3, <1>11 DEF SetPauseRequested
  <1>12. CASE VerifyWrite(c)
    BY <1>3, <1>12 DEF VerifyWrite
  <1>13. CASE CreateRollbackDraft(c)
    <2>1. /\ req'[c].tok = req[c].tok /\ req'[c].pc = "load"
          /\ \A d \in Client \ {c} : req'[d] = req[d]
      BY <1>13 DEF CreateRollbackDraft, TypeOK, Request
    <2> QED
      BY <1>13, <2>1, RequestKeepsLockInv DEF CreateRollbackDraft, LockInv, Preparing
  <1>14. CASE MarkRollingBack(c)
    BY <1>3, <1>14 DEF MarkRollingBack
  <1>15. CASE HandlerError(c)
    BY <1>4, <1>15 DEF HandlerError
  <1> QED
    BY <1>5, <1>6, <1>7, <1>8, <1>9, <1>10, <1>11, <1>12, <1>13, <1>14, <1>15 DEF HandlerStep

LEMMA RunLock ==
    ASSUME TypeOK, TypeOK', LockInv, NEW t \in Token, RunStep(t) \/ Timeout(t)
    PROVE  LockInv'
  <1>1. ASSUME NEW pc, RunGoto(t, pc)
        PROVE  run'[t].pc = pc /\ \A u \in Token \ {t} : run'[u] = run[u]
    BY <1>1 DEF RunGoto, TypeOK, Run
  <1>2. ASSUME NEW pc, Unwind(t, pc)
        PROVE  run'[t].pc = pc /\ \A u \in Token \ {t} : run'[u] = run[u]
    BY <1>2 DEF Unwind, NoRun, TypeOK, Run
  <1>3. CASE RunUnlock(t)
    <2>1. /\ run'[t].pc = "idle" /\ \A u \in Token \ {t} : run'[u] = run[u]
      BY <1>3 DEF RunUnlock, NoRun, TypeOK
    <2>2. run[t].pc = "unlock" /\ UNCHANGED req
      BY <1>3 DEF RunUnlock
    <2>3. CASE UNCHANGED lock
      BY <2>1, <2>2, <2>3, RunKeepsLockInv DEF Driving
    <2>4. CASE lock = t /\ lock' = NoToken
      <3>1. \A u \in Token : ~Driving(u)'
        BY <2>1, <2>2, <2>4 DEF LockInv, Driving
      <3>2. \A d \in Client : req[d].tok = NoToken
        BY <2>2, <2>4, SMTT(40) DEF LockInv, Preparing
      <3> QED
        BY <2>2, <3>1, <3>2 DEF LockInv, Preparing
    <2> QED
      BY <1>3, <2>3, <2>4 DEF RunUnlock, ReleaseKey
  <1>4. CASE ~RunUnlock(t)
    <2>1. UNCHANGED <<lock, req>>
      BY <1>4, ZenonT(40) DEF RunStep, RunStart, Boundary, PauseRun, StepSucceeds, StepFails, RunFail,
                  RunFinish, MarkDeploySucceeded, MarkRolledBack, MarkDeployFailed,
                  AlertDeployFailed, Timeout
    <2>2. run[t].pc # "idle"
      BY <1>4, ZenonT(40) DEF RunStep, RunStart, Boundary, PauseRun, StepSucceeds, StepFails, RunFail,
                  RunFinish, MarkDeploySucceeded, MarkRolledBack, MarkDeployFailed,
                  AlertDeployFailed, Timeout
    <2>3. \A u \in Token \ {t} : run'[u] = run[u]
      BY <1>1, <1>2, <1>4, ZenonT(40)
      DEF RunStep, RunStart, Boundary, PauseRun, StepSucceeds, StepFails, RunFail,
          RunFinish, MarkDeploySucceeded, MarkRolledBack, MarkDeployFailed,
          AlertDeployFailed, Timeout, TypeOK
    <2>4. CASE AlertDeployFailed(t)
      BY <1>1, <2>1, <2>2, <2>3, <2>4, RunKeepsLockInv DEF AlertDeployFailed, Driving
    <2>5. CASE ~AlertDeployFailed(t)
      <3>1. Driving(t)
        BY <1>4, <2>5, ZenonT(40)
        DEF Driving, RunStep, RunStart, Boundary, PauseRun, StepSucceeds, StepFails, RunFail,
            RunFinish, MarkDeploySucceeded, MarkRolledBack, MarkDeployFailed, Timeout
      <3> QED
        BY <2>1, <2>2, <2>3, <3>1, RunKeepsLockInv
    <2> QED
      BY <2>4, <2>5
  <1> QED
    BY <1>3, <1>4

LEMMA NextLock == TypeOK /\ TypeOK' /\ LockInv /\ [Next]_vars => LockInv'
  <1> SUFFICES ASSUME TypeOK, TypeOK', LockInv, [Next]_vars PROVE LockInv'
    OBVIOUS
  <1>1. CASE LockExpires
    <2>1. \A t \in Token : ~Driving(t)
      BY <1>1 DEF LockExpires, LockInv, Driving
    <2>2. \A c \in Client : req[c].tok = NoToken
      BY <1>1 DEF LockExpires, LockInv, Preparing
    <2> QED
      BY <1>1, <2>1, <2>2 DEF LockExpires, LockInv, Driving, Preparing
  <1>2. CASE Crash
    <2>1. \A t \in Token : run'[t].pc = "idle"
      BY <1>2 DEF Crash, NoRun
    <2>2. \A c \in Client : req'[c].pc = "idle" /\ req'[c].tok = NoToken
      BY <1>2 DEF Crash, Idle
    <2> QED
      BY <2>1, <2>2 DEF LockInv, Driving, Preparing
  <1>3. CASE UNCHANGED vars
    BY <1>3 DEF vars, LockInv, Driving, Preparing
  <1> QED
    BY <1>1, <1>2, <1>3, OperatorLock, HandlerLock, RunLock DEF Next

\* At most one handler or run works on the target at any time: for any number of
\* concurrent requests, with lost unlocks, expiring keys and restarts.
THEOREM MutualExclusion == Spec => []DeployExclusive
  <1>1. TypeOK /\ LockInv /\ [Next]_vars => (TypeOK /\ LockInv)'
    BY NextType, NextLock
  <1> QED
    BY <1>1, InitType, InitLock, LockInvImpliesExclusive, PTL DEF Spec
-----------------------------------------------------------------------------
(***************************************************************************)
(* The rows that handlers and runs point to exist.                         *)
(***************************************************************************)
\* A handler that deploys names a release, and the log once it has one.
RequestRefs(q) ==
    /\ q.pc \in {"load", "acquire", "prepare", "reset", "mark_read", "mark_write"}
         => q.rel \in Release
    /\ q.pc \in {"reset", "mark_read", "mark_write"} => q.log \in Log
    /\ q.pc = "acquire" /\ q.op \in {"retry", "resume"} => q.log \in Log
    /\ q.pc \in {"draft", "load"} => q.op = "rollback"

\* A run works on a release and on a log.
RunRefs(g) == g.pc \notin {"idle", "alert", "unlock"} => g.rel \in Release /\ g.log \in Log

RefInv ==
    /\ \A c \in Client : RequestRefs(req[c])
    /\ \A t \in Token : RunRefs(run[t])

LEMMA IdleRefs == RequestRefs(Idle) /\ RunRefs(NoRun)
  BY DEF RequestRefs, RunRefs, Idle, NoRun

LEMMA InitRefs == Init => RefInv
  BY IdleRefs DEF Init, RefInv

\* What a step of one handler has to show.
LEMMA RequestKeepsRefs ==
    ASSUME TypeOK, RefInv, NEW c \in Client,
           \A d \in Client \ {c} : req'[d] = req[d],
           RequestRefs(req'[c])
    PROVE  \A d \in Client : RequestRefs(req'[d])
  BY DEF RefInv

\* What a step of one run has to show.
LEMMA RunKeepsRefs ==
    ASSUME TypeOK, RefInv, NEW t,
           \A u \in Token \ {t} : run'[u] = run[u],
           t \in Token => RunRefs(run'[t])
    PROVE  \A u \in Token : RunRefs(run'[u])
  BY DEF RefInv

LEMMA DoneRefs ==
    ASSUME TypeOK, RefInv, NEW c \in Client, Done(c)
    PROVE  \A d \in Client : RequestRefs(req'[d])
  <1>1. req'[c] = Idle /\ \A d \in Client \ {c} : req'[d] = req[d]
    BY DEF Done, TypeOK
  <1> QED
    BY <1>1, IdleRefs, RequestKeepsRefs

LEMMA SpawnRefs ==
    ASSUME TypeOK, RefInv, NEW c \in Client, NEW t, Spawn(c, t),
           req[c].rel \in Release, req[c].log \in Log
    PROVE  \A u \in Token : RunRefs(run'[u])
  <1> DEFINE g == [NoRun EXCEPT !.pc = "start", !.rel = req[c].rel,
                                !.log = req[c].log, !.sha = req[c].sha]
  <1>1. g.rel = req[c].rel /\ g.log = req[c].log
    BY DEF NoRun
  <1>2. RunRefs(g)
    BY <1>1 DEF RunRefs
  <1>3. \A u \in Token \ {t} : run'[u] = run[u]
    BY DEF Spawn, TypeOK
  <1>4. t \in Token => run'[t] = g
    BY SMTT(40) DEF Spawn, TypeOK
  <1> QED
    BY <1>2, <1>3, <1>4, RunKeepsRefs

LEMMA OperatorRefs ==
    ASSUME TypeOK, TypeOK', RefInv, NEW c \in Client, Operator(c)
    PROVE  RefInv'
  <1>1. UNCHANGED run
    BY ZenonT(40) DEF Operator, CreateRelease, Deploy, Retry, Resume, Pause, Verify, Rollback
  <1>2. CASE CreateRelease(c)
    BY <1>2 DEF CreateRelease, RefInv
  <1>3. ASSUME NEW q, Start(c, q), RequestRefs(q)
        PROVE  RefInv'
    <2>1. req'[c] = q /\ \A d \in Client \ {c} : req'[d] = req[d]
      BY <1>3 DEF Start, TypeOK
    <2> QED
      BY <1>1, <1>3, <2>1, RequestKeepsRefs DEF RefInv
  <1>4. ASSUME NEW r \in Release, Deploy(c, r) PROVE RefInv'
    <2> DEFINE q == [Idle EXCEPT !.pc = "acquire", !.op = "deploy", !.rel = r,
                       !.sha = rel[r].commit]
    <2>1. q.pc = "acquire" /\ q.op = "deploy" /\ q.rel = r
      BY DEF Idle
    <2>2. Start(c, q)
      BY <1>4 DEF Deploy
    <2> QED
      BY <1>3, <2>1, <2>2 DEF RequestRefs
  <1>5. ASSUME NEW r \in Release, Resume(c, r) PROVE RefInv'
    <2> DEFINE q == [Idle EXCEPT !.pc = "acquire", !.op = "resume", !.rel = r,
                       !.log = rel[r].deploy_log_id,
                       !.sha = log[rel[r].deploy_log_id].trigger_sha]
    <2>1. q.pc = "acquire" /\ q.rel = r /\ q.log = rel[r].deploy_log_id
      BY DEF Idle
    <2>2. Start(c, q) /\ rel[r].deploy_log_id \in Log
      BY <1>5, Ranges DEF Resume, TypeOK, ReleaseRow
    <2> QED
      BY <1>3, <2>1, <2>2 DEF RequestRefs
  <1>6. ASSUME NEW r \in Release, Pause(c, r) PROVE RefInv'
    <2> DEFINE q == [Idle EXCEPT !.pc = "pause_write", !.op = "pause", !.rel = r,
                       !.log = rel[r].deploy_log_id]
    <2>1. q.pc = "pause_write"
      BY DEF Idle
    <2>2. Start(c, q)
      BY <1>6 DEF Pause
    <2> QED
      BY <1>3, <2>1, <2>2 DEF RequestRefs
  <1>7. ASSUME NEW r \in Release, Verify(c, r) PROVE RefInv'
    <2> DEFINE q == [Idle EXCEPT !.pc = "verify_write", !.op = "verify", !.rel = r]
    <2>1. q.pc = "verify_write"
      BY DEF Idle
    <2>2. Start(c, q)
      BY <1>7 DEF Verify
    <2> QED
      BY <1>3, <2>1, <2>2 DEF RequestRefs
  <1>8. ASSUME NEW r \in Release, NEW from \in Step, Retry(c, r, from) PROVE RefInv'
    <2> DEFINE q == [Idle EXCEPT !.pc = "acquire", !.op = "retry", !.rel = r, !.from = from,
                       !.log = rel[r].deploy_log_id,
                       !.sha = log[rel[r].deploy_log_id].trigger_sha]
    <2>1. q.pc = "acquire" /\ q.rel = r /\ q.log = rel[r].deploy_log_id
      BY DEF Idle
    <2>2. Start(c, q) /\ rel[r].deploy_log_id \in Log
      BY <1>8, Ranges DEF Retry, TypeOK, ReleaseRow
    <2> QED
      BY <1>3, <2>1, <2>2 DEF RequestRefs
  <1>9. ASSUME NEW r \in Release, Rollback(c, r) PROVE RefInv'
    <2> DEFINE q(target) == [Idle EXCEPT !.pc = "draft", !.op = "rollback", !.bad = r,
                                         !.sha = rel[target].commit]
    <2>1. \A target : q(target).pc = "draft" /\ q(target).op = "rollback"
      BY DEF Idle
    <2>2. PICK target \in RollbackTargets : Start(c, q(target))
      BY <1>9 DEF Rollback
    <2> QED
      BY <1>3, <2>1, <2>2 DEF RequestRefs
  <1> QED
    BY <1>2, <1>4, <1>5, <1>6, <1>7, <1>8, <1>9 DEF Operator

LEMMA HandlerRefs ==
    ASSUME TypeOK, TypeOK', RefInv, NEW c \in Client, HandlerStep(c) \/ HandlerError(c)
    PROVE  RefInv'
  <1>1. ASSUME Done(c), UNCHANGED run PROVE RefInv'
    BY <1>1, DoneRefs DEF RefInv
  <1>2. ASSUME NEW pc, Goto(c, pc)
        PROVE  /\ req'[c].rel = req[c].rel /\ req'[c].log = req[c].log
               /\ req'[c].op = req[c].op /\ req'[c].pc = pc
               /\ \A d \in Client \ {c} : req'[d] = req[d]
    BY <1>2 DEF Goto, TypeOK, Request
  <1>3. ASSUME UNCHANGED run, RequestRefs(req'[c]),
               \A d \in Client \ {c} : req'[d] = req[d]
        PROVE  RefInv'
    BY <1>3, RequestKeepsRefs DEF RefInv
  <1>4. RequestRefs(req[c])
    BY DEF RefInv
  <1>5. CASE RollbackLoad(c)
    <2>1. CASE Goto(c, "acquire")
      <3>1. RequestRefs(req'[c])
        BY <1>2, <1>4, <1>5, <2>1 DEF RollbackLoad, RequestRefs
      <3> QED
        BY <1>2, <1>3, <1>5, <2>1, <3>1 DEF RollbackLoad
    <2> QED
      BY <1>1, <1>5, <2>1 DEF RollbackLoad
  <1>6. CASE Acquire(c)
    <2>1. CASE lock # NoToken /\ Done(c) /\ UNCHANGED <<lock, run>>
      BY <1>1, <2>1
    <2>2. ASSUME NEW t \in FreshTokens, Spawn(c, t), Done(c), req[c].op = "resume"
          PROVE  RefInv'
      <3>1. req[c].rel \in Release /\ req[c].log \in Log
        BY <1>4, <1>6, <2>2 DEF Acquire, RequestRefs
      <3> QED
        BY <2>2, <3>1, SpawnRefs, DoneRefs DEF RefInv
    <2>3. ASSUME NEW t \in FreshTokens, UNCHANGED run,
                 req' = [req EXCEPT ![c].tok = t,
                           ![c].pc = IF req[c].op = "retry" THEN "reset" ELSE "prepare"]
          PROVE  RefInv'
      <3>1. /\ req'[c].rel = req[c].rel /\ req'[c].log = req[c].log
            /\ req'[c].pc = IF req[c].op = "retry" THEN "reset" ELSE "prepare"
            /\ \A d \in Client \ {c} : req'[d] = req[d]
        BY <2>3 DEF TypeOK, Request
      <3>2. RequestRefs(req'[c])
        BY <1>4, <1>6, <3>1 DEF Acquire, RequestRefs
      <3> QED
        BY <1>3, <2>3, <3>1, <3>2
    <2> QED
      BY <1>6, <2>1, <2>2, <2>3 DEF Acquire
  <1>7. CASE PrepareRun(c)
    <2>1. PICK l \in Log : req' = [req EXCEPT ![c].pc = "mark_read", ![c].log = l]
      BY <1>7 DEF PrepareRun
    <2>2. /\ req'[c].rel = req[c].rel /\ req'[c].log = l /\ req'[c].pc = "mark_read"
          /\ \A d \in Client \ {c} : req'[d] = req[d]
      BY <2>1 DEF TypeOK, Request
    <2>3. RequestRefs(req'[c])
      BY <1>4, <1>7, <2>2 DEF PrepareRun, RequestRefs
    <2> QED
      BY <1>3, <1>7, <2>2, <2>3 DEF PrepareRun
  <1>8. CASE RetryReset(c)
    <2>1. /\ req'[c].rel = req[c].rel /\ req'[c].log = req[c].log /\ req'[c].pc = "mark_read"
          /\ \A d \in Client \ {c} : req'[d] = req[d]
      BY <1>8 DEF RetryReset, TypeOK, Request
    <2>2. RequestRefs(req'[c])
      BY <1>4, <1>8, <2>1 DEF RetryReset, RequestRefs
    <2> QED
      BY <1>3, <1>8, <2>1, <2>2 DEF RetryReset
  <1>9. CASE MarkDeployingRead(c)
    <2>1. CASE Goto(c, "mark_write")
      <3>1. RequestRefs(req'[c])
        BY <1>2, <1>4, <1>9, <2>1 DEF MarkDeployingRead, RequestRefs
      <3> QED
        BY <1>2, <1>3, <1>9, <2>1, <3>1 DEF MarkDeployingRead
    <2> QED
      BY <1>1, <1>9, <2>1 DEF MarkDeployingRead, ErrorReturn
  <1>10. CASE MarkDeploying(c)
    <2>1. \A u \in Token : RunRefs(run'[u])
      <3>1. req[c].rel \in Release /\ req[c].log \in Log
        BY <1>4, <1>10 DEF MarkDeploying, RequestRefs
      <3>2. Spawn(c, req[c].tok)
        BY <1>10 DEF MarkDeploying
      <3> QED
        BY <3>1, <3>2, SpawnRefs
    <2>2. CASE Done(c)
      BY <2>1, <2>2, DoneRefs DEF RefInv
    <2>3. CASE req' = [req EXCEPT ![c] = [Idle EXCEPT !.pc = "rolling", !.bad = req[c].bad]]
      <3>1. [Idle EXCEPT !.pc = "rolling", !.bad = req[c].bad].pc = "rolling"
        BY DEF Idle
      <3>2. req'[c].pc = "rolling" /\ \A d \in Client \ {c} : req'[d] = req[d]
        BY <2>3, <3>1 DEF TypeOK
      <3>3. RequestRefs(req'[c])
        BY <3>2 DEF RequestRefs
      <3> QED
        BY <2>1, <3>2, <3>3, RequestKeepsRefs DEF RefInv
    <2> QED
      BY <1>10, <2>2, <2>3 DEF MarkDeploying
  <1>11. CASE CreateRollbackDraft(c)
    <2>1. PICK r \in Release : req' = [req EXCEPT ![c].pc = "load", ![c].rel = r]
      BY <1>11 DEF CreateRollbackDraft
    <2>2. /\ req'[c].rel = r /\ req'[c].pc = "load" /\ req'[c].op = req[c].op
          /\ \A d \in Client \ {c} : req'[d] = req[d]
      BY <2>1 DEF TypeOK, Request
    <2>3. RequestRefs(req'[c])
      BY <1>4, <1>11, <2>2 DEF CreateRollbackDraft, RequestRefs
    <2> QED
      BY <1>3, <1>11, <2>2, <2>3 DEF CreateRollbackDraft
  <1>12. CASE SetPauseRequested(c) \/ VerifyWrite(c) \/ MarkRollingBack(c) \/ HandlerError(c)
    BY <1>1, <1>12 DEF SetPauseRequested, VerifyWrite, MarkRollingBack, HandlerError, ErrorReturn
  <1> QED
    BY <1>5, <1>6, <1>7, <1>8, <1>9, <1>10, <1>11, <1>12 DEF HandlerStep

\* What a step of a run does to its own record and to the others.
LEMMA RunEffect ==
    ASSUME TypeOK, NEW t \in Token, RunStep(t) \/ Timeout(t)
    PROVE  /\ \A u \in Token \ {t} : run'[u] = run[u]
           /\ \/ run'[t].rel = run[t].rel /\ run'[t].log = run[t].log
              \/ run'[t].pc \in {"idle", "alert", "unlock"}
           /\ UNCHANGED req
  <1>1. ASSUME NEW pc, RunGoto(t, pc)
        PROVE  /\ run'[t].rel = run[t].rel /\ run'[t].log = run[t].log
               /\ \A u \in Token \ {t} : run'[u] = run[u]
    BY <1>1 DEF RunGoto, TypeOK, Run
  <1>2. ASSUME NEW pc, Unwind(t, pc)
        PROVE  run'[t].pc = pc /\ \A u \in Token \ {t} : run'[u] = run[u]
    BY <1>2 DEF Unwind, NoRun, TypeOK, Run
  <1>3. CASE RunUnlock(t)
    BY <1>3 DEF RunUnlock, NoRun, TypeOK
  <1>4. CASE PauseRun(t) \/ MarkRolledBack(t) \/ MarkDeployFailed(t)
    BY <1>2, <1>4 DEF PauseRun, MarkRolledBack, MarkDeployFailed
  <1>5. CASE StepSucceeds(t)
    <2>1. PICK s \in Step :
             run' = [run EXCEPT ![t].pc = "boundary", ![t].sha = IF s = 1 THEN "sha" ELSE @]
      BY <1>5, ZenonT(40) DEF StepSucceeds
    <2>2. run'[t].rel = run[t].rel /\ run'[t].log = run[t].log
      BY <2>1 DEF TypeOK, Run
    <2>3. \A u \in Token \ {t} : run'[u] = run[u]
      BY <2>1 DEF TypeOK
    <2> QED
      BY <1>5, <2>2, <2>3 DEF StepSucceeds
  <1>7. CASE Timeout(t)
    BY <1>7 DEF Timeout, TypeOK, Run
  <1>6. CASE RunStart(t) \/ Boundary(t) \/ StepFails(t) \/ RunFail(t) \/ RunFinish(t)
             \/ MarkDeploySucceeded(t) \/ AlertDeployFailed(t)
    <2>1. \E pc \in RunPC : RunGoto(t, pc)
      BY <1>6, ZenonT(40) DEF RunStart, Boundary, StepFails, RunFail, RunFinish, MarkDeploySucceeded,
                  AlertDeployFailed, RunPC
    <2>2. UNCHANGED req
      BY <1>6, ZenonT(40) DEF RunStart, Boundary, StepFails, RunFail, RunFinish, MarkDeploySucceeded,
                  AlertDeployFailed
    <2> QED
      BY <1>1, <2>1, <2>2
  <1> QED
    BY <1>3, <1>4, <1>5, <1>6, <1>7 DEF RunStep

LEMMA NextRefs == TypeOK /\ TypeOK' /\ RefInv /\ [Next]_vars => RefInv'
  <1> SUFFICES ASSUME TypeOK, TypeOK', RefInv, [Next]_vars PROVE RefInv'
    OBVIOUS
  <1>1. ASSUME NEW t \in Token, RunStep(t) \/ Timeout(t) PROVE RefInv'
    <2>1. run[t].pc \in {"idle", "alert", "unlock"} => run'[t].pc \in {"idle", "alert", "unlock"}
      <3>1. ASSUME NEW pc, RunGoto(t, pc) PROVE run'[t].pc = pc
        BY <3>1, SMTT(40) DEF RunGoto, TypeOK, Run
      <3>2. run[t].pc \in {"idle", "alert", "unlock"} => AlertDeployFailed(t) \/ RunUnlock(t)
        BY <1>1, ZenonT(40) DEF RunStep, RunStart, Boundary, PauseRun, StepSucceeds, StepFails, RunFail,
                  RunFinish, MarkDeploySucceeded, MarkRolledBack, MarkDeployFailed, Timeout
      <3> QED
        <4>1. ASSUME RunUnlock(t) PROVE run'[t].pc = "idle"
          <5>1. run'[t] = NoRun
            BY <4>1 DEF RunUnlock, TypeOK
          <5>2. NoRun.pc = "idle"
            BY DEF NoRun
          <5> QED
            BY <5>1, <5>2
        <4>2. AlertDeployFailed(t) => run'[t].pc = "unlock"
          BY <3>1 DEF AlertDeployFailed
        <4> QED
          BY <3>2, <4>1, <4>2
    <2>2. RunRefs(run'[t])
      BY <1>1, <2>1, RunEffect DEF RefInv, RunRefs
    <2> QED
      BY <1>1, <2>2, RunEffect, RunKeepsRefs DEF RefInv
  <1>2. CASE LockExpires \/ UNCHANGED vars
    BY <1>2 DEF LockExpires, vars, RefInv
  <1>3. CASE Crash
    BY <1>3, IdleRefs DEF Crash, RefInv
  <1> QED
    BY <1>1, <1>2, <1>3, OperatorRefs, HandlerRefs DEF Next

-----------------------------------------------------------------------------
(***************************************************************************)
(* Step rows. They are written by the one handler that prepares a run and  *)
(* by the one run that executes, so what a run has seen of its log stays   *)
(* true until its own next step.                                           *)
(***************************************************************************)
StepsInv ==
    /\ SuccessMeansEveryStepRan
    /\ PausedIsQuiescent
    /\ \A t \in Token : run[t].pc = "pausing" =>
          \E s \in Step : log[run[t].log].steps[s] # "success"

\* The program counters at which StepsInv says something of a run.
Watching == {"boundary", "pausing", "exec", "finish", "succeeded"}

LEMMA InitSteps == Init => StepsInv
  <1> SUFFICES ASSUME Init PROVE StepsInv
    OBVIOUS
  <1>1. \A t \in Token : run[t].pc = "idle"
    BY DEF Init, NoRun
  <1>2. \A l \in Log : log[l].status = "none"
    BY DEF Init
  <1> QED
    BY <1>1, <1>2 DEF StepsInv, SuccessMeansEveryStepRan, PausedIsQuiescent

\* A step that leaves the step rows alone, marks no log paused and lets no run
\* reach a watched program counter.
LEMMA QuietKeepsSteps ==
    ASSUME TypeOK, RefInv, StepsInv,
           \A l \in Log : /\ log'[l].steps = log[l].steps
                          /\ log'[l].status = "paused" => log[l].status = "paused",
           \A t \in Token : \/ run'[t].pc = run[t].pc /\ run'[t].log = run[t].log
                            \/ run'[t].pc \notin Watching
    PROVE  StepsInv'
  <1>1. \A t \in Token : run[t].pc \in Watching => run[t].log \in Log
    BY DEF RefInv, RunRefs, Watching
  <1>2. SuccessMeansEveryStepRan'
    BY <1>1 DEF StepsInv, SuccessMeansEveryStepRan, Watching
  <1>3. PausedIsQuiescent'
    BY <1>1 DEF StepsInv, PausedIsQuiescent, Watching
  <1>4. (\A t \in Token : run[t].pc = "pausing" =>
           \E s \in Step : log[run[t].log].steps[s] # "success")'
    BY <1>1 DEF StepsInv, Watching
  <1> QED
    BY <1>2, <1>3, <1>4 DEF StepsInv

LEMMA SpawnIsQuiet ==
    ASSUME TypeOK, NEW c \in Client, NEW t, Spawn(c, t)
    PROVE  \A u \in Token : run'[u] = run[u] \/ run'[u].pc \notin Watching
  <1> DEFINE g == [NoRun EXCEPT !.pc = "start", !.rel = req[c].rel,
                                !.log = req[c].log, !.sha = req[c].sha]
  <1>1. g.pc = "start"
    BY DEF NoRun
  <1>2. \A u \in Token : run'[u] = run[u] \/ run'[u] = g
    BY DEF Spawn, TypeOK
  <1> HIDE DEF g
  <1> QED
    BY <1>1, <1>2 DEF Watching

LEMMA HandlerSteps ==
    ASSUME TypeOK, TypeOK', LockInv, RefInv, StepsInv, NEW c \in Client,
           HandlerStep(c) \/ HandlerError(c)
    PROVE  StepsInv'
  <1>1. CASE PrepareRun(c)
    <2>1. PICK l \in Log :
             log' = [log EXCEPT ![l].status = "pending", ![l].trigger_sha = req[c].sha]
      BY <1>1 DEF PrepareRun
    <2>2. \A k \in Log : /\ log'[k].steps = log[k].steps
                         /\ log'[k].status = "paused" => log[k].status = "paused"
      BY <2>1 DEF TypeOK, LogRow
    <2> QED
      BY <1>1, <2>2, QuietKeepsSteps DEF PrepareRun
  <1>2. CASE SetPauseRequested(c)
    <2>1. \A k \in Log : log'[k].steps = log[k].steps /\ log'[k].status = log[k].status
      BY <1>2 DEF SetPauseRequested, TypeOK, LogRow
    <2> QED
      BY <1>2, <2>1, QuietKeepsSteps DEF SetPauseRequested
  <1>3. CASE RetryReset(c)
    <2>1. \A t \in Token : run[t].pc \notin Watching /\ run'[t] = run[t]
      BY <1>3 DEF RetryReset, LockInv, Preparing, Driving, Watching
    <2>2. \A k \in Log : /\ log'[k].status = log[k].status
                         /\ \A s \in Step : log'[k].steps[s] \in {"pending", log[k].steps[s]}
      <3>1. \A k \in Log \ {req[c].log} : log'[k] = log[k]
        BY <1>3, SMTT(40) DEF RetryReset, ResetFrom, TypeOK
      <3>2. req[c].log \in Log =>
               /\ log'[req[c].log].status = log[req[c].log].status
               /\ log'[req[c].log].steps = [s \in Step |-> IF s >= req[c].from THEN "pending"
                                                           ELSE log[req[c].log].steps[s]]
        BY <1>3 DEF RetryReset, ResetFrom, TypeOK, LogRow
      <3> QED
        BY <3>1, <3>2
    <2>3. PausedIsQuiescent'
      BY <2>1, <2>2 DEF StepsInv, PausedIsQuiescent, Watching
    <2> QED
      BY <2>1, <2>3 DEF StepsInv, SuccessMeansEveryStepRan, Watching
  <1>4. CASE Acquire(c)
    <2>1. ASSUME NEW t \in FreshTokens, Spawn(c, t) PROVE StepsInv'
      BY <1>4, <2>1, SpawnIsQuiet, QuietKeepsSteps DEF Acquire
    <2>2. CASE UNCHANGED run
      BY <1>4, <2>2, QuietKeepsSteps DEF Acquire
    <2> QED
      BY <1>4, <2>1, <2>2 DEF Acquire
  <1>5. CASE MarkDeploying(c)
    <2>1. Spawn(c, req[c].tok) /\ UNCHANGED log
      BY <1>5 DEF MarkDeploying
    <2> QED
      BY <2>1, SpawnIsQuiet, QuietKeepsSteps
  <1>6. CASE RollbackLoad(c) \/ MarkDeployingRead(c) \/ VerifyWrite(c) \/ CreateRollbackDraft(c)
             \/ MarkRollingBack(c) \/ HandlerError(c)
    <2>1. UNCHANGED <<log, run>>
      BY <1>6 DEF RollbackLoad, MarkDeployingRead, VerifyWrite, CreateRollbackDraft,
                  MarkRollingBack, HandlerError
    <2> QED
      BY <2>1, QuietKeepsSteps
  <1> QED
    BY <1>1, <1>2, <1>3, <1>4, <1>5, <1>6 DEF HandlerStep

LEMMA RunSteps ==
    ASSUME TypeOK, TypeOK', LockInv, RefInv, StepsInv, NEW t \in Token,
           RunStep(t) \/ Timeout(t)
    PROVE  StepsInv'
  <1> DEFINE l == run[t].log
  <1>1. \A u \in Token \ {t} : run'[u] = run[u]
    BY RunEffect
  <1>2. ASSUME Driving(t)
        PROVE  l \in Log /\ \A u \in Token \ {t} : run[u].pc \notin Watching
    BY <1>2 DEF LockInv, Driving, RefInv, RunRefs, Watching
  <1>3. ASSUME NEW pc, RunGoto(t, pc)
        PROVE  run'[t].pc = pc /\ run'[t].log = l
    BY <1>3 DEF RunGoto, TypeOK, Run
  <1>4. ASSUME NEW pc, Unwind(t, pc)
        PROVE  run'[t].pc = pc
    BY <1>4 DEF Unwind, NoRun, TypeOK, Run
  <1>5. CASE RunStart(t)
    <2>1. CASE log' = MarkRunning(l) /\ (RunGoto(t, "boundary") \/ RunGoto(t, "fail"))
      <3>1. l \in Log /\ \A u \in Token \ {t} : run'[u].pc \notin Watching
        BY <1>1, <1>2, <1>5 DEF RunStart, Driving
      <3>2. run'[t].pc \in {"boundary", "fail"} /\ run'[t].log = l
        BY <1>3, <2>1
      <3>3. /\ log'[l].status = "running"
            /\ \A k \in Log : log'[k].steps = log[k].steps
            /\ \A k \in Log \ {l} : log'[k].status = log[k].status
        BY <2>1, <3>1 DEF MarkRunning, TypeOK, LogRow
      <3>4. PausedIsQuiescent'
        BY <3>1, <3>2, <3>3 DEF StepsInv, PausedIsQuiescent, Watching
      <3> QED
        BY <3>1, <3>2, <3>4 DEF StepsInv, SuccessMeansEveryStepRan, Watching
    <2>2. CASE RunGoto(t, "fail") /\ UNCHANGED log
      BY <1>1, <1>3, <2>2, QuietKeepsSteps, SMTT(40) DEF Watching
    <2> QED
      BY <1>5, <2>1, <2>2 DEF RunStart
  <1>6. CASE Boundary(t)
    <2>1. l \in Log /\ \A u \in Token \ {t} : run'[u].pc \notin Watching
      BY <1>1, <1>2, <1>6 DEF Boundary, Driving
    <2>2. log[l].status # "paused"
      BY <1>6, <2>1 DEF Boundary, StepsInv, PausedIsQuiescent
    <2>3. ASSUME UNCHANGED log, NEW pc \in {"finish", "pausing"}, RunGoto(t, pc),
                 pc = "finish" => \A s \in Step : log[l].steps[s] = "success",
                 pc = "pausing" => \E s \in Step : log[l].steps[s] # "success"
          PROVE  StepsInv'
      <3>1. run'[t].pc = pc /\ run'[t].log = l
        BY <1>3, <2>3
      <3>2. PausedIsQuiescent'
        BY <2>1, <2>2, <2>3, <3>1 DEF StepsInv, PausedIsQuiescent, Watching
      <3>3. SuccessMeansEveryStepRan'
        BY <2>1, <2>3, <3>1 DEF SuccessMeansEveryStepRan, Watching
      <3>4. (\A u \in Token : run[u].pc = "pausing" =>
               \E s \in Step : log[run[u].log].steps[s] # "success")'
        BY <2>1, <2>3, <3>1 DEF Watching
      <3> QED
        BY <3>2, <3>3, <3>4 DEF StepsInv
    <2>4. ASSUME NEW s \in Step, RunGoto(t, "exec"),
                 log' = log \/ log' = [log EXCEPT ![l].steps[s] = "running"]
          PROVE  StepsInv'
      <3>1. run'[t].pc = "exec" /\ run'[t].log = l
        BY <1>3, <2>4
      <3>2. /\ \A k \in Log : log'[k].status = log[k].status
            /\ \A k \in Log \ {l} : log'[k].steps = log[k].steps
        BY <2>1, <2>4, SMTT(40) DEF TypeOK, LogRow
      <3>3. PausedIsQuiescent'
        BY <2>1, <2>2, <3>1, <3>2 DEF StepsInv, PausedIsQuiescent, Watching
      <3> QED
        BY <2>1, <3>1, <3>3 DEF StepsInv, SuccessMeansEveryStepRan, Watching
    <2>5. CASE (\A s \in Step : IsDone(log[l].steps[s])) /\ RunGoto(t, "finish") /\ UNCHANGED log
      BY <2>3, <2>5 DEF IsDone
    <2>6. ASSUME NEW s \in Step, IsNextStep(l, s), RunGoto(t, "pausing"), UNCHANGED log
          PROVE  StepsInv'
      BY <2>3, <2>6 DEF IsNextStep, IsDone
    <2> QED
      BY <1>6, <2>4, <2>5, <2>6 DEF Boundary
  <1>7. CASE PauseRun(t)
    <2>1. l \in Log /\ \A u \in Token \ {t} : run'[u].pc \notin Watching
      BY <1>1, <1>2, <1>7 DEF PauseRun, Driving
    <2>2. run'[t].pc = "unlock"
      BY <1>4, <1>7 DEF PauseRun
    <2>3. PICK sha : log' = log \/ log' = MarkPaused(l, sha)
      BY <1>7 DEF PauseRun
    <2>4. /\ \A k \in Log : log'[k].steps = log[k].steps
          /\ \A k \in Log \ {l} : log'[k].status = log[k].status
      <3>1. CASE log' = MarkPaused(l, sha)
        <4>1. \A k \in Log \ {l} : log'[k] = log[k]
          BY <3>1 DEF MarkPaused, TypeOK
        <4>2. log'[l].steps = log[l].steps
          BY <2>1, <3>1 DEF MarkPaused, TypeOK, LogRow
        <4> QED
          BY <4>1, <4>2
      <3> QED
        BY <2>3, <3>1
    <2>5. \E s \in Step : log[l].steps[s] # "success"
      BY <1>7 DEF PauseRun, StepsInv
    <2>6. PausedIsQuiescent'
      BY <2>1, <2>2, <2>4, <2>5 DEF StepsInv, PausedIsQuiescent, Watching
    <2> QED
      BY <2>1, <2>2, <2>6 DEF StepsInv, SuccessMeansEveryStepRan, Watching
  <1>8. CASE StepSucceeds(t) \/ StepFails(t)
    <2>1. l \in Log /\ \A u \in Token \ {t} : run'[u].pc \notin Watching
      BY <1>1, <1>2, <1>8 DEF StepSucceeds, StepFails, Driving
    <2>2. log[l].status # "paused"
      BY <1>8, <2>1 DEF StepSucceeds, StepFails, StepsInv, PausedIsQuiescent
    <2>3. run'[t].pc \in {"boundary", "fail"} /\ run'[t].log = l
      <3>1. CASE StepSucceeds(t)
        <4>1. PICK s \in Step :
                 run' = [run EXCEPT ![t].pc = "boundary", ![t].sha = IF s = 1 THEN "sha" ELSE @]
          BY <3>1 DEF StepSucceeds
        <4> QED
          BY <4>1 DEF TypeOK, Run
      <3> QED
        BY <1>3, <1>8, <3>1 DEF StepFails
    <2>4. PICK s, status : s \in Step /\ log' = [log EXCEPT ![l].steps[s] = status]
      BY <1>8 DEF StepSucceeds, StepFails
    <2>5. /\ \A k \in Log : log'[k].status = log[k].status
          /\ \A k \in Log \ {l} : log'[k].steps = log[k].steps
      BY <2>1, <2>4 DEF TypeOK, LogRow
    <2>6. PausedIsQuiescent'
      BY <2>1, <2>2, <2>3, <2>5 DEF StepsInv, PausedIsQuiescent, Watching
    <2> QED
      BY <2>1, <2>3, <2>6 DEF StepsInv, SuccessMeansEveryStepRan, Watching
  <1>9. CASE RunFail(t) \/ RunFinish(t)
    <2>1. l \in Log /\ \A u \in Token \ {t} : run'[u].pc \notin Watching
      BY <1>1, <1>2, <1>9 DEF RunFail, RunFinish, Driving
    <2>2. \/ run'[t].pc = "failed"
          \/ /\ run'[t].pc = "succeeded" /\ run'[t].log = l
             /\ \A s \in Step : log[l].steps[s] = "success"
      BY <1>3, <1>9 DEF RunFail, RunFinish, StepsInv, SuccessMeansEveryStepRan
    <2>3. PICK status, sha : status \in {"failed", "success"} /\ (log' = log \/ log' = Finish(l, status, sha))
      BY <1>9 DEF RunFail, RunFinish
    <2>4. \A k \in Log : /\ log'[k].steps = log[k].steps
                         /\ log'[k].status = "paused" => log[k].status = "paused"
      BY <2>1, <2>3 DEF Finish, TypeOK, LogRow
    <2>5. PausedIsQuiescent'
      BY <2>1, <2>2, <2>4 DEF StepsInv, PausedIsQuiescent, Watching
    <2>6. SuccessMeansEveryStepRan'
      BY <2>1, <2>2, <2>4 DEF SuccessMeansEveryStepRan, Watching
    <2> QED
      BY <2>1, <2>2, <2>5, <2>6 DEF StepsInv, Watching
  <1>10. CASE MarkDeploySucceeded(t) \/ MarkRolledBack(t) \/ MarkDeployFailed(t)
              \/ AlertDeployFailed(t) \/ RunUnlock(t)
    <2>1. UNCHANGED log
      BY <1>10 DEF MarkDeploySucceeded, MarkRolledBack, MarkDeployFailed, AlertDeployFailed,
                   RunUnlock
    <2>2. run'[t].pc \in {"prev", "unlock", "alert", "idle"}
      <3>1. RunUnlock(t) => run'[t] = NoRun
        BY DEF RunUnlock, TypeOK
      <3>2. NoRun.pc = "idle"
        BY DEF NoRun
      <3> QED
        BY <1>3, <1>4, <1>10, <3>1, <3>2
        DEF MarkDeploySucceeded, MarkRolledBack, MarkDeployFailed, AlertDeployFailed
    <2> QED
      BY <1>1, <2>1, <2>2, QuietKeepsSteps DEF Watching
  <1>11. CASE Timeout(t)
    <2>1. run'[t].pc = run[t].pc /\ run'[t].log = run[t].log /\ UNCHANGED log
      BY <1>11 DEF Timeout, TypeOK, Run
    <2> QED
      BY <1>1, <2>1, QuietKeepsSteps
  <1> QED
    BY <1>5, <1>6, <1>7, <1>8, <1>9, <1>10, <1>11 DEF RunStep

LEMMA NextSteps ==
    TypeOK /\ TypeOK' /\ LockInv /\ RefInv /\ StepsInv /\ [Next]_vars => StepsInv'
  <1> SUFFICES ASSUME TypeOK, TypeOK', LockInv, RefInv, StepsInv, [Next]_vars PROVE StepsInv'
    OBVIOUS
  <1>1. ASSUME NEW c \in Client, Operator(c) PROVE StepsInv'
    <2>1. UNCHANGED <<log, run>>
      BY <1>1, ZenonT(40) DEF Operator, CreateRelease, Deploy, Retry, Resume, Pause, Verify, Rollback
    <2> QED
      BY <2>1, QuietKeepsSteps, SMTT(40)
  <1>2. CASE LockExpires \/ UNCHANGED vars
    BY <1>2, QuietKeepsSteps DEF LockExpires, vars
  <1>3. CASE Crash
    <2>1. UNCHANGED log /\ \A t \in Token : run'[t].pc = "idle"
      BY <1>3 DEF Crash, NoRun
    <2> QED
      BY <2>1, QuietKeepsSteps DEF Watching
  <1> QED
    BY <1>1, <1>2, <1>3, HandlerSteps, RunSteps DEF Next

\* A run that reports success to its release has executed every step of its log,
\* for any number of steps and whatever retries, pauses and restarts came before.
THEOREM SuccessIsEarned == Spec => []SuccessMeansEveryStepRan
  <1>1. TypeOK /\ LockInv /\ RefInv /\ StepsInv /\ [Next]_vars
          => (TypeOK /\ LockInv /\ RefInv /\ StepsInv)'
    BY NextType, NextLock, NextRefs, NextSteps
  <1>2. StepsInv => SuccessMeansEveryStepRan
    BY DEF StepsInv
  <1> QED
    BY <1>1, <1>2, InitType, InitLock, InitRefs, InitSteps, PTL DEF Spec

\* A log that reads paused has a step left and no run working on it, so Resume
\* always finds something to do and nobody to race with.
THEOREM PausedIsAtRest == Spec => []PausedIsQuiescent
  <1>1. TypeOK /\ LockInv /\ RefInv /\ StepsInv /\ [Next]_vars
          => (TypeOK /\ LockInv /\ RefInv /\ StepsInv)'
    BY NextType, NextLock, NextRefs, NextSteps
  <1>2. StepsInv => PausedIsQuiescent
    BY DEF StepsInv
  <1> QED
    BY <1>1, <1>2, InitType, InitLock, InitRefs, InitSteps, PTL DEF Spec

-----------------------------------------------------------------------------
(***************************************************************************)
(* Rollbacks. previous_release_id is written once, when the row is         *)
(* inserted, and a release stays deployed once it was.                     *)
(***************************************************************************)
ReplacedInv ==
    /\ RolledBackWasReplaced
    /\ \A r \in Release : rel[r].deployed => rel[r].status # "none"
    /\ \A t \in Token : run[t].pc = "prev" => rel[run[t].rel].deployed

LEMMA InitReplaced == Init => ReplacedInv
  <1> SUFFICES ASSUME Init PROVE ReplacedInv
    OBVIOUS
  <1>1. \A t \in Token : run[t].pc = "idle"
    BY DEF Init, NoRun
  <1>2. \A r \in Release : rel[r].status = "none" /\ rel[r].deployed = FALSE
    BY DEF Init
  <1> QED
    BY <1>1, <1>2 DEF ReplacedInv, RolledBackWasReplaced

\* Rows only move forward: what was created, replaced or deployed stays so.
Forward ==
    \A r \in Release :
       /\ rel[r].deployed => rel'[r].deployed
       /\ rel'[r].deployed => rel[r].deployed \/ rel'[r].status # "none"
       /\ rel[r].status # "none" =>
             /\ rel'[r].status # "none"
             /\ rel'[r].previous_release_id = rel[r].previous_release_id

\* A step that moves rows forward and closes none.
LEMMA ForwardKeepsReplaced ==
    ASSUME TypeOK, RefInv, ReplacedInv, Forward,
           \A r \in Release : rel'[r].status = "rolled_back" => rel[r].status = "rolled_back",
           \A t \in Token : run'[t].pc = "prev" => run[t].pc = "prev" /\ run'[t].rel = run[t].rel
    PROVE  ReplacedInv'
  <1>1. RolledBackWasReplaced'
    <2> SUFFICES ASSUME NEW b \in Release, rel'[b].status = "rolled_back"
                 PROVE  \E n \in Release : rel'[n].previous_release_id = b /\ rel'[n].deployed
      BY DEF RolledBackWasReplaced
    <2>1. PICK n \in Release : rel[n].previous_release_id = b /\ rel[n].deployed
      BY DEF ReplacedInv, RolledBackWasReplaced
    <2>2. rel[n].status # "none"
      BY <2>1 DEF ReplacedInv
    <2> QED
      BY <2>1, <2>2 DEF Forward
  <1>2. (\A r \in Release : rel[r].deployed => rel[r].status # "none")'
    BY DEF ReplacedInv, Forward
  <1>3. (\A t \in Token : run[t].pc = "prev" => rel[run[t].rel].deployed)'
    <2> SUFFICES ASSUME NEW t \in Token, run'[t].pc = "prev"
                 PROVE  rel'[run'[t].rel].deployed
      OBVIOUS
    <2>1. run[t].pc = "prev" /\ run'[t].rel = run[t].rel /\ run[t].rel \in Release
      BY DEF RefInv, RunRefs
    <2>2. rel[run[t].rel].deployed
      BY <2>1 DEF ReplacedInv
    <2> QED
      BY <2>1, <2>2 DEF Forward
  <1> QED
    BY <1>1, <1>2, <1>3 DEF ReplacedInv

LEMMA UpdateStatusForward ==
    ASSUME TypeOK, ReplacedInv, NEW r, NEW status, status # "none",
           rel' = UpdateStatus(r, status)
    PROVE  /\ Forward
           /\ \A q \in Release : rel'[q].status \in {status, rel[q].status}
           /\ \A q \in Release : rel'[q].status # rel[q].status => q = r
           /\ \A q \in Release : rel'[q].previous_release_id = rel[q].previous_release_id
           /\ \A q \in Release : rel'[q].deployed = rel[q].deployed
  <1>1. \A q \in Release : /\ rel'[q].status = IF q = r THEN status ELSE rel[q].status
                           /\ rel'[q].previous_release_id = rel[q].previous_release_id
                           /\ rel'[q].deployed = rel[q].deployed
    BY DEF UpdateStatus, TypeOK, ReleaseRow
  <1>2. Forward
    BY <1>1 DEF Forward, ReplacedInv
  <1> QED
    BY <1>1, <1>2

LEMMA UnchangedForward ==
    ASSUME UNCHANGED rel, ReplacedInv
    PROVE  Forward
  BY DEF Forward, ReplacedInv

LEMMA SpawnRepl ==
    ASSUME TypeOK, NEW c \in Client, NEW t, Spawn(c, t)
    PROVE  \A u \in Token : run'[u].pc = "prev" => run[u].pc = "prev" /\ run'[u].rel = run[u].rel
  <1> DEFINE g == [NoRun EXCEPT !.pc = "start", !.rel = req[c].rel,
                                !.log = req[c].log, !.sha = req[c].sha]
  <1>1. g.pc = "start"
    BY DEF NoRun
  <1>2. \A u \in Token : run'[u] = run[u] \/ run'[u] = g
    BY DEF Spawn, TypeOK
  <1> HIDE DEF g
  <1> QED
    BY <1>1, <1>2

LEMMA ClientReplaced ==
    ASSUME TypeOK, TypeOK', RefInv, ReplacedInv, NEW c \in Client,
           Operator(c) \/ HandlerStep(c) \/ HandlerError(c)
    PROVE  ReplacedInv'
  <1>1. ASSUME UNCHANGED run, NEW r, NEW status, status \notin {"none", "rolled_back"},
               rel' = UpdateStatus(r, status)
        PROVE  ReplacedInv'
    BY <1>1, UpdateStatusForward, ForwardKeepsReplaced
  <1>2. ASSUME UNCHANGED <<rel, run>> PROVE ReplacedInv'
    BY <1>2, UnchangedForward, ForwardKeepsReplaced
  <1>3. CASE Operator(c)
    <2>1. CASE CreateRelease(c)
      BY <1>1, <2>1 DEF CreateRelease
    <2>2. CASE ~CreateRelease(c)
      <3>1. UNCHANGED <<rel, run>>
        BY <1>3, <2>2, ZenonT(40) DEF Operator, Deploy, Retry, Resume, Pause, Verify, Rollback
      <3> QED
        BY <1>2, <3>1, SMTT(40)
    <2> QED
      BY <2>1, <2>2
  <1>4. CASE RollbackLoad(c) \/ PrepareRun(c) \/ RetryReset(c) \/ MarkDeployingRead(c)
             \/ SetPauseRequested(c) \/ HandlerError(c)
    <2>1. UNCHANGED <<rel, run>>
      BY <1>4 DEF RollbackLoad, PrepareRun, RetryReset, MarkDeployingRead, SetPauseRequested,
                  HandlerError
    <2> QED
      BY <1>2, <2>1
  <1>5. CASE Acquire(c)
    <2>1. UNCHANGED rel
      BY <1>5 DEF Acquire
    <2>2. ASSUME NEW t \in FreshTokens, Spawn(c, t) PROVE ReplacedInv'
      BY <2>1, <2>2, SpawnRepl, UnchangedForward, ForwardKeepsReplaced
    <2> QED
      BY <1>2, <1>5, <2>1, <2>2 DEF Acquire
  <1>6. CASE MarkDeploying(c)
    <2>1. Spawn(c, req[c].tok)
      BY <1>6 DEF MarkDeploying
    <2>2. \A q \in Release : /\ rel'[q].status \in {"deploying", rel[q].status}
                             /\ rel'[q].previous_release_id = rel[q].previous_release_id
                             /\ rel'[q].deployed = rel[q].deployed
      BY <1>6 DEF MarkDeploying, UpdateStatus, TypeOK, ReleaseRow
    <2>3. Forward
      BY <2>2 DEF Forward, ReplacedInv
    <2> QED
      BY <2>1, <2>2, <2>3, SpawnRepl, ForwardKeepsReplaced
  <1>7. CASE VerifyWrite(c)
    BY <1>1, <1>7 DEF VerifyWrite
  <1>8. CASE CreateRollbackDraft(c)
    <2>1. PICK r \in Release :
             /\ IsNextRelease(r)
             /\ rel' = [rel EXCEPT ![r].status = "draft", ![r].commit = req[c].sha,
                                   ![r].previous_release_id = req[c].bad]
      BY <1>8 DEF CreateRollbackDraft
    <2>2. rel[r].status = "none"
      BY <2>1 DEF IsNextRelease
    <2>3. \A q \in Release \ {r} : rel'[q] = rel[q]
      BY <2>1 DEF TypeOK
    <2>4. rel'[r].status = "draft" /\ rel'[r].deployed = rel[r].deployed
      BY <2>1 DEF TypeOK, ReleaseRow
    <2>5. Forward
      BY <2>2, <2>3, <2>4 DEF Forward, ReplacedInv
    <2> QED
      BY <1>8, <2>3, <2>4, <2>5, ForwardKeepsReplaced DEF CreateRollbackDraft
  <1>9. CASE MarkRollingBack(c)
    BY <1>1, <1>2, <1>9 DEF MarkRollingBack
  <1> QED
    BY <1>3, <1>4, <1>5, <1>6, <1>7, <1>8, <1>9 DEF HandlerStep

LEMMA RunReplaced ==
    ASSUME TypeOK, TypeOK', RefInv, ReplacedInv, NEW t \in Token, RunStep(t) \/ Timeout(t)
    PROVE  ReplacedInv'
  <1>1. \A u \in Token \ {t} : run'[u] = run[u]
    BY RunEffect
  <1>2. ASSUME NEW pc, RunGoto(t, pc)
        PROVE  run'[t].pc = pc /\ run'[t].rel = run[t].rel
    BY <1>2 DEF RunGoto, TypeOK, Run
  <1>3. ASSUME NEW pc, Unwind(t, pc)
        PROVE  run'[t].pc = pc
    BY <1>3 DEF Unwind, NoRun, TypeOK, Run
  <1>4. CASE MarkDeploySucceeded(t)
    <2>1. run[t].rel \in Release
      BY <1>4 DEF MarkDeploySucceeded, RefInv, RunRefs
    <2>2. PICK sha : rel' = [rel EXCEPT ![run[t].rel].status = "pending_verify",
                                        ![run[t].rel].deployed = TRUE,
                                        ![run[t].rel].commit = sha]
      BY <1>4 DEF MarkDeploySucceeded
    <2>3. \A q \in Release \ {run[t].rel} : rel'[q] = rel[q]
      BY <2>2 DEF TypeOK
    <2>4. /\ rel'[run[t].rel].status = "pending_verify" /\ rel'[run[t].rel].deployed
          /\ rel'[run[t].rel].previous_release_id = rel[run[t].rel].previous_release_id
      BY <2>1, <2>2 DEF TypeOK, ReleaseRow
    <2>5. run'[t].pc = "prev" /\ run'[t].rel = run[t].rel
      BY <1>2, <1>4 DEF MarkDeploySucceeded
    <2>6. RolledBackWasReplaced'
      <3> SUFFICES ASSUME NEW b \in Release, rel'[b].status = "rolled_back"
                   PROVE  \E n \in Release : rel'[n].previous_release_id = b /\ rel'[n].deployed
        BY DEF RolledBackWasReplaced
      <3>1. PICK n \in Release : rel[n].previous_release_id = b /\ rel[n].deployed
        BY <2>3, <2>4 DEF ReplacedInv, RolledBackWasReplaced
      <3> QED
        BY <2>3, <2>4, <3>1
    <2>7. (\A r \in Release : rel[r].deployed => rel[r].status # "none")'
      BY <2>3, <2>4 DEF ReplacedInv
    <2>8. (\A u \in Token : run[u].pc = "prev" => rel[run[u].rel].deployed)'
      <3> SUFFICES ASSUME NEW u \in Token, run'[u].pc = "prev"
                   PROVE  rel'[run'[u].rel].deployed
        OBVIOUS
      <3>1. run'[u].rel = run[t].rel \/ (run'[u] = run[u] /\ run[u].rel \in Release
                                         /\ rel[run[u].rel].deployed)
        BY <1>1, <2>5 DEF RefInv, RunRefs, ReplacedInv
      <3> QED
        BY <2>3, <2>4, <3>1
    <2> QED
      BY <2>6, <2>7, <2>8 DEF ReplacedInv
  <1>5. CASE MarkRolledBack(t)
    <2> DEFINE n == run[t].rel
    <2> DEFINE prev == rel[n].previous_release_id
    <2>1. n \in Release /\ rel[n].deployed
      BY <1>5 DEF MarkRolledBack, RefInv, RunRefs, ReplacedInv
    <2>2. run'[t].pc = "unlock"
      BY <1>3, <1>5 DEF MarkRolledBack
    <2>3. CASE rel' = rel
      BY <1>1, <2>2, <2>3, UnchangedForward, ForwardKeepsReplaced, SMTT(40)
    <2>4. CASE rel' = UpdateStatus(prev, "rolled_back")
      <3>1. /\ Forward
            /\ \A q \in Release : rel'[q].status # rel[q].status => q = prev
            /\ \A q \in Release : rel'[q].previous_release_id = rel[q].previous_release_id
            /\ \A q \in Release : rel'[q].deployed = rel[q].deployed
        BY <2>4, UpdateStatusForward
      <3>2. RolledBackWasReplaced'
        BY <2>1, <3>1 DEF ReplacedInv, RolledBackWasReplaced
      <3>3. (\A r \in Release : rel[r].deployed => rel[r].status # "none")'
        BY <3>1 DEF Forward, ReplacedInv
      <3>4. (\A u \in Token : run[u].pc = "prev" => rel[run[u].rel].deployed)'
        <4> SUFFICES ASSUME NEW u \in Token, run'[u].pc = "prev"
                     PROVE  rel'[run'[u].rel].deployed
          OBVIOUS
        <4>1. run'[u] = run[u] /\ run[u].rel \in Release /\ rel[run[u].rel].deployed
          BY <1>1, <2>2 DEF RefInv, RunRefs, ReplacedInv
        <4> QED
          BY <3>1, <4>1
      <3> QED
        BY <3>2, <3>3, <3>4 DEF ReplacedInv
    <2> QED
      BY <1>5, <2>3, <2>4 DEF MarkRolledBack
  <1>6. CASE MarkDeployFailed(t)
    <2>1. rel' = UpdateStatus(run[t].rel, "failed") /\ run'[t].pc = "alert"
      BY <1>3, <1>6 DEF MarkDeployFailed
    <2>2. /\ Forward
          /\ \A q \in Release : rel'[q].status \in {"failed", rel[q].status}
      BY <2>1, UpdateStatusForward
    <2> QED
      BY <1>1, <2>1, <2>2, ForwardKeepsReplaced
  <1>7. CASE UNCHANGED rel /\ run'[t].pc # "prev"
    BY <1>1, <1>7, UnchangedForward, ForwardKeepsReplaced
  <1>8. CASE RunStart(t) \/ Boundary(t) \/ StepFails(t) \/ RunFail(t) \/ RunFinish(t)
             \/ AlertDeployFailed(t) \/ PauseRun(t)
    <2>1. UNCHANGED rel
      BY <1>8, SMTT(40) DEF RunStart, Boundary, StepFails, RunFail, RunFinish, AlertDeployFailed, PauseRun
    <2>2. \E pc \in RunPC \ {"prev"} : RunGoto(t, pc) \/ Unwind(t, pc)
      BY <1>8 DEF RunStart, Boundary, StepFails, RunFail, RunFinish, AlertDeployFailed, PauseRun,
                  RunPC
    <2> QED
      BY <1>2, <1>3, <1>7, <2>1, <2>2, SMTT(40)
  <1>9. CASE StepSucceeds(t)
    <2>1. PICK s \in Step :
             run' = [run EXCEPT ![t].pc = "boundary", ![t].sha = IF s = 1 THEN "sha" ELSE @]
      BY <1>9 DEF StepSucceeds
    <2>2. run'[t].pc = "boundary"
      BY <2>1 DEF TypeOK, Run
    <2> QED
      BY <1>7, <1>9, <2>2 DEF StepSucceeds
  <1>10. CASE RunUnlock(t)
    <2>1. run'[t] = NoRun
      BY <1>10 DEF RunUnlock, TypeOK
    <2>2. NoRun.pc = "idle"
      BY DEF NoRun
    <2> QED
      BY <1>7, <1>10, <2>1, <2>2 DEF RunUnlock
  <1>11. CASE Timeout(t)
    <2>1. run'[t].pc = run[t].pc
      BY <1>11 DEF Timeout, TypeOK, Run
    <2> QED
      BY <1>7, <1>11, <2>1 DEF Timeout
  <1> QED
    BY <1>4, <1>5, <1>6, <1>8, <1>9, <1>10, <1>11 DEF RunStep

LEMMA NextReplaced ==
    TypeOK /\ TypeOK' /\ RefInv /\ ReplacedInv /\ [Next]_vars => ReplacedInv'
  <1> SUFFICES ASSUME TypeOK, TypeOK', RefInv, ReplacedInv, [Next]_vars PROVE ReplacedInv'
    OBVIOUS
  <1>1. CASE LockExpires \/ UNCHANGED vars
    BY <1>1, UnchangedForward, ForwardKeepsReplaced DEF LockExpires, vars
  <1>2. CASE Crash
    <2>1. UNCHANGED rel /\ \A t \in Token : run'[t].pc = "idle"
      BY <1>2 DEF Crash, NoRun
    <2> QED
      BY <2>1, UnchangedForward, ForwardKeepsReplaced
  <1> QED
    BY <1>1, <1>2, ClientReplaced, RunReplaced DEF Next

\* A release that reads rolled_back has a deployed replacement, whatever other
\* rollbacks, retries and restarts happened in between.
THEOREM RollbacksHaveReplacements == Spec => []RolledBackWasReplaced
  <1>1. TypeOK /\ RefInv /\ ReplacedInv /\ [Next]_vars => (TypeOK /\ RefInv /\ ReplacedInv)'
    BY NextType, NextRefs, NextReplaced
  <1>2. ReplacedInv => RolledBackWasReplaced
    BY DEF ReplacedInv
  <1> QED
    BY <1>1, <1>2, InitType, InitRefs, InitReplaced, PTL DEF Spec
=============================================================================
