------------------------ MODULE EnvDeploymentProofs ------------------------
(***************************************************************************)
(* Machine-checked proofs about EnvDeployment, for any number of clients,  *)
(* instances, batches, releases, cut requests and lost writes.             *)
(***************************************************************************)
EXTENDS BatchAggregates, FiniteSetTheorems, TLAPS

(***************************************************************************)
(* The inductive invariant.                                                *)
(***************************************************************************)
\* The rows that exist, and those a run was started for.
Live  == {r \in Release : rel[r].status # "none"}
Begun == {r \in Release : rel[r].started}

\* A row that exists belongs to an instance, and what it replaces exists.
RowsInv ==
    /\ \A r \in Live : rel[r].inst \in Instance
    /\ Begun \subseteq Live
    /\ \A r \in Release : rel[r].prev # 0 => rel[r].prev \in Live

\* A run holds the lock of its instance until it has reconciled.
RunsInv == \A r \in Release : run[r].pc # "idle" => r \in Live /\ lock[rel[r].inst] = r

\* What a handler has left to do are instances, or rows that exist; and the
\* replacement has been started before the loop marks the row it replaces.
HandlerOK(q, live, begun) ==
    /\ q.pc \in {"guard", "plan"} => q.of # 0
    /\ q.pc \in {"guard", "plan", "fan", "deploy", "rolling"} /\ q.of # 0 => q.todo \subseteq live
    /\ q.pc \in {"fan", "deploy", "rolling"} /\ q.of = 0 => q.todo \subseteq Instance
    /\ q.pc \in {"deploy", "rolling", "verify"} => q.rel \in live
    /\ q.pc = "rolling" => q.rel \in begun

HandlersInv == \A c \in Client : HandlerOK(req[c], Live, Begun)

\* Releases that read deploying although their run is over.
Undriven == {r \in Release : rel[r].status = "deploying" /\ run[r].pc # "running"}

OrphansBounded == Cardinality(Orphans) <= failures

Inv ==
    /\ RowsInv
    /\ RunsInv
    /\ HandlersInv
    /\ RollingBackHasReplacement
    /\ OrphansBounded
-----------------------------------------------------------------------------
(***************************************************************************)
(* Type correctness.                                                       *)
(***************************************************************************)
\* Every set of releases is finite and fits the counters.
LEMMA Counts ==
    ASSUME NEW S \in SUBSET Release
    PROVE  IsFiniteSet(S) /\ Cardinality(S) \in 0..MaxReleases
  <1>1. IsFiniteSet(Release) /\ Cardinality(Release) = MaxReleases
    BY FS_Interval, ConstantsAssumption DEF Release
  <1>2. IsFiniteSet(S) /\ Cardinality(S) <= Cardinality(Release)
    BY <1>1, FS_Subset
  <1>3. Cardinality(S) \in Nat
    BY <1>2, FS_CardinalityType
  <1> QED
    BY <1>1, <1>2, <1>3, ConstantsAssumption

LEMMA Ranges ==
    /\ Release \subseteq 0..MaxReleases /\ Batch \subseteq 0..MaxBatches
    /\ Instance \subseteq 0..NumInstances /\ Instance \subseteq Release
    /\ 0 \in 0..MaxReleases /\ 0 \in 0..MaxBatches /\ 0 \in 0..NumInstances
    /\ 0 \in 0..MaxFailures /\ 1 \in 0..MaxBatches /\ 0 \notin Release /\ 0 \notin Batch
    /\ \A r \in 0..MaxReleases : r # 0 => r \in Release
    /\ NumInstances \in 0..MaxReleases
  BY ConstantsAssumption DEF Release, Batch, Instance

LEMMA Literals ==
    /\ ReleaseStatus = {"none", "draft", "deploying", "pending_verify", "verified",
                        "failed", "rolling_back", "rolled_back"}
    /\ BatchStatus = {"none", "running", "success", "partial_failed", "failed"}
    /\ RunPC = {"idle", "running", "prev", "read", "write"}
    /\ HandlerPC = {"idle", "guard", "plan", "fan", "deploy", "rolling", "write", "verify"}
  BY DEF ReleaseStatus, BatchStatus, RunPC, HandlerPC

LEMMA NoAggType == NoAgg \in Aggregates
  BY Literals, Ranges DEF NoAgg, Aggregates

LEMMA IdleType == Idle \in Request
  BY Literals, Ranges, NoAggType DEF Idle, Request

LEMMA NoRunType == NoRun \in Run
  BY Literals, NoAggType DEF NoRun, Run

LEMMA AggregateType ==
    ASSUME NEW b
    PROVE  Aggregate(b) \in Aggregates
  <1> DEFINE S == {r \in Children(b) : rel[r].status \in Deployed}
             F == {r \in Children(b) : rel[r].status = "failed"}
  <1>1. S \in SUBSET Release /\ F \in SUBSET Release /\ Children(b) \in SUBSET Release
    BY DEF Children
  <1>2. /\ Cardinality(S) \in 0..MaxReleases /\ Cardinality(F) \in 0..MaxReleases
        /\ Cardinality(Children(b)) \in 0..MaxReleases
    BY <1>1, Counts
  <1> HIDE DEF S, F
  <1>3. \A st \in BatchStatus :
           [status |-> st, total |-> Cardinality(Children(b)), success |-> Cardinality(S),
            failed |-> Cardinality(F)] \in Aggregates
    BY <1>2 DEF Aggregates
  <1>4. \E st \in BatchStatus :
           Aggregate(b) = [status |-> st, total |-> Cardinality(Children(b)),
                           success |-> Cardinality(S), failed |-> Cardinality(F)]
    BY Literals DEF Aggregate, S, F
  <1> QED
    BY <1>3, <1>4

LEMMA InitType == Init => TypeOK
  <1> SUFFICES ASSUME Init PROVE TypeOK
    OBVIOUS
  <1>1. rel \in [Release -> ReleaseRow]
    BY Literals, Ranges DEF Init, ReleaseRow
  <1>2. batch \in [Batch -> BatchRow]
    <2>1. [status |-> "success", total |-> NumInstances, success |-> NumInstances, failed |-> 0]
             \in Aggregates
      BY Literals, Ranges DEF Aggregates
    <2> QED
      BY <2>1, NoAggType, Ranges DEF Init, BatchRow
  <1>3. lock \in [Instance -> 0..MaxReleases] /\ failures \in 0..MaxFailures
    BY Ranges DEF Init
  <1>4. run \in [Release -> Run] /\ req \in [Client -> Request]
    BY IdleType, NoRunType DEF Init
  <1> QED
    BY <1>1, <1>2, <1>3, <1>4 DEF TypeOK

LEMMA UpdateStatusType ==
    ASSUME TypeOK, NEW r, NEW status \in ReleaseStatus, rel' = UpdateStatus(r, status)
    PROVE  rel' \in [Release -> ReleaseRow]
  BY DEF TypeOK, UpdateStatus, ReleaseRow

\* The handler of one client moves on; this is all it needs to show.
LEMMA RequestType ==
    ASSUME TypeOK, NEW c \in Client, NEW q \in Request, req' = [req EXCEPT ![c] = q]
    PROVE  req' \in [Client -> Request]
  BY DEF TypeOK

LEMMA CreateBatchType ==
    ASSUME TypeOK, NEW c \in Client, NEW of \in 0..MaxBatches, NEW todo \in SUBSET Release,
           CreateBatch(c, of, todo)
    PROVE  batch' \in [Batch -> BatchRow] /\ req' \in [Client -> Request]
  <1>1. PICK b \in Batch :
           /\ batch' = [batch EXCEPT ![b] = [rollback_of |-> of,
                          agg |-> [NoAgg EXCEPT !.status = "running",
                                                !.total = Cardinality(todo)]]]
           /\ req' = [req EXCEPT ![c] = [Idle EXCEPT !.pc = "fan", !.batch = b,
                                                     !.of = of, !.todo = todo]]
    BY DEF CreateBatch
  <1>2. [NoAgg EXCEPT !.status = "running", !.total = Cardinality(todo)] \in Aggregates
    BY Counts, NoAggType, Literals DEF Aggregates
  <1>3. batch' \in [Batch -> BatchRow]
    BY <1>1, <1>2 DEF TypeOK, BatchRow
  <1>4. [Idle EXCEPT !.pc = "fan", !.batch = b, !.of = of, !.todo = todo] \in Request
    BY IdleType, Literals, Ranges DEF Request
  <1> QED
    BY <1>1, <1>3, <1>4, RequestType

LEMMA StartRunType ==
    ASSUME TypeOK, NEW r \in Release, StartRun(r)
    PROVE  /\ rel' \in [Release -> ReleaseRow]
           /\ lock' \in [Instance -> 0..MaxReleases]
           /\ run' \in [Release -> Run]
  <1>1. rel' \in [Release -> ReleaseRow]
    <2>1. rel' = [rel EXCEPT ![r].status = "deploying", ![r].started = TRUE]
      BY DEF StartRun
    <2>2. "deploying" \in ReleaseStatus
      BY Literals
    <2> QED
      BY <2>1, <2>2, ZenonT(60) DEF TypeOK, ReleaseRow
  <1>2. lock' \in [Instance -> 0..MaxReleases]
    BY Ranges DEF StartRun, TypeOK
  <1>3. run' \in [Release -> Run]
    BY Literals DEF StartRun, TypeOK, Run
  <1> QED
    BY <1>1, <1>2, <1>3

LEMMA ClientType ==
    ASSUME TypeOK, HandlersInv, NEW c \in Client,
           \/ DeployEnv(c) \/ HandlerStep(c) \/ RequestCut(c) \/ MarkLost(c)
           \/ \E b \in Batch : RollbackEnv(c, b)
           \/ \E r \in Release : Redeploy(c, r) \/ Verify(c, r)
    PROVE  TypeOK'
  <1>0. Instance \cup Release = Release /\ req[c] \in Request /\ Live \subseteq Release
    BY Ranges DEF TypeOK, Request, Live
  <1>1. CASE DeployEnv(c)
    <2>1. PICK todo \in SUBSET Release : CreateBatch(c, 0, todo)
      BY <1>1, <1>0 DEF DeployEnv
    <2> QED
      BY <1>1, <2>1, Ranges, CreateBatchType DEF DeployEnv, TypeOK
  <1>2. ASSUME NEW b \in Batch, RollbackEnv(c, b) PROVE TypeOK'
    <2> DEFINE bad == {r \in Children(b) : rel[r].status \notin {"draft", "failed", "rolled_back"}}
    <2>1. [Idle EXCEPT !.pc = "guard", !.of = b, !.todo = bad] \in Request
      BY <1>0, IdleType, Literals, Ranges, ZenonT(40) DEF Request, Children
    <2>2. req' = [req EXCEPT ![c] = [Idle EXCEPT !.pc = "guard", !.of = b, !.todo = bad]]
      BY <1>2, ZenonT(40) DEF RollbackEnv
    <2>3. req' \in [Client -> Request]
      BY <2>1, <2>2, RequestType
    <2> QED
      BY <1>2, <2>3, ZenonT(40) DEF RollbackEnv, TypeOK
  <1>3. CASE RollbackGuard(c)
    <2>1. "plan" \in HandlerPC
      BY Literals
    <2>2. CASE req' = [req EXCEPT ![c] = Idle]
      BY <1>3, <2>2, IdleType, RequestType DEF RollbackGuard, TypeOK
    <2>3. CASE req' = [req EXCEPT ![c].pc = "plan"]
      <3>1. req' \in [Client -> Request]
        BY <2>1, <2>3 DEF TypeOK, Request
      <3> QED
        BY <1>3, <3>1 DEF RollbackGuard, TypeOK
    <2> QED
      BY <1>3, <2>2, <2>3 DEF RollbackGuard
  <1>4. CASE RollbackPlan(c)
    <2>1. CASE CreateBatch(c, req[c].of, req[c].todo)
      <3>1. req[c].of \in 0..MaxBatches /\ req[c].todo \in SUBSET Release
        BY <1>0 DEF Request
      <3> QED
        BY <1>4, <2>1, <3>1, CreateBatchType DEF RollbackPlan, TypeOK
    <2>2. CASE req' = [req EXCEPT ![c] = Idle] /\ UNCHANGED batch
      BY <1>4, <2>2, IdleType, RequestType DEF RollbackPlan, TypeOK
    <2> QED
      BY <1>4, <2>1, <2>2 DEF RollbackPlan
  <1>5. CASE DraftChild(c)
    <2>1. PICK x \in req[c].todo, r \in Release :
            /\ rel' = [rel EXCEPT ![r] =
                [status |-> "draft", batch |-> req[c].batch,
                 started |-> FALSE,
                 inst |-> IF req[c].of = 0 THEN x ELSE rel[x].inst,
                 prev |-> IF req[c].of = 0 THEN 0 ELSE x]]
            /\ req' = [req EXCEPT ![c].pc = "deploy", ![c].rel = r, ![c].todo = @ \ {x}]
      BY <1>5 DEF DraftChild
    <2>2. /\ req[c].batch \in 0..MaxBatches /\ x \in Release
          /\ req[c].of = 0 => x \in Instance
      BY <1>0, <1>5 DEF Request, DraftChild, HandlersInv, HandlerOK
    <2>3. [status |-> "draft", batch |-> req[c].batch, started |-> FALSE,
           inst |-> IF req[c].of = 0 THEN x ELSE rel[x].inst,
           prev |-> IF req[c].of = 0 THEN 0 ELSE x] \in ReleaseRow
      BY <2>2, Literals, Ranges DEF ReleaseRow, TypeOK
    <2>4. rel' \in [Release -> ReleaseRow]
      BY <2>1, <2>3 DEF TypeOK
    <2>5. req' \in [Client -> Request]
      <3>1. "deploy" \in HandlerPC /\ r \in 0..MaxReleases
        BY Literals, Ranges
      <3>2. req[c].todo \ {x} \in SUBSET (Instance \cup Release)
        BY <1>0 DEF Request
      <3>3. [req[c] EXCEPT !.pc = "deploy", !.rel = r, !.todo = req[c].todo \ {x}] \in Request
        BY <1>0, <3>1, <3>2 DEF Request
      <3>4. req' = [req EXCEPT ![c] = [req[c] EXCEPT !.pc = "deploy", !.rel = r,
                                                     !.todo = req[c].todo \ {x}]]
        BY <1>0, <2>1, ZenonT(60) DEF TypeOK, Request
      <3> QED
        BY <3>3, <3>4, RequestType
    <2> QED
      BY <1>5, <2>4, <2>5 DEF DraftChild, TypeOK
  <1>6. CASE DraftFails(c)
    <2>1. PICK x \in req[c].todo : req' = [req EXCEPT ![c].todo = @ \ {x}]
      BY <1>6 DEF DraftFails
    <2>2. req' \in [Client -> Request]
      BY <2>1 DEF TypeOK, Request
    <2> QED
      BY <1>6, <2>2 DEF DraftFails, TypeOK
  <1>7. ASSUME NEW pc \in HandlerPC, req' = [req EXCEPT ![c].pc = pc, ![c].rel = 0]
        PROVE  req' \in [Client -> Request]
    BY <1>7, Ranges, ZenonT(60) DEF TypeOK, Request
  <1>8. "fan" \in HandlerPC /\ "rolling" \in HandlerPC /\ "write" \in HandlerPC
    BY Literals
  <1>9. CASE DeployChild(c)
    <2>1. req[c].rel \in Release
      BY <1>0, <1>9 DEF DeployChild, HandlersInv, HandlerOK
    <2>2. req' \in [Client -> Request]
      <3>1. CASE req' = [req EXCEPT ![c].pc = "fan", ![c].rel = 0]
        BY <1>7, <1>8, <3>1
      <3>2. CASE req' = [req EXCEPT ![c].pc = "rolling"]
        BY <1>8, <3>2 DEF TypeOK, Request
      <3> QED
        BY <1>9, <3>1, <3>2 DEF DeployChild
    <2>3. StartRun(req[c].rel)
      BY <1>9 DEF DeployChild
    <2> QED
      BY <1>9, <2>1, <2>2, <2>3, StartRunType DEF DeployChild, TypeOK
  <1>10. CASE DeployChildFails(c)
    <2>1. rel' \in [Release -> ReleaseRow]
      BY <1>10, Literals, UpdateStatusType DEF DeployChildFails
    <2>2. req' \in [Client -> Request]
      BY <1>7, <1>8, <1>10 DEF DeployChildFails
    <2> QED
      BY <1>10, <2>1, <2>2 DEF DeployChildFails, TypeOK
  <1>11. CASE MarkRollingBack(c)
    <2>1. rel' \in [Release -> ReleaseRow]
      BY <1>11, Literals, UpdateStatusType DEF MarkRollingBack
    <2>2. req' \in [Client -> Request]
      BY <1>7, <1>8, <1>11 DEF MarkRollingBack
    <2> QED
      BY <1>11, <2>1, <2>2 DEF MarkRollingBack, TypeOK
  <1>12. CASE RequestCut(c)
    <2>1. failures' \in 0..MaxFailures
      BY <1>12, ConstantsAssumption DEF RequestCut, TypeOK
    <2> QED
      BY <1>12, <2>1, IdleType, RequestType DEF RequestCut, TypeOK
  <1>13. CASE ReconcileRead(c)
    <2>1. req' \in [Client -> Request]
      BY <1>8, <1>13, AggregateType, ZenonT(60) DEF ReconcileRead, TypeOK, Request
    <2> QED
      BY <1>13, <2>1 DEF ReconcileRead, TypeOK
  <1>14. CASE ReconcileWrite(c)
    <2>1. batch' \in [Batch -> BatchRow]
      BY <1>0, <1>14, ZenonT(40) DEF ReconcileWrite, TypeOK, BatchRow, Request
    <2> QED
      BY <1>14, <2>1, IdleType, RequestType DEF ReconcileWrite, TypeOK
  <1>15. ASSUME NEW r \in Release, Verify(c, r) PROVE TypeOK'
    <2>1. [Idle EXCEPT !.pc = "verify", !.rel = r] \in Request
      BY IdleType, Literals, Ranges DEF Request
    <2> QED
      BY <1>15, <2>1, RequestType DEF Verify, TypeOK
  <1>16. CASE VerifyWrite(c)
    <2>1. rel' \in [Release -> ReleaseRow]
      BY <1>16, Literals, UpdateStatusType DEF VerifyWrite
    <2> QED
      BY <1>16, <2>1, IdleType, RequestType DEF VerifyWrite, TypeOK
  <1>17. ASSUME NEW r \in Release, Redeploy(c, r) PROVE TypeOK'
    BY <1>17, StartRunType DEF Redeploy, TypeOK
  <1>18. CASE MarkLost(c)
    <2>1. failures' \in 0..MaxFailures
      BY <1>18, ConstantsAssumption DEF MarkLost, TypeOK
    <2>2. req' \in [Client -> Request]
      BY <1>7, <1>8, <1>18 DEF MarkLost
    <2> QED
      BY <1>18, <2>1, <2>2 DEF MarkLost, TypeOK
  <1> QED
    BY <1>1, <1>2, <1>3, <1>4, <1>5, <1>6, <1>9, <1>10, <1>11, <1>12, <1>13, <1>14, <1>15,
       <1>16, <1>17, <1>18 DEF HandlerStep

LEMMA RunType ==
    ASSUME TypeOK, NEW r \in Release, RunStep(r) \/ RunMarkLost(r) \/ RunCut(r)
    PROVE  TypeOK'
  <1>1. {"prev", "read", "write"} \subseteq RunPC
    BY Literals
  <1>2. ASSUME NEW pc \in RunPC, run' = [run EXCEPT ![r].pc = pc]
        PROVE  run' \in [Release -> Run]
    BY <1>2 DEF TypeOK, Run
  <1>3. CASE RunSucceeds(r) \/ RunFails(r)
    <2>1. rel' \in [Release -> ReleaseRow]
      BY <1>3, Literals, UpdateStatusType DEF RunSucceeds, RunFails
    <2> QED
      BY <1>1, <1>2, <1>3, <2>1 DEF RunSucceeds, RunFails, TypeOK
  <1>4. CASE MarkRolledBack(r)
    <2>1. rel' \in [Release -> ReleaseRow]
      BY <1>4, Literals, UpdateStatusType DEF MarkRolledBack, TypeOK
    <2> QED
      BY <1>1, <1>2, <1>4, <2>1 DEF MarkRolledBack, TypeOK
  <1>5. CASE RunReconcileRead(r)
    <2>1. run' \in [Release -> Run]
      <3>1. [pc |-> "write", agg |-> Aggregate(rel[r].batch)] \in Run
        BY <1>1, AggregateType DEF Run
      <3> QED
        BY <1>5, <3>1 DEF RunReconcileRead, TypeOK
    <2> QED
      BY <1>5, <2>1 DEF RunReconcileRead, TypeOK
  <1>6. CASE RunReconcileWrite(r)
    <2>1. batch' \in [Batch -> BatchRow]
      <3>1. run[r].agg \in Aggregates
        BY DEF TypeOK, Run
      <3> QED
        BY <1>6, <3>1 DEF RunReconcileWrite, TypeOK, BatchRow
    <2>2. run' \in [Release -> Run]
      BY <1>6, NoRunType DEF RunReconcileWrite, TypeOK
    <2>3. lock' \in [Instance -> 0..MaxReleases]
      BY <1>6, Ranges DEF RunReconcileWrite, TypeOK
    <2> QED
      BY <1>6, <2>1, <2>2, <2>3 DEF RunReconcileWrite, TypeOK
  <1>7. ASSUME failures < MaxFailures, failures' = failures + 1 PROVE failures' \in 0..MaxFailures
    BY <1>7, ConstantsAssumption DEF TypeOK
  <1>8. CASE RunMarkLost(r)
    BY <1>1, <1>2, <1>7, <1>8 DEF RunMarkLost, TypeOK
  <1>9. CASE RunCut(r)
    <2>1. run' \in [Release -> Run]
      BY <1>9, NoRunType DEF RunCut, TypeOK
    <2>2. lock' \in [Instance -> 0..MaxReleases]
      BY <1>9, Ranges DEF RunCut, TypeOK
    <2> QED
      BY <1>7, <1>9, <2>1, <2>2 DEF RunCut, TypeOK
  <1> QED
    BY <1>3, <1>4, <1>5, <1>6, <1>8, <1>9 DEF RunStep

LEMMA NextType == TypeOK /\ HandlersInv /\ [Next]_vars => TypeOK'
  <1>1. TypeOK /\ UNCHANGED vars => TypeOK'
    BY DEF TypeOK, vars
  <1> QED
    BY <1>1, ClientType, RunType DEF Next
-----------------------------------------------------------------------------
(***************************************************************************)
(* The invariant is inductive.                                             *)
(***************************************************************************)
LEMMA InitInv == Init => Inv
  <1> SUFFICES ASSUME Init PROVE Inv
    OBVIOUS
  <1>1. \A r \in Release : /\ rel[r].prev = 0
                           /\ rel[r].status \in {"verified", "none"}
                           /\ rel[r].status # "none" => r \in Instance /\ rel[r].inst = r
                           /\ rel[r].started => rel[r].status # "none"
    BY DEF Init
  <1>2. RowsInv
    BY <1>1 DEF RowsInv, Live, Begun
  <1>3. RunsInv
    BY <1>1 DEF Init, RunsInv, NoRun
  <1>4. HandlersInv
    BY DEF Init, HandlersInv, HandlerOK, Idle
  <1>5. RollingBackHasReplacement
    BY <1>1 DEF RollingBackHasReplacement
  <1>6. OrphansBounded
    <2>1. Orphans = {}
      BY <1>1 DEF Orphans
    <2> QED
      BY <2>1, FS_EmptySet DEF OrphansBounded, Init
  <1> QED
    BY <1>2, <1>3, <1>4, <1>5, <1>6 DEF Inv

\* Rows only move forward: what exists keeps its instance and what it replaces,
\* and what was started stays so.
Forward ==
    /\ Live \subseteq Live'
    /\ Begun \subseteq Begun'
    /\ \A r \in Live : rel'[r].inst = rel[r].inst /\ rel'[r].prev = rel[r].prev

\* A handler stays in order while the rows move forward.
LEMMA HandlerMonotone ==
    ASSUME NEW q, NEW live, NEW begun, NEW live2, NEW begun2,
           HandlerOK(q, live, begun), live \subseteq live2, begun \subseteq begun2
    PROVE  HandlerOK(q, live2, begun2)
  BY DEF HandlerOK

LEMMA HandlersKeep ==
    ASSUME HandlersInv, Forward, NEW c \in Client,
           \A d \in Client \ {c} : req'[d] = req[d],
           HandlerOK(req'[c], Live', Begun')
    PROVE  HandlersInv'
  <1> SUFFICES ASSUME NEW d \in Client, d # c PROVE HandlerOK(req[d], Live', Begun')
    BY DEF HandlersInv
  <1>1. HandlerOK(req[d], Live, Begun) /\ Live \subseteq Live' /\ Begun \subseteq Begun'
    BY DEF HandlersInv, Forward
  <1> QED
    BY <1>1, HandlerMonotone

LEMMA HandlersKeepAll ==
    ASSUME HandlersInv, Forward, UNCHANGED req
    PROVE  HandlersInv'
  <1> SUFFICES ASSUME NEW d \in Client PROVE HandlerOK(req[d], Live', Begun')
    BY DEF HandlersInv
  <1>1. HandlerOK(req[d], Live, Begun) /\ Live \subseteq Live' /\ Begun \subseteq Begun'
    BY DEF HandlersInv, Forward
  <1> QED
    BY <1>1, HandlerMonotone

LEMMA IdleOK ==
    ASSUME NEW live, NEW begun
    PROVE  HandlerOK(Idle, live, begun)
  BY DEF HandlerOK, Idle

\* A release that already has its replacement keeps it.
LEMMA ReplacementKept ==
    ASSUME RowsInv, RollingBackHasReplacement, Forward,
           NEW r \in Release, rel[r].status = "rolling_back"
    PROVE  \E n \in Release : rel'[n].prev = r /\ rel'[n].started
  <1>1. PICK n \in Release : rel[n].prev = r /\ rel[n].started
    BY DEF RollingBackHasReplacement
  <1>2. n \in Begun /\ n \in Live
    BY <1>1 DEF Begun, RowsInv
  <1> QED
    BY <1>1, <1>2 DEF Forward, Begun

LEMMA RollingKeep ==
    ASSUME RowsInv, RollingBackHasReplacement, Forward,
           \A r \in Release : rel'[r].status = "rolling_back" => rel[r].status = "rolling_back"
    PROVE  RollingBackHasReplacement'
  BY ReplacementKept DEF RollingBackHasReplacement

\* The rows nobody is about to deploy do not multiply.
LEMMA OrphansShrink ==
    ASSUME TypeOK, OrphansBounded, Orphans' \subseteq Orphans, UNCHANGED failures
    PROVE  OrphansBounded'
  <1>1. Orphans \in SUBSET Release /\ Orphans' \in SUBSET Orphans
    BY DEF Orphans
  <1>2. IsFiniteSet(Orphans) /\ Cardinality(Orphans) \in Int
    BY <1>1, Counts
  <1>3. Cardinality(Orphans') <= Cardinality(Orphans) /\ IsFiniteSet(Orphans')
    BY <1>1, <1>2, FS_Subset
  <1>4. Cardinality(Orphans') \in Nat
    BY <1>3, FS_CardinalityType
  <1> QED
    BY <1>2, <1>3, <1>4 DEF OrphansBounded, TypeOK

LEMMA OrphansGrowByOne ==
    ASSUME TypeOK, OrphansBounded, NEW x, Orphans' \subseteq Orphans \cup {x},
           failures' = failures + 1
    PROVE  OrphansBounded'
  <1>1. Orphans \in SUBSET Release
    BY DEF Orphans
  <1>2. IsFiniteSet(Orphans) /\ Cardinality(Orphans) \in Int
    BY <1>1, Counts
  <1>3. IsFiniteSet(Orphans \cup {x}) /\ Cardinality(Orphans \cup {x}) <= Cardinality(Orphans) + 1
    BY <1>2, FS_AddElement
  <1>4. Cardinality(Orphans') <= Cardinality(Orphans \cup {x}) /\ IsFiniteSet(Orphans')
    BY <1>3, FS_Subset
  <1>5. Cardinality(Orphans') \in Nat /\ Cardinality(Orphans \cup {x}) \in Nat
    BY <1>3, <1>4, FS_CardinalityType
  <1> QED
    BY <1>2, <1>3, <1>4, <1>5 DEF OrphansBounded, TypeOK

\* Steps that touch no release row.
LEMMA SameRows ==
    ASSUME RowsInv, UNCHANGED rel
    PROVE  Forward /\ RowsInv' /\ Live' = Live /\ Begun' = Begun
  <1>1. Live' = Live /\ Begun' = Begun
    BY DEF Live, Begun
  <1>2. Forward
    BY <1>1 DEF Forward
  <1>3. RowsInv'
    BY <1>1 DEF RowsInv
  <1> QED
    BY <1>1, <1>2, <1>3

\* A status write on a row that exists, or on none.
LEMMA StatusWrite ==
    ASSUME TypeOK, RowsInv, NEW r, r \in Live \/ r \notin Release,
           NEW status, status # "none", rel' = UpdateStatus(r, status)
    PROVE  /\ Forward /\ RowsInv' /\ Live' = Live /\ Begun' = Begun
           /\ \A q \in Release \ {r} : rel'[q] = rel[q]
           /\ r \in Live => rel'[r].status = status
  <1>1. \A q \in Release : /\ rel'[q].status = IF q = r THEN status ELSE rel[q].status
                           /\ rel'[q].inst = rel[q].inst
                           /\ rel'[q].prev = rel[q].prev
                           /\ rel'[q].started = rel[q].started
    BY DEF UpdateStatus, TypeOK, ReleaseRow
  <1>2. Live' = Live
    BY <1>1 DEF Live
  <1>3. Begun' = Begun
    BY <1>1 DEF Begun
  <1>4. Forward
    BY <1>1, <1>2, <1>3 DEF Forward, Live
  <1>5. RowsInv'
    BY <1>1, <1>2, <1>3 DEF RowsInv, Live
  <1>6. \A q \in Release \ {r} : rel'[q] = rel[q]
    BY DEF UpdateStatus, TypeOK
  <1> QED
    BY <1>1, <1>2, <1>3, <1>4, <1>5, <1>6 DEF Live

\* Runs are not touched by a status write.
LEMMA RunsKeep ==
    ASSUME RunsInv, Forward, Live' = Live, UNCHANGED <<lock, run>>
    PROVE  RunsInv'
  BY DEF RunsInv, Forward

\* A row only reads deploying without a run if it did so before.
LEMMA DrivenKeep ==
    ASSUME UNCHANGED run,
           \A r \in Release : rel'[r].status = "deploying" => rel[r].status = "deploying"
    PROVE  Undriven' \subseteq Undriven
  BY DEF Undriven

\* Deploy takes the lock of an instance nobody holds.
LEMMA StartRunInv ==
    ASSUME TypeOK, RowsInv, RunsInv, NEW r \in Live, Deployable(r), StartRun(r)
    PROVE  /\ Forward /\ RowsInv' /\ RunsInv' /\ r \in Begun'
           /\ rel'[r].status = "deploying"
           /\ \A q \in Release \ {r} : rel'[q] = rel[q]
           /\ Undriven' \subseteq Undriven
  <1>1. r \in Release /\ rel[r].inst \in Instance /\ lock[rel[r].inst] = 0
    BY DEF Live, RowsInv, Deployable
  <1>2. \A q \in Release \ {r} : rel'[q] = rel[q]
    BY DEF StartRun, TypeOK
  <1>3. /\ rel'[r].status = "deploying" /\ rel'[r].started = TRUE
        /\ rel'[r].inst = rel[r].inst /\ rel'[r].prev = rel[r].prev
    BY <1>1 DEF StartRun, TypeOK, ReleaseRow
  <1>4. Live' = Live
    BY <1>2, <1>3 DEF Live
  <1>5. r \in Begun' /\ Begun \subseteq Begun' /\ Begun' \subseteq Begun \cup {r}
    BY <1>1, <1>2, <1>3 DEF Begun
  <1>6. Forward
    BY <1>2, <1>3, <1>4, <1>5 DEF Forward, Live
  <1>7. RowsInv'
    <2>1. (\A q \in Live : rel[q].inst \in Instance)'
      BY <1>4, <1>6 DEF RowsInv, Forward
    <2>2. Begun' \subseteq Live'
      BY <1>4, <1>5 DEF RowsInv
    <2>3. (\A q \in Release : rel[q].prev # 0 => rel[q].prev \in Live)'
      BY <1>2, <1>3, <1>4 DEF RowsInv
    <2> QED
      BY <2>1, <2>2, <2>3 DEF RowsInv
  <1>a. run'[r].pc = "running" /\ \A q \in Release \ {r} : run'[q] = run[q]
    BY <1>1 DEF StartRun, TypeOK, Run
  <1>b. Undriven' \subseteq Undriven
    BY <1>2, <1>a DEF Undriven
  <1>8. RunsInv'
    <2>1. \A q \in Release : run[q].pc # "idle" => rel[q].inst # rel[r].inst /\ q # r
      BY <1>1, Ranges DEF RunsInv
    <2>2. /\ \A i \in Instance \ {rel[r].inst} : lock'[i] = lock[i]
          /\ lock'[rel[r].inst] = r
      BY <1>1 DEF StartRun, TypeOK
    <2> SUFFICES ASSUME NEW q \in Release, run'[q].pc # "idle"
                 PROVE  q \in Live' /\ lock'[rel'[q].inst] = q
      BY DEF RunsInv
    <2>3. CASE q = r
      BY <1>3, <1>4, <2>2, <2>3
    <2>4. CASE q # r
      <3>1. run[q].pc # "idle" /\ q \in Live /\ lock[rel[q].inst] = q
        BY <1>a, <2>4 DEF RunsInv
      <3>2. rel[q].inst \in Instance /\ rel[q].inst # rel[r].inst /\ rel'[q] = rel[q]
        BY <1>2, <2>1, <2>4, <3>1 DEF RowsInv
      <3> QED
        BY <1>4, <2>2, <3>1, <3>2
    <2> QED
      BY <2>3, <2>4
  <1> QED
    BY <1>2, <1>3, <1>5, <1>6, <1>7, <1>8, <1>b

\* No row becomes a draft or loses its run, and the handler that moves on leaves
\* none behind.
LEMMA OrphansKeep ==
    ASSUME TypeOK, OrphansBounded, UNCHANGED failures, NEW c \in Client,
           \A d \in Client \ {c} : req'[d] = req[d],
           \A r \in Release : rel'[r].status = "draft" => rel[r].status = "draft",
           req[c].pc = "deploy" => rel'[req[c].rel].status # "draft",
           Undriven' \subseteq Undriven
    PROVE  OrphansBounded'
  <1>1. Orphans' \subseteq Orphans
    <2> SUFFICES ASSUME NEW r \in Orphans' PROVE r \in Orphans
      OBVIOUS
    <2>1. CASE r \in Undriven'
      BY <2>1 DEF Undriven, Orphans
    <2>2. CASE r \notin Undriven'
      <3>1. r \in Release /\ rel'[r].status = "draft" /\ rel[r].status = "draft"
        BY <2>2 DEF Orphans, Undriven
      <3>2. \A d \in Client : req'[d].pc # "deploy" \/ req'[d].rel # r
        BY <3>1 DEF Orphans
      <3>3. \A d \in Client : req[d].pc # "deploy" \/ req[d].rel # r
        BY <3>1, <3>2
      <3> QED
        BY <3>1, <3>3 DEF Orphans
    <2> QED
      BY <2>1, <2>2
  <1> QED
    BY <1>1, OrphansShrink

LEMMA OrphansKeepAll ==
    ASSUME TypeOK, OrphansBounded, UNCHANGED <<failures, req>>,
           \A r \in Release : rel'[r].status = "draft" => rel[r].status = "draft",
           Undriven' \subseteq Undriven
    PROVE  OrphansBounded'
  <1>1. Orphans' \subseteq Orphans
    BY DEF Orphans, Undriven
  <1> QED
    BY <1>1, OrphansShrink

\* A step that gives up the work of one release, x.
LEMMA OrphansLeft ==
    ASSUME TypeOK, OrphansBounded, NEW x, UNCHANGED rel, failures' = failures + 1,
           \A r \in Release \ {x} : run'[r] = run[r],
           \A d \in Client : req'[d] = req[d] \/ req[d].rel = x
    PROVE  OrphansBounded'
  <1>1. Orphans' \subseteq Orphans \cup {x}
    <2> SUFFICES ASSUME NEW n \in Orphans', n # x PROVE n \in Orphans
      OBVIOUS
    <2>1. n \in Release /\ run'[n] = run[n]
      BY DEF Orphans
    <2>2. \A d \in Client : req'[d].pc # "deploy" \/ req'[d].rel # n =>
                                req[d].pc # "deploy" \/ req[d].rel # n
      OBVIOUS
    <2> QED
      BY <2>1, <2>2 DEF Orphans
  <1> QED
    BY <1>1, OrphansGrowByOne

\* A handler that moves on without touching a row, a lock or a run.
LEMMA QuietClient ==
    ASSUME TypeOK, Inv, NEW c \in Client, UNCHANGED <<rel, lock, run, failures>>,
           req[c].pc # "deploy",
           \A d \in Client \ {c} : req'[d] = req[d],
           HandlerOK(req'[c], Live, Begun)
    PROVE  Inv'
  <1>1. Forward /\ RowsInv' /\ Live' = Live /\ Begun' = Begun
    BY SameRows DEF Inv
  <1>2. RunsInv'
    BY <1>1, RunsKeep DEF Inv
  <1>3. HandlersInv'
    BY <1>1, HandlersKeep DEF Inv
  <1>4. RollingBackHasReplacement'
    BY <1>1, RollingKeep DEF Inv
  <1>5. OrphansBounded'
    BY OrphansKeep, DrivenKeep DEF Inv
  <1> QED
    BY <1>1, <1>2, <1>3, <1>4, <1>5 DEF Inv

\* A handler that writes a status other than draft, deploying or rolling_back to
\* a row that exists, the one it was to deploy if there is such a row.
LEMMA WritingClient ==
    ASSUME TypeOK, Inv, NEW c \in Client, UNCHANGED <<lock, run, failures>>,
           NEW r \in Live, NEW status \in {"failed", "verified"}, rel' = UpdateStatus(r, status),
           req[c].pc = "deploy" => req[c].rel = r,
           \A d \in Client \ {c} : req'[d] = req[d],
           HandlerOK(req'[c], Live, Begun)
    PROVE  Inv'
  <1>1. /\ Forward /\ RowsInv' /\ Live' = Live /\ Begun' = Begun
        /\ \A q \in Release \ {r} : rel'[q] = rel[q]
        /\ rel'[r].status = status
    BY StatusWrite DEF Inv
  <1>2. RunsInv'
    BY <1>1, RunsKeep DEF Inv
  <1>3. HandlersInv'
    BY <1>1, HandlersKeep DEF Inv
  <1>4. RollingBackHasReplacement'
    BY <1>1, RollingKeep DEF Inv
  <1>5. Undriven' \subseteq Undriven
    BY <1>1, DrivenKeep
  <1>6. OrphansBounded'
    BY <1>1, <1>5, OrphansKeep DEF Inv
  <1> QED
    BY <1>1, <1>2, <1>3, <1>4, <1>6 DEF Inv

\* The handler starts with a fresh batch.
LEMMA CreateBatchInv ==
    ASSUME TypeOK, Inv, NEW c \in Client, NEW of, NEW todo, CreateBatch(c, of, todo),
           UNCHANGED <<rel, lock, run, failures>>, req[c].pc # "deploy",
           of # 0 => todo \subseteq Live,
           of = 0 => todo \subseteq Instance
    PROVE  Inv'
  <1>1. PICK b \in Batch :
           req' = [req EXCEPT ![c] = [Idle EXCEPT !.pc = "fan", !.batch = b,
                                                  !.of = of, !.todo = todo]]
    BY DEF CreateBatch
  <1> DEFINE q == [Idle EXCEPT !.pc = "fan", !.batch = b, !.of = of, !.todo = todo]
  <1>2. q.pc = "fan" /\ q.of = of /\ q.todo = todo
    BY DEF Idle
  <1>3. HandlerOK(q, Live, Begun)
    BY <1>2 DEF HandlerOK
  <1>4. req'[c] = q /\ \A d \in Client \ {c} : req'[d] = req[d]
    BY <1>1 DEF TypeOK
  <1> QED
    BY <1>3, <1>4, QuietClient

LEMMA ClientInv ==
    ASSUME TypeOK, Inv, NEW c \in Client,
           \/ DeployEnv(c) \/ HandlerStep(c) \/ RequestCut(c) \/ MarkLost(c)
           \/ \E b \in Batch : RollbackEnv(c, b)
           \/ \E r \in Release : Redeploy(c, r) \/ Verify(c, r)
    PROVE  Inv'
  <1>0. HandlerOK(req[c], Live, Begun) /\ HandlerOK(Idle, Live, Begun) /\ Live \subseteq Release
    BY IdleOK DEF Inv, HandlersInv, Live
  <1>i. ASSUME req' = [req EXCEPT ![c] = Idle]
        PROVE  req'[c] = Idle /\ \A d \in Client \ {c} : req'[d] = req[d]
    BY <1>i DEF TypeOK
  <1>f. ASSUME req' = [req EXCEPT ![c].pc = "fan", ![c].rel = 0],
               req[c].pc \in {"deploy", "rolling"}
        PROVE  HandlerOK(req'[c], Live, Begun) /\ \A d \in Client \ {c} : req'[d] = req[d]
    <2>1. req'[c].pc = "fan" /\ req'[c].of = req[c].of /\ req'[c].todo = req[c].todo
      BY <1>f DEF TypeOK, Request
    <2>2. \A d \in Client \ {c} : req'[d] = req[d]
      BY <1>f DEF TypeOK
    <2> QED
      BY <1>0, <1>f, <2>1, <2>2 DEF HandlerOK
  <1>1. CASE DeployEnv(c)
    <2>1. PICK todo \in {Instance} \cup {{i} : i \in Instance} : CreateBatch(c, 0, todo)
      BY <1>1 DEF DeployEnv
    <2>2. todo \subseteq Instance
      OBVIOUS
    <2>3. UNCHANGED <<rel, lock, run, failures>> /\ req[c].pc # "deploy"
      BY <1>1 DEF DeployEnv
    <2> QED
      BY <2>1, <2>2, <2>3, CreateBatchInv
  <1>2. ASSUME NEW b \in Batch, RollbackEnv(c, b) PROVE Inv'
    <2> DEFINE bad == {r \in Children(b) : rel[r].status \notin {"draft", "failed", "rolled_back"}}
               q == [Idle EXCEPT !.pc = "guard", !.of = b, !.todo = bad]
    <2>1. bad \subseteq Live /\ b # 0
      BY Ranges DEF Children, Live
    <2>2. req' = [req EXCEPT ![c] = q]
      BY <1>2, ZenonT(40) DEF RollbackEnv
    <2> HIDE DEF bad
    <2>3. q.pc = "guard" /\ q.of = b /\ q.todo = bad
      BY DEF Idle
    <2>4. HandlerOK(q, Live, Begun)
      BY <2>1, <2>3 DEF HandlerOK
    <2>5. req'[c] = q /\ \A d \in Client \ {c} : req'[d] = req[d]
      BY <2>2 DEF TypeOK
    <2> QED
      BY <1>2, <2>4, <2>5, QuietClient, ZenonT(40) DEF RollbackEnv
  <1>3. CASE RollbackGuard(c)
    <2>1. CASE req' = [req EXCEPT ![c] = Idle]
      BY <1>0, <1>i, <1>3, <2>1, QuietClient DEF RollbackGuard
    <2>2. CASE req' = [req EXCEPT ![c].pc = "plan"]
      <3>1. req'[c].pc = "plan" /\ req'[c].of = req[c].of /\ req'[c].todo = req[c].todo
        BY <2>2 DEF TypeOK, Request
      <3>2. \A d \in Client \ {c} : req'[d] = req[d]
        BY <2>2 DEF TypeOK
      <3>3. HandlerOK(req'[c], Live, Begun)
        BY <1>0, <1>3, <3>1 DEF HandlerOK, RollbackGuard
      <3> QED
        BY <1>3, <3>2, <3>3, QuietClient DEF RollbackGuard
    <2> QED
      BY <1>3, <2>1, <2>2 DEF RollbackGuard
  <1>4. CASE RollbackPlan(c)
    <2>1. CASE CreateBatch(c, req[c].of, req[c].todo)
      <3>1. req[c].of # 0 /\ req[c].todo \subseteq Live
        BY <1>0, <1>4 DEF HandlerOK, RollbackPlan
      <3> QED
        BY <1>4, <2>1, <3>1, CreateBatchInv DEF RollbackPlan
    <2>2. CASE req' = [req EXCEPT ![c] = Idle]
      BY <1>0, <1>i, <1>4, <2>2, QuietClient DEF RollbackPlan
    <2> QED
      BY <1>4, <2>1, <2>2 DEF RollbackPlan
  <1>5. CASE DraftChild(c)
    <2>1. PICK x \in req[c].todo, r \in Release :
            /\ IsNextRelease(r)
            /\ rel' = [rel EXCEPT ![r] =
                [status |-> "draft", batch |-> req[c].batch,
                 started |-> FALSE,
                 inst |-> IF req[c].of = 0 THEN x ELSE rel[x].inst,
                 prev |-> IF req[c].of = 0 THEN 0 ELSE x]]
            /\ req' = [req EXCEPT ![c].pc = "deploy", ![c].rel = r, ![c].todo = @ \ {x}]
      BY <1>5 DEF DraftChild
    <2>2. r \notin Live /\ rel[r].status = "none"
      BY <2>1 DEF IsNextRelease, Live
    <2>3. /\ req[c].of # 0 => req[c].todo \subseteq Live
          /\ req[c].of = 0 => req[c].todo \subseteq Instance
      BY <1>0, <1>5 DEF DraftChild, HandlerOK
    <2>4. \A n \in Release \ {r} : rel'[n] = rel[n]
      BY <2>1 DEF TypeOK
    <2>5. /\ rel'[r].status = "draft" /\ rel'[r].started = FALSE
          /\ rel'[r].inst \in Instance
          /\ rel'[r].prev # 0 => rel'[r].prev \in Live
      <3>1. /\ rel'[r].status = "draft" /\ rel'[r].started = FALSE
            /\ rel'[r].inst = IF req[c].of = 0 THEN x ELSE rel[x].inst
            /\ rel'[r].prev = IF req[c].of = 0 THEN 0 ELSE x
        BY <2>1 DEF TypeOK
      <3>2. x \in Live => rel[x].inst \in Instance
        BY DEF Inv, RowsInv
      <3> QED
        BY <2>3, <3>1, <3>2
    <2>6. Live' = Live \cup {r} /\ Begun' = Begun
      <3>1. r \notin Begun
        BY <2>2 DEF Inv, RowsInv
      <3>2. Live' = Live \cup {r}
        BY <2>2, <2>4, <2>5 DEF Live
      <3>3. Begun' = Begun
        BY <2>4, <2>5, <3>1 DEF Begun
      <3> QED
        BY <3>2, <3>3
    <2>7. Forward
      BY <1>0, <2>2, <2>4, <2>6 DEF Forward
    <2>8. RowsInv'
      <3>1. (\A n \in Live : rel[n].inst \in Instance)'
        BY <1>0, <2>2, <2>4, <2>5, <2>6 DEF Inv, RowsInv
      <3>2. Begun' \subseteq Live'
        BY <2>6 DEF Inv, RowsInv
      <3>3. (\A n \in Release : rel[n].prev # 0 => rel[n].prev \in Live)'
        BY <2>4, <2>5, <2>6 DEF Inv, RowsInv
      <3> QED
        BY <3>1, <3>2, <3>3 DEF RowsInv
    <2>9. UNCHANGED <<lock, run, failures>>
      BY <1>5 DEF DraftChild
    <2>10. RunsInv'
      <3>1. run[r].pc = "idle"
        BY <2>2 DEF Inv, RunsInv
      <3> QED
        BY <2>4, <2>6, <2>9, <3>1 DEF Inv, RunsInv
    <2>11. /\ req'[c].pc = "deploy" /\ req'[c].rel = r /\ req'[c].of = req[c].of
           /\ req'[c].todo = req[c].todo \ {x}
           /\ \A d \in Client \ {c} : req'[d] = req[d]
      BY <2>1 DEF TypeOK, Request
    <2>12. HandlerOK(req'[c], Live', Begun')
      BY <2>3, <2>6, <2>11 DEF HandlerOK
    <2>13. HandlersInv'
      BY <2>7, <2>11, <2>12, HandlersKeep DEF Inv
    <2>14. RollingBackHasReplacement'
      BY <2>4, <2>5, <2>7, RollingKeep DEF Inv
    <2>15. Orphans' \subseteq Orphans
      <3> SUFFICES ASSUME NEW n \in Orphans' PROVE n \in Orphans
        OBVIOUS
      <3>1. CASE rel'[n].status # "draft"
        <4>1. n \in Release /\ rel'[n].status = "deploying" /\ run[n].pc # "running"
          BY <2>9, <3>1 DEF Orphans
        <4> QED
          BY <2>4, <2>5, <4>1 DEF Orphans
      <3>2. CASE rel'[n].status = "draft"
        <4>1. n \in Release /\ \A d \in Client : req'[d].pc # "deploy" \/ req'[d].rel # n
          BY <3>2 DEF Orphans
        <4>2. n # r
          BY <2>11, <4>1
        <4>3. rel[n].status = "draft"
          BY <2>4, <3>2, <4>1, <4>2
        <4>4. \A d \in Client : req[d].pc # "deploy" \/ req[d].rel # n
          BY <1>5, <2>11, <4>1 DEF DraftChild
        <4> QED
          BY <4>1, <4>3, <4>4 DEF Orphans
      <3> QED
        BY <3>1, <3>2
    <2>16. OrphansBounded'
      BY <2>9, <2>15, OrphansShrink DEF Inv
    <2> QED
      BY <2>8, <2>10, <2>13, <2>14, <2>16 DEF Inv
  <1>6. CASE DraftFails(c)
    <2>1. PICK x \in req[c].todo : req' = [req EXCEPT ![c].todo = @ \ {x}]
      BY <1>6 DEF DraftFails
    <2>2. /\ req'[c].pc = "fan" /\ req'[c].of = req[c].of /\ req'[c].todo = req[c].todo \ {x}
          /\ \A d \in Client \ {c} : req'[d] = req[d]
      BY <1>6, <2>1 DEF TypeOK, Request, DraftFails
    <2>3. HandlerOK(req'[c], Live, Begun)
      BY <1>0, <1>6, <2>2 DEF HandlerOK, DraftFails
    <2> QED
      BY <1>6, <2>2, <2>3, QuietClient DEF DraftFails
  <1>7. CASE DeployChild(c)
    <2> DEFINE r == req[c].rel
    <2>1. r \in Live /\ Deployable(r) /\ StartRun(r) /\ UNCHANGED failures
      BY <1>0, <1>7 DEF DeployChild, HandlerOK
    <2>2. /\ Forward /\ RowsInv' /\ RunsInv' /\ r \in Begun'
          /\ rel'[r].status = "deploying"
          /\ \A n \in Release \ {r} : rel'[n] = rel[n]
          /\ Undriven' \subseteq Undriven
      BY <2>1, StartRunInv DEF Inv
    <2>3. \A d \in Client \ {c} : req'[d] = req[d]
      BY <1>7 DEF DeployChild, TypeOK
    <2>4. HandlerOK(req'[c], Live', Begun')
      <3>1. CASE req' = [req EXCEPT ![c].pc = "fan", ![c].rel = 0]
        <4>1. HandlerOK(req'[c], Live, Begun)
          BY <1>f, <1>7, <3>1 DEF DeployChild
        <4> QED
          BY <2>2, <4>1, HandlerMonotone DEF Forward
      <3>2. CASE req' = [req EXCEPT ![c].pc = "rolling"]
        <4>1. /\ req'[c].pc = "rolling" /\ req'[c].of = req[c].of /\ req'[c].todo = req[c].todo
              /\ req'[c].rel = r
          BY <3>2 DEF TypeOK, Request
        <4>2. HandlerOK(req[c], Live', Begun')
          BY <1>0, <2>2, HandlerMonotone DEF Forward
        <4> QED
          BY <1>7, <2>2, <4>1, <4>2 DEF HandlerOK, DeployChild
      <3> QED
        BY <1>7, <3>1, <3>2 DEF DeployChild
    <2>5. HandlersInv'
      BY <2>2, <2>3, <2>4, HandlersKeep DEF Inv
    <2>6. RollingBackHasReplacement'
      BY <2>2, RollingKeep DEF Inv
    <2>7. OrphansBounded'
      BY <2>1, <2>2, <2>3, OrphansKeep DEF Inv
    <2> QED
      BY <2>2, <2>5, <2>6, <2>7 DEF Inv
  <1>8. CASE DeployChildFails(c)
    <2>1. req[c].rel \in Live
      BY <1>0, <1>8 DEF DeployChildFails, HandlerOK
    <2> QED
      BY <1>f, <1>8, <2>1, WritingClient DEF DeployChildFails
  <1>9. CASE MarkRollingBack(c)
    <2> DEFINE n == req[c].rel
               prev == rel[n].prev
    <2>1. n \in Begun /\ n \in Live
      BY <1>0, <1>9 DEF MarkRollingBack, HandlerOK
    <2>2. prev \in Live \/ prev \notin Release
      BY <1>0, <2>1, Ranges DEF Inv, RowsInv
    <2>3. rel' = UpdateStatus(prev, "rolling_back") /\ UNCHANGED <<lock, run, failures>>
      BY <1>9 DEF MarkRollingBack
    <2>4. /\ Forward /\ RowsInv' /\ Live' = Live /\ Begun' = Begun
          /\ \A q \in Release \ {prev} : rel'[q] = rel[q]
          /\ prev \in Live => rel'[prev].status = "rolling_back"
      BY <2>2, <2>3, StatusWrite DEF Inv
    <2>5. RunsInv'
      BY <2>2, <2>3, <2>4, RunsKeep DEF Inv
    <2>6. HandlerOK(req'[c], Live, Begun) /\ \A d \in Client \ {c} : req'[d] = req[d]
      BY <1>f, <1>9 DEF MarkRollingBack
    <2>7. HandlersInv'
      BY <2>4, <2>6, HandlersKeep DEF Inv
    <2>8. RollingBackHasReplacement'
      <3> SUFFICES ASSUME NEW b \in Release, rel'[b].status = "rolling_back"
                   PROVE  \E m \in Release : rel'[m].prev = b /\ rel'[m].started
        BY DEF RollingBackHasReplacement
      <3>1. CASE b = prev
        <4>1. rel'[n].prev = b /\ n \in Begun' /\ n \in Release
          BY <1>0, <2>1, <2>4, <3>1 DEF Forward
        <4> QED
          BY <4>1 DEF Begun
      <3>2. CASE b # prev
        BY <2>4, <3>2, ReplacementKept, SMTT(30) DEF Inv
      <3> QED
        BY <3>1, <3>2
    <2>9. OrphansBounded'
      <3>1. req[c].pc # "deploy"
        BY <1>9 DEF MarkRollingBack
      <3>2. \A q \in Release : rel'[q].status = "draft" => rel[q].status = "draft"
        BY <2>2, <2>4
      <3>3. Undriven' \subseteq Undriven
        BY <2>2, <2>3, <2>4, DrivenKeep
      <3> QED
        BY <2>3, <2>6, <3>1, <3>2, <3>3, OrphansKeep DEF Inv
    <2> QED
      BY <2>4, <2>5, <2>7, <2>8, <2>9 DEF Inv
  <1>10. CASE RequestCut(c)
    <2>1. UNCHANGED <<rel, lock, run>> /\ failures' = failures + 1
      BY <1>10 DEF RequestCut
    <2>2. Forward /\ RowsInv' /\ Live' = Live /\ Begun' = Begun
      BY <2>1, SameRows DEF Inv
    <2>3. RunsInv'
      BY <2>1, <2>2, RunsKeep DEF Inv
    <2>4. req'[c] = Idle /\ \A d \in Client \ {c} : req'[d] = req[d]
      BY <1>i, <1>10 DEF RequestCut
    <2>5. HandlersInv'
      BY <1>0, <2>2, <2>4, HandlersKeep DEF Inv
    <2>6. RollingBackHasReplacement'
      BY <2>1, <2>2, RollingKeep DEF Inv
    <2>8. OrphansBounded'
      BY <2>1, <2>4, OrphansLeft DEF Inv
    <2> QED
      BY <2>2, <2>3, <2>5, <2>6, <2>8 DEF Inv
  <1>11. CASE ReconcileRead(c)
    <2>1. req'[c].pc = "write" /\ \A d \in Client \ {c} : req'[d] = req[d]
      BY <1>11 DEF ReconcileRead, TypeOK, Request
    <2>2. HandlerOK(req'[c], Live, Begun)
      BY <2>1 DEF HandlerOK
    <2> QED
      BY <1>11, <2>1, <2>2, QuietClient DEF ReconcileRead
  <1>12. CASE ReconcileWrite(c)
    BY <1>0, <1>i, <1>12, QuietClient DEF ReconcileWrite
  <1>13. ASSUME NEW r \in Release, Verify(c, r) PROVE Inv'
    <2> DEFINE q == [Idle EXCEPT !.pc = "verify", !.rel = r]
    <2>1. q.pc = "verify" /\ q.rel = r
      BY DEF Idle
    <2>2. r \in Live
      BY <1>13 DEF Verify, Live
    <2>3. HandlerOK(q, Live, Begun)
      BY <2>1, <2>2 DEF HandlerOK
    <2>4. req'[c] = q /\ \A d \in Client \ {c} : req'[d] = req[d]
      BY <1>13 DEF Verify, TypeOK
    <2> QED
      BY <1>13, <2>3, <2>4, QuietClient DEF Verify
  <1>14. CASE VerifyWrite(c)
    <2>1. req[c].rel \in Live /\ req[c].pc # "deploy"
      BY <1>0, <1>14 DEF VerifyWrite, HandlerOK
    <2> QED
      BY <1>0, <1>i, <1>14, <2>1, WritingClient DEF VerifyWrite
  <1>15. ASSUME NEW r \in Release, Redeploy(c, r) PROVE Inv'
    <2>1. r \in Live /\ Deployable(r) /\ StartRun(r) /\ UNCHANGED <<req, failures>>
      BY <1>15 DEF Redeploy, Deployable, Live
    <2>2. /\ Forward /\ RowsInv' /\ RunsInv'
          /\ rel'[r].status = "deploying"
          /\ \A n \in Release \ {r} : rel'[n] = rel[n]
          /\ Undriven' \subseteq Undriven
      BY <2>1, StartRunInv DEF Inv
    <2>3. HandlersInv'
      BY <2>1, <2>2, HandlersKeepAll DEF Inv
    <2>4. RollingBackHasReplacement'
      BY <2>2, RollingKeep DEF Inv
    <2>5. OrphansBounded'
      BY <2>1, <2>2, OrphansKeepAll DEF Inv
    <2> QED
      BY <2>2, <2>3, <2>4, <2>5 DEF Inv
  <1>16. CASE MarkLost(c)
    <2>1. UNCHANGED <<rel, lock, run>> /\ failures' = failures + 1
      BY <1>16 DEF MarkLost
    <2>2. Forward /\ RowsInv' /\ Live' = Live /\ Begun' = Begun
      BY <2>1, SameRows DEF Inv
    <2>3. RunsInv'
      BY <2>1, <2>2, RunsKeep DEF Inv
    <2>4. HandlerOK(req'[c], Live, Begun) /\ \A d \in Client \ {c} : req'[d] = req[d]
      BY <1>f, <1>16 DEF MarkLost
    <2>5. HandlersInv'
      BY <2>2, <2>4, HandlersKeep DEF Inv
    <2>6. RollingBackHasReplacement'
      BY <2>1, <2>2, RollingKeep DEF Inv
    <2>7. OrphansBounded'
      BY <2>1, <2>4, OrphansLeft DEF Inv
    <2> QED
      BY <2>2, <2>3, <2>5, <2>6, <2>7 DEF Inv
  <1> QED
    BY <1>1, <1>2, <1>3, <1>4, <1>5, <1>6, <1>7, <1>8, <1>9, <1>10, <1>11, <1>12, <1>13,
       <1>14, <1>15, <1>16 DEF HandlerStep

\* The run is over and its lock released.
RunEnds(r) ==
    /\ run' = [run EXCEPT ![r] = NoRun]
    /\ lock' = [lock EXCEPT ![rel[r].inst] = 0]

LEMMA EndInv ==
    ASSUME TypeOK, Inv, NEW r \in Live, rel[r].inst \in Instance, lock[rel[r].inst] = r,
           RunEnds(r), UNCHANGED <<rel, req>>
    PROVE  /\ Forward /\ RowsInv' /\ RunsInv' /\ HandlersInv' /\ RollingBackHasReplacement'
           /\ run'[r] = NoRun /\ \A q \in Release \ {r} : run'[q] = run[q]
  <1>1. /\ run'[r] = NoRun
        /\ \A q \in Release \ {r} : run'[q] = run[q]
        /\ \A i \in Instance \ {rel[r].inst} : lock'[i] = lock[i]
    BY DEF RunEnds, TypeOK, Live
  <1>2. Forward /\ RowsInv' /\ Live' = Live
    BY SameRows DEF Inv
  <1>3. RunsInv'
    <2>1. run'[r].pc = "idle"
      BY <1>1 DEF NoRun
    <2> SUFFICES ASSUME NEW q \in Release, run'[q].pc # "idle"
                 PROVE  q \in Live /\ lock'[rel[q].inst] = q
      BY <1>2 DEF RunsInv
    <2>2. q # r /\ q \in Live /\ lock[rel[q].inst] = q
      BY <1>1, <2>1 DEF Inv, RunsInv
    <2>3. rel[q].inst \in Instance /\ rel[q].inst # rel[r].inst
      BY <2>2 DEF Inv, RowsInv
    <2> QED
      BY <1>1, <2>2, <2>3
  <1>4. HandlersInv' /\ RollingBackHasReplacement'
    BY <1>2, HandlersKeepAll, RollingKeep DEF Inv
  <1> QED
    BY <1>1, <1>2, <1>3, <1>4

LEMMA RunInv ==
    ASSUME TypeOK, Inv, NEW r \in Release, RunStep(r)
    PROVE  Inv'
  <1>0. r \in Live /\ rel[r].inst \in Instance /\ lock[rel[r].inst] = r
    <2>1. run[r].pc # "idle"
      BY DEF RunStep, RunSucceeds, RunFails, MarkRolledBack, RunReconcileRead, RunReconcileWrite
    <2> QED
      BY <2>1 DEF Inv, RunsInv, RowsInv
  <1>1. UNCHANGED <<req, failures>>
    BY DEF RunStep, RunSucceeds, RunFails, MarkRolledBack, RunReconcileRead, RunReconcileWrite
  <1>2. ASSUME NEW pc, run' = [run EXCEPT ![r].pc = pc]
        PROVE  run'[r].pc = pc /\ \A q \in Release \ {r} : run'[q] = run[q]
    BY <1>2 DEF TypeOK, Run
  <1>3. ASSUME Forward, RowsInv', Live' = Live, UNCHANGED lock,
               \A q \in Release : rel'[q].status # rel[q].status =>
                   rel'[q].status \notin {"draft", "deploying", "rolling_back"},
               \A q \in Release \ {r} : run'[q] = run[q],
               rel'[r].status = "deploying" => run[r].pc # "running"
        PROVE  Inv'
    <2>1. RunsInv'
      <3> SUFFICES ASSUME NEW q \in Release, run'[q].pc # "idle"
                   PROVE  q \in Live /\ lock[rel'[q].inst] = q
        BY <1>3 DEF RunsInv
      <3>1. q \in Live /\ lock[rel[q].inst] = q
        BY <1>0, <1>3 DEF Inv, RunsInv
      <3> QED
        BY <1>3, <3>1 DEF Forward
    <2>2. HandlersInv'
      BY <1>1, <1>3, HandlersKeepAll DEF Inv
    <2>3. RollingBackHasReplacement'
      BY <1>3, RollingKeep DEF Inv
    <2>4. OrphansBounded'
      <3>1. Undriven' \subseteq Undriven
        BY <1>3 DEF Undriven
      <3> QED
        BY <1>1, <1>3, <3>1, OrphansKeepAll DEF Inv
    <2> QED
      BY <1>3, <2>1, <2>2, <2>3, <2>4 DEF Inv
  <1>4. CASE RunSucceeds(r) \/ RunFails(r)
    <2>1. PICK status \in {"pending_verify", "failed"}, pc \in {"prev", "read"} :
             rel' = UpdateStatus(r, status) /\ run' = [run EXCEPT ![r].pc = pc] /\ UNCHANGED lock
      BY <1>4 DEF RunSucceeds, RunFails
    <2>2. /\ Forward /\ RowsInv' /\ Live' = Live
          /\ \A q \in Release \ {r} : rel'[q] = rel[q]
          /\ rel'[r].status = status
      BY <1>0, <2>1, StatusWrite DEF Inv
    <2> QED
      BY <1>2, <1>3, <2>1, <2>2
  <1>5. CASE MarkRolledBack(r)
    <2> DEFINE prev == rel[r].prev
    <2>1. run' = [run EXCEPT ![r].pc = "read"] /\ UNCHANGED lock /\ run[r].pc = "prev"
      BY <1>5 DEF MarkRolledBack
    <2>2. CASE UNCHANGED rel
      <3>1. Forward /\ RowsInv' /\ Live' = Live
        BY <2>2, SameRows DEF Inv
      <3> QED
        BY <1>2, <1>3, <2>1, <2>2, <3>1
    <2>3. CASE rel' = UpdateStatus(prev, "rolled_back")
      <3>1. prev \in Live \/ prev \notin Release
        BY Ranges DEF Inv, RowsInv
      <3>2. /\ Forward /\ RowsInv' /\ Live' = Live
            /\ \A q \in Release \ {prev} : rel'[q] = rel[q]
            /\ prev \in Live => rel'[prev].status = "rolled_back"
        BY <2>3, <3>1, StatusWrite DEF Inv
      <3>3. \A q \in Release : rel'[q].status # rel[q].status =>
                   rel'[q].status \notin {"draft", "deploying", "rolling_back"}
        BY <3>1, <3>2
      <3> QED
        BY <1>2, <1>3, <2>1, <3>2, <3>3
    <2> QED
      BY <1>5, <2>2, <2>3 DEF MarkRolledBack
  <1>6. CASE RunReconcileRead(r)
    <2>1. /\ UNCHANGED <<rel, lock>> /\ run[r].pc = "read"
          /\ \A q \in Release \ {r} : run'[q] = run[q]
      BY <1>6 DEF RunReconcileRead, TypeOK
    <2>2. Forward /\ RowsInv' /\ Live' = Live
      BY <2>1, SameRows DEF Inv
    <2> QED
      BY <1>3, <2>1, <2>2
  <1>7. CASE RunReconcileWrite(r)
    <2>1. UNCHANGED rel /\ run[r].pc = "write" /\ RunEnds(r)
      BY <1>7 DEF RunReconcileWrite, RunEnds
    <2>2. /\ Forward /\ RowsInv' /\ RunsInv' /\ HandlersInv' /\ RollingBackHasReplacement'
          /\ run'[r] = NoRun /\ \A q \in Release \ {r} : run'[q] = run[q]
      BY <1>0, <1>1, <2>1, EndInv
    <2>3. Undriven' \subseteq Undriven
      BY <2>1, <2>2 DEF Undriven
    <2>4. OrphansBounded'
      BY <1>1, <2>1, <2>3, OrphansKeepAll DEF Inv
    <2> QED
      BY <2>2, <2>4 DEF Inv
  <1> QED
    BY <1>4, <1>5, <1>6, <1>7 DEF RunStep

\* A lost outcome leaves at most the run's own release without its run.
LEMMA RunLossInv ==
    ASSUME TypeOK, Inv, NEW r \in Release, RunMarkLost(r) \/ RunCut(r)
    PROVE  Inv'
  <1>0. r \in Live /\ rel[r].inst \in Instance /\ lock[rel[r].inst] = r
    <2>1. run[r].pc # "idle"
      BY DEF RunMarkLost, RunCut
    <2> QED
      BY <2>1 DEF Inv, RunsInv, RowsInv
  <1>1. UNCHANGED <<rel, req>> /\ failures' = failures + 1
    BY DEF RunMarkLost, RunCut
  <1>2. CASE RunMarkLost(r)
    <2>1. UNCHANGED lock /\ \A q \in Release \ {r} : run'[q] = run[q]
      BY <1>2 DEF RunMarkLost, TypeOK
    <2>2. Forward /\ RowsInv' /\ Live' = Live
      BY <1>1, SameRows DEF Inv
    <2>3. RunsInv'
      BY <1>0, <1>1, <2>1, <2>2 DEF Inv, RunsInv
    <2>4. HandlersInv' /\ RollingBackHasReplacement'
      BY <1>1, <2>2, HandlersKeepAll, RollingKeep DEF Inv
    <2>5. OrphansBounded'
      BY <1>1, <2>1, OrphansLeft DEF Inv
    <2> QED
      BY <2>2, <2>3, <2>4, <2>5 DEF Inv
  <1>3. CASE RunCut(r)
    <2>1. RunEnds(r)
      BY <1>3 DEF RunCut, RunEnds
    <2>2. /\ Forward /\ RowsInv' /\ RunsInv' /\ HandlersInv' /\ RollingBackHasReplacement'
          /\ \A q \in Release \ {r} : run'[q] = run[q]
      BY <1>0, <1>1, <2>1, EndInv
    <2>3. OrphansBounded'
      BY <1>1, <2>2, OrphansLeft DEF Inv
    <2> QED
      BY <2>2, <2>3 DEF Inv
  <1> QED
    BY <1>2, <1>3

LEMMA Inductive ==
    /\ Init => TypeOK /\ Inv
    /\ TypeOK /\ Inv /\ [Next]_vars => (TypeOK /\ Inv)'
  <1>1. TypeOK /\ Inv /\ [Next]_vars => TypeOK'
    BY NextType DEF Inv
  <1>2. ASSUME TypeOK, Inv, UNCHANGED vars PROVE Inv'
    <2>1. Forward /\ RowsInv' /\ Live' = Live
      BY <1>2, SameRows DEF Inv, vars
    <2>2. RunsInv'
      BY <1>2, <2>1, RunsKeep DEF Inv, vars
    <2>3. HandlersInv'
      BY <1>2, <2>1, HandlersKeepAll DEF Inv, vars
    <2>4. RollingBackHasReplacement'
      BY <1>2, <2>1, RollingKeep DEF Inv, vars
    <2>5. OrphansBounded'
      BY <1>2, OrphansKeepAll, DrivenKeep DEF Inv, vars
    <2> QED
      BY <2>1, <2>2, <2>3, <2>4, <2>5 DEF Inv
  <1>3. TypeOK /\ Inv /\ [Next]_vars => Inv'
    BY <1>2, ClientInv, RunInv, RunLossInv DEF Next
  <1> QED
    BY <1>1, <1>3, InitType, InitInv

\* Two releases of one instance never deploy at the same time, for any number of
\* overlapping fan-outs, rollbacks and single redeploys, and whatever writes fail.
THEOREM InstancesDeployAlone == Spec => []OneDeployingPerInstance
  <1>1. Inv => OneDeployingPerInstance
    <2> SUFFICES ASSUME Inv, NEW r \in Release \ Orphans, NEW q \in Release \ Orphans,
                        rel[r].status = "deploying", rel[q].status = "deploying",
                        rel[r].inst = rel[q].inst
                 PROVE  r = q
      BY DEF OneDeployingPerInstance
    <2>1. run[r].pc = "running" /\ run[q].pc = "running"
      BY DEF Orphans
    <2>2. lock[rel[r].inst] = r /\ lock[rel[q].inst] = q
      BY <2>1 DEF Inv, RunsInv
    <2> QED
      BY <2>2
  <1> QED
    BY <1>1, Inductive, PTL DEF Spec

\* A release reads rolling_back only when a run was started for its replacement.
THEOREM RollingBackIsReplaced == Spec => []RollingBackHasReplacement
  <1>1. Inv => RollingBackHasReplacement
    BY DEF Inv
  <1> QED
    BY <1>1, Inductive, PTL DEF Spec

\* Each request that is cut, each run whose outcome is lost and each refusal that
\* could not be recorded leaves at most one child behind that nobody will finish,
\* and nothing else does.
THEOREM ChildrenAreDriven == Spec => []NoOrphanChild
  <1>1. Inv => NoOrphanChild
    BY DEF Inv, OrphansBounded, NoOrphanChild
  <1> QED
    BY <1>1, Inductive, PTL DEF Spec
-----------------------------------------------------------------------------
(***************************************************************************)
(* What a batch says of its children. Either somebody is still to reconcile *)
(* it who has not read yet, or everyone who is about to write knows the     *)
(* children as they are, and with nobody about to write the row says it.    *)
(***************************************************************************)
\* A handler that will reconcile the batch, and one that is about to write.
Owes(q, b)   == q.batch = b /\ q.pc \in {"fan", "deploy", "rolling"}
Writes(q, b) == q.batch = b /\ q.pc = "write"

Busy(b) ==
    \/ \E r \in Children(b) : run[r].pc \in {"running", "prev", "read"}
    \/ \E c \in Client : Owes(req[c], b)

Known(b) ==
    /\ \A r \in Children(b) : run[r].pc = "write" => run[r].agg = Aggregate(b)
    /\ \A c \in Client : Writes(req[c], b) => req[c].agg = Aggregate(b)
    /\ Reconciling(b) \/ batch[b].agg.status = "none" \/ batch[b].agg = Aggregate(b)

\* The child a handler is about to deploy is one of its batch.
OwnChildren ==
    \A c \in Client : req[c].pc \in {"deploy", "rolling"} => rel[req[c].rel].batch = req[c].batch

AggInv == OwnChildren /\ \A b \in Batch \ disturbed : Busy(b) \/ Known(b)

LEMMA AggStarts == AggInit => AggInv
  <1> SUFFICES ASSUME AggInit PROVE AggInv
    OBVIOUS
  <1>1. OwnChildren
    BY DEF AggInit, Init, OwnChildren, Idle
  <1>2. ASSUME NEW b \in Batch PROVE Known(b)
    <2>1. /\ \A r \in Release : run[r].pc = "idle"
          /\ \A c \in Client : req[c].pc = "idle"
      BY DEF AggInit, Init, NoRun, Idle
    <2>2. batch[b].agg.status = "none" \/ batch[b].agg = Aggregate(b)
      <3>1. CASE b = 1
        <4> DEFINE S == {r \in Children(b) : rel[r].status \in Deployed}
                   F == {r \in Children(b) : rel[r].status = "failed"}
        <4>1. \A r \in Release : /\ r \in Instance => rel[r].status = "verified" /\ rel[r].batch = 1
                                 /\ r \notin Instance => rel[r].status = "none"
          BY DEF AggInit, Init
        <4>2. Children(b) = Instance /\ S = Instance /\ F = {}
          BY <3>1, <4>1, Ranges DEF Children, Deployed
        <4>3. Cardinality(Instance) = NumInstances /\ Cardinality({}) = 0
          BY FS_Interval, FS_EmptySet, ConstantsAssumption DEF Instance
        <4>4. Cardinality(Children(b)) = NumInstances /\ Cardinality(S) = NumInstances
              /\ Cardinality(F) = 0
          BY <4>2, <4>3
        <4>5. Aggregate(b) =
                LET success  == Cardinality(S)
                    failed   == Cardinality(F)
                    total    == Cardinality(Children(b))
                    inFlight == total - success - failed
                    status   == IF inFlight > 0 \/ total = 0 THEN "running"
                                ELSE IF failed = 0 THEN "success"
                                ELSE IF success = 0 THEN "failed"
                                ELSE "partial_failed"
                IN  [status |-> status, total |-> total, success |-> success, failed |-> failed]
          BY DEF Aggregate
        <4> HIDE DEF S, F
        <4>6. Aggregate(b) = [status |-> "success", total |-> NumInstances,
                              success |-> NumInstances, failed |-> 0]
          BY <4>4, <4>5, ConstantsAssumption
        <4>7. batch[b].agg = [status |-> "success", total |-> NumInstances,
                              success |-> NumInstances, failed |-> 0]
          BY <3>1 DEF AggInit, Init
        <4> QED
          BY <4>6, <4>7
      <3>2. CASE b # 1
        BY <3>2 DEF AggInit, Init, NoAgg
      <3> QED
        BY <3>1, <3>2
    <2>3. \A r \in Children(b) : r \in Release
      BY DEF Children
    <2> QED
      BY <2>1, <2>2, <2>3 DEF Known, Writes
  <1> QED
    BY <1>1, <1>2 DEF AggInv

\* The children of a batch and what each came to are as before.
Alike(b) ==
    /\ Children(b)' = Children(b)
    /\ \A r \in Children(b) : /\ rel'[r].status \in Deployed <=> rel[r].status \in Deployed
                              /\ rel'[r].status = "failed" <=> rel[r].status = "failed"

LEMMA SameAggregate ==
    ASSUME NEW b, Alike(b)
    PROVE  Aggregate(b)' = Aggregate(b)
  <1>1. Children(b)' = Children(b)
    BY DEF Alike
  <1>2. {r \in Children(b) : rel[r].status \in Deployed}' = {r \in Children(b) : rel[r].status \in Deployed}
    BY <1>1 DEF Alike
  <1>3. {r \in Children(b) : rel[r].status = "failed"}' = {r \in Children(b) : rel[r].status = "failed"}
    BY <1>1 DEF Alike
  <1> QED
    BY <1>1, <1>2, <1>3 DEF Aggregate

LEMMA SameRowsAlike ==
    ASSUME NEW b, UNCHANGED rel
    PROVE  Alike(b)
  BY DEF Alike, Children

\* A status written on another batch's child, or over an outcome of the same kind.
LEMMA StatusAlike ==
    ASSUME TypeOK, NEW b, NEW x, NEW status, status # "none", rel' = UpdateStatus(x, status),
           x \in Live \/ x \notin Release,
           x \in Children(b) => rel[x].status \in Deployed /\ status \in Deployed
    PROVE  Alike(b)
  <1>1. \A q \in Release : /\ rel'[q].status = IF q = x THEN status ELSE rel[q].status
                           /\ rel'[q].batch = rel[q].batch
    BY DEF UpdateStatus, TypeOK, ReleaseRow
  <1>2. Children(b)' = Children(b)
    BY <1>1 DEF Children, Live
  <1>3. "failed" \notin Deployed
    BY DEF Deployed
  <1> QED
    BY <1>1, <1>2, <1>3 DEF Alike, Children

\* A run started for another batch's child.
LEMMA StartAlike ==
    ASSUME TypeOK, NEW b, NEW x \in Live, x \notin Children(b), StartRun(x)
    PROVE  Alike(b) /\ \A r \in Children(b) : run'[r] = run[r]
  <1>1. x \in Release /\ rel[x].status # "none" /\ rel[x].batch # b
    BY DEF Live, Children
  <1>2. \A q \in Release \ {x} : rel'[q] = rel[q] /\ run'[q] = run[q]
    BY DEF StartRun, TypeOK
  <1>3. rel'[x].batch = rel[x].batch
    BY <1>1 DEF StartRun, TypeOK, ReleaseRow
  <1> QED
    BY <1>1, <1>2, <1>3 DEF Alike, Children

\* A handler whose step does not concern the batch.
Steady(q, q2, b) ==
    \/ q2 = q
    \/ (Owes(q, b) => Owes(q2, b)) /\ ~Writes(q, b) /\ ~Writes(q2, b)

LEMMA NothingForBatch ==
    ASSUME NEW b \in Batch, Busy(b) \/ Known(b), Alike(b), batch'[b] = batch[b],
           \A r \in Children(b) : run'[r] = run[r],
           \A c \in Client : Steady(req[c], req'[c], b)
    PROVE  (Busy(b) \/ Known(b))'
  <1>1. Children(b)' = Children(b) /\ Aggregate(b)' = Aggregate(b)
    BY SameAggregate DEF Alike
  <1>2. CASE Busy(b)
    <2>1. \A c \in Client : Owes(req[c], b) => Owes(req'[c], b)
      BY DEF Steady
    <2> QED
      BY <1>1, <1>2, <2>1 DEF Busy
  <1>3. CASE Known(b)
    <2>1. \A c \in Client : Writes(req[c], b) \/ Writes(req'[c], b) => req'[c] = req[c]
      BY DEF Steady
    <2>2. Reconciling(b) => Reconciling(b)'
      BY <1>1, <2>1 DEF Reconciling, Writes
    <2> QED
      BY <1>1, <1>3, <2>1, <2>2 DEF Known, Writes
  <1> QED
    BY <1>2, <1>3

\* The steps of one handler leave the others where they are, those of a run all.
LEMMA OthersSteady ==
    ASSUME TypeOK, NEW b, NEW c \in Client, NEW q, req' = [req EXCEPT ![c] = q],
           Owes(req[c], b) => Owes(q, b), ~Writes(req[c], b), ~Writes(q, b)
    PROVE  \A d \in Client : Steady(req[d], req'[d], b)
  BY DEF TypeOK, Steady

LEMMA AllSteady ==
    ASSUME NEW b, UNCHANGED req
    PROVE  \A d \in Client : Steady(req[d], req'[d], b)
  BY DEF Steady

LEMMA OwingIsBusy ==
    ASSUME NEW b, NEW c \in Client, Owes(req'[c], b)
    PROVE  (Busy(b) \/ Known(b))'
  BY DEF Busy

\* A new batch owes its first Reconcile; the others do not notice.
LEMMA CreateBatchAgg ==
    ASSUME TypeOK, NEW b \in Batch, Busy(b) \/ Known(b), NEW c \in Client, NEW of, NEW todo,
           req[c].pc \in {"idle", "plan"}, CreateBatch(c, of, todo), UNCHANGED <<rel, run>>
    PROVE  (Busy(b) \/ Known(b))'
  <1>1. PICK d \in Batch :
           /\ batch' = [batch EXCEPT ![d] = [rollback_of |-> of,
                          agg |-> [NoAgg EXCEPT !.status = "running",
                                                !.total = Cardinality(todo)]]]
           /\ req' = [req EXCEPT ![c] = [Idle EXCEPT !.pc = "fan", !.batch = d,
                                                     !.of = of, !.todo = todo]]
    BY Zenon DEF CreateBatch
  <1> DEFINE q == [Idle EXCEPT !.pc = "fan", !.batch = d, !.of = of, !.todo = todo]
  <1>2. q.pc = "fan" /\ q.batch = d /\ req' = [req EXCEPT ![c] = q] /\ req'[c] = q
    BY <1>1 DEF Idle, TypeOK
  <1> HIDE DEF q
  <1>3. CASE d = b
    BY <1>2, <1>3, OwingIsBusy DEF Owes
  <1>4. CASE d # b
    <2>1. batch'[b] = batch[b]
      BY <1>1, <1>4 DEF TypeOK
    <2>2. \A e \in Client : Steady(req[e], req'[e], b)
      BY <1>2, <1>4, OthersSteady DEF Owes, Writes
    <2> QED
      BY <2>1, <2>2, SameRowsAlike, NothingForBatch
  <1> QED
    BY <1>3, <1>4

\* A handler moves on to q and touches no batch and no run.
LEMMA HandlerAgg ==
    ASSUME TypeOK, NEW b \in Batch, Busy(b) \/ Known(b), NEW c \in Client, NEW q,
           req' = [req EXCEPT ![c] = q],
           Owes(req[c], b) => Owes(q, b), ~Writes(req[c], b), ~Writes(q, b),
           Alike(b), UNCHANGED batch, \A r \in Children(b) : run'[r] = run[r]
    PROVE  (Busy(b) \/ Known(b))'
  BY OthersSteady, NothingForBatch

\* Once it is about to write, the row is all that is left to be told.
LEMMA HandlerWrites ==
    ASSUME TypeOK, NEW b \in Batch, Busy(b) \/ Known(b), NEW c \in Client, ReconcileWrite(c)
    PROVE  (Busy(b) \/ Known(b))'
  <1>1. /\ req[c].pc = "write" /\ req' = [req EXCEPT ![c] = Idle] /\ UNCHANGED <<rel, run>>
        /\ batch' = [batch EXCEPT ![req[c].batch].agg = req[c].agg]
    BY DEF ReconcileWrite
  <1>2. /\ req'[c].pc = "idle" /\ req'[c].batch = 0
        /\ \A d \in Client \ {c} : req'[d] = req[d]
    BY <1>1 DEF TypeOK, Idle
  <1>3. Alike(b) /\ Aggregate(b)' = Aggregate(b) /\ Children(b)' = Children(b)
    BY <1>1, SameRowsAlike, SameAggregate DEF Children
  <1>4. b # 0
    BY Ranges
  <1>5. CASE req[c].batch # b
    <2>1. batch'[b] = batch[b]
      BY <1>1, <1>5 DEF TypeOK
    <2>2. \A d \in Client : Steady(req[d], req'[d], b)
      BY <1>2, <1>4, <1>5 DEF Steady, Owes, Writes
    <2> QED
      BY <1>1, <1>3, <2>1, <2>2, NothingForBatch
  <1>6. CASE req[c].batch = b
    <2>1. batch'[b].agg = req[c].agg
      BY <1>1, <1>6 DEF TypeOK, BatchRow
    <2>2. CASE Busy(b)
      <3>1. \A d \in Client : Owes(req[d], b) => d # c
        BY <1>1 DEF Owes
      <3> QED
        BY <1>1, <1>2, <1>3, <2>2, <3>1 DEF Busy
    <2>3. CASE Known(b)
      <3>1. req[c].agg = Aggregate(b)
        BY <1>1, <1>6, <2>3 DEF Known, Writes
      <3>2. \A d \in Client : Writes(req'[d], b) => req'[d].agg = Aggregate(b)
        BY <1>2, <1>4, <2>3 DEF Known, Writes
      <3> QED
        BY <1>1, <1>3, <2>1, <2>3, <3>1, <3>2 DEF Known
    <2> QED
      BY <2>2, <2>3
  <1> QED
    BY <1>5, <1>6

LEMMA RunWrites ==
    ASSUME TypeOK, NEW b \in Batch, Busy(b) \/ Known(b), NEW r \in Release, r \in Live,
           RunReconcileWrite(r)
    PROVE  (Busy(b) \/ Known(b))'
  <1>1. /\ run[r].pc = "write" /\ run' = [run EXCEPT ![r] = NoRun] /\ UNCHANGED <<rel, req>>
        /\ batch' = [batch EXCEPT ![rel[r].batch].agg = run[r].agg]
    BY DEF RunReconcileWrite
  <1>2. run'[r].pc = "idle" /\ \A q \in Release \ {r} : run'[q] = run[q]
    BY <1>1 DEF TypeOK, NoRun
  <1>3. Alike(b) /\ Aggregate(b)' = Aggregate(b) /\ Children(b)' = Children(b)
    BY <1>1, SameRowsAlike, SameAggregate DEF Children
  <1>4. \A q \in Children(b) : q \in Release /\ rel[q].batch = b
    BY DEF Children
  <1>5. CASE rel[r].batch # b
    <2>1. batch'[b] = batch[b]
      BY <1>1, <1>5 DEF TypeOK
    <2>2. \A q \in Children(b) : run'[q] = run[q]
      BY <1>2, <1>4, <1>5
    <2> QED
      BY <1>1, <1>3, <2>1, <2>2, AllSteady, NothingForBatch
  <1>6. CASE rel[r].batch = b
    <2>1. batch'[b].agg = run[r].agg
      BY <1>1, <1>6 DEF TypeOK, BatchRow
    <2>2. CASE Busy(b)
      <3>1. \A q \in Children(b) : run[q].pc \in {"running", "prev", "read"} => run'[q] = run[q]
        BY <1>1, <1>2, <1>4
      <3> QED
        BY <1>1, <1>3, <2>2, <3>1 DEF Busy
    <2>3. CASE Known(b)
      <3>1. run[r].agg = Aggregate(b)
        BY <1>1, <1>6, <2>3 DEF Known, Children, Live
      <3>2. \A q \in Children(b) : run'[q].pc = "write" => run'[q].agg = Aggregate(b)
        BY <1>2, <1>4, <2>3 DEF Known
      <3> QED
        BY <1>1, <1>3, <2>1, <2>3, <3>1, <3>2 DEF Known
    <2> QED
      BY <2>2, <2>3
  <1> QED
    BY <1>5, <1>6

\* A status written by another than the child's own run changes no outcome, or
\* the batch is disturbed.
LEMMA OverruledAlike ==
    ASSUME TypeOK, NEW b, ~Overruled(b), NEW x, x \in Live \/ x \notin Release,
           NEW status \in {"verified", "rolling_back", "rolled_back"}, rel' = UpdateStatus(x, status),
           \A r \in Children(b) : run'[r].pc = "prev" => run[r].pc # "running"
    PROVE  Alike(b)
  <1>1. status # "none" /\ status \in Deployed
    BY DEF Deployed
  <1>2. ASSUME x \in Children(b) PROVE rel[x].status \in Deployed
    <2>1. rel'[x].status = status
      BY <1>2 DEF UpdateStatus, TypeOK, ReleaseRow, Children
    <2> QED
      BY <1>1, <1>2, <2>1 DEF Overruled
  <1> QED
    BY <1>1, <1>2, StatusAlike

\* A child that is deployed keeps its batch busy.
LEMMA StartIsBusy ==
    ASSUME TypeOK, NEW b, NEW r, r \in Children(b), StartRun(r)
    PROVE  (Busy(b) \/ Known(b))'
  <1>1. r \in Release /\ rel[r].batch = b
    BY DEF Children
  <1>2. rel'[r].status = "deploying" /\ rel'[r].batch = b
    BY <1>1 DEF StartRun, TypeOK, ReleaseRow
  <1>3. run'[r].pc = "running"
    BY <1>1 DEF StartRun, TypeOK, Run
  <1>4. r \in Children(b)'
    BY <1>1, <1>2 DEF Children
  <1> QED
    BY <1>3, <1>4 DEF Busy

\* A step of a handler that is not a read of this batch.
LEMMA ClientAgg ==
    ASSUME TypeOK, Inv, OwnChildren, NEW b \in Batch, Busy(b) \/ Known(b),
           ~Reads(b), ~Cut(b), ~Overruled(b), NEW c \in Client,
           \/ DeployEnv(c) \/ HandlerStep(c) \/ RequestCut(c) \/ MarkLost(c)
           \/ \E d \in Batch : RollbackEnv(c, d)
           \/ \E r \in Release : Redeploy(c, r) \/ Verify(c, r)
    PROVE  (Busy(b) \/ Known(b))'
  <1>0. b # 0 /\ req \in [Client -> Request] /\ HandlerOK(req[c], Live, Begun) /\ RowsInv
    BY Ranges DEF TypeOK, Inv, HandlersInv
  <1>1. CASE DeployEnv(c)
    <2>1. PICK todo : CreateBatch(c, 0, todo)
      BY <1>1 DEF DeployEnv
    <2> QED
      BY <1>1, <2>1, CreateBatchAgg DEF DeployEnv
  <1>2. ASSUME NEW d \in Batch, RollbackEnv(c, d) PROVE (Busy(b) \/ Known(b))'
    <2> DEFINE bad == {r \in Children(d) : rel[r].status \notin {"draft", "failed", "rolled_back"}}
               q == [Idle EXCEPT !.pc = "guard", !.of = d, !.todo = bad]
    <2>1. req[c].pc = "idle" /\ req' = [req EXCEPT ![c] = q] /\ UNCHANGED <<rel, batch, run>>
      BY <1>2, Zenon DEF RollbackEnv
    <2>2. q.pc = "guard"
      BY DEF Idle
    <2> HIDE DEF q
    <2> QED
      BY <2>1, <2>2, SameRowsAlike, HandlerAgg DEF Owes, Writes
  <1>3. CASE RollbackGuard(c)
    <2>1. req[c].pc = "guard" /\ UNCHANGED <<rel, batch, run>>
      BY <1>3 DEF RollbackGuard
    <2>2. CASE req' = [req EXCEPT ![c] = Idle]
      <3>1. Idle.pc = "idle"
        BY DEF Idle
      <3> QED
        BY <2>1, <2>2, <3>1, SameRowsAlike, HandlerAgg DEF Owes, Writes
    <2>3. CASE req' = [req EXCEPT ![c].pc = "plan"]
      <3>1. req' = [req EXCEPT ![c] = [req[c] EXCEPT !.pc = "plan"]]
        BY <1>0, <2>3
      <3>2. [req[c] EXCEPT !.pc = "plan"].pc = "plan"
        BY <1>0 DEF Request
      <3> QED
        BY <2>1, <3>1, <3>2, SameRowsAlike, HandlerAgg DEF Owes, Writes
    <2> QED
      BY <1>3, <2>2, <2>3 DEF RollbackGuard
  <1>4. CASE RollbackPlan(c)
    <2>1. req[c].pc = "plan" /\ UNCHANGED <<rel, run>>
      BY <1>4 DEF RollbackPlan
    <2>2. CASE CreateBatch(c, req[c].of, req[c].todo)
      BY <2>1, <2>2, CreateBatchAgg
    <2>3. CASE req' = [req EXCEPT ![c] = Idle] /\ UNCHANGED batch
      <3>1. Idle.pc = "idle"
        BY DEF Idle
      <3> QED
        BY <2>1, <2>3, <3>1, SameRowsAlike, HandlerAgg DEF Owes, Writes
    <2> QED
      BY <1>4, <2>2, <2>3 DEF RollbackPlan
  <1>5. CASE DraftChild(c)
    <2>1. PICK x \in req[c].todo, r \in Release :
            /\ IsNextRelease(r)
            /\ rel' = [rel EXCEPT ![r] =
                [status |-> "draft", batch |-> req[c].batch,
                 started |-> FALSE,
                 inst |-> IF req[c].of = 0 THEN x ELSE rel[x].inst,
                 prev |-> IF req[c].of = 0 THEN 0 ELSE x]]
            /\ req' = [req EXCEPT ![c].pc = "deploy", ![c].rel = r, ![c].todo = @ \ {x}]
      BY <1>5, Zenon DEF DraftChild
    <2> DEFINE q == [req[c] EXCEPT !.pc = "deploy", !.rel = r, !.todo = req[c].todo \ {x}]
    <2>a. req' = [req EXCEPT ![c] = q]
      BY <1>0, <2>1, ZenonT(60)
    <2>b. q.pc = "deploy" /\ q.batch = req[c].batch
      BY <1>0 DEF Request
    <2> HIDE DEF q
    <2>2. req'[c].pc = "deploy" /\ req'[c].batch = req[c].batch /\ req[c].pc = "fan"
          /\ \A d \in Client \ {c} : req'[d] = req[d]
      BY <1>0, <1>5, <2>a, <2>b DEF DraftChild
    <2>3. CASE req[c].batch = b
      BY <2>2, <2>3, OwingIsBusy DEF Owes
    <2>4. CASE req[c].batch # b
      <3>1. /\ rel[r].status = "none" /\ rel'[r].batch # b
            /\ \A d \in Release \ {r} : rel'[d] = rel[d]
        BY <2>1, <2>4 DEF TypeOK, IsNextRelease
      <3>2. Alike(b)
        BY <3>1 DEF Alike, Children
      <3>3. \A d \in Client : Steady(req[d], req'[d], b)
        BY <2>2, <2>4 DEF Steady, Owes, Writes
      <3> QED
        BY <1>5, <3>2, <3>3, NothingForBatch DEF DraftChild
    <2> QED
      BY <2>3, <2>4
  <1>6. CASE DraftFails(c)
    <2>1. PICK x \in req[c].todo : req' = [req EXCEPT ![c].todo = @ \ {x}]
      BY <1>6 DEF DraftFails
    <2>2. req' = [req EXCEPT ![c] = [req[c] EXCEPT !.todo = req[c].todo \ {x}]]
      BY <1>0, <2>1
    <2>3. /\ [req[c] EXCEPT !.todo = req[c].todo \ {x}].pc = req[c].pc
          /\ [req[c] EXCEPT !.todo = req[c].todo \ {x}].batch = req[c].batch
      BY <1>0 DEF Request
    <2> QED
      BY <1>6, <2>2, <2>3, SameRowsAlike, HandlerAgg DEF DraftFails, Owes, Writes
  <1>7. ASSUME NEW pc, req' = [req EXCEPT ![c].pc = pc] \/ req' = [req EXCEPT ![c].pc = pc, ![c].rel = 0]
        PROVE  /\ req'[c].pc = pc /\ req'[c].batch = req[c].batch
               /\ \A d \in Client \ {c} : req'[d] = req[d]
    <2>1. CASE req' = [req EXCEPT ![c].pc = pc]
      BY <1>0, <2>1 DEF Request
    <2>2. CASE req' = [req EXCEPT ![c].pc = pc, ![c].rel = 0]
      BY <1>0, <2>2, ZenonT(60) DEF Request
    <2> QED
      BY <1>7, <2>1, <2>2
  <1>8. CASE DeployChild(c)
    <2>1. /\ req[c].pc = "deploy" /\ req'[c].pc \in {"fan", "rolling"} /\ req'[c].batch = req[c].batch
          /\ \A d \in Client \ {c} : req'[d] = req[d]
      <3>1. CASE req' = [req EXCEPT ![c].pc = "fan", ![c].rel = 0]
        BY <1>7, <1>8, <3>1 DEF DeployChild
      <3>2. CASE req' = [req EXCEPT ![c].pc = "rolling"]
        BY <1>7, <1>8, <3>2 DEF DeployChild
      <3> QED
        BY <1>8, <3>1, <3>2 DEF DeployChild
    <2>2. CASE req[c].batch = b
      BY <2>1, <2>2, OwingIsBusy DEF Owes
    <2>3. CASE req[c].batch # b
      <3>1. req[c].rel \in Live /\ req[c].rel \notin Children(b) /\ StartRun(req[c].rel)
        BY <1>0, <1>8, <2>1, <2>3 DEF DeployChild, HandlerOK, OwnChildren, Children
      <3>2. \A d \in Client : Steady(req[d], req'[d], b)
        BY <2>1, <2>3 DEF Steady, Owes, Writes
      <3> QED
        BY <1>8, <3>1, <3>2, StartAlike, NothingForBatch DEF DeployChild
    <2> QED
      BY <2>2, <2>3
  <1>9. CASE DeployChildFails(c)
    <2>1. /\ req[c].pc = "deploy" /\ req'[c].pc = "fan" /\ req'[c].batch = req[c].batch
          /\ \A d \in Client \ {c} : req'[d] = req[d]
      BY <1>7, <1>9 DEF DeployChildFails
    <2>2. CASE req[c].batch = b
      BY <2>1, <2>2, OwingIsBusy DEF Owes
    <2>3. CASE req[c].batch # b
      <3>1. req[c].rel \in Live /\ req[c].rel \notin Children(b)
        BY <1>0, <2>1, <2>3 DEF HandlerOK, OwnChildren, Children
      <3>2. Alike(b)
        BY <1>9, <3>1, StatusAlike DEF DeployChildFails
      <3>3. \A d \in Client : Steady(req[d], req'[d], b)
        BY <2>1, <2>3 DEF Steady, Owes, Writes
      <3> QED
        BY <1>9, <3>2, <3>3, NothingForBatch DEF DeployChildFails
    <2> QED
      BY <2>2, <2>3
  <1>10. CASE MarkRollingBack(c)
    <2> DEFINE x == rel[req[c].rel].prev
    <2>1. /\ req[c].pc = "rolling" /\ req'[c].pc = "fan" /\ req'[c].batch = req[c].batch
          /\ \A d \in Client \ {c} : req'[d] = req[d]
          /\ rel' = UpdateStatus(x, "rolling_back") /\ UNCHANGED <<batch, run>>
      BY <1>7, <1>10 DEF MarkRollingBack
    <2>2. CASE req[c].batch = b
      BY <2>1, <2>2, OwingIsBusy DEF Owes
    <2>3. CASE req[c].batch # b
      <3>1. x \in Live \/ x \notin Release
        BY <1>0, <2>1, Ranges DEF HandlerOK, RowsInv, Live
      <3> HIDE DEF x
      <3>2. Alike(b)
        BY <2>1, <3>1, OverruledAlike
      <3>3. \A d \in Client : Steady(req[d], req'[d], b)
        BY <2>1, <2>3 DEF Steady, Owes, Writes
      <3> QED
        BY <2>1, <3>2, <3>3, NothingForBatch
    <2> QED
      BY <2>2, <2>3
  <1>11. CASE RequestCut(c)
    <2>1. /\ req[c].pc # "idle" /\ failures' = failures + 1
          /\ req' = [req EXCEPT ![c] = Idle] /\ UNCHANGED <<rel, batch, run>>
      BY <1>11 DEF RequestCut
    <2>2. Idle.pc = "idle" /\ Idle.batch = 0 /\ failures \in Nat
      BY DEF Idle, TypeOK
    <2>3. failures' # failures /\ req'[c] # req[c]
      BY <1>0, <2>1, <2>2
    <2>4. req[c].batch # b
      BY <2>3 DEF Cut
    <2> QED
      BY <1>0, <2>1, <2>2, <2>4, SameRowsAlike, HandlerAgg DEF Owes, Writes
  <1>12. CASE ReconcileRead(c)
    <2> DEFINE q == [req[c] EXCEPT !.pc = "write", !.agg = Aggregate(req[c].batch)]
    <2>1. req[c].pc = "fan" /\ req' = [req EXCEPT ![c] = q] /\ UNCHANGED <<rel, batch, run>>
      BY <1>0, <1>12, ZenonT(60) DEF ReconcileRead
    <2>2. q.pc = "write" /\ q.batch = req[c].batch
      BY <1>0 DEF Request
    <2> HIDE DEF q
    <2>3. req'[c] = q
      BY <1>0, <2>1
    <2>4. req[c].batch # b
      BY <2>1, <2>2, <2>3 DEF Reads
    <2> QED
      BY <2>1, <2>2, <2>4, SameRowsAlike, HandlerAgg DEF Owes, Writes
  <1>13. CASE ReconcileWrite(c)
    BY <1>13, HandlerWrites
  <1>14. ASSUME NEW r \in Release, Verify(c, r) PROVE (Busy(b) \/ Known(b))'
    <2> DEFINE q == [Idle EXCEPT !.pc = "verify", !.rel = r]
    <2>1. q.pc = "verify"
      BY DEF Idle
    <2>2. req[c].pc = "idle" /\ req' = [req EXCEPT ![c] = q] /\ UNCHANGED <<rel, batch, run>>
      BY <1>14, Zenon DEF Verify
    <2> HIDE DEF q
    <2> QED
      BY <2>1, <2>2, SameRowsAlike, HandlerAgg DEF Owes, Writes
  <1>15. CASE VerifyWrite(c)
    <2>1. /\ req[c].pc = "verify" /\ rel' = UpdateStatus(req[c].rel, "verified")
          /\ req' = [req EXCEPT ![c] = Idle] /\ UNCHANGED <<batch, run>>
      BY <1>15 DEF VerifyWrite
    <2>2. req[c].rel \in Live
      BY <1>0, <2>1 DEF HandlerOK
    <2>3. Alike(b)
      BY <2>1, <2>2, OverruledAlike
    <2>4. Idle.pc = "idle"
      BY DEF Idle
    <2> QED
      BY <2>1, <2>3, <2>4, HandlerAgg DEF Owes, Writes
  <1>16. ASSUME NEW r \in Release, Redeploy(c, r) PROVE (Busy(b) \/ Known(b))'
    <2>1. StartRun(r) /\ UNCHANGED <<batch, req>> /\ r \in Live
      BY <1>16 DEF Redeploy, Deployable, Live
    <2>2. CASE r \in Children(b)
      BY <2>1, <2>2, StartIsBusy
    <2>3. CASE r \notin Children(b)
      BY <2>1, <2>3, StartAlike, AllSteady, NothingForBatch
    <2> QED
      BY <2>2, <2>3
  <1>17. CASE MarkLost(c)
    <2>1. /\ req[c].pc \in {"deploy", "rolling"} /\ failures' = failures + 1
          /\ UNCHANGED <<rel, batch, run>>
      BY <1>17 DEF MarkLost
    <2>2. /\ req'[c].pc = "fan" /\ req'[c].batch = req[c].batch
          /\ \A d \in Client \ {c} : req'[d] = req[d]
      BY <1>7, <1>17 DEF MarkLost
    <2>3. failures' # failures /\ req'[c] # req[c]
      BY <2>1, <2>2 DEF TypeOK
    <2>4. req[c].batch # b
      BY <2>3 DEF Cut
    <2>5. \A d \in Client : Steady(req[d], req'[d], b)
      BY <2>2, <2>4 DEF Steady, Owes, Writes
    <2> QED
      BY <2>1, <2>5, SameRowsAlike, NothingForBatch
  <1> QED
    BY <1>1, <1>2, <1>3, <1>4, <1>5, <1>6, <1>8, <1>9, <1>10, <1>11, <1>12, <1>13, <1>14, <1>15,
       <1>16, <1>17 DEF HandlerStep

\* A run writes the outcome of its child: its own batch is busy until it has read.
LEMMA OutcomeAgg ==
    ASSUME TypeOK, NEW b \in Batch, Busy(b) \/ Known(b), NEW r \in Release, r \in Live,
           NEW status, status # "none", rel' = UpdateStatus(r, status),
           NEW pc \in {"prev", "read"}, run' = [run EXCEPT ![r].pc = pc], UNCHANGED <<batch, req>>
    PROVE  (Busy(b) \/ Known(b))'
  <1>1. run'[r].pc = pc /\ \A q \in Release \ {r} : run'[q] = run[q]
    BY DEF TypeOK, Run
  <1>2. CASE r \in Children(b)
    <2>1. rel'[r].status = status /\ rel'[r].batch = b
      BY <1>2 DEF UpdateStatus, TypeOK, ReleaseRow, Children
    <2>2. r \in Children(b)'
      BY <2>1 DEF Children
    <2> QED
      BY <1>1, <2>2 DEF Busy
  <1>3. CASE r \notin Children(b)
    <2>1. Alike(b)
      BY <1>3, StatusAlike
    <2>2. \A q \in Children(b) : run'[q] = run[q]
      BY <1>1, <1>3 DEF Children
    <2> QED
      BY <2>1, <2>2, AllSteady, NothingForBatch
  <1> QED
    BY <1>2, <1>3

\* A step of a run that is not a read of this batch.
LEMMA RunAgg ==
    ASSUME TypeOK, Inv, NEW b \in Batch, Busy(b) \/ Known(b),
           ~Reads(b), ~Cut(b), ~Overruled(b),
           NEW r \in Release, RunStep(r) \/ RunMarkLost(r) \/ RunCut(r)
    PROVE  (Busy(b) \/ Known(b))'
  <1>0. RowsInv /\ (run[r].pc # "idle" => r \in Live)
    BY DEF Inv, RunsInv
  <1>1. CASE RunSucceeds(r)
    BY <1>0, <1>1, OutcomeAgg DEF RunSucceeds
  <1>2. CASE RunFails(r)
    BY <1>0, <1>2, OutcomeAgg DEF RunFails
  <1>3. CASE MarkRolledBack(r)
    <2> DEFINE x == rel[r].prev
    <2>1. /\ run[r].pc = "prev" /\ r \in Live /\ UNCHANGED <<batch, req>>
          /\ rel' = UpdateStatus(x, "rolled_back") \/ rel' = rel
      BY <1>0, <1>3 DEF MarkRolledBack
    <2>2. run'[r].pc = "read" /\ \A q \in Release \ {r} : run'[q] = run[q]
      BY <1>3 DEF MarkRolledBack, TypeOK, Run
    <2>3. x \in Live \/ x \notin Release
      BY <1>0, Ranges DEF RowsInv
    <2> HIDE DEF x
    <2>4. CASE r \in Children(b)
      <3>1. rel'[r].status # "none" /\ rel'[r].batch = b
        BY <2>1, <2>4 DEF UpdateStatus, TypeOK, ReleaseRow, Children
      <3>2. r \in Children(b)'
        BY <3>1 DEF Children
      <3> QED
        BY <2>2, <3>2 DEF Busy
    <2>5. CASE r \notin Children(b)
      <3>1. \A q \in Children(b) : run'[q] = run[q]
        BY <2>2, <2>5 DEF Children
      <3>2. Alike(b)
        BY <2>1, <2>3, <3>1, SameRowsAlike, OverruledAlike
      <3> QED
        BY <2>1, <3>1, <3>2, AllSteady, NothingForBatch
    <2> QED
      BY <2>4, <2>5
  <1>4. CASE RunReconcileRead(r)
    <2> DEFINE q == [pc |-> "write", agg |-> Aggregate(rel[r].batch)]
    <2>1. run[r].pc = "read" /\ run' = [run EXCEPT ![r] = q] /\ UNCHANGED <<rel, batch, req>>
      BY <1>4 DEF RunReconcileRead
    <2>2. run'[r].pc = "write" /\ \A d \in Release \ {r} : run'[d] = run[d]
      BY <2>1 DEF TypeOK
    <2>3. r \notin Children(b)
      BY <2>1, <2>2 DEF Reads
    <2>4. \A d \in Children(b) : run'[d] = run[d]
      BY <2>2, <2>3 DEF Children
    <2> QED
      BY <2>1, <2>4, SameRowsAlike, AllSteady, NothingForBatch
  <1>5. CASE RunReconcileWrite(r)
    BY <1>0, <1>5, RunWrites DEF RunReconcileWrite
  <1>6. CASE RunMarkLost(r) \/ RunCut(r)
    <2>1. /\ failures' = failures + 1 /\ UNCHANGED <<rel, batch, req>>
          /\ run'[r].pc # run[r].pc /\ \A d \in Release \ {r} : run'[d] = run[d]
      BY <1>6 DEF RunMarkLost, RunCut, TypeOK, Run, NoRun
    <2>2. r \notin Children(b)
      BY <2>1 DEF Cut, TypeOK
    <2>3. \A d \in Children(b) : run'[d] = run[d]
      BY <2>1, <2>2 DEF Children
    <2> QED
      BY <2>1, <2>3, SameRowsAlike, AllSteady, NothingForBatch
  <1> QED
    BY <1>1, <1>2, <1>3, <1>4, <1>5, <1>6 DEF RunStep

\* Who reads is a Reconcile of the batch.
LEMMA WhoReads ==
    ASSUME TypeOK, Next
    PROVE  /\ \A r \in Release : run[r].pc = "read" /\ run'[r].pc = "write" => RunReconcileRead(r)
           /\ \A c \in Client : req[c].pc = "fan" /\ req'[c].pc = "write" => ReconcileRead(c)
  <1>1. ASSUME NEW d \in Client,
               \/ DeployEnv(d) \/ HandlerStep(d) \/ RequestCut(d) \/ MarkLost(d)
               \/ \E b \in Batch : RollbackEnv(d, b)
               \/ \E r \in Release : Redeploy(d, r) \/ Verify(d, r),
               NEW r \in Release, run[r].pc = "read"
        PROVE  run'[r].pc # "write"
    <2>1. CASE UNCHANGED run
      BY <1>1, <2>1
    <2>2. ASSUME NEW x, StartRun(x) PROVE run'[r].pc # "write"
      BY <1>1, <2>2 DEF StartRun, TypeOK, Run
    <2>3. CASE DeployEnv(d) \/ RequestCut(d) \/ MarkLost(d) \/ \E b \in Batch : RollbackEnv(d, b)
      BY <2>1, <2>3, Zenon DEF DeployEnv, RequestCut, MarkLost, RollbackEnv
    <2>4. CASE HandlerStep(d)
      BY <2>1, <2>2, <2>4, Zenon DEF HandlerStep, RollbackGuard, RollbackPlan, DraftChild, DraftFails,
           DeployChild, DeployChildFails, MarkRollingBack, ReconcileRead, ReconcileWrite, VerifyWrite
    <2>5. CASE \E x \in Release : Redeploy(d, x) \/ Verify(d, x)
      BY <2>1, <2>2, <2>5, Zenon DEF Redeploy, Verify
    <2> QED
      BY <1>1, <2>3, <2>4, <2>5
  <1>2. ASSUME NEW d \in Release, RunStep(d) \/ RunMarkLost(d) \/ RunCut(d),
               NEW r \in Release, run[r].pc = "read", run'[r].pc = "write"
        PROVE  RunReconcileRead(r)
    <2>1. CASE \E pc \in {"prev", "read"} : run' = [run EXCEPT ![d].pc = pc]
      BY <1>2, <2>1 DEF TypeOK, Run
    <2>2. CASE RunReconcileRead(d)
      BY <1>2, <2>2 DEF RunReconcileRead, TypeOK
    <2>3. CASE run' = [run EXCEPT ![d] = NoRun]
      BY <1>2, <2>3 DEF TypeOK, NoRun
    <2> QED
      BY <1>2, <2>1, <2>2, <2>3
      DEF RunStep, RunSucceeds, RunFails, MarkRolledBack, RunReconcileWrite, RunMarkLost, RunCut
  <1>3. ASSUME NEW c \in Client, req[c].pc = "fan", req'[c].pc = "write" PROVE ReconcileRead(c)
    <2>1. req'[c] # req[c] /\ req[c] \in Request
      BY <1>3 DEF TypeOK
    <2>2. ASSUME NEW d \in Client, NEW q, req' = [req EXCEPT ![d] = q] PROVE d = c /\ q.pc = "write"
      BY <1>3, <2>1, <2>2 DEF TypeOK
    <2>3. ASSUME NEW d \in Client, NEW of, NEW todo, CreateBatch(d, of, todo) PROVE FALSE
      <3>1. PICK b \in Batch :
              req' = [req EXCEPT ![d] = [Idle EXCEPT !.pc = "fan", !.batch = b,
                                                     !.of = of, !.todo = todo]]
        BY <2>3, Zenon DEF CreateBatch
      <3>2. [Idle EXCEPT !.pc = "fan", !.batch = b, !.of = of, !.todo = todo].pc = "fan"
        BY DEF Idle
      <3> QED
        BY <2>2, <3>1, <3>2
    <2>4. ASSUME NEW d \in Client, NEW pc,
                 req' = [req EXCEPT ![d].pc = pc] \/ req' = [req EXCEPT ![d].pc = pc, ![d].rel = 0]
          PROVE  d = c /\ pc = "write"
      <3>1. CASE req' = [req EXCEPT ![d].pc = pc]
        BY <1>3, <2>1, <3>1 DEF TypeOK, Request
      <3>2. CASE req' = [req EXCEPT ![d].pc = pc, ![d].rel = 0]
        <4> DEFINE q == [req[d] EXCEPT !.pc = pc, !.rel = 0]
        <4>1. req' = [req EXCEPT ![d] = q]
          BY <3>2, ZenonT(60) DEF TypeOK
        <4>2. q.pc = pc
          BY DEF TypeOK, Request
        <4> QED
          BY <2>2, <4>1, <4>2
      <3> QED
        BY <2>4, <3>1, <3>2
    <2>5. Idle.pc = "idle"
      BY DEF Idle
    <2>6. ASSUME NEW d \in Client, UNCHANGED req \/ req' = [req EXCEPT ![d] = Idle] PROVE FALSE
      BY <2>1, <2>2, <2>5, <2>6
    <2>7. ASSUME NEW d \in Client, DraftChild(d) PROVE FALSE
      <3>1. PICK x \in req[d].todo, r \in Release :
               req' = [req EXCEPT ![d].pc = "deploy", ![d].rel = r, ![d].todo = @ \ {x}]
        BY <2>7, Zenon DEF DraftChild
      <3> DEFINE q == [req[d] EXCEPT !.pc = "deploy", !.rel = r, !.todo = req[d].todo \ {x}]
      <3>2. req' = [req EXCEPT ![d] = q]
        BY <3>1, ZenonT(60) DEF TypeOK
      <3>3. q.pc = "deploy"
        BY DEF TypeOK, Request
      <3> HIDE DEF q
      <3> QED
        BY <2>2, <3>2, <3>3
    <2>8. ASSUME NEW d \in Client, DraftFails(d) PROVE FALSE
      <3>1. PICK x \in req[d].todo : req' = [req EXCEPT ![d].todo = @ \ {x}]
        BY <2>8, Zenon DEF DraftFails
      <3> QED
        BY <1>3, <2>1, <3>1 DEF TypeOK, Request
    <2>9. ASSUME NEW d \in Client, NEW b \in Batch, RollbackEnv(d, b) PROVE FALSE
      <3> DEFINE bad == {r \in Children(b) : rel[r].status \notin {"draft", "failed", "rolled_back"}}
                 q == [Idle EXCEPT !.pc = "guard", !.of = b, !.todo = bad]
      <3>1. req' = [req EXCEPT ![d] = q]
        BY <2>9, Zenon DEF RollbackEnv
      <3>2. q.pc = "guard"
        BY DEF Idle
      <3> HIDE DEF q
      <3> QED
        BY <2>2, <3>1, <3>2
    <2>10. ASSUME NEW d \in Client, NEW r, Verify(d, r) PROVE FALSE
      <3> DEFINE q == [Idle EXCEPT !.pc = "verify", !.rel = r]
      <3>1. req' = [req EXCEPT ![d] = q]
        BY <2>10, Zenon DEF Verify
      <3>2. q.pc = "verify"
        BY DEF Idle
      <3> HIDE DEF q
      <3> QED
        BY <2>2, <3>1, <3>2
    <2>11. ASSUME NEW d \in Client, ReconcileRead(d) PROVE d = c
      <3> DEFINE q == [req[d] EXCEPT !.pc = "write", !.agg = Aggregate(req[d].batch)]
      <3>1. req' = [req EXCEPT ![d] = q]
        BY <2>11, ZenonT(60) DEF ReconcileRead, TypeOK
      <3> HIDE DEF q
      <3> QED
        BY <2>2, <3>1
    <2>12. ASSUME NEW d \in Client, HandlerStep(d) PROVE d = c /\ ReconcileRead(c)
      <3>1. CASE RollbackGuard(d) \/ MarkRollingBack(d) \/ DeployChild(d) \/ DeployChildFails(d)
        <4>1. \E pc \in {"plan", "fan", "rolling"} :
                 \/ req' = [req EXCEPT ![d] = Idle]
                 \/ req' = [req EXCEPT ![d].pc = pc]
                 \/ req' = [req EXCEPT ![d].pc = pc, ![d].rel = 0]
          BY <3>1 DEF RollbackGuard, MarkRollingBack, DeployChild, DeployChildFails
        <4> QED
          BY <2>4, <2>6, <4>1
      <3>2. CASE RollbackPlan(d) \/ ReconcileWrite(d) \/ VerifyWrite(d)
        BY <2>3, <2>6, <3>2 DEF RollbackPlan, ReconcileWrite, VerifyWrite
      <3> QED
        BY <2>7, <2>8, <2>11, <2>12, <3>1, <3>2 DEF HandlerStep
    <2>13. ASSUME NEW d \in Client, DeployEnv(d) PROVE FALSE
      BY <2>3, <2>13 DEF DeployEnv
    <2>14. ASSUME NEW d \in Client, RequestCut(d) PROVE FALSE
      BY <2>6, <2>14 DEF RequestCut
    <2>15. ASSUME NEW d \in Client, NEW r \in Release, Redeploy(d, r) PROVE FALSE
      BY <2>6, <2>15 DEF Redeploy
    <2>16. ASSUME NEW r \in Release, RunStep(r) \/ RunMarkLost(r) \/ RunCut(r) PROVE FALSE
      BY <2>1, <2>16 DEF RunStep, RunSucceeds, RunFails, MarkRolledBack, RunReconcileRead,
                         RunReconcileWrite, RunMarkLost, RunCut
    <2>17. ASSUME NEW d \in Client, MarkLost(d) PROVE FALSE
      <3>1. req' = [req EXCEPT ![d].pc = "fan", ![d].rel = 0]
        BY <2>17 DEF MarkLost
      <3>2. "fan" = "write"
        BY <2>4, <3>1
      <3> QED
        BY <3>2
    <2> QED
      BY <2>9, <2>10, <2>12, <2>13, <2>14, <2>15, <2>16, <2>17 DEF Next
  <1> QED
    BY <1>1, <1>2, <1>3, Zenon DEF Next

\* One that reads while nobody is about to write knows the children as they are.
LEMMA ReadAlone ==
    ASSUME TypeOK, NEW b \in Batch, Next, Reads(b), ~Reconciling(b)
    PROVE  Known(b)'
  <1>1. \A r \in Children(b) : r \in Release /\ rel[r].batch = b
    BY DEF Children
  <1>2. ASSUME NEW c \in Client, req[c].batch = b, ReconcileRead(c) PROVE Known(b)'
    <2> DEFINE q == [req[c] EXCEPT !.pc = "write", !.agg = Aggregate(b)]
    <2>1. req' = [req EXCEPT ![c] = q] /\ UNCHANGED <<rel, batch, run>>
      BY <1>2, ZenonT(60) DEF ReconcileRead, TypeOK
    <2>2. q.pc = "write" /\ q.batch = b /\ q.agg = Aggregate(b)
      BY <1>2 DEF TypeOK, Request
    <2> HIDE DEF q
    <2>3. req'[c] = q /\ \A d \in Client \ {c} : req'[d] = req[d]
      BY <2>1 DEF TypeOK
    <2>4. Alike(b) /\ Aggregate(b)' = Aggregate(b) /\ Children(b)' = Children(b)
      BY <2>1, SameRowsAlike, SameAggregate DEF Children
    <2>5. \A d \in Client : Writes(req'[d], b) => d = c
      BY <2>3 DEF Reconciling, Writes
    <2>6. Reconciling(b)'
      BY <2>2, <2>3 DEF Reconciling
    <2>7. \A r \in Children(b) : run'[r].pc # "write"
      BY <2>1 DEF Reconciling
    <2> QED
      BY <2>2, <2>3, <2>4, <2>5, <2>6, <2>7 DEF Known
  <1>3. ASSUME NEW r \in Children(b), RunReconcileRead(r) PROVE Known(b)'
    <2>1. /\ run' = [run EXCEPT ![r] = [pc |-> "write", agg |-> Aggregate(b)]]
          /\ UNCHANGED <<rel, batch, req>>
      BY <1>1, <1>3 DEF RunReconcileRead
    <2>2. /\ run'[r].pc = "write" /\ run'[r].agg = Aggregate(b)
          /\ \A d \in Release \ {r} : run'[d] = run[d]
      BY <1>1, <2>1 DEF TypeOK
    <2>4. Alike(b) /\ Aggregate(b)' = Aggregate(b) /\ Children(b)' = Children(b)
      BY <2>1, SameRowsAlike, SameAggregate DEF Children
    <2>5. \A d \in Children(b) : run'[d].pc = "write" => d = r
      BY <1>1, <2>2 DEF Reconciling
    <2>6. Reconciling(b)'
      BY <2>2, <2>4 DEF Reconciling
    <2>7. \A c \in Client : ~Writes(req'[c], b)
      BY <2>1 DEF Reconciling, Writes
    <2> QED
      BY <2>2, <2>4, <2>5, <2>6, <2>7 DEF Known
  <1>4. CASE \E r \in Children(b) : run[r].pc = "read" /\ run'[r].pc = "write"
    <2>1. PICK r \in Children(b) : run[r].pc = "read" /\ run'[r].pc = "write"
      BY <1>4
    <2>2. r \in Release
      BY <1>1
    <2>3. RunReconcileRead(r)
      BY <2>1, <2>2, WhoReads
    <2> QED
      BY <1>3, <2>3
  <1>5. CASE \E c \in Client : req[c].pc = "fan" /\ req'[c].pc = "write" /\ req[c].batch = b
    <2>1. PICK c \in Client : req[c].pc = "fan" /\ req'[c].pc = "write" /\ req[c].batch = b
      BY <1>5
    <2>2. ReconcileRead(c)
      BY <2>1, WhoReads
    <2> QED
      BY <1>2, <2>1, <2>2
  <1> QED
    BY <1>4, <1>5 DEF Reads

\* What batch a row belongs to never changes.
LEMMA BatchesKept ==
    ASSUME TypeOK, Next
    PROVE  \A r \in Live : rel'[r].batch = rel[r].batch
  <1> SUFFICES ASSUME NEW r \in Live PROVE rel'[r].batch = rel[r].batch
    OBVIOUS
  <1>0. r \in Release /\ rel[r].status # "none" /\ rel \in [Release -> ReleaseRow]
    BY DEF Live, TypeOK
  <1>1. CASE UNCHANGED rel
    BY <1>1
  <1>2. ASSUME NEW x, NEW status, rel' = UpdateStatus(x, status) PROVE rel'[r].batch = rel[r].batch
    BY <1>0, <1>2 DEF UpdateStatus, ReleaseRow
  <1>3. ASSUME NEW x, StartRun(x) PROVE rel'[r].batch = rel[r].batch
    <2>1. rel' = [rel EXCEPT ![x].status = "deploying", ![x].started = TRUE]
      BY <1>3 DEF StartRun
    <2>2. CASE x = r
      <3>1. rel'[r] = [rel[r] EXCEPT !.status = "deploying", !.started = TRUE]
        BY <1>0, <2>1, <2>2
      <3> QED
        BY <1>0, <3>1 DEF ReleaseRow
    <2>3. CASE x # r
      BY <1>0, <2>1, <2>3
    <2> QED
      BY <2>2, <2>3
  <1>4. ASSUME NEW c \in Client, DraftChild(c) PROVE rel'[r].batch = rel[r].batch
    <2>1. PICK x \in Release : IsNextRelease(x) /\ \E q : rel' = [rel EXCEPT ![x] = q]
      BY <1>4, Zenon DEF DraftChild
    <2> QED
      BY <1>0, <2>1 DEF IsNextRelease
  <1>5. ASSUME NEW c \in Client, HandlerStep(c) PROVE rel'[r].batch = rel[r].batch
    BY <1>1, <1>2, <1>3, <1>4, <1>5, Zenon
    DEF HandlerStep, RollbackGuard, RollbackPlan, DraftFails, DeployChild, DeployChildFails,
        MarkRollingBack, ReconcileRead, ReconcileWrite, VerifyWrite
  <1>6. ASSUME NEW c \in Client,
               \/ DeployEnv(c) \/ RequestCut(c) \/ MarkLost(c) \/ \E b \in Batch : RollbackEnv(c, b)
               \/ \E x \in Release : Redeploy(c, x) \/ Verify(c, x)
        PROVE  rel'[r].batch = rel[r].batch
    BY <1>1, <1>3, <1>6, Zenon DEF DeployEnv, RequestCut, MarkLost, RollbackEnv, Redeploy, Verify
  <1>7. ASSUME NEW x \in Release, RunStep(x) \/ RunMarkLost(x) \/ RunCut(x)
        PROVE  rel'[r].batch = rel[r].batch
    BY <1>1, <1>2, <1>7, Zenon
    DEF RunStep, RunSucceeds, RunFails, MarkRolledBack, RunReconcileRead, RunReconcileWrite,
        RunMarkLost, RunCut
  <1> QED
    BY <1>5, <1>6, <1>7, Zenon DEF Next

\* A handler comes to a child by drafting it, and stays with it until it is done.
StaysWith(q, q2) ==
    q2.pc \in {"deploy", "rolling"} =>
        q.pc \in {"deploy", "rolling"} /\ q2.rel = q.rel /\ q2.batch = q.batch

LEMMA HandlersStay ==
    ASSUME TypeOK, Next, NEW d \in Client
    PROVE  DraftChild(d) \/ StaysWith(req[d], req'[d])
  <1>0. req \in [Client -> Request]
    BY DEF TypeOK
  <1>1. ASSUME UNCHANGED req PROVE StaysWith(req[d], req'[d])
    BY <1>1 DEF StaysWith
  <1>2. ASSUME NEW c \in Client, NEW q, req' = [req EXCEPT ![c] = q],
               q.pc \notin {"deploy", "rolling"}
        PROVE  StaysWith(req[d], req'[d])
    BY <1>0, <1>2 DEF StaysWith
  <1>3. ASSUME NEW c \in Client, NEW of, NEW todo, CreateBatch(c, of, todo)
        PROVE  StaysWith(req[d], req'[d])
    <2>1. PICK b \in Batch :
            req' = [req EXCEPT ![c] = [Idle EXCEPT !.pc = "fan", !.batch = b,
                                                   !.of = of, !.todo = todo]]
      BY <1>3, Zenon DEF CreateBatch
    <2>2. [Idle EXCEPT !.pc = "fan", !.batch = b, !.of = of, !.todo = todo].pc = "fan"
      BY DEF Idle
    <2> QED
      BY <1>2, <2>1, <2>2
  <1>4. ASSUME NEW c \in Client, NEW pc \in {"fan", "plan", "rolling"},
               \/ req' = [req EXCEPT ![c].pc = pc, ![c].rel = 0] /\ pc # "rolling"
               \/ req' = [req EXCEPT ![c].pc = pc] /\ (pc = "rolling" => req[c].pc = "deploy")
        PROVE  StaysWith(req[d], req'[d])
    <2>1. CASE req' = [req EXCEPT ![c].pc = pc] /\ (pc = "rolling" => req[c].pc = "deploy")
      BY <1>0, <2>1 DEF StaysWith, Request
    <2>2. CASE req' = [req EXCEPT ![c].pc = pc, ![c].rel = 0] /\ pc # "rolling"
      <3> DEFINE q == [req[c] EXCEPT !.pc = pc, !.rel = 0]
      <3>1. req' = [req EXCEPT ![c] = q]
        BY <1>0, <2>2, ZenonT(60)
      <3>2. q.pc = pc
        BY <1>0 DEF Request
      <3> HIDE DEF q
      <3> QED
        BY <1>2, <2>2, <3>1, <3>2
    <2> QED
      BY <1>4, <2>1, <2>2
  <1>5. Idle.pc = "idle"
    BY DEF Idle
  <1>6. ASSUME NEW c \in Client, req' = [req EXCEPT ![c] = Idle] PROVE StaysWith(req[d], req'[d])
    BY <1>2, <1>5, <1>6
  <1>7. ASSUME NEW c \in Client, DraftChild(c) PROVE DraftChild(d) \/ StaysWith(req[d], req'[d])
    <2>1. \E x \in req[c].todo, r \in Release :
             req' = [req EXCEPT ![c].pc = "deploy", ![c].rel = r, ![c].todo = @ \ {x}]
      BY <1>7, Zenon DEF DraftChild
    <2>2. CASE c = d
      BY <1>7, <2>2
    <2>3. CASE c # d
      <3>1. req'[d] = req[d]
        BY <1>0, <2>1, <2>3
      <3> QED
        BY <3>1 DEF StaysWith
    <2> QED
      BY <2>2, <2>3
  <1>8. ASSUME NEW c \in Client, DraftFails(c) PROVE StaysWith(req[d], req'[d])
    <2>1. PICK x \in req[c].todo : req' = [req EXCEPT ![c].todo = @ \ {x}]
      BY <1>8, Zenon DEF DraftFails
    <2>2. req[c].pc = "fan"
      BY <1>8 DEF DraftFails
    <2> QED
      BY <1>0, <2>1, <2>2 DEF StaysWith, Request
  <1>9. ASSUME NEW c \in Client, ReconcileRead(c) PROVE StaysWith(req[d], req'[d])
    <2> DEFINE q == [req[c] EXCEPT !.pc = "write", !.agg = Aggregate(req[c].batch)]
    <2>1. req' = [req EXCEPT ![c] = q]
      BY <1>0, <1>9, ZenonT(60) DEF ReconcileRead
    <2>2. q.pc = "write"
      BY <1>0 DEF Request
    <2> HIDE DEF q
    <2> QED
      BY <1>2, <2>1, <2>2
  <1>10. ASSUME NEW c \in Client, HandlerStep(c) PROVE DraftChild(d) \/ StaysWith(req[d], req'[d])
    <2>1. CASE RollbackGuard(c) \/ MarkRollingBack(c) \/ DeployChildFails(c)
      BY <1>4, <1>6, <2>1 DEF RollbackGuard, MarkRollingBack, DeployChildFails
    <2>2. CASE DeployChild(c)
      <3>1. CASE req' = [req EXCEPT ![c].pc = "fan", ![c].rel = 0]
        BY <1>4, <3>1
      <3>2. CASE req' = [req EXCEPT ![c].pc = "rolling"]
        BY <1>4, <2>2, <3>2 DEF DeployChild
      <3> QED
        BY <2>2, <3>1, <3>2 DEF DeployChild
    <2>3. CASE RollbackPlan(c) \/ ReconcileWrite(c) \/ VerifyWrite(c)
      BY <1>3, <1>6, <2>3 DEF RollbackPlan, ReconcileWrite, VerifyWrite
    <2> QED
      BY <1>7, <1>8, <1>9, <1>10, <2>1, <2>2, <2>3 DEF HandlerStep
  <1>11. ASSUME NEW c \in Client, NEW b \in Batch, RollbackEnv(c, b)
         PROVE  StaysWith(req[d], req'[d])
    <2> DEFINE bad == {r \in Children(b) : rel[r].status \notin {"draft", "failed", "rolled_back"}}
               q == [Idle EXCEPT !.pc = "guard", !.of = b, !.todo = bad]
    <2>1. req' = [req EXCEPT ![c] = q]
      BY <1>11, Zenon DEF RollbackEnv
    <2>2. q.pc = "guard"
      BY DEF Idle
    <2> HIDE DEF q
    <2> QED
      BY <1>2, <2>1, <2>2
  <1>12. ASSUME NEW c \in Client, NEW r \in Release, Verify(c, r) PROVE StaysWith(req[d], req'[d])
    <2> DEFINE q == [Idle EXCEPT !.pc = "verify", !.rel = r]
    <2>1. req' = [req EXCEPT ![c] = q]
      BY <1>12, Zenon DEF Verify
    <2>2. q.pc = "verify"
      BY DEF Idle
    <2> HIDE DEF q
    <2> QED
      BY <1>2, <2>1, <2>2
  <1>13. ASSUME NEW c \in Client, DeployEnv(c) \/ RequestCut(c) \/ \E r \in Release : Redeploy(c, r)
         PROVE  StaysWith(req[d], req'[d])
    <2>1. CASE DeployEnv(c)
      BY <1>3, <2>1, Zenon DEF DeployEnv
    <2>2. CASE RequestCut(c)
      BY <1>6, <2>2, Zenon DEF RequestCut
    <2>3. CASE \E r \in Release : Redeploy(c, r)
      <3>1. UNCHANGED req
        BY <2>3 DEF Redeploy
      <3> QED
        BY <1>1, <3>1
    <2> QED
      BY <1>13, <2>1, <2>2, <2>3
  <1>14. ASSUME NEW r \in Release, RunStep(r) \/ RunMarkLost(r) \/ RunCut(r)
         PROVE  StaysWith(req[d], req'[d])
    <2>1. UNCHANGED req
      BY <1>14
      DEF RunStep, RunSucceeds, RunFails, MarkRolledBack, RunReconcileRead, RunReconcileWrite,
          RunMarkLost, RunCut
    <2> QED
      BY <1>1, <2>1
  <1>15. ASSUME NEW c \in Client, MarkLost(c) PROVE StaysWith(req[d], req'[d])
    BY <1>4, <1>15 DEF MarkLost
  <1> QED
    BY <1>10, <1>11, <1>12, <1>13, <1>14, <1>15 DEF Next

LEMMA OwnChildrenKept ==
    ASSUME TypeOK, Inv, OwnChildren, Next
    PROVE  OwnChildren'
  <1> SUFFICES ASSUME NEW d \in Client, req'[d].pc \in {"deploy", "rolling"}
               PROVE  rel'[req'[d].rel].batch = req'[d].batch
    BY DEF OwnChildren
  <1>1. CASE StaysWith(req[d], req'[d])
    <2>1. req[d].rel \in Live /\ rel[req[d].rel].batch = req[d].batch
      BY <1>1 DEF StaysWith, OwnChildren, Inv, HandlersInv, HandlerOK
    <2> QED
      BY <1>1, <2>1, BatchesKept DEF StaysWith
  <1>2. CASE DraftChild(d)
    <2>1. PICK x \in req[d].todo, r \in Release :
            /\ rel' = [rel EXCEPT ![r] =
                [status |-> "draft", batch |-> req[d].batch,
                 started |-> FALSE,
                 inst |-> IF req[d].of = 0 THEN x ELSE rel[x].inst,
                 prev |-> IF req[d].of = 0 THEN 0 ELSE x]]
            /\ req' = [req EXCEPT ![d].pc = "deploy", ![d].rel = r, ![d].todo = @ \ {x}]
      BY <1>2, Zenon DEF DraftChild
    <2> DEFINE q == [req[d] EXCEPT !.pc = "deploy", !.rel = r, !.todo = req[d].todo \ {x}]
    <2>2. req' = [req EXCEPT ![d] = q]
      BY <2>1, ZenonT(60) DEF TypeOK
    <2>3. q.rel = r /\ q.batch = req[d].batch
      BY DEF TypeOK, Request
    <2> HIDE DEF q
    <2>4. rel'[r].batch = req[d].batch
      BY <2>1 DEF TypeOK
    <2>5. req'[d] = q
      BY <2>2 DEF TypeOK
    <2> QED
      BY <2>3, <2>4, <2>5
  <1> QED
    BY <1>1, <1>2, HandlersStay

\* A step keeps the invariant: a batch that nothing disturbs is busy, or known.
LEMMA AggStep ==
    ASSUME TypeOK, Inv, AggInv, [AggNext]_aggVars
    PROVE  AggInv'
  <1>1. CASE UNCHANGED aggVars
    <2>1. UNCHANGED <<rel, batch, run, req, disturbed>>
      BY <1>1 DEF aggVars, vars
    <2>2. OwnChildren'
      BY <2>1 DEF AggInv, OwnChildren
    <2>3. ASSUME NEW b \in Batch, Busy(b) \/ Known(b) PROVE (Busy(b) \/ Known(b))'
      BY <2>1, <2>3, SameRowsAlike, AllSteady, NothingForBatch
    <2> QED
      BY <2>1, <2>2, <2>3 DEF AggInv
  <1>2. CASE AggNext
    <2>1. OwnChildren'
      BY <1>2, OwnChildrenKept DEF AggNext, AggInv
    <2>2. ASSUME NEW b \in Batch, b \notin disturbed' PROVE (Busy(b) \/ Known(b))'
      <3>1. IF Reads(b) THEN ~Reconciling(b)
            ELSE b \notin disturbed /\ ~Cut(b) /\ ~Overruled(b)
        BY <1>2, <2>2 DEF AggNext, Disturb
      <3>2. CASE Reads(b)
        BY <1>2, <3>1, <3>2, ReadAlone DEF AggNext
      <3>3. CASE ~Reads(b)
        <4>1. OwnChildren /\ (Busy(b) \/ Known(b))
          BY <3>1, <3>3 DEF AggInv
        <4> QED
          BY <1>2, <3>1, <3>3, <4>1, ClientAgg, RunAgg DEF AggNext, Next
      <3> QED
        BY <3>2, <3>3
    <2> QED
      BY <2>1, <2>2 DEF AggInv
  <1> QED
    BY <1>1, <1>2

\* A settled batch has the aggregate of its children, however many handlers and
\* runs worked on it and in whatever order they ended, unless two Reconciles of it
\* overlapped, its request or a run of a child was cut or lost a write, or a
\* child's outcome was written by another.
THEOREM SettledBatchesAreCounted == AggSpec => []SettledIsCounted
  <1>1. AggInit => TypeOK /\ Inv /\ AggInv
    BY AggStarts, Inductive DEF AggInit
  <1>2. TypeOK /\ Inv /\ AggInv /\ [AggNext]_aggVars => (TypeOK /\ Inv /\ AggInv)'
    BY AggStep, Inductive DEF AggNext, aggVars
  <1>3. AggInv => SettledIsCounted
    <2> SUFFICES ASSUME AggInv, NEW b \in Batch \ disturbed, Settled(b)
                 PROVE  batch[b].agg = Aggregate(b)
      BY DEF SettledIsCounted
    <2>1. ~Busy(b)
      BY DEF Settled, Busy, Owes
    <2>2. Known(b)
      BY <2>1 DEF AggInv
    <2>3. ~Reconciling(b)
      BY DEF Settled, Reconciling
    <2> QED
      BY <2>2, <2>3 DEF Known, Settled
  <1> QED
    BY <1>1, <1>2, <1>3, PTL DEF AggSpec
=============================================================================
