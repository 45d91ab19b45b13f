----------------------- MODULE InstanceLifecycleProofs -----------------------
(***************************************************************************)
(* Machine-checked proofs about InstanceLifecycle, for any number of       *)
(* requests, instances, machines, outages and restarts.                    *)
(***************************************************************************)
EXTENDS InstanceLifecycle, TLAPS

\* A client that works on an instance has its token in that instance's lock.
HoldsLock ==
    \A c \in Client : Working(c, proc[c].inst) => lock[proc[c].inst] = c

\* What a request knows at its program counter: a deletion past its check under
\* the lock still has a stopped row, a sync step has a backend.
KnowsRow ==
    \A c \in Client :
        /\ proc[c].pc \in {"recheck", "delete"} => proc[c].op = "delete"
        /\ proc[c].pc = "delete" => tgt[proc[c].inst] = "stopped"
        /\ proc[c].pc = "routes_sync" => proc[c].back # {}

Inv == TypeOK /\ HoldsLock /\ KnowsRow
-----------------------------------------------------------------------------
LEMMA IdleType == Idle \in Proc
  <1>1. (CHOOSE i \in Instance : TRUE) \in Instance
    BY ConstantsAssumption
  <1> QED
    BY <1>1 DEF Idle, Proc, PC, Op

LEMMA InitInv == Init => Inv
  <1> SUFFICES ASSUME Init PROVE Inv
    OBVIOUS
  <1>1. TypeOK
    BY IdleType, ConstantsAssumption DEF Init, TypeOK, RuntimeState
  <1>2. HoldsLock /\ KnowsRow
    BY DEF Init, HoldsLock, KnowsRow, Working, Idle
  <1> QED
    BY <1>1, <1>2 DEF Inv

-----------------------------------------------------------------------------
(***************************************************************************)
(* Type correctness.                                                       *)
(***************************************************************************)
LEMMA GotoType ==
    ASSUME TypeOK, NEW c \in Client, NEW pc \in PC, Goto(c, pc)
    PROVE  proc' \in [Client -> Proc]
  BY DEF TypeOK, Goto, Proc

LEMMA PlannedType ==
    ASSUME TypeOK, NEW c \in Client, NEW pc \in PC, NEW back \in SUBSET Instance,
           Planned(c, pc, back)
    PROVE  proc' \in [Client -> Proc]
  <1>1. proc[c] \in Proc
    BY DEF TypeOK
  <1>2. [proc[c] EXCEPT !.pc = pc, !.back = back] \in Proc
    BY <1>1 DEF Proc
  <1> QED
    BY <1>2 DEF TypeOK, Planned

LEMMA ReturnType ==
    ASSUME TypeOK, NEW c \in Client, Return(c)
    PROVE  proc' \in [Client -> Proc]
  BY IdleType DEF TypeOK, Return

LEMMA ReleaseKeyType ==
    ASSUME TypeOK, NEW c \in Client, ReleaseKey(c)
    PROVE  lock' \in [Instance -> Client \cup {Free}]
  BY DEF TypeOK, ReleaseKey

LEMMA DesiredStateType ==
    ASSUME TypeOK, NEW i, NEW state \in RuntimeState, SetInstanceDesiredState(i, state)
    PROVE  tgt' \in [Instance -> RuntimeState]
  BY DEF TypeOK, SetInstanceDesiredState

LEMMA PCs ==
    /\ PC = {"idle", "lock", "build", "compose_up", "routes_sync", "flip", "set_stopped",
             "build_teardown", "drain", "compose_down", "recheck", "delete", "alert", "unlock"}
    /\ RuntimeState = {"running", "stopped", "deleted"}
    /\ Op = {"none", "deploy", "decommission", "delete"}
  BY DEF PC, RuntimeState, Op

LEMMA RequestType ==
    ASSUME TypeOK, NEW c \in Client, NEW i \in Instance, NEW op \in Op, Request(c, i, op)
    PROVE  TypeOK'
  <1>1. [pc |-> "lock", op |-> op, inst |-> i, stopped |-> tgt[i] = "stopped",
         back |-> {}] \in Proc
    BY PCs DEF Proc
  <1>2. proc' \in [Client -> Proc]
    BY <1>1 DEF TypeOK, Request
  <1>3. ops' \in 0..MaxOps
    BY ConstantsAssumption DEF TypeOK, Request
  <1> QED
    BY <1>2, <1>3 DEF TypeOK, Request, world, monitor

LEMMA BackendsType == ResolveRouteBackends \subseteq Instance
  BY ConstantsAssumption DEF ResolveRouteBackends

LEMMA ProcStepType ==
    ASSUME Inv, NEW c \in Client, ProcStep(c) \/ HandlerFails(c)
    PROVE  TypeOK'
  <1> USE DEF Inv
  <1>0. proc[c] \in Proc /\ proc[c].inst \in Instance /\ proc[c].back \subseteq Instance
    BY DEF TypeOK, Proc
  <1>1. CASE Acquire(c)
    <2>1. lock' \in [Instance -> Client \cup {Free}]
      BY <1>0, <1>1 DEF Acquire, TypeOK
    <2>2. proc' \in [Client -> Proc]
      <3>1. Goto(c, "build") => proc' \in [Client -> Proc]
        BY GotoType, PCs
      <3>2. Goto(c, "set_stopped") => proc' \in [Client -> Proc]
        BY GotoType, PCs
      <3>3. Goto(c, "recheck") => proc' \in [Client -> Proc]
        BY GotoType, PCs
      <3> QED
        BY <1>1, <3>1, <3>2, <3>3, ReturnType DEF Acquire
    <2> QED
      BY <1>1, <2>1, <2>2 DEF Acquire, TypeOK, world, monitor, counters
  <1>2. CASE DeployBuild(c)
    <2>1. proc' \in [Client -> Proc]
      BY <1>2, PCs, BackendsType, PlannedType DEF DeployBuild
    <2> QED
      BY <1>2, <2>1 DEF DeployBuild, TypeOK, world, monitor, counters
  <1>3. CASE ComposeUp(c)
    <2>1. proc' \in [Client -> Proc]
      BY <1>3, GotoType, PCs DEF ComposeUp
    <2> QED
      BY <1>0, <1>3, <2>1 DEF ComposeUp, TypeOK, world, monitor, counters
  <1>4. CASE RoutesSync(c)
    <2>1. proc' \in [Client -> Proc]
      BY <1>4, GotoType, PCs DEF RoutesSync, GatewayRouteSync
    <2>2. proc[c].back # {}
      BY <1>4 DEF RoutesSync, KnowsRow, At
    <2> QED
      BY <1>0, <1>4, <2>1, <2>2
      DEF RoutesSync, GatewayRouteSync, TypeOK, world, monitor, counters
  <1>5. CASE DeploySucceeds(c)
    <2>1. proc' \in [Client -> Proc]
      BY <1>5, GotoType, PCs DEF DeploySucceeds
    <2>2. tgt' \in [Instance -> RuntimeState]
      BY <1>5, DesiredStateType, PCs DEF DeploySucceeds, TypeOK
    <2>3. rel' \in [Instance -> {"none", "pending_verify", "verified"}]
      BY <1>5 DEF DeploySucceeds, TypeOK
    <2> QED
      BY <1>5, <2>1, <2>2, <2>3 DEF DeploySucceeds, TypeOK, world, monitor, counters
  <1>6. CASE PersistStopped(c)
    <2>1. proc' \in [Client -> Proc]
      BY <1>6, GotoType, PCs DEF PersistStopped
    <2>2. tgt' \in [Instance -> RuntimeState]
      BY <1>6, DesiredStateType, PCs DEF PersistStopped
    <2> QED
      BY <1>6, <2>1, <2>2 DEF PersistStopped, TypeOK, world, monitor, counters
  <1>7. CASE BuildTeardown(c)
    <2>1. proc' \in [Client -> Proc]
      <3>1. ResolveRouteBackends \ {proc[c].inst} \in SUBSET Instance
        BY BackendsType
      <3> QED
        BY <1>7, <3>1, PCs, PlannedType DEF BuildTeardown
    <2> QED
      BY <1>7, <2>1 DEF BuildTeardown, TypeOK, world, monitor, counters
  <1>8. CASE GatewayDrain(c)
    <2>1. proc' \in [Client -> Proc]
      BY <1>8, GotoType, PCs DEF GatewayDrain, GatewayRouteSync
    <2> QED
      BY <1>0, <1>8, <2>1 DEF GatewayDrain, GatewayRouteSync, TypeOK, world, monitor, counters
  <1>9. CASE ComposeDown(c)
    <2>1. proc' \in [Client -> Proc]
      BY <1>9, GotoType, PCs DEF ComposeDown
    <2> QED
      BY <1>0, <1>9, <2>1 DEF ComposeDown, TypeOK, world, monitor, counters
  <1>10. CASE Recheck(c)
    <2>1. proc' \in [Client -> Proc]
      BY <1>10, GotoType, PCs DEF Recheck
    <2> QED
      BY <1>10, <2>1 DEF Recheck, TypeOK, world, monitor, counters
  <1>11. CASE DeleteRow(c)
    <2>1. proc' \in [Client -> Proc]
      BY <1>11, GotoType, PCs DEF DeleteRow
    <2> QED
      BY <1>11, <2>1, PCs DEF DeleteRow, TypeOK, world, monitor, counters
  <1>12. CASE StepFails(c)
    <2>1. proc' \in [Client -> Proc]
      BY <1>12, GotoType, PCs DEF StepFails
    <2>2. box' \in [Instance -> BOOLEAN] /\ proxy' \subseteq Instance
      BY <1>0, <1>12 DEF StepFails, TypeOK
    <2> QED
      BY <1>12, <2>1, <2>2 DEF StepFails, TypeOK, world, monitor, counters
  <1>13. CASE AlertSent(c)
    <2>1. proc' \in [Client -> Proc]
      BY <1>13, GotoType, PCs DEF AlertSent
    <2> QED
      BY <1>13, <2>1 DEF AlertSent, TypeOK, world, monitor, counters
  <1>14. CASE Unlock(c)
    <2>1. proc' \in [Client -> Proc] /\ lock' \in [Instance -> Client \cup {Free}]
      BY <1>14, ReturnType, ReleaseKeyType DEF Unlock
    <2> QED
      BY <1>14, <2>1 DEF Unlock, TypeOK, world, monitor, counters
  <1>15. CASE HandlerFails(c)
    <2>1. proc' \in [Client -> Proc] /\ lock' \in [Instance -> Client \cup {Free}]
      BY <1>15, ReturnType, ReleaseKeyType DEF HandlerFails, TypeOK
    <2> QED
      BY <1>15, <2>1 DEF HandlerFails, TypeOK, world, monitor, counters
  <1> QED
    BY <1>1, <1>2, <1>3, <1>4, <1>5, <1>6, <1>7, <1>8, <1>9, <1>10, <1>11, <1>12, <1>13,
       <1>14, <1>15 DEF ProcStep

LEMMA EnvironmentType ==
    ASSUME TypeOK,
           \/ MonitorStep \/ Crash
           \/ \E i \in Instance : VerifyRelease(i) \/ LockExpires(i)
           \/ \E m \in Machine : MachineDown(m) \/ MachineUp(m) \/ Heartbeat(m) \/ NodeRestart(m)
    PROVE  TypeOK'
  <1>1. CASE MonitorStep
    <2>1. ASSUME NEW m \in Machine, Evaluate(m) PROVE TypeOK'
      <3>1. ResyncProxies(m) \subseteq Instance
        BY DEF ResyncProxies, ResyncMachine
      <3> QED
        BY <2>1, <3>1 DEF Evaluate, TypeOK, world, counters
    <2>2. ASSUME NEW i \in Instance, ReconcileStopped(i) PROVE TypeOK'
      BY <2>2 DEF ReconcileStopped, TypeOK, world, counters
    <2> QED
      BY <1>1, <2>1, <2>2 DEF MonitorStep
  <1>2. CASE Crash
    <2>1. proc' \in [Client -> Proc]
      BY <1>2, IdleType DEF Crash
    <2>2. restarts' \in 0..MaxRestarts
      BY <1>2, ConstantsAssumption DEF Crash, TypeOK
    <2> QED
      BY <1>2, <2>1, <2>2 DEF Crash, TypeOK, world
  <1>3. ASSUME NEW i \in Instance, VerifyRelease(i) PROVE TypeOK'
    BY <1>3 DEF VerifyRelease, TypeOK, world, monitor, counters
  <1>4. ASSUME NEW i \in Instance, LockExpires(i) PROVE TypeOK'
    BY <1>4 DEF LockExpires, TypeOK, world, monitor, counters
  <1>5. ASSUME NEW m \in Machine, MachineDown(m) PROVE TypeOK'
    <2>1. outages' \in 0..MaxOutages
      BY <1>5, ConstantsAssumption DEF MachineDown, TypeOK
    <2> QED
      BY <1>5, <2>1 DEF MachineDown, TypeOK, monitor
  <1>6. ASSUME NEW m \in Machine, MachineUp(m) PROVE TypeOK'
    BY <1>6 DEF MachineUp, TypeOK, monitor, counters
  <1>7. ASSUME NEW m \in Machine, Heartbeat(m) PROVE TypeOK'
    BY <1>7 DEF Heartbeat, TypeOK, monitor, counters
  <1>8. ASSUME NEW m \in Machine, NodeRestart(m) PROVE TypeOK'
    <2>1. restarts' \in 0..MaxRestarts
      BY <1>8, ConstantsAssumption DEF NodeRestart, TypeOK
    <2> QED
      BY <1>8, <2>1 DEF NodeRestart, TypeOK, world, monitor
  <1> QED
    BY <1>1, <1>2, <1>3, <1>4, <1>5, <1>6, <1>7, <1>8

LEMMA NextType == Inv /\ [Next]_vars => TypeOK'
  <1> SUFFICES ASSUME Inv, [Next]_vars PROVE TypeOK'
    OBVIOUS
  <1>1. ASSUME NEW c \in Client, NEW i \in Instance,
               DeployRequest(c, i) \/ DecommissionRequest(c, i) \/ DeleteRequest(c, i)
        PROVE  TypeOK'
    BY <1>1, RequestType, PCs DEF Inv, DeployRequest, DecommissionRequest, DeleteRequest
  <1>2. CASE UNCHANGED vars
    BY <1>2 DEF vars, Inv, TypeOK
  <1> QED
    BY <1>1, <1>2, ProcStepType, EnvironmentType DEF Next, Inv

-----------------------------------------------------------------------------
(***************************************************************************)
(* The lock.                                                               *)
(***************************************************************************)
\* Whatever a client does, it leaves the other clients' state alone, and takes a
\* lock from nobody: a key changes hands only if it was free or the client's own.
LEMMA StepFrame ==
    ASSUME TypeOK, NEW c \in Client, ProcStep(c) \/ HandlerFails(c)
    PROVE  /\ \A d \in Client \ {c} : proc'[d] = proc[d]
           /\ \A i \in Instance : lock'[i] # lock[i] => lock[i] \in {c, Free}
  <1>1. proc \in [Client -> Proc] /\ lock \in [Instance -> Client \cup {Free}]
    BY DEF TypeOK
  <1>2. (\E pc \in PC : Goto(c, pc)) => \A d \in Client \ {c} : proc'[d] = proc[d]
    BY <1>1 DEF Goto
  <1>3. Return(c) => \A d \in Client \ {c} : proc'[d] = proc[d]
    BY <1>1 DEF Return
  <1>4. ReleaseKey(c) => \A i \in Instance : lock'[i] # lock[i] => lock[i] = c
    BY <1>1 DEF ReleaseKey
  <1>5. CASE Acquire(c)
    <2>1. \A d \in Client \ {c} : proc'[d] = proc[d]
      BY <1>1, <1>3, <1>5 DEF Acquire, Goto
    <2>2. \A i \in Instance : lock'[i] # lock[i] => lock[i] = Free
      BY <1>1, <1>5 DEF Acquire
    <2> QED
      BY <2>1, <2>2
  <1>6. CASE DeployBuild(c) \/ BuildTeardown(c)
    BY <1>1, <1>6 DEF DeployBuild, BuildTeardown, Planned
  <1>7. CASE Unlock(c) \/ HandlerFails(c)
    BY <1>3, <1>4, <1>7 DEF Unlock, HandlerFails
  <1>8. CASE \/ ComposeUp(c) \/ RoutesSync(c) \/ DeploySucceeds(c) \/ PersistStopped(c)
             \/ GatewayDrain(c) \/ ComposeDown(c) \/ Recheck(c) \/ DeleteRow(c)
             \/ StepFails(c) \/ AlertSent(c)
    <2>1. lock' = lock
      BY <1>8 DEF ComposeUp, RoutesSync, DeploySucceeds, PersistStopped, GatewayDrain,
                  GatewayRouteSync, ComposeDown, Recheck, DeleteRow, StepFails, AlertSent
    <2>2. \A d \in Client \ {c} : proc'[d] = proc[d]
      BY <1>1, <1>8
      DEF Goto, ComposeUp, RoutesSync, DeploySucceeds, PersistStopped, GatewayDrain,
          GatewayRouteSync, ComposeDown, Recheck, DeleteRow, StepFails, AlertSent
    <2> QED
      BY <2>1, <2>2
  <1> QED
    BY <1>5, <1>6, <1>7, <1>8 DEF ProcStep

\* A client that works after its step has just been granted the lock, or worked
\* on the same instance before and kept it.
LEMMA StepOwn ==
    ASSUME TypeOK, NEW c \in Client, ProcStep(c) \/ HandlerFails(c),
           Working(c, proc[c].inst)'
    PROVE  /\ proc'[c].inst = proc[c].inst
           /\ \/ lock'[proc[c].inst] = c
              \/ Working(c, proc[c].inst) /\ lock' = lock
  <1>1. proc \in [Client -> Proc] /\ lock \in [Instance -> Client \cup {Free}]
    BY DEF TypeOK
  <1>2. proc'[c].pc # "idle"
    BY DEF Working
  <1>3. proc[c].inst \in Instance
    BY <1>1 DEF Proc
  <1>4. CASE Acquire(c)
    <2>1. ~Return(c)
      BY <1>1, <1>2 DEF Return, Idle
    <2> QED
      BY <1>1, <1>3, <1>4, <2>1 DEF Acquire, Goto, Proc
  <1>5. CASE DeployBuild(c) \/ BuildTeardown(c)
    <2>1. \A pc, back : Planned(c, pc, back) => proc'[c].inst = proc[c].inst
      BY <1>1 DEF Planned, Proc
    <2>2. proc'[c].inst = proc[c].inst
      BY <1>5, <2>1 DEF DeployBuild, BuildTeardown
    <2> QED
      BY <1>5, <2>2 DEF DeployBuild, BuildTeardown, Working, At
  <1>6. ~(Unlock(c) \/ HandlerFails(c))
    BY <1>1, <1>2 DEF Unlock, HandlerFails, Return, Idle
  <1>7. CASE \/ ComposeUp(c) \/ RoutesSync(c) \/ DeploySucceeds(c) \/ PersistStopped(c)
             \/ GatewayDrain(c) \/ ComposeDown(c) \/ Recheck(c) \/ DeleteRow(c)
             \/ StepFails(c) \/ AlertSent(c)
    <2>1. lock' = lock
      BY <1>7 DEF ComposeUp, RoutesSync, DeploySucceeds, PersistStopped, GatewayDrain,
                  GatewayRouteSync, ComposeDown, Recheck, DeleteRow, StepFails, AlertSent
    <2>2. proc'[c].inst = proc[c].inst
      BY <1>1, <1>7
      DEF Goto, ComposeUp, RoutesSync, DeploySucceeds, PersistStopped, GatewayDrain, Proc,
          GatewayRouteSync, ComposeDown, Recheck, DeleteRow, StepFails, AlertSent
    <2>3. ~AlertSent(c)
      BY <1>1 DEF AlertSent, Goto, Working, Proc
    <2>4. Working(c, proc[c].inst)
      BY <1>7, <2>3
      DEF Working, At, ComposeUp, RoutesSync, DeploySucceeds, PersistStopped, GatewayDrain,
          ComposeDown, Recheck, DeleteRow, StepFails
    <2> QED
      BY <2>1, <2>2, <2>4
  <1> QED
    BY <1>4, <1>5, <1>6, <1>7 DEF ProcStep

LEMMA NextHoldsLock == Inv /\ [Next]_vars => HoldsLock'
  <1> SUFFICES ASSUME Inv, [Next]_vars PROVE HoldsLock'
    OBVIOUS
  <1>0. /\ proc \in [Client -> Proc] /\ lock \in [Instance -> Client \cup {Free}]
        /\ Free \notin Client
    BY ConstantsAssumption DEF Inv, TypeOK
  <1>1. ASSUME NEW c \in Client, ProcStep(c) \/ HandlerFails(c)
        PROVE  HoldsLock'
    <2> SUFFICES ASSUME NEW d \in Client, Working(d, proc[d].inst)'
                 PROVE  lock'[proc'[d].inst] = d
      BY DEF HoldsLock, Working
    <2>1. CASE d = c
      BY <1>1, <2>1, StepOwn DEF Inv, HoldsLock
    <2>2. CASE d # c
      <3>1. proc'[d] = proc[d]
        BY <1>1, <2>2, StepFrame DEF Inv
      <3>2. lock[proc[d].inst] = d /\ proc[d].inst \in Instance
        BY <1>0, <3>1 DEF Inv, HoldsLock, Working, Proc
      <3> QED
        BY <1>0, <1>1, <2>2, <3>1, <3>2, StepFrame DEF Inv
    <2> QED
      BY <2>1, <2>2
  <1>2. ASSUME NEW c \in Client, NEW i \in Instance,
               DeployRequest(c, i) \/ DecommissionRequest(c, i) \/ DeleteRequest(c, i)
        PROVE  HoldsLock'
    BY <1>0, <1>2
    DEF DeployRequest, DecommissionRequest, DeleteRequest, Request, Inv, HoldsLock, Working
  <1>3. CASE Crash
    BY <1>3 DEF Crash, HoldsLock, Working, Idle
  <1>4. ASSUME NEW i \in Instance, LockExpires(i) PROVE HoldsLock'
    BY <1>0, <1>4 DEF LockExpires, Inv, HoldsLock, Working
  <1>5. CASE \/ MonitorStep \/ UNCHANGED vars
             \/ \E i \in Instance : VerifyRelease(i)
             \/ \E m \in Machine : MachineDown(m) \/ MachineUp(m) \/ Heartbeat(m) \/ NodeRestart(m)
    <2>1. proc' = proc /\ lock' = lock
      BY <1>5 DEF MonitorStep, Evaluate, ReconcileStopped, VerifyRelease, MachineDown,
                  MachineUp, Heartbeat, NodeRestart, vars
    <2> QED
      BY <2>1 DEF Inv, HoldsLock, Working
  <1> QED
    BY <1>1, <1>2, <1>3, <1>4, <1>5 DEF Next

\* Deploy, decommission and deletion of one instance exclude each other.
LEMMA HoldsLockExcludes == HoldsLock => LifecycleExclusive
  BY DEF HoldsLock, LifecycleExclusive, Working

-----------------------------------------------------------------------------
(***************************************************************************)
(* What a request knows of the row it works on.                            *)
(***************************************************************************)
\* A step that writes a target row works on that instance.
LEMMA StepRow ==
    ASSUME TypeOK, NEW c \in Client, ProcStep(c) \/ HandlerFails(c)
    PROVE  \A i \in Instance : tgt'[i] # tgt[i] => Working(c, i)
  <1>1. tgt \in [Instance -> RuntimeState] /\ proc[c].inst \in Instance
    BY DEF TypeOK, Proc
  <1>2. CASE PersistStopped(c) \/ DeleteRow(c) \/ DeploySucceeds(c)
    BY <1>1, <1>2
    DEF PersistStopped, DeleteRow, DeploySucceeds, SetInstanceDesiredState, Working, At
  <1>3. CASE ~(PersistStopped(c) \/ DeleteRow(c) \/ DeploySucceeds(c))
    BY <1>3 DEF ProcStep, HandlerFails, Acquire, DeployBuild, ComposeUp, RoutesSync,
                GatewayRouteSync, BuildTeardown, GatewayDrain, ComposeDown, Recheck,
                StepFails, AlertSent, Unlock
  <1> QED
    BY <1>2, <1>3

\* What a client's own step establishes.
LEMMA StepKnows ==
    ASSUME Inv, NEW c \in Client, ProcStep(c) \/ HandlerFails(c)
    PROVE  /\ proc'[c].pc \in {"recheck", "delete"} => proc'[c].op = "delete"
           /\ proc'[c].pc = "delete" => tgt'[proc'[c].inst] = "stopped"
           /\ proc'[c].pc = "routes_sync" => proc'[c].back # {}
  <1>1. proc \in [Client -> Proc] /\ KnowsRow
    BY DEF Inv, TypeOK
  <1>2. Return(c) => proc'[c].pc = "idle"
    BY <1>1 DEF Return, Idle
  <1>3. \A pc, back : Planned(c, pc, back) => proc'[c].pc = pc
    BY <1>1 DEF Planned, Proc
  <1>4. \A pc : Goto(c, pc) => /\ proc'[c].pc = pc
                               /\ proc'[c].op = proc[c].op
                               /\ proc'[c].inst = proc[c].inst
                               /\ proc'[c].back = proc[c].back
    BY <1>1 DEF Goto, Proc
  <1>5. CASE Acquire(c)
    BY <1>2, <1>4, <1>5 DEF Acquire
  <1>6. CASE Recheck(c)
    BY <1>1, <1>4, <1>6 DEF Recheck, At, KnowsRow
  <1>7. CASE ComposeUp(c)
    BY <1>4, <1>7 DEF ComposeUp
  <1>8. CASE DeployBuild(c) \/ BuildTeardown(c)
    <2>1. proc'[c].pc \in {"compose_up", "drain"}
      BY <1>3, <1>8 DEF DeployBuild, BuildTeardown
    <2> QED
      BY <2>1
  <1>9. CASE Unlock(c) \/ HandlerFails(c)
    BY <1>2, <1>9 DEF Unlock, HandlerFails
  <1>10. CASE \/ RoutesSync(c) \/ DeploySucceeds(c) \/ PersistStopped(c) \/ GatewayDrain(c)
              \/ ComposeDown(c) \/ DeleteRow(c) \/ StepFails(c) \/ AlertSent(c)
    <2>1. proc'[c].pc \in {"flip", "unlock", "build_teardown", "compose_down", "alert"}
      BY <1>4, <1>10 DEF RoutesSync, DeploySucceeds, PersistStopped, GatewayDrain,
                         GatewayRouteSync, ComposeDown, DeleteRow, StepFails, AlertSent
    <2> QED
      BY <2>1
  <1> QED
    BY <1>5, <1>6, <1>7, <1>8, <1>9, <1>10 DEF ProcStep

LEMMA NextKnowsRow == Inv /\ [Next]_vars => KnowsRow'
  <1> SUFFICES ASSUME Inv, [Next]_vars PROVE KnowsRow'
    OBVIOUS
  <1>0. proc \in [Client -> Proc] /\ KnowsRow
    BY DEF Inv, TypeOK
  <1>1. ASSUME NEW c \in Client, ProcStep(c) \/ HandlerFails(c)
        PROVE  KnowsRow'
    <2> SUFFICES ASSUME NEW d \in Client
                 PROVE  /\ proc'[d].pc \in {"recheck", "delete"} => proc'[d].op = "delete"
                        /\ proc'[d].pc = "delete" => tgt'[proc'[d].inst] = "stopped"
                        /\ proc'[d].pc = "routes_sync" => proc'[d].back # {}
      BY DEF KnowsRow
    <2>1. CASE d = c
      BY <1>1, <2>1, StepKnows
    <2>2. CASE d # c
      <3>1. proc'[d] = proc[d]
        BY <1>1, <2>2, StepFrame DEF Inv
      <3>2. proc[d].inst \in Instance
        BY <1>0 DEF Proc
      <3>3. ASSUME proc[d].pc = "delete"
            PROVE  tgt'[proc[d].inst] = tgt[proc[d].inst]
        <4>1. Working(d, proc[d].inst)
          BY <3>3 DEF Working
        <4>2. ~Working(c, proc[d].inst)
          BY <2>2, <4>1 DEF Inv, HoldsLock, Working
        <4> QED
          BY <1>1, <3>2, <4>2, StepRow DEF Inv
      <3> QED
        BY <1>0, <3>1, <3>3 DEF KnowsRow
    <2> QED
      BY <2>1, <2>2
  <1>2. ASSUME NEW c \in Client, NEW i \in Instance,
               DeployRequest(c, i) \/ DecommissionRequest(c, i) \/ DeleteRequest(c, i)
        PROVE  KnowsRow'
    BY <1>0, <1>2 DEF DeployRequest, DecommissionRequest, DeleteRequest, Request, KnowsRow
  <1>3. CASE Crash
    BY <1>3 DEF Crash, KnowsRow, Idle
  <1>4. CASE \/ MonitorStep \/ UNCHANGED vars
             \/ \E i \in Instance : VerifyRelease(i) \/ LockExpires(i)
             \/ \E m \in Machine : MachineDown(m) \/ MachineUp(m) \/ Heartbeat(m) \/ NodeRestart(m)
    <2>1. proc' = proc /\ tgt' = tgt
      BY <1>4 DEF MonitorStep, Evaluate, ReconcileStopped, VerifyRelease, LockExpires,
                  MachineDown, MachineUp, Heartbeat, NodeRestart, vars
    <2> QED
      BY <1>0, <2>1 DEF KnowsRow
  <1> QED
    BY <1>1, <1>2, <1>3, <1>4 DEF Next

-----------------------------------------------------------------------------
(***************************************************************************)
(* Theorems.                                                               *)
(***************************************************************************)
LEMMA NextInv == Inv /\ [Next]_vars => Inv'
  BY NextType, NextHoldsLock, NextKnowsRow DEF Inv

\* A row is only deleted by DeleteRow, which knows it stopped and works alone.
LEMMA DeleteStep ==
    ASSUME Inv, [Next]_vars, NEW i \in Instance, tgt[i] # "deleted", tgt'[i] = "deleted"
    PROVE  /\ tgt[i] = "stopped"
           /\ \A c \in Client : Working(c, i) => proc[c].op = "delete"
  <1>1. PICK c \in Client : ProcStep(c) \/ HandlerFails(c)
    BY DEF Next, DeployRequest, DecommissionRequest, DeleteRequest, Request, MonitorStep,
           Evaluate, ReconcileStopped, VerifyRelease, LockExpires, MachineDown, MachineUp,
           Heartbeat, NodeRestart, Crash, vars
  <1>2. Working(c, i)
    BY <1>1, StepRow DEF Inv
  <1>3. DeleteRow(c)
    <2>1. tgt \in [Instance -> RuntimeState] /\ proc[c].inst = i
      BY <1>2 DEF Inv, TypeOK, Working
    <2>2. ~(PersistStopped(c) \/ DeploySucceeds(c))
      BY <2>1 DEF PersistStopped, DeploySucceeds, SetInstanceDesiredState
    <2> QED
      BY <1>1, <2>2
      DEF ProcStep, HandlerFails, Acquire, DeployBuild, ComposeUp, RoutesSync,
          GatewayRouteSync, BuildTeardown, GatewayDrain, ComposeDown, Recheck,
          StepFails, AlertSent, Unlock
  <1>4. \A d \in Client : Working(d, i) => d = c
    BY <1>2 DEF Inv, HoldsLock, Working
  <1> QED
    BY <1>2, <1>3, <1>4 DEF DeleteRow, At, Inv, KnowsRow, Working

\* Rows, requests and the gateway's route stay well formed, whatever fails.
THEOREM LifecycleTypes == Spec => []TypeOK
  <1>1. Inv => TypeOK
    BY DEF Inv
  <1> QED
    BY <1>1, InitInv, NextInv, PTL DEF Spec

\* Deploy, decommission and deletion of one instance never overlap, for any
\* number of requests and instances.
THEOREM LifecycleExclusion == Spec => []LifecycleExclusive
  <1>1. Inv => LifecycleExclusive
    BY HoldsLockExcludes DEF Inv
  <1> QED
    BY <1>1, InitInv, NextInv, PTL DEF Spec

\* Only a stopped row is deleted, and nobody else is at work on it then.
THEOREM SafeDeletion == Spec => DeleteIsSafe
  <1> DEFINE Safe == \A i \in Instance :
                 tgt[i] # "deleted" /\ tgt'[i] = "deleted" =>
                    /\ tgt[i] = "stopped"
                    /\ \A c \in Client : Working(c, i) => proc[c].op = "delete"
  <1>1. Inv /\ [Next]_vars => [Safe]_vars
    BY DeleteStep
  <1>2. DeleteIsSafe <=> [][Safe]_vars
    BY PTL DEF DeleteIsSafe
  <1> QED
    BY <1>1, <1>2, InitInv, NextInv, PTL DEF Spec
=============================================================================
