------------------------- MODULE ControlPlaneProofs -------------------------
(***************************************************************************)
(* Machine-checked proofs about the parts of ControlPlane: machine rows,    *)
(* the migration of environment variables, health checks, machine files and *)
(* alert rules, for any thresholds, operators, environments, machines,      *)
(* uploads and rules.                                                       *)
(***************************************************************************)
EXTENDS ControlPlane, SequenceTheorems, WellFoundedInduction, TLAPS

-----------------------------------------------------------------------------
(***************************************************************************)
(* Machine rows. A request saves the whole row it read, so what operators    *)
(* asked for survives only if that row is still current: unless requests     *)
(* crossed, it has the mode and the token of the row there is.               *)
(***************************************************************************)
MachineTypes ==
    /\ machine \in MachineRow \cup {NoMachine}
    /\ intended \in [there: BOOLEAN, mode: Mode, token: Nat]
    /\ tokens \in Nat /\ nodeToken \in Nat /\ crossed \in BOOLEAN
    /\ DOMAIN machineReq = Operator
    /\ \A p \in Operator :
          machineReq[p] # NoRequest =>
             /\ machineReq[p] \in [pc: {"update", "rotate"}, row: MachineRow]
             /\ machineReq[p].pc = "rotate" => machineReq[p].row.mode = "agent"

ReadIsCurrent ==
    \A p \in Operator :
        machineReq[p] # NoRequest /\ ~crossed =>
            /\ machine # NoMachine
            /\ machine.mode = machineReq[p].row.mode
            /\ machine.token = machineReq[p].row.token

MachineInv == MachineTypes /\ ReadIsCurrent /\ MachineAsAsked

LEMMA MachineInit == MachineRowsInit => MachineInv
  <1> SUFFICES ASSUME MachineRowsInit PROVE MachineInv
    OBVIOUS
  <1> USE DEF MachineRowsInit
  <1>1. MachineTypes
    BY DEF MachineTypes, Mode
  <1>2. ReadIsCurrent /\ MachineAsAsked
    BY DEF ReadIsCurrent, MachineAsAsked
  <1> QED
    BY <1>1, <1>2 DEF MachineInv

\* A write that keeps every other column of a row read earlier.
LEMMA MachineWrite ==
    ASSUME MachineInv, NEW p \in Operator, NEW saved, NEW intent, Writes(p, saved, intent),
           saved \in MachineRow \cup {NoMachine},
           intent \in [there: BOOLEAN, mode: Mode, token: Nat],
           ~crossed => IF intent.there
                         THEN saved # NoMachine /\ saved.mode = intent.mode /\ saved.token = intent.token
                         ELSE saved = NoMachine,
           tokens' \in Nat, nodeToken' = nodeToken,
           machineReq' \in {machineReq, [machineReq EXCEPT ![p] = NoRequest]},
           machineReq'[p] = NoRequest
    PROVE  MachineInv'
  <1>1. MachineTypes'
    BY DEF MachineInv, MachineTypes, Writes
  <1>2. ReadIsCurrent'
    BY DEF MachineInv, MachineTypes, ReadIsCurrent, Writes
  <1>3. MachineAsAsked'
    BY DEF MachineInv, MachineTypes, MachineAsAsked, Writes
  <1> QED
    BY <1>1, <1>2, <1>3 DEF MachineInv

LEMMA MachineStep ==
    ASSUME MachineInv, MachineRowsNext
    PROVE  MachineInv'
  <1> USE DEF MachineInv
  <1>1. ASSUME NEW p \in Operator, NEW mode \in Mode, CreateMachine(p, mode)
        PROVE  MachineInv'
    <2> DEFINE saved  == [mode |-> mode, token |-> tokens', reported |-> FALSE]
               intent == [there |-> TRUE, mode |-> mode, token |-> tokens']
    <2>1. Writes(p, saved, intent) /\ machineReq' = machineReq /\ nodeToken' = nodeToken
      BY <1>1 DEF CreateMachine
    <2>2. tokens' \in Nat /\ machineReq[p] = NoRequest
      BY <1>1 DEF CreateMachine, MachineTypes
    <2>3. /\ saved \in MachineRow /\ saved.mode = mode /\ saved.token = tokens'
          /\ intent \in [there: BOOLEAN, mode: Mode, token: Nat]
          /\ intent.there /\ intent.mode = mode /\ intent.token = tokens'
      BY <2>2 DEF MachineRow
    <2> HIDE DEF saved, intent
    <2> QED
      BY <2>1, <2>2, <2>3, MachineWrite, MachineRowsAssumption
  <1>2. ASSUME NEW p \in Operator, NEW mode \in Mode, NEW new \in BOOLEAN,
               UpdateMachine(p, mode, new)
        PROVE  MachineInv'
    <2> DEFINE old == machineReq[p].row
               token == IF new THEN tokens' ELSE old.token
    <2>1. machineReq[p] # NoRequest /\ old \in MachineRow /\ tokens' \in Nat
      BY <1>2 DEF UpdateMachine, MachineTypes, NoRequest
    <2>2. token \in Nat
      BY <2>1 DEF MachineRow
    <2>3. /\ [old EXCEPT !.mode = mode, !.token = token] \in MachineRow
          /\ [old EXCEPT !.mode = mode, !.token = token].mode = mode
          /\ [old EXCEPT !.mode = mode, !.token = token].token = token
      <3> HIDE DEF old, token
      <3> QED
        BY <2>1, <2>2 DEF MachineRow
    <2>4. ~crossed => intended.token = old.token
      BY <2>1 DEF ReadIsCurrent, MachineAsAsked
    <2> QED
      <3> DEFINE intent == [there |-> TRUE, mode |-> mode,
                            token |-> IF new THEN tokens' ELSE intended.token]
      <3>1. /\ intent \in [there: BOOLEAN, mode: Mode, token: Nat]
            /\ intent.there /\ intent.mode = mode /\ (~crossed => intent.token = token)
        BY <2>1, <2>4 DEF MachineTypes
      <3>2. Writes(p, [old EXCEPT !.mode = mode, !.token = token], intent)
        BY <1>2 DEF UpdateMachine
      <3>3. machineReq' = [machineReq EXCEPT ![p] = NoRequest] /\ nodeToken' = nodeToken
        BY <1>2 DEF UpdateMachine, EndRequest
      <3>4. machineReq'[p] = NoRequest
        BY <3>3 DEF MachineTypes
      <3> HIDE DEF intent, token, old
      <3> QED
        BY <2>1, <2>3, <3>1, <3>2, <3>3, <3>4, MachineWrite, MachineRowsAssumption
  <1>3. ASSUME NEW p \in Operator, RotateAgentToken(p)
        PROVE  MachineInv'
    <2> DEFINE old == machineReq[p].row
    <2>1. machineReq[p] # NoRequest /\ old \in MachineRow /\ tokens' \in Nat
      BY <1>3 DEF RotateAgentToken, MachineTypes, NoRequest
    <2>2. [old EXCEPT !.token = tokens'] = [mode |-> old.mode, token |-> tokens',
                                            reported |-> old.reported]
      BY <2>1 DEF MachineRow
    <2>3. [old EXCEPT !.token = tokens'] \in MachineRow
      BY <2>1, <2>2 DEF MachineRow
    <2>4. /\ [intended EXCEPT !.token = tokens'] \in [there: BOOLEAN, mode: Mode, token: Nat]
          /\ [intended EXCEPT !.token = tokens'].there = intended.there
          /\ [intended EXCEPT !.token = tokens'].mode = intended.mode
          /\ [intended EXCEPT !.token = tokens'].token = tokens'
      BY <2>1 DEF MachineTypes
    <2>5. ~crossed => intended.there /\ intended.mode = old.mode
      BY <2>1 DEF ReadIsCurrent, MachineAsAsked, MachineTypes
    <2> QED
      BY <1>3, <2>1, <2>2, <2>3, <2>4, <2>5, MachineWrite, MachineRowsAssumption, ZenonT(40)
         DEF RotateAgentToken, MachineTypes, EndRequest
  <1>4. ASSUME NEW p \in Operator, DeleteMachine(p)
        PROVE  MachineInv'
    <2>1. /\ [intended EXCEPT !.there = FALSE] \in [there: BOOLEAN, mode: Mode, token: Nat]
          /\ ~[intended EXCEPT !.there = FALSE].there
      BY DEF MachineTypes
    <2> QED
      BY <1>4, <2>1, MachineWrite DEF DeleteMachine, MachineTypes
  <1>5. ASSUME NEW p \in Operator, NEW op \in {"update", "rotate"}, ReadMachine(p, op)
        PROVE  MachineInv'
    BY <1>5 DEF ReadMachine, MachineTypes, ReadIsCurrent, MachineAsAsked, NoRequest
  <1>6. ASSUME NEW p \in Operator, MachineRequestFails(p)
        PROVE  MachineInv'
    BY <1>6 DEF MachineRequestFails, EndRequest, MachineTypes, ReadIsCurrent, MachineAsAsked
  <1>7. CASE NodeConfigured \/ HeartbeatRead \/ HeartbeatLost
    BY <1>7 DEF NodeConfigured, HeartbeatRead, HeartbeatLost, MachineTypes, MachineRow,
          ReadIsCurrent, MachineAsAsked
  <1>8. CASE UpdateHeartbeat
    BY <1>8, MachineRowsAssumption, ZenonT(40) DEF UpdateHeartbeat, Beaten, MachineTypes, MachineRow,
          ReadIsCurrent, MachineAsAsked
  <1> QED
    BY <1>1, <1>2, <1>3, <1>4, <1>5, <1>6, <1>7, <1>8 DEF MachineRowsNext

\* What the operators' last requests asked of a machine stands, whatever
\* heartbeats, refusals and restarts come between, for any number of requests.
THEOREM MachinesAsAsked == Spec => []MachineAsAsked
  <1>1. Init => MachineInv
    BY MachineInit DEF Init
  <1>2. MachineInv /\ [Next]_vars => MachineInv'
    <2> SUFFICES ASSUME MachineInv, [Next]_vars PROVE MachineInv'
      OBVIOUS
    <2>1. CASE Machines(MachineRowsNext)
      BY <2>1, MachineStep DEF Machines
    <2>2. CASE Restart
      BY <2>2 DEF Restart, MachineRowsRestart, MachineInv, MachineTypes, ReadIsCurrent, MachineAsAsked
    <2>3. CASE UNCHANGED machineVars
      BY <2>3 DEF machineVars, MachineInv, MachineTypes, ReadIsCurrent, MachineAsAsked
    <2> QED
      BY <2>1, <2>2, <2>3 DEF Next, vars, Health, Alerts, Files, Vars
  <1>3. MachineInv => MachineAsAsked
    BY DEF MachineInv
  <1> QED
    BY <1>1, <1>2, <1>3, PTL DEF Spec
-----------------------------------------------------------------------------
(***************************************************************************)
(* Environment variables. A start writes the production row it merged from   *)
(* an earlier reading and then drops the baseline: both statements keep      *)
(* what is deployed only because nothing else writes before the start is     *)
(* over, and because the row has the variable once the baseline goes.        *)
(***************************************************************************)
VarTypes ==
    /\ baseline \in MaybeSet
    /\ envRow \in [Envs -> EnvRow \cup {NoEnvRow}]
    /\ startup # Serving => matrix = NoMatrix
    /\ matrix # NoMatrix =>
          /\ matrix.pc \in {"read", "write"}
          /\ matrix.vars \in [DOMAIN matrix.vars -> MaybeSet] /\ DOMAIN matrix.vars \subseteq Envs
          /\ matrix.pc = "write" => matrix.config \in EnvConfig /\ DOMAIN matrix.vars # {}

MergedRowIsCurrent ==
    /\ startup.pc = "upsert" =>
          /\ baseline # Blank
          /\ startup.row = [var |-> Merged(envRow[Prod]), config |-> ConfigIn(envRow[Prod])]
    /\ startup.pc = "strip" => VarIn(envRow[Prod]) # Blank
    /\ startup.pc = "serving" => startup = Serving

VarInv == VarTypes /\ MergedRowIsCurrent

\* Every non-empty set of naturals has a least element.
LEMMA LeastNatural ==
    ASSUME NEW T \in SUBSET Nat, T # {}
    PROVE  \E x \in T : \A y \in T : x <= y
  <1> DEFINE R == OpToRel(<, Nat)
  <1>1. PICK x \in T : \A y \in T : <<y, x>> \notin R
    <2>1. IsWellFoundedOn(R, Nat)
      BY NatLessThanWellFounded
    <2> HIDE DEF R
    <2> QED
      BY <2>1, WFMin
  <1>2. \A y \in T : ~(y < x)
    BY <1>1 DEF OpToRel
  <1> QED
    BY <1>2

LEMMA VarRow ==
    ASSUME NEW e \in EnvRow \cup {NoEnvRow}
    PROVE  VarIn(e) \in MaybeSet /\ ConfigIn(e) \in EnvConfig
  BY EnvVarsAssumption DEF EnvRow, MaybeSet, VarIn, ConfigIn

\* The row BackfillRead merges is a row, and deploys what was deployed.
LEMMA MergedRow ==
    ASSUME VarTypes, baseline # Blank
    PROVE  LET new == [var |-> Merged(envRow[Prod]), config |-> ConfigIn(envRow[Prod])]
           IN  /\ new \in EnvRow /\ new # NoEnvRow
               /\ VarIn(new) = Deployed(Prod) /\ VarIn(new) # Blank
               /\ ConfigIn(new) = ConfigIn(envRow[Prod])
  <1> DEFINE new == [var |-> Merged(envRow[Prod]), config |-> ConfigIn(envRow[Prod])]
  <1>1. Merged(envRow[Prod]) \in MaybeSet /\ ConfigIn(envRow[Prod]) \in EnvConfig
    BY VarRow, EnvVarsAssumption DEF VarTypes, Merged
  <1>2. new \in EnvRow
    BY <1>1 DEF EnvRow
  <1>3. new # NoEnvRow
    BY <1>2, EnvVarsAssumption
  <1>4. VarIn(new) = Merged(envRow[Prod]) /\ ConfigIn(new) = ConfigIn(envRow[Prod])
    BY <1>3 DEF VarIn, ConfigIn
  <1> QED
    BY <1>2, <1>3, <1>4 DEF Merged, Deployed

LEMMA VarInit == EnvVarsInit => VarInv
  <1> SUFFICES ASSUME EnvVarsInit PROVE VarInv
    OBVIOUS
  <1>1. startup.pc = "list" /\ matrix = NoMatrix
    BY DEF EnvVarsInit, Starting
  <1>2. VarTypes
    BY <1>1 DEF EnvVarsInit, VarTypes
  <1>3. MergedRowIsCurrent
    BY <1>1 DEF MergedRowIsCurrent
  <1> QED
    BY <1>2, <1>3 DEF VarInv

\* The environment whose turn it is belongs to the request.
LEMMA FirstEnvOfRequest ==
    ASSUME VarTypes, matrix # NoMatrix, DOMAIN matrix.vars # {}
    PROVE  FirstEnv \in DOMAIN matrix.vars /\ FirstEnv \in Envs
  <1>1. \E e \in DOMAIN matrix.vars : \A f \in DOMAIN matrix.vars : e <= f
    BY LeastNatural, EnvVarsAssumption DEF VarTypes
  <1> QED
    BY <1>1 DEF FirstEnv, VarTypes

\* A step of the backfill keeps what production is deployed with.
KeepsProd ==
    /\ Deployed(Prod)' = Deployed(Prod)
    /\ \A e \in Envs : ConfigIn(envRow[e])' = ConfigIn(envRow[e])

LEMMA BackfillStep ==
    ASSUME VarInv,
           BackfillNothing \/ BackfillRead \/ BackfillUpsert \/ BackfillStrip \/ BackfillFails
    PROVE  VarInv' /\ KeepsProd
  <1> USE DEF VarInv
  <1>1. Prod \in Envs /\ Blank \in MaybeSet
    BY EnvVarsAssumption DEF MaybeSet
  <1>2. CASE BackfillNothing \/ BackfillFails
    <2>1. VarTypes' /\ MergedRowIsCurrent'
      BY <1>2 DEF BackfillNothing, BackfillFails, VarTypes, MergedRowIsCurrent, Serving
    <2>2. KeepsProd
      BY <1>2 DEF BackfillNothing, BackfillFails, KeepsProd, Deployed, VarIn, ConfigIn
    <2> QED
      BY <2>1, <2>2
  <1>3. CASE BackfillRead
    <2>1. VarTypes'
      BY <1>3 DEF BackfillRead, VarTypes, Serving
    <2>2. MergedRowIsCurrent'
      BY <1>3 DEF BackfillRead, MergedRowIsCurrent, Merged, VarIn, ConfigIn
    <2>3. KeepsProd
      BY <1>3 DEF BackfillRead, KeepsProd, Deployed, VarIn, ConfigIn
    <2> QED
      BY <2>1, <2>2, <2>3
  <1>4. CASE BackfillUpsert
    <2>1. /\ startup.row \in EnvRow
          /\ VarIn(startup.row) = Deployed(Prod) /\ VarIn(startup.row) # Blank
          /\ ConfigIn(startup.row) = ConfigIn(envRow[Prod])
      BY <1>4, MergedRow DEF BackfillUpsert, MergedRowIsCurrent
    <2>2. /\ envRow' = [envRow EXCEPT ![Prod] = startup.row] /\ baseline' = baseline
          /\ startup' = [pc |-> "strip"] /\ matrix' = matrix
      BY <1>4 DEF BackfillUpsert
    <2>3. /\ envRow'[Prod] = startup.row
          /\ \A e \in Envs : e # Prod => envRow'[e] = envRow[e]
      BY <1>1, <2>2 DEF VarTypes
    <2>4. VarTypes'
      <3>1. envRow' \in [Envs -> EnvRow \cup {NoEnvRow}]
        BY <2>1, <2>2 DEF VarTypes
      <3>2. matrix = NoMatrix
        BY <1>4 DEF BackfillUpsert, VarTypes, Serving
      <3> QED
        BY <2>2, <3>1, <3>2 DEF VarTypes
    <2>5. MergedRowIsCurrent'
      BY <2>1, <2>2, <2>3 DEF MergedRowIsCurrent, VarIn
    <2>6. KeepsProd
      <3>1. Deployed(Prod)' = Deployed(Prod)
        <4>1. VarIn(envRow[Prod])' = VarIn(startup.row)
          BY <2>3 DEF VarIn
        <4> QED
          BY <2>1, <2>2, <4>1 DEF Deployed
      <3>2. ASSUME NEW e \in Envs PROVE ConfigIn(envRow[e])' = ConfigIn(envRow[e])
        <4>1. ConfigIn(envRow[Prod])' = ConfigIn(startup.row)
          BY <2>3 DEF ConfigIn
        <4>2. e # Prod => ConfigIn(envRow[e])' = ConfigIn(envRow[e])
          BY <2>3 DEF ConfigIn
        <4> QED
          BY <2>1, <4>1, <4>2
      <3> QED
        BY <3>1, <3>2 DEF KeepsProd
    <2> QED
      BY <2>4, <2>5, <2>6
  <1>5. CASE BackfillStrip
    <2>1. VarTypes' /\ MergedRowIsCurrent'
      BY <1>1, <1>5 DEF BackfillStrip, VarTypes, MergedRowIsCurrent, Serving
    <2>2. KeepsProd
      BY <1>5 DEF BackfillStrip, MergedRowIsCurrent, KeepsProd, Deployed, VarIn, ConfigIn
    <2> QED
      BY <2>1, <2>2
  <1> QED
    BY <1>2, <1>3, <1>4, <1>5

\* Operators are served when the start is over, so they disturb no merge.
LEMMA EditStep ==
    ASSUME VarInv,
           \/ \E e \in Envs, r \in EnvRow : PutEnv(e, r)
           \/ \E value \in MaybeSet : PutDeployConfig(value)
           \/ \E some \in SUBSET Envs \ {{}} : \E vs \in [some -> MaybeSet] : PutAll(vs)
           \/ PutAllRead \/ PutAllWrite \/ PutAllEnds
    PROVE  VarInv' /\ startup = Serving
  <1> USE DEF VarInv
  <1>1. ASSUME NEW e \in Envs, NEW r \in EnvRow, PutEnv(e, r)
        PROVE  VarInv' /\ startup = Serving
    BY <1>1 DEF PutEnv, EditVars, VarTypes, MergedRowIsCurrent, Serving
  <1>2. ASSUME NEW value \in MaybeSet, PutDeployConfig(value)
        PROVE  VarInv' /\ startup = Serving
    BY <1>2 DEF PutDeployConfig, EditVars, VarTypes, MergedRowIsCurrent, Serving
  <1>3. ASSUME NEW some \in SUBSET Envs \ {{}}, NEW vs \in [some -> MaybeSet], PutAll(vs)
        PROVE  VarInv' /\ startup = Serving
    BY <1>3 DEF PutAll, EditVars, VarTypes, MergedRowIsCurrent, Serving, NoMatrix
  <1>4. CASE PutAllRead
    <2>1. matrix # NoMatrix /\ startup = Serving
      BY <1>4 DEF PutAllRead, VarTypes, NoMatrix
    <2>2. ConfigIn(envRow[FirstEnv]) \in EnvConfig
      BY <1>4, <2>1, FirstEnvOfRequest, VarRow DEF PutAllRead, VarTypes
    <2> QED
      BY <1>4, <2>1, <2>2 DEF PutAllRead, VarTypes, MergedRowIsCurrent, Serving, NoMatrix
  <1>5. CASE PutAllWrite
    <2>1. matrix # NoMatrix /\ startup = Serving
      BY <1>5 DEF PutAllWrite, VarTypes, NoMatrix
    <2>2. FirstEnv \in DOMAIN matrix.vars /\ FirstEnv \in Envs
      BY <1>5, <2>1, FirstEnvOfRequest DEF PutAllWrite, VarTypes
    <2> DEFINE new  == [var |-> matrix.vars[FirstEnv], config |-> matrix.config]
               rest == [e \in DOMAIN matrix.vars \ {FirstEnv} |-> matrix.vars[e]]
    <2>3. new \in EnvRow
      BY <1>5, <2>1, <2>2 DEF PutAllWrite, VarTypes, EnvRow
    <2>4. rest \in [DOMAIN rest -> MaybeSet] /\ DOMAIN rest \subseteq Envs
      BY <2>1 DEF VarTypes
    <2>5. /\ envRow' = [envRow EXCEPT ![FirstEnv] = new] /\ matrix' = [pc |-> "read", vars |-> rest]
          /\ baseline' = baseline /\ startup' = startup
      BY <1>5 DEF PutAllWrite
    <2> HIDE DEF new, rest
    <2>6. VarTypes'
      BY <2>1, <2>3, <2>4, <2>5 DEF VarTypes
    <2>7. MergedRowIsCurrent'
      BY <2>1, <2>5 DEF MergedRowIsCurrent, Serving
    <2> QED
      BY <2>1, <2>6, <2>7
  <1>6. CASE PutAllEnds
    BY <1>6 DEF PutAllEnds, VarTypes, MergedRowIsCurrent, Serving, NoMatrix
  <1> QED
    BY <1>1, <1>2, <1>3, <1>4, <1>5, <1>6

\* The migration changes neither what production is deployed with nor any
\* configuration, for any environments, values and edits between two starts.
THEOREM BackfillIsNeutral == Spec => BackfillKeepsProd
  <1> DEFINE A == startup # Serving => KeepsProd
  <1>1. Init => VarInv
    BY VarInit DEF Init
  <1>2. VarInv /\ [Next]_vars => VarInv' /\ [A]_envVars
    <2> SUFFICES ASSUME VarInv, [Next]_vars PROVE VarInv' /\ [A]_envVars
      OBVIOUS
    <2>1. CASE Vars(EnvVarsNext)
      BY <2>1, BackfillStep, EditStep DEF Vars, EnvVarsNext
    <2>2. CASE Restart
      <3>1. /\ startup' = Starting /\ matrix' = NoMatrix
            /\ baseline' = baseline /\ envRow' = envRow
        BY <2>2 DEF Restart, EnvVarsRestart
      <3>2. VarTypes'
        BY <3>1 DEF VarInv, VarTypes
      <3>3. MergedRowIsCurrent'
        BY <3>1 DEF MergedRowIsCurrent, Starting
      <3>4. KeepsProd
        BY <3>1 DEF KeepsProd, Deployed, VarIn, ConfigIn
      <3> QED
        BY <3>2, <3>3, <3>4 DEF VarInv
    <2>3. CASE UNCHANGED envVars
      <3>1. VarTypes'
        BY <2>3 DEF envVars, VarInv, VarTypes
      <3>2. MergedRowIsCurrent'
        BY <2>3 DEF envVars, VarInv, MergedRowIsCurrent, Merged, VarIn, ConfigIn
      <3> QED
        BY <2>3, <3>1, <3>2 DEF VarInv
    <2> QED
      BY <2>1, <2>2, <2>3 DEF Next, vars, Health, Alerts, Files, Machines
  <1>3. Spec => [][A]_envVars
    BY <1>1, <1>2, PTL DEF Spec
  <1> QED
    BY <1>3 DEF BackfillKeepsProd, KeepsProd
-----------------------------------------------------------------------------
(***************************************************************************)
(* Health checks. A check reads the counters some time before it writes      *)
(* them, so the counters of the row and of every row a check has read must   *)
(* leave room for the probes that are not written yet.                       *)
(***************************************************************************)
CheckStates ==
         [pc: {"idle", "probe"}]
    \cup [pc: {"read"}, ok: BOOLEAN]
    \cup [pc: {"write"}, ok: BOOLEAN, prev: HealthRow \cup {NoRow}]

HealthTypes ==
    /\ up \in BOOLEAN
    /\ row \in HealthRow \cup {NoRow}
    /\ seen \in [ok: 0..SuccessThreshold, failed: 0..FailureThreshold]
    /\ check \in [Checker -> CheckStates]

\* Checks that have probed with a result and have not written it.
OkPending(c)     == IF c.pc \in {"read", "write"} /\ c.ok THEN 1 ELSE 0
FailedPending(c) == IF c.pc \in {"read", "write"} /\ ~c.ok THEN 1 ELSE 0
OkUnwritten(ch)     == OkPending(ch["monitor"]) + OkPending(ch["console"])
FailedUnwritten(ch) == FailedPending(ch["monitor"]) + FailedPending(ch["console"])

Counters(r) == IF r = NoRow THEN Unknown ELSE r

\* A counter n, with w results to come, after s probes counted up to the bound.
Room(n, w, s, bound) == n + w <= s \/ s = bound

Backed(r, ch, s) ==
    /\ Counters(r).successes <= SuccessThreshold
    /\ Counters(r).failures <= FailureThreshold
    /\ Room(Counters(r).successes, OkUnwritten(ch), s.ok, SuccessThreshold)
    /\ Room(Counters(r).failures, FailedUnwritten(ch), s.failed, FailureThreshold)
    /\ Counters(r).status = "healthy" => s.ok = SuccessThreshold
    /\ Counters(r).status = "unhealthy" => s.failed = FailureThreshold

AllBacked(r, ch, s) ==
    /\ Backed(r, ch, s)
    /\ \A k \in Checker : ch[k].pc = "write" => Backed(ch[k].prev, ch, s)

HealthInv == HealthTypes /\ AllBacked(row, check, seen)

LEMMA CountersType ==
    ASSUME NEW r \in HealthRow \cup {NoRow}
    PROVE  /\ Counters(r).status \in {"unknown", "healthy", "unhealthy"}
           /\ Counters(r).successes \in Nat /\ Counters(r).failures \in Nat
  BY DEF Counters, Unknown, HealthRow

LEMMA UnwrittenType ==
    ASSUME NEW ch
    PROVE  OkUnwritten(ch) \in Nat /\ FailedUnwritten(ch) \in Nat
  BY DEF OkUnwritten, FailedUnwritten, OkPending, FailedPending

\* Room is kept when the probes recorded are at least the results added.
LEMMA RoomKept ==
    ASSUME NEW n \in Nat, NEW bound \in Nat, NEW w \in Nat, NEW w2 \in Nat,
           NEW s \in 0..bound, NEW s2 \in 0..bound,
           Room(n, w, s, bound), s <= s2, w2 + s <= w + s2 \/ s2 = bound
    PROVE  Room(n, w2, s2, bound)
  BY DEF Room

\* So a row stays backed by such a step.
LEMMA StaysBacked ==
    ASSUME NEW r \in HealthRow \cup {NoRow}, NEW ch, NEW ch2,
           NEW s \in [ok: 0..SuccessThreshold, failed: 0..FailureThreshold],
           NEW s2 \in [ok: 0..SuccessThreshold, failed: 0..FailureThreshold],
           s.ok <= s2.ok, s.failed <= s2.failed,
           \/ OkUnwritten(ch2) + s.ok <= OkUnwritten(ch) + s2.ok
           \/ s2.ok = SuccessThreshold,
           \/ FailedUnwritten(ch2) + s.failed <= FailedUnwritten(ch) + s2.failed
           \/ s2.failed = FailureThreshold,
           Backed(r, ch, s)
    PROVE  Backed(r, ch2, s2)
  <1>1. /\ s.ok \in 0..SuccessThreshold /\ s2.ok \in 0..SuccessThreshold
        /\ s.failed \in 0..FailureThreshold /\ s2.failed \in 0..FailureThreshold
    OBVIOUS
  <1>2. /\ OkUnwritten(ch) \in Nat /\ OkUnwritten(ch2) \in Nat
        /\ FailedUnwritten(ch) \in Nat /\ FailedUnwritten(ch2) \in Nat
    BY UnwrittenType
  <1>3. SuccessThreshold \in Nat /\ FailureThreshold \in Nat
    BY HealthAssumption
  <1>4. Room(Counters(r).successes, OkUnwritten(ch2), s2.ok, SuccessThreshold)
    BY <1>1, <1>2, <1>3, CountersType, RoomKept DEF Backed
  <1>5. Room(Counters(r).failures, FailedUnwritten(ch2), s2.failed, FailureThreshold)
    BY <1>1, <1>2, <1>3, CountersType, RoomKept DEF Backed
  <1>6. /\ Counters(r).status = "healthy" => s2.ok = SuccessThreshold
        /\ Counters(r).status = "unhealthy" => s2.failed = FailureThreshold
    BY <1>1, <1>3 DEF Backed
  <1> QED
    BY <1>4, <1>5, <1>6 DEF Backed

\* A check that changes to a state with no result and no row it has read.
LEMMA Withdrawn ==
    ASSUME HealthInv, NEW ch \in [Checker -> CheckStates],
           \A k \in Checker : ch[k] # check[k] => ch[k].pc \in {"idle", "probe"},
           NEW r \in HealthRow \cup {NoRow}, Backed(r, check, seen)
    PROVE  AllBacked(r, ch, seen)
  <1>1. OkUnwritten(ch) <= OkUnwritten(check) /\ FailedUnwritten(ch) <= FailedUnwritten(check)
    <2>1. \A k \in Checker : /\ OkPending(ch[k]) <= OkPending(check[k])
                             /\ FailedPending(ch[k]) <= FailedPending(check[k])
      BY DEF OkPending, FailedPending
    <2> QED
      BY <2>1 DEF OkUnwritten, FailedUnwritten, OkPending, FailedPending, Checker
  <1>2. seen \in [ok: 0..SuccessThreshold, failed: 0..FailureThreshold]
    BY DEF HealthInv, HealthTypes
  <1>3. /\ OkUnwritten(ch) + seen.ok <= OkUnwritten(check) + seen.ok
        /\ FailedUnwritten(ch) + seen.failed <= FailedUnwritten(check) + seen.failed
        /\ seen.ok <= seen.ok /\ seen.failed <= seen.failed
    <2>1. seen.ok \in Nat /\ seen.failed \in Nat
      BY <1>2, HealthAssumption
    <2>2. /\ OkUnwritten(ch) \in Nat /\ FailedUnwritten(ch) \in Nat
          /\ OkUnwritten(check) \in Nat /\ FailedUnwritten(check) \in Nat
      BY UnwrittenType
    <2> QED
      BY <1>1, <2>1, <2>2
  <1>4. \A x \in HealthRow \cup {NoRow} : Backed(x, check, seen) => Backed(x, ch, seen)
    BY <1>2, <1>3, StaysBacked
  <1>5. ASSUME NEW k \in Checker, ch[k].pc = "write" PROVE Backed(ch[k].prev, ch, seen)
    <2>1. ch[k] = check[k]
      BY <1>5
    <2>2. check[k].prev \in HealthRow \cup {NoRow}
      BY <1>5, <2>1 DEF HealthInv, HealthTypes, CheckStates
    <2>3. Backed(check[k].prev, check, seen)
      BY <1>5, <2>1 DEF HealthInv, AllBacked
    <2> QED
      BY <2>1, <2>2, <2>3, <1>4
  <1> QED
    BY <1>4, <1>5 DEF AllBacked

LEMMA HealthStarts == Init => HealthInv
  <1> SUFFICES ASSUME Init PROVE HealthInv
    OBVIOUS
  <1>1. HealthInit
    BY DEF Init
  <1>2. HealthTypes
    BY <1>1, HealthAssumption DEF HealthInit, HealthTypes, CheckStates, NoCheck
  <1>3. \A k \in Checker : check[k].pc = "idle"
    BY <1>1 DEF HealthInit, NoCheck
  <1>4. OkUnwritten(check) = 0 /\ FailedUnwritten(check) = 0
    BY <1>3 DEF OkUnwritten, FailedUnwritten, OkPending, FailedPending, Checker
  <1>5. Backed(row, check, seen)
    <2>1. Counters(row).successes = 0 /\ Counters(row).failures = 0 /\ Counters(row).status = "unknown"
      BY <1>1 DEF HealthInit, Counters, Unknown
    <2>2. seen.ok = 0 /\ seen.failed = 0
      BY <1>1 DEF HealthInit
    <2> QED
      BY <2>1, <2>2, <1>4, HealthAssumption DEF Backed, Room
  <1> QED
    BY <1>2, <1>3, <1>5 DEF HealthInv, AllBacked

\* A probe adds one result to come, and records one probe.
LEMMA ProbeStep ==
    ASSUME HealthInv, NEW k \in Checker, Probe(k)
    PROVE  HealthInv'
  <1> DEFINE T == [ok: 0..SuccessThreshold, failed: 0..FailureThreshold]
  <1>1. seen \in T /\ check \in [Checker -> CheckStates] /\ row \in HealthRow \cup {NoRow} /\ up \in BOOLEAN
    BY DEF HealthInv, HealthTypes
  <1>2. seen.ok \in 0..SuccessThreshold /\ seen.failed \in 0..FailureThreshold
        /\ SuccessThreshold \in Nat /\ FailureThreshold \in Nat
    BY <1>1, HealthAssumption
  <1>3. check'[k] = [pc |-> "read", ok |-> up] /\ \A j \in Checker : j # k => check'[j] = check[j]
    BY <1>1 DEF Probe
  <1>4. check' \in [Checker -> CheckStates]
    <2>1. [pc |-> "read", ok |-> up] \in CheckStates
      BY <1>1 DEF CheckStates
    <2> QED
      BY <1>1, <2>1 DEF Probe
  <1>5. /\ seen' \in T
        /\ up => /\ seen'.ok = seen.ok + 1 \/ seen'.ok = SuccessThreshold
                 /\ seen'.failed = seen.failed
        /\ ~up => /\ seen'.failed = seen.failed + 1 \/ seen'.failed = FailureThreshold
                  /\ seen'.ok = seen.ok
    <2>1. Capped(seen.ok + 1, SuccessThreshold) \in 0..SuccessThreshold
          /\ Capped(seen.failed + 1, FailureThreshold) \in 0..FailureThreshold
          /\ \/ Capped(seen.ok + 1, SuccessThreshold) = seen.ok + 1
             \/ Capped(seen.ok + 1, SuccessThreshold) = SuccessThreshold
          /\ \/ Capped(seen.failed + 1, FailureThreshold) = seen.failed + 1
             \/ Capped(seen.failed + 1, FailureThreshold) = FailureThreshold
      BY <1>2 DEF Capped
    <2>2. seen' = IF up THEN [seen EXCEPT !.ok = Capped(seen.ok + 1, SuccessThreshold)]
                        ELSE [seen EXCEPT !.failed = Capped(seen.failed + 1, FailureThreshold)]
      BY DEF Probe
    <2> QED
      BY <2>1, <2>2, <1>1
  <1>6. /\ up => /\ OkUnwritten(check') = OkUnwritten(check) + 1
                 /\ FailedUnwritten(check') = FailedUnwritten(check)
        /\ ~up => /\ FailedUnwritten(check') = FailedUnwritten(check) + 1
                  /\ OkUnwritten(check') = OkUnwritten(check)
    <2>1. /\ OkPending(check[k]) = 0 /\ FailedPending(check[k]) = 0
          /\ up => OkPending(check'[k]) = 1 /\ FailedPending(check'[k]) = 0
          /\ ~up => OkPending(check'[k]) = 0 /\ FailedPending(check'[k]) = 1
          /\ \A j \in Checker : j # k => /\ OkPending(check'[j]) = OkPending(check[j])
                                         /\ FailedPending(check'[j]) = FailedPending(check[j])
      BY <1>1, <1>3 DEF OkPending, FailedPending, Probe
    <2>2. \A j \in Checker : /\ OkPending(check[j]) \in Nat /\ FailedPending(check[j]) \in Nat
      BY DEF OkPending, FailedPending
    <2>3. CASE k = "monitor"
      <3>1. "console" \in Checker /\ "console" # k
        BY <2>3 DEF Checker
      <3> QED
        BY <1>1, <2>1, <2>2, <2>3, <3>1 DEF OkUnwritten, FailedUnwritten
    <2>4. CASE k = "console"
      <3>1. "monitor" \in Checker /\ "monitor" # k
        BY <2>4 DEF Checker
      <3> QED
        BY <1>1, <2>1, <2>2, <2>4, <3>1 DEF OkUnwritten, FailedUnwritten
    <2> QED
      BY <2>3, <2>4 DEF Checker
  <1>7. seen'.ok \in 0..SuccessThreshold /\ seen'.failed \in 0..FailureThreshold
    BY <1>5
  <1>8. \A r \in HealthRow \cup {NoRow} : Backed(r, check, seen) => Backed(r, check', seen')
    <2>1. /\ seen.ok <= seen'.ok /\ seen.failed <= seen'.failed
          /\ \/ OkUnwritten(check') + seen.ok <= OkUnwritten(check) + seen'.ok
             \/ seen'.ok = SuccessThreshold
          /\ \/ FailedUnwritten(check') + seen.failed <= FailedUnwritten(check) + seen'.failed
             \/ seen'.failed = FailureThreshold
      <3>1. OkUnwritten(check) \in Nat /\ FailedUnwritten(check) \in Nat
        BY UnwrittenType
      <3>2. CASE up
        BY <1>2, <1>5, <1>6, <1>7, <3>1, <3>2
      <3>3. CASE ~up
        BY <1>2, <1>5, <1>6, <1>7, <3>1, <3>3
      <3> QED
        BY <3>2, <3>3
    <2> QED
      BY <2>1, <1>1, <1>5, StaysBacked
  <1>9. HealthTypes'
    BY <1>1, <1>4, <1>5 DEF HealthTypes, Probe
  <1>10. Backed(row, check', seen')
    BY <1>1, <1>8 DEF HealthInv, AllBacked
  <1>11. ASSUME NEW j \in Checker, check'[j].pc = "write" PROVE Backed(check'[j].prev, check', seen')
    <2>1. j # k /\ check'[j] = check[j]
      BY <1>11, <1>3
    <2>2. check[j].prev \in HealthRow \cup {NoRow} /\ Backed(check[j].prev, check, seen)
      BY <1>1, <1>11, <2>1 DEF HealthInv, AllBacked, CheckStates
    <2> QED
      BY <1>8, <2>1, <2>2
  <1>12. row' = row
    BY DEF Probe
  <1> QED
    BY <1>9, <1>10, <1>11, <1>12 DEF HealthInv, AllBacked

LEMMA ReadStep ==
    ASSUME HealthInv, NEW k \in Checker, ReadPrevious(k)
    PROVE  HealthInv'
  <1>1. /\ check \in [Checker -> CheckStates] /\ row \in HealthRow \cup {NoRow} /\ up \in BOOLEAN
        /\ seen \in [ok: 0..SuccessThreshold, failed: 0..FailureThreshold]
    BY DEF HealthInv, HealthTypes
  <1>2. check[k].pc = "read" /\ check[k].ok \in BOOLEAN
    BY <1>1 DEF ReadPrevious, CheckStates
  <1>3. /\ check'[k] = [pc |-> "write", ok |-> check[k].ok, prev |-> row]
        /\ \A j \in Checker : j # k => check'[j] = check[j]
        /\ row' = row /\ seen' = seen /\ up' = up
    BY <1>1 DEF ReadPrevious
  <1>4. check' \in [Checker -> CheckStates]
    <2>1. [pc |-> "write", ok |-> check[k].ok, prev |-> row] \in CheckStates
      BY <1>1, <1>2 DEF CheckStates
    <2> QED
      BY <1>1, <2>1 DEF ReadPrevious
  <1>5. OkUnwritten(check') = OkUnwritten(check) /\ FailedUnwritten(check') = FailedUnwritten(check)
    <2>1. \A j \in Checker : /\ OkPending(check'[j]) = OkPending(check[j])
                             /\ FailedPending(check'[j]) = FailedPending(check[j])
      BY <1>2, <1>3 DEF OkPending, FailedPending
    <2> QED
      BY <2>1 DEF OkUnwritten, FailedUnwritten, Checker
  <1>6. \A r : Backed(r, check, seen) => Backed(r, check', seen')
    BY <1>3, <1>5 DEF Backed
  <1>7. HealthTypes'
    BY <1>1, <1>3, <1>4 DEF HealthTypes
  <1>8. ASSUME NEW j \in Checker, check'[j].pc = "write" PROVE Backed(check'[j].prev, check', seen')
    BY <1>3, <1>6, <1>8 DEF HealthInv, AllBacked
  <1> QED
    BY <1>3, <1>6, <1>7, <1>8 DEF HealthInv, AllBacked

\* The row written counts the result that is no longer to come.
LEMMA UpsertStep ==
    ASSUME HealthInv, NEW k \in Checker, Upsert(k)
    PROVE  HealthInv'
  <1>1. /\ check \in [Checker -> CheckStates] /\ row \in HealthRow \cup {NoRow} /\ up \in BOOLEAN
        /\ seen \in [ok: 0..SuccessThreshold, failed: 0..FailureThreshold]
    BY DEF HealthInv, HealthTypes
  <1>2. /\ check[k].pc = "write" /\ check[k].ok \in BOOLEAN
        /\ check[k].prev \in HealthRow \cup {NoRow}
        /\ Backed(check[k].prev, check, seen)
    BY <1>1 DEF Upsert, CheckStates, HealthInv, AllBacked
  <1>3. /\ check'[k] = NoCheck /\ NoCheck \in CheckStates /\ NoCheck.pc = "idle"
        /\ \A j \in Checker : j # k => check'[j] = check[j]
        /\ check' \in [Checker -> CheckStates]
        /\ seen' = seen /\ up' = up
    BY <1>1 DEF Upsert, CheckStates, NoCheck
  <1> DEFINE p == Counters(check[k].prev)
             s == Capped(p.successes + 1, SuccessThreshold)
             f == Capped(p.failures + 1, FailureThreshold)
  <1>4. /\ p.status \in {"unknown", "healthy", "unhealthy"}
        /\ p.successes \in Nat /\ p.failures \in Nat
        /\ SuccessThreshold \in Nat \ {0} /\ FailureThreshold \in Nat \ {0}
        /\ seen.ok \in 0..SuccessThreshold /\ seen.failed \in 0..FailureThreshold
    BY <1>1, <1>2, CountersType, HealthAssumption
  <1>5. /\ check[k].ok =>
             row' = [status |-> IF s >= SuccessThreshold THEN "healthy" ELSE p.status,
                     successes |-> s, failures |-> 0]
        /\ ~check[k].ok =>
             row' = [status |-> IF f >= FailureThreshold THEN "unhealthy" ELSE p.status,
                     successes |-> 0, failures |-> f]
    BY DEF Upsert, BuildHealthResult, Counters
  <1>6. /\ s \in Nat /\ s <= p.successes + 1 /\ s <= SuccessThreshold
        /\ f \in Nat /\ f <= p.failures + 1 /\ f <= FailureThreshold
    BY <1>4 DEF Capped
  <1>7. /\ Room(p.successes, OkUnwritten(check), seen.ok, SuccessThreshold)
        /\ Room(p.failures, FailedUnwritten(check), seen.failed, FailureThreshold)
        /\ p.status = "healthy" => seen.ok = SuccessThreshold
        /\ p.status = "unhealthy" => seen.failed = FailureThreshold
    BY <1>2 DEF Backed
  <1> HIDE DEF p, s, f
  <1>8. /\ check[k].ok => /\ OkUnwritten(check') + 1 = OkUnwritten(check)
                          /\ FailedUnwritten(check') = FailedUnwritten(check)
        /\ ~check[k].ok => /\ FailedUnwritten(check') + 1 = FailedUnwritten(check)
                           /\ OkUnwritten(check') = OkUnwritten(check)
    <2>1. /\ OkPending(check'[k]) = 0 /\ FailedPending(check'[k]) = 0
          /\ check[k].ok => OkPending(check[k]) = 1 /\ FailedPending(check[k]) = 0
          /\ ~check[k].ok => OkPending(check[k]) = 0 /\ FailedPending(check[k]) = 1
          /\ \A j \in Checker : j # k => /\ OkPending(check'[j]) = OkPending(check[j])
                                         /\ FailedPending(check'[j]) = FailedPending(check[j])
      BY <1>2, <1>3 DEF OkPending, FailedPending
    <2>2. \A j \in Checker : OkPending(check[j]) \in Nat /\ FailedPending(check[j]) \in Nat
      BY DEF OkPending, FailedPending
    <2>3. CASE k = "monitor"
      <3>1. "console" \in Checker /\ "console" # k
        BY <2>3 DEF Checker
      <3> QED
        BY <2>1, <2>2, <2>3, <3>1 DEF OkUnwritten, FailedUnwritten
    <2>4. CASE k = "console"
      <3>1. "monitor" \in Checker /\ "monitor" # k
        BY <2>4 DEF Checker
      <3> QED
        BY <2>1, <2>2, <2>4, <3>1 DEF OkUnwritten, FailedUnwritten
    <2> QED
      BY <2>3, <2>4 DEF Checker
  <1>9. /\ OkUnwritten(check) \in Nat /\ FailedUnwritten(check) \in Nat
        /\ OkUnwritten(check') \in Nat /\ FailedUnwritten(check') \in Nat
    BY UnwrittenType
  <1>10. row' \in HealthRow
    BY <1>2, <1>4, <1>5, <1>6 DEF HealthRow
  <1>11. Counters(row') = row'
    BY <1>10, HealthAssumption DEF Counters
  <1>12. Backed(row', check', seen)
    <2>1. CASE check[k].ok
      <3>1. /\ row'.successes = s /\ row'.failures = 0
            /\ row'.status = IF s >= SuccessThreshold THEN "healthy" ELSE p.status
        BY <2>1, <1>5
      <3>2. Room(s, OkUnwritten(check'), seen.ok, SuccessThreshold)
        BY <2>1, <1>4, <1>6, <1>7, <1>8, <1>9 DEF Room
      <3>3. Room(0, FailedUnwritten(check'), seen.failed, FailureThreshold)
        BY <2>1, <1>4, <1>7, <1>8, <1>9 DEF Room
      <3>4. s >= SuccessThreshold => seen.ok = SuccessThreshold
        BY <2>1, <1>4, <1>6, <1>7, <1>8, <1>9 DEF Room
      <3> QED
        BY <3>1, <3>2, <3>3, <3>4, <1>4, <1>6, <1>7, <1>11 DEF Backed
    <2>2. CASE ~check[k].ok
      <3>1. /\ row'.successes = 0 /\ row'.failures = f
            /\ row'.status = IF f >= FailureThreshold THEN "unhealthy" ELSE p.status
        BY <2>2, <1>5
      <3>2. Room(f, FailedUnwritten(check'), seen.failed, FailureThreshold)
        BY <2>2, <1>4, <1>6, <1>7, <1>8, <1>9 DEF Room
      <3>3. Room(0, OkUnwritten(check'), seen.ok, SuccessThreshold)
        BY <2>2, <1>4, <1>7, <1>8, <1>9 DEF Room
      <3>4. f >= FailureThreshold => seen.failed = FailureThreshold
        <4>1. FailedUnwritten(check) >= 1
          BY <2>2, <1>8, <1>9
        <4> QED
          BY <4>1, <1>4, <1>6, <1>7, <1>9 DEF Room
      <3> QED
        BY <3>1, <3>2, <3>3, <3>4, <1>4, <1>6, <1>7, <1>11 DEF Backed
    <2> QED
      BY <2>1, <2>2
  <1>13. AllBacked(row, check', seen)
    <2>1. \A j \in Checker : check'[j] # check[j] => check'[j].pc \in {"idle", "probe"}
      BY <1>3
    <2> QED
      BY <2>1, <1>1, <1>3, Withdrawn DEF HealthInv, AllBacked
  <1>14. HealthTypes'
    BY <1>1, <1>3, <1>10 DEF HealthTypes
  <1> QED
    BY <1>3, <1>12, <1>13, <1>14 DEF HealthInv, AllBacked

\* The other steps withdraw checks, or replace the row by nothing.
LEMMA QuietStep ==
    ASSUME HealthInv, up' \in BOOLEAN, row' \in {row, NoRow}, seen' = seen,
           check' \in [Checker -> CheckStates],
           \A k \in Checker : check'[k] # check[k] => check'[k].pc \in {"idle", "probe"}
    PROVE  HealthInv'
  <1>1. row \in HealthRow \cup {NoRow} /\ Backed(row, check, seen)
    BY DEF HealthInv, HealthTypes, AllBacked
  <1>2. Backed(NoRow, check, seen)
    <2>1. /\ Counters(NoRow).successes = 0 /\ Counters(NoRow).failures = 0
          /\ Counters(NoRow).status = "unknown"
      BY DEF Counters, Unknown
    <2>2. Counters(row).successes \in Nat /\ Counters(row).failures \in Nat
      BY <1>1, CountersType
    <2>3. /\ seen.ok \in Nat /\ seen.failed \in Nat
          /\ SuccessThreshold \in Nat /\ FailureThreshold \in Nat
      BY HealthAssumption DEF HealthInv, HealthTypes
    <2>4. OkUnwritten(check) \in Nat /\ FailedUnwritten(check) \in Nat
      BY UnwrittenType
    <2>5. /\ Room(0, OkUnwritten(check), seen.ok, SuccessThreshold)
          /\ Room(0, FailedUnwritten(check), seen.failed, FailureThreshold)
      BY <1>1, <2>2, <2>3, <2>4 DEF Backed, Room
    <2> QED
      BY <2>1, <2>3, <2>5 DEF Backed
  <1>3. AllBacked(row', check', seen)
    BY <1>1, <1>2, Withdrawn
  <1>4. HealthTypes'
    BY <1>1 DEF HealthInv, HealthTypes
  <1> QED
    BY <1>3, <1>4 DEF HealthInv

\* No probe is counted twice, none that did not run is counted at all, and a
\* status has its threshold of probes behind it, with any thresholds: the checks of
\* the monitor and of the console read the counters and write them in separate
\* statements (CheckTarget, Upsert).
THEOREM StatusIsBacked == Spec => []StatusHasProbes
  <1>1. HealthInv /\ [Next]_vars => HealthInv'
    <2> SUFFICES ASSUME HealthInv, [Next]_vars PROVE HealthInv'
      OBVIOUS
    <2>1. /\ check \in [Checker -> CheckStates] /\ up \in BOOLEAN
          /\ NoCheck \in CheckStates /\ [pc |-> "probe"] \in CheckStates
      BY DEF HealthInv, HealthTypes, CheckStates, NoCheck
    <2>2. CASE Health(HealthNext)
      <3>1. CASE AppFlips
        BY <3>1, <2>1, QuietStep DEF AppFlips
      <3>2. CASE Stop
        BY <3>2, <2>1, QuietStep DEF Stop
      <3>3. CASE ClearTargetHealth
        BY <3>3, <2>1, QuietStep DEF ClearTargetHealth
      <3>4. CASE BringBack
        BY <3>4, <2>1, QuietStep DEF BringBack
      <3>5. ASSUME NEW k \in Checker, Load(k) PROVE HealthInv'
        <4>1. /\ check' \in [Checker -> CheckStates]
              /\ \A j \in Checker : check'[j] # check[j] => check'[j].pc \in {"idle", "probe"}
          BY <2>1, <3>5 DEF Load
        <4> QED
          BY <4>1, <2>1, <3>5, QuietStep DEF Load
      <3>6. ASSUME NEW k \in Checker, GiveUp(k) PROVE HealthInv'
        <4>1. /\ check' \in [Checker -> CheckStates]
              /\ \A j \in Checker : check'[j] # check[j] => check'[j].pc \in {"idle", "probe"}
          BY <2>1, <3>6 DEF GiveUp, NoCheck
        <4> QED
          BY <4>1, <2>1, <3>6, QuietStep DEF GiveUp
      <3> QED
        BY <2>2, <3>1, <3>2, <3>3, <3>4, <3>5, <3>6, ProbeStep, ReadStep, UpsertStep
           DEF Health, HealthNext
    <2>3. CASE Restart
      <3>1. /\ check' \in [Checker -> CheckStates]
            /\ \A j \in Checker : check'[j].pc = "idle"
        BY <2>1, <2>3 DEF Restart, HealthRestart, NoCheck
      <3> QED
        BY <3>1, <2>1, <2>3, QuietStep DEF Restart, HealthRestart
    <2>4. CASE UNCHANGED healthVars
      BY <2>1, <2>4, QuietStep DEF healthVars
    <2> QED
      BY <2>2, <2>3, <2>4 DEF Next, vars, Alerts, Vars, Files, Machines
  <1>2. HealthInv => StatusHasProbes
    <2> SUFFICES ASSUME HealthInv, row # NoRow PROVE
            /\ row.successes <= seen.ok /\ row.failures <= seen.failed
            /\ row.status = "healthy" => seen.ok = SuccessThreshold
            /\ row.status = "unhealthy" => seen.failed = FailureThreshold
      BY DEF StatusHasProbes
    <2>1. Counters(row) = row /\ row.successes \in Nat /\ row.failures \in Nat
      BY DEF HealthInv, HealthTypes, HealthRow, Counters
    <2>2. OkUnwritten(check) \in Nat /\ FailedUnwritten(check) \in Nat
      BY UnwrittenType
    <2>3. /\ seen.ok \in Nat /\ seen.failed \in Nat
          /\ SuccessThreshold \in Nat /\ FailureThreshold \in Nat
      BY HealthAssumption DEF HealthInv, HealthTypes
    <2> QED
      BY <2>1, <2>2, <2>3 DEF HealthInv, AllBacked, Backed, Room
  <1> QED
    BY <1>1, <1>2, HealthStarts, PTL DEF Spec
-----------------------------------------------------------------------------
(***************************************************************************)
(* Files. A temporary file that is renamed on a machine with filestore is   *)
(* whole; an upload in progress carries what its row will assert; what is   *)
(* at a path has been there.                                                *)
(***************************************************************************)
Status == {"ok", "missing", "changed", "unreachable"}

FileRow == [machine: Machine, scope: {"machine", "app_env"}, sum: Content \cup {""}, status: Status]

UploadStates ==
         [pc: {"new", "done"}]
    \cup [pc: {"next"}, left: SUBSET Machine]
    \cup [pc: {"copy", "stat"}, left: SUBSET Machine, machine: Machine]
    \cup [pc: {"record"}, left: SUBSET Machine, machine: Machine, sum: Content \cup {""}]

TempStates == [pc: {"none"}] \cup [pc: {"copy", "rename"}, content: Content]

PassStates ==
         [pc: {"idle"}]
    \cup [pc: {"stat"}, ids: SUBSET Nat]
    \cup [pc: {"save"}, ids: SUBSET Nat, status: Status]

\* The checksum may be recorded for the machine, given what was there.
MayRecord(past, m, sum) == sum \in past[m] /\ (m \in Ssh \/ sum # "")

DiskInv ==
    /\ hosts \subseteq Machine
    /\ disk \in [Machine -> Content]
    /\ held \in [Machine -> SUBSET (Content \cup {""})]
    /\ \A m \in Machine : Sum(disk[m]) \in held[m]
    /\ WholeFilesOnly

TempInv ==
    /\ temp \in [Upload -> [Machine -> TempStates]]
    /\ \A u \in Upload, m \in Machine :
          temp[u][m].pc = "rename" /\ m \notin Ssh => temp[u][m].content = u

UploadInv ==
    /\ upload \in [Upload -> UploadStates]
    /\ \A u \in Upload :
          /\ upload[u].pc = "stat" => upload[u].machine \in Ssh
          /\ upload[u].pc = "record" => MayRecord(held, upload[u].machine, upload[u].sum)

RowsInv ==
    /\ rows \in Seq(FileRow)
    /\ RecordedWasThere

PassInv ==
    verify \in [{"monitor", "console"} -> PassStates]

FilesInv == DiskInv /\ TempInv /\ UploadInv /\ RowsInv /\ PassInv

LEMMA NoRows == rows = <<>> => RowsInv
  <1> SUFFICES ASSUME rows = <<>> PROVE RowsInv
    OBVIOUS
  <1>1. rows \in Seq(FileRow)
    OBVIOUS
  <1>2. DOMAIN rows = {}
    OBVIOUS
  <1> QED
    BY <1>1, <1>2 DEF RowsInv, RecordedWasThere

LEMMA FilesStart == Init => FilesInv
  <1> SUFFICES ASSUME Init PROVE FilesInv
    OBVIOUS
  <1> USE DEF Init, FilesInit
  <1>1. DiskInv
    BY DEF DiskInv, Content, WholeFilesOnly, Sum
  <1>2. UploadInv
    BY DEF UploadInv, UploadStates, NotBegun
  <1>3. RowsInv
    BY NoRows
  <1>4. PassInv
    BY DEF PassInv, PassStates, NoPass
  <1>5. TempInv
    BY DEF TempInv, TempStates, NoTemp
  <1> QED
    BY <1>1, <1>2, <1>3, <1>4, <1>5 DEF FilesInv

\* A step writes to a machine nothing cut short, unless over SSH.
LEMMA DiskStep ==
    ASSUME DiskInv, hosts' = hosts, NEW m \in Machine, NEW c \in Content, Put(m, c),
           m \in Ssh \/ c # "part"
    PROVE  DiskInv'
  <1>1. Sum(c) \in Content \cup {""}
    BY DEF Sum
  <1>2. /\ disk' \in [Machine -> Content]
        /\ held' \in [Machine -> SUBSET (Content \cup {""})]
    BY <1>1 DEF DiskInv, Put
  <1>3. ASSUME NEW n \in Machine PROVE Sum(disk[n])' \in held'[n]
    BY <1>3 DEF DiskInv, Put, Sum
  <1>4. WholeFilesOnly'
    BY DEF DiskInv, Put, WholeFilesOnly
  <1> QED
    BY <1>2, <1>3, <1>4 DEF DiskInv

\* What may be recorded stays so, whatever is written.
LEMMA HeldGrows ==
    ASSUME DiskInv, UNCHANGED <<disk, held>> \/ (\E n \in Machine, c \in Content : Put(n, c)),
           NEW m \in Machine, NEW sum, MayRecord(held, m, sum)
    PROVE  MayRecord(held', m, sum)
  BY DEF DiskInv, Put, MayRecord

\* A step moves one upload to a state that may be.
LEMMA UploadStep ==
    ASSUME DiskInv, UploadInv, UNCHANGED <<disk, held>> \/ (\E n \in Machine, c \in Content : Put(n, c)),
           NEW u \in Upload, NEW st \in UploadStates,
           upload' = [upload EXCEPT ![u] = st] \/ upload' = upload,
           st.pc = "stat" => st.machine \in Ssh,
           st.pc = "record" => MayRecord(held', st.machine, st.sum)
    PROVE  UploadInv'
  <1>1. upload' \in [Upload -> UploadStates]
    BY DEF UploadInv
  <1>2. ASSUME NEW v \in Upload PROVE
            /\ upload'[v].pc = "stat" => upload'[v].machine \in Ssh
            /\ upload'[v].pc = "record" => MayRecord(held', upload'[v].machine, upload'[v].sum)
    <2>1. CASE upload'[v] = st
      BY <2>1
    <2>2. CASE upload'[v] = upload[v]
      <3>1. upload[v].pc = "record" => upload[v].machine \in Machine
        BY DEF UploadInv, UploadStates
      <3>2. upload[v].pc = "record" => MayRecord(held', upload[v].machine, upload[v].sum)
        BY <3>1, HeldGrows DEF UploadInv
      <3> QED
        BY <2>2, <3>2 DEF UploadInv
    <2> QED
      BY <2>1, <2>2 DEF UploadInv
  <1> QED
    BY <1>1, <1>2 DEF UploadInv

LEMMA RowsKeep ==
    ASSUME DiskInv, RowsInv, UNCHANGED rows,
           UNCHANGED <<disk, held>> \/ (\E n \in Machine, c \in Content : Put(n, c))
    PROVE  RowsInv'
  <1>1. ASSUME NEW id \in DOMAIN rows PROVE MayRecord(held', rows[id].machine, rows[id].sum)
    <2>1. rows[id] \in FileRow
      BY DEF RowsInv
    <2>2. MayRecord(held, rows[id].machine, rows[id].sum)
      BY DEF RowsInv, RecordedWasThere, MayRecord
    <2> QED
      BY <2>1, <2>2, HeldGrows DEF FileRow
  <1> QED
    BY <1>1 DEF RowsInv, RecordedWasThere, MayRecord

LEMMA TurnType ==
    ASSUME UploadInv, NEW u \in Upload, upload[u].pc \in {"copy", "stat", "record"}
    PROVE  Turn(u) \in UploadStates /\ Turn(u).pc \notin {"stat", "record"}
  BY DEF UploadInv, UploadStates, Turn, Ended

\* The writer of u moves on m, and its request with it or not.
LEMMA TempStep ==
    ASSUME TempInv, NEW u \in Upload, NEW m \in Machine, NEW t \in TempStates,
           temp' = [temp EXCEPT ![u][m] = t],
           t.pc = "rename" /\ m \notin Ssh => t.content = u
    PROVE  TempInv'
  BY DEF TempInv

\* A writer's answer moves the request that waits for it, and no other.
LEMMA Answered ==
    ASSUME DiskInv, UploadInv, UNCHANGED <<disk, held>> \/ (\E n \in Machine, c \in Content : Put(n, c)),
           NEW u \in Upload, NEW m \in Machine, NEW next, Answer(u, m, next),
           Waits(u, m) => /\ next \in UploadStates
                          /\ next.pc = "stat" => next.machine \in Ssh
                          /\ next.pc = "record" => MayRecord(held', next.machine, next.sum)
    PROVE  UploadInv'
  <1>1. CASE Waits(u, m)
    BY <1>1, UploadStep DEF Answer
  <1>2. CASE ~Waits(u, m)
    <2>1. NotBegun \in UploadStates /\ NotBegun.pc = "new"
      BY DEF NotBegun, UploadStates
    <2> QED
      BY <1>2, <2>1, UploadStep DEF Answer
  <1> QED
    BY <1>1, <1>2

LEMMA WriterSteps ==
    ASSUME FilesInv, NEW u \in Upload, NEW m \in Machine,
           \/ PutFile(u, m) \/ Copied(u, m) \/ Cut(u, m) \/ Abandon(u, m)
           \/ Rename(u, m) \/ SshMove(u, m)
    PROVE  FilesInv'
  <1>1. /\ DiskInv /\ TempInv /\ UploadInv /\ RowsInv /\ PassInv
        /\ upload[u] \in UploadStates /\ temp[u][m] \in TempStates
    BY DEF FilesInv, UploadInv, TempInv
  <1>2. ASSUME UNCHANGED <<hosts, disk, held>> PROVE DiskInv'
    BY <1>1, <1>2 DEF DiskInv, WholeFilesOnly
  <1>3. ASSUME UNCHANGED <<disk, held, rows>> PROVE RowsInv'
    BY <1>1, <1>3, RowsKeep
  <1>4. ASSUME UNCHANGED verify PROVE PassInv'
    BY <1>1, <1>4 DEF PassInv
  <1>5. NoTemp \in TempStates /\ NoTemp.pc = "none"
    BY DEF NoTemp, TempStates
  <1>6. Waits(u, m) => upload[u].machine = m /\ upload[u].pc = "copy" /\ upload[u].left \in SUBSET Machine
    BY <1>1 DEF Waits, UploadStates
  <1>7. Waits(u, m) => Turn(u) \in UploadStates /\ Turn(u).pc \notin {"stat", "record"}
    BY <1>1, <1>6, TurnType
  <1>8. CASE PutFile(u, m)
    <2> DEFINE st == [pc |-> "copy", left |-> upload[u].left, machine |-> m]
               t  == [pc |-> "copy", content |-> "part"]
    <2>1. st \in UploadStates /\ st.pc = "copy" /\ t \in TempStates /\ t.pc = "copy"
      BY <1>1, <1>8 DEF UploadStates, TempStates, PutFile, Content
    <2>2. upload' = [upload EXCEPT ![u] = st] /\ temp' = [temp EXCEPT ![u][m] = t]
      BY <1>8 DEF PutFile
    <2> HIDE DEF st, t
    <2>3. UploadInv'
      BY <1>1, <1>8, <2>1, <2>2, UploadStep DEF PutFile
    <2>4. TempInv'
      BY <1>1, <2>1, <2>2, TempStep
    <2> QED
      BY <1>2, <1>3, <1>4, <1>8, <2>3, <2>4 DEF FilesInv, PutFile
  <1>9. CASE Copied(u, m)
    <2> DEFINE t == [pc |-> "rename", content |-> u]
    <2>1. t \in TempStates /\ t.content = u
      BY DEF TempStates, Content
    <2>2. temp' = [temp EXCEPT ![u][m] = t]
      BY <1>9 DEF Copied
    <2> HIDE DEF t
    <2>3. TempInv'
      BY <1>1, <2>1, <2>2, TempStep
    <2>4. UploadInv'
      BY <1>1, <1>9 DEF Copied, UploadInv, MayRecord
    <2> QED
      BY <1>2, <1>3, <1>4, <1>9, <2>3, <2>4 DEF FilesInv, Copied
  <1>10. CASE Cut(u, m)
    <2> DEFINE t == IF m \in Ssh THEN [temp[u][m] EXCEPT !.pc = "rename"] ELSE NoTemp
    <2>1. temp' = [temp EXCEPT ![u][m] = t]
      BY <1>1, <1>10 DEF Cut, TempInv
    <2>2. t \in TempStates
      BY <1>1, <1>5, <1>10 DEF Cut, TempStates
    <2>3. m \notin Ssh => t.pc = "none"
      BY <1>5
    <2> HIDE DEF t
    <2>4. TempInv'
      BY <1>1, <2>1, <2>2, <2>3, TempStep
    <2>5. UploadInv'
      BY <1>1, <1>7, <1>10, Answered DEF Cut
    <2> QED
      BY <1>2, <1>3, <1>4, <1>10, <2>4, <2>5 DEF FilesInv, Cut
  <1>11. CASE Abandon(u, m)
    <2>1. TempInv'
      BY <1>1, <1>5, <1>11, TempStep DEF Abandon
    <2>2. UploadInv'
      BY <1>1, <1>7, <1>11, Answered DEF Abandon
    <2> QED
      BY <1>2, <1>3, <1>4, <1>11, <2>1, <2>2 DEF FilesInv, Abandon
  <1>12. CASE Rename(u, m)
    <2>1. temp[u][m].content = u /\ u \in Content /\ u # "part" /\ u # "" /\ Sum(u) = u
      BY <1>1, <1>12, FilesAssumption DEF Rename, TempInv, Content, Sum
    <2>2. Put(m, u) /\ hosts' = hosts
      BY <1>12, <2>1 DEF Rename
    <2>3. DiskInv'
      BY <1>1, <2>1, <2>2, DiskStep
    <2>4. RowsInv'
      BY <1>1, <1>12, <2>1, <2>2, RowsKeep DEF Rename
    <2>5. TempInv'
      BY <1>1, <1>5, <1>12, TempStep DEF Rename
    <2>6. MayRecord(held', m, u)
      BY <1>1, <2>1, <2>2 DEF MayRecord, Put, DiskInv
    <2>7. Waits(u, m) => /\ Received(u, u) \in UploadStates
                         /\ Received(u, u).pc = "record" /\ Received(u, u).machine = m /\ Received(u, u).sum = u
      BY <1>6, <2>1 DEF Received, UploadStates
    <2>8. Answer(u, m, Received(u, u))
      BY <1>12, <2>1 DEF Rename
    <2>9. Waits(u, m) => MayRecord(held', Received(u, u).machine, Received(u, u).sum)
      <3>1. Waits(u, m) => Received(u, u).machine = m /\ Received(u, u).sum = u
        BY <2>7
      <3>2. MayRecord(held', m, u) = (u \in held'[m] /\ (m \in Ssh \/ u # ""))
        BY DEF MayRecord
      <3> QED
        BY <2>1, <2>2, <2>6, <3>1 DEF MayRecord
    <2>10. UploadInv'
      BY <1>1, <2>1, <2>2, <2>7, <2>8, <2>9, Answered
    <2> QED
      BY <1>4, <1>12, <2>3, <2>4, <2>5, <2>10 DEF FilesInv, Rename
  <1>13. CASE SshMove(u, m)
    <2> DEFINE c  == temp[u][m].content
               st == [pc |-> "stat", left |-> upload[u].left, machine |-> m]
    <2>1. c \in Content /\ m \in Ssh /\ hosts' = hosts /\ rows' = rows
      BY <1>1, <1>13 DEF SshMove, TempStates
    <2>2. Put(m, c) \/ UNCHANGED <<disk, held>>
      BY <1>13 DEF SshMove
    <2> HIDE DEF c
    <2>3. DiskInv'
      BY <1>1, <1>2, <2>1, <2>2, DiskStep
    <2>4. RowsInv'
      BY <1>1, <2>1, <2>2, RowsKeep
    <2>5. TempInv'
      BY <1>1, <1>5, <1>13, TempStep DEF SshMove
    <2>6. Waits(u, m) => st \in UploadStates
      BY <1>6 DEF UploadStates
    <2>7. st.pc = "stat" /\ st.machine = m /\ Answer(u, m, st)
      BY <1>13 DEF SshMove
    <2> HIDE DEF st
    <2>8. UploadInv'
      BY <1>1, <2>1, <2>2, <2>6, <2>7, Answered
    <2> QED
      BY <1>4, <1>13, <2>3, <2>4, <2>5, <2>8 DEF FilesInv, SshMove
  <1> QED
    BY <1>8, <1>9, <1>10, <1>11, <1>12, <1>13

LEMMA RequestSteps ==
    ASSUME FilesInv, NEW u \in Upload,
           \/ \E machines \in SUBSET hosts : UploadToAppEnv(u, machines)
           \/ \E m \in hosts : UploadToMachine(u, m) \/ Skip(u, m)
           \/ SshStat(u) \/ TransferFails(u) \/ RequestEnds(u) \/ RecordUpload(u) \/ RecordFails(u)
    PROVE  FilesInv'
  <1>1. DiskInv /\ TempInv /\ UploadInv /\ RowsInv /\ PassInv /\ upload[u] \in UploadStates
    BY DEF FilesInv, UploadInv
  <1>2. ASSUME UNCHANGED <<hosts, disk, held, temp>> PROVE DiskInv' /\ TempInv'
    BY <1>1, <1>2 DEF DiskInv, WholeFilesOnly, TempInv
  <1>3. ASSUME UNCHANGED <<disk, held, rows>> PROVE RowsInv'
    BY <1>1, <1>3, RowsKeep
  <1>4. ASSUME UNCHANGED verify PROVE PassInv'
    BY <1>1, <1>4 DEF PassInv
  <1>5. ASSUME UNCHANGED <<hosts, disk, held, temp, rows, verify>>,
               NEW st \in UploadStates, st.pc \notin {"stat", "record"},
               upload' = [upload EXCEPT ![u] = st]
        PROVE  FilesInv'
    BY <1>1, <1>2, <1>3, <1>4, <1>5, UploadStep DEF FilesInv
  <1>6. ASSUME NEW machines \in SUBSET Machine, Begin(u, machines) PROVE FilesInv'
    <2>1. [pc |-> "next", left |-> machines] \in UploadStates
      BY DEF UploadStates
    <2> QED
      BY <1>5, <1>6, <2>1 DEF Begin
  <1>7. ASSUME NEW m \in hosts, Skip(u, m) PROVE FilesInv'
    <2> DEFINE st == IF upload[u].left = {m} THEN Ended
                     ELSE [pc |-> "next", left |-> upload[u].left \ {m}]
    <2>1. st \in UploadStates /\ st.pc \notin {"stat", "record"}
      BY <1>1, <1>7 DEF UploadStates, Skip, Ended
    <2>2. upload' = [upload EXCEPT ![u] = st]
      BY <1>7 DEF Skip
    <2> HIDE DEF st
    <2> QED
      BY <1>5, <1>7, <2>1, <2>2 DEF Skip
  <1>8. CASE SshStat(u)
    <2> DEFINE m   == upload[u].machine
               sum == Sum(disk[m])
               st  == Received(u, sum)
    <2>1. m \in Machine /\ m \in Ssh /\ upload[u].left \in SUBSET Machine
      BY <1>1, <1>8 DEF UploadStates, SshStat, UploadInv
    <2>2. sum \in Content \cup {""} /\ sum \in held[m]
      BY <1>1, <2>1 DEF Sum, DiskInv
    <2>3. upload' = [upload EXCEPT ![u] = st] /\ UNCHANGED <<hosts, disk, held, temp, rows, verify>>
      BY <1>8 DEF SshStat
    <2> HIDE DEF sum
    <2>4. st \in UploadStates /\ st.pc = "record" /\ st.machine = m /\ st.sum = sum
      BY <2>1, <2>2 DEF UploadStates, Received
    <2> HIDE DEF st, m
    <2>5. MayRecord(held', st.machine, st.sum)
      BY <2>1, <2>2, <2>3, <2>4 DEF MayRecord
    <2>6. UploadInv'
      BY <1>1, <2>3, <2>4, <2>5, UploadStep
    <2> QED
      BY <1>2, <1>3, <1>4, <2>3, <2>6 DEF FilesInv
  <1>9. CASE TransferFails(u)
    BY <1>1, <1>5, <1>9, TurnType DEF TransferFails
  <1>10. CASE RequestEnds(u)
    <2>1. Ended \in UploadStates /\ Ended.pc = "done"
      BY DEF Ended, UploadStates
    <2> QED
      BY <1>5, <1>10, <2>1 DEF RequestEnds
  <1>11. CASE RecordUpload(u)
    <2> DEFINE new == [machine |-> upload[u].machine, scope |-> IF u \in Raw THEN "machine" ELSE "app_env",
                       sum |-> upload[u].sum, status |-> "ok"]
    <2>1. new \in FileRow /\ MayRecord(held, new.machine, new.sum) /\ rows' = Append(rows, new)
      BY <1>1, <1>11 DEF UploadInv, UploadStates, RecordUpload, FileRow, Status
    <2> HIDE DEF new
    <2>2. RowsInv'
      <3>1. rows \in Seq(FileRow) /\ rows' \in Seq(FileRow) /\ held' = held
        BY <1>1, <1>11, <2>1 DEF RowsInv, RecordUpload
      <3>2. ASSUME NEW id \in DOMAIN rows' PROVE MayRecord(held, rows'[id].machine, rows'[id].sum)
        <4>1. rows'[id] = new \/ (id \in DOMAIN rows /\ rows'[id] = rows[id])
          BY <2>1, <3>1, <3>2
        <4> QED
          BY <1>1, <2>1, <4>1 DEF RowsInv, RecordedWasThere, MayRecord
      <3> QED
        BY <3>1, <3>2 DEF RowsInv, RecordedWasThere, MayRecord
    <2>3. UploadInv'
      BY <1>1, <1>11, TurnType, UploadStep DEF RecordUpload
    <2> QED
      BY <1>2, <1>4, <1>11, <2>2, <2>3 DEF FilesInv, RecordUpload
  <1>12. CASE RecordFails(u)
    BY <1>1, <1>5, <1>12, TurnType DEF RecordFails
  <1>13. hosts \subseteq Machine
    BY <1>1 DEF DiskInv
  <1> QED
    BY <1>6, <1>7, <1>8, <1>9, <1>10, <1>11, <1>12, <1>13
       DEF UploadToAppEnv, UploadToMachine

LEMMA VerifySteps ==
    ASSUME FilesInv,
           \/ ListCurrent
           \/ \E id \in DOMAIN rows : VerifyAsked(id)
           \/ \E k \in DOMAIN verify :
                 \/ StatFile(k) \/ UpdateVerification(k)
                 \/ StatUnreachable(k) \/ UpdateFails(k) \/ PassEnds(k)
    PROVE  FilesInv'
  <1> DEFINE Monitors == {"monitor", "console"}
  <1>1. DiskInv /\ TempInv /\ UploadInv /\ RowsInv /\ PassInv /\ DOMAIN verify = Monitors
    BY DEF FilesInv, PassInv
  <1>2. ASSUME UNCHANGED <<hosts, disk, held, temp, upload>> PROVE DiskInv' /\ TempInv' /\ UploadInv'
    BY <1>1, <1>2 DEF DiskInv, WholeFilesOnly, TempInv, UploadInv, MayRecord
  <1>3. ASSUME UNCHANGED <<disk, held, rows>> PROVE RowsInv'
    BY <1>1, <1>3, RowsKeep
  <1>4. ASSUME NEW k \in Monitors, NEW p \in PassStates, verify' = [verify EXCEPT ![k] = p] PROVE PassInv'
    BY <1>1, <1>4 DEF PassInv
  <1>5. DOMAIN rows \subseteq Nat
    BY <1>1 DEF RowsInv
  <1>6. CASE ListCurrent
    <2>1. [pc |-> "stat", ids |-> Current] \in PassStates
      BY <1>5 DEF PassStates, Current
    <2> QED
      BY <1>2, <1>3, <1>4, <1>6, <2>1 DEF ListCurrent, FilesInv
  <1>7. ASSUME NEW id \in DOMAIN rows, VerifyAsked(id) PROVE FilesInv'
    <2>1. [pc |-> "stat", ids |-> {id}] \in PassStates
      BY <1>5 DEF PassStates
    <2> QED
      BY <1>2, <1>3, <1>4, <1>7, <2>1 DEF VerifyAsked, FilesInv
  <1>8. ASSUME NEW k \in Monitors, NEW s \in Status, verify[k].pc = "stat", Noted(k, s) PROVE FilesInv'
    <2>1. [pc |-> "save", ids |-> verify[k].ids, status |-> s] \in PassStates
      BY <1>1, <1>8 DEF PassInv, PassStates
    <2> QED
      BY <1>2, <1>3, <1>4, <1>8, <2>1 DEF Noted, FilesInv
  <1>9. ASSUME NEW k \in Monitors, verify[k].pc = "save", NextRow(k) PROVE PassInv'
    <2> DEFINE ids == verify[k].ids \ {Row(k)}
               p   == IF ids = {} THEN NoPass ELSE [pc |-> "stat", ids |-> ids]
    <2>1. ids \in SUBSET Nat
      BY <1>1, <1>9 DEF PassInv, PassStates
    <2>2. verify' = [verify EXCEPT ![k] = p]
      BY <1>9 DEF NextRow
    <2> HIDE DEF ids
    <2>3. p \in PassStates
      BY <2>1 DEF PassStates, NoPass
    <2> HIDE DEF p
    <2> QED
      BY <1>4, <2>2, <2>3
  <1>10. ASSUME NEW k \in Monitors, StatFile(k) PROVE FilesInv'
    <2>1. Outcome(rows[Row(k)].sum, disk[rows[Row(k)].machine]) \in Status
      BY DEF Outcome, Status
    <2> QED
      BY <1>8, <1>10, <2>1 DEF StatFile
  <1>11. ASSUME NEW k \in Monitors, StatUnreachable(k) PROVE FilesInv'
    BY <1>8, <1>11 DEF StatUnreachable, Status
  <1>12. ASSUME NEW k \in Monitors, UpdateFails(k) PROVE FilesInv'
    BY <1>2, <1>3, <1>9, <1>12 DEF UpdateFails, FilesInv
  <1>13. ASSUME NEW k \in Monitors, PassEnds(k) PROVE FilesInv'
    <2>1. NoPass \in PassStates
      BY DEF NoPass, PassStates
    <2> QED
      BY <1>2, <1>3, <1>4, <1>13, <2>1 DEF PassEnds, FilesInv
  <1>14. ASSUME NEW k \in Monitors, UpdateVerification(k) PROVE FilesInv'
    <2>1. verify[k].status \in Status
      BY <1>1, <1>14 DEF PassInv, PassStates, UpdateVerification
    <2> DEFINE i == Row(k)
               st == verify[k].status
               new == [rows[i] EXCEPT !.status = st]
    <2>2. rows' = [rows EXCEPT ![i] = new]
      BY <1>14 DEF UpdateVerification
    <2> HIDE DEF i, st
    <2>3. i \in DOMAIN rows => /\ new \in FileRow
                               /\ new.machine = rows[i].machine /\ new.sum = rows[i].sum
      <3>1. i \in DOMAIN rows => rows[i] \in FileRow
        BY <1>1 DEF RowsInv
      <3>2. st \in Status
        BY <2>1 DEF st
      <3> QED
        BY <3>1, <3>2 DEF FileRow
    <2> HIDE DEF new
    <2>4. rows' \in Seq(FileRow) /\ DOMAIN rows' = DOMAIN rows
      <3>1. CASE i \in DOMAIN rows
        BY <1>1, <2>2, <2>3, <3>1, ExceptSeq DEF RowsInv
      <3>2. CASE i \notin DOMAIN rows
        <4>1. rows' = rows
          BY <1>1, <2>2, <3>2 DEF RowsInv
        <4> QED
          BY <4>1, <1>1 DEF RowsInv
      <3> QED
        BY <3>1, <3>2
    <2>5. RecordedWasThere'
      BY <1>1, <1>14, <2>2, <2>3, <2>4 DEF RowsInv, RecordedWasThere, UpdateVerification
    <2> QED
      BY <1>2, <1>9, <1>14, <2>4, <2>5 DEF UpdateVerification, FilesInv, RowsInv
  <1> QED
    BY <1>1, <1>6, <1>7, <1>10, <1>11, <1>12, <1>13, <1>14

LEMMA FilesStep == FilesInv /\ [Next]_vars => FilesInv'
  <1> SUFFICES ASSUME FilesInv, [Next]_vars PROVE FilesInv'
    OBVIOUS
  <1>1. ASSUME NEW m \in hosts, NEW c \in {"missing", "dir"}, EditedByHand(m, c) PROVE FilesInv'
    <2>1. m \in Machine /\ c \in Content /\ c # "part"
      BY DEF FilesInv, DiskInv, Content
    <2>2. DiskInv'
      BY <1>1, <2>1, DiskStep DEF FilesInv, EditedByHand
    <2>3. RowsInv'
      BY <1>1, <2>1, RowsKeep DEF FilesInv, EditedByHand
    <2>4. UploadInv'
      <3>1. ASSUME NEW u \in Upload, upload[u].pc = "record"
            PROVE  MayRecord(held', upload[u].machine, upload[u].sum)
        <4>1. upload[u].machine \in Machine
          BY <3>1 DEF FilesInv, UploadInv, UploadStates
        <4> QED
          BY <1>1, <2>1, <3>1, <4>1, HeldGrows DEF FilesInv, UploadInv, EditedByHand
      <3> QED
        BY <1>1, <3>1 DEF FilesInv, UploadInv, EditedByHand, MayRecord
    <2> QED
      BY <1>1, <2>2, <2>3, <2>4 DEF EditedByHand, FilesInv, TempInv, PassInv
  <1>2. CASE UNCHANGED fileVars
    BY <1>2 DEF fileVars, FilesInv, DiskInv, WholeFilesOnly, TempInv, UploadInv, MayRecord, RowsInv, RecordedWasThere, PassInv
  <1>3. CASE Files(FilesNext)
    <2>1. hosts \subseteq Machine
      BY DEF FilesInv, DiskInv
    <2> QED
      BY <1>1, <1>3, <2>1, WriterSteps, RequestSteps, VerifySteps DEF Files, FilesNext
  <1> QED
    BY <1>2, <1>3 DEF Next, vars, Health, Alerts, Vars, Machines, Restart

\* The path never holds the first part of an upload, for any set of machines and
\* of uploads, wherever a transfer is cut and whenever a writer whose request has
\* ended renames its temporary file (filestore's WriteAt), SSH excepted.
THEOREM FilesAreWhole == Spec => []WholeFilesOnly
  <1>1. FilesInv => WholeFilesOnly
    BY DEF FilesInv, DiskInv
  <1> QED
    BY <1>1, FilesStart, FilesStep, PTL DEF Spec

\* A row is only recorded for a content its machine had at the path (RecordUpload
\* after WriteAt's rename, or after the checksum read over SSH), and no writer,
\* upload or verification that comes later takes that back.
THEOREM RowsWereThere == Spec => []RecordedWasThere
  <1>1. FilesInv => RecordedWasThere
    BY DEF FilesInv, RowsInv
  <1> QED
    BY <1>1, FilesStart, FilesStep, PTL DEF Spec
-----------------------------------------------------------------------------
(***************************************************************************)
(* Alert rules. The evaluation and the edit each work on a copy. Unless one  *)
(* was lost or stale, the copy of an edit has the state of the row, and the  *)
(* copy of an evaluation the state that was told, or the message about its   *)
(* new one has gone out.                                                     *)
(***************************************************************************)
IsRule(r) ==
    r = [enabled |-> r.enabled, seconds |-> r.seconds, state |-> r.state, breaches |-> r.breaches]

AlertShapes ==
    /\ rule # NoRule => IsRule(rule)
    /\ eval.pc \in {"idle", "query", "note", "decide", "save"}
    /\ eval.pc # "idle" =>
          /\ eval = [pc |-> eval.pc, from |-> eval.from, copy |-> eval.copy]
          /\ eval.from # NoRule /\ IsRule(eval.copy)
    /\ edit.pc \in {"idle", "save"}
    /\ edit.pc # "idle" =>
          edit.from # NoRule /\ IsRule(edit.copy) /\ edit.copy.state = edit.from.state

Messaged == eval.pc = "save" /\ eval.copy.state # eval.from.state

MessageInv ==
    /\ eval.pc \in {"query", "note", "decide"} => eval.copy.state = eval.from.state
    /\ rule # NoRule /\ ~astray /\ ~Messaged => told = rule.state
    /\ Messaged => told = eval.copy.state

AlertInv == AlertShapes /\ MessageInv

\* A copy of a row is a row, and keeps the columns it does not set.
LEMMA RowIsRule ==
    ASSUME NEW a, NEW b, NEW c, NEW d, NEW r,
           r = [enabled |-> a, seconds |-> b, state |-> c, breaches |-> d]
    PROVE  IsRule(r) /\ r.state = c
  BY DEF IsRule

LEMMA BreachesCopy ==
    ASSUME NEW r, IsRule(r), NEW x
    PROVE  IsRule([r EXCEPT !.breaches = x]) /\ [r EXCEPT !.breaches = x].state = r.state
  <1>1. PICK a, b, c, d : r = [enabled |-> a, seconds |-> b, state |-> c, breaches |-> d]
    BY Zenon DEF IsRule
  <1>2. [r EXCEPT !.breaches = x] = [enabled |-> a, seconds |-> b, state |-> c, breaches |-> x]
    BY <1>1
  <1>3. r.state = c
    BY <1>1, RowIsRule
  <1> QED
    BY <1>2, <1>3, RowIsRule

LEMMA StateCopy ==
    ASSUME NEW r, IsRule(r), NEW x
    PROVE  IsRule([r EXCEPT !.state = x]) /\ [r EXCEPT !.state = x].state = x
  <1>1. PICK a, b, c, d : r = [enabled |-> a, seconds |-> b, state |-> c, breaches |-> d]
    BY Zenon DEF IsRule
  <1>2. [r EXCEPT !.state = x] = [enabled |-> a, seconds |-> b, state |-> x, breaches |-> d]
    BY <1>1
  <1> QED
    BY <1>2, RowIsRule

LEMMA SettingsCopy ==
    ASSUME NEW r, IsRule(r), NEW x, NEW y
    PROVE  /\ IsRule([r EXCEPT !.seconds = x, !.enabled = y])
           /\ [r EXCEPT !.seconds = x, !.enabled = y].state = r.state
  <1> DEFINE timed == [r EXCEPT !.seconds = x]
             copy  == [r EXCEPT !.seconds = x, !.enabled = y]
  <1>1. PICK a, b, c, d : r = [enabled |-> a, seconds |-> b, state |-> c, breaches |-> d]
    BY Zenon DEF IsRule
  <1>2. timed = [enabled |-> a, seconds |-> x, state |-> c, breaches |-> d]
    BY <1>1
  <1>3. copy = [timed EXCEPT !.enabled = y]
    OBVIOUS
  <1>4. r.state = c
    BY <1>1, RowIsRule
  <1> HIDE DEF timed
  <1>5. copy = [enabled |-> y, seconds |-> x, state |-> c, breaches |-> d]
    <2>1. [timed EXCEPT !.enabled = y]
            = [enabled |-> y, seconds |-> x, state |-> c, breaches |-> d]
      BY <1>2
    <2> HIDE DEF copy
    <2> QED
      BY <1>3, <2>1
  <1> HIDE DEF copy
  <1>6. IsRule(copy) /\ copy.state = r.state
    BY <1>4, <1>5, RowIsRule
  <1> QED
    BY <1>6 DEF copy

LEMMA AlertStarts == AlertInit => AlertInv
  BY DEF AlertInit, AlertInv, AlertShapes, MessageInv, Messaged, NoEval, NoEdit

\* A save after which nothing is astray was of the row as it is.
LEMMA CleanSave ==
    ASSUME NEW from, NEW copy, Save(from, copy)
    PROVE  rule' = copy /\ (~astray' => ~astray /\ rule = from)
  BY Zenon DEF Save

LEMMA CleanDrop ==
    ASSUME DropEvaluation
    PROVE  eval' = NoEval /\ (~astray' => ~astray /\ ~Messaged)
  BY Zenon DEF DropEvaluation, Messaged

\* An evaluation is dropped, alone or with the edit.
LEMMA DropKeeps ==
    ASSUME AlertInv, DropEvaluation, edit' \in {edit, NoEdit}, UNCHANGED <<rule, told>>
    PROVE  AlertInv'
  <1>1. eval'.pc = "idle" /\ (~astray' => ~astray /\ ~Messaged)
    BY CleanDrop DEF NoEval
  <1>2. AlertShapes'
    BY <1>1 DEF AlertInv, AlertShapes, NoEdit
  <1>3. MessageInv'
    BY <1>1 DEF AlertInv, MessageInv, Messaged
  <1> QED
    BY <1>2, <1>3 DEF AlertInv

\* The evaluation moves on and sends nothing.
LEMMA EvaluationKeeps ==
    ASSUME AlertInv, UNCHANGED <<rule, edit, told, astray>>, ~Messaged,
           NEW p \in {"query", "note", "decide"}, NEW from, NEW copy,
           eval' = [pc |-> p, from |-> from, copy |-> copy],
           from # NoRule, IsRule(copy), copy.state = from.state
    PROVE  AlertInv'
  <1>1. eval'.pc = p /\ eval'.from = from /\ eval'.copy = copy
    OBVIOUS
  <1>2. AlertShapes'
    BY <1>1 DEF AlertInv, AlertShapes
  <1>3. MessageInv'
    BY <1>1 DEF AlertInv, MessageInv, Messaged
  <1> QED
    BY <1>2, <1>3 DEF AlertInv

LEMMA AlertStep ==
    ASSUME AlertInv, AlertNext
    PROVE  AlertInv'
  <1> USE DEF AlertInv
  <1>1. CASE ConditionChanges
    BY <1>1 DEF ConditionChanges, AlertShapes, MessageInv, Messaged
  <1>2. CASE ListEnabled
    <2>1. /\ eval' = [pc |-> "query", from |-> rule, copy |-> rule] /\ rule # NoRule
          /\ UNCHANGED <<rule, edit, told, astray>> /\ ~Messaged
      BY <1>2 DEF ListEnabled, Messaged
    <2> QED
      BY <2>1, EvaluationKeeps DEF AlertShapes
  <1>3. CASE Query
    <2> DEFINE copy == [eval.copy EXCEPT !.breaches = Counted(eval.copy)]
    <2>1. /\ eval.pc = "query" /\ eval = [pc |-> eval.pc, from |-> eval.from, copy |-> eval.copy]
          /\ eval.from # NoRule /\ IsRule(eval.copy) /\ eval.copy.state = eval.from.state
          /\ UNCHANGED <<rule, edit, told, astray>> /\ ~Messaged
      BY <1>3 DEF Query, AlertShapes, MessageInv, Messaged
    <2>2. eval' = [pc |-> "decide", from |-> eval.from, copy |-> copy]
      BY <1>3, <2>1 DEF Query, Evaluated
    <2>3. IsRule(copy) /\ copy.state = eval.copy.state
      BY <2>1, BreachesCopy, Zenon
    <2> HIDE DEF copy
    <2> QED
      BY <2>1, <2>2, <2>3, EvaluationKeeps
  <1>4. CASE QueryFails
    <2>1. /\ eval.pc = "query" /\ eval = [pc |-> eval.pc, from |-> eval.from, copy |-> eval.copy]
          /\ eval.from # NoRule /\ IsRule(eval.copy) /\ eval.copy.state = eval.from.state
          /\ UNCHANGED <<rule, edit, told, astray>> /\ ~Messaged
      BY <1>4 DEF QueryFails, AlertShapes, MessageInv, Messaged
    <2>2. eval' = [pc |-> "note", from |-> eval.from, copy |-> eval.copy]
      BY <1>4, <2>1 DEF QueryFails
    <2> QED
      BY <2>1, <2>2, EvaluationKeeps
  <1>5. CASE SendToAll
    <2> DEFINE next == IF Fires(eval.copy) THEN "firing"
                       ELSE IF Recovers(eval.copy) THEN "ok" ELSE eval.copy.state
               copy == [eval.copy EXCEPT !.state = next]
    <2>1. /\ eval.pc = "decide" /\ eval = [pc |-> eval.pc, from |-> eval.from, copy |-> eval.copy]
          /\ eval.from # NoRule /\ IsRule(eval.copy) /\ eval.copy.state = eval.from.state
          /\ UNCHANGED <<rule, edit, astray>> /\ ~Messaged
      BY <1>5 DEF SendToAll, AlertShapes, MessageInv, Messaged
    <2>2. told' = IF Fires(eval.copy) \/ Recovers(eval.copy) THEN next ELSE told
      BY <1>5, Zenon DEF SendToAll
    <2>3. eval' = [pc |-> "save", from |-> eval.from, copy |-> copy]
      <3>1. eval' = [eval EXCEPT !.pc = "save", !.copy.state = next]
        BY <1>5, Zenon DEF SendToAll
      <3> HIDE DEF next
      <3> QED
        BY <2>1, <3>1
    <2>4. next # eval.copy.state <=> Fires(eval.copy) \/ Recovers(eval.copy)
      BY DEF Fires, Recovers
    <2> HIDE DEF next
    <2>5. IsRule(copy) /\ copy.state = next
      BY <2>1, StateCopy, Zenon
    <2> HIDE DEF copy
    <2>6. eval'.pc = "save" /\ eval'.from = eval.from /\ eval'.copy = copy
      BY <2>3
    <2>7. AlertShapes'
      BY <2>1, <2>3, <2>5, <2>6 DEF AlertShapes
    <2>8. Messaged' <=> Fires(eval.copy) \/ Recovers(eval.copy)
      BY <2>1, <2>4, <2>5, <2>6 DEF Messaged
    <2>9. MessageInv'
      BY <2>1, <2>2, <2>5, <2>6, <2>8 DEF MessageInv
    <2> QED
      BY <2>7, <2>9
  <1>6. CASE SaveEvaluation \/ SaveError
    <2>1. /\ eval.pc \in {"save", "note"} /\ Save(eval.from, eval.copy) /\ eval' = NoEval
          /\ UNCHANGED <<edit, told>>
      BY <1>6 DEF SaveEvaluation, SaveError
    <2>2. rule' = eval.copy /\ (~astray' => ~astray /\ rule = eval.from) /\ eval'.pc = "idle"
      BY <2>1, CleanSave DEF NoEval
    <2>3. AlertShapes'
      BY <2>1, <2>2 DEF AlertShapes
    <2>4. MessageInv'
      BY <2>1, <2>2 DEF MessageInv, Messaged, AlertShapes
    <2> QED
      BY <2>3, <2>4
  <1>7. CASE EvaluationLost
    BY <1>7, DropKeeps DEF EvaluationLost
  <1>8. CASE UpdateSave
    <2>1. edit.pc = "save" /\ Save(edit.from, edit.copy) /\ edit' = NoEdit /\ UNCHANGED <<eval, told>>
      BY <1>8 DEF UpdateSave
    <2>2. rule' = edit.copy /\ (~astray' => ~astray /\ rule = edit.from) /\ edit'.pc = "idle"
      BY <2>1, CleanSave DEF NoEdit
    <2>3. AlertShapes'
      BY <2>1, <2>2 DEF AlertShapes
    <2>4. MessageInv'
      BY <2>1, <2>2 DEF MessageInv, Messaged, AlertShapes
    <2> QED
      BY <2>3, <2>4
  <1>9. CASE Delete
    BY <1>9 DEF Delete, AlertShapes, MessageInv, Messaged
  <1>10. ASSUME NEW s \in Durations, Create(s) PROVE AlertInv'
    BY <1>10 DEF Create, AlertShapes, MessageInv, Messaged, IsRule
  <1>11. ASSUME NEW s \in Durations, NEW e \in BOOLEAN, UpdateRead(s, e) PROVE AlertInv'
    <2> DEFINE copy == [rule EXCEPT !.seconds = s, !.enabled = e]
    <2>1. /\ rule # NoRule /\ IsRule(rule) /\ UNCHANGED <<rule, eval, told, astray>>
          /\ edit' = [pc |-> "save", from |-> rule, copy |-> copy]
      BY <1>11 DEF UpdateRead, AlertShapes
    <2>2. IsRule(copy) /\ copy.state = rule.state
      BY <2>1, SettingsCopy, Zenon
    <2> HIDE DEF copy
    <2>3. AlertShapes' /\ MessageInv'
      BY <2>1, <2>2 DEF AlertShapes, MessageInv, Messaged
    <2> QED
      BY <2>3
  <1> QED
    BY <1>1, <1>2, <1>3, <1>4, <1>5, <1>6, <1>7, <1>8, <1>9, <1>10, <1>11 DEF AlertNext

\* The row of a rule and the last message about it agree whenever no message waits
\* for its save, through edits, deletions, failed queries and restarts at any
\* moment, unless a save was lost after its message or wrote a stale copy.
THEOREM RowsSayWhatWasTold == Spec => []RowSaysWhatWasTold
  <1>1. Init => AlertInv
    BY AlertStarts DEF Init
  <1>2. AlertInv /\ [Next]_vars => AlertInv'
    <2> SUFFICES ASSUME AlertInv, [Next]_vars PROVE AlertInv'
      OBVIOUS
    <2>1. CASE UNCHANGED alertVars
      BY <2>1 DEF alertVars, AlertInv, AlertShapes, MessageInv, Messaged
    <2>2. CASE AlertNext
      BY <2>2, AlertStep
    <2>3. CASE Restart
      BY <2>3, DropKeeps DEF Restart
    <2> QED
      BY <2>1, <2>2, <2>3 DEF Next, vars, Health, Alerts, Files, Machines, Vars
  <1>3. AlertInv => RowSaysWhatWasTold
    BY DEF AlertInv, MessageInv, Messaged, RowSaysWhatWasTold
  <1> QED
    BY <1>1, <1>2, <1>3, PTL DEF Spec
=============================================================================
