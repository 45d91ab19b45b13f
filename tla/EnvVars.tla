------------------------------ MODULE EnvVars ------------------------------
(***************************************************************************)
(* One environment variable of one application. It may be set in the        *)
(* baseline of the application (deploy_config) and in the row of each       *)
(* environment, which comes first in a deploy. Every start of the control   *)
(* plane moves the baseline into the production row, in two statements,     *)
(* before it serves; operators then edit rows and configuration.            *)
(***************************************************************************)
EXTENDS Integers, FiniteSets

CONSTANTS
    Envs,        \* environments, in the order in which they are saved
    Prod,
    VarValue,    \* values of the variable, the empty one included
    Blank,       \* the variable is not set
    NoEnvRow,
    EnvConfig,   \* values of config_json
    MaxVarEdits  \* bound on operators' requests

MaybeSet == VarValue \cup {Blank}
EnvRow   == [var: MaybeSet, config: EnvConfig]

ASSUME EnvVarsAssumption ==
    /\ Envs \subseteq Nat /\ Prod \in Envs
    /\ Blank \notin VarValue /\ NoEnvRow \notin EnvRow
    /\ "" \in EnvConfig /\ MaxVarEdits \in Nat

VARIABLES
    baseline,   \* the variable in deploy_config, or Blank
    envRow,     \* application_environment: the row of each environment, or NoEnvRow
    startup,    \* the backfill of this start, until the control plane serves
    matrix,     \* the save of all environments in progress
    varEdits

envVars == <<baseline, envRow, startup, matrix, varEdits>>

Starting == [pc |-> "list"]
Serving  == [pc |-> "serving"]
NoMatrix == [pc |-> "idle"]

\* An installation as the releases before the backfill left it.
EnvVarsInit ==
    /\ baseline \in MaybeSet
    /\ envRow \in [Envs -> EnvRow \cup {NoEnvRow}]
    /\ startup = Starting /\ matrix = NoMatrix /\ varEdits = 0

\* GetEnvVars: a missing row sets nothing.
VarIn(row) == IF row = NoEnvRow THEN Blank ELSE row.var
\* Get: a missing row has the empty configuration.
ConfigIn(row) == IF row = NoEnvRow THEN "" ELSE row.config

\* mergeEnv, below the overrides of an instance.
Deployed(e) == IF VarIn(envRow[e]) # Blank THEN VarIn(envRow[e]) ELSE baseline
-----------------------------------------------------------------------------
(***************************************************************************)
(* BackfillApplicationEnvVars.                                              *)
(***************************************************************************)
\* An application without a baseline is left alone.
BackfillNothing ==
    /\ startup.pc = "list" /\ baseline = Blank
    /\ startup' = Serving
    /\ UNCHANGED <<baseline, envRow, matrix, varEdits>>

\* A variable the row already has stays as it is.
MergedBaselineWins(row) == baseline
Merged(row) == IF VarIn(row) # Blank THEN VarIn(row) ELSE baseline

BackfillRead ==
    /\ startup.pc = "list" /\ baseline # Blank
    /\ startup' = [pc |-> "upsert", row |-> [var |-> Merged(envRow[Prod]), config |-> ConfigIn(envRow[Prod])]]
    /\ UNCHANGED <<baseline, envRow, matrix, varEdits>>

BackfillUpsert ==
    /\ startup.pc = "upsert"
    /\ envRow' = [envRow EXCEPT ![Prod] = startup.row]
    /\ startup' = [pc |-> "strip"]
    /\ UNCHANGED <<baseline, matrix, varEdits>>

\* writeDeployConfigWithoutEnv
BackfillStrip ==
    /\ startup.pc = "strip"
    /\ baseline' = Blank
    /\ startup' = Serving
    /\ UNCHANGED <<envRow, matrix, varEdits>>

\* Any statement fails: a warning, and the next start tries again.
BackfillFails ==
    /\ startup.pc # "serving"
    /\ startup' = Serving
    /\ UNCHANGED <<baseline, envRow, matrix, varEdits>>
-----------------------------------------------------------------------------
(***************************************************************************)
(* Operators.                                                               *)
(***************************************************************************)
EditVars ==
    /\ startup = Serving
    /\ varEdits < MaxVarEdits /\ varEdits' = varEdits + 1

\* Upsert of one environment writes both columns.
PutEnv(e, row) ==
    /\ EditVars
    /\ envRow' = [envRow EXCEPT ![e] = row]
    /\ UNCHANGED <<baseline, startup, matrix>>

\* Update of the application with a deploy_config, as old consoles still send it.
PutDeployConfig(value) ==
    /\ EditVars
    /\ baseline' = value
    /\ UNCHANGED <<envRow, startup, matrix>>

\* UpsertAll: the environments of the request, one after the other.
PutAll(vars) ==
    /\ EditVars
    /\ matrix = NoMatrix
    /\ matrix' = [pc |-> "read", vars |-> vars]
    /\ UNCHANGED <<baseline, envRow, startup>>

FirstEnv == CHOOSE e \in DOMAIN matrix.vars : \A f \in DOMAIN matrix.vars : e <= f

PutAllRead ==
    /\ matrix.pc = "read" /\ DOMAIN matrix.vars # {}
    /\ matrix' = [pc |-> "write", vars |-> matrix.vars, config |-> ConfigIn(envRow[FirstEnv])]
    /\ UNCHANGED <<baseline, envRow, startup, varEdits>>

PutAllWrite ==
    /\ matrix.pc = "write"
    /\ envRow' = [envRow EXCEPT ![FirstEnv] = [var |-> matrix.vars[FirstEnv], config |-> matrix.config]]
    /\ matrix' = [pc |-> "read", vars |-> [e \in DOMAIN matrix.vars \ {FirstEnv} |-> matrix.vars[e]]]
    /\ UNCHANGED <<baseline, startup, varEdits>>

\* The request has been served, or ends in an error after some environments.
PutAllEnds ==
    /\ matrix # NoMatrix
    /\ matrix' = NoMatrix
    /\ UNCHANGED <<baseline, envRow, startup, varEdits>>

EnvVarsRestart ==
    /\ startup' = Starting /\ matrix' = NoMatrix
    /\ UNCHANGED <<baseline, envRow, varEdits>>

EnvVarsNext ==
    \/ BackfillNothing \/ BackfillRead \/ BackfillUpsert \/ BackfillStrip \/ BackfillFails
    \/ \E e \in Envs, row \in EnvRow : PutEnv(e, row)
    \/ \E value \in MaybeSet : PutDeployConfig(value)
    \/ \E some \in SUBSET Envs \ {{}} : \E vars \in [some -> MaybeSet] : PutAll(vars)
    \/ PutAllRead \/ PutAllWrite \/ PutAllEnds
-----------------------------------------------------------------------------
\* The migration never changes what production is deployed with, nor any
\* environment's configuration, wherever a start is cut short or repeated, and
\* whatever operators did between two starts (the backfill's own promise).
BackfillKeepsProd ==
    [][startup # Serving =>
         /\ Deployed(Prod)' = Deployed(Prod)
         /\ \A e \in Envs : ConfigIn(envRow[e])' = ConfigIn(envRow[e])]_envVars
=============================================================================
