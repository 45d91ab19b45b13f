---------------------------- MODULE ControlPlane ----------------------------
(***************************************************************************)
(* Parts of the control plane that share no state, only the process that a  *)
(* restart ends: its health, alert and file monitors, the rows of machines  *)
(* and the variables of environments. Their steps commute, so a behaviour   *)
(* moves one of them and a restart.                                         *)
(***************************************************************************)
EXTENDS HealthChecks, AlertRules, MachineFiles, MachineRows, EnvVars

CONSTANT MaxRestarts   \* bound on restarts of the control plane

ASSUME ControlPlaneAssumption == MaxRestarts \in Nat

VARIABLES moving, restarts

vars == <<moving, restarts, healthVars, alertVars, fileVars, machineVars, envVars>>

\* The parts that do not move stay in one initial state each.
Init ==
    /\ moving \in {"health", "alerts", "files", "machines", "env"} /\ restarts = 0
    /\ HealthInit /\ AlertInit /\ FilesInit /\ MachineRowsInit /\ EnvVarsInit
    /\ moving # "files" => hosts = Machine
    /\ moving # "env" => baseline = Blank /\ envRow = [e \in Envs |-> NoEnvRow]

\* To the files, a restart is RequestEnds and PassEnds of what is in progress.
Restart ==
    /\ restarts < MaxRestarts /\ restarts' = restarts + 1
    /\ moving # "files"
    /\ HealthRestart
    /\ DropEvaluation /\ edit' = NoEdit
    /\ MachineRowsRestart /\ EnvVarsRestart
    /\ UNCHANGED <<breach, rule, told, changes, operations, fileVars, moving>>

Health(A)   == moving = "health" /\ A /\ UNCHANGED <<alertVars, fileVars, machineVars, envVars, moving, restarts>>
Alerts(A)   == moving = "alerts" /\ A /\ UNCHANGED <<healthVars, fileVars, machineVars, envVars, moving, restarts>>
Files(A)    == moving = "files" /\ A /\ UNCHANGED <<healthVars, alertVars, machineVars, envVars, moving, restarts>>
Machines(A) == moving = "machines" /\ A /\ UNCHANGED <<healthVars, alertVars, fileVars, envVars, moving, restarts>>
Vars(A)     == moving = "env" /\ A /\ UNCHANGED <<healthVars, alertVars, fileVars, machineVars, moving, restarts>>

Next ==
    \/ Health(HealthNext) \/ Alerts(AlertNext) \/ Files(FilesNext)
    \/ Machines(MachineRowsNext) \/ Vars(EnvVarsNext)
    \/ Restart

Spec == Init /\ [][Next]_vars

\* The file monitor's turn has come to machine m.
AtMachine(m, A) == verify["monitor"] # NoPass /\ rows[Row("monitor")].machine = m /\ A

\* Monitors tick for ever; a pass that is tried for ever is not given up or refused
\* for ever at the same step. Only one monitor moves in a behaviour, so that a
\* disjunction of steps of several monitors is fair to each.
FairSpec ==
    /\ Spec
    /\ WF_vars(Health(Load("monitor")) \/ Alerts(ListEnabled \/ SaveError) \/ Files(ListCurrent))
    /\ \A m \in Machine :
          /\ SF_vars(\/ Health(Probe("monitor")) \/ Alerts(Query)
                     \/ Files(AtMachine(m, StatFile("monitor") \/ StatUnreachable("monitor"))))
          /\ SF_vars(\/ Health(ReadPrevious("monitor")) \/ Alerts(SendToAll)
                     \/ Files(AtMachine(m, UpdateVerification("monitor"))))
    /\ SF_vars(Health(Upsert("monitor")) \/ Alerts(SaveEvaluation))
-----------------------------------------------------------------------------
\* Once the app and the operators come to rest, the status of a running instance
\* becomes what the app is: an overlapping check that wrote older counters back
\* delays it and no more, and so do decommissions, restarts and failed passes.
StatusConverges == <>[](moving = "health" => StatusIsCurrent)

\* Once the condition and the operators come to rest, an enabled rule's row says
\* what holds, whatever edits, failed queries and lost evaluations came before;
\* and the last message says it too, unless a save was lost or crossed an edit
\* after a message. No alert is skipped by the counter, the edit or a retry.
AlertsFollowCondition == <>[](moving = "alerts" => ToldWhatHolds)

\* Once uploads, hands and operators come to rest, the newest row of every machine
\* says what is there, or that the machine cannot be asked: a pass that read the
\* file before an upload and saved after it, two uploads that crossed, or an
\* upload without a row leave no lasting lie.
FilesVerified == <>[](moving = "files" => StatusIsTrue)
=============================================================================
