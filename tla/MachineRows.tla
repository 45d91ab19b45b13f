---------------------------- MODULE MachineRows ----------------------------
(***************************************************************************)
(* The row of one machine: operators create, edit, rotate its token and     *)
(* delete it, each reading the row and saving it whole, while the node on   *)
(* it reports heartbeats under the token it was configured with.            *)
(*                                                                          *)
(* Of the settings only the mode is kept. A token is a number, later ones   *)
(* being generated later; a row without a token has 0.                      *)
(***************************************************************************)
EXTENDS Integers

CONSTANTS
    Operator,        \* operators' requests at one time
    NoMachine,       \* no row
    MaxMachineOps    \* bound on operators' requests

Mode == {"ssh", "agent"}
MachineRow == [mode: Mode, token: Nat, reported: BOOLEAN]

ASSUME MachineRowsAssumption == MaxMachineOps \in Nat /\ NoMachine \notin MachineRow

VARIABLES
    machine,    \* the row: mode, token, whether the node has reported; or NoMachine
    machineReq, \* operators' requests in progress, with the row they read
    heartbeat,  \* the heartbeat in progress
    nodeToken,  \* the token in the node's configuration
    tokens,     \* tokens generated so far
    intended,   \* for the property: what operators have asked for, one after the other
    crossed,    \* for the property: a request read the row before another's write
    machineOps

machineVars == <<machine, machineReq, heartbeat, nodeToken, tokens, intended, crossed, machineOps>>

NoRequest == [pc |-> "idle"]
NoBeat    == [pc |-> "idle"]

MachineRowsInit ==
    /\ machine = NoMachine
    /\ intended = [there |-> FALSE, mode |-> "ssh", token |-> 0]
    /\ machineReq = [p \in Operator |-> NoRequest]
    /\ heartbeat = NoBeat /\ nodeToken = 0 /\ tokens = 0
    /\ crossed = FALSE /\ machineOps = 0

Asks == machineOps < MaxMachineOps /\ machineOps' = machineOps + 1

\* A request writes the row; others in progress have read an older one.
Writes(p, row, intent) ==
    /\ machine' = row /\ intended' = intent
    /\ crossed' = (crossed \/ \E q \in Operator \ {p} : machineReq[q] # NoRequest)

\* Create, once: ids are not used again. A machine in agent mode gets a token.
CreateMachine(p, mode) ==
    /\ Asks /\ machineOps = 0 /\ machineReq[p] = NoRequest
    /\ tokens' = IF mode = "agent" THEN tokens + 1 ELSE tokens
    /\ Writes(p, [mode |-> mode, token |-> tokens', reported |-> FALSE],
                 [there |-> TRUE, mode |-> mode, token |-> tokens'])
    /\ UNCHANGED <<machineReq, heartbeat, nodeToken>>

\* Update and RotateAgentToken read the row; a rotation refuses machines under SSH.
ReadMachine(p, op) ==
    /\ Asks /\ machineReq[p] = NoRequest
    /\ machine # NoMachine
    /\ op = "rotate" => machine.mode = "agent"
    /\ machineReq' = [machineReq EXCEPT ![p] = [pc |-> op, row |-> machine]]
    /\ UNCHANGED <<machine, heartbeat, nodeToken, tokens, intended, crossed>>

EndRequest(p) == machineReq' = [machineReq EXCEPT ![p] = NoRequest]

\* Save writes every column of what was read, and inserts a row that is gone.
\* Fields the request leaves empty keep what was read.
UpdateMachine(p, mode, newToken) ==
    /\ machineReq[p].pc = "update"
    /\ tokens' = IF newToken THEN tokens + 1 ELSE tokens
    /\ Writes(p, [machineReq[p].row EXCEPT !.mode = mode, !.token = IF newToken THEN tokens' ELSE @],
                 [there |-> TRUE, mode |-> mode, token |-> IF newToken THEN tokens' ELSE intended.token])
    /\ EndRequest(p)
    /\ UNCHANGED <<heartbeat, nodeToken, machineOps>>

RotateAgentToken(p) ==
    /\ machineReq[p].pc = "rotate"
    /\ tokens' = tokens + 1
    /\ Writes(p, [machineReq[p].row EXCEPT !.token = tokens'],
                 [intended EXCEPT !.token = tokens'])
    /\ EndRequest(p)
    /\ UNCHANGED <<heartbeat, nodeToken, machineOps>>

DeleteMachine(p) ==
    /\ Asks /\ machineReq[p] = NoRequest
    /\ machine # NoMachine
    /\ Writes(p, NoMachine, [intended EXCEPT !.there = FALSE])
    /\ UNCHANGED <<machineReq, heartbeat, nodeToken, tokens>>

\* A refused or failed request, or one lost with its process.
MachineRequestFails(p) ==
    /\ machineReq[p] # NoRequest
    /\ EndRequest(p)
    /\ UNCHANGED <<machine, heartbeat, nodeToken, tokens, intended, crossed, machineOps>>

\* The operator copies the token of the row into agenda-node.yaml.
NodeConfigured ==
    /\ machine # NoMachine /\ machine.token \notin {0, nodeToken}
    /\ nodeToken' = machine.token
    /\ UNCHANGED <<machine, machineReq, heartbeat, tokens, intended, crossed, machineOps>>
-----------------------------------------------------------------------------
(***************************************************************************)
(* Heartbeat: the token is compared with a row read before the update.      *)
(***************************************************************************)
HeartbeatRead ==
    /\ heartbeat = NoBeat /\ nodeToken # 0
    /\ machine # NoMachine /\ machine.token = nodeToken
    /\ heartbeat' = [pc |-> "update", row |-> machine]
    /\ UNCHANGED <<machine, machineReq, nodeToken, tokens, intended, crossed, machineOps>>

\* UpdateHeartbeat touches its own columns, of a row that is there.
BeatenWhole(row) == [heartbeat.row EXCEPT !.reported = TRUE]
Beaten(row) == IF row = NoMachine THEN NoMachine ELSE [row EXCEPT !.reported = TRUE]

UpdateHeartbeat ==
    /\ heartbeat # NoBeat
    /\ machine' = Beaten(machine)
    /\ heartbeat' = NoBeat
    /\ UNCHANGED <<machineReq, nodeToken, tokens, intended, crossed, machineOps>>

HeartbeatLost ==
    /\ heartbeat # NoBeat
    /\ heartbeat' = NoBeat
    /\ UNCHANGED <<machine, machineReq, nodeToken, tokens, intended, crossed, machineOps>>

MachineRowsRestart ==
    /\ machineReq' = [p \in Operator |-> NoRequest] /\ heartbeat' = NoBeat
    /\ UNCHANGED <<machine, nodeToken, tokens, intended, crossed, machineOps>>

MachineRowsNext ==
    \/ \E p \in Operator :
          \/ \E mode \in Mode : CreateMachine(p, mode) \/ \E new \in BOOLEAN : UpdateMachine(p, mode, new)
          \/ ReadMachine(p, "update") \/ ReadMachine(p, "rotate")
          \/ RotateAgentToken(p) \/ DeleteMachine(p) \/ MachineRequestFails(p)
    \/ NodeConfigured \/ HeartbeatRead \/ UpdateHeartbeat \/ HeartbeatLost
-----------------------------------------------------------------------------
\* Heartbeats, refused requests and restarts undo nothing: unless requests of
\* operators overlapped, the machine has the mode and the token that operators
\* last asked for, or is gone, although heartbeats that were let in under an
\* older row end after it and a request saves the row it read before them.
MachineAsAsked ==
    ~crossed =>
        IF intended.there
          THEN machine # NoMachine /\ machine.mode = intended.mode /\ machine.token = intended.token
          ELSE machine = NoMachine
=============================================================================
