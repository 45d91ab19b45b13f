----------------------------- MODULE AlertRules -----------------------------
(***************************************************************************)
(* One alert rule: the monitor evaluates its query at every tick and sends  *)
(* an alert when the condition has held for long enough and a recovery when *)
(* it ends; operators create, edit and delete the rule meanwhile. Rows are  *)
(* saved whole, from a copy that may be older than the row.                 *)
(***************************************************************************)
EXTENDS Integers

CONSTANTS
    Durations,     \* values of for_seconds
    TickSeconds,   \* interval of the monitor
    NoRule,
    MaxChanges,    \* bound on changes of the condition
    MaxOperations  \* bound on operators' requests

ASSUME AlertAssumption ==
    /\ Durations \subseteq Nat /\ TickSeconds \in Nat \ {0}
    /\ MaxChanges \in Nat /\ MaxOperations \in Nat

VARIABLES
    breach,    \* whether the query has a result now
    rule,      \* the alert_rule row, or NoRule
    eval,      \* the evaluation in progress, with its copy of the rule
    edit,      \* the operator's update in progress, with its copy
    told,      \* what the last message about this rule said
    astray,    \* for the property: a message went out and the row does not say so,
               \* or a copy was saved over a row that had changed
    changes, operations

alertVars == <<breach, rule, eval, edit, told, astray, changes, operations>>

NoEval == [pc |-> "idle"]
NoEdit == [pc |-> "idle"]

AlertInit ==
    /\ breach = FALSE /\ rule = NoRule
    /\ eval = NoEval /\ edit = NoEdit
    /\ told = "ok" /\ astray = FALSE
    /\ changes = 0 /\ operations = 0

ConditionChanges ==
    /\ changes < MaxChanges /\ changes' = changes + 1
    /\ breach' = ~breach
    /\ UNCHANGED <<rule, eval, edit, told, astray, operations>>
-----------------------------------------------------------------------------
(***************************************************************************)
(* AlertRuleMonitor.                                                        *)
(***************************************************************************)
\* Ticks of breaching before the rule fires: for_seconds rounded up.
Threshold(seconds) == IF seconds = 0 THEN 1 ELSE (seconds + TickSeconds - 1) \div TickSeconds

\* ListEnabled: the copies are evaluated one after the other.
ListEnabled ==
    /\ eval.pc = "idle" /\ rule # NoRule /\ rule.enabled
    /\ eval' = [pc |-> "query", from |-> rule, copy |-> rule]
    /\ UNCHANGED <<breach, rule, edit, told, astray, changes, operations>>

\* evaluateRule: a failed query leaves the state alone.
QueryFails ==
    /\ eval.pc = "query"
    /\ eval' = [eval EXCEPT !.pc = "note"]
    /\ UNCHANGED <<breach, rule, edit, told, astray, changes, operations>>

Counted(copy) ==
    LET n == Threshold(copy.seconds)
    IN  IF ~breach THEN 0 ELSE IF copy.breaches < n THEN copy.breaches + 1 ELSE n

\* Mutation: the new state is set with the counter, so that no message is due.
EvaluatedQuietly(copy) ==
    LET n == Counted(copy)
    IN  [copy EXCEPT !.breaches = n,
                     !.state = IF breach /\ n >= Threshold(copy.seconds) THEN "firing"
                               ELSE IF breach THEN @ ELSE "ok"]

Evaluated(copy) == [copy EXCEPT !.breaches = Counted(copy)]

Query ==
    /\ eval.pc = "query"
    /\ eval' = [eval EXCEPT !.copy = Evaluated(eval.copy), !.pc = "decide"]
    /\ UNCHANGED <<breach, rule, edit, told, astray, changes, operations>>

\* The message is sent before the new state is saved. The counter says what the
\* query returned.
Fires(copy)    == copy.state = "ok" /\ copy.breaches >= Threshold(copy.seconds)
Recovers(copy) == copy.state = "firing" /\ copy.breaches = 0

\* Mutation: the recovery is sent, and the state it ends is kept.
SendToAllKeepsState ==
    /\ eval.pc = "decide"
    /\ LET next == IF Fires(eval.copy) THEN "firing" ELSE eval.copy.state
       IN  /\ told' = IF Recovers(eval.copy) THEN "ok" ELSE IF Fires(eval.copy) THEN next ELSE told
           /\ eval' = [eval EXCEPT !.pc = "save", !.copy.state = next]
    /\ UNCHANGED <<breach, rule, edit, astray, changes, operations>>

SendToAll ==
    /\ eval.pc = "decide"
    /\ LET next == IF Fires(eval.copy) THEN "firing"
                   ELSE IF Recovers(eval.copy) THEN "ok" ELSE eval.copy.state
       IN  /\ told' = IF Fires(eval.copy) \/ Recovers(eval.copy) THEN next ELSE told
           /\ eval' = [eval EXCEPT !.pc = "save", !.copy.state = next]
    /\ UNCHANGED <<breach, rule, edit, astray, changes, operations>>

\* The whole row is saved; a deleted one is created again.
Save(from, copy) ==
    /\ rule' = copy
    /\ astray' = (astray \/ rule # from)

SaveEvaluation ==
    /\ eval.pc = "save"
    /\ Save(eval.from, eval.copy)
    /\ eval' = NoEval
    /\ UNCHANGED <<breach, edit, told, changes, operations>>

\* The error of a failed query is saved with the rest of the copy.
SaveError ==
    /\ eval.pc = "note"
    /\ Save(eval.from, eval.copy)
    /\ eval' = NoEval
    /\ UNCHANGED <<breach, edit, told, changes, operations>>

\* A database error, the deadline of the pass, or a restart: the state of this
\* evaluation is lost.
DropEvaluation ==
    /\ eval' = NoEval
    /\ astray' = (astray \/ (eval.pc = "save" /\ eval.copy.state # eval.from.state))

EvaluationLost ==
    /\ eval.pc # "idle"
    /\ DropEvaluation
    /\ UNCHANGED <<breach, rule, edit, told, changes, operations>>
-----------------------------------------------------------------------------
(***************************************************************************)
(* AlertRuleService.                                                        *)
(***************************************************************************)
Operate == operations < MaxOperations /\ operations' = operations + 1

\* A created rule is enabled: the column's default replaces false.
Create(seconds) ==
    /\ rule = NoRule /\ eval.pc = "idle" /\ edit.pc = "idle" /\ Operate
    /\ rule' = [enabled |-> TRUE, seconds |-> seconds, state |-> "ok", breaches |-> 0]
    /\ told' = "ok" /\ astray' = FALSE
    /\ UNCHANGED <<breach, eval, edit, changes>>

UpdateRead(seconds, enabled) ==
    /\ rule # NoRule /\ edit.pc = "idle" /\ Operate
    /\ edit' = [pc |-> "save", from |-> rule,
                copy |-> [rule EXCEPT !.seconds = seconds, !.enabled = enabled]]
    /\ UNCHANGED <<breach, rule, eval, told, astray, changes>>

UpdateSave ==
    /\ edit.pc = "save"
    /\ Save(edit.from, edit.copy)
    /\ edit' = NoEdit
    /\ UNCHANGED <<breach, eval, told, changes, operations>>

Delete ==
    /\ rule # NoRule /\ Operate
    /\ rule' = NoRule
    /\ UNCHANGED <<breach, eval, edit, told, astray, changes>>

AlertNext ==
    \/ ConditionChanges
    \/ ListEnabled \/ Query \/ QueryFails \/ SendToAll \/ SaveEvaluation \/ SaveError \/ EvaluationLost
    \/ UpdateSave \/ Delete
    \/ \E s \in Durations : Create(s) \/ \E e \in BOOLEAN : UpdateRead(s, e)
-----------------------------------------------------------------------------
\* The row of an enabled rule says whether its condition holds, and whoever is on
\* call was told so. Excepted from the second part is a rule with a save that was
\* lost after its message, or that wrote a copy older than the row (an edit that
\* crossed an evaluation).
ToldWhatHolds ==
    rule # NoRule /\ rule.enabled =>
        /\ rule.state = IF breach THEN "firing" ELSE "ok"
        /\ ~astray => told = rule.state

\* Between the message of an evaluation and its save the row is behind what was
\* told; otherwise the two agree, under edits, failed queries and restarts at any
\* moment, unless a save was lost after its message or wrote a copy older than
\* the row.
RowSaysWhatWasTold ==
    rule # NoRule /\ eval.pc # "save" /\ ~astray => told = rule.state
=============================================================================
