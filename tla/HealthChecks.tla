---------------------------- MODULE HealthChecks ----------------------------
(***************************************************************************)
(* Health checks of one instance. The monitor checks it when it is due and  *)
(* an operator may check it at the same time; each probes the app, then     *)
(* reads the counters, then writes them back. A decommission stops the      *)
(* checks and clears the row. A probe that does not reach the app, through  *)
(* its machine or its node, is a failed one.                                *)
(*                                                                          *)
(* Counters are kept up to their thresholds, beyond which nothing depends   *)
(* on them.                                                                 *)
(***************************************************************************)
EXTENDS Integers

CONSTANTS
    SuccessThreshold, FailureThreshold,
    NoRow,
    MaxFlips,       \* bound on changes of the app
    MaxManual,      \* bound on checks by operators
    MaxStops        \* bound on decommissions

HealthRow == [status: {"unknown", "healthy", "unhealthy"}, successes: Nat, failures: Nat]

ASSUME HealthAssumption ==
    /\ NoRow \notin HealthRow
    /\ SuccessThreshold \in Nat \ {0} /\ FailureThreshold \in Nat \ {0}
    /\ MaxFlips \in Nat /\ MaxManual \in Nat /\ MaxStops \in Nat

Checker == {"monitor", "console"}

VARIABLES
    up,        \* whether the app answers as expected
    desired,   \* DesiredState: running, stopping (the row is not cleared yet), stopped
    row,       \* application_instance_health, or NoRow
    check,     \* the checks in progress
    seen,      \* for the property: probes that succeeded and that failed
    flips, manual, stops

healthVars == <<up, desired, row, check, seen, flips, manual, stops>>

Capped(n, bound) == IF n > bound THEN bound ELSE n
NoCheck == [pc |-> "idle"]

HealthInit ==
    /\ up = TRUE /\ desired = "running" /\ row = NoRow
    /\ check = [k \in Checker |-> NoCheck]
    /\ seen = [ok |-> 0, failed |-> 0]
    /\ flips = 0 /\ manual = 0 /\ stops = 0

AppFlips ==
    /\ flips < MaxFlips /\ flips' = flips + 1
    /\ up' = ~up
    /\ UNCHANGED <<desired, row, check, seen, manual, stops>>
-----------------------------------------------------------------------------
\* CheckDueTargets, CheckTargetForApplication: the target row that was read
\* decides; a stopped instance is not checked.
Load(k) ==
    /\ check[k].pc = "idle" /\ desired = "running"
    /\ k = "console" => manual < MaxManual
    /\ manual' = IF k = "console" THEN manual + 1 ELSE manual
    /\ check' = [check EXCEPT ![k] = [pc |-> "probe"]]
    /\ UNCHANGED <<up, desired, row, seen, flips, stops>>

Probe(k) ==
    /\ check[k].pc = "probe"
    /\ check' = [check EXCEPT ![k] = [pc |-> "read", ok |-> up]]
    /\ seen' = IF up THEN [seen EXCEPT !.ok = Capped(@ + 1, SuccessThreshold)]
                     ELSE [seen EXCEPT !.failed = Capped(@ + 1, FailureThreshold)]
    /\ UNCHANGED <<up, desired, row, flips, manual, stops>>

\* Mutation: a probe that never ran because the batch had no time left counts.
GiveUpCounts(k) ==
    /\ check[k].pc = "probe"
    /\ check' = [check EXCEPT ![k] = [pc |-> "read", ok |-> FALSE]]
    /\ UNCHANGED <<up, desired, row, seen, flips, manual, stops>>

\* A database error, or the deadline of the batch: the statements share the
\* context of the probe, so nothing is written.
GiveUp(k) ==
    /\ check[k].pc # "idle"
    /\ check' = [check EXCEPT ![k] = NoCheck]
    /\ UNCHANGED <<up, desired, row, seen, flips, manual, stops>>

ReadPrevious(k) ==
    /\ check[k].pc = "read"
    /\ check' = [check EXCEPT ![k] = [pc |-> "write", ok |-> check[k].ok, prev |-> row]]
    /\ UNCHANGED <<up, desired, row, seen, flips, manual, stops>>

Unknown == [status |-> "unknown", successes |-> 0, failures |-> 0]

\* Mutation: the counters of the previous row are not taken over.
BuildHealthResultAfresh(prev, ok) ==
    LET status == IF prev = NoRow THEN "unknown" ELSE prev.status
    IN  IF ok
          THEN [status |-> IF 1 >= SuccessThreshold THEN "healthy" ELSE status,
                successes |-> 1, failures |-> 0]
          ELSE [status |-> IF 1 >= FailureThreshold THEN "unhealthy" ELSE status,
                successes |-> 0, failures |-> 1]

BuildHealthResult(prev, ok) ==
    LET p == IF prev = NoRow THEN Unknown ELSE prev
        s == Capped(p.successes + 1, SuccessThreshold)
        f == Capped(p.failures + 1, FailureThreshold)
    IN  IF ok
          THEN [status |-> IF s >= SuccessThreshold THEN "healthy" ELSE p.status,
                successes |-> s, failures |-> 0]
          ELSE [status |-> IF f >= FailureThreshold THEN "unhealthy" ELSE p.status,
                successes |-> 0, failures |-> f]

\* Upsert, whatever happened to the row and to the instance meanwhile.
Upsert(k) ==
    /\ check[k].pc = "write"
    /\ row' = BuildHealthResult(check[k].prev, check[k].ok)
    /\ check' = [check EXCEPT ![k] = NoCheck]
    /\ UNCHANGED <<up, desired, seen, flips, manual, stops>>
-----------------------------------------------------------------------------
\* Decommission: the intent is stored, then the row is cleared (best effort).
Stop ==
    /\ desired = "running"
    /\ stops < MaxStops /\ stops' = stops + 1
    /\ desired' = "stopping"
    /\ UNCHANGED <<up, row, check, seen, flips, manual>>

ClearTargetHealth ==
    /\ desired = "stopping"
    /\ desired' = "stopped"
    /\ row' \in {NoRow, row}
    /\ UNCHANGED <<up, check, seen, flips, manual, stops>>

\* A successful deploy.
BringBack ==
    /\ desired = "stopped"
    /\ desired' = "running"
    /\ UNCHANGED <<up, row, check, seen, flips, manual, stops>>

\* A restart of the control plane loses the checks, and a decommission between
\* its two writes.
HealthRestart ==
    /\ check' = [k \in Checker |-> NoCheck]
    /\ desired' = IF desired = "stopping" THEN "stopped" ELSE desired
    /\ UNCHANGED <<up, row, seen, flips, manual, stops>>

HealthNext ==
    \/ AppFlips \/ Stop \/ ClearTargetHealth \/ BringBack
    \/ \E k \in Checker : Load(k) \/ Probe(k) \/ GiveUp(k) \/ ReadPrevious(k) \/ Upsert(k)
-----------------------------------------------------------------------------
(***************************************************************************)
(* Properties.                                                              *)
(***************************************************************************)
\* The counters never claim more than the probes have shown: no probe is counted
\* twice by checks that overlap, none that did not run is counted at all, and a
\* status has as many probes behind it as its threshold asks for.
StatusHasProbes ==
    row # NoRow =>
        /\ row.successes <= seen.ok /\ row.failures <= seen.failed
        /\ row.status = "healthy" => seen.ok = SuccessThreshold
        /\ row.status = "unhealthy" => seen.failed = FailureThreshold

\* The status of a running instance is what the app is.
StatusIsCurrent ==
    desired = "running" => row # NoRow /\ row.status = IF up THEN "healthy" ELSE "unhealthy"
=============================================================================
