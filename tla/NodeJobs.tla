------------------------------ MODULE NodeJobs ------------------------------
(***************************************************************************)
(* The commands a deploy runs on a machine with an agenda-node: the runner  *)
(* of the control plane posts a job, polls it, and deletes it when it       *)
(* returns; the node keeps the job in a table in memory and runs the        *)
(* command in a goroutine of its own, which no request waits for. Requests  *)
(* and answers are lost, and a request whose caller gave up may still       *)
(* arrive. The node restarts; the deploy's deadline passes at any moment.   *)
(*                                                                          *)
(* Job j is the j-th call of agentRunner.run, under a fresh UUID. A deploy  *)
(* goes from step to step as long as they succeed; after a failed one the   *)
(* next call belongs to a retry, with a deadline of its own.                *)
(***************************************************************************)
EXTENDS Integers, Sequences, SequencesExt

CONSTANTS
    MaxJobs,      \* bound on calls of run
    MaxRestarts,  \* bound on node restarts
    MaxWrites,    \* bound on the writes of a command
    Sizes,        \* bytes a command writes at once
    NodeBytes,    \* the node's max_output_bytes
    RowBytes,     \* the control plane's max_output_bytes
    MarkerBytes,  \* length of the truncation marker
    ErrorBytes    \* length of an error message

ASSUME JobsAssumption ==
    /\ MaxJobs \in Nat \ {0}
    /\ MaxRestarts \in Nat
    /\ MaxWrites \in Nat
    /\ Sizes \subseteq Nat \ {0}
    /\ NodeBytes \in Nat \ {0} /\ RowBytes \in Nat \ {0} /\ MarkerBytes \in Nat \ {0}
    /\ ErrorBytes \in Nat \ {0}

Job == 1..MaxJobs

VARIABLES
    cur,        \* the call at work, or the last one
    pc,         \* where it is
    expired,    \* whether the deploy's deadline has passed
    end,        \* runErr while the deferred cleanup runs
    last,       \* lastOutput
    ret,        \* what each call returned
    row,        \* the output stored with the step
    net,        \* requests and answers in flight
    table,      \* JobStore.jobs: the status of each job in it
    cmd,        \* the process of each job
    cancelled,  \* jobs whose context was cancelled by DELETE
    buf,        \* the job's bounded output
    wrote,      \* how many bytes its command has written
    writes, restarts

caller == <<cur, pc, expired, end, last, ret, row>>
node   == <<table, cmd, cancelled, buf, wrote, writes>>
vars   == <<caller, net, node, restarts>>

-----------------------------------------------------------------------------
(***************************************************************************)
(* Bounded output. The n-th byte a command writes is the number n; the      *)
(* bytes of the marker are zeros, those of an error message are -1. All     *)
(* bytes start a character, and the limit on lines is left out.             *)
(***************************************************************************)
LastBytes(s, n) == SubSeq(s, Len(s) - n + 1, Len(s))
Marker == [i \in 1..MarkerBytes |-> 0]
EmptyBuffer == [data |-> <<>>, truncated |-> FALSE]

\* Buffer.Write.
BufferWrite(b, p, max) ==
    IF Len(p) >= max
      THEN [data |-> LastBytes(p, max), truncated |-> b.truncated \/ Len(b.data) > 0 \/ Len(p) > max]
      ELSE LET overflow == Len(b.data) + Len(p) - max
           IN  [data |-> (IF overflow > 0 THEN SubSeq(b.data, overflow + 1, Len(b.data)) ELSE b.data) \o p,
                truncated |-> b.truncated \/ overflow > 0]

\* tail: a truncated text starts with the marker, within the same budget,
\* unless the marker would fill it.
TailOf(s, max, truncated) ==
    LET marker == IF MarkerBytes >= max THEN <<>> ELSE Marker
        budget == max - Len(marker)
    IN  IF ~truncated /\ Len(s) <= max THEN s
        ELSE marker \o (IF Len(s) > budget THEN LastBytes(s, budget) ELSE s)

BufferString(b, max) == TailOf(b.data, max, b.truncated)

\* Tail: the marker of an earlier truncation is recognised and cut.
Tail_(s, max) ==
    IF IsPrefix(Marker, s) THEN TailOf(SubSeq(s, MarkerBytes + 1, Len(s)), max, TRUE)
                           ELSE TailOf(s, max, FALSE)

Copied(s) == IF s = <<>> THEN EmptyBuffer ELSE BufferWrite(EmptyBuffer, s, RowBytes)
Stored(b) == Tail_(BufferString(b, RowBytes), RowBytes)
ErrorMsg  == [i \in 1..ErrorBytes |-> -1]

\* runOne: what the runner wrote goes through a buffer of the pipeline's own;
\* the error of a failed step is appended within the same budget.
StoredOutput(s, failed) ==
    IF ~failed THEN Stored(Copied(s))
    ELSE IF s = <<>> THEN Tail_(ErrorMsg, RowBytes)
    ELSE Stored(BufferWrite(Copied(s), ErrorMsg, RowBytes))
-----------------------------------------------------------------------------
Init ==
    /\ cur = 0 /\ pc = "idle" /\ expired = FALSE /\ end = "none" /\ last = <<>>
    /\ ret = [j \in Job |-> "none"]
    /\ row = [j \in Job |-> <<>>]
    /\ net = {}
    /\ table = [j \in {} |-> "running"]
    /\ cmd = [j \in Job |-> "none"]
    /\ cancelled = {}
    /\ buf = [j \in Job |-> EmptyBuffer]
    /\ wrote = [j \in Job |-> 0]
    /\ writes = 0 /\ restarts = 0

Ask(op) == [to |-> "node", op |-> op, job |-> cur]

\* An answer to the pending request; what is left of the call is in net alone.
Answer(op, m) == m \in net /\ m.to = "caller" /\ m.op = op /\ m.job = cur

\* No answer comes: the request or the answer is lost, or the timeout passes
\* while the request is still on its way. A late GET would have no effect.
Unanswered(op) ==
    LET sent == {m \in net : m.to = "node"}
    IN  {sent \ {Ask(op)}} \cup (IF op = "get" THEN {} ELSE {sent})

-----------------------------------------------------------------------------
(***************************************************************************)
(* agentRunner.run.                                                         *)
(***************************************************************************)
\* The next step of the run, or of a retry.
Call ==
    /\ pc = "idle" /\ cur < MaxJobs
    /\ cur' = cur + 1
    /\ net' = net \cup {[to |-> "node", op |-> "post", job |-> cur + 1]}
    /\ pc' = "posting"
    /\ UNCHANGED <<expired, end, last, ret, row, node, restarts>>

\* A deploy's deadline passes at any moment of the call.
Expire ==
    /\ pc # "idle" /\ ~expired
    /\ expired' = TRUE
    /\ UNCHANGED <<cur, pc, end, last, ret, row, net, node, restarts>>

Posted(m) ==
    /\ pc = "posting" /\ Answer("post", m)
    /\ net' = net \ {m}
    /\ pc' = "polling"
    /\ UNCHANGED <<cur, expired, end, last, ret, row, node, restarts>>

\* postJSON fails: the deferred cleanup is not in place yet, so no DELETE goes
\* out, whether or not the node has the job.
PostFails ==
    /\ pc = "posting"
    /\ net' \in Unanswered("post")
    /\ pc' = "idle"
    /\ ret' = [ret EXCEPT ![cur] = "dispatch_error"]
    /\ row' = [row EXCEPT ![cur] = StoredOutput(<<>>, TRUE)]
    /\ expired' = FALSE
    /\ UNCHANGED <<cur, end, last, node, restarts>>

Poll ==
    /\ pc = "polling" /\ ~expired
    /\ net' = net \cup {Ask("get")}
    /\ pc' = "getting"
    /\ UNCHANGED <<cur, expired, end, last, ret, row, node, restarts>>

\* The deferred function: after an interruption it fetches the output once
\* more, then it deletes the job.
Cleanup(rest, result) ==
    /\ end' = result
    /\ net' = rest \cup {Ask(IF result = "deadline" THEN "get" ELSE "delete")}
    /\ pc' = IF result = "deadline" THEN "snapshot" ELSE "deleting"

\* Mutation: a poll without an answer ends the step.
PollFailsAtOnce ==
    /\ pc = "getting"
    /\ \E rest \in Unanswered("get") : Cleanup(rest, "lost")
    /\ UNCHANGED <<cur, expired, last, ret, row, node, restarts>>

\* A poll that fails in any way but a 404 is repeated at the next tick.
PollFails ==
    /\ pc = "getting"
    /\ net' \in Unanswered("get")
    /\ pc' = "polling"
    /\ UNCHANGED <<cur, expired, end, last, ret, row, node, restarts>>

\* Mutation: the first snapshot is kept.
KeptFirst(m) == IF m.status = "404" \/ last # <<>> THEN last ELSE m.output

\* Snapshots replace one another; an empty one is ignored.
Kept(m) == IF m.status = "404" \/ m.output = <<>> THEN last ELSE m.output

Polled(m) ==
    /\ pc = "getting" /\ Answer("get", m)
    /\ last' = Kept(m)
    /\ IF m.status = "running"
         THEN net' = net \ {m} /\ pc' = "polling" /\ UNCHANGED end
         ELSE Cleanup(net \ {m}, IF m.status = "404" THEN "lost" ELSE m.status)
    /\ UNCHANGED <<cur, expired, ret, row, node, restarts>>

Interrupted ==
    /\ pc = "polling" /\ expired
    /\ Cleanup(net, "deadline")
    /\ UNCHANGED <<cur, expired, last, ret, row, node, restarts>>

\* A failed fetch keeps the last tail.
Snapshot ==
    /\ pc = "snapshot"
    /\ \/ \E m \in net : Answer("get", m) /\ last' = Kept(m)
                           /\ net' = (net \ {m}) \cup {Ask("delete")}
       \/ \E rest \in Unanswered("get") : net' = rest \cup {Ask("delete")}
                                           /\ UNCHANGED last
    /\ pc' = "deleting"
    /\ UNCHANGED <<cur, expired, end, ret, row, node, restarts>>

\* The result of the DELETE is ignored; the pipeline stores the output. Only
\* after a success does it go on under the same deadline.
Return ==
    /\ pc = "deleting"
    /\ \/ \E m \in net : Answer("delete", m) /\ net' = net \ {m}
       \/ net' \in Unanswered("delete")
    /\ pc' = "idle"
    /\ ret' = [ret EXCEPT ![cur] = end]
    /\ row' = [row EXCEPT ![cur] = StoredOutput(last, end # "success")]
    /\ end' = "none" /\ last' = <<>>
    /\ expired' = (expired /\ end = "success")
    /\ UNCHANGED <<cur, node, restarts>>
-----------------------------------------------------------------------------
(***************************************************************************)
(* The node. A request of a caller that no longer waits is served too, and  *)
(* its answer goes nowhere.                                                 *)
(***************************************************************************)
Waiting(m) ==
    /\ m.job = cur
    /\ \/ m.op = "post" /\ pc = "posting"
       \/ m.op = "get" /\ pc \in {"getting", "snapshot"}
       \/ m.op = "delete" /\ pc = "deleting"

Reply(m, status, output) ==
    net' = (net \ {m}) \cup
           (IF Waiting(m) THEN {[to |-> "caller", op |-> m.op, job |-> m.job,
                                 status |-> status, output |-> output]}
                          ELSE {})

Received(m, op) == m \in net /\ m.to = "node" /\ m.op = op

\* Dispatch starts the command once; a job that is in the table already is
\* acknowledged only.
Dispatch(m) ==
    LET j == m.job
    IN  /\ Received(m, "post")
        /\ IF j \in DOMAIN table
             THEN UNCHANGED <<table, cmd>>
             ELSE /\ table' = [i \in DOMAIN table \cup {j} |-> IF i = j THEN "running" ELSE table[i]]
                  /\ cmd' = [cmd EXCEPT ![j] = "running"]
        /\ Reply(m, "202", <<>>)
        /\ UNCHANGED <<caller, cancelled, buf, wrote, writes, restarts>>

Get(m) ==
    /\ Received(m, "get")
    /\ IF m.job \in DOMAIN table
         THEN Reply(m, table[m.job], BufferString(buf[m.job], NodeBytes))
         ELSE Reply(m, "404", <<>>)
    /\ UNCHANGED <<caller, node, restarts>>

RemoveJob(j) == table' = [i \in DOMAIN table \ {j} |-> table[i]]

\* Delete removes the entry and cancels the command's context.
Delete(m) ==
    /\ Received(m, "delete")
    /\ IF m.job \in DOMAIN table
         THEN RemoveJob(m.job) /\ cancelled' = cancelled \cup {m.job}
         ELSE UNCHANGED <<table, cancelled>>
    /\ Reply(m, "204", <<>>)
    /\ UNCHANGED <<caller, cmd, buf, wrote, writes, restarts>>

\* The command ends; its goroutine sets the status of the job, which may have
\* left the table.
Ends(j, process, status) ==
    /\ cmd[j] = "running"
    /\ cmd' = [cmd EXCEPT ![j] = process]
    /\ table' = IF j \in DOMAIN table THEN [table EXCEPT ![j] = status] ELSE table
    /\ cancelled' = cancelled \ {j}
    /\ UNCHANGED <<caller, net, buf, wrote, writes, restarts>>

CommandExits(j) == Ends(j, "ok", "success") \/ Ends(j, "failed", "failed")

\* A cancelled context kills the command's process group.
CommandKilled(j) == j \in cancelled /\ Ends(j, "failed", "failed")

\* Mutation: the job's context has no timeout.
JobDeadlineMissing(j) == j \in cancelled /\ Ends(j, "failed", "failed")

\* maxJobDuration.
JobDeadline(j) == Ends(j, "failed", "failed")

CommandWrites(j) ==
    /\ cmd[j] = "running"
    /\ writes < MaxWrites
    /\ writes' = writes + 1
    /\ \E n \in Sizes :
          /\ wrote' = [wrote EXCEPT ![j] = @ + n]
          /\ buf' = [buf EXCEPT ![j] = BufferWrite(@, [i \in 1..n |-> wrote[j] + i], NodeBytes)]
    /\ UNCHANGED <<caller, net, table, cmd, cancelled, restarts>>

\* The sweeper drops a finished job after the retention time, which may be
\* configured below the time a run may poll.
Sweep(j) ==
    /\ j \in DOMAIN table /\ table[j] # "running"
    /\ RemoveJob(j)
    /\ UNCHANGED <<caller, net, cmd, cancelled, buf, wrote, writes, restarts>>

\* A restart drops the table. The service manager, or the container's end,
\* takes the commands along (control group).
NodeRestart ==
    /\ restarts < MaxRestarts
    /\ restarts' = restarts + 1
    /\ table' = [j \in {} |-> "running"]
    /\ cmd' = [j \in Job |-> IF cmd[j] = "running" THEN "failed" ELSE cmd[j]]
    /\ cancelled' = {}
    /\ net' = {m \in net : m.to = "node"}
    /\ UNCHANGED <<caller, buf, wrote, writes>>

NodeServes ==
    \E m \in net : Dispatch(m) \/ Get(m) \/ Delete(m)

Reclaim == \E j \in Job : JobDeadline(j) \/ Sweep(j)

CallerStep ==
    \/ PostFails \/ Poll \/ PollFails \/ Interrupted \/ Snapshot \/ Return
    \/ \E m \in net : Posted(m) \/ Polled(m)

Next ==
    \/ Call \/ Expire \/ CallerStep
    \/ NodeServes
    \/ \E j \in Job : CommandExits(j) \/ CommandKilled(j) \/ CommandWrites(j)
    \/ Reclaim
    \/ NodeRestart

Spec == Init /\ [][Next]_vars

\* The deadline passes, the client's timeouts pass, and the node kills what
\* was cancelled or has run for maxJobDuration and sweeps what is finished. A
\* command need not end by itself, and no request need be answered.
Fairness ==
    /\ WF_vars(Expire) /\ WF_vars(CallerStep)
    /\ WF_vars(Reclaim)

FairSpec == Spec /\ Fairness
-----------------------------------------------------------------------------
(***************************************************************************)
(* Properties.                                                              *)
(***************************************************************************)
\* What a step reports is what became of its command: success means that the
\* command ran to a zero exit, and after a failure the node reported, or a job
\* it no longer knows, no command of the step is running or about to start. Only
\* a failed dispatch or the deadline leaves that open.
ReportIsConclusive ==
    \A j \in Job :
        /\ ret[j] = "success" => cmd[j] = "ok"
        /\ ret[j] \in {"success", "failed", "lost"} =>
              /\ cmd[j] # "running"
              /\ ~\E m \in net : m.op = "post" /\ m.job = j

\* The last n of the first w bytes.
LastOf(w, n) == [i \in 1..n |-> w - n + i]

\* The node's buffer is the end of what the command wrote, whatever the sizes
\* of its writes, and it is marked truncated exactly when bytes are missing.
BufferIsTail ==
    \A j \in Job :
        LET n == IF wrote[j] < NodeBytes THEN wrote[j] ELSE NodeBytes
        IN  /\ buf[j].data = LastOf(wrote[j], n)
            /\ buf[j].truncated = (wrote[j] > NodeBytes)

\* Whether an error message leaves room for output in a stored row.
ErrorFits == (IF MarkerBytes < RowBytes THEN MarkerBytes ELSE 0) + ErrorBytes < RowBytes

\* The stored output of a step is a run of consecutive bytes of its command,
\* without a gap between two snapshots, within the limit, and starts with the
\* marker when earlier bytes were cut and the marker fits. Of a step the node
\* answered for it is the end of what the command wrote, and there is some
\* unless the error message fills the row.
StoredOutputIsTail ==
    \A j \in Job :
        LET out   == row[j]
            shown == {i \in 1..Len(out) : out[i] > 0}
        IN  /\ Len(out) <= RowBytes
            /\ \A i, k \in shown : \A b \in i..k : out[b] = out[i] + (b - i)
            /\ shown # {} /\ (\A i \in shown : out[i] # 1)
                 /\ MarkerBytes < RowBytes /\ MarkerBytes < NodeBytes => IsPrefix(Marker, out)
            /\ ret[j] \in {"success", "failed"} /\ shown # {}
                 => \E i \in shown : out[i] = wrote[j] /\ \A k \in shown : k <= i
            /\ wrote[j] > 0 /\ (ret[j] = "success" \/ (ret[j] = "failed" /\ ErrorFits))
                 => shown # {}

\* Whatever was lost, the calls return and nothing stays on the machine: an
\* unreachable node cannot hold a step beyond its deadline and the bounded
\* cleanup, and a job whose DELETE never arrived ends after maxJobDuration and
\* is swept (NewJobStore).
ComesToRest ==
    <>[](pc = "idle" /\ DOMAIN table = {} /\ \A j \in Job : cmd[j] # "running")
=============================================================================
