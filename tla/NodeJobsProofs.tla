--------------------------- MODULE NodeJobsProofs ---------------------------
(***************************************************************************)
(* Machine-checked proofs about NodeJobs, for any number of calls, node    *)
(* restarts and writes, any sizes of the writes and any limits.            *)
(***************************************************************************)
EXTENDS NodeJobs, SequenceTheorems, TLAPS

(***************************************************************************)
(* The inductive invariant of ReportIsConclusive.                          *)
(***************************************************************************)
CallerPC  == {"idle", "posting", "polling", "getting", "snapshot", "deleting"}
Result    == {"none", "dispatch_error", "success", "failed", "lost", "deadline"}
JobStatus == {"running", "success", "failed"}
Process   == {"none", "running", "ok", "failed"}

Conclusive == {"success", "failed", "lost"}

TypeInv ==
    /\ cur \in 0..MaxJobs
    /\ pc \in CallerPC
    /\ pc # "idle" => cur \in Job
    /\ end \in Result
    /\ ret \in [Job -> Result]
    /\ DOMAIN table \subseteq Job /\ \A j \in DOMAIN table : table[j] \in JobStatus
    /\ cmd \in [Job -> Process]

\* The table says of a job what became of its command; a command that is running
\* and not in the table belongs to a call that has sent its DELETE or is over.
TableInv ==
    /\ \A j \in DOMAIN table : /\ table[j] = "running" => cmd[j] = "running"
                               /\ table[j] = "success" => cmd[j] = "ok"
                               /\ table[j] = "failed" => cmd[j] = "failed"
    /\ \A j \in Job : cmd[j] = "running" /\ j \notin DOMAIN table =>
          j < cur \/ pc \in {"deleting", "idle"}

\* Jobs are numbered in the order of their calls; the result of the call at work
\* is what the command has come to.
CallInv ==
    /\ \A j \in Job : ret[j] # "none" => j < cur \/ (j = cur /\ pc = "idle")
    /\ \A j \in Job : cmd[j] # "none" => j <= cur
    /\ pc \notin {"snapshot", "deleting"} => end = "none"
    /\ pc = "snapshot" => end = "deadline"
    /\ end = "success" => cmd[cur] = "ok"
    /\ end \in Conclusive => cmd[cur] # "running"

\* What is in flight. A job is posted once; only a failed dispatch leaves its POST
\* behind; an answer is for the request the call at work waits on, and a status in
\* it other than running is still true when it arrives.
MessageOK(m) ==
    /\ m.to \in {"node", "caller"} /\ m.op \in {"post", "get", "delete"}
    /\ m.to = "node" => m = [to |-> "node", op |-> m.op, job |-> m.job]
    /\ m.job \in Job /\ m.job <= cur
    /\ m.op = "post" => \/ m.job = cur /\ pc = "posting"
                        \/ m.to = "node" /\ ret[m.job] = "dispatch_error"
    /\ m.op = "post" /\ m.to = "node" => cmd[m.job] = "none"
    /\ m.op = "get" => m.job = cur /\ pc \in {"getting", "snapshot"}
    /\ m.op = "delete" => m.job < cur \/ pc \in {"deleting", "idle"}
    /\ m.op = "get" /\ m.to = "caller" =>
          /\ m.status \in JobStatus \cup {"404"}
          /\ m.status = "success" => cmd[m.job] = "ok"
          /\ m.status # "running" => cmd[m.job] # "running"

NetInv == \A m \in net : MessageOK(m)

\* A POST or a GET is in flight once, as a request or as its answer.
AloneInv == \A m, n \in net : m.op \in {"post", "get"} /\ m.op = n.op /\ m.job = n.job => m = n

Inv == TypeInv /\ TableInv /\ CallInv /\ NetInv /\ AloneInv /\ ReportIsConclusive
-----------------------------------------------------------------------------
LEMMA InitInv == Init => Inv
  <1> SUFFICES ASSUME Init PROVE Inv
    OBVIOUS
  <1>1. TypeInv
    BY JobsAssumption DEF Init, TypeInv, CallerPC, Result, JobStatus, Process
  <1>2. TableInv /\ CallInv
    BY DEF Init, TableInv, CallInv, Conclusive
  <1>3. NetInv /\ AloneInv /\ ReportIsConclusive
    BY DEF Init, NetInv, AloneInv, ReportIsConclusive
  <1> QED
    BY <1>1, <1>2, <1>3 DEF Inv

\* A step of the caller that adds no POST and reports nothing.
LEMMA CallerKeeps ==
    ASSUME Inv, UNCHANGED <<cur, ret, table, cmd>>, pc # "idle",
           pc' \in CallerPC \ {"idle"}, end' \in Result,
           pc' # "posting",
           pc = "deleting" => pc' = "deleting",
           \A m \in net' : \/ m \in net /\ m.op # "get" /\ ~(m.op = "post" /\ m.job = cur)
                           \/ m = Ask("get") /\ pc' \in {"getting", "snapshot"}
                           \/ m = Ask("delete") /\ pc' = "deleting",
           pc' \notin {"snapshot", "deleting"} => end' = "none",
           pc' = "snapshot" => end' = "deadline",
           end' = "success" => cmd[cur] = "ok",
           end' \in Conclusive => cmd[cur] # "running"
    PROVE  Inv'
  <1>1. TypeInv'
    BY DEF Inv, TypeInv
  <1>2. TableInv'
    BY DEF Inv, TableInv
  <1>3. CallInv'
    BY DEF Inv, CallInv
  <1>4. NetInv'
    <2> SUFFICES ASSUME NEW m \in net' PROVE MessageOK(m)'
      BY DEF NetInv
    <2>1. CASE m \in net /\ m.op # "get" /\ ~(m.op = "post" /\ m.job = cur)
      BY <2>1 DEF Inv, NetInv, MessageOK
    <2>2. CASE m = Ask("get") /\ pc' \in {"getting", "snapshot"}
      <3>1. m.to = "node" /\ m.op = "get" /\ m.job = cur
        BY <2>2 DEF Ask
      <3>2. m = [to |-> "node", op |-> m.op, job |-> m.job]
        BY <2>2 DEF Ask
      <3>3. cur \in Job /\ cur <= cur
        BY DEF Inv, TypeInv, Job
      <3> QED
        BY <2>2, <3>1, <3>2, <3>3 DEF MessageOK
    <2>3. CASE m = Ask("delete") /\ pc' = "deleting"
      <3>1. m.to = "node" /\ m.op = "delete" /\ m.job = cur
        BY <2>3 DEF Ask
      <3>2. m = [to |-> "node", op |-> m.op, job |-> m.job]
        BY <2>3 DEF Ask
      <3>3. cur \in Job /\ cur <= cur
        BY DEF Inv, TypeInv, Job
      <3> QED
        BY <2>3, <3>1, <3>2, <3>3 DEF MessageOK
    <2> QED
      BY <2>1, <2>2, <2>3
  <1>5. AloneInv'
    <2>1. Ask("get").op = "get" /\ Ask("delete").op = "delete"
      BY DEF Ask
    <2> QED
      BY <2>1 DEF Inv, AloneInv
  <1>6. ReportIsConclusive'
    <2>1. \A m \in net' : m.op = "post" => m \in net
      BY DEF Ask
    <2> QED
      BY <2>1 DEF Inv, ReportIsConclusive
  <1> QED
    BY <1>1, <1>2, <1>3, <1>4, <1>5, <1>6 DEF Inv

\* The call at work returns.
LEMMA ReturnKeeps ==
    ASSUME Inv, UNCHANGED <<cur, table, cmd>>, pc # "idle", pc' = "idle", end' = "none",
           net' \subseteq net,
           NEW result \in Result, ret' = [ret EXCEPT ![cur] = result],
           result = "dispatch_error" \/ pc \in {"snapshot", "deleting"},
           \A m \in net' : m.op # "get" /\ (m.op = "post" => m.to = "node"),
           result = "success" => cmd[cur] = "ok",
           result \in Conclusive => cmd[cur] # "running"
    PROVE  Inv'
  <1>0. cur \in Job /\ ret'[cur] = result /\ \A j \in Job \ {cur} : ret'[j] = ret[j]
    BY DEF Inv, TypeInv
  <1>1. TypeInv'
    BY <1>0 DEF Inv, TypeInv, CallerPC, Result
  <1>2. TableInv'
    BY DEF Inv, TableInv
  <1>3. CallInv'
    <2>1. ret[cur] = "none"
      BY <1>0 DEF Inv, CallInv, TypeInv, Job
    <2> QED
      BY <1>0, <2>1 DEF Inv, CallInv, Conclusive
  <1>4. NetInv'
    <2> SUFFICES ASSUME NEW m \in net' PROVE MessageOK(m)'
      BY DEF NetInv
    <2>1. MessageOK(m) /\ m.op # "get" /\ (m.op = "post" => m.to = "node")
      BY DEF Inv, NetInv
    <2>2. m.op = "post" => ret'[m.job] = "dispatch_error"
      <3>1. CASE m.job = cur
        <4>1. ret[cur] = "none"
          BY <1>0 DEF Inv, CallInv, TypeInv, Job
        <4> QED
          BY <1>0, <2>1, <3>1, <4>1 DEF MessageOK
      <3>2. CASE m.job # cur
        BY <1>0, <2>1, <3>2 DEF MessageOK
      <3> QED
        BY <3>1, <3>2
    <2> QED
      BY <2>1, <2>2 DEF MessageOK
  <1>5. AloneInv'
    BY DEF Inv, AloneInv
  <1>6. ReportIsConclusive'
    <2> SUFFICES ASSUME NEW j \in Job
                 PROVE  /\ ret'[j] = "success" => cmd'[j] = "ok"
                        /\ ret'[j] \in Conclusive =>
                              cmd'[j] # "running" /\ ~\E m \in net' : m.op = "post" /\ m.job = j
      BY DEF ReportIsConclusive, Conclusive
    <2>1. CASE j = cur
      <3>1. ASSUME result \in Conclusive, NEW m \in net', m.op = "post", m.job = cur
            PROVE  FALSE
        <4>1. MessageOK(m)'
          BY <1>4 DEF NetInv
        <4> QED
          BY <1>0, <3>1, <4>1 DEF MessageOK, Conclusive
      <3> QED
        BY <1>0, <2>1, <3>1
    <2>2. CASE j # cur
      BY <1>0, <2>2 DEF Inv, ReportIsConclusive, Conclusive
    <2> QED
      BY <2>1, <2>2
  <1> QED
    BY <1>1, <1>2, <1>3, <1>4, <1>5, <1>6 DEF Inv

\* Giving up on an answer leaves requests only.
LEMMA UnansweredLeaves ==
    ASSUME Inv, NEW op, NEW rest \in Unanswered(op)
    PROVE  /\ rest \subseteq net /\ \A m \in rest : m.to = "node"
           /\ op = "get" => \A m \in rest : m.op # "get"
  <1>1. rest \subseteq net /\ \A m \in rest : m.to = "node"
    BY DEF Unanswered
  <1>2. ASSUME op = "get", NEW m \in rest, m.op = "get" PROVE FALSE
    <2>1. rest = {n \in net : n.to = "node"} \ {Ask("get")}
      BY <1>2 DEF Unanswered
    <2>2. MessageOK(m) /\ m.to = "node"
      BY <1>1 DEF Inv, NetInv
    <2>3. m = [to |-> "node", op |-> "get", job |-> cur]
      BY <1>2, <2>2 DEF MessageOK
    <2> QED
      BY <2>1, <2>3 DEF Ask
  <1> QED
    BY <1>1, <1>2

LEMMA CallInvariant ==
    ASSUME Inv, Call
    PROVE  Inv'
  <1> DEFINE new == [to |-> "node", op |-> "post", job |-> cur + 1]
  <1>0. /\ cur' = cur + 1 /\ cur' \in Job /\ pc = "idle" /\ pc' = "posting"
        /\ net' = net \cup {new} /\ UNCHANGED <<end, ret, table, cmd>>
    BY JobsAssumption DEF Call, Inv, TypeInv, Job, node
  <1>1. TypeInv'
    BY <1>0 DEF Inv, TypeInv, CallerPC, Job
  <1>2. TableInv'
    <2>1. \A j \in Job : cmd[j] = "running" => j < cur'
      BY <1>0 DEF Inv, CallInv, TypeInv, Job
    <2> QED
      BY <1>0, <2>1 DEF Inv, TableInv
  <1>3. CallInv'
    <2>1. end = "none"
      BY <1>0 DEF Inv, CallInv
    <2> QED
      BY <1>0, <2>1 DEF Inv, CallInv, Conclusive, TypeInv, Job
  <1>4. NetInv'
    <2> SUFFICES ASSUME NEW m \in net' PROVE MessageOK(m)'
      BY DEF NetInv
    <2>1. CASE m \in net
      <3>1. MessageOK(m)
        BY <2>1 DEF Inv, NetInv
      <3>2. m.job < cur' /\ m.op # "get"
        BY <1>0, <3>1 DEF MessageOK, Inv, TypeInv, Job
      <3> QED
        BY <1>0, <3>1, <3>2 DEF MessageOK, Inv, TypeInv, Job
    <2>2. CASE m = new
      <3>1. cmd[cur'] = "none"
        BY <1>0 DEF Inv, CallInv, TypeInv, Job
      <3>2. m = [to |-> "node", op |-> m.op, job |-> m.job]
        BY <2>2
      <3>3. m.to = "node" /\ m.op = "post" /\ m.job = cur'
        BY <1>0, <2>2
      <3>4. cur' <= cur'
        BY <1>0 DEF Job
      <3> HIDE DEF new
      <3> QED
        BY <1>0, <3>1, <3>2, <3>3, <3>4 DEF MessageOK
    <2> QED
      BY <1>0, <2>1, <2>2
  <1>5. AloneInv'
    <2>1. \A m \in net : m.job # cur + 1
      BY DEF Inv, NetInv, MessageOK, TypeInv, Job
    <2> QED
      BY <1>0, <2>1 DEF Inv, AloneInv
  <1>6. ReportIsConclusive'
    <2>1. \A j \in Job : ret[j] # "none" => j # cur + 1
      BY <1>0 DEF Inv, CallInv, TypeInv, Job
    <2> QED
      BY <1>0, <2>1 DEF Inv, ReportIsConclusive
  <1> QED
    BY <1>1, <1>2, <1>3, <1>4, <1>5, <1>6 DEF Inv

LEMMA CallerInvariant ==
    ASSUME Inv, CallerStep
    PROVE  Inv'
  <1>0. UNCHANGED <<cur, table, cmd>>
    BY DEF CallerStep, PostFails, Poll, PollFails, Interrupted, Snapshot, Return, Posted, Polled, node
  <1>1. CASE PostFails
    <2>1. \A m \in net' : m \in net /\ m.to = "node"
      BY <1>1, UnansweredLeaves DEF PostFails
    <2>2. \A m \in net : m.op # "get"
      BY <1>1 DEF PostFails, Inv, NetInv, MessageOK
    <2>3. end = "none" /\ pc = "posting"
      BY <1>1 DEF PostFails, Inv, CallInv
    <2> QED
      BY <1>0, <1>1, <2>1, <2>2, <2>3, ReturnKeeps DEF PostFails, Result, Conclusive
  <1>2. CASE Poll
    <2>1. \A m \in net : m.op # "get" /\ ~(m.op = "post" /\ m.job = cur)
      BY <1>2 DEF Poll, Inv, NetInv, MessageOK, CallInv, TypeInv, Job
    <2>2. end = "none"
      BY <1>2 DEF Poll, Inv, CallInv
    <2> QED
      BY <1>0, <1>2, <2>1, <2>2, CallerKeeps DEF Poll, CallerPC, Result, Conclusive
  <1>3. ASSUME pc \in {"polling", "getting", "snapshot", "deleting"}, NEW m \in net
        PROVE  ~(m.op = "post" /\ m.job = cur)
    BY <1>3 DEF Inv, NetInv, MessageOK, CallInv, TypeInv, Job
  <1>4. CASE PollFails
    <2>1. \A m \in net' : m \in net /\ m.op # "get" /\ ~(m.op = "post" /\ m.job = cur)
      BY <1>3, <1>4, UnansweredLeaves DEF PollFails
    <2>2. end = "none"
      BY <1>4 DEF PollFails, Inv, CallInv
    <2> QED
      BY <1>0, <1>4, <2>1, <2>2, CallerKeeps DEF PollFails, CallerPC, Result, Conclusive
  <1>5. ASSUME NEW m \in net, Posted(m) PROVE Inv'
    <2>1. end = "none" /\ pc = "posting"
      BY <1>5 DEF Posted, Inv, CallInv
    <2>2. \A n \in net' : n \in net /\ n.op # "get" /\ ~(n.op = "post" /\ n.job = cur)
      BY <1>5 DEF Posted, Answer, Inv, AloneInv, NetInv, MessageOK
    <2> QED
      BY <1>0, <1>5, <2>1, <2>2, CallerKeeps DEF Posted, CallerPC, Result, Conclusive
  <1>6. ASSUME pc \in {"getting", "snapshot"}, NEW m \in net, Answer("get", m)
        PROVE  \A n \in net \ {m} : n.op # "get" /\ ~(n.op = "post" /\ n.job = cur)
    BY <1>3, <1>6 DEF Answer, Inv, AloneInv, NetInv, MessageOK
  <1>7. ASSUME NEW m \in net, Polled(m) PROVE Inv'
    <2>1. /\ pc = "getting" /\ Answer("get", m) /\ UNCHANGED ret
          /\ \A n \in net \ {m} : n.op # "get" /\ ~(n.op = "post" /\ n.job = cur)
      BY <1>6, <1>7 DEF Polled
    <2>2. CASE net' = net \ {m} /\ pc' = "polling" /\ UNCHANGED end
      <3>1. end = "none"
        BY <2>1 DEF Inv, CallInv
      <3> QED
        BY <1>0, <2>1, <2>2, <3>1, CallerKeeps DEF CallerPC, Result, Conclusive
    <2>3. CASE m.status # "running"
               /\ Cleanup(net \ {m}, IF m.status = "404" THEN "lost" ELSE m.status)
      <3>1. /\ m.status \in {"success", "failed", "404"}
            /\ m.status = "success" => cmd[cur] = "ok"
            /\ cmd[cur] # "running"
        BY <2>1, <2>3 DEF Answer, Inv, NetInv, MessageOK, JobStatus
      <3>2. PICK result \in {"success", "failed", "lost"} :
               /\ result = "success" => m.status = "success"
               /\ Cleanup(net \ {m}, result)
        BY <2>3, <3>1
      <3>3. end' = result /\ pc' = "deleting" /\ net' = (net \ {m}) \cup {Ask("delete")}
        BY <3>2 DEF Cleanup
      <3> QED
        BY <1>0, <2>1, <3>1, <3>2, <3>3, CallerKeeps DEF CallerPC, Result, Conclusive
    <2> QED
      BY <1>7, <2>2, <2>3 DEF Polled
  <1>8. CASE Interrupted
    <2>1. end' = "deadline" /\ pc' = "snapshot" /\ net' = net \cup {Ask("get")} /\ pc = "polling"
      BY <1>8 DEF Interrupted, Cleanup
    <2>2. \A m \in net : m.op # "get" /\ ~(m.op = "post" /\ m.job = cur)
      BY <1>3, <2>1 DEF Inv, NetInv, MessageOK
    <2> QED
      BY <1>0, <1>8, <2>1, <2>2, CallerKeeps DEF Interrupted, CallerPC, Result, Conclusive
  <1>9. CASE Snapshot
    <2>1. pc = "snapshot" /\ pc' = "deleting" /\ end = "deadline" /\ UNCHANGED <<end, ret>>
      BY <1>9 DEF Snapshot, Inv, CallInv
    <2>2. PICK rest : /\ rest \subseteq net /\ net' = rest \cup {Ask("delete")}
                      /\ \A n \in rest : n.op # "get" /\ ~(n.op = "post" /\ n.job = cur)
      <3>1. ASSUME NEW m \in net, Answer("get", m), net' = (net \ {m}) \cup {Ask("delete")}
            PROVE  \E rest : /\ rest \subseteq net /\ net' = rest \cup {Ask("delete")}
                             /\ \A n \in rest : n.op # "get" /\ ~(n.op = "post" /\ n.job = cur)
        BY <1>6, <2>1, <3>1
      <3>2. ASSUME NEW rest \in Unanswered("get"), net' = rest \cup {Ask("delete")}
            PROVE  /\ rest \subseteq net
                   /\ \A n \in rest : n.op # "get" /\ ~(n.op = "post" /\ n.job = cur)
        BY <1>3, <2>1, <3>2, UnansweredLeaves
      <3> QED
        BY <1>9, <3>1, <3>2 DEF Snapshot
    <2> QED
      BY <1>0, <2>1, <2>2, CallerKeeps DEF CallerPC, Result, Conclusive
  <1>10. CASE Return
    <2>1. /\ pc = "deleting" /\ pc' = "idle" /\ end' = "none"
          /\ ret' = [ret EXCEPT ![cur] = end] /\ end \in Result
      BY <1>10 DEF Return, Inv, TypeInv
    <2>2. net' \subseteq net
      BY <1>10, UnansweredLeaves DEF Return
    <2>3. \A m \in net' : m.op # "get" /\ (m.op = "post" => m.to = "node")
      BY <2>1, <2>2 DEF Inv, NetInv, MessageOK
    <2>4. /\ end = "success" => cmd[cur] = "ok"
          /\ end \in Conclusive => cmd[cur] # "running"
      BY DEF Inv, CallInv
    <2> QED
      BY <1>0, <2>1, <2>2, <2>3, <2>4, ReturnKeeps
  <1> QED
    BY <1>1, <1>2, <1>4, <1>5, <1>7, <1>8, <1>9, <1>10 DEF CallerStep

\* What serving request m does to the messages in flight.
LEMMA ReplyEffect ==
    ASSUME NEW m \in net, NEW status, NEW output, Reply(m, status, output)
    PROVE  \E a : /\ net' = net \ {m} \/ (Waiting(m) /\ net' = (net \ {m}) \cup {a})
                  /\ a.to = "caller" /\ a.op = m.op /\ a.job = m.job /\ a.status = status
  <1> DEFINE a == [to |-> "caller", op |-> m.op, job |-> m.job, status |-> status,
                   output |-> output]
  <1>1. a.to = "caller" /\ a.op = m.op /\ a.job = m.job /\ a.status = status
    OBVIOUS
  <1>2. CASE Waiting(m)
    <2>1. net' = (net \ {m}) \cup {a}
      BY <1>2 DEF Reply
    <2> QED
      BY <1>1, <1>2, <2>1
  <1>3. CASE ~Waiting(m)
    <2>1. net' = net \ {m}
      BY <1>3 DEF Reply
    <2> QED
      BY <1>1, <2>1
  <1> QED
    BY <1>2, <1>3

\* A reply keeps every request and answer in its place.
LEMMA ReplyAlone ==
    ASSUME Inv, NEW m \in net, NEW status, NEW output, Reply(m, status, output)
    PROVE  AloneInv'
  <1>1. PICK a : /\ net' = net \ {m} \/ (Waiting(m) /\ net' = (net \ {m}) \cup {a})
                 /\ a.to = "caller" /\ a.op = m.op /\ a.job = m.job /\ a.status = status
    BY ReplyEffect
  <1> QED
    BY <1>1 DEF Inv, AloneInv

LEMMA ServeInvariant ==
    ASSUME Inv, NEW m \in net, Dispatch(m) \/ Get(m) \/ Delete(m)
    PROVE  Inv'
  <1>0. UNCHANGED <<cur, pc, end, ret>> /\ MessageOK(m) /\ m.to = "node" /\ m.job \in Job
    BY DEF Dispatch, Get, Delete, Received, caller, Inv, NetInv, MessageOK
  <1>1. CASE Dispatch(m)
    <2> DEFINE j == m.job
    <2>1. m.op = "post" /\ cmd[j] = "none" /\ Reply(m, "202", <<>>)
      BY <1>0, <1>1 DEF Dispatch, Received, MessageOK
    <2>2. j \notin DOMAIN table
      BY <2>1 DEF Inv, TableInv, TypeInv, JobStatus
    <2>3. /\ DOMAIN table' = DOMAIN table \cup {j} /\ table'[j] = "running"
          /\ \A i \in DOMAIN table : table'[i] = table[i]
      BY <1>1, <2>2 DEF Dispatch
    <2>4. cmd' = [cmd EXCEPT ![j] = "running"]
      BY <1>1, <2>2 DEF Dispatch
    <2>5. cmd'[j] = "running" /\ \A i \in Job \ {j} : cmd'[i] = cmd[i]
      BY <1>0, <2>4 DEF Inv, TypeInv
    <2>6. TypeInv'
      BY <1>0, <2>3, <2>4 DEF Inv, TypeInv, JobStatus, Process
    <2>7. TableInv'
      BY <1>0, <2>2, <2>3, <2>5 DEF Inv, TableInv, TypeInv
    <2>8. ret[j] \notin Conclusive /\ (j = cur => end = "none") /\ j <= cur
      BY <1>0, <2>1 DEF MessageOK, Conclusive, Inv, CallInv, TypeInv, Job
    <2>9. CallInv'
      <3>1. end = "success" => cmd'[cur] = "ok"
        BY <2>5, <2>8 DEF Inv, CallInv, TypeInv
      <3>2. end \in Conclusive => cmd'[cur] # "running"
        BY <2>5, <2>8 DEF Inv, CallInv, TypeInv, Conclusive
      <3>3. \A i \in Job : cmd'[i] # "none" => i <= cur
        BY <2>5, <2>8 DEF Inv, CallInv
      <3> QED
        BY <1>0, <3>1, <3>2, <3>3 DEF Inv, CallInv
    <2>10. PICK a : /\ net' = net \ {m} \/ (Waiting(m) /\ net' = (net \ {m}) \cup {a})
                    /\ a.to = "caller" /\ a.op = m.op /\ a.job = m.job
      BY <2>1, ReplyEffect
    <2>11. NetInv'
      <3> SUFFICES ASSUME NEW n \in net' PROVE MessageOK(n)'
        BY DEF NetInv
      <3>1. CASE n \in net \ {m}
        <4>1. MessageOK(n) /\ n.job \in Job
          BY <3>1 DEF Inv, NetInv, MessageOK
        <4>2. n.op = "post" => n.job # j
          BY <2>1, <3>1 DEF Inv, AloneInv
        <4>3. n.op = "get" => n.job # j
          <5>1. n.op = "get" => pc \in {"getting", "snapshot"} /\ n.job = cur
            BY <4>1 DEF MessageOK
          <5>2. pc \in {"getting", "snapshot"} => j # cur
            BY <1>0, <2>1 DEF MessageOK, Inv, CallInv, TypeInv, Job
          <5> QED
            BY <5>1, <5>2
        <4>4. n.op \in {"post", "get"} => cmd'[n.job] = cmd[n.job]
          BY <2>5, <4>1, <4>2, <4>3
        <4> QED
          BY <1>0, <4>1, <4>4 DEF MessageOK
      <3>2. CASE n = a /\ Waiting(m)
        <4>1. n.to = "caller" /\ n.op = "post" /\ n.job = cur /\ pc = "posting"
          BY <2>1, <2>10, <3>2 DEF Waiting
        <4> QED
          BY <1>0, <2>10, <3>2, <4>1 DEF MessageOK
      <3> QED
        BY <2>10, <3>1, <3>2
    <2>12. AloneInv'
      BY <2>1, ReplyAlone
    <2>13. ReportIsConclusive'
      <3> SUFFICES ASSUME NEW i \in Job
                   PROVE  /\ ret[i] = "success" => cmd'[i] = "ok"
                          /\ ret[i] \in Conclusive =>
                               cmd'[i] # "running" /\ ~\E n \in net' : n.op = "post" /\ n.job = i
        BY <1>0 DEF ReportIsConclusive, Conclusive
      <3>1. CASE i = j
        BY <2>8, <3>1 DEF Conclusive
      <3>2. CASE i # j
        <4>1. \A n \in net' : n.job = i => n \in net
          BY <2>10, <3>2
        <4> QED
          BY <2>5, <3>2, <4>1 DEF Inv, ReportIsConclusive, Conclusive
      <3> QED
        BY <3>1, <3>2
    <2> QED
      BY <2>6, <2>7, <2>9, <2>11, <2>12, <2>13 DEF Inv
  <1>2. ASSUME UNCHANGED cmd, m.op # "post",
               TypeInv', TableInv', NEW status, NEW output, Reply(m, status, output),
               m.op = "get" => /\ status \in JobStatus \cup {"404"}
                               /\ status = "success" => cmd[m.job] = "ok"
                               /\ status # "running" => cmd[m.job] # "running"
        PROVE  Inv'
    <2>1. PICK a : /\ net' = net \ {m} \/ (Waiting(m) /\ net' = (net \ {m}) \cup {a})
                   /\ a.to = "caller" /\ a.op = m.op /\ a.job = m.job /\ a.status = status
      BY <1>2, ReplyEffect
    <2>2. CallInv'
      BY <1>0, <1>2 DEF Inv, CallInv
    <2>3. NetInv'
      <3> SUFFICES ASSUME NEW n \in net' PROVE MessageOK(n)'
        BY DEF NetInv
      <3>1. CASE n \in net
        BY <1>0, <1>2, <3>1 DEF Inv, NetInv, MessageOK
      <3>2. CASE n = a
        <4>1. /\ n.to = "caller" /\ n.op = m.op /\ n.job = m.job /\ n.status = status
          BY <2>1, <3>2
        <4> QED
          BY <1>0, <1>2, <4>1 DEF MessageOK
      <3> QED
        BY <2>1, <3>1, <3>2
    <2>4. AloneInv'
      BY <1>2, ReplyAlone
    <2>5. ReportIsConclusive'
      <3>1. \A n \in net' : n.op = "post" => n \in net
        BY <1>2, <2>1
      <3> QED
        BY <1>0, <1>2, <3>1 DEF Inv, ReportIsConclusive
    <2> QED
      BY <1>2, <2>2, <2>3, <2>4, <2>5 DEF Inv
  <1>3. CASE Get(m)
    <2>1. UNCHANGED <<table, cmd>> /\ m.op = "get"
      BY <1>3 DEF Get, Received, node
    <2>2. TypeInv' /\ TableInv'
      BY <1>0, <2>1 DEF Inv, TypeInv, TableInv
    <2>3. CASE m.job \in DOMAIN table
      <3>1. Reply(m, table[m.job], BufferString(buf[m.job], NodeBytes))
        BY <1>3, <2>3 DEF Get
      <3>2. /\ table[m.job] \in JobStatus
            /\ table[m.job] = "success" => cmd[m.job] = "ok"
            /\ table[m.job] # "running" => cmd[m.job] # "running"
        BY <2>3 DEF Inv, TypeInv, TableInv, JobStatus
      <3> QED
        BY <1>2, <2>1, <2>2, <3>1, <3>2
    <2>4. CASE m.job \notin DOMAIN table
      <3>1. Reply(m, "404", <<>>)
        BY <1>3, <2>4 DEF Get
      <3>2. cmd[m.job] # "running"
        BY <1>0, <2>1, <2>4 DEF Inv, TableInv, MessageOK, TypeInv, Job
      <3> QED
        BY <1>2, <2>1, <2>2, <3>1, <3>2 DEF JobStatus
    <2> QED
      BY <2>3, <2>4
  <1>4. CASE Delete(m)
    <2>1. m.op = "delete" /\ UNCHANGED cmd /\ Reply(m, "204", <<>>)
      BY <1>4 DEF Delete, Received
    <2>2. m.job < cur \/ pc \in {"deleting", "idle"}
      BY <1>0, <2>1 DEF MessageOK
    <2>3. CASE table' = [i \in DOMAIN table \ {m.job} |-> table[i]]
      <3>1. /\ DOMAIN table' = DOMAIN table \ {m.job}
            /\ \A i \in DOMAIN table \ {m.job} : table'[i] = table[i]
        BY <2>3
      <3>2. TypeInv'
        BY <1>0, <2>1, <3>1 DEF Inv, TypeInv
      <3>3. TableInv'
        BY <1>0, <2>1, <2>2, <3>1 DEF Inv, TableInv
      <3> QED
        BY <1>2, <2>1, <3>2, <3>3
    <2>4. CASE UNCHANGED table
      <3>1. TypeInv' /\ TableInv'
        BY <1>0, <2>1, <2>4 DEF Inv, TypeInv, TableInv
      <3> QED
        BY <1>2, <2>1, <3>1
    <2> QED
      BY <1>4, <2>3, <2>4 DEF Delete, RemoveJob
  <1> QED
    BY <1>1, <1>3, <1>4

\* A command ends, in the table or out of it.
LEMMA EndsInvariant ==
    ASSUME Inv, NEW j \in Job, NEW process, NEW status,
           \/ process = "ok" /\ status = "success"
           \/ process = "failed" /\ status = "failed",
           Ends(j, process, status)
    PROVE  Inv'
  <1>0. UNCHANGED <<cur, pc, end, ret, net>> /\ cmd[j] = "running"
    BY DEF Ends, caller
  <1>1. cmd'[j] = process /\ \A i \in Job \ {j} : cmd'[i] = cmd[i]
    BY DEF Ends, Inv, TypeInv
  <1>2. /\ DOMAIN table' = DOMAIN table
        /\ \A i \in DOMAIN table : table'[i] = IF i = j THEN status ELSE table[i]
    BY DEF Ends
  <1>3. TypeInv'
    <2>1. cmd' \in [Job -> Process]
      BY DEF Ends, Inv, TypeInv, Process
    <2> QED
      BY <1>0, <1>2, <2>1 DEF Inv, TypeInv, JobStatus
  <1>4. TableInv'
    BY <1>0, <1>1, <1>2 DEF Inv, TableInv, TypeInv
  <1>5. CallInv'
    BY <1>0, <1>1 DEF Inv, CallInv, TypeInv, Job, Conclusive
  <1>6. NetInv'
    <2> SUFFICES ASSUME NEW m \in net PROVE MessageOK(m)'
      BY <1>0 DEF NetInv
    <2>1. MessageOK(m) /\ m.job \in Job
      BY DEF Inv, NetInv, MessageOK
    <2> QED
      BY <1>0, <1>1, <2>1 DEF MessageOK
  <1>7. AloneInv'
    BY <1>0 DEF Inv, AloneInv
  <1>8. ReportIsConclusive'
    BY <1>0, <1>1 DEF Inv, ReportIsConclusive
  <1> QED
    BY <1>3, <1>4, <1>5, <1>6, <1>7, <1>8 DEF Inv

\* Entries of finished jobs leave the table, or the node restarts.
LEMMA SweepInvariant ==
    ASSUME Inv, NEW j \in Job, Sweep(j)
    PROVE  Inv'
  <1>0. /\ UNCHANGED <<cur, pc, end, ret, net, cmd>>
        /\ j \in DOMAIN table /\ table[j] # "running"
        /\ table' = [i \in DOMAIN table \ {j} |-> table[i]]
    BY DEF Sweep, RemoveJob, caller
  <1>1. TypeInv'
    BY <1>0 DEF Inv, TypeInv
  <1>2. TableInv'
    <2>1. cmd[j] # "running"
      BY <1>0 DEF Inv, TableInv, TypeInv, JobStatus
    <2> QED
      BY <1>0, <2>1 DEF Inv, TableInv
  <1>3. CallInv' /\ AloneInv' /\ ReportIsConclusive'
    BY <1>0 DEF Inv, CallInv, AloneInv, ReportIsConclusive
  <1>4. NetInv'
    BY <1>0 DEF Inv, NetInv, MessageOK
  <1> QED
    BY <1>1, <1>2, <1>3, <1>4 DEF Inv

LEMMA RestartInvariant ==
    ASSUME Inv, NodeRestart
    PROVE  Inv'
  <1>0. /\ UNCHANGED <<cur, pc, end, ret>>
        /\ net' = {m \in net : m.to = "node"}
        /\ DOMAIN table' = {}
        /\ \A j \in Job : cmd'[j] = IF cmd[j] = "running" THEN "failed" ELSE cmd[j]
    BY DEF NodeRestart, caller
  <1>1. TypeInv'
    <2>1. cmd' \in [Job -> Process]
      BY DEF NodeRestart, Inv, TypeInv, Process
    <2> QED
      BY <1>0, <2>1 DEF Inv, TypeInv
  <1>2. TableInv'
    BY <1>0 DEF TableInv
  <1>3. CallInv'
    BY <1>0 DEF Inv, CallInv, TypeInv, Conclusive, Job
  <1>4. NetInv'
    <2> SUFFICES ASSUME NEW m \in net, m.to = "node" PROVE MessageOK(m)'
      BY <1>0 DEF NetInv
    <2>1. MessageOK(m) /\ m.job \in Job
      BY DEF Inv, NetInv, MessageOK
    <2> QED
      BY <1>0, <2>1 DEF MessageOK
  <1>5. AloneInv' /\ ReportIsConclusive'
    BY <1>0 DEF Inv, AloneInv, ReportIsConclusive
  <1> QED
    BY <1>1, <1>2, <1>3, <1>4, <1>5 DEF Inv

LEMMA Inductive == Inv /\ [Next]_vars => Inv'
  <1> SUFFICES ASSUME Inv, [Next]_vars PROVE Inv'
    OBVIOUS
  <1>1. ASSUME UNCHANGED <<cur, pc, end, ret, net, table, cmd>> PROVE Inv'
    <2>1. TypeInv' /\ TableInv' /\ CallInv' /\ AloneInv' /\ ReportIsConclusive'
      BY <1>1 DEF Inv, TypeInv, TableInv, CallInv, AloneInv, ReportIsConclusive
    <2>2. NetInv'
      BY <1>1 DEF Inv, NetInv, MessageOK
    <2> QED
      BY <2>1, <2>2 DEF Inv
  <1>2. CASE Expire
    BY <1>1, <1>2 DEF Expire, node
  <1>3. ASSUME NEW j \in Job, CommandWrites(j) PROVE Inv'
    BY <1>1, <1>3 DEF CommandWrites, caller
  <1>4. CASE UNCHANGED vars
    BY <1>1, <1>4 DEF vars, caller, node
  <1>5. CASE NodeServes
    BY <1>5, ServeInvariant DEF NodeServes
  <1>6. ASSUME NEW j \in Job, CommandExits(j) \/ CommandKilled(j) \/ JobDeadline(j) PROVE Inv'
    <2>1. CASE Ends(j, "ok", "success")
      BY <2>1, EndsInvariant
    <2>2. CASE Ends(j, "failed", "failed")
      BY <2>2, EndsInvariant
    <2> QED
      BY <1>6, <2>1, <2>2 DEF CommandExits, CommandKilled, JobDeadline
  <1> QED
    BY <1>2, <1>3, <1>4, <1>5, <1>6, CallInvariant, CallerInvariant, SweepInvariant,
       RestartInvariant DEF Next, Reclaim

\* A step reported as success ran to a zero exit, and after success, failure or a
\* lost job no command of the step runs or is about to: for any number of steps,
\* lost and late messages and node restarts.
THEOREM ReportsAreConclusive == Spec => []ReportIsConclusive
  <1>1. Inv => ReportIsConclusive
    BY DEF Inv
  <1> QED
    BY <1>1, InitInv, Inductive, PTL DEF Spec
-----------------------------------------------------------------------------
(***************************************************************************)
(* The node's bounded output.                                               *)
(***************************************************************************)
Held(w, max) == IF w < max THEN w ELSE max

\* What BufferIsTail says of one buffer.
TailOK(b, w) ==
    /\ w \in Nat
    /\ b.data = LastOf(w, Held(w, NodeBytes))
    /\ b.truncated \in BOOLEAN
    /\ b.truncated <=> w > NodeBytes

BufferInv == \A j \in Job : TailOK(buf[j], wrote[j])

\* The last bytes of what was written, as a sequence.
LEMMA LastOfSeq ==
    ASSUME NEW w \in Nat, NEW n \in Nat
    PROVE  /\ LastOf(w, n) \in Seq(Int) /\ Len(LastOf(w, n)) = n
           /\ \A i \in 1..n : LastOf(w, n)[i] = w - n + i
  BY DEF LastOf

LEMMA LastOfUnique ==
    ASSUME NEW w \in Nat, NEW n \in Nat, NEW s \in Seq(Int), Len(s) = n,
           \A i \in 1..n : s[i] = w - n + i
    PROVE  s = LastOf(w, n)
  <1> DEFINE t == LastOf(w, n)
  <1>1. t \in Seq(Int) /\ Len(t) = n /\ \A i \in 1..n : t[i] = w - n + i
    BY LastOfSeq
  <1> HIDE DEF t
  <1>2. Len(s) = Len(t) /\ \A i \in 1..Len(s) : s[i] = t[i]
    BY <1>1
  <1>3. s = t
    BY <1>1, <1>2, SeqEqual
  <1> QED
    BY <1>3 DEF t

\* A write that fills the buffer keeps the end of the write alone.
LEMMA WriteFills ==
    ASSUME NEW b, NEW w, TailOK(b, w), NEW n \in Nat \ {0}, n >= NodeBytes
    PROVE  TailOK(BufferWrite(b, [i \in 1..n |-> w + i], NodeBytes), w + n)
  <1> DEFINE p == [i \in 1..n |-> w + i]
             c == BufferWrite(b, p, NodeBytes)
             q == SubSeq(p, n - NodeBytes + 1, n)
             h == Held(w, NodeBytes)
  <1>0. w \in Nat /\ w + n \in Nat /\ NodeBytes \in Nat \ {0} /\ NodeBytes \in Nat
    BY JobsAssumption DEF TailOK
  <1>1. p \in Seq(Int) /\ Len(p) = n /\ \A i \in 1..n : p[i] = w + i
    BY <1>0
  <1>2. c.data = q
    BY <1>0, <1>1 DEF BufferWrite, LastBytes
  <1>3. c.truncated = (b.truncated \/ Len(b.data) > 0 \/ n > NodeBytes)
    BY <1>0, <1>1 DEF BufferWrite
  <1>4. Held(w + n, NodeBytes) = NodeBytes
    BY <1>0 DEF Held
  <1>5. b.data = LastOf(w, h) /\ h \in Nat /\ (h > 0 <=> w > 0)
    BY <1>0 DEF TailOK, Held
  <1>6. /\ q \in Seq(Int) /\ Len(q) = NodeBytes
        /\ \A i \in 1..NodeBytes : q[i] = (w + n) - NodeBytes + i
    <2>1. \A i \in (n - NodeBytes + 1)..n : p[i] \in Int
      BY <1>0, <1>1
    <2>2. /\ n - NodeBytes + 1 \in Int /\ n \in Int
          /\ n - (n - NodeBytes + 1) + 1 = NodeBytes
          /\ (IF n - NodeBytes + 1 <= n THEN n - (n - NodeBytes + 1) + 1 ELSE 0) = NodeBytes
      BY <1>0
    <2> HIDE DEF p
    <2>3. /\ q \in Seq(Int) /\ Len(q) = NodeBytes
          /\ \A i \in 1..NodeBytes : q[i] = p[(n - NodeBytes + 1) + i - 1]
      BY <2>1, <2>2, SubSeqProperties
    <2> HIDE DEF q
    <2> QED
      BY <1>0, <1>1, <2>3
  <1> HIDE DEF p, c, q, h
  <1>7. c.data = LastOf(w + n, NodeBytes)
    BY <1>0, <1>2, <1>6, LastOfUnique
  <1>8. Len(b.data) > 0 <=> w > 0
    BY <1>0, <1>5, LastOfSeq
  <1>9. (b.truncated \/ Len(b.data) > 0 \/ n > NodeBytes) <=> w + n > NodeBytes
    <2>1. b.truncated <=> w > NodeBytes
      BY DEF TailOK
    <2> QED
      BY <1>0, <1>8, <2>1
  <1>10. c.truncated \in BOOLEAN /\ (c.truncated <=> w + n > NodeBytes)
    BY <1>3, <1>9, Zenon
  <1> QED
    BY <1>0, <1>4, <1>7, <1>10 DEF TailOK, c, p

\* A shorter write pushes out as many bytes as no longer fit.
LEMMA WriteAppends ==
    ASSUME NEW b, NEW w, TailOK(b, w), NEW n \in Nat \ {0}, n < NodeBytes
    PROVE  TailOK(BufferWrite(b, [i \in 1..n |-> w + i], NodeBytes), w + n)
  <1> DEFINE p == [i \in 1..n |-> w + i]
             c == BufferWrite(b, p, NodeBytes)
             h == Held(w, NodeBytes)
             over == h + n - NodeBytes
             kept == IF over > 0 THEN SubSeq(b.data, over + 1, h) ELSE b.data
             k == Held(w + n, NodeBytes)
             l == k - n
  <1>0. /\ w \in Nat /\ w + n \in Nat /\ NodeBytes \in Nat \ {0}
        /\ h \in Nat /\ h <= w /\ h <= NodeBytes /\ over \in Int
    BY JobsAssumption DEF TailOK, Held
  <1>1. p \in Seq(Int) /\ Len(p) = n /\ \A i \in 1..n : p[i] = w + i
    BY <1>0
  <1>2. b.data \in Seq(Int) /\ Len(b.data) = h /\ \A i \in 1..h : b.data[i] = w - h + i
    <2>1. b.data = LastOf(w, h)
      BY DEF TailOK
    <2> HIDE DEF h
    <2>2. w \in Nat /\ h \in Nat /\ h <= w
      BY <1>0
    <2> HIDE <1>0
    <2>3. LastOf(w, h) \in Seq(Int) /\ Len(LastOf(w, h)) = h
          /\ \A i \in 1..h : LastOf(w, h)[i] = w - h + i
      BY <2>2, LastOfSeq
    <2> QED
      BY <2>1, <2>3, Zenon
  <1>3. c.data = kept \o p /\ c.truncated = (b.truncated \/ over > 0)
    <2>1. ~(Len(p) >= NodeBytes) /\ Len(b.data) + Len(p) - NodeBytes = over
      BY <1>0, <1>1, <1>2
    <2> HIDE DEF p, h, over
    <2> QED
      BY <1>2, <2>1 DEF BufferWrite
  <1>4. /\ k \in Nat /\ l \in Nat /\ l <= h /\ k = l + n
        /\ over > 0 => l = h - over
        /\ ~(over > 0) => l = h
    BY <1>0 DEF Held
  <1>5. kept \in Seq(Int) /\ Len(kept) = l /\ \A i \in 1..l : kept[i] = w - l + i
    <2>1. CASE over > 0
      <3> DEFINE q == SubSeq(b.data, over + 1, h)
      <3> HIDE DEF h, over, l, k
      <3>1. /\ over + 1 \in Int /\ h \in Int /\ l = h - over
            /\ (IF over + 1 <= h THEN h - (over + 1) + 1 ELSE 0) = l
            /\ h - (over + 1) + 1 = l
        BY <1>0, <1>4, <2>1
      <3>2. \A i \in (over + 1)..h : b.data[i] \in Int
        BY <1>0, <1>2, <2>1
      <3>3. /\ q \in Seq(Int) /\ Len(q) = l
            /\ \A i \in 1..l : q[i] = b.data[(over + 1) + i - 1]
        BY <3>1, <3>2, SubSeqProperties
      <3>4. \A i \in 1..l : b.data[(over + 1) + i - 1] = w - l + i
        BY <1>0, <1>2, <1>4, <2>1, <3>1
      <3>5. kept = q
        BY <2>1
      <3> HIDE DEF q, kept
      <3> QED
        BY <3>3, <3>4, <3>5
    <2>2. CASE ~(over > 0)
      <3>1. kept = b.data /\ l = h
        BY <1>4, <2>2
      <3> HIDE DEF h, l, kept
      <3> QED
        BY <1>2, <3>1
    <2> QED
      BY <2>1, <2>2
  <1>6. (b.truncated \/ over > 0) <=> w + n > NodeBytes
    <2>1. b.truncated <=> w > NodeBytes
      BY DEF TailOK
    <2> QED
      BY <1>0, <2>1 DEF Held
  <1>7. c.truncated \in BOOLEAN /\ (c.truncated <=> w + n > NodeBytes)
    BY <1>3, <1>6, Zenon
  <1> HIDE DEF p, c, h, over, kept, k, l
  <1>8. /\ kept \o p \in Seq(Int) /\ Len(kept \o p) = k
        /\ \A i \in 1..k : (kept \o p)[i] = (w + n) - k + i
    <2>1. /\ kept \o p \in Seq(Int) /\ Len(kept \o p) = l + n
          /\ \A i \in 1..(l + n) : (kept \o p)[i] = IF i <= l THEN kept[i] ELSE p[i - l]
      <3>1. kept \in Seq(Int) /\ p \in Seq(Int)
        BY <1>1, <1>5
      <3>2. /\ kept \o p \in Seq(Int) /\ Len(kept \o p) = Len(kept) + Len(p)
            /\ \A i \in 1..(Len(kept) + Len(p)) :
                  (kept \o p)[i] = IF i <= Len(kept) THEN kept[i] ELSE p[i - Len(kept)]
        BY <3>1, ConcatProperties, Zenon
      <3> QED
        BY <1>1, <1>5, <3>2, Zenon
    <2>2. \A i \in 1..(l + n) : i <= l => (kept \o p)[i] = (w + n) - (l + n) + i
      BY <1>0, <1>4, <1>5, <2>1
    <2>3. \A i \in 1..(l + n) : ~(i <= l) => (kept \o p)[i] = (w + n) - (l + n) + i
      <3> SUFFICES ASSUME NEW i \in 1..(l + n), ~(i <= l)
                   PROVE  (kept \o p)[i] = (w + n) - (l + n) + i
        OBVIOUS
      <3>1. i - l \in 1..n
        BY <1>4
      <3>2. (kept \o p)[i] = w + (i - l)
        BY <1>1, <2>1, <3>1
      <3> QED
        BY <1>0, <1>4, <3>2
    <2> QED
      BY <1>4, <2>1, <2>2, <2>3
  <1>9. c.data = LastOf(w + n, k)
    BY <1>0, <1>3, <1>4, <1>8, LastOfUnique
  <1> QED
    BY <1>0, <1>7, <1>9 DEF TailOK, c, p, k

LEMMA BufferInit == Init => BufferInv
  <1> SUFFICES ASSUME Init, NEW j \in Job PROVE TailOK(buf[j], wrote[j])
    BY DEF BufferInv
  <1>1. buf[j].data = <<>> /\ buf[j].truncated = FALSE /\ wrote[j] = 0
    BY DEF Init, EmptyBuffer
  <1>2. Held(0, NodeBytes) = 0 /\ ~(0 > NodeBytes)
    BY JobsAssumption DEF Held
  <1>3. buf[j].data = LastOf(0, 0)
    <2>1. /\ buf[j].data \in Seq(Int) /\ Len(buf[j].data) = 0
          /\ \A i \in 1..0 : buf[j].data[i] = 0 - 0 + i
      BY <1>1
    <2> QED
      BY <2>1, LastOfUnique
  <1>4. wrote[j] \in Nat /\ buf[j].data = LastOf(wrote[j], Held(wrote[j], NodeBytes))
    BY <1>1, <1>2, <1>3
  <1>5. buf[j].truncated \in BOOLEAN /\ (buf[j].truncated <=> wrote[j] > NodeBytes)
    BY <1>1, <1>2
  <1> QED
    BY <1>4, <1>5 DEF TailOK

\* buf and wrote are functions, and only a command's write changes them.
LEMMA BufferInductive ==
    ASSUME BufferInv, buf = [j \in Job |-> buf[j]], wrote = [j \in Job |-> wrote[j]], [Next]_vars
    PROVE  BufferInv' /\ buf' = [j \in Job |-> buf'[j]] /\ wrote' = [j \in Job |-> wrote'[j]]
  <1>1. ASSUME UNCHANGED <<buf, wrote>>
        PROVE  BufferInv' /\ buf' = [j \in Job |-> buf'[j]] /\ wrote' = [j \in Job |-> wrote'[j]]
    BY <1>1 DEF BufferInv, TailOK
  <1>2. ASSUME NEW j \in Job, CommandWrites(j)
        PROVE  BufferInv' /\ buf' = [i \in Job |-> buf'[i]] /\ wrote' = [i \in Job |-> wrote'[i]]
    <2>1. PICK n \in Sizes :
            /\ wrote' = [wrote EXCEPT ![j] = @ + n]
            /\ buf' = [buf EXCEPT ![j] = BufferWrite(@, [i \in 1..n |-> wrote[j] + i], NodeBytes)]
      BY <1>2 DEF CommandWrites
    <2>2. n \in Nat \ {0} /\ NodeBytes \in Nat
      BY JobsAssumption
    <2>3. /\ wrote'[j] = wrote[j] + n
          /\ buf'[j] = BufferWrite(buf[j], [i \in 1..n |-> wrote[j] + i], NodeBytes)
          /\ \A i \in Job \ {j} : wrote'[i] = wrote[i] /\ buf'[i] = buf[i]
          /\ buf' = [i \in Job |-> buf'[i]] /\ wrote' = [i \in Job |-> wrote'[i]]
      BY <2>1
    <2>4. TailOK(buf[j], wrote[j])
      BY DEF BufferInv
    <2>5. TailOK(BufferWrite(buf[j], [i \in 1..n |-> wrote[j] + i], NodeBytes), wrote[j] + n)
      BY <2>2, <2>4, WriteFills, WriteAppends
    <2>6. BufferInv'
      BY <2>3, <2>5 DEF BufferInv
    <2> QED
      BY <2>3, <2>6
  <1>3. ASSUME Next, ~\E j \in Job : CommandWrites(j) PROVE UNCHANGED <<buf, wrote>>
    BY <1>3 DEF Next, Call, Expire, CallerStep, PostFails, Poll, PollFails, Interrupted, Snapshot,
       Return, Posted, Polled, NodeServes, Dispatch, Get, Delete, CommandExits, CommandKilled,
       Reclaim, JobDeadline, Sweep, Ends, NodeRestart, node
  <1> QED
    BY <1>1, <1>2, <1>3 DEF vars, node

\* The node's buffer holds the last bytes of what the command wrote, and says so
\* when bytes are missing, for every limit and every sequence of write sizes.
THEOREM BuffersAreTails == Spec => []BufferIsTail
  <1> DEFINE AreFunctions == buf = [j \in Job |-> buf[j]] /\ wrote = [j \in Job |-> wrote[j]]
  <1>1. Init => BufferInv /\ AreFunctions
    BY BufferInit DEF Init
  <1>2. BufferInv /\ AreFunctions /\ [Next]_vars => BufferInv' /\ AreFunctions'
    BY BufferInductive
  <1>3. BufferInv => BufferIsTail
    BY DEF BufferInv, BufferIsTail, TailOK, Held
  <1> HIDE DEF AreFunctions
  <1> QED
    BY <1>1, <1>2, <1>3, PTL DEF Spec
-----------------------------------------------------------------------------
(***************************************************************************)
(* The stored output. Whatever is cut and put together on the way to the    *)
(* row consists of a bytes of the marker, the n bytes of the command that   *)
(* end with its w-th, and e bytes of an error message.                      *)
(***************************************************************************)
Shape(s, a, w, n, e) ==
    /\ a \in Nat /\ w \in Nat /\ n \in 0..w /\ e \in Nat
    /\ s \in Seq(Int) /\ Len(s) = a + n + e
    /\ \A i \in 1..a : s[i] = 0
    /\ \A i \in (a + 1)..(a + n) : s[i] = w - n + (i - a)
    /\ \A i \in (a + n + 1)..(a + n + e) : s[i] = -1

\* What is left of x bytes when the first d are dropped.
Cut(x, d) == IF d <= 0 THEN x ELSE IF d < x THEN x - d ELSE 0

\* The marker at a limit, if it fits.
MarkerAt(max) == IF MarkerBytes >= max THEN 0 ELSE MarkerBytes

LEMMA Suffix ==
    ASSUME NEW s \in Seq(Int), NEW l \in Nat, Len(s) = l, NEW d \in 0..l
    PROVE  /\ SubSeq(s, d + 1, Len(s)) \in Seq(Int)
           /\ Len(SubSeq(s, d + 1, Len(s))) = l - d
           /\ \A i \in 1..(l - d) : SubSeq(s, d + 1, Len(s))[i] = s[d + i]
  <1> DEFINE q == SubSeq(s, d + 1, l)
  <1>1. /\ d + 1 \in Int /\ l \in Int
        /\ (IF d + 1 <= l THEN l - (d + 1) + 1 ELSE 0) = l - d
        /\ l - (d + 1) + 1 = l - d
    OBVIOUS
  <1>2. \A i \in (d + 1)..l : s[i] \in Int
    OBVIOUS
  <1>3. q \in Seq(Int) /\ Len(q) = l - d /\ \A i \in 1..(l - d) : q[i] = s[(d + 1) + i - 1]
    BY <1>1, <1>2, SubSeqProperties
  <1> HIDE DEF q
  <1>4. \A i \in 1..(l - d) : q[i] = s[d + i]
    <2> TAKE i \in 1..(l - d)
    <2>1. (d + 1) + i - 1 = d + i
      OBVIOUS
    <2> QED
      BY <1>3, <2>1, Zenon
  <1> QED
    BY <1>3, <1>4 DEF q

\* Dropping from the front drops the marker first, the error message last.
LEMMA DropShape ==
    ASSUME NEW s, NEW a, NEW w, NEW n, NEW e, Shape(s, a, w, n, e), NEW d \in 0..(a + n + e)
    PROVE  Shape(SubSeq(s, d + 1, Len(s)), Cut(a, d), w, Cut(n, d - a), Cut(e, d - a - n))
  <1> DEFINE t == SubSeq(s, d + 1, Len(s))
             l == a + n + e
  <1>0. a \in Nat /\ w \in Nat /\ n \in Nat /\ n <= w /\ e \in Nat /\ l \in Nat
    BY DEF Shape
  <1>1. s \in Seq(Int) /\ Len(s) = l /\ d \in 0..l
    BY DEF Shape
  <1> HIDE DEF l
  <1>2. t \in Seq(Int) /\ Len(t) = l - d /\ \A i \in 1..(l - d) : t[i] = s[d + i]
    BY <1>0, <1>1, Suffix
  <1> HIDE DEF t
  <1>3. CASE d <= a
    <2>1. Cut(a, d) = a - d /\ Cut(n, d - a) = n /\ Cut(e, d - a - n) = e
      BY <1>0, <1>3 DEF Cut
    <2>2. Shape(t, a - d, w, n, e)
      <3>1. \A i \in 1..(a - d) : t[i] = 0
        BY <1>0, <1>2, <1>3 DEF Shape, l
      <3>2. \A i \in (a - d + 1)..(a - d + n) : t[i] = w - n + (i - (a - d))
        BY <1>0, <1>2, <1>3 DEF Shape, l
      <3>3. \A i \in (a - d + n + 1)..(a - d + n + e) : t[i] = -1
        BY <1>0, <1>2, <1>3 DEF Shape, l
      <3> QED
        BY <1>0, <1>2, <1>3, <3>1, <3>2, <3>3 DEF Shape, l
    <2> QED
      BY <2>1, <2>2 DEF t
  <1>4. CASE d > a /\ d <= a + n
    <2>1. Cut(a, d) = 0 /\ Cut(n, d - a) = n - (d - a) /\ Cut(e, d - a - n) = e
      BY <1>0, <1>4 DEF Cut
    <2>2. Shape(t, 0, w, n - (d - a), e)
      <3>1. \A i \in 1..(n - (d - a)) : t[i] = w - (n - (d - a)) + (i - 0)
        BY <1>0, <1>2, <1>4 DEF Shape, l
      <3>2. \A i \in (n - (d - a) + 1)..(n - (d - a) + e) : t[i] = -1
        BY <1>0, <1>2, <1>4 DEF Shape, l
      <3> QED
        BY <1>0, <1>2, <1>4, <3>1, <3>2 DEF Shape, l
    <2> QED
      BY <2>1, <2>2 DEF t
  <1>5. CASE d > a + n
    <2>1. Cut(a, d) = 0 /\ Cut(n, d - a) = 0 /\ Cut(e, d - a - n) = e - (d - a - n)
      BY <1>0, <1>1, <1>5 DEF Cut, l
    <2>2. Shape(t, 0, w, 0, e - (d - a - n))
      <3>1. \A i \in 1..(e - (d - a - n)) : t[i] = -1
        BY <1>0, <1>2, <1>5 DEF Shape, l
      <3> QED
        BY <1>0, <1>1, <1>2, <1>5, <3>1 DEF Shape, l
    <2> QED
      BY <2>1, <2>2 DEF t
  <1> QED
    BY <1>0, <1>1, <1>3, <1>4, <1>5

LEMMA Joined ==
    ASSUME NEW s \in Seq(Int), NEW t \in Seq(Int)
    PROVE  /\ s \o t \in Seq(Int) /\ Len(s \o t) = Len(s) + Len(t)
           /\ \A i \in 1..Len(s) : (s \o t)[i] = s[i]
           /\ \A i \in (Len(s) + 1)..(Len(s) + Len(t)) : (s \o t)[i] = t[i - Len(s)]
  <1>1. /\ s \o t \in Seq(Int) /\ Len(s \o t) = Len(s) + Len(t)
        /\ \A i \in 1..(Len(s) + Len(t)) :
              (s \o t)[i] = IF i <= Len(s) THEN s[i] ELSE t[i - Len(s)]
    BY ConcatProperties, Zenon
  <1>2. Len(s) \in Nat /\ Len(t) \in Nat
    OBVIOUS
  <1>3. \A i \in 1..Len(s) : i \in 1..(Len(s) + Len(t)) /\ i <= Len(s)
    BY <1>2
  <1>4. \A i \in (Len(s) + 1)..(Len(s) + Len(t)) : i \in 1..(Len(s) + Len(t)) /\ ~(i <= Len(s))
    BY <1>2
  <1> QED
    BY <1>1, <1>3, <1>4, Zenon

LEMMA MarkerSeq ==
    /\ MarkerBytes \in Nat \ {0} /\ Marker \in Seq(Int) /\ Len(Marker) = MarkerBytes
    /\ \A i \in 1..MarkerBytes : Marker[i] = 0
  BY JobsAssumption DEF Marker

LEMMA ErrorSeq ==
    /\ ErrorBytes \in Nat \ {0} /\ ErrorMsg \in Seq(Int) /\ Len(ErrorMsg) = ErrorBytes
    /\ \A i \in 1..ErrorBytes : ErrorMsg[i] = -1
  BY JobsAssumption DEF ErrorMsg

LEMMA ErrorShape == Shape(ErrorMsg, 0, 0, 0, ErrorBytes)
  BY ErrorSeq DEF Shape

LEMMA EmptyShape == Shape(<<>>, 0, 0, 0, 0)
  BY DEF Shape

LEMMA MarkedShape ==
    ASSUME NEW s, NEW a, NEW w, NEW n, NEW e, Shape(s, a, w, n, e)
    PROVE  Shape(Marker \o s, MarkerBytes + a, w, n, e)
  <1> DEFINE t == Marker \o s
             l == a + n + e
  <1>0. /\ a \in Nat /\ w \in Nat /\ n \in Nat /\ n <= w /\ e \in Nat /\ l \in Nat
        /\ MarkerBytes \in Nat
    BY MarkerSeq DEF Shape
  <1>1. s \in Seq(Int) /\ Len(s) = l
    BY DEF Shape
  <1> HIDE DEF l
  <1>2. /\ t \in Seq(Int) /\ Len(t) = MarkerBytes + l
        /\ \A i \in 1..MarkerBytes : t[i] = Marker[i]
        /\ \A i \in (MarkerBytes + 1)..(MarkerBytes + l) : t[i] = s[i - MarkerBytes]
    <2>1. Marker \in Seq(Int) /\ Len(Marker) = MarkerBytes
      BY MarkerSeq
    <2>2. /\ t \in Seq(Int) /\ Len(t) = Len(Marker) + Len(s)
          /\ \A i \in 1..Len(Marker) : t[i] = Marker[i]
          /\ \A i \in (Len(Marker) + 1)..(Len(Marker) + Len(s)) : t[i] = s[i - Len(Marker)]
      BY <1>1, <2>1, Joined, Zenon
    <2> QED
      BY <1>1, <2>1, <2>2, Zenon
  <1> HIDE DEF t
  <1>3. \A i \in 1..(MarkerBytes + a) : t[i] = 0
    BY <1>0, <1>2, MarkerSeq, SMTT(40) DEF Shape, l
  <1>4. \A i \in (MarkerBytes + a + 1)..(MarkerBytes + a + n) : t[i] = w - n + (i - (MarkerBytes + a))
    BY <1>0, <1>2 DEF Shape, l
  <1>5. \A i \in (MarkerBytes + a + n + 1)..(MarkerBytes + a + n + e) : t[i] = -1
    BY <1>0, <1>2 DEF Shape, l
  <1> QED
    BY <1>0, <1>2, <1>3, <1>4, <1>5, SMTT(40) DEF Shape, l, t

LEMMA FailedShape ==
    ASSUME NEW s, NEW a, NEW w, NEW n, Shape(s, a, w, n, 0)
    PROVE  Shape(s \o ErrorMsg, a, w, n, ErrorBytes)
  <1> DEFINE t == s \o ErrorMsg
             l == a + n
  <1>0. /\ a \in Nat /\ w \in Nat /\ n \in Nat /\ n <= w /\ l \in Nat
        /\ ErrorBytes \in Nat
    BY ErrorSeq DEF Shape
  <1>1. s \in Seq(Int) /\ Len(s) = l
    BY DEF Shape
  <1> HIDE DEF l
  <1>2. /\ t \in Seq(Int) /\ Len(t) = l + ErrorBytes
        /\ \A i \in 1..l : t[i] = s[i]
        /\ \A i \in (l + 1)..(l + ErrorBytes) : t[i] = ErrorMsg[i - l]
    <2>1. ErrorMsg \in Seq(Int) /\ Len(ErrorMsg) = ErrorBytes
      BY ErrorSeq
    <2>2. /\ t \in Seq(Int) /\ Len(t) = Len(s) + Len(ErrorMsg)
          /\ \A i \in 1..Len(s) : t[i] = s[i]
          /\ \A i \in (Len(s) + 1)..(Len(s) + Len(ErrorMsg)) : t[i] = ErrorMsg[i - Len(s)]
      BY <1>1, <2>1, Joined, Zenon
    <2> QED
      BY <1>1, <2>1, <2>2, Zenon
  <1> HIDE DEF t
  <1>3. \A i \in 1..a : t[i] = 0
    BY <1>0, <1>2 DEF Shape, l
  <1>4. \A i \in (a + 1)..(a + n) : t[i] = w - n + (i - a)
    BY <1>0, <1>2 DEF Shape, l
  <1>5. \A i \in (a + n + 1)..(a + n + ErrorBytes) : t[i] = -1
    BY <1>0, <1>2, ErrorSeq DEF l
  <1> QED
    BY <1>0, <1>2, <1>3, <1>4, <1>5 DEF Shape, l, t

\* The marker is recognised exactly when it is there.
LEMMA MarkerFound ==
    ASSUME NEW s, NEW a, NEW w, NEW n, NEW e, Shape(s, a, w, n, e)
    PROVE  IsPrefix(Marker, s) <=> MarkerBytes <= a
  <1> DEFINE l == a + n + e
             p == SubSeq(Marker, 1, MarkerBytes)
             q == SubSeq(s, 1, MarkerBytes)
  <1>0. /\ a \in Nat /\ w \in Nat /\ n \in Nat /\ n <= w /\ e \in Nat /\ l \in Nat
        /\ MarkerBytes \in Nat \ {0} /\ 1 \in Int /\ MarkerBytes \in Int
    BY MarkerSeq DEF Shape
  <1>1. s \in Seq(Int) /\ Len(s) = l
    BY DEF Shape
  <1>2. IsPrefix(Marker, s) <=> MarkerBytes <= l /\ p = q
    BY <1>1, MarkerSeq DEF IsPrefix
  <1>3. p \in Seq(Int) /\ Len(p) = MarkerBytes /\ \A i \in 1..MarkerBytes : p[i] = 0
    <2>1. \A i \in 1..MarkerBytes : Marker[i] \in Int
      BY MarkerSeq
    <2>2. p \in Seq(Int) /\ Len(p) = (IF 1 <= MarkerBytes THEN MarkerBytes - 1 + 1 ELSE 0)
          /\ \A i \in 1..(MarkerBytes - 1 + 1) : p[i] = Marker[1 + i - 1]
      BY <1>0, <2>1, SubSeqProperties
    <2> HIDE DEF p
    <2> QED
      BY <1>0, <2>2, MarkerSeq
  <1>4. ASSUME MarkerBytes <= l
        PROVE  q \in Seq(Int) /\ Len(q) = MarkerBytes /\ \A i \in 1..MarkerBytes : q[i] = s[i]
    <2>1. \A i \in 1..MarkerBytes : s[i] \in Int
      BY <1>0, <1>1, <1>4
    <2>2. q \in Seq(Int) /\ Len(q) = (IF 1 <= MarkerBytes THEN MarkerBytes - 1 + 1 ELSE 0)
          /\ \A i \in 1..(MarkerBytes - 1 + 1) : q[i] = s[1 + i - 1]
      BY <1>0, <2>1, SubSeqProperties
    <2> HIDE DEF q
    <2> QED
      BY <1>0, <2>2
  <1> HIDE DEF p, q
  <1>5. ASSUME MarkerBytes <= a PROVE MarkerBytes <= l /\ p = q
    <2>1. MarkerBytes <= l /\ \A i \in 1..MarkerBytes : s[i] = 0
      BY <1>0, <1>5 DEF Shape
    <2>2. q \in Seq(Int) /\ Len(q) = MarkerBytes /\ \A i \in 1..MarkerBytes : q[i] = p[i]
      BY <1>3, <1>4, <2>1
    <2> QED
      BY <1>3, <2>1, <2>2, SeqEqual
  <1>6. ASSUME ~(MarkerBytes <= a), MarkerBytes <= l, p = q PROVE FALSE
    <2>1. a + 1 \in 1..MarkerBytes /\ a + 1 \in 1..l
      BY <1>0, <1>6
    <2>2. s[a + 1] = 0
      BY <1>3, <1>4, <1>6, <2>1
    <2>3. s[a + 1] # 0
      <3>1. CASE n > 0
        BY <1>0, <3>1 DEF Shape
      <3>2. CASE ~(n > 0)
        BY <1>0, <2>1, <3>2 DEF Shape
      <3> QED
        BY <3>1, <3>2
    <2> QED
      BY <2>2, <2>3
  <1> QED
    BY <1>2, <1>5, <1>6

\* tail leaves a text alone that was not cut and fits.
LEMMA TailWhole ==
    ASSUME NEW s, NEW max, Len(s) <= max
    PROVE  TailOf(s, max, FALSE) = s
  BY DEF TailOf

\* What tail drops at a limit from a text of l bytes.
Dropped(l, max) == IF l > max - MarkerAt(max) THEN l - (max - MarkerAt(max)) ELSE 0

LEMMA DroppedRange ==
    ASSUME NEW l \in Nat, NEW max \in Nat \ {0}
    PROVE  /\ MarkerAt(max) \in Nat /\ MarkerAt(max) < max
           /\ Dropped(l, max) \in 0..l
  BY MarkerSeq DEF Dropped, MarkerAt

\* Otherwise it puts the marker, if it fits, before the end of the text.
LEMMA TailCuts ==
    ASSUME NEW s, NEW a, NEW w, NEW n, NEW e, Shape(s, a, w, n, e),
           NEW max \in Nat \ {0}, NEW truncated \in BOOLEAN, truncated \/ a + n + e > max,
           NEW d, d = Dropped(a + n + e, max)
    PROVE  Shape(TailOf(s, max, truncated),
                 MarkerAt(max) + Cut(a, d), w, Cut(n, d - a), Cut(e, d - a - n))
  <1> DEFINE l == a + n + e
             m == MarkerAt(max)
             kept == IF l > max - m THEN LastBytes(s, max - m) ELSE s
             mark == IF MarkerBytes >= max THEN <<>> ELSE Marker
             cut == SubSeq(s, d + 1, Len(s))
  <1>0. /\ a \in Nat /\ w \in Nat /\ n \in Nat /\ n <= w /\ e \in Nat /\ l \in Nat
        /\ Len(s) = l /\ s \in Seq(Int) /\ MarkerBytes \in Nat \ {0}
    BY MarkerSeq DEF Shape
  <1>1. Len(mark) = m /\ m \in Nat /\ m < max
    BY <1>0, MarkerSeq DEF MarkerAt
  <1>2. TailOf(s, max, truncated) = mark \o kept
    <2> HIDE DEF l, m
    <2>1. ~(~truncated /\ Len(s) <= max)
      BY <1>0 DEF l
    <2>2. max - Len(mark) = max - m
      BY <1>1
    <2> QED
      BY <1>0, <2>1, <2>2 DEF TailOf
  <1>3. d \in 0..l
    BY <1>0, DroppedRange
  <1>4. kept = cut
    <2>1. CASE l > max - m
      <3>1. d + 1 = Len(s) - (max - m) + 1
        BY <1>0, <1>1, <2>1 DEF Dropped
      <3>2. kept = SubSeq(s, Len(s) - (max - m) + 1, Len(s))
        BY <2>1 DEF LastBytes
      <3> QED
        BY <3>1, <3>2, Zenon
    <2>2. CASE ~(l > max - m)
      <3>1. d = 0 /\ kept = s
        BY <2>2 DEF Dropped
      <3>2. SubSeq(s, 1, Len(s)) = s
        BY <1>0
      <3> QED
        BY <3>1, <3>2
    <2> QED
      BY <2>1, <2>2
  <1>5. Shape(kept, Cut(a, d), w, Cut(n, d - a), Cut(e, d - a - n))
    BY <1>3, <1>4, DropShape
  <1>6. Shape(mark \o kept, m + Cut(a, d), w, Cut(n, d - a), Cut(e, d - a - n))
    <2> HIDE DEF kept, l
    <2>1. CASE MarkerBytes >= max
      <3>1. m = 0 /\ mark = <<>>
        BY <2>1 DEF MarkerAt
      <3>2. kept \in Seq(Int) /\ Cut(a, d) \in Nat
        BY <1>5 DEF Shape
      <3>3. mark \o kept = kept
        BY <3>1, <3>2, ConcatEmptySeq
      <3>4. m + Cut(a, d) = Cut(a, d)
        BY <3>1, <3>2
      <3> QED
        BY <1>5, <3>3, <3>4, Zenon
    <2>2. CASE ~(MarkerBytes >= max)
      <3>1. m = MarkerBytes /\ mark = Marker
        BY <2>2 DEF MarkerAt
      <3> HIDE DEF mark, m
      <3> QED
        BY <1>5, <3>1, MarkedShape
    <2> QED
      BY <2>1, <2>2
  <1> QED
    BY <1>2, <1>6, Zenon
-----------------------------------------------------------------------------
\* What the node sends of a command that has written w bytes: their end, after
\* the marker if some are missing and it fits.
Sent(s, w) ==
    \E a \in Nat, n \in Nat :
        /\ Shape(s, a, w, n, 0)
        /\ w > 0 <=> n > 0
        /\ a > 0 => w > 0 /\ a = MarkerBytes
        /\ n < w /\ MarkerBytes < NodeBytes => a = MarkerBytes

LEMMA NodeSends ==
    ASSUME NEW b, NEW w, TailOK(b, w)
    PROVE  Sent(BufferString(b, NodeBytes), w)
  <1> DEFINE h == Held(w, NodeBytes)
             s == BufferString(b, NodeBytes)
  <1>0. /\ w \in Nat /\ h \in Nat /\ h <= w /\ h <= NodeBytes /\ NodeBytes \in Nat \ {0}
        /\ w > 0 <=> h > 0
        /\ MarkerBytes \in Nat \ {0}
    BY JobsAssumption DEF TailOK, Held
  <1>1. Shape(b.data, 0, w, h, 0)
    <2>1. b.data = LastOf(w, h)
      BY DEF TailOK
    <2> HIDE DEF h
    <2>2. Shape(LastOf(w, h), 0, w, h, 0)
      BY <1>0, LastOfSeq DEF Shape
    <2> QED
      BY <2>1, <2>2, Zenon
  <1>2. s = TailOf(b.data, NodeBytes, b.truncated) /\ b.truncated \in BOOLEAN
    BY DEF BufferString, TailOK
  <1>3. CASE w <= NodeBytes
    <2>1. b.truncated = FALSE
      BY <1>0, <1>3 DEF TailOK
    <2>2. Len(b.data) <= NodeBytes
      BY <1>0, <1>1 DEF Shape
    <2>3. s = b.data
      BY <1>2, <2>1, <2>2, TailWhole, Zenon
    <2>4. h = w
      BY <1>0, <1>3 DEF Held
    <2> HIDE DEF h, s
    <2>5. Shape(s, 0, w, h, 0)
      BY <1>1, <2>3, Zenon
    <2>6. /\ w > 0 <=> h > 0
          /\ 0 > 0 => w > 0 /\ 0 = MarkerBytes
          /\ h < w /\ MarkerBytes < NodeBytes => 0 = MarkerBytes
      BY <1>0, <2>4
    <2>7. 0 \in Nat
      OBVIOUS
    <2> QED
      BY <1>0, <2>5, <2>6, <2>7, Zenon DEF Sent, s
  <1>4. CASE w > NodeBytes
    <2> DEFINE m == MarkerAt(NodeBytes)
               d == Dropped(0 + h + 0, NodeBytes)
    <2>1. h = NodeBytes /\ b.truncated
      BY <1>0, <1>4 DEF TailOK, Held
    <2>2. /\ m \in Nat /\ m < NodeBytes /\ d = m
          /\ m > 0 <=> MarkerBytes < NodeBytes
          /\ m > 0 => m = MarkerBytes
      BY <1>0, <2>1 DEF MarkerAt, Dropped
    <2> HIDE DEF h, s, m, d
    <2>3. Shape(s, m + Cut(0, d), w, Cut(h, d - 0), Cut(0, d - 0 - h))
      BY <1>0, <1>1, <1>2, <2>1, TailCuts DEF d, m
    <2>4. m + Cut(0, d) = m /\ Cut(h, d - 0) = NodeBytes - m /\ Cut(0, d - 0 - h) = 0
      BY <1>0, <2>1, <2>2 DEF Cut
    <2>5. Shape(s, m, w, NodeBytes - m, 0)
      BY <2>3, <2>4
    <2>6. /\ NodeBytes - m \in Nat
          /\ w > 0 <=> NodeBytes - m > 0
          /\ m > 0 => w > 0 /\ m = MarkerBytes
          /\ NodeBytes - m < w /\ MarkerBytes < NodeBytes => m = MarkerBytes
      BY <1>0, <1>4, <2>2
    <2> QED
      BY <2>2, <2>5, <2>6, Zenon DEF Sent, s
  <1> QED
    BY <1>0, <1>3, <1>4

\* A buffer of the pipeline with what was sent of w bytes and e bytes of an error.
PipelineBuffer(b, a, w, n, e) ==
    /\ Shape(b.data, a, w, n, e) /\ b.truncated \in BOOLEAN
    /\ a + n + e <= RowBytes
    /\ b.truncated => a + n + e = RowBytes
    /\ a <= MarkerBytes
    /\ a > 0 => n > 0
    /\ ~b.truncated /\ n < w /\ MarkerBytes < NodeBytes => a = MarkerBytes

LEMMA CutParts ==
    ASSUME NEW a \in Nat, NEW n \in Nat, NEW d \in Nat, d < a + n, n > 0
    PROVE  /\ Cut(0, d - a - n) = 0 /\ Cut(a, d) \in Nat /\ Cut(n, d - a) \in Nat
           /\ Cut(n, d - a) > 0 /\ Cut(a, d) <= a
           /\ Cut(a, d) + Cut(n, d - a) = a + n - d
           /\ d = 0 => Cut(a, d) = a /\ Cut(n, d - a) = n
  <1>1. Cut(0, d - a - n) = 0
    BY DEF Cut
  <1>2. CASE d <= a
    <2>1. Cut(a, d) = a - d /\ Cut(n, d - a) = n
      BY <1>2 DEF Cut
    <2> QED
      BY <1>1, <1>2, <2>1
  <1>3. CASE d > a
    <2>1. Cut(a, d) = 0 /\ Cut(n, d - a) = n - (d - a)
      BY <1>3 DEF Cut
    <2> QED
      BY <1>1, <1>3, <2>1
  <1> QED
    BY <1>2, <1>3

LEMMA CopiedBuffer ==
    ASSUME NEW s, NEW w, Sent(s, w)
    PROVE  \E a \in Nat, n \in Nat :
              PipelineBuffer(Copied(s), a, w, n, 0) /\ (w > 0 <=> n > 0)
  <1> DEFINE b == Copied(s)
  <1>1. PICK a \in Nat, n \in Nat :
           /\ Shape(s, a, w, n, 0)
           /\ w > 0 <=> n > 0
           /\ a > 0 => w > 0 /\ a = MarkerBytes
           /\ n < w /\ MarkerBytes < NodeBytes => a = MarkerBytes
    BY DEF Sent
  <1>2. /\ w \in Nat /\ n <= w /\ s \in Seq(Int) /\ Len(s) = a + n
        /\ RowBytes \in Nat \ {0} /\ MarkerBytes \in Nat \ {0}
    BY <1>1, JobsAssumption DEF Shape
  <1>3. CASE s = <<>>
    <2>1. a = 0 /\ n = 0
      BY <1>2, <1>3
    <2>2. b.data = s /\ b.truncated = FALSE
      BY <1>3 DEF Copied, EmptyBuffer
    <2> HIDE DEF b
    <2>3. PipelineBuffer(b, a, w, n, 0)
      <3>1. /\ a + n + 0 <= RowBytes /\ a <= MarkerBytes /\ ~(a > 0)
            /\ n < w /\ MarkerBytes < NodeBytes => a = MarkerBytes
        BY <1>1, <1>2, <2>1
      <3>2. Shape(b.data, a, w, n, 0)
        BY <1>1, <2>2, Zenon
      <3> QED
        BY <2>2, <3>1, <3>2, Zenon DEF PipelineBuffer
    <2> QED
      BY <1>1, <2>3 DEF b
  <1>4. CASE s # <<>> /\ a + n < RowBytes
    <2>1. b = BufferWrite(EmptyBuffer, s, RowBytes)
      BY <1>4 DEF Copied
    <2>2. EmptyBuffer.data = <<>> /\ EmptyBuffer.truncated = FALSE
      BY DEF EmptyBuffer
    <2>3. ~(Len(s) >= RowBytes) /\ ~(Len(<<>>) + Len(s) - RowBytes > 0)
      BY <1>2, <1>4
    <2>4. b.data = <<>> \o s /\ b.truncated = FALSE
      <3> DEFINE over == Len(<<>>) + Len(s) - RowBytes
      <3>1. b = [data |-> (IF over > 0 THEN SubSeq(<<>>, over + 1, Len(<<>>)) ELSE <<>>) \o s,
                 truncated |-> FALSE \/ over > 0]
        BY <2>1, <2>2, <2>3, Zenon DEF BufferWrite
      <3>2. ~(over > 0)
        BY <2>3
      <3> HIDE DEF over, b
      <3> QED
        BY <3>1, <3>2
    <2>5. b.data = s
      BY <1>2, <2>4, ConcatEmptySeq, Zenon
    <2> HIDE DEF b
    <2>6. PipelineBuffer(b, a, w, n, 0)
      <3>1. /\ a + n + 0 <= RowBytes /\ a <= MarkerBytes /\ (a > 0 => n > 0)
            /\ n < w /\ MarkerBytes < NodeBytes => a = MarkerBytes
        BY <1>1, <1>2, <1>4
      <3>2. Shape(b.data, a, w, n, 0)
        BY <1>1, <2>5, Zenon
      <3> QED
        BY <2>4, <3>1, <3>2, Zenon DEF PipelineBuffer
    <2> QED
      BY <1>1, <2>6 DEF b
  <1>5. CASE s # <<>> /\ a + n >= RowBytes
    <2> DEFINE d == a + n - RowBytes
               k == Cut(a, d)
               l == Cut(n, d - a)
    <2>1. b = BufferWrite(EmptyBuffer, s, RowBytes) /\ Len(s) >= RowBytes
      BY <1>2, <1>5 DEF Copied
    <2>2. EmptyBuffer.truncated = FALSE /\ ~(Len(EmptyBuffer.data) > 0)
      BY DEF EmptyBuffer
    <2>3. b.data = LastBytes(s, RowBytes) /\ b.truncated = (FALSE \/ Len(s) > RowBytes)
      BY <2>1, <2>2 DEF BufferWrite
    <2>4. b.data = SubSeq(s, d + 1, Len(s)) /\ d \in 0..(a + n + 0)
      BY <1>2, <1>5, <2>3 DEF LastBytes
    <2>5. Shape(b.data, k, w, l, Cut(0, d - a - n))
      BY <1>1, <2>4, DropShape
    <2>6. /\ Cut(0, d - a - n) = 0 /\ k \in Nat /\ l \in Nat /\ k + l = RowBytes
          /\ k <= a /\ l > 0 /\ n > 0 /\ (~(a + n > RowBytes) => k = a /\ l = n)
      <3>1. n > 0
        BY <1>1, <1>2, <1>5
      <3>2. d \in Nat /\ d < a + n
        BY <1>2, <1>5
      <3>3. CASE d <= a
        BY <1>2, <3>1, <3>2, <3>3 DEF Cut
      <3>4. CASE ~(d <= a)
        BY <1>2, <3>1, <3>2, <3>4 DEF Cut
      <3> QED
        BY <3>3, <3>4
    <2>7. Shape(b.data, k, w, l, 0)
      BY <2>5, <2>6
    <2>8. b.truncated \in BOOLEAN /\ (b.truncated <=> a + n > RowBytes)
      <3>1. Len(s) > RowBytes <=> a + n > RowBytes
        BY <1>2
      <3> HIDE DEF b
      <3> QED
        BY <2>3, <3>1, Zenon
    <2> HIDE DEF b, d, k, l
    <2>9. PipelineBuffer(b, k, w, l, 0)
      <3>1. /\ k + l + 0 <= RowBytes /\ k + l + 0 = RowBytes /\ k <= MarkerBytes
            /\ (k > 0 => l > 0)
            /\ ~(a + n > RowBytes) /\ l < w /\ MarkerBytes < NodeBytes => k = MarkerBytes
        BY <1>1, <1>2, <2>6
      <3> QED
        BY <2>7, <2>8, <3>1, Zenon DEF PipelineBuffer
    <2> QED
      BY <1>1, <2>6, <2>9 DEF b
  <1> QED
    BY <1>2, <1>3, <1>4, <1>5

\* The error of a failed step pushes out as much as no longer fits.
LEMMA FailedBuffer ==
    ASSUME NEW b, NEW a, NEW w, NEW n, PipelineBuffer(b, a, w, n, 0), n > 0
    PROVE  \E k \in Nat, l \in Nat, e \in Nat :
              /\ PipelineBuffer(BufferWrite(b, ErrorMsg, RowBytes), k, w, l, e)
              /\ ErrorBytes < RowBytes => e = ErrorBytes /\ l > 0
  <1> DEFINE c == BufferWrite(b, ErrorMsg, RowBytes)
  <1>1. /\ Shape(b.data, a, w, n, 0) /\ a + n + 0 <= RowBytes /\ a <= MarkerBytes
        /\ b.truncated \in BOOLEAN
    BY DEF PipelineBuffer
  <1>2. /\ a \in Nat /\ w \in Nat /\ n \in Nat /\ n <= w /\ b.data \in Seq(Int) /\ Len(b.data) = a + n
        /\ RowBytes \in Nat \ {0} /\ MarkerBytes \in Nat \ {0} /\ ErrorBytes \in Nat \ {0}
        /\ Len(ErrorMsg) = ErrorBytes /\ ErrorMsg \in Seq(Int)
    BY <1>1, JobsAssumption, ErrorSeq DEF Shape
  <1>3. CASE ErrorBytes >= RowBytes
    <2> DEFINE d == ErrorBytes - RowBytes
    <2>1. Len(b.data) > 0 /\ Len(ErrorMsg) >= RowBytes
      BY <1>2, <1>3
    <2>2. c.data = LastBytes(ErrorMsg, RowBytes)
      BY <2>1 DEF BufferWrite
    <2>3. c.truncated = (b.truncated \/ Len(b.data) > 0 \/ Len(ErrorMsg) > RowBytes)
      BY <2>1 DEF BufferWrite
    <2>4. c.data = SubSeq(ErrorMsg, d + 1, Len(ErrorMsg))
      <3>1. d + 1 = Len(ErrorMsg) - RowBytes + 1
        BY <1>2
      <3> QED
        BY <2>2, <3>1, Zenon DEF LastBytes
    <2>5. Shape(SubSeq(ErrorMsg, d + 1, Len(ErrorMsg)), Cut(0, d), 0, Cut(0, d - 0), Cut(ErrorBytes, d - 0 - 0))
      <3>1. d \in 0..(0 + 0 + ErrorBytes)
        BY <1>2, <1>3
      <3> HIDE DEF d
      <3> QED
        BY <3>1, ErrorShape, DropShape
    <2>6. Cut(0, d) = 0 /\ Cut(0, d - 0) = 0 /\ Cut(ErrorBytes, d - 0 - 0) = RowBytes
      BY <1>2, <1>3 DEF Cut
    <2> HIDE DEF c, d
    <2>7. Shape(c.data, 0, 0, 0, RowBytes)
      BY <2>4, <2>5, <2>6, Zenon
    <2>8. Shape(c.data, 0, w, 0, RowBytes)
      BY <1>2, <2>7 DEF Shape
    <2>9. c.truncated = TRUE
      BY <2>1, <2>3, Zenon
    <2>10. /\ 0 + 0 + RowBytes <= RowBytes /\ 0 + 0 + RowBytes = RowBytes /\ 0 <= MarkerBytes
           /\ ~(0 > 0) /\ ~(ErrorBytes < RowBytes) /\ 0 \in Nat /\ RowBytes \in Nat
      BY <1>2, <1>3
    <2>11. PipelineBuffer(c, 0, w, 0, RowBytes)
      BY <2>8, <2>9, <2>10, Zenon DEF PipelineBuffer
    <2> QED
      BY <2>10, <2>11, Zenon DEF c
  <1>4. CASE ErrorBytes < RowBytes
    <2> DEFINE over == Len(b.data) + Len(ErrorMsg) - RowBytes
               d == IF over > 0 THEN over ELSE 0
               kept == IF over > 0 THEN SubSeq(b.data, over + 1, Len(b.data)) ELSE b.data
               k == Cut(a, d)
               l == Cut(n, d - a)
    <2>1. ~(Len(ErrorMsg) >= RowBytes)
      BY <1>2, <1>4
    <2>2. c.data = kept \o ErrorMsg
      BY <2>1 DEF BufferWrite
    <2>3. c.truncated = (b.truncated \/ over > 0)
      BY <2>1 DEF BufferWrite
    <2>4. over = a + n + ErrorBytes - RowBytes /\ d \in 0..(a + n + 0) /\ d < a + n
      BY <1>1, <1>2, <1>4, SMTT(40)
    <2>5. kept = SubSeq(b.data, d + 1, Len(b.data))
      <3>1. CASE over > 0
        BY <3>1
      <3>2. CASE ~(over > 0)
        <4>1. SubSeq(b.data, 1, Len(b.data)) = b.data
          BY <1>2
        <4>2. d + 1 = 1 /\ kept = b.data
          BY <3>2
        <4> QED
          BY <4>1, <4>2, Zenon
      <3> QED
        BY <3>1, <3>2
    <2>6. Shape(SubSeq(b.data, d + 1, Len(b.data)), k, w, l, Cut(0, d - a - n))
      <3> HIDE DEF d
      <3> QED
        BY <1>1, <2>4, DropShape
    <2>7. /\ Cut(0, d - a - n) = 0 /\ k \in Nat /\ l \in Nat /\ l > 0 /\ k <= a
          /\ k + l = a + n - d /\ (d = 0 => k = a /\ l = n)
      <3> HIDE DEF d
      <3>1. d \in Nat /\ d < a + n
        BY <1>2, <2>4
      <3>2. a \in Nat /\ n \in Nat
        BY <1>2
      <3>3. /\ Cut(0, d - a - n) = 0 /\ k \in Nat /\ l \in Nat
            /\ l > 0 /\ k <= a
            /\ k + l = a + n - d
            /\ d = 0 => k = a /\ l = n
        BY <3>1, <3>2, CutParts, ZenonT(60)
      <3> QED
        BY <3>3
    <2>8. /\ k + l + ErrorBytes <= RowBytes /\ (over > 0 => k + l + ErrorBytes = RowBytes)
          /\ k <= MarkerBytes
          /\ ~(over > 0) => d = 0
      <3>1. over > 0 => d = over
        OBVIOUS
      <3>2. ~(over > 0) => d = 0
        OBVIOUS
      <3>3. a + n <= RowBytes /\ a <= MarkerBytes
        BY <1>1, <1>2
      <3> HIDE DEF d, k, l, over
      <3>4. CASE over > 0
        <4>1. /\ d = a + n + ErrorBytes - RowBytes /\ k + l = a + n - d /\ k <= a
              /\ k \in Nat /\ l \in Nat
          BY <2>4, <2>7, <3>1, <3>4
        <4>2. k + l + ErrorBytes = RowBytes /\ k <= MarkerBytes
          BY <1>2, <3>3, <4>1
        <4> QED
          BY <1>2, <3>4, <4>2
      <3>5. CASE ~(over > 0)
        BY <1>2, <2>4, <2>7, <3>2, <3>3, <3>5
      <3> QED
        BY <3>4, <3>5
    <2> HIDE DEF c, over, d, kept, k, l
    <2>9. Shape(kept, k, w, l, 0)
      BY <2>5, <2>6, <2>7, Zenon
    <2>10. Shape(c.data, k, w, l, ErrorBytes)
      BY <2>2, <2>9, FailedShape, Zenon
    <2>11. c.truncated => over > 0
      <3>1. b.truncated => a + n + 0 = RowBytes
        BY DEF PipelineBuffer
      <3>2. a + n + 0 = RowBytes => over > 0
        BY <1>2, <2>4
      <3> QED
        BY <2>3, <3>1, <3>2, Zenon
    <2>12. ~c.truncated /\ l < w /\ MarkerBytes < NodeBytes => k = MarkerBytes
      <3>1. ~c.truncated => ~b.truncated /\ ~(over > 0)
        BY <2>3, Zenon
      <3>2. ~b.truncated /\ n < w /\ MarkerBytes < NodeBytes => a = MarkerBytes
        BY DEF PipelineBuffer
      <3> QED
        BY <2>7, <2>8, <3>1, <3>2, Zenon
    <2>13. c.truncated \in BOOLEAN
      BY <2>3, Zenon
    <2>14. PipelineBuffer(c, k, w, l, ErrorBytes)
      BY <2>7, <2>8, <2>10, <2>11, <2>12, <2>13, Zenon DEF PipelineBuffer
    <2>15. ErrorBytes \in Nat
      BY <1>2
    <2> QED
      BY <2>7, <2>14, <2>15, Zenon DEF c
  <1> QED
    BY <1>2, <1>3, <1>4

\* What StoredOutputIsTail says of a row that ends with the w-th byte.
RowOK(s, w) ==
    \E k \in Nat, l \in Nat, f \in Nat :
        /\ Shape(s, k, w, l, f) /\ k + l + f <= RowBytes
        /\ l > 0 /\ l < w /\ MarkerBytes < RowBytes /\ MarkerBytes < NodeBytes => MarkerBytes <= k

ShowsSome(s) == \E i \in 1..Len(s) : s[i] > 0

\* A row's text fits, and starts with the marker at most once.
FitsRow(s, k, w, l, f) ==
    /\ Shape(s, k, w, l, f) /\ k + l + f <= RowBytes /\ k <= MarkerBytes
    /\ k > 0 => MarkerBytes < RowBytes \/ l > 0

LEMMA BufferText ==
    ASSUME NEW b, NEW a, NEW w, NEW n, NEW e, PipelineBuffer(b, a, w, n, e)
    PROVE  \E k \in Nat, l \in Nat, f \in Nat :
              /\ FitsRow(BufferString(b, RowBytes), k, w, l, f)
              /\ l > 0 /\ l < w /\ MarkerBytes < RowBytes /\ MarkerBytes < NodeBytes
                   => MarkerBytes <= k
              /\ n > 0 /\ MarkerAt(RowBytes) + e < RowBytes => l > 0
  <1> DEFINE t == BufferString(b, RowBytes)
             m == MarkerAt(RowBytes)
  <1>1. /\ Shape(b.data, a, w, n, e) /\ b.truncated \in BOOLEAN
        /\ t = TailOf(b.data, RowBytes, b.truncated)
    BY DEF PipelineBuffer, BufferString
  <1>2. /\ a \in Nat /\ w \in Nat /\ n \in Nat /\ n <= w /\ e \in Nat /\ Len(b.data) = a + n + e
        /\ RowBytes \in Nat \ {0} /\ MarkerBytes \in Nat \ {0} /\ NodeBytes \in Nat
    BY <1>1, JobsAssumption DEF Shape
  <1>3. a + n + e <= RowBytes /\ a <= MarkerBytes /\ (a > 0 => n > 0)
    BY DEF PipelineBuffer
  <1>4. CASE b.truncated = FALSE
    <2>1. t = b.data
      <3>1. Len(b.data) <= RowBytes
        BY <1>2, <1>3
      <3> QED
        BY <1>1, <1>4, <3>1, TailWhole, Zenon
    <2>2. n < w /\ MarkerBytes < NodeBytes => a = MarkerBytes
      BY <1>4 DEF PipelineBuffer
    <2>3. FitsRow(t, a, w, n, e)
      BY <1>1, <1>3, <2>1, Zenon DEF FitsRow
    <2>4. a = MarkerBytes => MarkerBytes <= a
      BY <1>2
    <2> QED
      BY <1>2, <2>2, <2>3, <2>4, Zenon
  <1>5. CASE b.truncated = TRUE
    <2> DEFINE d == Dropped(a + n + e, RowBytes)
               k == m + Cut(a, d)
               l == Cut(n, d - a)
               f == Cut(e, d - a - n)
    <2>1. a + n + e = RowBytes
      BY <1>5 DEF PipelineBuffer
    <2>2. d = m /\ m \in Nat /\ m < RowBytes
          /\ (MarkerBytes < RowBytes => m = MarkerBytes)
          /\ (~(MarkerBytes < RowBytes) => m = 0)
      BY <1>2, <2>1 DEF Dropped, MarkerAt
    <2>3. Shape(t, k, w, l, f)
      <3> HIDE DEF t
      <3> QED
        BY <1>1, <1>2, <1>5, TailCuts
    <2> HIDE DEF d, m, t
    <2>4. k \in Nat /\ l \in Nat /\ f \in Nat
      BY <2>3 DEF Shape
    <2>5. CASE MarkerBytes < RowBytes
      <3>1. /\ k = m /\ k = MarkerBytes /\ d = MarkerBytes
            /\ k + l + f <= RowBytes
            /\ n > 0 /\ m + e < RowBytes => l > 0
        <4>1. d = MarkerBytes /\ m = MarkerBytes /\ Cut(a, d) = 0
          BY <1>2, <1>3, <2>2, <2>5 DEF Cut
        <4>2. CASE d - a <= n
          <5>1. l = n - (d - a) /\ f = e
            BY <1>2, <1>3, <4>1, <4>2 DEF Cut
          <5> HIDE DEF l, f
          <5> QED
            BY <1>2, <1>3, <2>1, <2>5, <4>1, <4>2, <5>1
        <4>3. CASE d - a > n
          <5>1. l = 0 /\ f = e - (d - a - n)
            BY <1>2, <1>3, <2>1, <2>5, <4>1, <4>3 DEF Cut
          <5> HIDE DEF l, f
          <5> QED
            BY <1>2, <1>3, <2>1, <2>5, <4>1, <4>3, <5>1
        <4> QED
          BY <1>2, <4>1, <4>2, <4>3
      <3> HIDE DEF k, l, f
      <3>2. FitsRow(t, k, w, l, f)
        <4>1. k <= MarkerBytes /\ MarkerBytes <= k
          BY <1>2, <3>1
        <4> QED
          BY <2>3, <2>5, <3>1, <4>1, Zenon DEF FitsRow
      <3>3. MarkerBytes <= k
        BY <1>2, <3>1
      <3> QED
        BY <2>4, <3>1, <3>2, <3>3, Zenon DEF t, m
    <2>6. CASE ~(MarkerBytes < RowBytes)
      <3>1. k = a /\ l = n /\ f = e
        BY <1>2, <2>2, <2>6 DEF Cut
      <3> HIDE DEF k, l, f
      <3>2. FitsRow(t, k, w, l, f)
        BY <1>3, <2>3, <3>1, Zenon DEF FitsRow
      <3> QED
        BY <2>4, <2>6, <3>1, <3>2, Zenon DEF t, m
    <2> QED
      BY <2>5, <2>6
  <1> QED
    BY <1>1, <1>4, <1>5, Zenon

\* Recognising a marker and putting it back changes nothing in a text that fits.
LEMMA TailKeeps ==
    ASSUME NEW s, NEW k, NEW w, NEW l, NEW f, FitsRow(s, k, w, l, f)
    PROVE  Shape(Tail_(s, RowBytes), k, w, l, f)
  <1>1. /\ Shape(s, k, w, l, f) /\ k + l + f <= RowBytes /\ k <= MarkerBytes
        /\ k > 0 => MarkerBytes < RowBytes \/ l > 0
    BY DEF FitsRow
  <1>2. /\ k \in Nat /\ w \in Nat /\ l \in Nat /\ l <= w /\ f \in Nat /\ Len(s) = k + l + f
        /\ RowBytes \in Nat \ {0} /\ MarkerBytes \in Nat \ {0}
    BY <1>1, JobsAssumption DEF Shape
  <1>3. CASE k = MarkerBytes
    <2> DEFINE t == SubSeq(s, MarkerBytes + 1, Len(s))
    <2>1. IsPrefix(Marker, s)
      BY <1>1, <1>2, <1>3, MarkerFound
    <2>2. Tail_(s, RowBytes) = TailOf(t, RowBytes, TRUE)
      BY <2>1, Zenon DEF Tail_
    <2>3. MarkerBytes < RowBytes
      BY <1>1, <1>2, <1>3
    <2>4. Shape(t, 0, w, l, f)
      <3>1. MarkerBytes \in 0..(k + l + f)
        BY <1>2, <1>3
      <3>2. Shape(t, Cut(k, MarkerBytes), w, Cut(l, MarkerBytes - k), Cut(f, MarkerBytes - k - l))
        BY <1>1, <3>1, DropShape
      <3>3. Cut(k, MarkerBytes) = 0 /\ Cut(l, MarkerBytes - k) = l /\ Cut(f, MarkerBytes - k - l) = f
        BY <1>2, <1>3 DEF Cut
      <3> QED
        BY <3>2, <3>3, Zenon
    <2> DEFINE d == Dropped(0 + l + f, RowBytes)
    <2> HIDE DEF t
    <2>5. Shape(TailOf(t, RowBytes, TRUE), MarkerAt(RowBytes) + Cut(0, d), w, Cut(l, d - 0), Cut(f, d - 0 - l))
      BY <1>2, <2>4, TailCuts
    <2>6. /\ MarkerAt(RowBytes) + Cut(0, d) = k /\ Cut(l, d - 0) = l /\ Cut(f, d - 0 - l) = f
      <3>1. MarkerAt(RowBytes) = MarkerBytes
        BY <1>2, <2>3 DEF MarkerAt
      <3>2. d = 0
        BY <1>1, <1>2, <1>3, <2>3, <3>1 DEF Dropped
      <3> HIDE DEF d
      <3> QED
        BY <1>2, <1>3, <3>1, <3>2 DEF Cut
    <2> QED
      BY <2>2, <2>5, <2>6, Zenon
  <1>4. CASE k < MarkerBytes
    <2>1. ~IsPrefix(Marker, s)
      BY <1>1, <1>2, <1>4, MarkerFound
    <2>2. Tail_(s, RowBytes) = TailOf(s, RowBytes, FALSE)
      BY <2>1, Zenon DEF Tail_
    <2>3. Len(s) <= RowBytes
      BY <1>1, <1>2
    <2> QED
      BY <1>1, <2>2, <2>3, TailWhole, Zenon
  <1> QED
    BY <1>1, <1>2, <1>3, <1>4

LEMMA ShapeShows ==
    ASSUME NEW s, NEW k, NEW w, NEW l, NEW f, Shape(s, k, w, l, f), l > 0
    PROVE  ShowsSome(s)
  <1>1. k + 1 \in 1..Len(s) /\ s[k + 1] > 0
    BY DEF Shape
  <1> QED
    BY <1>1 DEF ShowsSome

LEMMA StoredText ==
    ASSUME NEW b, NEW a, NEW w, NEW n, NEW e, PipelineBuffer(b, a, w, n, e)
    PROVE  /\ RowOK(Stored(b), w)
           /\ n > 0 /\ MarkerAt(RowBytes) + e < RowBytes => ShowsSome(Stored(b))
  <1>1. PICK k \in Nat, l \in Nat, f \in Nat :
              /\ FitsRow(BufferString(b, RowBytes), k, w, l, f)
              /\ l > 0 /\ l < w /\ MarkerBytes < RowBytes /\ MarkerBytes < NodeBytes
                   => MarkerBytes <= k
              /\ n > 0 /\ MarkerAt(RowBytes) + e < RowBytes => l > 0
    BY BufferText
  <1>2. Shape(Stored(b), k, w, l, f)
    BY <1>1, TailKeeps DEF Stored
  <1>3. k + l + f <= RowBytes
    BY <1>1 DEF FitsRow
  <1> QED
    BY <1>1, <1>2, <1>3, ShapeShows, Zenon DEF RowOK

LEMMA ErrorText == RowOK(Tail_(ErrorMsg, RowBytes), 0)
  <1> DEFINE d == Dropped(0 + 0 + ErrorBytes, RowBytes)
             m == MarkerAt(RowBytes)
             t == Tail_(ErrorMsg, RowBytes)
  <1>1. RowBytes \in Nat \ {0} /\ MarkerBytes \in Nat \ {0} /\ ErrorBytes \in Nat \ {0}
    BY JobsAssumption
  <1>2. t = TailOf(ErrorMsg, RowBytes, FALSE)
    <2>1. ~IsPrefix(Marker, ErrorMsg)
      BY <1>1, ErrorShape, MarkerFound
    <2> QED
      BY <2>1, Zenon DEF Tail_
  <1>3. CASE ErrorBytes <= RowBytes
    <2>1. t = ErrorMsg
      BY <1>2, <1>3, ErrorSeq, TailWhole
    <2>2. Shape(t, 0, 0, 0, ErrorBytes)
      BY <2>1, ErrorShape, Zenon
    <2>3. 0 + 0 + ErrorBytes <= RowBytes /\ ~(0 > 0) /\ 0 \in Nat /\ ErrorBytes \in Nat
      BY <1>1, <1>3
    <2> QED
      BY <2>2, <2>3, Zenon DEF RowOK
  <1>4. CASE ErrorBytes > RowBytes
    <2>1. Shape(TailOf(ErrorMsg, RowBytes, FALSE),
                m + Cut(0, d), 0, Cut(0, d - 0), Cut(ErrorBytes, d - 0 - 0))
      <3>1. 0 + 0 + ErrorBytes > RowBytes
        BY <1>1, <1>4
      <3> QED
        BY <1>1, <3>1, ErrorShape, TailCuts
    <2>2. m \in Nat /\ m < RowBytes /\ d = ErrorBytes - (RowBytes - m)
      BY <1>1, <1>4 DEF Dropped, MarkerAt
    <2> HIDE DEF d, m
    <2>3. m + Cut(0, d) = m /\ Cut(0, d - 0) = 0 /\ Cut(ErrorBytes, d - 0 - 0) = RowBytes - m
      BY <1>1, <1>4, <2>2 DEF Cut
    <2>4. Shape(t, m, 0, 0, RowBytes - m)
      BY <1>2, <2>1, <2>3, Zenon
    <2>5. m + 0 + (RowBytes - m) <= RowBytes /\ ~(0 > 0) /\ 0 \in Nat /\ RowBytes - m \in Nat
      BY <1>1, <2>2
    <2> QED
      BY <2>2, <2>4, <2>5, Zenon DEF RowOK
  <1> QED
    BY <1>1, <1>3, <1>4

\* What is stored of a step that succeeded, and of one that failed.
LEMMA SuccessRow ==
    ASSUME NEW s, NEW w, Sent(s, w)
    PROVE  /\ RowOK(StoredOutput(s, FALSE), w)
           /\ w > 0 => ShowsSome(StoredOutput(s, FALSE))
  <1>1. PICK a \in Nat, n \in Nat : PipelineBuffer(Copied(s), a, w, n, 0) /\ (w > 0 <=> n > 0)
    BY CopiedBuffer
  <1>2. StoredOutput(s, FALSE) = Stored(Copied(s))
    BY Zenon DEF StoredOutput
  <1>3. MarkerAt(RowBytes) + 0 < RowBytes
    BY JobsAssumption DEF MarkerAt
  <1> QED
    BY <1>1, <1>2, <1>3, StoredText, Zenon

LEMMA FailedRow ==
    ASSUME NEW s, NEW w, Sent(s, w)
    PROVE  /\ RowOK(StoredOutput(s, TRUE), w)
           /\ w > 0 /\ ErrorFits => ShowsSome(StoredOutput(s, TRUE))
  <1>1. CASE s = <<>>
    <2>1. w = 0
      <3>1. PICK a \in Nat, n \in Nat : Shape(s, a, w, n, 0) /\ (w > 0 <=> n > 0)
        BY DEF Sent
      <3> QED
        BY <1>1, <3>1 DEF Shape
    <2>2. StoredOutput(s, TRUE) = Tail_(ErrorMsg, RowBytes)
      BY <1>1, Zenon DEF StoredOutput
    <2>3. ~(w > 0)
      BY <2>1
    <2> QED
      BY <2>1, <2>2, <2>3, ErrorText, Zenon
  <1>2. CASE s # <<>>
    <2>1. PICK a \in Nat, n \in Nat : PipelineBuffer(Copied(s), a, w, n, 0) /\ (w > 0 <=> n > 0)
      BY CopiedBuffer
    <2>2. n > 0
      <3>1. PICK k \in Nat, l \in Nat : /\ Shape(s, k, w, l, 0)
                                        /\ w > 0 <=> l > 0
                                        /\ k > 0 => w > 0 /\ k = MarkerBytes
        BY DEF Sent
      <3>2. s \in Seq(Int) /\ Len(s) = k + l /\ w \in Nat
        BY <3>1 DEF Shape
      <3>3. k + l > 0
        BY <1>2, <3>2
      <3> QED
        BY <2>1, <3>1, <3>3
    <2> DEFINE c == BufferWrite(Copied(s), ErrorMsg, RowBytes)
    <2>3. StoredOutput(s, TRUE) = Stored(c)
      BY <1>2, Zenon DEF StoredOutput
    <2>4. PICK k \in Nat, l \in Nat, e \in Nat :
              /\ PipelineBuffer(c, k, w, l, e)
              /\ ErrorBytes < RowBytes => e = ErrorBytes /\ l > 0
      BY <2>1, <2>2, FailedBuffer
    <2> HIDE DEF c
    <2>5. ErrorFits => l > 0 /\ MarkerAt(RowBytes) + e < RowBytes
      BY <2>4, JobsAssumption DEF ErrorFits, MarkerAt
    <2> QED
      BY <2>3, <2>4, <2>5, StoredText, Zenon
  <1> QED
    BY <1>1, <1>2

Shown(s) == {i \in 1..Len(s) : s[i] > 0}

\* A row of that shape is what StoredOutputIsTail asks for.
LEMMA RowShows ==
    ASSUME NEW s, NEW w, RowOK(s, w)
    PROVE  /\ Len(s) <= RowBytes
           /\ \A i, k \in Shown(s) : \A b \in i..k : s[b] = s[i] + (b - i)
           /\ Shown(s) # {} /\ (\A i \in Shown(s) : s[i] # 1)
                /\ MarkerBytes < RowBytes /\ MarkerBytes < NodeBytes => IsPrefix(Marker, s)
           /\ Shown(s) # {} => \E i \in Shown(s) : s[i] = w /\ \A k \in Shown(s) : k <= i
  <1> DEFINE shown == Shown(s)
  <1>1. PICK k \in Nat, l \in Nat, f \in Nat :
        /\ Shape(s, k, w, l, f) /\ k + l + f <= RowBytes
        /\ l > 0 /\ l < w /\ MarkerBytes < RowBytes /\ MarkerBytes < NodeBytes => MarkerBytes <= k
    BY DEF RowOK
  <1>2. /\ w \in Nat /\ l <= w /\ Len(s) = k + l + f /\ RowBytes \in Nat /\ MarkerBytes \in Nat
    BY <1>1, JobsAssumption DEF Shape
  <1>3. \A i \in (k + 1)..(k + l) : s[i] = w - l + (i - k)
    BY <1>1 DEF Shape
  <1>4. \A i \in 1..Len(s) : s[i] > 0 <=> i \in (k + 1)..(k + l)
    <2> TAKE i \in 1..Len(s)
    <2>1. CASE i \in 1..k
      BY <1>1, <1>2, <2>1 DEF Shape
    <2>2. CASE i \in (k + 1)..(k + l)
      <3>1. s[i] = w - l + (i - k)
        BY <1>3, <2>2
      <3> QED
        BY <1>2, <2>2, <3>1
    <2>3. CASE i \in (k + l + 1)..(k + l + f)
      <3>1. s[i] = -1
        BY <1>1, <2>3 DEF Shape
      <3> QED
        BY <1>2, <2>3, <3>1
    <2> QED
      BY <1>2, <2>1, <2>2, <2>3
  <1>5. \A i : i \in shown <=> i \in (k + 1)..(k + l)
    BY <1>2, <1>4 DEF Shown
  <1> HIDE DEF shown
  <1>6. \A i, j \in shown : \A b \in i..j : s[b] = s[i] + (b - i)
    <2> TAKE i, j \in shown
    <2> TAKE b \in i..j
    <2>0. i \in (k + 1)..(k + l) /\ j \in (k + 1)..(k + l)
      BY <1>5, Zenon
    <2>1. i \in (k + 1)..(k + l) /\ b \in (k + 1)..(k + l)
      BY <1>2, <2>0
    <2>2. s[i] = w - l + (i - k) /\ s[b] = w - l + (b - k)
      BY <1>3, <2>1
    <2> QED
      BY <1>2, <2>1, <2>2
  <1>7. ASSUME shown # {}
        PROVE  l > 0 /\ \E i \in shown : s[i] = w /\ \A j \in shown : j <= i
    <2>1. l > 0
      BY <1>2, <1>5, <1>7
    <2>2. k + l \in shown /\ s[k + l] = w /\ \A j \in shown : j <= k + l
      BY <1>2, <1>3, <1>5, <2>1
    <2> QED
      BY <2>1, <2>2
  <1>8. ASSUME shown # {}, \A i \in shown : s[i] # 1,
               MarkerBytes < RowBytes, MarkerBytes < NodeBytes
        PROVE  IsPrefix(Marker, s)
    <2>0. l > 0
      BY <1>7, <1>8
    <2>1. k + 1 \in shown /\ s[k + 1] = w - l + 1
      <3>1. k + 1 \in (k + 1)..(k + l)
        BY <1>2, <2>0
      <3>2. s[k + 1] = w - l + ((k + 1) - k)
        BY <1>3, <3>1
      <3> QED
        BY <1>2, <1>5, <3>1, <3>2
    <2>2. l < w
      BY <1>2, <1>8, <2>1
    <2> QED
      BY <1>1, <1>7, <1>8, <2>2, MarkerFound
  <1> QED
    BY <1>1, <1>2, <1>6, <1>7, <1>8 DEF shown
-----------------------------------------------------------------------------
(***************************************************************************)
(* The inductive invariant of StoredOutputIsTail: what is in flight, what   *)
(* the caller keeps and what it has stored come from an earlier state of    *)
(* the node's buffer, and from its last one once the command is over.       *)
(***************************************************************************)
Final == {"success", "failed"}

\* What was sent at some moment of a command that has now written w bytes.
SentBy(s, w) == \E v \in 0..w : Sent(s, v)

StoredBy(s, w) == \E v \in 0..w : RowOK(s, v)

AnswersInv ==
    \A m \in net : m.op = "get" /\ m.to = "caller" =>
        /\ SentBy(m.output, wrote[m.job])
        /\ m.status \in Final => Sent(m.output, wrote[m.job])

KeptInv ==
    /\ pc \in {"idle", "posting"} => last = <<>>
    /\ pc # "idle" => SentBy(last, wrote[cur])
    /\ pc # "idle" /\ end \in Final => Sent(last, wrote[cur])

RowsInv ==
    \A j \in Job :
        /\ StoredBy(row[j], wrote[j])
        /\ ret[j] \in Final => RowOK(row[j], wrote[j])
        /\ wrote[j] > 0 /\ (ret[j] = "success" \/ (ret[j] = "failed" /\ ErrorFits))
              => ShowsSome(row[j])

BuffersInv ==
    BufferInv /\ buf = [j \in Job |-> buf[j]] /\ wrote = [j \in Job |-> wrote[j]]

OutputInv ==
    BuffersInv /\ AnswersInv /\ KeptInv /\ RowsInv /\ row = [j \in Job |-> row[j]]

LEMMA SentEmpty ==
    ASSUME NEW w \in Nat
    PROVE  Sent(<<>>, 0) /\ SentBy(<<>>, w)
  <1>1. Sent(<<>>, 0)
    <2>1. 0 \in Nat /\ (0 > 0 <=> 0 > 0) /\ ~(0 > 0) /\ ~(0 < 0)
      OBVIOUS
    <2> QED
      BY <2>1, EmptyShape, Zenon DEF Sent
  <1>2. 0 \in 0..w
    OBVIOUS
  <1> QED
    BY <1>1, <1>2 DEF SentBy

\* Nothing is sent only of a command that has written nothing.
LEMMA SentNothing ==
    ASSUME NEW w, Sent(<<>>, w)
    PROVE  w = 0
  <1>1. PICK a \in Nat, n \in Nat : Shape(<<>>, a, w, n, 0) /\ (w > 0 <=> n > 0)
    BY DEF Sent
  <1> QED
    BY <1>1 DEF Shape

LEMMA OutputInit == Init => OutputInv
  <1> SUFFICES ASSUME Init PROVE OutputInv
    OBVIOUS
  <1>1. BuffersInv
    BY BufferInit DEF Init, BuffersInv
  <1>2. AnswersInv /\ KeptInv
    BY DEF Init, AnswersInv, KeptInv
  <1>3. RowsInv /\ row = [j \in Job |-> row[j]]
    <2>1. ASSUME NEW j \in Job
          PROVE  row[j] = <<>> /\ wrote[j] = 0 /\ ret[j] = "none" /\ ~(wrote[j] > 0)
      BY DEF Init
    <2>2. RowOK(<<>>, 0) /\ 0 \in 0..0
      <3>1. 0 \in Nat /\ 0 + 0 + 0 <= RowBytes /\ ~(0 > 0) /\ 0 \in 0..0
        BY JobsAssumption
      <3> QED
        BY <3>1, EmptyShape, Zenon DEF RowOK
    <2>3. RowsInv
      <3> SUFFICES ASSUME NEW j \in Job
                   PROVE  /\ StoredBy(row[j], wrote[j])
                          /\ ret[j] \notin Final /\ ~(wrote[j] > 0)
        BY DEF RowsInv
      <3> QED
        BY <2>1, <2>2 DEF StoredBy, Final
    <2> QED
      BY <2>3 DEF Init
  <1> QED
    BY <1>1, <1>2, <1>3 DEF OutputInv

\* Steps that leave what was written and stored alone and bring no answer.
LEMMA OutputKept ==
    ASSUME OutputInv, BuffersInv', UNCHANGED <<wrote, row, ret>>,
           \A m \in net' : m.op = "get" /\ m.to = "caller" => m \in net,
           pc' \in {"idle", "posting"} => last' = <<>>,
           pc' # "idle" => SentBy(last', wrote[cur']),
           pc' # "idle" /\ end' \in Final => Sent(last', wrote[cur'])
    PROVE  OutputInv'
  <1>1. AnswersInv'
    BY DEF OutputInv, AnswersInv
  <1>2. KeptInv'
    BY DEF OutputInv, KeptInv
  <1>3. RowsInv' /\ row' = [j \in Job |-> row'[j]]
    BY DEF OutputInv, RowsInv
  <1> QED
    BY <1>1, <1>2, <1>3 DEF OutputInv

\* Writes of a running command move no final answer, result or row.
LEMMA OutputWrites ==
    ASSUME Inv, OutputInv, BuffersInv', NEW j \in Job, CommandWrites(j)
    PROVE  OutputInv'
  <1>0. UNCHANGED <<cur, pc, end, last, ret, row, net>> /\ cmd[j] = "running"
    BY DEF CommandWrites, caller
  <1>1. \A i \in Job : /\ wrote[i] \in Nat /\ wrote'[i] \in Nat /\ wrote[i] <= wrote'[i]
                       /\ i # j => wrote'[i] = wrote[i]
    <2>1. PICK n \in Sizes : wrote' = [wrote EXCEPT ![j] = @ + n]
      BY DEF CommandWrites
    <2>2. n \in Nat /\ \A i \in Job : wrote[i] \in Nat
      BY JobsAssumption DEF OutputInv, BuffersInv, BufferInv, TailOK
    <2>3. \A i \in Job : wrote'[i] = IF i = j THEN wrote[i] + n ELSE wrote[i]
      BY <2>1 DEF OutputInv, BuffersInv
    <2> QED
      BY <2>2, <2>3
  <1>2. ASSUME NEW i \in Job, NEW s, SentBy(s, wrote[i]) PROVE SentBy(s, wrote'[i])
    <2>1. PICK v \in 0..wrote[i] : Sent(s, v)
      BY <1>2 DEF SentBy
    <2>2. v \in 0..wrote'[i]
      BY <1>1
    <2> QED
      BY <2>1, <2>2 DEF SentBy
  <1>3. AnswersInv'
    <2> SUFFICES ASSUME NEW m \in net, m.op = "get", m.to = "caller"
                 PROVE  /\ SentBy(m.output, wrote'[m.job])
                        /\ m.status \in Final => Sent(m.output, wrote'[m.job])
      BY <1>0 DEF AnswersInv
    <2>1. m.job \in Job /\ (m.status \in Final => m.job # j)
      BY <1>0 DEF Inv, NetInv, MessageOK, Final
    <2> QED
      BY <1>1, <1>2, <2>1 DEF OutputInv, AnswersInv
  <1>4. KeptInv'
    <2>1. pc # "idle" => cur \in Job
      BY DEF Inv, TypeInv
    <2>2. pc # "idle" /\ end \in Final => cur # j
      BY <1>0 DEF Inv, CallInv, Conclusive, Final
    <2> QED
      BY <1>0, <1>1, <1>2, <2>1, <2>2 DEF OutputInv, KeptInv
  <1>5. RowsInv'
    <2> SUFFICES ASSUME NEW i \in Job
                 PROVE  /\ StoredBy(row[i], wrote'[i])
                        /\ ret[i] \in Final => RowOK(row[i], wrote'[i])
                        /\ wrote'[i] > 0 /\ (ret[i] = "success" \/ (ret[i] = "failed" /\ ErrorFits))
                              => ShowsSome(row[i])
      BY <1>0 DEF RowsInv
    <2>1. StoredBy(row[i], wrote'[i])
      <3>1. PICK v \in 0..wrote[i] : RowOK(row[i], v)
        BY DEF OutputInv, RowsInv, StoredBy
      <3>2. v \in 0..wrote'[i]
        BY <1>1
      <3> QED
        BY <3>1, <3>2 DEF StoredBy
    <2>2. ret[i] \in Final => wrote'[i] = wrote[i]
      BY <1>0, <1>1 DEF Inv, ReportIsConclusive, Final
    <2> QED
      BY <2>1, <2>2 DEF OutputInv, RowsInv, Final
  <1> QED
    BY <1>0, <1>3, <1>4, <1>5 DEF OutputInv

\* What serving a request puts in flight.
LEMMA ReplySends ==
    ASSUME NEW m \in net, NEW status, NEW output, Reply(m, status, output)
    PROVE  \A a \in net' : \/ a \in net
                           \/ /\ a.op = m.op /\ a.job = m.job
                              /\ a.status = status /\ a.output = output
  BY DEF Reply

\* A poll is answered with the end of what has been written so far.
LEMMA OutputServed ==
    ASSUME Inv, OutputInv, BuffersInv', NEW m \in net, Dispatch(m) \/ Get(m) \/ Delete(m)
    PROVE  OutputInv'
  <1>0. UNCHANGED <<cur, pc, end, last, ret, row, wrote>> /\ m.job \in Job
    BY DEF Dispatch, Get, Delete, caller, node, Inv, NetInv, MessageOK
  <1>1. ASSUME \A a \in net' : a.op = "get" /\ a.to = "caller" /\ a \notin net =>
                  /\ SentBy(a.output, wrote[a.job])
                  /\ a.status \in Final => Sent(a.output, wrote[a.job])
        PROVE  OutputInv'
    <2>1. AnswersInv'
      BY <1>0, <1>1 DEF OutputInv, AnswersInv
    <2>2. KeptInv' /\ RowsInv' /\ row' = [j \in Job |-> row'[j]]
      BY <1>0 DEF OutputInv, KeptInv, RowsInv
    <2> QED
      BY <2>1, <2>2 DEF OutputInv
  <1>2. CASE Dispatch(m)
    <2>1. m.op = "post" /\ Reply(m, "202", <<>>)
      BY <1>2 DEF Dispatch, Received
    <2>2. \A a \in net' : a \in net \/ a.op = "post"
      BY <2>1, ReplySends
    <2> QED
      BY <1>1, <2>2
  <1>3. CASE Delete(m)
    <2>1. m.op = "delete" /\ Reply(m, "204", <<>>)
      BY <1>3 DEF Delete, Received
    <2>2. \A a \in net' : a \in net \/ a.op = "delete"
      BY <2>1, ReplySends
    <2> QED
      BY <1>1, <2>2
  <1>4. CASE Get(m)
    <2>1. wrote[m.job] \in Nat /\ wrote[m.job] \in 0..wrote[m.job] /\ TailOK(buf[m.job], wrote[m.job])
      BY <1>0 DEF OutputInv, BuffersInv, BufferInv, TailOK
    <2>2. CASE Reply(m, table[m.job], BufferString(buf[m.job], NodeBytes))
      <3> DEFINE s == BufferString(buf[m.job], NodeBytes)
      <3>1. Sent(s, wrote[m.job])
        BY <2>1, NodeSends
      <3>2. SentBy(s, wrote[m.job])
        BY <2>1, <3>1 DEF SentBy
      <3>3. \A a \in net' : a \in net \/ (a.job = m.job /\ a.output = s)
        BY <2>2, ReplySends
      <3> HIDE DEF s
      <3> QED
        BY <1>1, <3>1, <3>2, <3>3
    <2>3. CASE Reply(m, "404", <<>>)
      <3>1. SentBy(<<>>, wrote[m.job])
        BY <2>1, SentEmpty
      <3>2. \A a \in net' : a \in net \/ (a.job = m.job /\ a.output = <<>> /\ a.status = "404")
        BY <2>3, ReplySends
      <3> QED
        BY <1>1, <3>1, <3>2 DEF Final
    <2> QED
      BY <1>4, <2>2, <2>3 DEF Get
  <1> QED
    BY <1>2, <1>3, <1>4

\* The caller keeps the latest snapshot that is not empty.
LEMMA SnapshotKept ==
    ASSUME Inv, OutputInv, pc \in {"getting", "snapshot"}, NEW m \in net, Answer("get", m)
    PROVE  /\ SentBy(Kept(m), wrote[cur])
           /\ m.status \in Final => Sent(Kept(m), wrote[cur])
  <1>1. /\ SentBy(m.output, wrote[cur]) /\ (m.status \in Final => Sent(m.output, wrote[cur]))
        /\ SentBy(last, wrote[cur])
    BY DEF Answer, OutputInv, AnswersInv, KeptInv
  <1>2. CASE Kept(m) = m.output
    BY <1>1, <1>2
  <1>3. CASE Kept(m) = last /\ m.status = "404"
    BY <1>1, <1>3 DEF Final
  <1>4. CASE Kept(m) = last /\ m.output = <<>>
    <2>1. ASSUME m.status \in Final PROVE Sent(last, wrote[cur])
      <3>1. wrote[cur] = 0
        BY <1>1, <1>4, <2>1, SentNothing
      <3>2. PICK v \in 0..0 : Sent(last, v)
        BY <1>1, <3>1 DEF SentBy
      <3>3. v = 0
        OBVIOUS
      <3> QED
        BY <3>1, <3>2, <3>3
    <2> QED
      BY <1>1, <1>4, <2>1
  <1> QED
    BY <1>2, <1>3, <1>4 DEF Kept

\* The call at work stores its output and returns.
LEMMA OutputStored ==
    ASSUME Inv, OutputInv, BuffersInv', UNCHANGED wrote, cur \in Job, pc' = "idle", last' = <<>>,
           \A m \in net' : m.op = "get" /\ m.to = "caller" => m \in net,
           NEW out, row' = [row EXCEPT ![cur] = out],
           NEW result, ret' = [ret EXCEPT ![cur] = result],
           StoredBy(out, wrote[cur]),
           result \in Final => RowOK(out, wrote[cur]),
           wrote[cur] > 0 /\ (result = "success" \/ (result = "failed" /\ ErrorFits)) => ShowsSome(out)
    PROVE  OutputInv'
  <1>1. AnswersInv'
    BY DEF OutputInv, AnswersInv
  <1>2. KeptInv'
    BY DEF KeptInv
  <1>3. row' = [j \in Job |-> row'[j]]
    BY DEF OutputInv
  <1>4. /\ row'[cur] = out /\ ret'[cur] = result
        /\ \A j \in Job \ {cur} : row'[j] = row[j] /\ ret'[j] = ret[j]
    BY DEF OutputInv, Inv, TypeInv
  <1>5. RowsInv'
    BY <1>4 DEF OutputInv, RowsInv
  <1> QED
    BY <1>1, <1>2, <1>3, <1>5 DEF OutputInv

LEMMA OutputReturned ==
    ASSUME Inv, OutputInv, BuffersInv', Return
    PROVE  OutputInv'
  <1> DEFINE out == StoredOutput(last, end # "success")
  <1>1. /\ pc = "deleting" /\ pc' = "idle" /\ last' = <<>> /\ UNCHANGED <<cur, wrote>> /\ cur \in Job
        /\ row' = [row EXCEPT ![cur] = out] /\ ret' = [ret EXCEPT ![cur] = end]
    BY DEF Return, node, Inv, TypeInv
  <1>2. \A m \in net' : m \in net
    BY UnansweredLeaves DEF Return
  <1>3. SentBy(last, wrote[cur]) /\ (end \in Final => Sent(last, wrote[cur]))
    BY <1>1 DEF OutputInv, KeptInv
  <1>4. PICK v \in 0..wrote[cur] : Sent(last, v)
    BY <1>3 DEF SentBy
  <1>5. CASE end = "success"
    <2>1. out = StoredOutput(last, FALSE)
      <3>1. (end # "success") = FALSE
        BY <1>5
      <3> QED
        BY <3>1, Zenon
    <2> HIDE DEF out
    <2>2. StoredBy(out, wrote[cur])
      BY <1>4, <2>1, SuccessRow, Zenon DEF StoredBy
    <2>3. RowOK(out, wrote[cur]) /\ (wrote[cur] > 0 => ShowsSome(out))
      BY <1>3, <1>5, <2>1, SuccessRow DEF Final
    <2> QED
      BY <1>1, <1>2, <1>5, <2>2, <2>3, OutputStored
  <1>6. CASE end # "success"
    <2>1. out = StoredOutput(last, TRUE)
      <3>1. (end # "success") = TRUE
        BY <1>6
      <3> QED
        BY <3>1, Zenon
    <2> HIDE DEF out
    <2>2. StoredBy(out, wrote[cur])
      BY <1>4, <2>1, FailedRow, Zenon DEF StoredBy
    <2>3. /\ end \in Final => RowOK(out, wrote[cur])
          /\ end \in Final /\ wrote[cur] > 0 /\ ErrorFits => ShowsSome(out)
      BY <1>3, <2>1, FailedRow
    <2> QED
      BY <1>1, <1>2, <1>6, <2>2, <2>3, OutputStored DEF Final
  <1> QED
    BY <1>5, <1>6

LEMMA OutputUndispatched ==
    ASSUME Inv, OutputInv, BuffersInv', PostFails
    PROVE  OutputInv'
  <1> DEFINE out == StoredOutput(<<>>, TRUE)
  <1>1. /\ pc = "posting" /\ pc' = "idle" /\ last' = last /\ UNCHANGED <<cur, wrote>> /\ cur \in Job
        /\ row' = [row EXCEPT ![cur] = out] /\ ret' = [ret EXCEPT ![cur] = "dispatch_error"]
    BY DEF PostFails, node, Inv, TypeInv
  <1>2. \A m \in net' : m \in net
    BY UnansweredLeaves DEF PostFails
  <1>3. last' = <<>>
    BY <1>1 DEF OutputInv, KeptInv
  <1>4. 0 \in 0..wrote[cur] /\ RowOK(out, 0)
    <2>1. wrote[cur] \in Nat
      BY <1>1 DEF OutputInv, BuffersInv, BufferInv, TailOK
    <2>2. Sent(<<>>, 0)
      BY <2>1, SentEmpty
    <2>3. RowOK(out, 0)
      BY <2>2, FailedRow, Zenon
    <2> HIDE DEF out
    <2> QED
      BY <2>1, <2>3
  <1> HIDE DEF out
  <1>5. StoredBy(out, wrote[cur])
    BY <1>4 DEF StoredBy
  <1> QED
    BY <1>1, <1>2, <1>3, <1>5, OutputStored DEF Final

LEMMA OutputInductive ==
    ASSUME Inv, OutputInv, [Next]_vars
    PROVE  OutputInv'
  <1>0. BuffersInv'
    BY BufferInductive DEF OutputInv, BuffersInv
  <1>1. \A j \in Job : wrote[j] \in Nat
    BY DEF OutputInv, BuffersInv, BufferInv, TailOK
  <1>2. ASSUME UNCHANGED <<wrote, row, ret, last, cur, pc, end>>, net' \subseteq net
        PROVE  OutputInv'
    BY <1>0, <1>2, OutputKept DEF OutputInv, KeptInv
  <1>3. CASE Call
    <2>1. /\ pc = "idle" /\ pc' = "posting" /\ cur' \in Job /\ UNCHANGED <<wrote, row, ret, last, end>>
          /\ net' = net \cup {[to |-> "node", op |-> "post", job |-> cur + 1]}
      BY <1>3, JobsAssumption DEF Call, node, Inv, TypeInv, Job
    <2>2. last' = <<>> /\ end' = "none"
      BY <2>1 DEF OutputInv, KeptInv, Inv, CallInv
    <2>3. SentBy(last', wrote[cur'])
      BY <1>1, <2>1, <2>2, SentEmpty
    <2> QED
      BY <1>0, <2>1, <2>2, <2>3, OutputKept DEF Final
  <1>4. CASE Poll \/ PollFails \/ Interrupted
    <2>1. /\ pc \in {"polling", "getting"} /\ pc' \in {"polling", "getting", "snapshot"}
          /\ UNCHANGED <<wrote, row, ret, last, cur>>
          /\ \A m \in net' : m \in net \/ m = Ask("get")
          /\ end' = end \/ end' = "deadline"
      BY <1>4, UnansweredLeaves DEF Poll, PollFails, Interrupted, Cleanup, node
    <2>2. SentBy(last', wrote[cur']) /\ end = "none"
      BY <2>1 DEF OutputInv, KeptInv, Inv, CallInv
    <2>3. Ask("get").to = "node"
      BY DEF Ask
    <2> QED
      BY <1>0, <2>1, <2>2, <2>3, OutputKept DEF Final
  <1>5. ASSUME NEW m \in net, Posted(m) PROVE OutputInv'
    <2>1. /\ pc = "posting" /\ pc' = "polling" /\ UNCHANGED <<wrote, row, ret, last, cur, end>>
          /\ net' \subseteq net
      BY <1>5 DEF Posted, node
    <2>2. SentBy(last', wrote[cur']) /\ end = "none"
      BY <2>1 DEF OutputInv, KeptInv, Inv, CallInv
    <2> QED
      BY <1>0, <2>1, <2>2, OutputKept DEF Final
  <1>6. ASSUME NEW m \in net, Polled(m) PROVE OutputInv'
    <2>1. /\ pc = "getting" /\ Answer("get", m) /\ last' = Kept(m) /\ UNCHANGED <<wrote, row, ret, cur>>
          /\ end = "none"
      BY <1>6 DEF Polled, node, Inv, CallInv
    <2>2. /\ pc' \in {"polling", "snapshot", "deleting"} /\ (end' \in Final => end' = m.status)
          /\ \A a \in net' : a \in net \/ a.to = "node"
      BY <1>6, <2>1 DEF Polled, Cleanup, Ask, Final
    <2>3. SentBy(last', wrote[cur']) /\ (m.status \in Final => Sent(last', wrote[cur']))
      BY <2>1, SnapshotKept
    <2> QED
      BY <1>0, <2>1, <2>2, <2>3, OutputKept
  <1>7. CASE Snapshot
    <2>1. /\ pc = "snapshot" /\ pc' = "deleting" /\ UNCHANGED <<wrote, row, ret, cur, end>>
          /\ end = "deadline"
      BY <1>7 DEF Snapshot, node, Inv, CallInv
    <2>2. SentBy(last', wrote[cur]) /\ \A a \in net' : a \in net \/ a = Ask("delete")
      <3>1. ASSUME NEW m \in net, Answer("get", m), last' = Kept(m),
                   net' = (net \ {m}) \cup {Ask("delete")}
            PROVE  SentBy(last', wrote[cur]) /\ \A a \in net' : a \in net \/ a = Ask("delete")
        BY <2>1, <3>1, SnapshotKept
      <3>2. ASSUME NEW rest \in Unanswered("get"), net' = rest \cup {Ask("delete")}, UNCHANGED last
            PROVE  SentBy(last', wrote[cur]) /\ \A a \in net' : a \in net \/ a = Ask("delete")
        BY <2>1, <3>2, UnansweredLeaves DEF OutputInv, KeptInv
      <3> QED
        BY <1>7, <3>1, <3>2 DEF Snapshot
    <2>3. Ask("delete").to = "node"
      BY DEF Ask
    <2> QED
      BY <1>0, <2>1, <2>2, <2>3, OutputKept DEF Final
  <1>8. ASSUME NEW j \in Job, CommandExits(j) \/ CommandKilled(j) \/ JobDeadline(j) \/ Sweep(j)
        PROVE  OutputInv'
    BY <1>2, <1>8 DEF CommandExits, CommandKilled, JobDeadline, Ends, Sweep, caller
  <1>9. CASE NodeRestart
    BY <1>2, <1>9 DEF NodeRestart, caller
  <1>10. CASE Expire \/ UNCHANGED vars
    BY <1>2, <1>10 DEF Expire, vars, caller, node
  <1>11. CASE NodeServes
    BY <1>0, <1>11, OutputServed DEF NodeServes
  <1>12. ASSUME NEW j \in Job, CommandWrites(j) PROVE OutputInv'
    BY <1>0, <1>12, OutputWrites
  <1>13. CASE Return \/ PostFails
    BY <1>0, <1>13, OutputReturned, OutputUndispatched
  <1> QED
    BY <1>3, <1>4, <1>5, <1>6, <1>7, <1>8, <1>9, <1>10, <1>11, <1>12, <1>13
    DEF Next, CallerStep, Reclaim

\* What is stored with a step is a run of consecutive bytes of its command within
\* the limit, marked when earlier ones were cut; of a step the node answered for it
\* is the end of what the command wrote. For all limits, lengths of the marker and
\* of the error message, and write sizes, whatever snapshots were lost or late.
THEOREM StoredOutputsAreTails == Spec => []StoredOutputIsTail
  <1>1. ASSUME OutputInv PROVE StoredOutputIsTail
    <2> SUFFICES ASSUME NEW j \in Job
        PROVE  /\ Len(row[j]) <= RowBytes
               /\ \A i, k \in Shown(row[j]) : \A b \in i..k : row[j][b] = row[j][i] + (b - i)
               /\ Shown(row[j]) # {} /\ (\A i \in Shown(row[j]) : row[j][i] # 1)
                    /\ MarkerBytes < RowBytes /\ MarkerBytes < NodeBytes => IsPrefix(Marker, row[j])
               /\ ret[j] \in {"success", "failed"} /\ Shown(row[j]) # {}
                    => \E i \in Shown(row[j]) : row[j][i] = wrote[j] /\ \A k \in Shown(row[j]) : k <= i
               /\ wrote[j] > 0 /\ (ret[j] = "success" \/ (ret[j] = "failed" /\ ErrorFits))
                    => Shown(row[j]) # {}
      BY Zenon DEF StoredOutputIsTail, Shown
    <2>1. PICK v \in 0..wrote[j] : RowOK(row[j], v)
      BY <1>1 DEF OutputInv, RowsInv, StoredBy
    <2>2. /\ Len(row[j]) <= RowBytes
          /\ \A i, k \in Shown(row[j]) : \A b \in i..k : row[j][b] = row[j][i] + (b - i)
          /\ Shown(row[j]) # {} /\ (\A i \in Shown(row[j]) : row[j][i] # 1)
               /\ MarkerBytes < RowBytes /\ MarkerBytes < NodeBytes => IsPrefix(Marker, row[j])
      BY <2>1, RowShows, Zenon
    <2>3. ret[j] \in {"success", "failed"} /\ Shown(row[j]) # {}
             => \E i \in Shown(row[j]) : row[j][i] = wrote[j] /\ \A k \in Shown(row[j]) : k <= i
      <3>1. ret[j] \in {"success", "failed"} => RowOK(row[j], wrote[j])
        BY <1>1 DEF OutputInv, RowsInv, Final
      <3> QED
        BY <3>1, RowShows, Zenon
    <2>4. wrote[j] > 0 /\ (ret[j] = "success" \/ (ret[j] = "failed" /\ ErrorFits)) => Shown(row[j]) # {}
      BY <1>1 DEF OutputInv, RowsInv, ShowsSome, Shown
    <2> QED
      BY <2>2, <2>3, <2>4, Zenon
  <1>2. Inv /\ OutputInv /\ [Next]_vars => OutputInv'
    BY OutputInductive
  <1> QED
    BY <1>1, <1>2, InitInv, Inductive, OutputInit, PTL DEF Spec
=============================================================================
