--------------------------- MODULE BatchAggregates ---------------------------
(***************************************************************************)
(* EnvDeployment with a history variable, the batches whose aggregate may   *)
(* be old, to say how far the aggregate of a batch can be relied on.        *)
(***************************************************************************)
EXTENDS EnvDeployment

VARIABLE disturbed   \* batches that may have lost a result

aggVars == <<vars, disturbed>>

\* Some Reconcile of the batch has read and is about to write.
Reconciling(b) ==
    \/ \E r \in Children(b) : run[r].pc = "write"
    \/ \E c \in Client : req[c].pc = "write" /\ req[c].batch = b

\* What a step does to a batch: a Reconcile reads it, its request or a run of
\* its children is cut or loses a write, or a child gets an outcome from another
\* than its own run (a rollback of it, a Verify that read it earlier) although
\* none was recorded.
Reads(b) ==
    \/ \E r \in Children(b) : run[r].pc = "read" /\ run'[r].pc = "write"
    \/ \E c \in Client : req[c].pc = "fan" /\ req'[c].pc = "write" /\ req[c].batch = b

Cut(b) ==
    /\ failures' # failures
    /\ \/ \E c \in Client : req[c].batch = b /\ req'[c] # req[c]
       \/ \E r \in Children(b) : run'[r] # run[r]

Overruled(b) ==
    \E r \in Children(b) :
        /\ rel[r].status \notin Deployed /\ rel'[r].status \in Deployed
        /\ run[r].pc # "running" \/ run'[r].pc # "prev"

\* A Reconcile that reads while another has yet to write disturbs the batch; one
\* that reads alone sees all there is.
Disturb ==
    disturbed' = {b \in Batch : IF Reads(b) THEN Reconciling(b)
                                ELSE b \in disturbed \/ Cut(b) \/ Overruled(b)}

AggInit == Init /\ disturbed = {}

AggNext == Next /\ Disturb

AggSpec == AggInit /\ [][AggNext]_aggVars

\* Every child calls Reconcile after it has persisted its own outcome, and the
\* request after it has started the last child: in whatever order children end,
\* are retried, verified or rolled back, a settled batch has the aggregate of its
\* children, unless two Reconciles overlapped, or the request was cut or a write
\* lost and no Reconcile has read the batch since.
SettledIsCounted ==
    \A b \in Batch \ disturbed : Settled(b) => batch[b].agg = Aggregate(b)
=============================================================================
