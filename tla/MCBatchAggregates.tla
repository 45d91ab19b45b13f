-------------------------- MODULE MCBatchAggregates --------------------------
(* Model-checking instance of BatchAggregates; the requests are alike. Of the  *)
(* four things that multiply the states, requests that overlap, runs beside     *)
(* each other, a third batch and a past failure, a state has at most one.       *)
EXTENDS BatchAggregates, TLC

CONSTANT SharedBatches   \* batches beyond these count as more

Symmetry == Permutations(Client)

Few == \A b \in Batch : b > SharedBatches => batch[b].agg.status = "none"
OneRequest == \A c, d \in Client : req[c].pc # "idle" /\ req[d].pc # "idle" => c = d
OneRun == \A r, q \in Release : run[r].pc # "idle" /\ run[q].pc # "idle" => r = q

NoFailure == failures = 0

Bounds ==
    \/ OneRequest /\ NoFailure /\ (OneRun \/ Few)
    \/ OneRun /\ Few /\ (OneRequest \/ NoFailure)
=============================================================================
