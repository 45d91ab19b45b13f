-------------------------- MODULE MCReleasePipeline --------------------------
(* Model-checking instance of ReleasePipeline; clients and tokens are          *)
(* interchangeable. Either two requests overlap about one release, which may   *)
(* be paused and reach its deadline, or one at a time makes several releases   *)
(* and rolls them back.                                                        *)
EXTENDS ReleasePipeline, FiniteSets, TLC

Symmetry == Permutations(Client) \cup Permutations(Token)

Busy == {c \in Client : req[c].pc # "idle"}

OneRelease ==
    /\ \A r \in Release : rel[r].status # "none" => r = 1
    /\ \A c \in Busy : req[c].op # "rollback"

OneRequest ==
    /\ Cardinality(Busy) <= 1 /\ timeouts = 0
    /\ \A c \in Busy : req[c].op # "pause"
    /\ \A l \in Log : log[l].status # "paused"

Bounds == OneRelease \/ OneRequest
=============================================================================
