---------------------------- MODULE ServedRoutes ----------------------------
(***************************************************************************)
(* What the gateway promises about its route cache, whatever the order in   *)
(* which loads and writes overlap: it serves a route from backends that     *)
(* were committed together for one release of that route, or not at all.    *)
(***************************************************************************)
CONSTANT Route, None

VARIABLES
    committed,   \* the versions of each route's backends ever committed
    served       \* the version each route is served from, or None

Init ==
    /\ committed = [r \in Route |-> {}]
    /\ served = [r \in Route |-> None]

Commit(r, version) ==
    /\ committed' = [committed EXCEPT ![r] = @ \cup {version}]
    /\ UNCHANGED served

\* A load is installed; it may be older than the one it replaces.
Install ==
    /\ \A r \in Route : served'[r] \in committed[r] \cup {None}
    /\ DOMAIN served' = Route
    /\ UNCHANGED committed

Next == Install \/ \E r \in Route : \E v \in committed'[r] : Commit(r, v)

Spec == Init /\ [][Next]_<<committed, served>>
=============================================================================
