----------------------------- MODULE MCNodeJobs -----------------------------
(* Model-checking instance of NodeJobs: writes below, at and above the       *)
(* buffer's size.                                                            *)
EXTENDS NodeJobs

TwoOrFour == {2, 4}
=============================================================================
