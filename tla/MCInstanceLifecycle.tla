------------------------ MODULE MCInstanceLifecycle ------------------------
(* Model-checking instance of InstanceLifecycle: one machine for all         *)
(* instances.                                                                *)
EXTENDS InstanceLifecycle

One == {1}
Two == {1, 2}
SharedHost == [i \in Instance |-> 1]
=============================================================================
