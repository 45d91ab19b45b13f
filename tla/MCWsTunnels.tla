---------------------------- MODULE MCWsTunnels ----------------------------
(* Model-checking instance of WsTunnels: two requests from one address.      *)
EXTENDS WsTunnels

Addresses == [c \in Conn |-> "a"]
=============================================================================
