-------------------------- MODULE MC_RelayRequests --------------------------
(* RelayRequests for TLC: one member with a pass and one instance. *)
EXTENDS RelayRequests

CONSTANT t0

MCOperator == [i \in Instances |-> t0]
=============================================================================
