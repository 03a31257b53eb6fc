-------------------------- MODULE MCDataPoints --------------------------
(* An instance of DataPointClients for TLC. *)
EXTENDS DataPointClients

\* Both adapters come with device 1: it changes its adapter when both describe.
SharedClaims == [a \in Adapters |-> IF a = 1 THEN {1, 2} ELSE {1}]
=============================================================================
