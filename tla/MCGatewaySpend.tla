-------------------------- MODULE MCGatewaySpend --------------------------
(* A small instance of GatewaySpend for TLC: executions are interchangeable. *)
EXTENDS GatewaySpend, TLC

CONSTANTS s1, s2, s3

Symmetry == Permutations(Salts)
===============================================================================
