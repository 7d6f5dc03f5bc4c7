--------------------------- MODULE MCTurboBridge ---------------------------
(* Small instances of TurboBridge for TLC. *)
EXTENDS TurboBridge

CONSTANTS i1, b1, b2, w1, w2
=============================================================================
