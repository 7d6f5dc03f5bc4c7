----------------------------- MODULE MCCpnPayout -----------------------------
(* Small instances of CpnPayout for TLC. *)
EXTENDS CpnPayout, TLC

CONSTANTS x, y, r1, r2, r3
===============================================================================
