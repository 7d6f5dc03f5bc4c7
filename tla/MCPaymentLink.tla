---------------------------- MODULE MCPaymentLink ----------------------------
(* Small instances of PaymentLink for TLC. *)
EXTENDS PaymentLink, TLC

CONSTANTS l1, l2, a, b, t1, t2, w1, w2

Symmetry == Permutations(Workers) \cup Permutations(Txs) \cup Permutations(Terms)
===============================================================================
