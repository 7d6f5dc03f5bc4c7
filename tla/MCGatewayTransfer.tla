-------------------------- MODULE MCGatewayTransfer --------------------------
(* Small instances of GatewayTransfer for TLC. *)
EXTENDS GatewayTransfer, TLC

CONSTANTS s1, s2, p1, p2, c1, c2, t1, t2

\* A single operation, a pair, the pair in the other order (two batches that
\* reserve each other's salts), and a batch naming a salt twice.
AllBatches == {<<s1>>, <<s1, s2>>, <<s2, s1>>, <<s2, s2>>}
Singles    == {<<s1>>}

\* Mint transactions carry one attestation, or an attestation set.
Groups     == {<<s1>>, <<s1, s2>>}
OneGroup   == {<<s1>>}

Symmetry == Permutations(Posts) \cup Permutations(Confirms) \cup Permutations(Txs)
===============================================================================
