--------------------------- MODULE MCAgentSigner ---------------------------
(* Small instances of AgentSigner for TLC. *)
EXTENDS AgentSigner, FiniteSets, TLC

CONSTANTS e1, e2, a1, a2, n1, c1, m1, m2, p1, p2, w1, w2

Amounts == {a1, a2}

\* A code is mailed for either amount; an authorisation may leave it out.
BothAmounts == [operation : {n1}, amount : Amounts]
OrNone      == [operation : {n1}, amount : Amounts \cup {None}]

\* Bound: either codes, with one proof, one broadcast at a time and no faults; or
\* all broadcasts, of operations that need no code and so declare nothing of interest.
Apart ==
    /\ (\E m \in Mails : mailed[m] # None) =>
          /\ Cardinality({p \in Proofs : proof[p] # NoProof}) <= 1
          /\ Cardinality({w \in Workers : job[w].step \notin {"idle", "check"}}) <= 1
          /\ faults = 0
    /\ \A p \in Proofs :
          proof[p] # NoProof /\ proof[p].mail = None => proof[p].declared.amount = None

Symmetry == Permutations(Executions) \cup Permutations(Amounts) \cup Permutations(Mails)
            \cup Permutations(Proofs) \cup Permutations(Workers)
=============================================================================
