--------------------------- MODULE GatewayOperation ---------------------------
(***************************************************************************)
(* What the transfer endpoint promises about operations, with no requests, *)
(* workers, retries or stores in it: an operation is submitted to Circle   *)
(* at most once, and what its record says agrees with what Circle and the  *)
(* chain did.  GatewayTransfer implements it (ImplementsOperation there).  *)
(***************************************************************************)
CONSTANTS Salts

VARIABLES
    status,     \* the recorded status of each operation
    sent,       \* operations handed to Circle
    attested,   \* operations Circle accepted
    minted      \* operations minted on the destination chain

vars == <<status, sent, attested, minted>>

Statuses == {"none", "submitting", "accepted", "rejected", "ambiguous", "confirmed", "failed"}

Init ==
    /\ status = [s \in Salts |-> "none"]
    /\ sent = {} /\ attested = {} /\ minted = {}

Become(s, from, to) ==
    /\ status[s] \in from
    /\ status' = [status EXCEPT ![s] = to]
    /\ UNCHANGED <<sent, attested, minted>>

Reserve(s) == Become(s, {"none"}, "submitting")

\* Only what was never handed over can be given up.
GiveUp(s) == s \notin sent /\ Become(s, {"submitting"}, "failed")

\* A set of operations is handed to Circle, for the first and last time.
Submit(B) ==
    /\ B \cap sent = {}
    /\ \A s \in B : status[s] = "submitting"
    /\ sent' = sent \cup B
    /\ UNCHANGED <<status, attested, minted>>

\* Circle never takes what was reported as rejected.
Attest(B) ==
    /\ B \subseteq sent \ attested
    /\ \A s \in B : status[s] # "rejected"
    /\ attested' = attested \cup B
    /\ UNCHANGED <<status, sent, minted>>

Accepted(s)  == s \in attested /\ Become(s, {"submitting"}, "accepted")
Rejected(s)  == s \in sent \ attested /\ Become(s, {"submitting"}, "rejected")
Ambiguous(s) == s \in sent /\ Become(s, {"submitting"}, "ambiguous")

Mint(B) ==
    /\ B \subseteq attested \ minted
    /\ minted' = minted \cup B
    /\ UNCHANGED <<status, sent, attested>>

Confirmed(s) == s \in minted /\ Become(s, {"accepted", "ambiguous"}, "confirmed")
Failed(s)    == s \in sent /\ Become(s, {"accepted", "ambiguous"}, "failed")

Next ==
    \/ \E s \in Salts :
          \/ Reserve(s) \/ GiveUp(s) \/ Accepted(s) \/ Rejected(s) \/ Ambiguous(s)
          \/ Confirmed(s) \/ Failed(s)
    \/ \E B \in SUBSET Salts : Submit(B) \/ Attest(B) \/ Mint(B)

Spec == Init /\ [][Next]_vars
===============================================================================
