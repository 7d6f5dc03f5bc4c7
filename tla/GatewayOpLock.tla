---------------------------- MODULE GatewayOpLock ----------------------------
(***************************************************************************)
(* The GatewayOpLock Durable Object (gateway-op-lock.do.js): one instance  *)
(* per salt, holding the record of one Gateway operation.  The runtime     *)
(* serialises the requests to an instance, so each of its operations is    *)
(* one atomic read-check-write.  The module gives the record and what      *)
(* /reserve and /update do to it; GatewayTransfer makes the calls.         *)
(*                                                                         *)
(* Of the record only the status and the transaction hash are kept: the    *)
(* depositor, the domains and the time stamps are written once by /reserve *)
(* and no transition looks at them.                                        *)
(***************************************************************************)
EXTENDS Naturals

CONSTANTS NoTx      \* txHash: null

KnownStates == {"submitting", "accepted", "rejected", "ambiguous", "confirmed", "failed"}

TerminalStates == {"confirmed", "failed", "rejected"}

\* Mutant of DoTransitions: the 'failed' entry of a rollback forgotten.
DoTransitions_NoRollback ==
    [submitting |-> {"accepted", "rejected", "ambiguous"},
     accepted   |-> {"confirmed", "failed"},
     rejected   |-> {},
     ambiguous  |-> {"accepted", "rejected", "failed", "confirmed"},
     confirmed  |-> {},
     failed     |-> {}]

\* VALID_TRANSITIONS of the Durable Object.
DoTransitions ==
    [submitting |-> {"accepted", "rejected", "ambiguous", "failed"},
     accepted   |-> {"confirmed", "failed"},
     rejected   |-> {},
     ambiguous  |-> {"accepted", "rejected", "failed", "confirmed"},
     confirmed  |-> {},
     failed     |-> {}]

NoRecord  == [status |-> "none", tx |-> NoTx]
NewRecord == [status |-> "submitting", tx |-> NoTx]

\* Mutants of CanReserve: the salt of a failed, or of a rejected, operation is
\* handed out again.
CanReserve_ReuseFailed(record)   == record.status \in {"none", "failed"}
CanReserve_ReuseRejected(record) == record.status \in {"none", "rejected"}

\* /reserve answers 409 as soon as a record exists, whatever its status.
CanReserve(record) == record.status = "none"

\* /update: the transition must be listed, and submitting -> failed must be
\* flagged as the rollback of a batch.
CanUpdate(record, to, rollback) ==
    /\ record.status # "none"
    /\ to \in DoTransitions[record.status]
    /\ (record.status = "submitting" /\ to = "failed") => rollback

\* The record /update stores: a txHash once known is never erased.
Updated(record, to, tx) ==
    [status |-> to, tx |-> IF tx = NoTx THEN record.tx ELSE tx]
===============================================================================
