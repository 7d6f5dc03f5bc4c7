------------------------------ MODULE ClaimLock ------------------------------
(***************************************************************************)
(* What a claim lock promises its callers: the abstract specification that *)
(* PaymentLock and CpnLock are shown to implement.  One lock is one        *)
(* Durable Object, named after what it protects: a transaction, or the     *)
(* idempotency key of a payout.                                            *)
(*                                                                         *)
(* A client enters on behalf of an owner (a payment link, the payload of a *)
(* payout), alone, and leaves: with the lock as it was, open again, or     *)
(* closed for its owner.  Nobody enters a closed lock, and nothing opens   *)
(* it again.                                                               *)
(*                                                                         *)
(* The lock has an alarm for clients that never leave.  Once it has gone   *)
(* off while a client was inside, the lock has lapsed: others may enter    *)
(* beside that client, and it may still open what they closed, but only    *)
(* if they act for the same owner.                                         *)
(***************************************************************************)
CONSTANTS
    Clients,
    Owners,
    None

VARIABLES
    inside,     \* who has entered and not left, and for which owner
    held,       \* the owner the lock is taken for, or None
    closed,     \* is it taken for good?
    lapsed      \* has the alarm ever gone off with a client inside?

vars == <<inside, held, closed, lapsed>>

Init == inside = {} /\ held = None /\ closed = FALSE /\ lapsed = FALSE

\* The client may never learn that it has entered.
Enter(c, o) ==
    /\ ~closed /\ held \in {None, o}
    /\ inside = {} \/ lapsed
    /\ held' = o
    /\ inside' \in {inside, inside \cup {<<c, o>>}}
    /\ UNCHANGED <<closed, lapsed>>

Leave(c, o) ==
    /\ <<c, o>> \in inside
    /\ inside' = inside \ {<<c, o>>}
    /\ \/ UNCHANGED <<held, closed>>
       \/ held = o /\ closed' = TRUE /\ UNCHANGED held
       \/ held = o /\ (closed => lapsed) /\ closed' = FALSE /\ held' \in {None, o}
    /\ UNCHANGED lapsed

Alarm ==
    /\ ~closed
    /\ held' \in {None, held}
    /\ lapsed' = (lapsed \/ inside # {})
    /\ UNCHANGED <<inside, closed>>

Next ==
    \/ \E c \in Clients, o \in Owners : Enter(c, o) \/ Leave(c, o)
    \/ Alarm

Spec == Init /\ [][Next]_vars
==============================================================================
