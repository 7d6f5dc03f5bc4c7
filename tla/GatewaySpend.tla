---------------------------- MODULE GatewaySpend ----------------------------
(***************************************************************************)
(* The client of the Gateway transfer endpoint                             *)
(* (shared/GatewaySpendService.js): execute(), cancel() and                *)
(* resolveAmbiguous() over the in-flight lock of one tab, together with    *)
(* the endpoint, which is what GatewayOperation says of it.                *)
(*                                                                         *)
(* There is one lock key, that is one transfer (token, chains, depositor,  *)
(* amount), which its user may start again at any time.  Every execution   *)
(* draws a salt of its own and is named by it here.  The query before the  *)
(* POST asks about that fresh salt, so it finds no record, or fails; what  *)
(* the code would do with a record it found cannot happen and is left out. *)
(*                                                                         *)
(* A step is what the code does between two awaits.  It may then find that *)
(* its lock entry was cancelled, or that another execution's is in its     *)
(* place: it writes to the key, whoever holds it.                          *)
(***************************************************************************)
EXTENDS Naturals

CONSTANTS
    Salts,
    MaxReloads,     \* bound on reloads of the tab
    NoSalt

ASSUME SpendAssumption == MaxReloads \in Nat /\ NoSalt \notin Salts

VARIABLES
    status, sent, attested, minted,     \* as in GatewayOperation
    posted,     \* salts whose POST left the tab
    tx,         \* the mint transaction each execution sent
    lock,       \* _inflight[lockKey]
    step,       \* what each execution is waiting for
    outcome,    \* what execute() returned
    dropped,    \* has the entry been taken from a running execution, or lost?
    resolved,   \* salts that resolveAmbiguous() released
    reloads

server == <<status, sent, attested, minted>>
calls  == <<posted, tx>>
user   == <<dropped, resolved, reloads>>
vars   == <<server, calls, lock, step, outcome, user>>

Op == INSTANCE GatewayOperation

-------------------------------------------------------------------------------
(* Values *)

\* Of the entry's state only whether it is ERROR is ever looked at.
NoLock == [salt |-> NoSalt, submitted |-> FALSE, error |-> FALSE]
Locks  == [salt : Salts, submitted : BOOLEAN, error : BOOLEAN] \cup {NoLock}

Steps == {"new", "balance", "signature", "query", "post", "mint", "receipt", "confirm", "ended"}
Running(e) == step[e] \notin {"new", "ended"}

\* refused: failed before the POST; ambiguous: the POST failed;
\* failed: after the POST was answered; gone: the tab was reloaded.
Outcomes == {"none", "ok", "refused", "ambiguous", "failed", "gone"}

TxStates == {"none", "pending", "success", "reverted"}

Init ==
    /\ Op!Init
    /\ posted = {}
    /\ tx = [e \in Salts |-> "none"]
    /\ lock = NoLock
    /\ step = [e \in Salts |-> "new"]
    /\ outcome = [e \in Salts |-> "none"]
    /\ dropped = FALSE /\ resolved = {} /\ reloads = 0

Goto(e, s) == step' = [step EXCEPT ![e] = s] /\ UNCHANGED outcome

\* Mutant of Catch: the entry of an ambiguous submission goes as well.
Catch_Always(l, submitted) == NoLock

\* The catch block: the entry goes unless the POST was made (reachedSubmitted).
Catch(l, submitted) == IF submitted THEN l ELSE NoLock

\* The finally block, on every way out.
Finally(l) == IF l.submitted /\ ~l.error THEN NoLock ELSE l

Return(e, how, l) ==
    /\ step' = [step EXCEPT ![e] = "ended"]
    /\ outcome' = [outcome EXCEPT ![e] = how]
    /\ lock' = Finally(l)

Throw(e, how, l) == Return(e, how, Catch(l, how # "refused"))

-------------------------------------------------------------------------------
(* execute() *)

\* A second call for the same key is answered duplicate_in_flight.
Start(e) ==
    /\ step[e] = "new"
    /\ lock = NoLock
    /\ lock' = [salt |-> e, submitted |-> FALSE, error |-> FALSE]
    /\ Goto(e, "balance")
    /\ UNCHANGED <<server, calls, user>>

\* The next await follows a write to the entry; without one that throws.
Advance(e, from, to) ==
    /\ step[e] = from
    /\ \/ lock # NoLock /\ lock' = [lock EXCEPT !.error = FALSE] /\ Goto(e, to)
       \/ Throw(e, "refused", lock)
    /\ UNCHANGED <<server, calls, user>>

BalanceRead(e) == Advance(e, "balance", "signature")
Signed(e)      == Advance(e, "signature", "query")

\* Between the answer and the POST the lock is not looked at.
Queried(e) ==
    /\ step[e] = "query"
    /\ \/ posted' = posted \cup {e} /\ Goto(e, "post") /\ UNCHANGED lock
       \/ Throw(e, "refused", lock) /\ UNCHANGED posted
    /\ UNCHANGED <<server, tx, user>>

\* Mutant of Marked: an entry that has gone is made anew.
Marked_Blind(failed) == [lock EXCEPT !.submitted = TRUE, !.error = @ \/ failed]

\* The entry once the POST has ended; the write to one that has gone throws.
Marked(failed) == IF lock = NoLock THEN NoLock
                  ELSE [lock EXCEPT !.submitted = TRUE, !.error = @ \/ failed]

\* An error answer, a lost one, or 20 seconds without one.
PostFailed(e) ==
    /\ step[e] = "post"
    /\ Throw(e, IF lock = NoLock THEN "failed" ELSE "ambiguous", Marked(TRUE))
    /\ UNCHANGED <<server, calls, user>>

\* The endpoint answers 200 when the acceptance is stored.
PostAnswered(e) ==
    /\ step[e] = "post"
    /\ status[e] = "accepted"
    /\ \/ lock # NoLock /\ lock' = Marked(FALSE) /\ Goto(e, "mint")
       \/ Throw(e, "failed", Marked(FALSE))     \* no entry, or no attestation in the answer
    /\ UNCHANGED <<server, calls, user>>

\* gatewayMint: no provider, another chain or a refusal, or a call that fails
\* with its transaction broadcast all the same.
MintSent(e) ==
    /\ step[e] = "mint"
    /\ \/ tx' = [tx EXCEPT ![e] = "pending"] /\ Goto(e, "receipt") /\ UNCHANGED lock
       \/ tx' = [tx EXCEPT ![e] = "pending"] /\ Throw(e, "failed", lock)
       \/ UNCHANGED tx /\ Throw(e, "failed", lock)
    /\ UNCHANGED <<server, posted, user>>

\* wait(1): the receipt, of success or not, or an exception.
ReceiptSeen(e) ==
    /\ step[e] = "receipt"
    /\ \/ tx[e] \in {"success", "reverted"} /\ Goto(e, "confirm") /\ UNCHANGED lock
       \/ Throw(e, "failed", lock)
    /\ UNCHANGED <<server, calls, user>>

\* Mutant of ReceiptOk: the receipt's status is not read.
ReceiptOk_Any(e) == TRUE

ReceiptOk(e) == tx[e] = "success"

\* The answer of /confirm, good or bad, changes nothing more.
ConfirmAnswered(e) ==
    /\ step[e] = "confirm"
    /\ IF ReceiptOk(e) THEN Return(e, "ok", lock) ELSE Throw(e, "failed", lock)
    /\ UNCHANGED <<server, calls, user>>

-------------------------------------------------------------------------------
(* The user *)

\* Refused once the POST was answered or lost, which is not when it leaves.
Cancel ==
    /\ lock # NoLock /\ ~lock.submitted
    /\ lock' = NoLock
    /\ dropped' = TRUE
    /\ UNCHANGED <<server, calls, step, outcome, resolved, reloads>>

\* Meant for an ambiguous submission, and not refused for a running one.
ResolveAmbiguous ==
    /\ lock.submitted
    /\ lock' = NoLock
    /\ resolved' = resolved \cup {lock.salt}
    /\ dropped' = (dropped \/ Running(lock.salt))
    /\ UNCHANGED <<server, calls, step, outcome, reloads>>

Reload ==
    /\ reloads < MaxReloads /\ reloads' = reloads + 1
    /\ lock' = NoLock
    /\ step' = [e \in Salts |-> IF Running(e) THEN "ended" ELSE step[e]]
    /\ outcome' = [e \in Salts |-> IF Running(e) THEN "gone" ELSE outcome[e]]
    /\ dropped' = TRUE
    /\ UNCHANGED <<server, calls, resolved>>

-------------------------------------------------------------------------------
(* The endpoint, Circle and the chain *)

\* They go on whether or not the tab still waits.  /confirm is open to anyone
\* and takes any transaction that carries the salt: one that succeeded has
\* minted it, and of those that fail there may be any number.
Serve(e) ==
    /\ \/ e \in posted /\ (\/ Op!Reserve(e) \/ Op!GiveUp(e) \/ Op!Submit({e}) \/ Op!Attest({e})
                           \/ Op!Accepted(e) \/ Op!Rejected(e) \/ Op!Ambiguous(e))
       \/ Op!Confirmed(e)
       \/ Op!Failed(e)
    /\ UNCHANGED <<calls, lock, step, outcome, user>>

\* A second mint of one salt reverts, and the first may for other reasons.
MineMint(e) ==
    /\ tx[e] = "pending"
    /\ \/ tx' = [tx EXCEPT ![e] = "success"] /\ Op!Mint({e})
       \/ tx' = [tx EXCEPT ![e] = "reverted"] /\ UNCHANGED server
    /\ UNCHANGED <<posted, lock, step, outcome, user>>

\* gatewayMint takes an attestation from anyone: a forwarder, or the user.
MintElsewhere(e) ==
    /\ Op!Mint({e})
    /\ UNCHANGED <<calls, lock, step, outcome, user>>

Next ==
    \/ \E e \in Salts :
          \/ Start(e) \/ BalanceRead(e) \/ Signed(e) \/ Queried(e) \/ PostFailed(e)
          \/ PostAnswered(e) \/ MintSent(e) \/ ReceiptSeen(e) \/ ConfirmAnswered(e)
          \/ Serve(e) \/ MineMint(e) \/ MintElsewhere(e)
    \/ Cancel \/ ResolveAmbiguous \/ Reload

Spec == Init /\ [][Next]_vars

-------------------------------------------------------------------------------
(* Properties *)

\* Every variable has its type; the absent entry is NoLock and nothing else.
TypeOK ==
    /\ status \in [Salts -> Op!Statuses]
    /\ sent \subseteq Salts /\ attested \subseteq Salts /\ minted \subseteq Salts
    /\ posted \subseteq Salts
    /\ tx \in [Salts -> TxStates]
    /\ lock \in Locks
    /\ step \in [Salts -> Steps] /\ outcome \in [Salts -> Outcomes]
    /\ dropped \in BOOLEAN /\ resolved \subseteq Salts /\ reloads \in 0..MaxReloads

\* An execution after which the same transfer may be sent again: it reached
\* its end, it failed after it was accepted, or its user released it.
Closed(e) == outcome[e] \in {"ok", "failed"} \/ e \in resolved

\* Of the submissions of one transfer at most one is open: while a POST is out,
\* or its outcome unknown, no other execution of it posts.  This is what the
\* in-flight lock is for.  It holds until the entry is cancelled, lost with the
\* tab, or released under a running execution; each of these lets a second burn
\* start.
OneSubmission ==
    ~dropped => \A e, f \in posted : e # f => Closed(e) \/ Closed(f)

\* What execute() returns is true of the endpoint and the chain, whoever mints
\* and confirms beside it: a transfer reported as done was accepted and minted,
\* and one that failed before its POST never reaches the endpoint, now or later,
\* so that trying again cannot burn twice.  (The record of a transfer that was
\* done may say failed: /confirm takes a reverted transaction of anybody.)
AnswerIsTrue ==
    \A e \in Salts :
        /\ outcome[e] = "ok" => e \in minted /\ status[e] \in {"accepted", "confirmed", "failed"}
        /\ outcome[e] = "refused" => status[e] = "none" /\ e \notin sent \cup posted
===============================================================================
