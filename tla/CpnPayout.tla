----------------------------- MODULE CpnPayout -----------------------------
(***************************************************************************)
(* POST /api/cpn/payments: a fiat payout through Circle's CPN, under an    *)
(* idempotency key chosen by the client.  One key of one user is modelled, *)
(* with the CpnLock of that key, the KV records about it, the requests     *)
(* that use it (retries, concurrent posts, other payloads) and Circle,     *)
(* which creates at most one payment for a key.                            *)
(*                                                                         *)
(* A request claims the lock, calls Circle, and then, by the answer,       *)
(* stores the payment and commits, marks the claim as pending, or releases *)
(* it.  It may be abandoned after any step, and any write may fail before  *)
(* or after taking effect.  KV reads are best effort: a record that cannot *)
(* be read counts as absent.                                               *)
(***************************************************************************)
EXTENDS Naturals

CONSTANTS
    Requests,       \* POST requests with the key
    Payloads,       \* canonical payloads
    Deployments,    \* values CPN_LOCK's presence may take
    None

ASSUME CpnAssumption ==
    /\ Deployments \subseteq BOOLEAN
    /\ None \notin Requests \cup Payloads

VARIABLES
    lockBound,  \* CPN_LOCK is bound; otherwise the KV fallback is allowed
    lock,       \* the CpnLock's claim
    alarm,      \* its alarm is set
    reserve,    \* KV cpn_reserve: the request that wrote it
    idem,       \* KV cpn_idem: the payload of the payment it names
    pending,    \* KV cpn_pending: the payload whose outcome is unknown
    pc,         \* where each request is
    payload,    \* what it asks for
    call,       \* what became of its call to Circle
    payment,    \* the payload of the payment Circle created for the key
    outlived    \* has the alarm ever gone off under a live request?

lockVars == <<lock, alarm>>
kvVars   == <<reserve, idem, pending>>
vars     == <<lockBound, lock, alarm, reserve, idem, pending, pc, payload, call, payment, outlived>>

-------------------------------------------------------------------------------
(* Values *)

Free   == [payload |-> None, status |-> "free"]
Claim(p, status) == [payload |-> p, status |-> status]
Claims == {Free} \cup
          [payload : Payloads, status : {"processing", "pending_reconciliation", "committed"}]

\* Circle's answers: a payment, a 2xx that names none, a refusal, a 5xx.
Answers == {"id", "noId", "4xx", "5xx"}
Calls   == {"unsent", "sent"} \cup Answers

\* From winning the claim to the last call to the lock.
Holding == {"call", "promote", "commit", "markPending", "release"}
Steps   == {"idle", "claim", "kvPut", "kvCheck", "clear", "writePending", "done"} \cup Holding

Init ==
    /\ lockBound \in Deployments
    /\ lock = Free /\ alarm = FALSE
    /\ reserve = None /\ idem = None /\ pending = None
    /\ pc = [r \in Requests |-> "idle"]
    /\ payload = [r \in Requests |-> None]
    /\ call = [r \in Requests |-> "unsent"]
    /\ payment = None /\ outlived = FALSE

At(r, step)   == pc[r] = step
Goto(r, step) == pc' = [pc EXCEPT ![r] = step]

-------------------------------------------------------------------------------
(* Checks and reservation *)

\* A record of a payment answers the request (a replay, or the key is reused);
\* one of another payload's unknown outcome refuses it.  Neither stops it when
\* it cannot be read.
Receive(r, p) ==
    /\ At(r, "idle")
    /\ payload' = [payload EXCEPT ![r] = p]
    /\ \/ Goto(r, "claim")
       \/ (idem # None \/ pending \notin {None, p}) /\ Goto(r, "done")
    /\ UNCHANGED <<lockBound, lockVars, kvVars, call, payment, outlived>>

\* Mutants of CanClaim: a pending or a running claim of the same payload, or a
\* committed one, handed out as a new one.
CanClaim_Same(p) == lock = Free \/ (lock.payload = p /\ lock.status # "committed")
CanClaim_Committed(p) == lock = Free \/ (lock.payload = p /\ lock.status # "processing")

\* CpnLock 'claim': free, or the same payload's unknown outcome, which one
\* request at a time may reconcile.
CanClaim(p) == lock \in {Free, Claim(p, "pending_reconciliation")}

\* Mutant of Claimed: the alarm is not set.
Claimed_NoAlarm(p) == lock' = Claim(p, "processing") /\ UNCHANGED alarm

Claimed(p) == lock' = Claim(p, "processing") /\ alarm' = TRUE

TakeLock(r) ==
    /\ At(r, "claim") /\ lockBound
    /\ \/ CanClaim(payload[r]) /\ Claimed(payload[r]) /\ Goto(r, "call")
       \/ ~CanClaim(payload[r]) /\ Goto(r, "done") /\ UNCHANGED lockVars
    /\ UNCHANGED <<lockBound, kvVars, payload, call, payment, outlived>>

\* The KV fallback: write, then read again.
KvReserve(r) ==
    /\ At(r, "claim") /\ ~lockBound
    /\ IF reserve = None THEN Goto(r, "kvPut") ELSE Goto(r, "done")
    /\ UNCHANGED <<lockBound, lockVars, kvVars, payload, call, payment, outlived>>

KvReservePut(r) ==
    /\ At(r, "kvPut")
    /\ reserve' = r
    /\ Goto(r, "kvCheck")
    /\ UNCHANGED <<lockBound, lockVars, idem, pending, payload, call, payment, outlived>>

KvReserveCheck(r) ==
    /\ At(r, "kvCheck")
    /\ IF reserve \in {None, r} THEN Goto(r, "call") ELSE Goto(r, "done")
    /\ UNCHANGED <<lockBound, lockVars, kvVars, payload, call, payment, outlived>>

-------------------------------------------------------------------------------
(* The call to Circle *)

Send(r) ==
    /\ At(r, "call") /\ call[r] = "unsent"
    /\ call' = [call EXCEPT ![r] = "sent"]
    /\ UNCHANGED <<lockBound, lockVars, kvVars, pc, payload, payment, outlived>>

\* Mutants of AfterAnswer: a refusal that is tried again, outside the steps of
\* the handler; an uncertain answer taken for a payment.
AfterAnswer_Retry(answer) ==
    CASE answer = "id" -> "promote"
      [] answer = "noId" -> "done"
      [] answer \in {"4xx", "5xx"} -> "retry"

AfterAnswer_Uncertain(answer) ==
    CASE answer \in {"id", "5xx"} -> "promote"
      [] answer = "noId" -> "done"
      [] answer = "4xx" -> "release"

\* What the handler does with an answer: a 2xx that names no payment is passed
\* on, and the claim left to its alarm.
AfterAnswer(answer) ==
    CASE answer = "id" -> "promote"
      [] answer = "noId" -> "done"
      [] answer \in {"4xx", "5xx"} -> "release"

Answered(r) ==
    /\ At(r, "call") /\ call[r] \in Answers
    /\ Goto(r, AfterAnswer(call[r]))
    /\ UNCHANGED <<lockBound, lockVars, kvVars, payload, call, payment, outlived>>

\* The fetch throws: the outcome is unknown.
NetworkError(r) ==
    /\ At(r, "call") /\ call[r] # "unsent"
    /\ Goto(r, IF lockBound THEN "markPending" ELSE "writePending")
    /\ UNCHANGED <<lockBound, lockVars, kvVars, payload, call, payment, outlived>>

-------------------------------------------------------------------------------
(* After the answer *)

\* The record of the payment and that of its owner are written; either write
\* may fail, the second after the first has succeeded.
Promote(r) ==
    /\ At(r, "promote")
    /\ \/ /\ idem' = payload[r]
          /\ reserve' = IF lockBound THEN reserve ELSE None
          /\ Goto(r, IF lockBound THEN "commit" ELSE "clear")
       \/ /\ \/ UNCHANGED <<idem, reserve>>
             \/ idem' = payload[r] /\ reserve' = IF lockBound THEN reserve ELSE None
          /\ Goto(r, IF lockBound THEN "markPending" ELSE "writePending")
    /\ UNCHANGED <<lockBound, lockVars, pending, payload, call, payment, outlived>>

\* CpnLock 'commit' and 'markPending': only over a claim of the same payload.
SetStatus(r, status) ==
    IF lock.payload = payload[r]
    THEN lock' = Claim(payload[r], status) /\ alarm' = FALSE
    ELSE UNCHANGED lockVars

\* The handler goes on whether or not a call to the lock succeeds.
Commit(r) ==
    /\ At(r, "commit")
    /\ SetStatus(r, "committed") \/ UNCHANGED lockVars
    /\ Goto(r, "clear")
    /\ UNCHANGED <<lockBound, kvVars, payload, call, payment, outlived>>

MarkPending(r) ==
    /\ At(r, "markPending")
    /\ SetStatus(r, "pending_reconciliation") \/ UNCHANGED lockVars
    /\ Goto(r, "writePending")
    /\ UNCHANGED <<lockBound, kvVars, payload, call, payment, outlived>>

\* CpnLock 'release': the claim goes if it is of the same payload, the alarm in
\* any case.
Release(r) ==
    /\ At(r, "release")
    /\ \/ /\ lockBound
          /\ lock' = IF lock.payload = payload[r] THEN Free ELSE lock
          /\ alarm' = FALSE
          /\ UNCHANGED reserve
       \/ ~lockBound /\ reserve' = None /\ UNCHANGED lockVars
       \/ UNCHANGED <<lockVars, reserve>>
    /\ Goto(r, "done")
    /\ UNCHANGED <<lockBound, idem, pending, payload, call, payment, outlived>>

WritePending(r) ==
    /\ At(r, "writePending")
    /\ pending' \in {pending, payload[r]}
    /\ Goto(r, "done")
    /\ UNCHANGED <<lockBound, lockVars, reserve, idem, payload, call, payment, outlived>>

ClearPending(r) ==
    /\ At(r, "clear")
    /\ pending' \in {pending, None}
    /\ Goto(r, "done")
    /\ UNCHANGED <<lockBound, lockVars, reserve, idem, payload, call, payment, outlived>>

\* The worker dies.
Abandon(r) ==
    /\ pc[r] \notin {"idle", "done"}
    /\ Goto(r, "done")
    /\ UNCHANGED <<lockBound, lockVars, kvVars, payload, call, payment, outlived>>

-------------------------------------------------------------------------------
(* The alarm, expiring records, Circle *)

\* 120 s after the claim, whether or not its request still waits for Circle,
\* whose answer has no timeout.
AlarmFires ==
    /\ alarm
    /\ alarm' = FALSE
    /\ lock' = IF lock.status = "processing"
               THEN Claim(lock.payload, "pending_reconciliation") ELSE lock
    /\ outlived' = (outlived \/ \E r \in Requests : pc[r] \in Holding)
    /\ UNCHANGED <<lockBound, kvVars, pc, payload, call, payment>>

\* KV records expire: a reservation after 120 s, the others after a day or more.
KvExpires ==
    /\ \/ reserve # None /\ reserve' = None /\ UNCHANGED <<idem, pending>>
       \/ idem # None /\ idem' = None /\ UNCHANGED <<reserve, pending>>
       \/ pending # None /\ pending' = None /\ UNCHANGED <<reserve, idem>>
    /\ UNCHANGED <<lockBound, lockVars, pc, payload, call, payment, outlived>>

\* Circle handles a call it received, even after its caller gave up.  The key
\* makes it create one payment: for its payload it is returned again, another
\* payload is refused.  A 5xx leaves open whether the payment was created.
CircleHandles(r, answer) ==
    /\ call[r] = "sent"
    /\ call' = [call EXCEPT ![r] = answer]
    /\ payment' \in {payment, payload[r]}
    /\ payment # None => payment' = payment
    /\ answer \in {"id", "noId"} => payment' = payload[r]
    /\ answer = "4xx" => payment' = payment
    /\ UNCHANGED <<lockBound, lockVars, kvVars, pc, payload, outlived>>

-------------------------------------------------------------------------------
(* Specification *)

Continue(r) ==
    \/ TakeLock(r) \/ KvReserve(r) \/ KvReservePut(r) \/ KvReserveCheck(r)
    \/ Send(r) \/ Answered(r) \/ NetworkError(r)
    \/ Promote(r) \/ Commit(r) \/ MarkPending(r) \/ Release(r)
    \/ WritePending(r) \/ ClearPending(r)

Next ==
    \/ \E r \in Requests : Continue(r) \/ Abandon(r)
    \/ \E r \in Requests, p \in Payloads : Receive(r, p)
    \/ AlarmFires \/ KvExpires
    \/ \E r \in Requests, answer \in Answers : CircleHandles(r, answer)

Spec == Init /\ [][Next]_vars

\* A live request goes on (its fetch ends with an answer or throws), and an
\* alarm that was set fires.
FairSpec ==
    /\ Spec
    /\ \A r \in Requests : WF_vars(Continue(r))
    /\ WF_vars(AlarmFires)

-------------------------------------------------------------------------------
(* Properties *)

TypeOK ==
    /\ lockBound \in BOOLEAN
    /\ lock \in Claims /\ alarm \in BOOLEAN
    /\ reserve \in Requests \cup {None}
    /\ idem \in Payloads \cup {None} /\ pending \in Payloads \cup {None}
    /\ pc \in [Requests -> Steps]
    /\ payload \in [Requests -> Payloads \cup {None}]
    /\ call \in [Requests -> Calls]
    /\ payment \in Payloads \cup {None} /\ outlived \in BOOLEAN

\* With the lock, one request at a time is between its claim and the end of its
\* business with Circle: concurrent posts and reconciling retries wait, until an
\* alarm goes off under a live request.
OneCallInFlight ==
    lockBound /\ ~outlived => \A r, q \in Requests :
        pc[r] \in Holding /\ pc[q] \in Holding => r = q

\* A replay tells the client of a payment Circle did create, with the payload
\* the record is bound to: what is stored under the key, in the lock or in KV,
\* agrees with Circle.
ReplayIsPaid ==
    /\ lock.status = "committed" => payment = lock.payload
    /\ idem # None => payment = idem

\* A committed key is never claimed again, nor released by a late request, with
\* the same exception.
CommittedForGood ==
    [][lock.status = "committed" /\ ~outlived => lock' = lock]_vars

\* A key does not stay blocked by a request that ended without telling the lock.
\* (A request that its alarm outran may clear the alarm of the next one's claim.)
ClaimResolves ==
    lock.status = "processing" ~> lock.status # "processing" \/ outlived
-------------------------------------------------------------------------------
(* The lock as its callers see it *)

\* Who has won the claim and not yet ended it, and the payload it is for.  A
\* worker without the binding uses no lock.
Inside == {<<r, payload[r]>> : r \in {q \in Requests : lockBound /\ pc[q] \in Holding}}
Closed == lock.status = "committed"
Lapsed == lockBound /\ outlived

Lock == INSTANCE ClaimLock WITH
    Clients <- Requests, Owners <- Payloads,
    inside <- Inside, held <- lock.payload, closed <- Closed, lapsed <- Lapsed

\* The lock of a key lets one request at a time do business with Circle, and none
\* once a payment has been committed under it, until an alarm goes off under a
\* live request; from then on it still keeps each payload's claim from requests
\* with another payload.
ImplementsLock == Lock!Spec
==============================================================================
