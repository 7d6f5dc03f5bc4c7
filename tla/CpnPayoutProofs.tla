--------------------------- MODULE CpnPayoutProofs ---------------------------
(***************************************************************************)
(* Theorems about CpnPayout for every number of requests and payloads.     *)
(* That a replay tells of a payment Circle created holds in any            *)
(* deployment.  That one request at a time deals with Circle, and that a   *)
(* commit is never lifted, holds until an alarm goes off under a live      *)
(* request; what the lock still keeps then is in LockRefined.              *)
(***************************************************************************)
EXTENDS CpnPayout, TLAPS

\* A request that has been received knows its payload.
PayloadKnown == \A r \in Requests : pc[r] # "idle" => payload[r] \in Payloads

TypeInv == TypeOK /\ PayloadKnown

LEMMA LockValues ==
    /\ Free \in Claims
    /\ \A p \in Payloads, status \in {"processing", "pending_reconciliation", "committed"} :
          Claim(p, status) \in Claims
    /\ \A p, status : Claim(p, status).payload = p /\ Claim(p, status).status = status
    /\ Free.payload = None /\ Free.status = "free"
    /\ \A c \in Claims \ {Free} : c.payload \in Payloads
  BY DEF Free, Claims, Claim

LEMMA GotoDoes ==
    ASSUME TypeOK, NEW r \in Requests, NEW step, Goto(r, step)
    PROVE  /\ pc'[r] = step
           /\ \A q \in Requests \ {r} : pc'[q] = pc[q]
           /\ step \in Steps => pc' \in [Requests -> Steps]
  BY DEF Goto, TypeOK

-------------------------------------------------------------------------------
(* Types *)

LEMMA InitTyped == Init => TypeInv
<1>1. SUFFICES ASSUME Init PROVE TypeInv
  OBVIOUS
<1>2. pc \in [Requests -> Steps] /\ call \in [Requests -> Calls]
      /\ payload \in [Requests -> Payloads \cup {None}]
  BY <1>1 DEF Init, Steps, Calls
<1>3. lockBound \in BOOLEAN /\ lock \in Claims /\ alarm \in BOOLEAN /\ outlived \in BOOLEAN
  BY <1>1, LockValues, CpnAssumption DEF Init, CpnAssumption
<1>4. PayloadKnown
  BY <1>1 DEF Init, PayloadKnown
<1>5. QED
  BY <1>1, <1>2, <1>3, <1>4 DEF Init, TypeInv, TypeOK

\* What a request does to the lock is well formed.
LEMMA LockTyped ==
    ASSUME TypeInv, NEW r \in Requests, pc[r] # "idle",
           \/ Claimed(payload[r])
           \/ \E status \in {"committed", "pending_reconciliation"} : SetStatus(r, status)
           \/ UNCHANGED lockVars
    PROVE  lock' \in Claims /\ alarm' \in BOOLEAN
<1>1. payload[r] \in Payloads
  BY DEF TypeInv, PayloadKnown
<1>2. QED
  BY <1>1, LockValues DEF Claimed, SetStatus, lockVars, TypeInv, TypeOK

LEMMA ContinueTyped ==
    ASSUME TypeInv, NEW r \in Requests, Continue(r) \/ Abandon(r)
    PROVE  TypeInv'
<1>0. TypeOK /\ PayloadKnown
  BY DEF TypeInv
<1>1. pc[r] # "idle" /\ \E step \in Steps \ {"idle"} : pc' = pc \/ Goto(r, step)
  BY DEF Continue, Abandon, TakeLock, KvReserve, KvReservePut, KvReserveCheck, Send, Answered,
         AfterAnswer, Answers, NetworkError, Promote, Commit, MarkPending, Release, WritePending,
         ClearPending, At, Steps, Holding
<1>2. UNCHANGED <<payload, lockBound, payment, outlived>>
  BY DEF Continue, Abandon, TakeLock, KvReserve, KvReservePut, KvReserveCheck, Send, Answered,
         NetworkError, Promote, Commit, MarkPending, Release, WritePending, ClearPending
<1>3. payload[r] \in Payloads
  BY <1>0, <1>1 DEF PayloadKnown
<1>4. pc' \in [Requests -> Steps] /\ PayloadKnown'
  BY <1>0, <1>1, <1>2, <1>3, GotoDoes DEF TypeOK, PayloadKnown
<1>5. lock' \in Claims /\ alarm' \in BOOLEAN
  <2>1. CASE Release(r)
    BY <2>1, <1>0, LockValues DEF Release, lockVars, TypeOK
  <2>2. CASE ~Release(r)
    <3>1. \/ Claimed(payload[r])
          \/ \E status \in {"committed", "pending_reconciliation"} : SetStatus(r, status)
          \/ UNCHANGED lockVars
      BY <2>2 DEF Continue, Abandon, TakeLock, KvReserve, KvReservePut, KvReserveCheck, Send,
             Answered, NetworkError, Promote, Commit, MarkPending, WritePending, ClearPending
    <3>2. QED
      BY <3>1, <1>1, LockTyped
  <2>3. QED
    BY <2>1, <2>2
<1>6. /\ reserve' \in Requests \cup {None}
      /\ idem' \in Payloads \cup {None} /\ pending' \in Payloads \cup {None}
  BY <1>0, <1>3 DEF Continue, Abandon, TakeLock, KvReserve, KvReservePut, KvReserveCheck, Send,
         Answered, NetworkError, Promote, Commit, MarkPending, Release, WritePending,
         ClearPending, kvVars, TypeOK
<1>7. call' \in [Requests -> Calls]
  <2>1. call' = call \/ call' = [call EXCEPT ![r] = "sent"]
    BY DEF Continue, Abandon, TakeLock, KvReserve, KvReservePut, KvReserveCheck, Send, Answered,
           NetworkError, Promote, Commit, MarkPending, Release, WritePending, ClearPending
  <2>2. QED
    BY <2>1, <1>0 DEF TypeOK, Calls
<1>8. QED
  BY <1>0, <1>2, <1>4, <1>5, <1>6, <1>7 DEF TypeInv, TypeOK

LEMMA StepTyped == TypeInv /\ [Next]_vars => TypeInv'
<1>1. SUFFICES ASSUME TypeInv, [Next]_vars PROVE TypeInv'
  OBVIOUS
<1>2. CASE UNCHANGED vars
  BY <1>1, <1>2 DEF vars, TypeInv, TypeOK, PayloadKnown
<1>3. ASSUME NEW r \in Requests, Continue(r) \/ Abandon(r) PROVE TypeInv'
  BY <1>1, <1>3, ContinueTyped
<1>4. ASSUME NEW r \in Requests, NEW p \in Payloads, Receive(r, p) PROVE TypeInv'
  <2>1. pc' \in [Requests -> Steps] /\ payload' \in [Requests -> Payloads \cup {None}]
    BY <1>1, <1>4 DEF Receive, Goto, Steps, TypeInv, TypeOK
  <2>2. payload'[r] = p /\ \A q \in Requests \ {r} : payload'[q] = payload[q] /\ pc'[q] = pc[q]
    BY <1>1, <1>4 DEF Receive, Goto, TypeInv, TypeOK
  <2>3. QED
    BY <1>1, <1>4, <2>1, <2>2 DEF Receive, lockVars, kvVars, TypeInv, TypeOK, PayloadKnown
<1>5. CASE AlarmFires
  <2>1. lock.status = "processing" => lock.payload \in Payloads
    BY <1>1, LockValues DEF TypeInv, TypeOK
  <2>2. lock' \in Claims
    BY <1>1, <1>5, <2>1, LockValues DEF AlarmFires, TypeInv, TypeOK
  <2>3. QED
    BY <1>1, <1>5, <2>2 DEF AlarmFires, kvVars, TypeInv, TypeOK, PayloadKnown
<1>6. CASE KvExpires
  BY <1>1, <1>6 DEF KvExpires, lockVars, TypeInv, TypeOK, PayloadKnown
<1>7. ASSUME NEW r \in Requests, NEW answer \in Answers, CircleHandles(r, answer) PROVE TypeInv'
  <2>1. call' \in [Requests -> Calls] /\ payment' \in Payloads \cup {None}
    BY <1>1, <1>7 DEF CircleHandles, TypeInv, TypeOK, Calls
  <2>2. QED
    BY <1>1, <1>7, <2>1 DEF CircleHandles, lockVars, kvVars, TypeInv, TypeOK, PayloadKnown
<1>8. QED
  BY <1>1, <1>2, <1>3, <1>4, <1>5, <1>6, <1>7 DEF Next

LEMMA AlwaysTyped == Spec => []TypeInv
  BY InitTyped, StepTyped, PTL DEF Spec

\* Type correctness: the claim of the key, its records and its requests are
\* always well formed, with and without the lock.
THEOREM TypeCorrect == Spec => []TypeOK
<1>1. TypeInv => TypeOK
  BY DEF TypeInv
<1>2. QED
  BY <1>1, AlwaysTyped, PTL

-------------------------------------------------------------------------------
(* What is replayed was paid *)

IdleUnsent    == \A r \in Requests : pc[r] = "idle" => call[r] = "unsent"
AnsweredPaid  == \A r \in Requests : call[r] \in {"id", "noId"} => payment = payload[r]
PromotesPaid  == \A r \in Requests : pc[r] \in {"promote", "commit"} => call[r] = "id"
ReplayInv     == IdleUnsent /\ AnsweredPaid /\ PromotesPaid /\ ReplayIsPaid

LEMMA InitReplay == Init => ReplayInv
  BY LockValues DEF Init, ReplayInv, IdleUnsent, AnsweredPaid, PromotesPaid, ReplayIsPaid

LEMMA ReplayByRequest ==
    ASSUME TypeInv, ReplayInv, NEW r \in Requests, Continue(r) \/ Abandon(r)
    PROVE  ReplayInv'
<1>0. IdleUnsent /\ AnsweredPaid /\ PromotesPaid /\ ReplayIsPaid /\ TypeOK /\ PayloadKnown
  BY DEF ReplayInv, TypeInv
<1>1. payment' = payment /\ payload' = payload /\ pc[r] # "idle"
  BY DEF Continue, Abandon, TakeLock, KvReserve, KvReservePut, KvReserveCheck, Send, Answered,
         NetworkError, Promote, Commit, MarkPending, Release, WritePending, ClearPending, At
<1>2. \A q \in Requests \ {r} : pc'[q] = pc[q] /\ call'[q] = call[q]
  BY <1>0 DEF TypeOK, Continue, Abandon, TakeLock, KvReserve, KvReservePut, KvReserveCheck, Send,
         Answered, NetworkError, Promote, Commit, MarkPending, Release, WritePending,
         ClearPending, Goto
<1>3. /\ call'[r] \in {call[r], "sent"}
      /\ call[r] # "unsent" => call'[r] = call[r]
  BY <1>0 DEF TypeOK, Continue, Abandon, TakeLock, KvReserve, KvReservePut, KvReserveCheck, Send,
         Answered, NetworkError, Promote, Commit, MarkPending, Release, WritePending,
         ClearPending
<1>4. /\ pc'[r] # "idle"
      /\ pc'[r] = "promote" => call[r] = "id"
      /\ pc'[r] = "commit" => pc[r] = "promote"
  <2>1. CASE Send(r)
    BY <2>1, <1>0, <1>1 DEF Send, At
  <2>2. CASE Answered(r)
    BY <2>2, <1>0, GotoDoes DEF Answered, AfterAnswer, Answers
  <2>3. CASE Promote(r)
    BY <2>3, <1>0, GotoDoes DEF Promote, At
  <2>4. CASE ~Send(r) /\ ~Answered(r) /\ ~Promote(r)
    <3>1. \E step \in Steps \ {"idle", "promote", "commit"} : Goto(r, step)
      BY <2>4 DEF Continue, Abandon, TakeLock, KvReserve, KvReservePut, KvReserveCheck,
             NetworkError, Commit, MarkPending, Release, WritePending, ClearPending, Steps, Holding
    <3>2. QED
      BY <3>1, <1>0, GotoDoes
  <2>5. QED
    BY <2>1, <2>2, <2>3, <2>4
<1>5. IdleUnsent'
  BY <1>0, <1>2, <1>4 DEF IdleUnsent
<1>6. AnsweredPaid'
  BY <1>0, <1>1, <1>2, <1>3 DEF AnsweredPaid
<1>7. PromotesPaid'
  BY <1>0, <1>2, <1>3, <1>4 DEF PromotesPaid
<1>8. pc[r] \in {"promote", "commit"} => payment = payload[r]
  BY <1>0 DEF AnsweredPaid, PromotesPaid
<1>9. idem' # None => payment' = idem'
  <2>1. idem' = idem \/ (pc[r] = "promote" /\ idem' = payload[r])
    BY DEF Continue, Abandon, TakeLock, KvReserve, KvReservePut, KvReserveCheck, Send, Answered,
           NetworkError, Promote, Commit, MarkPending, Release, WritePending, ClearPending,
           kvVars, At
  <2>2. QED
    BY <2>1, <1>0, <1>1, <1>8 DEF ReplayIsPaid
<1>10. lock'.status = "committed" => payment' = lock'.payload
  <2>1. CASE lock' = lock
    BY <2>1, <1>0, <1>1 DEF ReplayIsPaid
  <2>2. CASE Commit(r)
    BY <2>1, <2>2, <1>1, <1>8, LockValues DEF Commit, SetStatus, lockVars, At
  <2>3. CASE TakeLock(r) \/ MarkPending(r) \/ Release(r)
    BY <2>1, <2>3, LockValues DEF TakeLock, Claimed, MarkPending, Release, SetStatus, lockVars
  <2>4. QED
    BY <2>1, <2>2, <2>3 DEF Continue, Abandon, KvReserve, KvReservePut, KvReserveCheck, Send,
           Answered, NetworkError, Promote, WritePending, ClearPending, lockVars
<1>11. QED
  BY <1>5, <1>6, <1>7, <1>9, <1>10 DEF ReplayInv, ReplayIsPaid

LEMMA StepReplay == TypeInv /\ ReplayInv /\ [Next]_vars => ReplayInv'
<1>1. SUFFICES ASSUME TypeInv, ReplayInv, [Next]_vars PROVE ReplayInv'
  OBVIOUS
<1>2. CASE UNCHANGED vars
  BY <1>1, <1>2 DEF vars, ReplayInv, IdleUnsent, AnsweredPaid, PromotesPaid, ReplayIsPaid
<1>3. ASSUME NEW r \in Requests, Continue(r) \/ Abandon(r) PROVE ReplayInv'
  BY <1>1, <1>3, ReplayByRequest
<1>4. ASSUME NEW r \in Requests, NEW p \in Payloads, Receive(r, p) PROVE ReplayInv'
  <2>1. /\ \A q \in Requests \ {r} : pc'[q] = pc[q] /\ payload'[q] = payload[q]
        /\ pc[r] = "idle" /\ pc'[r] \in {"claim", "done"}
        /\ UNCHANGED <<lock, idem, call, payment>>
    BY <1>1, <1>4 DEF Receive, At, Goto, lockVars, kvVars, TypeInv, TypeOK
  <2>2. QED
    BY <1>1, <2>1 DEF ReplayInv, IdleUnsent, AnsweredPaid, PromotesPaid, ReplayIsPaid
<1>5. CASE AlarmFires
  BY <1>1, <1>5, LockValues
  DEF AlarmFires, kvVars, ReplayInv, IdleUnsent, AnsweredPaid, PromotesPaid, ReplayIsPaid
<1>6. CASE KvExpires
  BY <1>1, <1>6
  DEF KvExpires, lockVars, ReplayInv, IdleUnsent, AnsweredPaid, PromotesPaid, ReplayIsPaid
<1>7. ASSUME NEW r \in Requests, NEW answer \in Answers, CircleHandles(r, answer) PROVE ReplayInv'
  <2>1. /\ call[r] = "sent" /\ call'[r] = answer
        /\ \A q \in Requests \ {r} : call'[q] = call[q]
        /\ UNCHANGED <<lock, idem, pc, payload>>
        /\ payment # None => payment' = payment
        /\ answer \in {"id", "noId"} => payment' = payload[r]
    BY <1>1, <1>7 DEF CircleHandles, lockVars, kvVars, TypeInv, TypeOK
  <2>2. \A q \in Requests : call[q] # "unsent" => payload[q] \in Payloads
    BY <1>1 DEF ReplayInv, IdleUnsent, TypeInv, PayloadKnown
  <2>3. \A q \in Requests : call[q] \in {"id", "noId"} => payment' = payment
    BY <1>1, <2>1, <2>2, CpnAssumption DEF CpnAssumption, ReplayInv, AnsweredPaid
  <2>4. IdleUnsent' /\ PromotesPaid'
    BY <1>1, <2>1 DEF ReplayInv, IdleUnsent, PromotesPaid
  <2>5. AnsweredPaid'
    BY <1>1, <2>1, <2>3 DEF ReplayInv, AnsweredPaid
  <2>6. lock.status = "committed" => payment # None
    BY <1>1, LockValues, CpnAssumption DEF ReplayInv, ReplayIsPaid, TypeInv, TypeOK, CpnAssumption
  <2>7. ReplayIsPaid'
    BY <1>1, <2>1, <2>6 DEF ReplayInv, ReplayIsPaid
  <2>8. QED
    BY <2>4, <2>5, <2>7 DEF ReplayInv
<1>8. QED
  BY <1>1, <1>2, <1>3, <1>4, <1>5, <1>6, <1>7 DEF Next

\* Whatever fails, and however long requests take, a committed claim and a
\* stored record name the payment Circle created for the key.
THEOREM ReplayIsTrue == Spec => []ReplayIsPaid
<1>1. ReplayInv => ReplayIsPaid
  BY DEF ReplayInv
<1>2. QED
  BY <1>1, InitReplay, StepReplay, AlwaysTyped, PTL DEF Spec

-------------------------------------------------------------------------------
(* One request at a time deals with Circle *)

Holder(r) == pc[r] \in Holding

\* The request that holds the key is the only one, and its claim is running: this
\* much is lost when an alarm goes off under a live request.
HoldersClaim == \A r \in Requests : Holder(r) => lock = Claim(payload[r], "processing")
HoldersAlone == \A r, q \in Requests : Holder(r) /\ Holder(q) => r = q
NoKvSteps    == \A r \in Requests : pc[r] \notin {"kvPut", "kvCheck"}
LockUnused   == lock = Free /\ \A r \in Requests : pc[r] \notin {"commit", "markPending"}

HoldInv ==
    /\ lockBound /\ ~outlived => HoldersClaim /\ HoldersAlone
    /\ lockBound => NoKvSteps
    /\ ~lockBound => LockUnused

LEMMA InitHold == Init => HoldInv
  BY DEF Init, HoldInv, HoldersClaim, HoldersAlone, NoKvSteps, LockUnused, Holder, Holding

LEMMA OthersWait ==
    ASSUME TypeInv, NEW r \in Requests, Continue(r) \/ Abandon(r)
    PROVE  /\ \A q \in Requests \ {r} : pc'[q] = pc[q]
           /\ UNCHANGED <<lockBound, payload, outlived>>
  BY DEF TypeInv, TypeOK, Continue, Abandon, TakeLock, KvReserve, KvReservePut, KvReserveCheck,
         Send, Answered, NetworkError, Promote, Commit, MarkPending, Release, WritePending,
         ClearPending, Goto

LEMMA HoldByRequest ==
    ASSUME TypeInv, HoldInv, lockBound, NEW r \in Requests, Continue(r) \/ Abandon(r)
    PROVE  HoldInv'
<1>1. /\ \A q \in Requests \ {r} : pc'[q] = pc[q]
      /\ UNCHANGED <<lockBound, payload, outlived>>
  BY OthersWait
<1>2. (~outlived => HoldersClaim /\ HoldersAlone) /\ NoKvSteps /\ TypeOK
  BY DEF HoldInv, TypeInv
\* A step that takes the lock finds no holder; one that ends a claim is its holder's.
<1>3. ASSUME ~outlived => \A q \in Requests \ {r} : ~Holder(q), ~Holder(r)', pc'[r] \notin {"kvPut", "kvCheck"}
      PROVE  HoldInv'
  BY <1>1, <1>2, <1>3 DEF HoldInv, HoldersClaim, HoldersAlone, NoKvSteps, Holder
<1>4. ASSUME Holder(r)' => Holder(r), lock' = lock, pc'[r] \notin {"kvPut", "kvCheck"}
      PROVE  HoldInv'
  <2>1. ~outlived => HoldersClaim'
    BY <1>1, <1>2, <1>4 DEF HoldersClaim, Holder
  <2>2. ~outlived => HoldersAlone'
    BY <1>1, <1>2, <1>4 DEF HoldersAlone, Holder
  <2>3. NoKvSteps'
    BY <1>1, <1>2, <1>4 DEF NoKvSteps
  <2>4. QED
    BY <1>1, <2>1, <2>2, <2>3 DEF HoldInv
<1>5. CASE TakeLock(r)
  <2>1. CASE CanClaim(payload[r]) /\ Claimed(payload[r]) /\ Goto(r, "call")
    <3>1. lock # Claim(payload[r], "processing") /\ lock.status # "processing"
      BY <2>1, LockValues DEF CanClaim
    <3>2. ~outlived => \A q \in Requests : ~Holder(q)
      BY <3>1, <1>2, LockValues DEF HoldersClaim
    <3>3. pc'[r] = "call" /\ lock' = Claim(payload[r], "processing")
      BY <2>1, <1>2, GotoDoes DEF Claimed
    <3>4. (~outlived => HoldersClaim' /\ HoldersAlone') /\ NoKvSteps'
      BY <3>2, <3>3, <1>1, <1>2 DEF HoldersClaim, HoldersAlone, NoKvSteps, Holder
    <3>5. QED
      BY <3>4, <1>1 DEF HoldInv
  <2>2. CASE Goto(r, "done") /\ UNCHANGED lockVars
    BY <2>2, <1>2, <1>4, GotoDoes DEF lockVars, Holder, Holding
  <2>3. QED
    BY <1>5, <2>1, <2>2 DEF TakeLock
<1>6. CASE Commit(r) \/ MarkPending(r) \/ Release(r)
  <2>1. Holder(r) /\ (Goto(r, "clear") \/ Goto(r, "writePending") \/ Goto(r, "done"))
    BY <1>6 DEF Commit, MarkPending, Release, At, Holder, Holding
  <2>2. ~outlived => \A q \in Requests \ {r} : ~Holder(q)
    BY <2>1, <1>2 DEF HoldersAlone
  <2>3. pc'[r] \in {"clear", "writePending", "done"}
    BY <2>1, <1>2, GotoDoes
  <2>4. QED
    BY <2>2, <2>3, <1>3 DEF Holder, Holding
<1>7. CASE Send(r) \/ Answered(r) \/ NetworkError(r) \/ Promote(r)
  <2>1. Holder(r) /\ lock' = lock
    BY <1>7 DEF Send, Answered, NetworkError, Promote, At, Holder, Holding, lockVars
  <2>2. pc'[r] \notin {"kvPut", "kvCheck"}
    <3>1. \/ pc' = pc
          \/ \E step \in {"promote", "done", "release", "commit", "markPending", "writePending", "clear"} :
                Goto(r, step)
      BY <1>7 DEF Send, Answered, NetworkError, Promote, AfterAnswer, Answers
    <3>2. QED
      BY <3>1, <1>2, GotoDoes DEF NoKvSteps
  <2>3. QED
    BY <2>1, <2>2, <1>4
<1>8. CASE WritePending(r) \/ ClearPending(r) \/ Abandon(r)
  <2>1. Goto(r, "done") /\ lock' = lock
    BY <1>8 DEF WritePending, ClearPending, Abandon, lockVars
  <2>2. QED
    BY <2>1, <1>2, <1>4, GotoDoes DEF Holder, Holding
<1>9. ~KvReserve(r) /\ ~KvReservePut(r) /\ ~KvReserveCheck(r)
  BY <1>2 DEF KvReserve, KvReservePut, KvReserveCheck, At, NoKvSteps
<1>10. QED
  BY <1>5, <1>6, <1>7, <1>8, <1>9 DEF Continue

\* Without the binding nothing touches the lock.
LEMMA UnusedByRequest ==
    ASSUME TypeInv, HoldInv, ~lockBound, NEW r \in Requests, Continue(r) \/ Abandon(r)
    PROVE  HoldInv'
<1>1. /\ \A q \in Requests \ {r} : pc'[q] = pc[q]
      /\ UNCHANGED <<lockBound, payload, outlived>>
  BY OthersWait
<1>2. LockUnused /\ TypeOK
  BY DEF HoldInv, TypeInv
<1>3. lock' = lock
  BY <1>2 DEF LockUnused, Continue, Abandon, TakeLock, KvReserve, KvReservePut, KvReserveCheck, Send,
         Answered, NetworkError, Promote, Commit, MarkPending, Release, WritePending, ClearPending,
         lockVars, At
<1>4. \/ pc' = pc
      \/ \E step \in Steps \ {"commit", "markPending"} : Goto(r, step)
  BY <1>2 DEF LockUnused, Continue, Abandon, TakeLock, KvReserve, KvReservePut, KvReserveCheck, Send,
         Answered, AfterAnswer, Answers, NetworkError, Promote, Commit, MarkPending, Release,
         WritePending, ClearPending, At, Steps, Holding
<1>5. pc'[r] \notin {"commit", "markPending"}
  BY <1>2, <1>4, GotoDoes DEF LockUnused
<1>6. QED
  BY <1>1, <1>2, <1>3, <1>5 DEF HoldInv, LockUnused

LEMMA StepHold == TypeInv /\ HoldInv /\ [Next]_vars => HoldInv'
<1>1. SUFFICES ASSUME TypeInv, HoldInv, [Next]_vars PROVE HoldInv'
  OBVIOUS
<1> DEFINE Same == UNCHANGED <<lockBound, lock, outlived>>
<1>2. ASSUME Same, payload' = payload, pc' = pc PROVE HoldInv'
  BY <1>1, <1>2 DEF HoldInv, HoldersClaim, HoldersAlone, NoKvSteps, LockUnused, Holder
<1>3. CASE UNCHANGED vars
  BY <1>2, <1>3 DEF vars
<1>4. ASSUME NEW r \in Requests, Continue(r) \/ Abandon(r) PROVE HoldInv'
  BY <1>1, <1>4, HoldByRequest, UnusedByRequest
<1>5. ASSUME NEW r \in Requests, NEW p \in Payloads, Receive(r, p) PROVE HoldInv'
  <2>1. /\ \A q \in Requests \ {r} : pc'[q] = pc[q] /\ payload'[q] = payload[q]
        /\ pc'[r] \in {"claim", "done"} /\ Same
    BY <1>1, <1>5 DEF Receive, Goto, lockVars, TypeInv, TypeOK
  <2>2. ~Holder(r)'
    BY <2>1 DEF Holder, Holding
  <2>3. QED
    BY <1>1, <2>1, <2>2
    DEF HoldInv, HoldersClaim, HoldersAlone, NoKvSteps, LockUnused, Holder
\* The alarm fires when nobody holds the key, or outruns the one who does.
<1>6. CASE AlarmFires
  <2>1. /\ UNCHANGED <<lockBound, pc, payload>>
        /\ ~outlived' => ~outlived /\ \A r \in Requests : ~Holder(r)
        /\ lock.status # "processing" => lock' = lock
    BY <1>6 DEF AlarmFires, Holder
  <2>2. LockUnused => LockUnused'
    BY <2>1, LockValues DEF LockUnused
  <2>3. ~outlived' => HoldersClaim' /\ HoldersAlone'
    BY <2>1 DEF HoldersClaim, HoldersAlone, Holder
  <2>4. QED
    BY <1>1, <2>1, <2>2, <2>3 DEF HoldInv, NoKvSteps
<1>7. CASE KvExpires
  BY <1>2, <1>7 DEF KvExpires, lockVars
<1>8. ASSUME NEW r \in Requests, NEW answer \in Answers, CircleHandles(r, answer) PROVE HoldInv'
  BY <1>2, <1>8 DEF CircleHandles, lockVars
<1>9. QED
  BY <1>1, <1>3, <1>4, <1>5, <1>6, <1>7, <1>8 DEF Next

\* With the lock bound, one request at a time is between its claim and the end of
\* its business with Circle, however its calls fail, unless an alarm has gone off
\* under a live request: there is no other way to two calls at once.
THEOREM OneCall == Spec => []OneCallInFlight
<1>1. HoldInv => OneCallInFlight
  BY DEF HoldInv, HoldersAlone, Holder, OneCallInFlight
<1>2. QED
  BY <1>1, StepHold, InitHold, AlwaysTyped, PTL DEF Spec

\* A committed key is never claimed again nor released, with the same exception:
\* only a request that its alarm outran can take a commit back.
THEOREM CommitIsForGood == Spec => CommittedForGood
<1> DEFINE Kept == lock.status = "committed" /\ ~outlived => lock' = lock
<1>1. TypeInv /\ HoldInv /\ Next => Kept
  <2>1. SUFFICES ASSUME TypeInv, HoldInv, Next, lock.status = "committed", ~outlived
                 PROVE  lock' = lock
    OBVIOUS
  <2>2. HoldersClaim /\ lockBound
    BY <2>1, LockValues DEF HoldInv, LockUnused
  <2>3. \A r \in Requests : ~Holder(r)
    BY <2>1, <2>2, LockValues DEF HoldersClaim
  <2>4. ASSUME NEW r \in Requests, TakeLock(r) PROVE lock' = lock
    <3>1. ~CanClaim(payload[r])
      BY <2>1, LockValues DEF CanClaim
    <3>2. QED
      BY <2>4, <3>1 DEF TakeLock, lockVars
  <2>5. ASSUME NEW r \in Requests, Commit(r) \/ MarkPending(r) \/ Release(r) PROVE FALSE
    BY <2>3, <2>5 DEF Commit, MarkPending, Release, At, Holder, Holding
  <2>6. QED
    BY <2>1, <2>4, <2>5 DEF Next, Continue, Abandon, Receive, KvReserve, KvReservePut,
           KvReserveCheck, Send, Answered, NetworkError, Promote, WritePending, ClearPending,
           AlarmFires, KvExpires, CircleHandles, lockVars
<1>2. TypeInv /\ HoldInv /\ [Next]_vars => [Kept]_vars
  BY <1>1
<1>3. QED
  BY <1>2, StepHold, InitHold, AlwaysTyped, PTL DEF Spec, CommittedForGood

-------------------------------------------------------------------------------
(* The lock implements ClaimLock *)

\* A step that does not concern the lock, as its callers see it.
Unseen == UNCHANGED <<Inside, lock.payload, Closed, Lapsed>>

LEMMA LockUnseen ==
    ASSUME UNCHANGED <<lockBound, payload, outlived, lock>>,
           \A r \in Requests : Holder(r)' = Holder(r)
    PROVE  Unseen
  BY DEF Unseen, Inside, Holder, Closed, Lapsed

LEMMA LockLeft ==
    ASSUME lockBound, NEW r \in Requests, UNCHANGED <<lockBound, payload, outlived>>,
           \A q \in Requests \ {r} : pc'[q] = pc[q],
           Holder(r), ~Holder(r)', payload[r] \in Payloads,
           \/ lock' = lock
           \/ lock.payload = payload[r] /\ lock' = Claim(payload[r], "committed")
           \/ /\ lock.payload = payload[r]
              /\ lock' \in {Free, Claim(payload[r], "pending_reconciliation")}
              /\ lock.status = "committed" => outlived
    PROVE  Lock!Next
<1>1. \A q \in Requests : Holder(q)' <=> (Holder(q) /\ q # r)
  BY DEF Holder
<1>2. Inside' = Inside \ {<<r, payload[r]>>} /\ <<r, payload[r]>> \in Inside
  BY <1>1 DEF Inside, Holder
<1>3. Lapsed' = Lapsed
  BY DEF Lapsed
<1>4. CASE lock' = lock
  <2>1. UNCHANGED <<lock.payload, Closed>>
    BY <1>4 DEF Closed
  <2>2. Lock!Leave(r, payload[r])
    BY <1>2, <1>3, <2>1 DEF Lock!Leave
  <2>3. QED
    BY <2>2 DEF Lock!Next
<1>5. CASE lock.payload = payload[r] /\ lock' = Claim(payload[r], "committed")
  <2>1. lock'.payload = payload[r] /\ Closed' = TRUE
    BY <1>5, LockValues DEF Closed
  <2>2. Lock!Leave(r, payload[r])
    BY <1>2, <1>3, <1>5, <2>1 DEF Lock!Leave
  <2>3. QED
    BY <2>2 DEF Lock!Next
<1>6. CASE /\ lock.payload = payload[r]
           /\ lock' \in {Free, Claim(payload[r], "pending_reconciliation")}
           /\ lock.status = "committed" => outlived
  <2>1. lock'.payload \in {None, payload[r]} /\ Closed' = FALSE
    BY <1>6, LockValues DEF Closed
  <2>2. Closed => Lapsed
    BY <1>6 DEF Closed, Lapsed
  <2>3. Lock!Leave(r, payload[r])
    BY <1>2, <1>3, <1>6, <2>1, <2>2 DEF Lock!Leave
  <2>4. QED
    BY <2>3 DEF Lock!Next
<1>7. QED
  BY <1>4, <1>5, <1>6

LEMMA LockEntered ==
    ASSUME lockBound, NEW r \in Requests, UNCHANGED <<lockBound, payload, outlived>>,
           \A q \in Requests \ {r} : pc'[q] = pc[q],
           outlived \/ \A q \in Requests : ~Holder(q),
           Holder(r)', payload[r] \in Payloads,
           CanClaim(payload[r]), lock' = Claim(payload[r], "processing")
    PROVE  Lock!Next
<1>1. \A q \in Requests : Holder(q)' <=> (Holder(q) \/ q = r)
  BY DEF Holder
<1>2. Inside' = Inside \cup {<<r, payload[r]>>}
  BY <1>1 DEF Inside, Holder
<1>3. Inside = {} \/ Lapsed
  BY DEF Inside, Lapsed, Holder
<1>4. /\ ~Closed /\ lock.payload \in {None, payload[r]}
      /\ lock'.payload = payload[r] /\ Closed' = Closed /\ Lapsed' = Lapsed
  BY LockValues DEF CanClaim, Closed, Lapsed
<1>5. Lock!Enter(r, payload[r])
  BY <1>2, <1>3, <1>4 DEF Lock!Enter
<1>6. QED
  BY <1>5 DEF Lock!Next

LEMMA LockByRequest ==
    ASSUME TypeInv, HoldInv, lockBound, NEW r \in Requests, Continue(r) \/ Abandon(r)
    PROVE  Lock!Next \/ Unseen
<1>1. /\ \A q \in Requests \ {r} : pc'[q] = pc[q]
      /\ UNCHANGED <<lockBound, payload, outlived>>
  BY OthersWait
<1>2. (~outlived => HoldersClaim /\ HoldersAlone) /\ NoKvSteps /\ TypeOK
  BY DEF HoldInv, TypeInv
<1>3. pc[r] # "idle"
  BY DEF Continue, Abandon, TakeLock, KvReserve, KvReservePut, KvReserveCheck, Send, Answered,
         NetworkError, Promote, Commit, MarkPending, Release, WritePending, ClearPending, At
<1>4. payload[r] \in Payloads
  BY <1>3 DEF TypeInv, PayloadKnown
\* A request that holds the claim finds it running, unless the alarm outran it.
<1>5. Holder(r) /\ lock.status = "committed" => outlived
  BY <1>2, LockValues DEF HoldersClaim
\* The request goes on, or it has come to its end.
<1>6. ASSUME lock' = lock, Holder(r)' = Holder(r)
      PROVE  Unseen
  <2>1. \A q \in Requests : Holder(q)' = Holder(q)
    BY <1>1, <1>6 DEF Holder
  <2>2. QED
    BY <2>1, <1>1, <1>6, LockUnseen
<1>7. ASSUME lock' = lock, ~Holder(r)'
      PROVE  Lock!Next \/ Unseen
  <2>1. CASE Holder(r)
    BY <2>1, <1>1, <1>4, <1>7, LockLeft
  <2>2. CASE ~Holder(r)
    BY <2>2, <1>6, <1>7 DEF Holder
  <2>3. QED
    BY <2>1, <2>2
<1>8. CASE TakeLock(r)
  <2>1. CASE CanClaim(payload[r]) /\ Claimed(payload[r]) /\ Goto(r, "call")
    <3>1. lock.status # "processing"
      BY <2>1, LockValues DEF CanClaim
    <3>2. outlived \/ \A q \in Requests : ~Holder(q)
      BY <3>1, <1>2, LockValues DEF HoldersClaim
    <3>3. pc'[r] = "call" /\ lock' = Claim(payload[r], "processing")
      BY <2>1, <1>2, GotoDoes DEF Claimed
    <3>4. Holder(r)'
      BY <3>3 DEF Holder, Holding
    <3>5. QED
      BY <2>1, <3>2, <3>3, <3>4, <1>1, <1>4, LockEntered
  <2>2. CASE Goto(r, "done") /\ UNCHANGED lockVars
    <3>1. pc'[r] = "done"
      BY <2>2, <1>2, GotoDoes
    <3>2. QED
      BY <2>2, <3>1, <1>7 DEF lockVars, Holder, Holding
  <2>3. QED
    BY <1>8, <2>1, <2>2 DEF TakeLock
<1>9. CASE Commit(r) \/ MarkPending(r) \/ Release(r)
  <2>1. Holder(r) /\ (Goto(r, "clear") \/ Goto(r, "writePending") \/ Goto(r, "done"))
    BY <1>9 DEF Commit, MarkPending, Release, At, Holder, Holding
  <2>2. pc'[r] \in {"clear", "writePending", "done"}
    BY <2>1, <1>2, GotoDoes
  <2>3. ~Holder(r)'
    BY <2>2 DEF Holder, Holding
  <2>4. \/ lock' = lock
        \/ lock.payload = payload[r] /\ lock' = Claim(payload[r], "committed")
        \/ /\ lock.payload = payload[r]
           /\ lock' \in {Free, Claim(payload[r], "pending_reconciliation")}
    BY <1>9 DEF Commit, MarkPending, Release, SetStatus, lockVars
  <2>5. QED
    BY <2>1, <2>3, <2>4, <1>1, <1>4, <1>5, LockLeft
\* The call to Circle and the record of its payment.
<1>10. CASE Send(r) \/ Answered(r) \/ NetworkError(r) \/ Promote(r)
  <2>1. Holder(r) /\ lock' = lock
    BY <1>10 DEF Send, Answered, NetworkError, Promote, At, Holder, Holding, lockVars
  <2>2. QED
    BY <2>1, <1>6, <1>7 DEF Holder
<1>11. CASE WritePending(r) \/ ClearPending(r) \/ Abandon(r)
  <2>1. Goto(r, "done") /\ lock' = lock
    BY <1>11 DEF WritePending, ClearPending, Abandon, lockVars
  <2>2. pc'[r] = "done"
    BY <2>1, <1>2, GotoDoes
  <2>3. QED
    BY <2>1, <2>2, <1>7 DEF Holder, Holding
<1>12. ~KvReserve(r) /\ ~KvReservePut(r) /\ ~KvReserveCheck(r)
  BY <1>2 DEF KvReserve, KvReservePut, KvReserveCheck, At, NoKvSteps
<1>13. QED
  BY <1>8, <1>9, <1>10, <1>11, <1>12 DEF Continue

LEMMA LockByAlarm ==
    ASSUME TypeInv, HoldInv, lockBound, AlarmFires
    PROVE  Lock!Next \/ Unseen
<1>1. UNCHANGED <<lockBound, pc, payload>>
  BY DEF AlarmFires
<1>2. Inside' = Inside
  BY <1>1 DEF Inside
<1>3. Lapsed' = (Lapsed \/ Inside # {})
  <2>1. (\E r \in Requests : pc[r] \in Holding) <=> Inside # {}
    BY DEF Inside
  <2>2. outlived' = (outlived \/ Inside # {}) /\ outlived \in BOOLEAN
    BY <2>1 DEF AlarmFires, TypeInv, TypeOK
  <2>3. QED
    BY <1>1, <2>2 DEF Lapsed
<1>4. CASE lock.status # "committed"
  <2>1. ~Closed /\ ~Closed' /\ lock'.payload = lock.payload
    BY <1>4, LockValues DEF AlarmFires, Closed
  <2>2. Lock!Alarm
    BY <1>2, <1>3, <2>1 DEF Lock!Alarm, Closed
  <2>3. QED
    BY <2>2 DEF Lock!Next
\* A committed key has no live request that an alarm has not outrun already.
<1>5. CASE lock.status = "committed"
  <2>1. lock' = lock
    BY <1>5 DEF AlarmFires
  <2>2. outlived \/ Inside = {}
    BY <1>5, LockValues DEF HoldInv, HoldersClaim, Holder, Inside
  <2>3. Lapsed' = Lapsed
    BY <1>3, <2>2 DEF Lapsed
  <2>4. QED
    BY <1>2, <2>1, <2>3 DEF Unseen, Closed
<1>6. QED
  BY <1>4, <1>5

LEMMA LockByNext ==
    ASSUME TypeInv, HoldInv, HoldInv', [Next]_vars
    PROVE  [Lock!Next]_(Lock!vars)
<1>1. CASE UNCHANGED vars
  BY <1>1 DEF vars, Lock!vars, Inside, Closed, Lapsed
\* Without the binding the lock stays free and nobody is inside.
<1>2. CASE ~lockBound /\ lockBound' = lockBound
  <2>1. lock = Free /\ lock' = Free
    BY <1>2 DEF HoldInv, LockUnused
  <2>2. QED
    BY <1>2, <2>1 DEF Inside, Closed, Lapsed, Lock!vars
<1>3. ASSUME NEW r \in Requests, Continue(r) \/ Abandon(r), lockBound
      PROVE  Lock!Next \/ Unseen
  BY <1>3, LockByRequest
\* A request is received; nobody is inside because of that.
<1>4. ASSUME NEW r \in Requests, NEW p \in Payloads, Receive(r, p) PROVE Unseen
  <2>1. /\ \A q \in Requests \ {r} : pc'[q] = pc[q] /\ payload'[q] = payload[q]
        /\ pc[r] = "idle" /\ pc'[r] \in {"claim", "done"}
        /\ UNCHANGED <<lockBound, lock, outlived>>
    BY <1>4 DEF Receive, At, Goto, lockVars, TypeInv, TypeOK
  <2>2. \A q \in Requests : pc'[q] \in Holding <=> pc[q] \in Holding
    BY <2>1 DEF Holding
  <2>3. \A q \in Requests : pc[q] \in Holding => payload'[q] = payload[q]
    BY <2>1 DEF Holding
  <2>4. Inside' = Inside
    BY <2>1, <2>2, <2>3 DEF Inside
  <2>5. QED
    BY <2>1, <2>4 DEF Unseen, Closed, Lapsed
<1>5. CASE AlarmFires /\ lockBound
  BY <1>5, LockByAlarm DEF Unseen, Lock!vars
<1>6. CASE KvExpires \/ \E r \in Requests, answer \in Answers : CircleHandles(r, answer)
  <2>1. UNCHANGED <<lockBound, lock, outlived, pc, payload>>
    BY <1>6 DEF KvExpires, CircleHandles, lockVars
  <2>2. QED
    BY <2>1 DEF Inside, Closed, Lapsed, Lock!vars
<1>7. lockBound' = lockBound
  BY OthersWait DEF Next, Receive, AlarmFires, KvExpires, CircleHandles, vars
<1>8. lockBound \in BOOLEAN
  BY DEF TypeInv, TypeOK
<1>9. QED
  BY <1>1, <1>2, <1>3, <1>4, <1>5, <1>6, <1>7, <1>8 DEF Next, Unseen, Lock!vars

\* What the requests, whose calls to the lock may fail, and the alarm do to the lock
\* of a key is what ClaimLock allows, however long requests take: they enter one at a
\* time, and none after one has left with its payload committed, until an alarm goes
\* off under a live request, and even then no request touches another payload's claim.
THEOREM LockRefined == Spec => ImplementsLock
<1>1. Init => Lock!Init
  BY LockValues DEF Init, Lock!Init, Inside, Closed, Lapsed, Holding
<1>2. TypeInv /\ HoldInv /\ HoldInv' /\ [Next]_vars => [Lock!Next]_(Lock!vars)
  BY LockByNext
<1>3. QED
  BY <1>1, <1>2, StepHold, InitHold, AlwaysTyped, PTL DEF Spec, ImplementsLock, Lock!Spec

-------------------------------------------------------------------------------
(* The key is not left blocked *)

\* A claim that runs has its alarm set.  (Release clears the alarm whosever claim it
\* finds, so a request that its alarm outran may disarm the next one's.)
RunningHasAlarm == ~outlived /\ lock.status = "processing" => alarm

LEMMA StepAlarm ==
    TypeInv /\ HoldInv /\ RunningHasAlarm /\ [Next]_vars => RunningHasAlarm'
<1>1. SUFFICES ASSUME TypeInv, HoldInv, RunningHasAlarm, [Next]_vars PROVE RunningHasAlarm'
  OBVIOUS
<1>2. ASSUME UNCHANGED <<lockVars, outlived>> PROVE RunningHasAlarm'
  BY <1>1, <1>2 DEF RunningHasAlarm, lockVars
<1>3. ASSUME NEW r \in Requests, TakeLock(r) PROVE RunningHasAlarm'
  BY <1>2, <1>3 DEF TakeLock, Claimed, RunningHasAlarm
<1>4. ASSUME NEW r \in Requests, Commit(r) \/ MarkPending(r) PROVE RunningHasAlarm'
  <2>1. outlived' = outlived
    BY <1>4 DEF Commit, MarkPending
  <2>2. CASE \E status \in {"committed", "pending_reconciliation"} : SetStatus(r, status)
    BY <1>2, <2>1, <2>2, LockValues DEF SetStatus, RunningHasAlarm
  <2>3. QED
    BY <1>2, <1>4, <2>1, <2>2 DEF Commit, MarkPending
<1>5. ASSUME NEW r \in Requests, Release(r) PROVE RunningHasAlarm'
  <2>1. outlived' = outlived
    BY <1>5 DEF Release
  <2>2. CASE lockBound /\ ~outlived
    <3>1. lock = Claim(payload[r], "processing")
      BY <1>1, <1>5, <2>2 DEF Release, At, HoldInv, HoldersClaim, Holder, Holding
    <3>2. lock' = Free \/ UNCHANGED lockVars
      BY <1>5, <2>2, <3>1, LockValues DEF Release
    <3>3. QED
      BY <1>2, <2>1, <3>2, LockValues DEF RunningHasAlarm
  <2>3. CASE outlived
    BY <2>1, <2>3 DEF RunningHasAlarm
  <2>4. CASE ~lockBound
    BY <1>2, <1>5, <2>1, <2>4 DEF Release
  <2>5. QED
    BY <2>2, <2>3, <2>4
<1>6. CASE AlarmFires
  BY <1>6, LockValues DEF AlarmFires, RunningHasAlarm
<1>7. QED
  BY <1>1, <1>2, <1>3, <1>4, <1>5, <1>6
  DEF Next, Continue, Abandon, Receive, KvReserve, KvReservePut, KvReserveCheck, Send, Answered,
      NetworkError, Promote, WritePending, ClearPending, KvExpires, CircleHandles, vars, lockVars

\* Until an alarm goes off under a live request, a request that ends without telling
\* the lock leaves a claim whose alarm is still to fire: the safety half of
\* ClaimResolves.
THEOREM ClaimHasAlarm == Spec => []RunningHasAlarm
<1>1. Init => RunningHasAlarm
  BY LockValues DEF Init, RunningHasAlarm
<1>2. QED
  BY <1>1, StepHold, InitHold, StepAlarm, AlwaysTyped, PTL DEF Spec

===============================================================================
