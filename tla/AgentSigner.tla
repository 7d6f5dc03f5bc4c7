---------------------------- MODULE AgentSigner ----------------------------
(***************************************************************************)
(* The signer of the agent's Circle wallet: the code mailed to confirm an  *)
(* operation (agent/exec-otp.js), the proof that authorises an execution   *)
(* (agent-signer/authorize.js, _proof.mjs), the broadcast with its         *)
(* idempotency record and nonce lock (broadcast.js, _execution.mjs), and   *)
(* the status poll that fetches the transaction hash (status.js).          *)
(*                                                                         *)
(* One user and one wallet.  What an operation is said to be (its name,    *)
(* amount and destination) and what Circle is asked to call are apart, as  *)
(* they are in the code: nothing compares them.  Of a call, only what the  *)
(* proof binds is here; the native value sent along is bound by nothing.   *)
(* Every store access is a step.  The circuit breaker, the emergency pause *)
(* and the rate limit appear as requests refused.                          *)
(***************************************************************************)
EXTENDS Naturals

CONSTANTS
    Executions,
    Terms,          \* bound: the operations codes are asked for, field by field
    Declarations,   \* bound: those authorisations are asked for, fields left out being None
    Calls,          \* bound: contracts, functions and parameters
    Mails,          \* bound: the codes mailed
    Proofs,         \* bound: the proofs issued
    Workers,
    MaxNonce,       \* bound
    MaxFaults,      \* bound
    None

ASSUME SignerAssumption ==
    /\ MaxNonce \in Nat /\ MaxFaults \in Nat
    /\ None \notin Executions \cup Terms \cup Declarations \cup Calls \cup Mails \cup Proofs
    /\ \A t \in Terms, d \in Declarations : DOMAIN d = DOMAIN t

VARIABLES
    mailed,     \* the operation each code was mailed for, and is stored with
    code,       \* the code that is waiting to be typed, in the KV store
    tokens,     \* the execution tokens given out
    used,       \* how many tokens each code was exchanged for
    proof,      \* the proofs issued, by id
    consumed,   \* the proofs marked as used
    record,     \* the execution records
    lock,       \* who holds each nonce of the wallet
    nonce,      \* the wallet's next nonce
    sent,       \* how many transactions Circle made of each execution
    orders,     \* what it was asked to call, and by which proof
    hashed,     \* executions of which Circle knows the transaction hash
    acked,      \* executions a client was told are submitted, by their own account
    stalled,    \* those it was told so of because of another transaction
    crossed,    \* executions, and codes, of which two requests passed the check together
    lost,       \* answers of Circle, or accesses to its record, lost to an execution
    job,
    faults

otp    == <<mailed, code, tokens, used>>
proofs == <<proof, consumed>>
nonces == <<lock, nonce>>
circle == <<sent, orders, hashed>>
told   == <<acked, stalled>>
vars   == <<otp, proofs, record, nonces, circle, told, crossed, lost, job, faults>>

-------------------------------------------------------------------------------
(* Values *)

MaxAttempts == 3

Codes  == [mail : Mails \cup {None}, terms : Terms \cup {None}, attempts : 0..(MaxAttempts - 1)]
NoCode == [mail |-> None, terms |-> None, attempts |-> 0]

Tokens == [mail : Mails, terms : Terms]

\* mail is None when the execution needed no code, as a scheduled one.
Authorizations == [execution : Executions \cup {None}, declared : Declarations \cup {None},
                   call : Calls \cup {None}, mail : Mails \cup {None}]
NoProof == [execution |-> None, declared |-> None, call |-> None, mail |-> None]

Orders == [proof : Proofs, call : Calls]

\* circle: Circle's id of the transaction is known; hash: so is its hash.
Records  == [status : {"none", "failed", "pending", "submitted"},
             circle : BOOLEAN, hash : BOOLEAN]
NoRecord == [status |-> "none", circle |-> FALSE, hash |-> FALSE]
Failed   == [NoRecord EXCEPT !.status = "failed"]
Sent(h)  == [status |-> IF h THEN "submitted" ELSE "pending", circle |-> TRUE, hash |-> h]

\* Past its idempotency check, a broadcast is underway.
Early    == {"consume", "mark", "idempotency"}
Underway == {"nonce", "lock", "reserve", "call", "accepted", "refused", "failed"}
BroadcastSteps == Early \cup Underway \cup {"held"}
Steps == BroadcastSteps \cup {"check", "lookup", "found"}
Idle == [step |-> "idle", execution |-> None, proof |-> None, call |-> None,
         nonce |-> 0, locked |-> FALSE, typed |-> None, code |-> NoCode, copy |-> NoRecord]
Jobs == [step : Steps \cup {"idle"}, execution : Executions \cup {None},
         proof : Proofs \cup {None}, call : Calls \cup {None}, nonce : 0..MaxNonce,
         locked : BOOLEAN, typed : Mails \cup {None}, code : Codes, copy : Records]

Init ==
    /\ mailed = [m \in Mails |-> None]
    /\ code = NoCode /\ tokens = {}
    /\ used = [m \in Mails |-> 0]
    /\ proof = [p \in Proofs |-> NoProof] /\ consumed = {}
    /\ record = [e \in Executions |-> NoRecord]
    /\ lock = [n \in 0..MaxNonce |-> None] /\ nonce = 0
    /\ sent = [e \in Executions |-> 0] /\ orders = {} /\ hashed = {}
    /\ acked = {} /\ stalled = {} /\ crossed = {}
    /\ lost = [e \in Executions |-> 0]
    /\ job = [w \in Workers |-> Idle]
    /\ faults = 0

At(w, step) == job[w].step = step
Goto(w, step) == job' = [job EXCEPT ![w].step = step]
Done(w) == job' = [job EXCEPT ![w] = Idle]

Fault == faults < MaxFaults /\ faults' = faults + 1
Lost(e) == Fault /\ lost' = [lost EXCEPT ![e] = @ + 1]

\* recordExecution: best effort, a failed write goes unnoticed.
Record(e, r) ==
    \/ record' = [record EXCEPT ![e] = r] /\ UNCHANGED <<lost, faults>>
    \/ Lost(e) /\ UNCHANGED record

-------------------------------------------------------------------------------
(* POST /agent/exec-otp *)

\* The mail shows the operation's name and amount, not its destination.
RequestCode(m, t) ==
    /\ mailed[m] = None
    /\ mailed' = [mailed EXCEPT ![m] = t]
    /\ code' = [mail |-> m, terms |-> t, attempts |-> 0]
    /\ UNCHANGED <<tokens, used, proofs, record, nonces, circle, told, crossed, lost, job, faults>>

ExpireCode ==
    /\ code # NoCode
    /\ code' = NoCode
    /\ UNCHANGED <<mailed, tokens, used, proofs, record, nonces, circle, told, crossed, lost, job, faults>>

\* typed is the mail whose code is typed, None when it is of no mail.
VerifyCode(w, typed) ==
    /\ At(w, "idle") /\ code # NoCode
    /\ typed # None => mailed[typed] # None
    /\ job' = [job EXCEPT ![w] = [Idle EXCEPT !.step = "check", !.typed = typed, !.code = code]]
    /\ crossed' = IF \E v \in Workers : At(v, "check") /\ job[v].code.mail = code.mail
                  THEN crossed \cup {code.mail} ELSE crossed
    /\ UNCHANGED <<otp, proofs, record, nonces, circle, told, lost, faults>>

\* Mutant of WrongCode: the last attempt does not delete the code.
WrongCode_Late(w) ==
    LET c == [job[w].code EXCEPT !.attempts = @ + 1] IN
    /\ At(w, "check") /\ job[w].typed # job[w].code.mail
    /\ code' = IF c.attempts > MaxAttempts THEN NoCode ELSE c
    /\ Done(w)
    /\ UNCHANGED <<mailed, tokens, used, proofs, record, nonces, circle, told, crossed, lost, faults>>

\* The copy is written back with one more attempt, or the code is deleted.  (No
\* code is stored with its attempts used up, which the handler also looks for.)
WrongCode(w) ==
    LET c == [job[w].code EXCEPT !.attempts = @ + 1] IN
    /\ At(w, "check") /\ job[w].typed # job[w].code.mail
    /\ code' = IF c.attempts >= MaxAttempts THEN NoCode ELSE c
    /\ Done(w)
    /\ UNCHANGED <<mailed, tokens, used, proofs, record, nonces, circle, told, crossed, lost, faults>>

\* Mutant of RightCode: the code is not deleted.
RightCode_Kept(w) ==
    /\ At(w, "check") /\ job[w].typed = job[w].code.mail
    /\ tokens' = tokens \cup {[mail |-> job[w].typed, terms |-> job[w].code.terms]}
    /\ used' = [used EXCEPT ![job[w].typed] = @ + 1]
    /\ Done(w)
    /\ UNCHANGED <<mailed, code, proofs, record, nonces, circle, told, crossed, lost, faults>>

\* The token carries the operation that was stored with the code.
RightCode(w) ==
    /\ At(w, "check") /\ job[w].typed = job[w].code.mail
    /\ code' = NoCode
    /\ tokens' = tokens \cup {[mail |-> job[w].typed, terms |-> job[w].code.terms]}
    /\ used' = [used EXCEPT ![job[w].typed] = @ + 1]
    /\ Done(w)
    /\ UNCHANGED <<mailed, proofs, record, nonces, circle, told, crossed, lost, faults>>

-------------------------------------------------------------------------------
(* POST /agent-signer/authorize *)

\* Mutant of Confirms: the amount is not compared.
Confirms_Any(token, declared) == token.terms.operation = declared.operation

\* What the token or the request leaves out is not compared, nor is the call.
Agree(declared, terms) ==
    \A f \in DOMAIN declared : declared[f] = terms[f] \/ None \in {declared[f], terms[f]}
Confirms(token, declared) == Agree(declared, token.terms)

\* Without a token, or with one that is for this operation.  A token serves until
\* it expires, which is when nobody presents it any more.
Authorize(p, e, declared, call) ==
    /\ proof[p] = NoProof
    /\ \E m \in Mails \cup {None} :
          /\ m # None => \E token \in tokens : token.mail = m /\ Confirms(token, declared)
          /\ proof' = [proof EXCEPT ![p] = [execution |-> e, declared |-> declared,
                                            call |-> call, mail |-> m]]
    /\ UNCHANGED <<otp, consumed, record, nonces, circle, told, crossed, lost, job, faults>>

-------------------------------------------------------------------------------
(* POST /agent-signer/broadcast *)

Bound(p, call) == proof[p] # NoProof /\ proof[p].call = call

Broadcast(w, p, call) ==
    /\ At(w, "idle") /\ Bound(p, call)
    /\ job' = [job EXCEPT ![w] = [Idle EXCEPT !.step = "consume", !.proof = p, !.call = call,
                                              !.execution = proof[p].execution]]
    /\ UNCHANGED <<otp, proofs, record, nonces, circle, told, crossed, lost, faults>>

\* consumeProof reads, then writes.
Consume(w) ==
    /\ At(w, "consume")
    /\ IF job[w].proof \in consumed THEN Done(w) ELSE Goto(w, "mark")
    /\ UNCHANGED <<otp, proofs, record, nonces, circle, told, crossed, lost, faults>>

Mark(w) ==
    /\ At(w, "mark")
    /\ consumed' = consumed \cup {job[w].proof}
    /\ Goto(w, "idempotency")
    /\ UNCHANGED <<otp, proof, record, nonces, circle, told, crossed, lost, faults>>

\* Mutant of InFlight: only a hash shows that an execution was submitted.
InFlight_Hash(r) == r.hash
InFlight(r) == r.status \in {"submitted", "pending"}

\* Whoever else goes on with the execution has not recorded it yet.
GoOn(w) ==
    LET e == job[w].execution IN
    /\ Goto(w, "nonce")
    /\ crossed' = IF \E v \in Workers : job[v].execution = e /\ job[v].step \in Underway
                  THEN crossed \cup {e} ELSE crossed

\* A read that fails finds no execution.
Idempotent(w) ==
    LET e == job[w].execution IN
    /\ At(w, "idempotency")
    /\ \/ /\ InFlight(record[e])
          /\ acked' = acked \cup {e} /\ Done(w)
          /\ UNCHANGED <<crossed, lost, faults>>
       \/ /\ ~InFlight(record[e])
          /\ GoOn(w)
          /\ UNCHANGED <<acked, lost, faults>>
       \/ Lost(e) /\ GoOn(w) /\ UNCHANGED acked
    /\ UNCHANGED <<otp, proofs, record, nonces, circle, stalled>>

FetchNonce(w) ==
    /\ At(w, "nonce")
    /\ job' = [job EXCEPT ![w].step = "lock", ![w].nonce = nonce]
    /\ UNCHANGED <<otp, proofs, record, nonces, circle, told, crossed, lost, faults>>

\* reserveNonce reads, then writes.
NonceHeld(w) ==
    /\ At(w, "lock") /\ lock[job[w].nonce] \notin {None, job[w].execution}
    /\ Goto(w, "held")
    /\ UNCHANGED <<otp, proofs, record, nonces, circle, told, crossed, lost, faults>>

\* Held by another execution: the client is told that the transaction is in flight,
\* with its hash when the record has one.
AnswerHeld(w) ==
    LET e == job[w].execution IN
    /\ At(w, "held")
    /\ \/ record[e].hash /\ acked' = acked \cup {e} /\ UNCHANGED <<stalled, faults>>
       \/ ~record[e].hash /\ stalled' = stalled \cup {e} /\ UNCHANGED <<acked, faults>>
       \/ Fault /\ stalled' = stalled \cup {e} /\ UNCHANGED acked
    /\ Done(w)
    /\ UNCHANGED <<otp, proofs, record, nonces, circle, crossed, lost>>

NonceFree(w) ==
    LET holder == lock[job[w].nonce] IN
    /\ At(w, "lock") /\ holder \in {None, job[w].execution}
    /\ IF holder = None THEN Goto(w, "reserve")
       ELSE job' = [job EXCEPT ![w].step = "call", ![w].locked = TRUE]
    /\ UNCHANGED <<otp, proofs, record, nonces, circle, told, crossed, lost, faults>>

ReserveNonce(w) ==
    /\ At(w, "reserve")
    /\ lock' = [lock EXCEPT ![job[w].nonce] = job[w].execution]
    /\ job' = [job EXCEPT ![w].step = "call", ![w].locked = TRUE]
    /\ UNCHANGED <<otp, proofs, record, nonce, circle, told, crossed, lost, faults>>

\* The lookup or the store failed: on without the lock.
NoNonce(w) ==
    /\ job[w].step \in {"nonce", "lock", "reserve"}
    /\ Goto(w, "call")
    /\ Fault
    /\ UNCHANGED <<otp, proofs, record, nonces, circle, told, crossed, lost>>

\* Each call has a key of its own: Circle makes a transaction of each.
Create(w) ==
    LET j == job[w] IN
    /\ sent' = [sent EXCEPT ![j.execution] = @ + 1]
    /\ orders' = orders \cup {[proof |-> j.proof, call |-> j.call]}
    /\ UNCHANGED hashed

CircleAccepts(w) ==
    /\ At(w, "call")
    /\ Create(w) /\ Goto(w, "accepted")
    /\ UNCHANGED <<otp, proofs, record, nonces, told, crossed, lost, faults>>

\* A refusal, or the breaker's.
CircleRefuses(w) ==
    /\ At(w, "call")
    /\ Goto(w, "refused")
    /\ UNCHANGED <<otp, proofs, record, nonces, circle, told, crossed, lost, faults>>

\* A transaction was made, and the call throws.
AnswerLost(w) ==
    /\ At(w, "call")
    /\ Create(w) /\ Goto(w, "refused") /\ Lost(job[w].execution)
    /\ UNCHANGED <<otp, proofs, record, nonces, told, crossed>>

\* The key is deleted, whoever holds it by now.
ReleaseNonce(w) ==
    /\ At(w, "refused")
    /\ \/ job[w].locked /\ lock' = [lock EXCEPT ![job[w].nonce] = None] /\ UNCHANGED faults
       \/ ~job[w].locked /\ UNCHANGED <<lock, faults>>
       \/ Fault /\ UNCHANGED lock
    /\ Goto(w, "failed")
    /\ UNCHANGED <<otp, proofs, record, nonce, circle, told, crossed, lost>>

\* Mutant of RecordFailed: a failed call is left as pending.
RecordFailed_Pending(w) ==
    /\ At(w, "failed")
    /\ Record(job[w].execution, Sent(FALSE)) /\ Done(w)
    /\ UNCHANGED <<otp, proofs, nonces, circle, told, crossed>>

\* The answer is an error, or, when Circle's was about the nonce, that the
\* transaction is in flight.
RecordFailed(w) ==
    LET e == job[w].execution IN
    /\ At(w, "failed")
    /\ Record(e, Failed) /\ Done(w)
    /\ stalled' \in {stalled, stalled \cup {e}}
    /\ UNCHANGED <<otp, proofs, nonces, circle, acked, crossed>>

\* With the hash, if Circle's answer has it.
RecordSent(w) ==
    LET e == job[w].execution IN
    /\ At(w, "accepted")
    /\ \E h \in BOOLEAN : (h => e \in hashed) /\ Record(e, Sent(h))
    /\ acked' = acked \cup {e} /\ Done(w)
    /\ UNCHANGED <<otp, proofs, nonces, circle, stalled, crossed>>

-------------------------------------------------------------------------------
(* POST /agent-signer/status *)

\* Nothing else than this changes any state.
Status(w, e) ==
    /\ At(w, "idle") /\ record[e].circle /\ ~record[e].hash
    /\ job' = [job EXCEPT ![w] = [Idle EXCEPT !.step = "lookup", !.execution = e,
                                              !.copy = record[e]]]
    /\ UNCHANGED <<otp, proofs, record, nonces, circle, told, crossed, lost, faults>>

Lookup(w) ==
    /\ At(w, "lookup")
    /\ IF job[w].execution \in hashed THEN Goto(w, "found") ELSE Done(w)
    /\ UNCHANGED <<otp, proofs, record, nonces, circle, told, crossed, lost, faults>>

\* Mutant of Found: the record is made anew, with the hash alone.
Found_New(r) == [r EXCEPT !.hash = TRUE, !.circle = FALSE, !.status = "none"]
Found(r) == [r EXCEPT !.hash = TRUE, !.status = "submitted"]

RecordFound(w) ==
    /\ At(w, "found")
    /\ Record(job[w].execution, Found(job[w].copy)) /\ Done(w)
    /\ UNCHANGED <<otp, proofs, nonces, circle, told, crossed>>

-------------------------------------------------------------------------------
(* Circle, the clock, and faults *)

\* The transaction is on the chain, and the wallet's nonce is the next one.
Hash(e) ==
    /\ sent[e] > 0 /\ e \notin hashed /\ nonce < MaxNonce
    /\ hashed' = hashed \cup {e} /\ nonce' = nonce + 1
    /\ UNCHANGED <<otp, proofs, record, lock, sent, orders, told, crossed, lost, job, faults>>

ExpireNonce(n) ==
    /\ lock[n] # None
    /\ lock' = [lock EXCEPT ![n] = None]
    /\ UNCHANGED <<otp, proofs, record, nonce, circle, told, crossed, lost, job, faults>>

\* A request refused by the rate limit, ended by a store that fails, or cut short:
\* nothing is lost unless Circle had answered.
Abandon(w) ==
    /\ ~At(w, "idle")
    /\ Done(w) /\ Fault
    /\ lost' = IF At(w, "accepted") THEN [lost EXCEPT ![job[w].execution] = @ + 1] ELSE lost
    /\ UNCHANGED <<otp, proofs, record, nonces, circle, told, crossed>>

Step(w) ==
    \/ WrongCode(w) \/ RightCode(w)
    \/ Consume(w) \/ Mark(w) \/ Idempotent(w)
    \/ FetchNonce(w) \/ NonceHeld(w) \/ AnswerHeld(w) \/ NonceFree(w) \/ ReserveNonce(w) \/ NoNonce(w)
    \/ CircleAccepts(w) \/ CircleRefuses(w) \/ AnswerLost(w)
    \/ ReleaseNonce(w) \/ RecordFailed(w) \/ RecordSent(w)
    \/ Lookup(w) \/ RecordFound(w)

Next ==
    \/ ExpireCode
    \/ \E m \in Mails, t \in Terms : RequestCode(m, t)
    \/ \E p \in Proofs, e \in Executions, d \in Declarations, c \in Calls : Authorize(p, e, d, c)
    \/ \E w \in Workers :
          \/ Step(w) \/ Abandon(w)
          \/ \E m \in Mails \cup {None} : VerifyCode(w, m)
          \/ \E p \in Proofs, c \in Calls : Broadcast(w, p, c)
          \/ \E e \in Executions : Status(w, e)
    \/ \E e \in Executions : Hash(e)
    \/ \E n \in 0..MaxNonce : ExpireNonce(n)

Spec == Init /\ [][Next]_vars

-------------------------------------------------------------------------------
(* Properties *)

\* The variables have the values described above.
TypeOK ==
    /\ mailed \in [Mails -> Terms \cup {None}]
    /\ code \in Codes /\ tokens \subseteq Tokens
    /\ used \in [Mails -> Nat]
    /\ proof \in [Proofs -> Authorizations] /\ consumed \subseteq Proofs
    /\ record \in [Executions -> Records]
    /\ lock \in [0..MaxNonce -> Executions \cup {None}] /\ nonce \in 0..MaxNonce
    /\ sent \in [Executions -> Nat] /\ orders \subseteq Orders /\ hashed \subseteq Executions
    /\ acked \subseteq Executions /\ stalled \subseteq Executions
    /\ crossed \subseteq Executions \cup Mails
    /\ lost \in [Executions -> Nat]
    /\ job \in [Workers -> Jobs]
    /\ faults \in 0..MaxFaults

\* Circle makes at most one transaction of an execution, and one more for each of
\* its answers, or accesses to the execution's record, that was lost: whichever
\* proofs are presented, and whatever other executions hold the nonces.  Of two
\* broadcasts that are underway together, each may make one: the nonce's lock does
\* not keep them apart.
OneTransaction ==
    \A e \in Executions \ crossed : sent[e] <= 1 + lost[e]

\* What Circle was asked to call on the word of a mailed code is what the proof was
\* issued for, and was declared as the operation the code was mailed for, however
\* many codes were mailed, mistyped and overwritten in between.
DoneAsConfirmed ==
    \A o \in orders :
        LET p == proof[o.proof] IN
        /\ o.call = p.call
        /\ p.mail # None => Agree(p.declared, mailed[p.mail])

\* An execution is acknowledged as submitted by its own account, and recorded so,
\* only when Circle made a transaction of it.  (Nothing is said of one that was
\* answered for another transaction on the nonce: there may be none of it.)
SubmittedIsSent ==
    \A e \in Executions : e \in acked \/ InFlight(record[e]) => sent[e] > 0

\* A mailed code is exchanged for one token, unless two attempts at it overlapped.
CodeUsedOnce ==
    \A m \in Mails \ crossed : used[m] <= 1

\* An execution recorded as submitted stays so, with the hash once it is known:
\* neither a retry nor a status poll with a stale copy takes it back, unless two
\* broadcasts of it were underway together or something was lost.
SubmittedForGood ==
    [][\A e \in Executions :
        e \notin crossed' /\ lost'[e] = 0 =>
            /\ InFlight(record[e]) => InFlight(record'[e])
            /\ record[e].hash => record'[e].hash]_vars

==============================================================================
