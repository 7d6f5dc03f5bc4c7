------------------------- MODULE AgentSignerProofs -------------------------
(***************************************************************************)
(* Theorems about AgentSigner for every number of executions, operations,  *)
(* mailed codes, proofs and workers.                                       *)
(***************************************************************************)
EXTENDS AgentSigner, TLAPS

-------------------------------------------------------------------------------
(* Types *)

LEMMA ValueTypes ==
    /\ NoCode \in Codes /\ NoProof \in Authorizations
    /\ NoRecord \in Records /\ Failed \in Records
    /\ \A h \in BOOLEAN : Sent(h) \in Records
    /\ \A r \in Records : Found(r) \in Records
    /\ Idle \in Jobs
    /\ Idle.step = "idle" /\ Idle.execution = None /\ Idle.proof = None
    /\ Idle.code = NoCode /\ Idle.copy = NoRecord
<1>1. NoCode \in Codes /\ NoProof \in Authorizations
  BY DEF NoCode, Codes, MaxAttempts, NoProof, Authorizations
<1>2. NoRecord \in Records /\ Failed \in Records /\ \A h \in BOOLEAN : Sent(h) \in Records
  BY DEF NoRecord, Failed, Sent, Records
<1>3. \A r \in Records : Found(r) \in Records
  BY DEF Found, Records
<1>4. /\ Idle \in Jobs
      /\ Idle.step = "idle" /\ Idle.execution = None /\ Idle.proof = None
      /\ Idle.code = NoCode /\ Idle.copy = NoRecord
  BY <1>1, <1>2, SignerAssumption
  DEF Idle, Jobs, SignerAssumption
<1>5. QED
  BY <1>1, <1>2, <1>3, <1>4

LEMMA GotoDoes ==
    ASSUME TypeOK, NEW w \in Workers, NEW step \in Steps, Goto(w, step)
    PROVE  /\ job' \in [Workers -> Jobs]
           /\ job'[w] = [job[w] EXCEPT !.step = step]
           /\ \A x \in Workers \ {w} : job'[x] = job[x]
<1>1. job[w] \in Jobs
  BY DEF TypeOK
<1>2. [job[w] EXCEPT !.step = step] \in Jobs
  BY <1>1 DEF Jobs
<1>3. QED
  BY <1>2 DEF TypeOK, Goto

LEMMA DoneDoes ==
    ASSUME TypeOK, NEW w \in Workers, Done(w)
    PROVE  /\ job' \in [Workers -> Jobs]
           /\ job'[w] = Idle
           /\ \A x \in Workers \ {w} : job'[x] = job[x]
  BY ValueTypes DEF TypeOK, Done

\* What a worker's step makes of its job.
Kept(w) ==
    /\ job'[w].step \in Steps
    /\ job'[w].execution = job[w].execution /\ job'[w].proof = job[w].proof
    /\ job'[w].call = job[w].call /\ job'[w].code = job[w].code
    /\ job'[w].copy = job[w].copy

LEMMA GotoKeeps ==
    ASSUME TypeOK, NEW w \in Workers, NEW step \in Steps, Goto(w, step)
    PROVE  /\ job' \in [Workers -> Jobs]
           /\ job'[w].step = step /\ Kept(w)
           /\ \A x \in Workers \ {w} : job'[x] = job[x]
<1>1. job[w] \in Jobs
  BY DEF TypeOK
<1>2. job'[w] = [job[w] EXCEPT !.step = step]
  BY GotoDoes
<1>3. job'[w].step = step /\ Kept(w)
  BY <1>1, <1>2 DEF Jobs, Kept
<1>4. QED
  BY <1>3, GotoDoes

LEMMA LockedDoes ==
    ASSUME TypeOK, NEW w \in Workers,
           job' = [job EXCEPT ![w].step = "call", ![w].locked = TRUE]
    PROVE  /\ job' \in [Workers -> Jobs]
           /\ job'[w].step = "call" /\ Kept(w)
           /\ \A x \in Workers \ {w} : job'[x] = job[x]
<1> DEFINE j == [job[w] EXCEPT !.step = "call", !.locked = TRUE]
<1>1. job[w] \in Jobs
  BY DEF TypeOK
<1>2. j \in Jobs
  BY <1>1 DEF Jobs, Steps, BroadcastSteps, Early, Underway
<1>3. job' = [job EXCEPT ![w] = j]
  BY <1>1 DEF TypeOK, Jobs
<1>4. job' \in [Workers -> Jobs] /\ job'[w] = j /\ \A x \in Workers \ {w} : job'[x] = job[x]
  BY <1>2, <1>3 DEF TypeOK
<1>5. j.step = "call" /\ j.execution = job[w].execution /\ j.proof = job[w].proof
      /\ j.call = job[w].call /\ j.code = job[w].code /\ j.copy = job[w].copy
  BY <1>1 DEF Jobs
<1>6. QED
  BY <1>4, <1>5 DEF Kept, Steps, BroadcastSteps, Underway

LEMMA NonceDoes ==
    ASSUME TypeOK, NEW w \in Workers,
           job' = [job EXCEPT ![w].step = "lock", ![w].nonce = nonce]
    PROVE  /\ job' \in [Workers -> Jobs]
           /\ job'[w].step = "lock" /\ Kept(w)
           /\ \A x \in Workers \ {w} : job'[x] = job[x]
<1> DEFINE j == [job[w] EXCEPT !.step = "lock", !.nonce = nonce]
<1>1. job[w] \in Jobs /\ nonce \in 0..MaxNonce
  BY DEF TypeOK
<1>2. j \in Jobs
  BY <1>1 DEF Jobs, Steps, BroadcastSteps, Early, Underway
<1>3. job' = [job EXCEPT ![w] = j]
  BY <1>1 DEF TypeOK, Jobs
<1>4. job' \in [Workers -> Jobs] /\ job'[w] = j /\ \A x \in Workers \ {w} : job'[x] = job[x]
  BY <1>2, <1>3 DEF TypeOK
<1>5. j.step = "lock" /\ j.execution = job[w].execution /\ j.proof = job[w].proof
      /\ j.call = job[w].call /\ j.code = job[w].code /\ j.copy = job[w].copy
  BY <1>1 DEF Jobs
<1>6. QED
  BY <1>4, <1>5 DEF Kept, Steps, BroadcastSteps, Underway

LEMMA FaultTyped ==
    ASSUME TypeOK, Fault
    PROVE  faults' \in 0..MaxFaults
  BY SignerAssumption DEF TypeOK, Fault, SignerAssumption

LEMMA LostDoes ==
    ASSUME TypeOK, NEW e \in Executions, Lost(e)
    PROVE  /\ lost' \in [Executions -> Nat] /\ faults' \in 0..MaxFaults
           /\ lost'[e] = lost[e] + 1
           /\ \A x \in Executions \ {e} : lost'[x] = lost[x]
  BY FaultTyped DEF TypeOK, Lost

LEMMA RecordDoes ==
    ASSUME TypeOK, NEW e \in Executions, NEW r \in Records, Record(e, r)
    PROVE  /\ record' \in [Executions -> Records] /\ lost' \in [Executions -> Nat]
           /\ faults' \in 0..MaxFaults
           /\ \A x \in Executions \ {e} : record'[x] = record[x] /\ lost'[x] = lost[x]
           /\ \/ record'[e] = r /\ lost'[e] = lost[e]
              \/ record'[e] = record[e] /\ lost'[e] = lost[e] + 1
<1>1. CASE record' = [record EXCEPT ![e] = r] /\ UNCHANGED <<lost, faults>>
  BY <1>1 DEF TypeOK
<1>2. CASE Lost(e) /\ UNCHANGED record
  BY <1>2, LostDoes DEF TypeOK
<1>3. QED
  BY <1>1, <1>2 DEF Record

\* A worker that broadcasts or polls is about an execution; one that broadcasts
\* presented a proof for it.
JobOf(j) ==
    /\ j.step \in BroadcastSteps =>
         /\ j.execution \in Executions /\ j.proof \in Proofs
         /\ j.call \in Calls
    /\ j.step \in {"lookup", "found"} => j.execution \in Executions
    /\ j.step = "check" => j.code # NoCode /\ j.code.mail \in Mails /\ j.code.terms \in Terms

Typed ==
    /\ TypeOK
    /\ code # NoCode => code.mail \in Mails /\ code.terms \in Terms
    /\ \A p \in Proofs : proof[p] # NoProof =>
           proof[p].execution \in Executions /\ proof[p].call \in Calls
    /\ \A w \in Workers : JobOf(job[w])

LEMMA InitTyped == Init => Typed
<1>1. SUFFICES ASSUME Init PROVE Typed
  OBVIOUS
<1>2. TypeOK
  BY <1>1, ValueTypes, SignerAssumption DEF Init, TypeOK, SignerAssumption
<1>3. \A w \in Workers : JobOf(job[w])
  BY <1>1, ValueTypes DEF Init, JobOf, BroadcastSteps, Early, Underway, Steps
<1>4. QED
  BY <1>1, <1>2, <1>3 DEF Init, Typed

\* A worker that goes from one step of a broadcast to another keeps its job, one
\* that ends has none.
LEMMA MoveTyped ==
    ASSUME Typed, TypeOK', NEW w \in Workers, UNCHANGED <<code, proof>>,
           \A x \in Workers \ {w} : job'[x] = job[x],
           \/ job'[w] = Idle
           \/ /\ Kept(w)
              /\ \/ job[w].step \in BroadcastSteps /\ job'[w].step \in BroadcastSteps
                 \/ job[w].step = "lookup" /\ job'[w].step = "found"
    PROVE  Typed'
<1>1. JobOf(job'[w])
  <2>1. CASE job'[w] = Idle
    BY <2>1, ValueTypes DEF JobOf, BroadcastSteps, Early, Underway, Steps
  <2>2. CASE /\ Kept(w)
             /\ \/ job[w].step \in BroadcastSteps /\ job'[w].step \in BroadcastSteps
                \/ job[w].step = "lookup" /\ job'[w].step = "found"
    BY <2>2 DEF Typed, JobOf, Kept, BroadcastSteps, Early, Underway, Steps
  <2>3. QED
    BY <2>1, <2>2
<1>2. \A x \in Workers : JobOf(job'[x])
  BY <1>1 DEF Typed
<1>3. QED
  BY <1>2 DEF Typed

LEMMA BroadcastMoves ==
    ASSUME Typed, NEW w \in Workers,
           \/ Consume(w) \/ Mark(w) \/ Idempotent(w)
           \/ FetchNonce(w) \/ NonceHeld(w) \/ AnswerHeld(w) \/ NonceFree(w) \/ ReserveNonce(w) \/ NoNonce(w)
           \/ CircleAccepts(w) \/ CircleRefuses(w) \/ AnswerLost(w) \/ ReleaseNonce(w)
           \/ RecordFailed(w) \/ RecordSent(w)
    PROVE  /\ job[w].step \in BroadcastSteps
           /\ job[w].execution \in Executions
           /\ job' \in [Workers -> Jobs]
           /\ \A x \in Workers \ {w} : job'[x] = job[x]
           /\ \/ job'[w] = Idle
              \/ Kept(w) /\ job'[w].step \in BroadcastSteps
<1>1. TypeOK
  BY DEF Typed
<1>2. job[w].step \in BroadcastSteps
  BY DEF Consume, Mark, Idempotent, FetchNonce, NonceHeld, AnswerHeld, NonceFree, ReserveNonce, NoNonce,
         CircleAccepts, CircleRefuses, AnswerLost, ReleaseNonce, RecordFailed, RecordSent,
         At, BroadcastSteps, Early, Underway, Steps
<1>3. job[w].execution \in Executions
  BY <1>2 DEF Typed, JobOf
<1>4. CASE Done(w)
  BY <1>1, <1>2, <1>3, <1>4, DoneDoes
<1>5. ASSUME NEW step \in BroadcastSteps, Goto(w, step)
      PROVE  /\ job' \in [Workers -> Jobs]
             /\ \A x \in Workers \ {w} : job'[x] = job[x]
             /\ Kept(w) /\ job'[w].step \in BroadcastSteps
  BY <1>1, <1>5, GotoKeeps DEF Steps
<1>6. CASE FetchNonce(w)
  BY <1>1, <1>2, <1>3, <1>6, NonceDoes DEF FetchNonce, BroadcastSteps, Early, Underway, Steps
<1>7. CASE NonceFree(w) \/ ReserveNonce(w)
  BY <1>1, <1>2, <1>3, <1>5, <1>7, LockedDoes DEF NonceFree, ReserveNonce, BroadcastSteps, Early, Underway, Steps
<1>8. CASE \/ Consume(w) \/ Mark(w) \/ Idempotent(w)
           \/ NonceHeld(w) \/ AnswerHeld(w) \/ NoNonce(w)
  BY <1>2, <1>3, <1>4, <1>5, <1>8
     DEF Consume, Mark, Idempotent, GoOn, NonceHeld, AnswerHeld, NoNonce, BroadcastSteps, Early, Underway, Steps
<1>9. CASE \/ CircleAccepts(w) \/ CircleRefuses(w) \/ AnswerLost(w) \/ ReleaseNonce(w)
           \/ RecordFailed(w) \/ RecordSent(w)
  BY <1>2, <1>3, <1>4, <1>5, <1>9
     DEF CircleAccepts, CircleRefuses, AnswerLost, ReleaseNonce, RecordFailed, RecordSent,
         BroadcastSteps, Early, Underway, Steps
<1>10. QED
  BY <1>6, <1>7, <1>8, <1>9

LEMMA CreateDoes ==
    ASSUME Typed, NEW w \in Workers, job[w].step \in BroadcastSteps, Create(w)
    PROVE  /\ sent' \in [Executions -> Nat]
           /\ sent'[job[w].execution] = sent[job[w].execution] + 1
           /\ \A x \in Executions \ {job[w].execution} : sent'[x] = sent[x]
           /\ orders' \subseteq Orders /\ hashed' = hashed
<1>1. /\ job[w].execution \in Executions /\ job[w].call \in Calls
      /\ job[w].proof \in Proofs
  BY DEF Typed, JobOf
<1>2. [proof |-> job[w].proof, call |-> job[w].call] \in Orders
  BY <1>1 DEF Orders
<1>3. QED
  BY <1>1, <1>2 DEF Typed, TypeOK, Create

LEMMA BroadcastTyped ==
    ASSUME Typed, NEW w \in Workers,
           \/ Consume(w) \/ Mark(w) \/ Idempotent(w)
           \/ FetchNonce(w) \/ NonceHeld(w) \/ AnswerHeld(w) \/ NonceFree(w) \/ ReserveNonce(w) \/ NoNonce(w)
           \/ CircleAccepts(w) \/ CircleRefuses(w) \/ AnswerLost(w) \/ ReleaseNonce(w)
           \/ RecordFailed(w) \/ RecordSent(w)
    PROVE  Typed'
<1> DEFINE e == job[w].execution
<1>1. TypeOK
  BY DEF Typed
<1>2. /\ job[w].step \in BroadcastSteps /\ e \in Executions
      /\ job' \in [Workers -> Jobs]
      /\ \A x \in Workers \ {w} : job'[x] = job[x]
      /\ \/ job'[w] = Idle
         \/ Kept(w) /\ job'[w].step \in BroadcastSteps
  BY BroadcastMoves
<1>3. job[w].proof \in Proofs
  BY <1>2 DEF Typed, JobOf
<1>4. UNCHANGED <<mailed, code, tokens, used, proof>>
  BY DEF Consume, Mark, Idempotent, FetchNonce, NonceHeld, AnswerHeld, NonceFree, ReserveNonce, NoNonce,
         CircleAccepts, CircleRefuses, AnswerLost, ReleaseNonce, RecordFailed, RecordSent,
         otp, proofs
<1>5. TypeOK'
  <2>1. CASE \/ Consume(w) \/ FetchNonce(w) \/ NonceHeld(w) \/ AnswerHeld(w) \/ NonceFree(w) \/ NoNonce(w)
             \/ CircleRefuses(w)
    BY <1>1, <1>2, <1>4, <2>1, FaultTyped
       DEF Consume, FetchNonce, NonceHeld, AnswerHeld, NonceFree, NoNonce, CircleRefuses, TypeOK,
           otp, proofs, nonces, circle, told
  <2>2. CASE Mark(w)
    BY <1>1, <1>2, <1>3, <2>2 DEF Mark, TypeOK, otp, nonces, circle, told
  <2>3. CASE Idempotent(w)
    <3>1. acked' \subseteq Executions /\ crossed' \subseteq Executions \cup Mails
      BY <1>1, <1>2, <2>3 DEF Idempotent, GoOn, TypeOK
    <3>2. lost' \in [Executions -> Nat] /\ faults' \in 0..MaxFaults
      BY <1>1, <1>2, <2>3, LostDoes DEF Idempotent, TypeOK
    <3>3. QED
      BY <1>1, <1>2, <2>3, <3>1, <3>2 DEF Idempotent, TypeOK, otp, proofs, nonces, circle
  <2>11. CASE AnswerHeld(w)
    <3>1. acked' \subseteq Executions /\ stalled' \subseteq Executions
      BY <1>1, <1>2, <2>11 DEF AnswerHeld, TypeOK
    <3>2. faults' \in 0..MaxFaults
      BY <1>1, <2>11, FaultTyped DEF AnswerHeld, TypeOK
    <3>3. QED
      BY <1>1, <1>2, <2>11, <3>1, <3>2 DEF AnswerHeld, TypeOK, otp, proofs, nonces, circle
  <2>4. CASE ReserveNonce(w)
    BY <1>1, <1>2, <2>4 DEF ReserveNonce, TypeOK, otp, proofs, circle, told
  <2>5. CASE CircleAccepts(w)
    BY <1>1, <1>2, <2>5, CreateDoes DEF CircleAccepts, TypeOK, otp, proofs, nonces, told
  <2>6. CASE AnswerLost(w)
    <3>1. lost' \in [Executions -> Nat] /\ faults' \in 0..MaxFaults
      BY <1>1, <1>2, <2>6, LostDoes DEF AnswerLost
    <3>2. sent' \in [Executions -> Nat] /\ orders' \subseteq Orders /\ hashed' = hashed
      BY <1>2, <2>6, CreateDoes DEF AnswerLost
    <3>3. QED
      BY <1>1, <1>2, <2>6, <3>1, <3>2 DEF AnswerLost, TypeOK, otp, proofs, nonces, told
  <2>7. CASE ReleaseNonce(w)
    <3>1. lock' \in [0..MaxNonce -> Executions \cup {None}]
      BY <1>1, <2>7 DEF ReleaseNonce, TypeOK
    <3>2. faults' \in 0..MaxFaults
      BY <1>1, <2>7, FaultTyped DEF ReleaseNonce, TypeOK
    <3>3. QED
      BY <1>1, <1>2, <2>7, <3>1, <3>2 DEF ReleaseNonce, TypeOK, otp, proofs, circle, told
  <2>8. CASE RecordFailed(w)
    <3>1. /\ record' \in [Executions -> Records] /\ lost' \in [Executions -> Nat]
          /\ faults' \in 0..MaxFaults
      BY <1>1, <1>2, <2>8, ValueTypes, RecordDoes DEF RecordFailed
    <3>3. stalled' \subseteq Executions
      BY <1>1, <1>2, <2>8 DEF RecordFailed, TypeOK
    <3>2. QED
      BY <1>1, <1>2, <2>8, <3>1, <3>3 DEF RecordFailed, TypeOK, otp, proofs, nonces, circle, told
  <2>9. CASE RecordSent(w)
    <3>1. PICK h \in BOOLEAN : Record(e, Sent(h))
      BY <2>9 DEF RecordSent
    <3>2. /\ record' \in [Executions -> Records] /\ lost' \in [Executions -> Nat]
          /\ faults' \in 0..MaxFaults
      BY <1>1, <1>2, <3>1, ValueTypes, RecordDoes
    <3>3. acked' \subseteq Executions
      BY <1>1, <1>2, <2>9 DEF RecordSent, TypeOK
    <3>4. QED
      BY <1>1, <1>2, <2>9, <3>2, <3>3 DEF RecordSent, TypeOK, otp, proofs, nonces, circle, told
  <2>10. QED
    BY <2>1, <2>2, <2>3, <2>4, <2>5, <2>6, <2>7, <2>8, <2>9, <2>11
<1>6. QED
  BY <1>2, <1>4, <1>5, MoveTyped

\* What a request starts with.
LEMMA VerifyDoes ==
    ASSUME Typed, NEW w \in Workers, NEW m \in Mails \cup {None}, VerifyCode(w, m)
    PROVE  /\ job' \in [Workers -> Jobs] /\ JobOf(job'[w])
           /\ \A x \in Workers \ {w} : job'[x] = job[x]
           /\ job'[w].step = "check" /\ job'[w].code = code /\ code # NoCode
           /\ job'[w].execution = None
<1> DEFINE j == [Idle EXCEPT !.step = "check", !.typed = m, !.code = code]
<1>1. TypeOK /\ Idle \in Jobs /\ Idle.execution = None
  BY ValueTypes DEF Typed
<1>2. code \in Codes /\ code # NoCode /\ job' = [job EXCEPT ![w] = j]
  BY <1>1 DEF TypeOK, VerifyCode
<1>3. j \in Jobs
  BY <1>1, <1>2 DEF Jobs, Steps
<1>4. j.step = "check" /\ j.code = code /\ j.execution = None
  BY <1>1 DEF Jobs
<1>5. JobOf(j)
  BY <1>2, <1>4 DEF JobOf, BroadcastSteps, Early, Underway, Typed
<1> HIDE DEF j
<1>6. /\ job' \in [Workers -> Jobs] /\ job'[w] = j
      /\ \A x \in Workers \ {w} : job'[x] = job[x]
  BY <1>1, <1>2, <1>3 DEF TypeOK
<1>7. QED
  BY <1>2, <1>4, <1>5, <1>6

LEMMA BroadcastDoes ==
    ASSUME Typed, NEW w \in Workers, NEW p \in Proofs, NEW c \in Calls, Broadcast(w, p, c)
    PROVE  /\ job' \in [Workers -> Jobs] /\ JobOf(job'[w])
           /\ \A x \in Workers \ {w} : job'[x] = job[x]
           /\ job'[w].step = "consume" /\ job'[w].proof = p /\ job'[w].call = c
           /\ job'[w].execution = proof[p].execution /\ proof[p].call = c
           /\ proof[p].execution \in Executions
<1> DEFINE j == [Idle EXCEPT !.step = "consume", !.proof = p, !.call = c,
                             !.execution = proof[p].execution]
<1>1. TypeOK /\ Idle \in Jobs
  BY ValueTypes DEF Typed
<1>2. proof[p] # NoProof /\ proof[p].call = c /\ job' = [job EXCEPT ![w] = j]
  BY DEF Broadcast, Bound
<1>3. proof[p].execution \in Executions
  BY <1>2 DEF Typed
<1>4. j \in Jobs
  BY <1>1, <1>3 DEF Jobs, Steps, BroadcastSteps, Early
<1>5. j.step = "consume" /\ j.proof = p /\ j.call = c /\ j.execution = proof[p].execution
  BY <1>1 DEF Jobs
<1>6. JobOf(j)
  BY <1>3, <1>5 DEF JobOf
<1> HIDE DEF j
<1>7. /\ job' \in [Workers -> Jobs] /\ job'[w] = j
      /\ \A x \in Workers \ {w} : job'[x] = job[x]
  BY <1>1, <1>2, <1>4 DEF TypeOK
<1>8. QED
  BY <1>2, <1>3, <1>5, <1>6, <1>7

LEMMA StatusDoes ==
    ASSUME Typed, NEW w \in Workers, NEW e \in Executions, Status(w, e)
    PROVE  /\ job' \in [Workers -> Jobs] /\ JobOf(job'[w])
           /\ \A x \in Workers \ {w} : job'[x] = job[x]
           /\ job'[w].step = "lookup" /\ job'[w].execution = e /\ job'[w].copy = record[e]
<1> DEFINE j == [Idle EXCEPT !.step = "lookup", !.execution = e, !.copy = record[e]]
<1>1. TypeOK /\ Idle \in Jobs
  BY ValueTypes DEF Typed
<1>2. record[e] \in Records /\ job' = [job EXCEPT ![w] = j]
  BY <1>1 DEF Status, TypeOK
<1>3. j \in Jobs
  BY <1>1, <1>2 DEF Jobs, Steps
<1>4. j.step = "lookup" /\ j.execution = e /\ j.copy = record[e]
  BY <1>1 DEF Jobs
<1>5. JobOf(j)
  BY <1>4 DEF JobOf, BroadcastSteps, Early, Underway
<1> HIDE DEF j
<1>6. /\ job' \in [Workers -> Jobs] /\ job'[w] = j
      /\ \A x \in Workers \ {w} : job'[x] = job[x]
  BY <1>1, <1>2, <1>3 DEF TypeOK
<1>7. QED
  BY <1>4, <1>5, <1>6

LEMMA StartTyped ==
    ASSUME Typed, NEW w \in Workers,
           \/ \E m \in Mails \cup {None} : VerifyCode(w, m)
           \/ \E p \in Proofs, c \in Calls : Broadcast(w, p, c)
           \/ \E e \in Executions : Status(w, e)
    PROVE  Typed'
<1>1. TypeOK
  BY DEF Typed
<1>2. /\ job' \in [Workers -> Jobs] /\ JobOf(job'[w])
      /\ \A x \in Workers \ {w} : job'[x] = job[x]
  BY VerifyDoes, BroadcastDoes, StatusDoes
<1>3. UNCHANGED <<otp, proofs, record, nonces, circle, told, lost, faults>>
  BY DEF VerifyCode, Broadcast, Status
<1>4. crossed' \subseteq Executions \cup Mails
  BY <1>1 DEF VerifyCode, Broadcast, Status, TypeOK, Typed
<1>5. TypeOK'
  BY <1>1, <1>2, <1>3, <1>4 DEF TypeOK, otp, proofs, nonces, circle, told
<1>6. \A x \in Workers : JobOf(job'[x])
  BY <1>2 DEF Typed
<1>7. QED
  BY <1>3, <1>5, <1>6 DEF Typed, otp, proofs

\* What typing a code does.
LEMMA CodeDoes ==
    ASSUME Typed, NEW w \in Workers, WrongCode(w) \/ RightCode(w)
    PROVE  /\ job[w].step = "check" /\ job' \in [Workers -> Jobs] /\ job'[w] = Idle
           /\ \A x \in Workers \ {w} : job'[x] = job[x]
           /\ job[w].code \in Codes /\ job[w].code.mail \in Mails /\ job[w].code.terms \in Terms
           /\ code' \in Codes
           /\ \/ code' = NoCode
              \/ /\ code'.mail = job[w].code.mail /\ code'.terms = job[w].code.terms
                 /\ WrongCode(w)
           /\ \/ WrongCode(w) /\ UNCHANGED <<tokens, used>>
              \/ /\ RightCode(w) /\ code' = NoCode
                 /\ tokens' = tokens \cup {[mail |-> job[w].code.mail, terms |-> job[w].code.terms]}
                 /\ used' = [used EXCEPT ![job[w].code.mail] = @ + 1]
           /\ UNCHANGED <<mailed, proof, consumed, record, nonces, circle, told, crossed, lost, faults>>
<1>1. TypeOK /\ job[w].step = "check"
  BY DEF Typed, WrongCode, RightCode, At
<1>2. /\ job[w].code \in Codes /\ job[w].code.mail \in Mails /\ job[w].code.terms \in Terms
  BY <1>1 DEF Typed, JobOf, TypeOK, Jobs
<1>3. /\ job' \in [Workers -> Jobs] /\ job'[w] = Idle
      /\ \A x \in Workers \ {w} : job'[x] = job[x]
  BY <1>1, DoneDoes DEF WrongCode, RightCode
<1>4. CASE WrongCode(w)
  <2> DEFINE c == [job[w].code EXCEPT !.attempts = @ + 1]
  <2>1. code' = IF c.attempts >= MaxAttempts THEN NoCode ELSE c
    BY <1>4 DEF WrongCode
  <2>2. c.mail = job[w].code.mail /\ c.terms = job[w].code.terms
        /\ c.attempts = job[w].code.attempts + 1
    BY <1>2 DEF Codes
  <2>3. c.attempts < MaxAttempts => c \in Codes
    BY <1>2, <2>2 DEF Codes, MaxAttempts
  <2>4. c.attempts \in Nat
    BY <1>2, <2>2 DEF Codes, MaxAttempts
  <2>5. code' \in Codes /\ (code' = NoCode \/ code' = c)
    BY <2>1, <2>3, <2>4, ValueTypes DEF MaxAttempts
  <2>6. UNCHANGED <<mailed, tokens, used, proof, consumed, record, nonces, circle, told, crossed,
                    lost, faults>>
    BY <1>4 DEF WrongCode, proofs
  <2>7. QED
    BY <1>1, <1>2, <1>3, <1>4, <2>2, <2>5, <2>6
<1>5. CASE RightCode(w)
  BY <1>1, <1>2, <1>3, <1>5, ValueTypes DEF RightCode, proofs
<1>6. QED
  BY <1>4, <1>5

LEMMA CodeTyped ==
    ASSUME Typed, NEW w \in Workers, WrongCode(w) \/ RightCode(w)
    PROVE  Typed'
<1>1. TypeOK
  BY DEF Typed
<1>2. tokens' \subseteq Tokens /\ used' \in [Mails -> Nat]
  <2> DEFINE m == job[w].code.mail
             token == [mail |-> m, terms |-> job[w].code.terms]
  <2>1. m \in Mails /\ token \in Tokens
    BY CodeDoes DEF Tokens
  <2>2. used[m] \in Nat /\ used \in [Mails -> Nat] /\ tokens \subseteq Tokens
    BY <1>1, <2>1 DEF TypeOK
  <2>3. \/ UNCHANGED <<tokens, used>>
        \/ tokens' = tokens \cup {token} /\ used' = [used EXCEPT ![m] = used[m] + 1]
    BY CodeDoes
  <2>4. QED
    BY <2>1, <2>2, <2>3
<1>3. TypeOK'
  BY <1>1, <1>2, CodeDoes DEF TypeOK, nonces, circle, told
<1>4. \A x \in Workers : JobOf(job'[x])
  BY CodeDoes, ValueTypes DEF Typed, JobOf, BroadcastSteps, Early, Underway, Steps
<1>5. code' # NoCode => code'.mail \in Mails /\ code'.terms \in Terms
  BY CodeDoes
<1>6. proof' = proof
  BY CodeDoes
<1>7. QED
  BY <1>3, <1>4, <1>5, <1>6 DEF Typed

LEMMA PollTyped ==
    ASSUME Typed, NEW w \in Workers, Lookup(w) \/ RecordFound(w) \/ Abandon(w)
    PROVE  Typed'
<1>1. TypeOK
  BY DEF Typed
<1>2. CASE Lookup(w)
  <2>1. job[w].step = "lookup" /\ (Done(w) \/ Goto(w, "found"))
    BY <1>2 DEF Lookup, At
  <2>2. /\ job' \in [Workers -> Jobs] /\ \A x \in Workers \ {w} : job'[x] = job[x]
        /\ job'[w] = Idle \/ (Kept(w) /\ job'[w].step = "found")
    <3>1. "found" \in Steps
      BY DEF Steps
    <3>2. CASE Done(w)
      BY <1>1, <3>2, DoneDoes
    <3>3. CASE Goto(w, "found")
      BY <1>1, <3>1, <3>3, GotoKeeps
    <3>4. QED
      BY <2>1, <3>2, <3>3
  <2>3. TypeOK'
    BY <1>1, <1>2, <2>2 DEF Lookup, TypeOK, otp, proofs, nonces, circle, told
  <2>4. QED
    BY <1>2, <2>1, <2>2, <2>3, MoveTyped DEF Lookup, otp, proofs
<1>3. CASE RecordFound(w)
  <2>1. job[w].step = "found" /\ Done(w) /\ Record(job[w].execution, Found(job[w].copy))
    BY <1>3 DEF RecordFound, At
  <2>2. job[w].execution \in Executions /\ job[w].copy \in Records
    BY <1>1, <2>1 DEF Typed, JobOf, TypeOK, Jobs
  <2>3. /\ record' \in [Executions -> Records] /\ lost' \in [Executions -> Nat]
        /\ faults' \in 0..MaxFaults
    BY <1>1, <2>1, <2>2, ValueTypes, RecordDoes
  <2>4. /\ job' \in [Workers -> Jobs] /\ \A x \in Workers \ {w} : job'[x] = job[x]
        /\ job'[w] = Idle
    BY <1>1, <2>1, DoneDoes
  <2>5. TypeOK'
    BY <1>1, <1>3, <2>3, <2>4 DEF RecordFound, TypeOK, otp, proofs, nonces, circle, told
  <2>6. QED
    BY <1>3, <2>4, <2>5, MoveTyped DEF RecordFound, otp, proofs
<1>4. CASE Abandon(w)
  <2>1. /\ job' \in [Workers -> Jobs] /\ \A x \in Workers \ {w} : job'[x] = job[x]
        /\ job'[w] = Idle
    BY <1>1, <1>4, DoneDoes DEF Abandon
  <2>2. lost' \in [Executions -> Nat]
    <3>1. CASE At(w, "accepted")
      <4>1. lost' = [lost EXCEPT ![job[w].execution] = @ + 1]
        BY <1>4, <3>1 DEF Abandon
      <4>2. job[w].execution \in Executions
        BY <3>1 DEF At, Typed, JobOf, BroadcastSteps, Early, Underway, Steps
      <4>3. QED
        BY <1>1, <4>1, <4>2 DEF TypeOK
    <3>2. CASE ~At(w, "accepted")
      BY <1>1, <1>4, <3>2 DEF Abandon, TypeOK
    <3>3. QED
      BY <3>1, <3>2
  <2>3. faults' \in 0..MaxFaults
    BY <1>1, <1>4, FaultTyped DEF Abandon
  <2>4. TypeOK'
    BY <1>1, <1>4, <2>1, <2>2, <2>3 DEF Abandon, TypeOK, otp, proofs, nonces, circle, told
  <2>5. QED
    BY <1>4, <2>1, <2>4, MoveTyped DEF Abandon, otp, proofs
<1>5. QED
  BY <1>2, <1>3, <1>4

LEMMA OtherTyped ==
    ASSUME Typed,
           \/ ExpireCode
           \/ \E m \in Mails, t \in Terms : RequestCode(m, t)
           \/ \E p \in Proofs, e \in Executions, d \in Declarations, c \in Calls :
                 Authorize(p, e, d, c)
           \/ \E e \in Executions : Hash(e)
           \/ \E n \in 0..MaxNonce : ExpireNonce(n)
    PROVE  Typed'
<1>1. TypeOK
  BY DEF Typed
<1>2. CASE ExpireCode
  <2>1. TypeOK'
    BY <1>1, <1>2, ValueTypes DEF ExpireCode, TypeOK, proofs, nonces, circle, told
  <2>2. QED
    BY <1>2, <2>1 DEF ExpireCode, Typed, proofs
<1>3. ASSUME NEW m \in Mails, NEW t \in Terms, RequestCode(m, t) PROVE Typed'
  <2> DEFINE c == [mail |-> m, terms |-> t, attempts |-> 0]
  <2>1. c \in Codes /\ c.mail = m /\ c.terms = t
    BY DEF Codes, MaxAttempts
  <2>2. TypeOK'
    BY <1>1, <1>3, <2>1 DEF RequestCode, TypeOK, proofs, nonces, circle, told
  <2>3. QED
    BY <1>3, <2>1, <2>2 DEF RequestCode, Typed, proofs
<1>4. ASSUME NEW p \in Proofs, NEW e \in Executions, NEW d \in Declarations, NEW c \in Calls,
             Authorize(p, e, d, c)
      PROVE  Typed'
  <2>1. PICK m \in Mails \cup {None} :
            proof' = [proof EXCEPT ![p] = [execution |-> e, declared |-> d,
                                           call |-> c, mail |-> m]]
    BY <1>4 DEF Authorize
  <2> DEFINE q == [execution |-> e, declared |-> d, call |-> c, mail |-> m]
  <2>2. q \in Authorizations /\ q.execution = e /\ q.call = c
    BY DEF Authorizations
  <2>3. \A k \in Proofs : proof'[k] = proof[k] \/ proof'[k] = q
    BY <1>1, <2>1 DEF TypeOK
  <2>4. TypeOK'
    BY <1>1, <1>4, <2>1, <2>2 DEF Authorize, TypeOK, otp, nonces, circle, told
  <2>5. UNCHANGED <<code, job>>
    BY <1>4 DEF Authorize, otp
  <2>6. QED
    BY <2>2, <2>3, <2>4, <2>5 DEF Typed
<1>5. ASSUME NEW e \in Executions, Hash(e) PROVE Typed'
  <2>1. nonce' \in 0..MaxNonce
    BY <1>1, <1>5, SignerAssumption DEF Hash, TypeOK, SignerAssumption
  <2>2. TypeOK'
    BY <1>1, <1>5, <2>1 DEF Hash, TypeOK, otp, proofs, told
  <2>3. QED
    BY <1>5, <2>2 DEF Hash, Typed, otp, proofs
<1>6. ASSUME NEW n \in 0..MaxNonce, ExpireNonce(n) PROVE Typed'
  <2>1. TypeOK'
    BY <1>1, <1>6 DEF ExpireNonce, TypeOK, otp, proofs, circle, told
  <2>2. QED
    BY <1>6, <2>1 DEF ExpireNonce, Typed, otp, proofs
<1>7. QED
  BY <1>2, <1>3, <1>4, <1>5, <1>6


LEMMA StepTyped == Typed /\ [Next]_vars => Typed'
<1>1. SUFFICES ASSUME Typed, [Next]_vars PROVE Typed'
  OBVIOUS
<1>2. CASE UNCHANGED vars
  BY <1>1, <1>2 DEF Typed, TypeOK, vars, otp, proofs, nonces, circle, told
<1>3. CASE Next
  BY <1>1, <1>3, BroadcastTyped, StartTyped, CodeTyped, PollTyped, OtherTyped DEF Next, Step
<1>4. QED
  BY <1>1, <1>2, <1>3

\* Every reachable state is well typed.
THEOREM TypeCorrect == Spec => []TypeOK
<1>1. Typed => TypeOK
  BY DEF Typed
<1>2. QED
  BY <1>1, InitTyped, StepTyped, PTL DEF Spec

-------------------------------------------------------------------------------
(* What is done on the word of a code was declared as what it was mailed for:    *)
(* the operation goes with the code from the store to the token, which the       *)
(* declaration agrees with; the call goes with the proof; and neither what a     *)
(* code was mailed for nor a proof ever changes.                                 *)

TrueTerms(mail, terms, shown) == shown[mail] = terms

Confirmed ==
    /\ Typed
    /\ code # NoCode => TrueTerms(code.mail, code.terms, mailed)
    /\ \A token \in tokens : TrueTerms(token.mail, token.terms, mailed)
    /\ \A p \in Proofs : proof[p].mail # None =>
          mailed[proof[p].mail] \in Terms /\ Agree(proof[p].declared, mailed[proof[p].mail])
    /\ \A w \in Workers :
          /\ job[w].step = "check" => TrueTerms(job[w].code.mail, job[w].code.terms, mailed)
          /\ job[w].step \in BroadcastSteps => proof[job[w].proof].call = job[w].call
    /\ \A o \in orders : proof[o.proof].call = o.call

LEMMA InitConfirmed == Init => Confirmed
<1>1. SUFFICES ASSUME Init PROVE Confirmed
  OBVIOUS
<1>2. \A w \in Workers : job[w].step = "idle"
  BY <1>1, ValueTypes DEF Init
<1>3. \A p \in Proofs : proof[p].mail = None
  BY <1>1 DEF Init, NoProof
<1>4. code = NoCode /\ tokens = {} /\ orders = {}
  BY <1>1 DEF Init
<1>5. Typed
  BY <1>1, InitTyped
<1>6. QED
  BY <1>2, <1>3, <1>4, <1>5 DEF Confirmed, BroadcastSteps, Early, Underway, Steps

LEMMA BroadcastConfirmed ==
    ASSUME Confirmed, NEW w \in Workers,
           \/ Consume(w) \/ Mark(w) \/ Idempotent(w)
           \/ FetchNonce(w) \/ NonceHeld(w) \/ AnswerHeld(w) \/ NonceFree(w) \/ ReserveNonce(w) \/ NoNonce(w)
           \/ CircleAccepts(w) \/ CircleRefuses(w) \/ AnswerLost(w) \/ ReleaseNonce(w)
           \/ RecordFailed(w) \/ RecordSent(w)
    PROVE  Confirmed'
<1>1. Typed /\ Typed'
  BY BroadcastTyped DEF Confirmed
<1>2. /\ job[w].step \in BroadcastSteps
      /\ \A x \in Workers \ {w} : job'[x] = job[x]
      /\ \/ job'[w] = Idle
         \/ Kept(w) /\ job'[w].step \in BroadcastSteps
  BY <1>1, BroadcastMoves
<1>3. UNCHANGED <<mailed, code, tokens, proof>>
  BY DEF Consume, Mark, Idempotent, FetchNonce, NonceHeld, AnswerHeld, NonceFree, ReserveNonce, NoNonce,
         CircleAccepts, CircleRefuses, AnswerLost, ReleaseNonce, RecordFailed, RecordSent,
         otp, proofs
<1>4. \A x \in Workers :
          /\ job'[x].step = "check" => TrueTerms(job'[x].code.mail, job'[x].code.terms, mailed)
          /\ job'[x].step \in BroadcastSteps => proof[job'[x].proof].call = job'[x].call
  BY <1>2, ValueTypes DEF Confirmed, Kept, BroadcastSteps, Early, Underway, Steps
<1>5. \A o \in orders' : proof[o.proof].call = o.call
  <2>1. CASE CircleAccepts(w) \/ AnswerLost(w)
    <3> DEFINE o == [proof |-> job[w].proof, call |-> job[w].call]
    <3>1. orders' = orders \cup {o}
      BY <2>1 DEF CircleAccepts, AnswerLost, Create
    <3>2. proof[job[w].proof].call = job[w].call
      BY <1>2 DEF Confirmed
    <3>3. QED
      BY <3>1, <3>2 DEF Confirmed
  <2>2. CASE ~(CircleAccepts(w) \/ AnswerLost(w))
    <3>1. orders' = orders
      BY <2>2 DEF Consume, Mark, Idempotent, FetchNonce, NonceHeld, AnswerHeld, NonceFree,
             ReserveNonce, NoNonce, CircleRefuses, ReleaseNonce, RecordFailed, RecordSent, circle
    <3>2. QED
      BY <3>1 DEF Confirmed
  <2>3. QED
    BY <2>1, <2>2
<1>6. QED
  BY <1>1, <1>3, <1>4, <1>5 DEF Confirmed

LEMMA RequestConfirmed ==
    ASSUME Confirmed, NEW w \in Workers,
           \/ \E m \in Mails \cup {None} : VerifyCode(w, m)
           \/ \E p \in Proofs, c \in Calls : Broadcast(w, p, c)
           \/ \E e \in Executions : Status(w, e)
           \/ WrongCode(w) \/ RightCode(w)
           \/ Lookup(w) \/ RecordFound(w) \/ Abandon(w)
    PROVE  Confirmed'
<1>1. Typed /\ TypeOK
  BY DEF Confirmed, Typed
<1>2. UNCHANGED <<mailed, proof, orders>>
  BY DEF VerifyCode, Broadcast, Status, WrongCode, RightCode, Lookup, RecordFound, Abandon,
         otp, proofs, circle
<1>3. CASE \E m \in Mails \cup {None} : VerifyCode(w, m)
  <2>1. PICK m \in Mails \cup {None} : VerifyCode(w, m)
    BY <1>3
  <2>2. /\ \A x \in Workers \ {w} : job'[x] = job[x]
        /\ job'[w].step = "check" /\ job'[w].code = code /\ code # NoCode
    BY <1>1, <2>1, VerifyDoes
  <2>3. Typed' /\ UNCHANGED <<code, tokens>>
    BY <1>1, <1>3, <2>1, StartTyped DEF VerifyCode, otp
  <2>4. QED
    BY <1>2, <2>2, <2>3 DEF Confirmed, BroadcastSteps, Early, Underway
<1>4. CASE \E p \in Proofs, c \in Calls : Broadcast(w, p, c)
  <2>1. PICK p \in Proofs, c \in Calls : Broadcast(w, p, c)
    BY <1>4
  <2>2. /\ \A x \in Workers \ {w} : job'[x] = job[x]
        /\ job'[w].step = "consume" /\ job'[w].proof = p /\ job'[w].call = c
        /\ proof[p].call = c
    BY <1>1, <2>1, BroadcastDoes
  <2>3. Typed' /\ UNCHANGED <<code, tokens>>
    BY <1>1, <1>4, <2>1, StartTyped DEF Broadcast, otp
  <2>4. QED
    BY <1>2, <2>2, <2>3 DEF Confirmed
<1>5. CASE \E e \in Executions : Status(w, e)
  <2>1. PICK e \in Executions : Status(w, e)
    BY <1>5
  <2>2. /\ \A x \in Workers \ {w} : job'[x] = job[x]
        /\ job'[w].step = "lookup"
    BY <1>1, <2>1, StatusDoes
  <2>3. Typed' /\ UNCHANGED <<code, tokens>>
    BY <1>1, <1>5, <2>1, StartTyped DEF Status, otp
  <2>4. QED
    BY <1>2, <2>2, <2>3 DEF Confirmed, BroadcastSteps, Early, Underway
<1>6. CASE WrongCode(w) \/ RightCode(w)
  <2>1. Typed'
    BY <1>1, <1>6, CodeTyped
  <2>2. job[w].step = "check" /\ TrueTerms(job[w].code.mail, job[w].code.terms, mailed)
    BY <1>1, <1>6, CodeDoes DEF Confirmed
  <2>3. code' # NoCode => TrueTerms(code'.mail, code'.terms, mailed)
    BY <1>1, <1>6, <2>2, CodeDoes
  <2>4. \A token \in tokens' : TrueTerms(token.mail, token.terms, mailed)
    <3> DEFINE token == [mail |-> job[w].code.mail, terms |-> job[w].code.terms]
    <3>1. tokens' = tokens \/ tokens' = tokens \cup {token}
      BY <1>1, <1>6, CodeDoes
    <3>2. TrueTerms(token.mail, token.terms, mailed)
      BY <2>2
    <3>3. QED
      BY <3>1, <3>2 DEF Confirmed
  <2>5. \A x \in Workers : job'[x] = job[x] \/ job'[x] = Idle
    BY <1>1, <1>6, CodeDoes
  <2>6. QED
    BY <1>2, <2>1, <2>3, <2>4, <2>5, ValueTypes DEF Confirmed, BroadcastSteps, Early, Underway, Steps
<1>7. CASE Lookup(w) \/ RecordFound(w) \/ Abandon(w)
  <2>1. Typed' /\ UNCHANGED <<code, tokens>>
    BY <1>1, <1>7, PollTyped DEF Lookup, RecordFound, Abandon, otp
  <2>2. \A x \in Workers : \/ job'[x] = job[x] \/ job'[x] = Idle
                           \/ job'[x].step = "found"
    <3>1. CASE Goto(w, "found")
      BY <1>1, <3>1, GotoKeeps DEF Steps
    <3>2. CASE Done(w)
      BY <1>1, <3>2, DoneDoes
    <3>3. QED
      BY <1>7, <3>1, <3>2 DEF Lookup, RecordFound, Abandon
  <2>3. QED
    BY <1>2, <2>1, <2>2, ValueTypes DEF Confirmed, BroadcastSteps, Early, Underway, Steps
<1>8. QED
  BY <1>3, <1>4, <1>5, <1>6, <1>7

LEMMA OtherConfirmed ==
    ASSUME Confirmed,
           \/ ExpireCode
           \/ \E m \in Mails, t \in Terms : RequestCode(m, t)
           \/ \E p \in Proofs, e \in Executions, d \in Declarations, c \in Calls :
                 Authorize(p, e, d, c)
           \/ \E e \in Executions : Hash(e)
           \/ \E n \in 0..MaxNonce : ExpireNonce(n)
    PROVE  Confirmed'
<1>1. Typed /\ TypeOK /\ Typed'
  BY OtherTyped DEF Confirmed, Typed
<1>2. UNCHANGED <<job, tokens, orders>>
  BY DEF ExpireCode, RequestCode, Authorize, Hash, ExpireNonce, otp, circle
<1>3. CASE ExpireCode \/ (\E e \in Executions : Hash(e)) \/ \E n \in 0..MaxNonce : ExpireNonce(n)
  <2>1. UNCHANGED <<mailed, proof>> /\ (code' = code \/ code' = NoCode)
    BY <1>3 DEF ExpireCode, Hash, ExpireNonce, otp, proofs
  <2>2. QED
    BY <1>1, <1>2, <2>1 DEF Confirmed
<1>4. ASSUME NEW m \in Mails, NEW t \in Terms, RequestCode(m, t) PROVE Confirmed'
  <2>1. /\ mailed[m] = None /\ mailed' = [mailed EXCEPT ![m] = t] /\ proof' = proof
        /\ code'.mail = m /\ code'.terms = t
    BY <1>4 DEF RequestCode, proofs
  <2>2. mailed'[m] = t /\ \A k : mailed[k] # None /\ k \in Mails => mailed'[k] = mailed[k]
    BY <1>1, <2>1 DEF TypeOK
  <2>3. ASSUME NEW mail \in Mails, NEW terms \in Terms, TrueTerms(mail, terms, mailed)
        PROVE  TrueTerms(mail, terms, mailed')
    BY <2>2, <2>3, SignerAssumption DEF TrueTerms, SignerAssumption
  <2>4. TrueTerms(code'.mail, code'.terms, mailed')
    BY <2>1, <2>2 DEF TrueTerms
  <2>5. \A token \in tokens : TrueTerms(token.mail, token.terms, mailed')
    BY <1>1, <2>3 DEF Confirmed, TypeOK, Tokens
  <2>6. \A p \in Proofs : proof[p].mail # None =>
            /\ mailed'[proof[p].mail] \in Terms
            /\ Agree(proof[p].declared, mailed'[proof[p].mail])
    <3>1. ASSUME NEW p \in Proofs, proof[p].mail # None
          PROVE  proof[p].mail \in Mails /\ mailed[proof[p].mail] \in Terms
      BY <1>1, <3>1 DEF TypeOK, Authorizations, Confirmed
    <3>2. None \notin Terms
      BY SignerAssumption DEF SignerAssumption
    <3>3. QED
      BY <2>2, <3>1, <3>2 DEF Confirmed
  <2>7. \A w \in Workers : job[w].step = "check" =>
            TrueTerms(job[w].code.mail, job[w].code.terms, mailed')
    BY <1>1, <2>3 DEF Confirmed, Typed, JobOf
  <2>8. QED
    BY <1>1, <1>2, <2>1, <2>4, <2>5, <2>6, <2>7 DEF Confirmed
<1>5. ASSUME NEW p \in Proofs, NEW e \in Executions, NEW d \in Declarations, NEW c \in Calls,
             Authorize(p, e, d, c)
      PROVE  Confirmed'
  <2>1. PICK m \in Mails \cup {None} :
            /\ m # None => \E token \in tokens : token.mail = m /\ Confirms(token, d)
            /\ proof' = [proof EXCEPT ![p] = [execution |-> e, declared |-> d,
                                              call |-> c, mail |-> m]]
    BY <1>5 DEF Authorize
  <2>2. proof[p] = NoProof /\ UNCHANGED <<mailed, code>>
    BY <1>5 DEF Authorize, otp
  <2>3. m # None => mailed[m] \in Terms /\ Agree(d, mailed[m])
    BY <1>1, <2>1 DEF Confirmed, Confirms, TrueTerms, TypeOK, Tokens
  <2>4. \A k \in Proofs :
            proof'[k] = IF k = p THEN [execution |-> e, declared |-> d, call |-> c, mail |-> m]
                        ELSE proof[k]
    BY <1>1, <2>1 DEF TypeOK
  <2>5. \A k \in Proofs : proof'[k].mail # None =>
            mailed[proof'[k].mail] \in Terms /\ Agree(proof'[k].declared, mailed[proof'[k].mail])
    BY <2>3, <2>4 DEF Confirmed
  <2>6. proof[p].call \notin Calls
    BY <2>2, SignerAssumption DEF NoProof, SignerAssumption
  <2>7. \A w \in Workers : job[w].step \in BroadcastSteps =>
            proof'[job[w].proof].call = job[w].call
    <3>1. ASSUME NEW w \in Workers, job[w].step \in BroadcastSteps
          PROVE  /\ job[w].proof \in Proofs /\ job[w].call \in Calls
                 /\ proof[job[w].proof].call = job[w].call
      BY <1>1, <3>1 DEF Confirmed, Typed, JobOf
    <3>2. QED
      BY <2>4, <2>6, <3>1
  <2>8. \A o \in orders : proof'[o.proof].call = o.call
    <3>1. ASSUME NEW o \in orders
          PROVE  o.proof \in Proofs /\ o.call \in Calls /\ proof[o.proof].call = o.call
      BY <1>1, <3>1 DEF Confirmed, TypeOK, Orders
    <3>2. QED
      BY <2>4, <2>6, <3>1
  <2>9. QED
    BY <1>1, <1>2, <2>2, <2>5, <2>7, <2>8 DEF Confirmed
<1>6. QED
  BY <1>3, <1>4, <1>5

LEMMA StepConfirmed == Confirmed /\ [Next]_vars => Confirmed'
<1>1. SUFFICES ASSUME Confirmed, [Next]_vars PROVE Confirmed'
  OBVIOUS
<1>2. CASE UNCHANGED vars
  BY <1>1, <1>2, StepTyped DEF Confirmed, vars, otp, proofs, circle
<1>3. CASE Next
  BY <1>1, <1>3, BroadcastConfirmed, RequestConfirmed, OtherConfirmed DEF Next, Step
<1>4. QED
  BY <1>1, <1>2, <1>3

\* What Circle was asked to call on the word of a mailed code is what the proof binds,
\* and the proof was asked for as the operation the code was mailed for, in every
\* field both of them give.
THEOREM ConfirmationIsKept == Spec => []DoneAsConfirmed
<1>1. Confirmed => DoneAsConfirmed
  BY DEF Confirmed, Typed, TypeOK, Orders, DoneAsConfirmed
<1>2. QED
  BY <1>1, InitConfirmed, StepConfirmed, PTL DEF Spec


-------------------------------------------------------------------------------
(* What is told and recorded about an execution was sent to Circle.              *)

Sending == Underway \ {"accepted"}

\* Another broadcast of e is underway.
Met(e) == \E v \in Workers : job[v].execution = e /\ job[v].step \in Underway

\* What a step of a broadcast does to its execution.
Quiet == UNCHANGED <<sent, record, lost, acked>>
Effect(w, e) ==
    \/ /\ job[w].step \in Early /\ job'[w].step \in Early \cup {"idle"}
       /\ Quiet
    \/ /\ job[w].step \in Early /\ job'[w].step = "idle" /\ InFlight(record[e])
       /\ acked' = acked \cup {e} /\ UNCHANGED <<sent, record, lost>>
    \/ /\ job[w].step \in Early /\ job'[w].step = "nonce" /\ ~InFlight(record[e])
       /\ Quiet /\ (Met(e) => e \in crossed')
    \/ /\ job[w].step \in Early /\ job'[w].step = "nonce" /\ lost'[e] = lost[e] + 1
       /\ UNCHANGED <<sent, record, acked>> /\ (Met(e) => e \in crossed')
    \/ /\ job[w].step \in Sending /\ job'[w].step \in Sending \cup {"idle", "held"}
       /\ Quiet
    \/ /\ job[w].step = "held" /\ job'[w].step = "idle" /\ UNCHANGED <<sent, record, lost>>
       /\ acked' = acked \/ (acked' = acked \cup {e} /\ record[e].hash)
    \/ /\ job[w].step = "call" /\ job'[w].step = "accepted" /\ sent'[e] = sent[e] + 1
       /\ UNCHANGED <<record, lost, acked>>
    \/ /\ job[w].step = "call" /\ job'[w].step = "refused" /\ sent'[e] = sent[e] + 1
       /\ lost'[e] = lost[e] + 1 /\ UNCHANGED <<record, acked>>
    \/ /\ job[w].step = "failed" /\ job'[w].step = "idle" /\ UNCHANGED <<sent, acked>>
       /\ \/ record'[e] = Failed /\ lost'[e] = lost[e]
          \/ record'[e] = record[e] /\ lost'[e] = lost[e] + 1
    \/ /\ job[w].step = "accepted" /\ job'[w].step = "idle"
       /\ acked' = acked \cup {e} /\ UNCHANGED sent
       /\ \/ \E h \in BOOLEAN : record'[e] = Sent(h) /\ lost'[e] = lost[e]
          \/ record'[e] = record[e] /\ lost'[e] = lost[e] + 1

OthersKept(e) ==
    \A x \in Executions \ {e} :
        sent'[x] = sent[x] /\ lost'[x] = lost[x] /\ record'[x] = record[x]

LEMMA BroadcastEffect ==
    ASSUME Typed, NEW w \in Workers,
           \/ Consume(w) \/ Mark(w) \/ Idempotent(w)
           \/ FetchNonce(w) \/ NonceHeld(w) \/ AnswerHeld(w) \/ NonceFree(w) \/ ReserveNonce(w) \/ NoNonce(w)
           \/ CircleAccepts(w) \/ CircleRefuses(w) \/ AnswerLost(w) \/ ReleaseNonce(w)
           \/ RecordFailed(w) \/ RecordSent(w)
    PROVE  Effect(w, job[w].execution) /\ OthersKept(job[w].execution)
<1> DEFINE e == job[w].execution
<1>1. TypeOK /\ e \in Executions
  BY BroadcastMoves DEF Typed
<1>2. Done(w) => job'[w].step = "idle"
  BY <1>1, DoneDoes, ValueTypes
<1>3. \A step \in BroadcastSteps : Goto(w, step) => job'[w].step = step
  BY <1>1, GotoKeeps DEF Steps
<1>4. CASE Consume(w) \/ Mark(w)
  BY <1>2, <1>3, <1>4
     DEF Consume, Mark, At, Effect, Quiet, OthersKept, Early, BroadcastSteps, circle, told
<1>5. CASE Idempotent(w)
  <2>1. UNCHANGED <<sent, record>> /\ job[w].step \in Early
    BY <1>5 DEF Idempotent, At, Early, circle
  <2>2. CASE /\ InFlight(record[e]) /\ acked' = acked \cup {e} /\ Done(w)
             /\ UNCHANGED <<crossed, lost, faults>>
    BY <1>2, <2>1, <2>2 DEF Effect, OthersKept
  <2>6. GoOn(w) => job'[w].step = "nonce" /\ (Met(e) => e \in crossed')
    BY <1>3 DEF GoOn, Met, BroadcastSteps, Underway
  <2>3. CASE ~InFlight(record[e]) /\ GoOn(w) /\ UNCHANGED <<acked, lost, faults>>
    BY <2>1, <2>3, <2>6 DEF Effect, Quiet, OthersKept
  <2>4. CASE Lost(e) /\ GoOn(w) /\ UNCHANGED acked
    BY <1>1, <2>1, <2>4, <2>6, LostDoes DEF Effect, OthersKept
  <2>5. QED
    BY <1>5, <2>2, <2>3, <2>4 DEF Idempotent
<1>6. CASE \/ FetchNonce(w) \/ NonceHeld(w) \/ NonceFree(w) \/ ReserveNonce(w) \/ NoNonce(w)
           \/ CircleRefuses(w) \/ ReleaseNonce(w)
  <2>1. job[w].step \in Sending
    BY <1>6 DEF FetchNonce, NonceHeld, NonceFree, ReserveNonce, NoNonce, CircleRefuses,
                ReleaseNonce, At, Sending, Underway
  <2>2. Quiet
    BY <1>6 DEF FetchNonce, NonceHeld, NonceFree, ReserveNonce, NoNonce, CircleRefuses,
                ReleaseNonce, Quiet, circle, told
  <2>3. job'[w].step \in Sending \cup {"idle", "held"}
    <3>1. CASE FetchNonce(w)
      BY <1>1, <3>1, NonceDoes DEF FetchNonce, Sending, Underway
    <3>2. CASE NonceFree(w) \/ ReserveNonce(w)
      BY <1>1, <1>3, <3>2, LockedDoes
         DEF NonceFree, ReserveNonce, Sending, BroadcastSteps, Early, Underway, Steps
    <3>3. CASE NonceHeld(w) \/ NoNonce(w) \/ CircleRefuses(w) \/ ReleaseNonce(w)
      BY <1>2, <1>3, <3>3
         DEF NonceHeld, NoNonce, CircleRefuses, ReleaseNonce, Sending, BroadcastSteps, Early, Underway, Steps
    <3>4. QED
      BY <1>6, <3>1, <3>2, <3>3
  <2>4. QED
    BY <2>1, <2>2, <2>3 DEF Effect, Quiet, OthersKept
<1>12. CASE AnswerHeld(w)
  BY <1>2, <1>12 DEF AnswerHeld, At, Effect, OthersKept, circle
<1>7. CASE CircleAccepts(w)
  BY <1>3, <1>7, BroadcastMoves, CreateDoes
     DEF CircleAccepts, At, Effect, OthersKept, told, BroadcastSteps, Underway, Steps
<1>8. CASE AnswerLost(w)
  BY <1>1, <1>3, <1>8, BroadcastMoves, CreateDoes, LostDoes
     DEF AnswerLost, At, Effect, OthersKept, told, BroadcastSteps, Underway, Steps
<1>9. CASE RecordFailed(w)
  BY <1>1, <1>2, <1>9, ValueTypes, RecordDoes
     DEF RecordFailed, At, Effect, OthersKept, circle
<1>10. CASE RecordSent(w)
  <2>1. PICK h \in BOOLEAN : Record(e, Sent(h))
    BY <1>10 DEF RecordSent
  <2>2. Sent(h) \in Records
    BY ValueTypes
  <2>3. /\ \A x \in Executions \ {e} : record'[x] = record[x] /\ lost'[x] = lost[x]
        /\ \/ record'[e] = Sent(h) /\ lost'[e] = lost[e]
           \/ record'[e] = record[e] /\ lost'[e] = lost[e] + 1
    BY <1>1, <2>1, <2>2, RecordDoes
  <2>4. /\ job[w].step = "accepted" /\ job'[w].step = "idle" /\ sent' = sent
        /\ acked' = acked \cup {e}
    BY <1>2, <1>10 DEF RecordSent, At, circle
  <2>5. QED
    BY <2>3, <2>4 DEF Effect, OthersKept
<1>11. QED
  BY <1>4, <1>5, <1>6, <1>7, <1>8, <1>9, <1>10, <1>12

\* The execution was told to a client, or recorded, as one Circle has.
Shown(e) == InFlight(record[e]) \/ record[e].circle \/ record[e].hash

Sends ==
    /\ Typed
    /\ \A e \in Executions : e \in acked \/ Shown(e) => sent[e] > 0
    /\ \A w \in Workers :
          job[w].step \in {"accepted", "lookup", "found"} => sent[job[w].execution] > 0

LEMMA InitSends == Init => Sends
<1>1. SUFFICES ASSUME Init PROVE Sends
  OBVIOUS
<1>2. \A w \in Workers : job[w].step = "idle"
  BY <1>1, ValueTypes DEF Init
<1>3. \A e \in Executions : e \notin acked /\ record[e] = NoRecord
  BY <1>1 DEF Init
<1>4. Typed
  BY <1>1, InitTyped
<1>5. ~InFlight(NoRecord) /\ ~NoRecord.circle /\ ~NoRecord.hash
  BY DEF InFlight, NoRecord
<1>6. QED
  BY <1>2, <1>3, <1>4, <1>5 DEF Sends, Shown

\* A request that ends, or goes on, while nothing new is told about any execution.
LEMMA SendsKept ==
    ASSUME Sends, Typed', NEW w \in Workers,
           \A x \in Workers \ {w} : job'[x] = job[x],
           \A e \in Executions : sent[e] > 0 => sent'[e] > 0,
           job'[w].step \in {"accepted", "lookup", "found"} => sent'[job'[w].execution] > 0,
           \A e \in Executions :
               e \in acked' \/ Shown(e)' => e \in acked \/ Shown(e) \/ sent'[e] > 0
    PROVE  Sends'
<1>1. \A e \in Executions : e \in acked' \/ Shown(e)' => sent'[e] > 0
  BY DEF Sends
<1>2. ASSUME NEW x \in Workers, job'[x].step \in {"accepted", "lookup", "found"}
      PROVE  sent'[job'[x].execution] > 0
  <2>1. CASE x = w
    BY <1>2, <2>1
  <2>2. CASE x # w
    <3>1. job'[x] = job[x] /\ job[x].execution \in Executions
      BY <1>2, <2>2 DEF Sends, Typed, JobOf, BroadcastSteps, Early, Underway, Steps
    <3>2. QED
      BY <1>2, <3>1 DEF Sends
  <2>3. QED
    BY <2>1, <2>2
<1>3. QED
  BY <1>1, <1>2 DEF Sends

LEMMA BroadcastSends ==
    ASSUME Sends, NEW w \in Workers,
           \/ Consume(w) \/ Mark(w) \/ Idempotent(w)
           \/ FetchNonce(w) \/ NonceHeld(w) \/ AnswerHeld(w) \/ NonceFree(w) \/ ReserveNonce(w) \/ NoNonce(w)
           \/ CircleAccepts(w) \/ CircleRefuses(w) \/ AnswerLost(w) \/ ReleaseNonce(w)
           \/ RecordFailed(w) \/ RecordSent(w)
    PROVE  Sends'
<1>1. PICK e \in Executions : e = job[w].execution
  BY BroadcastMoves DEF Sends
<1>2. Typed /\ Typed' /\ Effect(w, e) /\ OthersKept(e)
  BY <1>1, BroadcastTyped, BroadcastEffect DEF Sends
<1>3. /\ \A x \in Workers \ {w} : job'[x] = job[x]
      /\ job'[w] = Idle \/ Kept(w)
  BY <1>2, BroadcastMoves
<1>4. \A x \in Executions : sent[x] \in Nat
  BY <1>2 DEF Typed, TypeOK
<1>5. job'[w].step # "idle" => job'[w].execution = e
  BY <1>1, <1>3, ValueTypes DEF Kept
<1>6. job'[w].step \notin {"lookup", "found"}
  BY <1>2 DEF Effect, Early, Sending, Underway
<1>7. \A x \in Executions : sent[x] > 0 => sent'[x] > 0
  BY <1>2, <1>4 DEF Effect, Quiet, OthersKept
<1>8. job'[w].step = "accepted" => sent'[e] > 0
  BY <1>2, <1>4 DEF Effect, Early, Sending, Underway
<1>9. acked' \subseteq acked \cup {e}
  BY <1>2 DEF Effect, Quiet
<1>10. e \in acked' \/ Shown(e)' => e \in acked \/ Shown(e) \/ sent'[e] > 0
  <2>1. ~InFlight(Failed) /\ ~Failed.circle /\ ~Failed.hash
    BY DEF InFlight, Failed, NoRecord
  <2>2. job[w].step = "accepted" => sent[e] > 0
    BY <1>1 DEF Sends
  <2>3. CASE record'[e] = record[e]
    BY <1>2, <2>2, <2>3 DEF Effect, Quiet, Shown
  <2>4. CASE record'[e] # record[e]
    BY <1>2, <2>1, <2>2, <2>4 DEF Effect, Quiet, Shown
  <2>5. QED
    BY <2>3, <2>4
<1>11. \A x \in Executions : x \in acked' \/ Shown(x)' => x \in acked \/ Shown(x) \/ sent'[x] > 0
  BY <1>2, <1>9, <1>10 DEF OthersKept, Shown
<1>12. QED
  BY <1>2, <1>3, <1>5, <1>6, <1>7, <1>8, <1>11, SendsKept

LEMMA RequestSends ==
    ASSUME Sends, NEW w \in Workers,
           \/ \E m \in Mails \cup {None} : VerifyCode(w, m)
           \/ \E p \in Proofs, c \in Calls : Broadcast(w, p, c)
           \/ \E e \in Executions : Status(w, e)
           \/ WrongCode(w) \/ RightCode(w)
           \/ Lookup(w) \/ RecordFound(w) \/ Abandon(w)
    PROVE  Sends'
<1>1. Typed /\ TypeOK
  BY DEF Sends, Typed
<1>2. Typed'
  BY <1>1, StartTyped, CodeTyped, PollTyped
<1>3. UNCHANGED <<sent, acked>>
  BY DEF VerifyCode, Broadcast, Status, WrongCode, RightCode, Lookup, RecordFound, Abandon, circle, told
<1>4. ASSUME NEW m \in Mails \cup {None}, VerifyCode(w, m) PROVE Sends'
  <2>1. record' = record
    BY <1>4 DEF VerifyCode
  <2>2. /\ \A x \in Workers \ {w} : job'[x] = job[x]
        /\ job'[w].step = "check"
    BY <1>1, <1>4, VerifyDoes
  <2>3. QED
    BY <1>2, <1>3, <2>1, <2>2, SendsKept DEF Shown
<1>5. ASSUME NEW p \in Proofs, NEW c \in Calls, Broadcast(w, p, c) PROVE Sends'
  <2>1. record' = record
    BY <1>5 DEF Broadcast
  <2>2. /\ \A x \in Workers \ {w} : job'[x] = job[x]
        /\ job'[w].step = "consume"
    BY <1>1, <1>5, BroadcastDoes
  <2>3. QED
    BY <1>2, <1>3, <2>1, <2>2, SendsKept DEF Shown
<1>6. ASSUME NEW e \in Executions, Status(w, e) PROVE Sends'
  <2>1. record' = record /\ record[e].circle
    BY <1>6 DEF Status
  <2>2. /\ \A x \in Workers \ {w} : job'[x] = job[x]
        /\ job'[w].execution = e
    BY <1>1, <1>6, StatusDoes
  <2>3. sent[e] > 0
    BY <2>1 DEF Sends, Shown
  <2>4. QED
    BY <1>2, <1>3, <2>1, <2>2, <2>3, SendsKept DEF Shown
<1>7. CASE WrongCode(w) \/ RightCode(w)
  <2>1. record' = record
    BY <1>7 DEF WrongCode, RightCode
  <2>2. (\A x \in Workers \ {w} : job'[x] = job[x]) /\ job'[w].step = "idle"
    BY <1>1, <1>7, CodeDoes, ValueTypes
  <2>3. QED
    BY <1>2, <1>3, <2>1, <2>2, SendsKept DEF Shown
<1>8. CASE Lookup(w)
  <2>1. record' = record /\ job[w].step = "lookup"
    BY <1>8 DEF Lookup, At
  <2>2. /\ \A x \in Workers \ {w} : job'[x] = job[x]
        /\ job'[w].step = "idle" \/ job'[w].execution = job[w].execution
    <3>1. CASE Done(w)
      BY <1>1, <3>1, DoneDoes, ValueTypes
    <3>2. CASE Goto(w, "found")
      BY <1>1, <3>2, GotoKeeps DEF Steps, Kept
    <3>3. QED
      BY <1>8, <3>1, <3>2 DEF Lookup
  <2>3. QED
    BY <1>2, <1>3, <2>1, <2>2, SendsKept DEF Sends, Shown
<1>9. CASE RecordFound(w)
  <2> DEFINE e == job[w].execution
  <2>1. job[w].step = "found" /\ Done(w) /\ Record(e, Found(job[w].copy))
    BY <1>9 DEF RecordFound, At
  <2>2. e \in Executions /\ job[w].copy \in Records /\ sent[e] > 0
    BY <1>1, <2>1 DEF Typed, JobOf, TypeOK, Jobs, Sends
  <2>3. \A x \in Executions \ {e} : record'[x] = record[x]
    BY <1>1, <2>1, <2>2, ValueTypes, RecordDoes
  <2>4. (\A x \in Workers \ {w} : job'[x] = job[x]) /\ job'[w].step = "idle"
    BY <1>1, <2>1, DoneDoes, ValueTypes
  <2>5. \A x \in Executions :
            x \in acked' \/ Shown(x)' => x \in acked \/ Shown(x) \/ sent'[x] > 0
    BY <1>3, <2>2, <2>3 DEF Shown
  <2>6. QED
    BY <1>2, <1>3, <2>4, <2>5, SendsKept
<1>10. CASE Abandon(w)
  <2>1. record' = record
    BY <1>10 DEF Abandon
  <2>2. (\A x \in Workers \ {w} : job'[x] = job[x]) /\ job'[w].step = "idle"
    BY <1>1, <1>10, DoneDoes, ValueTypes DEF Abandon
  <2>3. QED
    BY <1>2, <1>3, <2>1, <2>2, SendsKept DEF Shown
<1>11. QED
  BY <1>4, <1>5, <1>6, <1>7, <1>8, <1>9, <1>10

LEMMA OtherKeeps ==
    ASSUME \/ ExpireCode
           \/ \E m \in Mails, t \in Terms : RequestCode(m, t)
           \/ \E p \in Proofs, e \in Executions, d \in Declarations, c \in Calls :
                 Authorize(p, e, d, c)
           \/ \E e \in Executions : Hash(e)
           \/ \E n \in 0..MaxNonce : ExpireNonce(n)
    PROVE  UNCHANGED <<job, sent, acked, record, lost, crossed>>
  BY DEF ExpireCode, RequestCode, Authorize, Hash, ExpireNonce, circle, told

LEMMA StepSends == Sends /\ [Next]_vars => Sends'
<1>1. SUFFICES ASSUME Sends, [Next]_vars PROVE Sends'
  OBVIOUS
<1>2. Typed /\ Typed'
  BY <1>1, StepTyped DEF Sends
<1>3. ASSUME UNCHANGED <<job, sent, acked, record, lost>> PROVE Sends'
  BY <1>1, <1>2, <1>3 DEF Sends, Shown
<1>4. CASE UNCHANGED vars
  BY <1>3, <1>4 DEF vars, circle, told
<1>5. CASE Next
  BY <1>1, <1>3, <1>5, BroadcastSends, RequestSends, OtherKeeps DEF Next, Step
<1>6. QED
  BY <1>1, <1>4, <1>5

\* An execution is acknowledged by its own account, and recorded as submitted, only
\* when Circle has it: whatever requests overlap.
THEOREM SubmissionIsSent == Spec => []SubmittedIsSent
<1>1. Sends => SubmittedIsSent
  BY DEF Sends, Shown, SubmittedIsSent
<1>2. QED
  BY <1>1, InitSends, StepSends, PTL DEF Spec


-------------------------------------------------------------------------------
(* How many transactions there are of an execution, against the answers and      *)
(* accesses it lost, by the step its broadcast is at, if no two of them are      *)
(* underway.  Past the idempotency check no transaction is unaccounted for;      *)
(* Circle's answer accounts for one, and so does a record in flight.             *)

Busy(w, e) == job[w].execution = e /\ job[w].step \in Underway

Known(e) ==
    \/ Shown(e)
    \/ \E w \in Workers : job[w].execution = e /\ job[w].step \in {"lookup", "found"}

Level(e, step) ==
    /\ step \in Sending => sent[e] <= lost[e]
    /\ step = "accepted" => sent[e] <= lost[e] + 1 /\ (Known(e) => sent[e] >= 2)
    /\ step \notin Sending \cup {"accepted"} =>
           sent[e] <= lost[e] + (IF InFlight(record[e]) THEN 1 ELSE 0)

Once(e) ==
    /\ \A v, w \in Workers : Busy(v, e) /\ Busy(w, e) => v = w
    /\ \A w \in Workers : Busy(w, e) => Level(e, job[w].step)
    /\ (\A w \in Workers : ~Busy(w, e)) => Level(e, "idle")

Accounted ==
    /\ Sends
    /\ \A e \in Executions \ crossed : Once(e)

LEMMA InitAccounted == Init => Accounted
<1>1. SUFFICES ASSUME Init PROVE Accounted
  OBVIOUS
<1>2. Sends
  BY <1>1, InitSends
<1>3. ASSUME NEW e \in Executions PROVE Once(e)
  <2>1. \A w \in Workers : ~Busy(w, e)
    BY <1>1, ValueTypes DEF Init, Busy, Underway
  <2>2. sent[e] = 0 /\ lost[e] = 0
    BY <1>1 DEF Init
  <2>3. Level(e, "idle")
    BY <2>2 DEF Level, Sending, Underway
  <2>4. QED
    BY <2>1, <2>3 DEF Once
<1>4. QED
  BY <1>2, <1>3 DEF Accounted

\* A step that is not of e's broadcast.
LEMMA OnceFrame ==
    ASSUME Typed, Typed', NEW e \in Executions, Once(e),
           sent'[e] = sent[e], lost'[e] >= lost[e],
           InFlight(record[e]) => InFlight(record'[e]),
           Known(e)' => Known(e),
           \A w \in Workers : Busy(w, e)' <=> Busy(w, e),
           \A w \in Workers : Busy(w, e) => job'[w].step = job[w].step
    PROVE  Once(e)'
<1>1. sent[e] \in Nat /\ lost[e] \in Nat /\ lost'[e] \in Nat
  BY DEF Typed, TypeOK
<1>2. ASSUME NEW w \in Workers, Busy(w, e) PROVE Level(e, job[w].step)'
  BY <1>1, <1>2 DEF Once, Level
<1>3. (\A w \in Workers : ~Busy(w, e)) => Level(e, "idle")'
  BY <1>1 DEF Once, Level, Sending, Underway
<1>4. QED
  BY <1>2, <1>3 DEF Once

\* A step of e's broadcast that is underway.
LEMMA OnceMove ==
    ASSUME NEW e \in Executions, NEW w \in Workers, Once(e), Busy(w, e),
           \A x \in Workers \ {w} : job'[x] = job[x],
           job'[w].step \notin Underway \/ Busy(w, e)',
           Level(e, job[w].step)'
    PROVE  Once(e)'
<1>1. \A x \in Workers \ {w} : ~Busy(x, e) /\ ~Busy(x, e)'
  BY DEF Once, Busy
<1>2. job'[w].step \notin Underway => ~Busy(w, e)'
  BY DEF Busy
<1>3. CASE Busy(w, e)'
  <2>1. \A x \in Workers : Busy(x, e)' => x = w
    BY <1>1
  <2>2. QED
    BY <1>3, <2>1 DEF Once
<1>4. CASE job'[w].step \notin Underway
  <2>1. \A x \in Workers : ~Busy(x, e)'
    BY <1>1, <1>2, <1>4
  <2>2. Level(e, "idle")'
    BY <1>4 DEF Level, Sending, Underway
  <2>3. QED
    BY <2>1, <2>2 DEF Once
<1>5. QED
  BY <1>3, <1>4

LEMMA KnownIsSent ==
    ASSUME Sends, NEW e \in Executions, Known(e)
    PROVE  sent[e] > 0
  BY DEF Sends, Known

LEMMA BroadcastLevel ==
    ASSUME Sends, NEW w \in Workers, NEW e \in Executions, Busy(w, e), Level(e, job[w].step),
           Effect(w, e), \A x \in Workers \ {w} : job'[x] = job[x]
    PROVE  Level(e, job[w].step)'
<1>1. sent[e] \in Nat /\ lost[e] \in Nat
  BY DEF Sends, Typed, TypeOK
<1>2. job[w].step \notin Early \cup {"held"}
  BY DEF Busy, Early, Underway
<1>3. CASE /\ Quiet
           /\ job[w].step \in Sending /\ job'[w].step \in Sending \cup {"idle", "held"}
  <2>1. UNCHANGED <<sent, lost, record>>
    BY <1>3 DEF Quiet
  <2>2. QED
    BY <1>1, <1>3, <2>1 DEF Level, Sending, Underway
<1>6. CASE /\ job[w].step = "call" /\ job'[w].step = "accepted" /\ sent'[e] = sent[e] + 1
           /\ UNCHANGED <<record, lost, acked>>
  <2>1. sent[e] <= lost[e]
    BY <1>6 DEF Level, Sending, Underway
  <2>2. Known(e)' => Known(e)
    BY <1>6 DEF Known, Shown
  <2>3. Known(e) => sent[e] > 0
    BY KnownIsSent
  <2>4. sent'[e] <= lost'[e] + 1 /\ (Known(e)' => sent'[e] >= 2)
    BY <1>1, <1>6, <2>1, <2>2, <2>3
  <2>5. QED
    BY <1>6, <2>4 DEF Level, Sending, Underway
<1>7. CASE /\ job[w].step = "call" /\ job'[w].step = "refused" /\ sent'[e] = sent[e] + 1
           /\ lost'[e] = lost[e] + 1 /\ UNCHANGED <<record, acked>>
  BY <1>1, <1>7 DEF Level, Sending, Underway
<1>8. CASE /\ job[w].step = "failed" /\ job'[w].step = "idle" /\ UNCHANGED <<sent, acked>>
           /\ lost'[e] \in {lost[e], lost[e] + 1}
  BY <1>1, <1>8 DEF Level, Sending, Underway
<1>9. CASE /\ job[w].step = "accepted" /\ job'[w].step = "idle" /\ UNCHANGED sent
           /\ \/ \E h \in BOOLEAN : record'[e] = Sent(h) /\ lost'[e] = lost[e]
              \/ record'[e] = record[e] /\ lost'[e] = lost[e] + 1
  <2>1. \A h \in BOOLEAN : InFlight(Sent(h))
    BY DEF Sent, InFlight
  <2>2. sent[e] <= lost[e] + 1
    BY <1>9 DEF Level
  <2>3. sent'[e] <= lost'[e] + (IF InFlight(record'[e]) THEN 1 ELSE 0)
    BY <1>1, <1>9, <2>1, <2>2
  <2>4. QED
    BY <1>9, <2>3 DEF Level, Sending, Underway
<1>10. QED
  BY <1>2, <1>3, <1>6, <1>7, <1>8, <1>9 DEF Effect

\* A broadcast that goes on, and meets no other.
LEMMA GoesOn ==
    ASSUME Typed, Typed', NEW w \in Workers, NEW e \in Executions, Once(e),
           ~Met(e), job[w].step \in Early, Busy(w, e)', job'[w].step = "nonce",
           \A x \in Workers \ {w} : job'[x] = job[x],
           sent'[e] = sent[e],
           \/ ~InFlight(record[e]) /\ lost'[e] = lost[e]
           \/ lost'[e] = lost[e] + 1
    PROVE  Once(e)'
<1>1. sent[e] \in Nat /\ lost[e] \in Nat
  BY DEF Typed, TypeOK
<1>2. \A x \in Workers : ~Busy(x, e)
  BY DEF Met, Busy
<1>3. \A x \in Workers : Busy(x, e)' => x = w
  BY <1>2 DEF Busy
<1>4. sent[e] <= lost[e] + (IF InFlight(record[e]) THEN 1 ELSE 0)
  BY <1>2 DEF Once, Level, Sending, Underway
<1>5. Level(e, job[w].step)'
  BY <1>1, <1>4 DEF Level, Sending, Underway
<1>6. QED
  BY <1>3, <1>5 DEF Once

LEMMA BroadcastAccounted ==
    ASSUME Accounted, NEW w \in Workers,
           \/ Consume(w) \/ Mark(w) \/ Idempotent(w)
           \/ FetchNonce(w) \/ NonceHeld(w) \/ AnswerHeld(w) \/ NonceFree(w) \/ ReserveNonce(w) \/ NoNonce(w)
           \/ CircleAccepts(w) \/ CircleRefuses(w) \/ AnswerLost(w) \/ ReleaseNonce(w)
           \/ RecordFailed(w) \/ RecordSent(w)
    PROVE  Accounted'
<1>1. Sends /\ Sends' /\ Typed /\ Typed'
  BY BroadcastSends DEF Accounted, Sends
<1>2. PICK e \in Executions : e = job[w].execution
  BY <1>1, BroadcastMoves
<1>3. Effect(w, e) /\ OthersKept(e)
  BY <1>1, <1>2, BroadcastEffect
<1>4. /\ job[w].step \in BroadcastSteps /\ \A x \in Workers \ {w} : job'[x] = job[x]
      /\ job'[w] = Idle \/ (Kept(w) /\ job'[w].step \in BroadcastSteps)
  BY <1>1, BroadcastMoves
<1>5. /\ job'[w].step \in Underway => Busy(w, e)'
      /\ crossed \subseteq crossed'
  <2>1. crossed \subseteq crossed'
    BY DEF Consume, Mark, Idempotent, GoOn, FetchNonce, NonceHeld, AnswerHeld, NonceFree,
           ReserveNonce, NoNonce, CircleAccepts, CircleRefuses, AnswerLost, ReleaseNonce,
           RecordFailed, RecordSent
  <2>2. QED
    BY <1>2, <1>4, <2>1, ValueTypes DEF Busy, Kept, Underway
<1>6. ASSUME NEW x \in Executions \ crossed' PROVE Once(x)'
  <2>1. Once(x) /\ (x = e => e \notin crossed')
    BY <1>5, <1>6 DEF Accounted
  <2>2. CASE x = e
    <3>1. CASE Busy(w, e)
      <4>1. Level(e, job[w].step)
        BY <2>1, <2>2, <3>1 DEF Once
      <4>2. Level(e, job[w].step)'
        BY <1>1, <1>3, <1>4, <3>1, <4>1, BroadcastLevel
      <4>3. Once(e)'
        BY <1>4, <1>5, <2>1, <2>2, <3>1, <4>2, OnceMove
      <4>4. QED
        BY <2>2, <4>3
    <3>2. CASE ~Busy(w, e)
      <4>1. job[w].step \in Early \cup {"held"}
        BY <1>2, <1>4, <3>2 DEF Busy, BroadcastSteps
      <4>2. CASE job'[w].step = "nonce"
        BY <1>1, <1>3, <1>4, <1>5, <2>1, <2>2, <4>1, <4>2, GoesOn
           DEF Effect, Quiet, Sending, Early, Underway
      <4>3. CASE job'[w].step # "nonce"
        <5>1. UNCHANGED <<sent, lost, record>> /\ ~Busy(w, e)'
          BY <1>3, <4>1, <4>3 DEF Effect, Quiet, Busy, Sending, Early, Underway
        <5>2. \A v \in Workers : /\ Busy(v, e)' <=> Busy(v, e)
                                 /\ Busy(v, e) => job'[v].step = job[v].step
          BY <1>4, <3>2, <5>1 DEF Busy
        <5>3. Known(e)' => Known(e)
          <6>1. job'[w].step \notin {"lookup", "found"}
            BY <1>4, ValueTypes DEF BroadcastSteps, Early, Underway
          <6>2. QED
            BY <1>4, <5>1, <6>1 DEF Known, Shown
        <5>4. lost'[e] >= lost[e]
          BY <1>1, <5>1 DEF Typed, TypeOK
        <5>5. QED
          BY <1>1, <2>1, <2>2, <5>1, <5>2, <5>3, <5>4, OnceFrame
      <4>4. QED
        BY <4>2, <4>3
    <3>3. QED
      BY <3>1, <3>2
  <2>3. CASE x # e
    <3>1. sent'[x] = sent[x] /\ lost'[x] = lost[x] /\ record'[x] = record[x]
      BY <1>3, <2>3 DEF OthersKept
    <3>2. job[w].execution # x /\ (job'[w].execution # x \/ job'[w].step = "idle")
      BY <1>2, <1>4, <2>3, ValueTypes DEF Kept
    <3>3. \A v \in Workers : /\ Busy(v, x)' <=> Busy(v, x)
                             /\ Busy(v, x) => job'[v].step = job[v].step
      BY <1>4, <3>2 DEF Busy, Underway
    <3>4. Known(x)' => Known(x)
      BY <1>4, <3>1, <3>2 DEF Known, Shown
    <3>5. lost'[x] >= lost[x]
      BY <1>1, <3>1 DEF Typed, TypeOK
    <3>6. QED
      BY <1>1, <2>1, <3>1, <3>3, <3>4, <3>5, OnceFrame
  <2>4. QED
    BY <2>2, <2>3
<1>7. QED
  BY <1>1, <1>6 DEF Accounted

LEMMA RequestAccounted ==
    ASSUME Accounted, NEW w \in Workers,
           \/ \E m \in Mails \cup {None} : VerifyCode(w, m)
           \/ \E p \in Proofs, c \in Calls : Broadcast(w, p, c)
           \/ \E e \in Executions : Status(w, e)
           \/ WrongCode(w) \/ RightCode(w)
           \/ Lookup(w) \/ RecordFound(w)
    PROVE  Accounted'
<1>1. Sends /\ Sends' /\ Typed /\ Typed' /\ TypeOK
  BY RequestSends DEF Accounted, Sends, Typed
<1>2. sent' = sent
  BY DEF VerifyCode, Broadcast, Status, WrongCode, RightCode, Lookup, RecordFound, circle
<1>3. \A e \in Executions : lost[e] \in Nat
  BY <1>1 DEF TypeOK
<1>12. crossed \subseteq crossed'
  BY DEF VerifyCode, Broadcast, Status, WrongCode, RightCode, Lookup, RecordFound
\* What is left is that the request is no broadcast underway, and shows nothing new.
<1>4. ASSUME job[w].step \notin Underway, job'[w].step \notin Underway,
             \A x \in Workers \ {w} : job'[x] = job[x],
             \A e \in Executions :
                 /\ lost'[e] >= lost[e] /\ (InFlight(record[e]) => InFlight(record'[e]))
                 /\ Known(e)' => Known(e)
      PROVE  Accounted'
  <2>1. ASSUME NEW e \in Executions \ crossed' PROVE Once(e)'
    <3>1. \A v \in Workers : /\ Busy(v, e)' <=> Busy(v, e)
                             /\ Busy(v, e) => job'[v].step = job[v].step
      BY <1>4 DEF Busy
    <3>2. Once(e)
      BY <1>12, <2>1 DEF Accounted
    <3>3. QED
      BY <1>1, <1>2, <1>4, <3>1, <3>2, OnceFrame
  <2>2. QED
    BY <1>1, <2>1 DEF Accounted
<1>5. ASSUME NEW m \in Mails \cup {None}, VerifyCode(w, m) PROVE Accounted'
  <2>1. /\ job[w].step = "idle" /\ UNCHANGED <<record, lost>>
        /\ job'[w].step = "check" /\ \A x \in Workers \ {w} : job'[x] = job[x]
    BY <1>1, <1>5, VerifyDoes DEF VerifyCode, At
  <2>2. \A e \in Executions : Known(e)' => Known(e)
    BY <2>1 DEF Known, Shown
  <2>3. QED
    BY <1>3, <1>4, <2>1, <2>2 DEF Underway
<1>6. ASSUME NEW p \in Proofs, NEW c \in Calls, Broadcast(w, p, c) PROVE Accounted'
  <2>1. PICK e \in Executions : e = proof[p].execution
    BY <1>1, <1>6, BroadcastDoes
  <2>2. /\ job[w].step = "idle" /\ UNCHANGED <<record, lost>>
        /\ job'[w].step = "consume" /\ job'[w].execution = e
        /\ \A x \in Workers \ {w} : job'[x] = job[x]
    BY <1>1, <1>6, <2>1, BroadcastDoes DEF Broadcast, At
  <2>3. \A x \in Executions : Known(x)' => Known(x)
    BY <2>2 DEF Known, Shown
  <2>4. QED
    BY <1>3, <1>4, <2>2, <2>3 DEF Underway
<1>7. ASSUME NEW e \in Executions, Status(w, e) PROVE Accounted'
  <2>1. /\ job[w].step = "idle" /\ UNCHANGED <<record, lost>> /\ record[e].circle
        /\ job'[w].step = "lookup" /\ job'[w].execution = e
        /\ \A x \in Workers \ {w} : job'[x] = job[x]
    BY <1>1, <1>7, StatusDoes DEF Status, At
  <2>2. \A x \in Executions : Known(x)' => Known(x)
    BY <2>1 DEF Known, Shown
  <2>3. QED
    BY <1>3, <1>4, <2>1, <2>2 DEF Underway
<1>8. CASE WrongCode(w) \/ RightCode(w)
  <2>1. /\ job[w].step = "check" /\ UNCHANGED <<record, lost>> /\ job'[w].step = "idle"
        /\ \A x \in Workers \ {w} : job'[x] = job[x]
    BY <1>1, <1>8, CodeDoes, ValueTypes DEF WrongCode, RightCode
  <2>2. \A x \in Executions : Known(x)' => Known(x)
    BY <2>1 DEF Known, Shown
  <2>3. QED
    BY <1>3, <1>4, <2>1, <2>2 DEF Underway
<1>9. CASE Lookup(w)
  <2>1. /\ job[w].step = "lookup" /\ UNCHANGED <<record, lost>>
        /\ \A x \in Workers \ {w} : job'[x] = job[x]
        /\ \/ job'[w].step = "idle"
           \/ job'[w].step = "found" /\ job'[w].execution = job[w].execution
    <3>1. CASE Done(w)
      BY <1>1, <1>9, <3>1, DoneDoes, ValueTypes DEF Lookup, At
    <3>2. CASE Goto(w, "found")
      BY <1>1, <1>9, <3>2, GotoKeeps DEF Lookup, At, Steps, Kept
    <3>3. QED
      BY <1>9, <3>1, <3>2 DEF Lookup
  <2>2. \A x \in Executions : Known(x)' => Known(x)
    BY <2>1 DEF Known, Shown
  <2>3. QED
    BY <1>3, <1>4, <2>1, <2>2 DEF Underway
<1>10. CASE RecordFound(w)
  <2>1. PICK e : e = job[w].execution
    OBVIOUS
  <2>2. job[w].step = "found" /\ Done(w) /\ Record(e, Found(job[w].copy))
    BY <1>10, <2>1 DEF RecordFound, At
  <2>3. e \in Executions /\ job[w].copy \in Records
    BY <1>1, <2>1, <2>2 DEF Typed, JobOf, TypeOK, Jobs
  <2>4. /\ \A x \in Executions \ {e} : record'[x] = record[x] /\ lost'[x] = lost[x]
        /\ \/ record'[e] = Found(job[w].copy) /\ lost'[e] = lost[e]
           \/ record'[e] = record[e] /\ lost'[e] = lost[e] + 1
    BY <1>1, <2>2, <2>3, ValueTypes, RecordDoes
  <2>5. job'[w].step = "idle" /\ \A x \in Workers \ {w} : job'[x] = job[x]
    BY <1>1, <2>2, DoneDoes, ValueTypes
  <2>6. InFlight(Found(job[w].copy))
    BY <2>3 DEF InFlight, Found, Records
  <2>7. ASSUME NEW x \in Executions PROVE Known(x)' => Known(x)
    BY <2>1, <2>2, <2>4, <2>5 DEF Known, Shown
  <2>8. \A x \in Executions : lost'[x] >= lost[x] /\ (InFlight(record[x]) => InFlight(record'[x]))
    BY <1>3, <2>4, <2>6
  <2>9. QED
    BY <1>4, <2>2, <2>5, <2>7, <2>8 DEF Underway
<1>11. QED
  BY <1>5, <1>6, <1>7, <1>8, <1>9, <1>10

LEMMA AbandonAccounted ==
    ASSUME Accounted, NEW w \in Workers, Abandon(w)
    PROVE  Accounted'
<1>1. Sends /\ Sends' /\ Typed /\ Typed' /\ TypeOK
  BY RequestSends DEF Accounted, Sends, Typed
<1>2. PICK e : e = job[w].execution
  OBVIOUS
<1>3. /\ UNCHANGED <<sent, record>> /\ job'[w] = Idle /\ job'[w].step = "idle"
      /\ \A x \in Workers \ {w} : job'[x] = job[x]
  BY <1>1, DoneDoes, ValueTypes DEF Abandon, circle
<1>4. /\ \A x \in Executions : lost[x] \in Nat /\ sent[x] \in Nat
      /\ \A x \in Executions : lost'[x] >= lost[x]
      /\ job[w].step = "accepted" => lost'[e] = lost[e] + 1
  <2>1. \A x \in Executions : lost[x] \in Nat /\ sent[x] \in Nat
    BY <1>1 DEF TypeOK
  <2>2. CASE At(w, "accepted")
    <3>1. e \in Executions /\ lost' = [lost EXCEPT ![e] = @ + 1]
      BY <1>1, <1>2, <2>2 DEF Abandon, At, Typed, JobOf, BroadcastSteps, Early, Underway, Steps
    <3>2. QED
      BY <1>1, <2>1, <3>1 DEF TypeOK
  <2>3. CASE ~At(w, "accepted")
    BY <2>1, <2>3 DEF Abandon, At
  <2>4. QED
    BY <2>1, <2>2, <2>3
<1>5. \A x \in Executions : Known(x)' => Known(x)
  BY <1>3 DEF Known, Shown
<1>6. ASSUME NEW x \in Executions \ crossed' PROVE Once(x)'
  <2>1. Once(x)
    BY <1>6 DEF Accounted, Abandon
  <2>2. CASE Busy(w, x)
    <3>1. x = e
      BY <1>2, <2>2 DEF Busy
    <3>2. Level(e, job[w].step)
      BY <2>1, <2>2, <3>1 DEF Once
    <3>3. sent[e] <= lost'[e] + (IF InFlight(record[e]) THEN 1 ELSE 0)
      <4>1. e \in Executions /\ lost'[e] \in Nat
        BY <1>1, <3>1 DEF Typed, TypeOK
      <4>2. sent[e] \in Nat /\ lost[e] \in Nat /\ lost'[e] >= lost[e]
        BY <1>4, <4>1
      <4>3. CASE job[w].step = "accepted"
        BY <1>4, <3>2, <4>1, <4>2, <4>3 DEF Level, Sending, Underway
      <4>4. CASE job[w].step # "accepted"
        BY <3>2, <4>1, <4>2, <4>4 DEF Level, Sending, Underway
      <4>5. QED
        BY <4>3, <4>4
    <3>4. Level(e, job[w].step)'
      BY <1>3, <3>3 DEF Level, Sending, Underway
    <3>5. QED
      BY <1>3, <2>1, <2>2, <3>1, <3>4, OnceMove DEF Underway
  <2>3. CASE ~Busy(w, x)
    <3>1. ~Busy(w, x)'
      BY <1>3 DEF Busy, Underway
    <3>2. \A v \in Workers : /\ Busy(v, x)' <=> Busy(v, x)
                             /\ Busy(v, x) => job'[v].step = job[v].step
      BY <1>3, <2>3, <3>1 DEF Busy
    <3>3. QED
      BY <1>1, <1>3, <1>4, <1>5, <2>1, <3>2, OnceFrame
  <2>4. QED
    BY <2>2, <2>3
<1>7. QED
  BY <1>1, <1>6 DEF Accounted

LEMMA StepAccounted == Accounted /\ [Next]_vars => Accounted'
<1>1. SUFFICES ASSUME Accounted, [Next]_vars PROVE Accounted'
  OBVIOUS
<1>2. Sends'
  BY <1>1, StepSends DEF Accounted
<1>3. ASSUME UNCHANGED <<job, sent, acked, record, lost, crossed>> PROVE Accounted'
  BY <1>1, <1>2, <1>3 DEF Accounted, Once, Level, Busy, Known, Shown
<1>4. CASE UNCHANGED vars
  BY <1>3, <1>4 DEF vars, circle, told
<1>5. CASE Next
  BY <1>1, <1>3, <1>5, BroadcastAccounted, RequestAccounted, AbandonAccounted, OtherKeeps
     DEF Next, Step
<1>6. QED
  BY <1>1, <1>4, <1>5

\* Circle makes at most one transaction of an execution of which no two broadcasts
\* were underway together, and one more for each answer, or access to its record,
\* that was lost.
THEOREM OneTransactionEach == Spec => []OneTransaction
<1>1. Accounted => OneTransaction
  <2>1. SUFFICES ASSUME Accounted, NEW e \in Executions \ crossed
                 PROVE  sent[e] <= 1 + lost[e]
    BY DEF OneTransaction
  <2>2. Once(e) /\ sent[e] \in Nat /\ lost[e] \in Nat
    BY <2>1 DEF Accounted, Sends, Typed, TypeOK
  <2>3. \E step : Level(e, step)
    BY <2>2 DEF Once
  <2>4. QED
    BY <2>2, <2>3 DEF Level, Sending, Underway
<1>2. QED
  BY <1>1, InitAccounted, StepAccounted, PTL DEF Spec


-------------------------------------------------------------------------------
(* A record of a submission is taken back by a broadcast alone, and one that     *)
(* does lost an answer or an access.                                             *)

StaysSubmitted(e) ==
    /\ InFlight(record[e]) => InFlight(record'[e])
    /\ record[e].hash => record'[e].hash

LEMMA BroadcastForGood ==
    ASSUME Accounted, Typed', NEW w \in Workers,
           NEW e \in Executions \ crossed, lost'[e] = 0,
           \/ Consume(w) \/ Mark(w) \/ Idempotent(w)
           \/ FetchNonce(w) \/ NonceHeld(w) \/ AnswerHeld(w) \/ NonceFree(w) \/ ReserveNonce(w) \/ NoNonce(w)
           \/ CircleAccepts(w) \/ CircleRefuses(w) \/ AnswerLost(w) \/ ReleaseNonce(w)
           \/ RecordFailed(w) \/ RecordSent(w)
    PROVE  StaysSubmitted(e)
<1>1. Sends /\ Typed /\ Once(e) /\ sent[e] \in Nat /\ lost[e] \in Nat
  BY DEF Accounted, Sends, Typed, TypeOK
<1>2. Effect(w, job[w].execution) /\ OthersKept(job[w].execution)
  BY <1>1, BroadcastEffect
<1>3. CASE record'[e] = record[e]
  BY <1>3 DEF StaysSubmitted
<1>4. CASE record'[e] # record[e]
  <2>1. job[w].execution = e
    BY <1>2, <1>4 DEF OthersKept
  <2>2. \/ job[w].step = "failed" /\ lost'[e] = lost[e]
        \/ /\ job[w].step = "accepted" /\ lost'[e] = lost[e]
           /\ \E h \in BOOLEAN : record'[e] = Sent(h)
    BY <1>2, <1>4, <2>1 DEF Effect, Quiet
  <2>3. Busy(w, e)
    BY <2>1, <2>2 DEF Busy, Underway
  <2>4. Level(e, job[w].step)
    BY <1>1, <2>3 DEF Once
  <2>5. CASE job[w].step = "failed"
    <3>1. ~(sent[e] > 0)
      BY <1>1, <2>2, <2>4, <2>5 DEF Level, Sending, Underway
    <3>2. QED
      BY <1>1, <3>1 DEF StaysSubmitted, Sends, Shown
  <2>6. CASE job[w].step = "accepted"
    <3>1. ~Known(e)
      BY <1>1, <2>2, <2>4, <2>6 DEF Level
    <3>2. QED
      BY <3>1 DEF StaysSubmitted, Known, Shown
  <2>7. QED
    BY <2>2, <2>5, <2>6
<1>5. QED
  BY <1>3, <1>4

LEMMA StepForGood ==
    ASSUME Accounted, Accounted', NEW e \in Executions \ crossed, lost'[e] = 0, [Next]_vars
    PROVE  StaysSubmitted(e)
<1>1. Typed /\ Typed'
  BY DEF Accounted, Sends
<1>2. ASSUME record' = record PROVE StaysSubmitted(e)
  BY <1>2 DEF StaysSubmitted
<1>3. ASSUME NEW w \in Workers, RecordFound(w) PROVE StaysSubmitted(e)
  <2>1. job[w].step = "found" /\ Record(job[w].execution, Found(job[w].copy))
    BY <1>3 DEF RecordFound, At
  <2>2. job[w].execution \in Executions /\ job[w].copy \in Records
    BY <1>1, <2>1 DEF Typed, JobOf, TypeOK, Jobs
  <2>3. record'[e] = record[e] \/ record'[e] = Found(job[w].copy)
    BY <1>1, <2>1, <2>2, ValueTypes, RecordDoes DEF Typed
  <2>4. InFlight(Found(job[w].copy)) /\ Found(job[w].copy).hash
    BY <2>2 DEF InFlight, Found, Records
  <2>5. QED
    BY <2>3, <2>4 DEF StaysSubmitted
<1>4. ASSUME NEW w \in Workers,
             \/ \E m \in Mails \cup {None} : VerifyCode(w, m)
             \/ \E p \in Proofs, c \in Calls : Broadcast(w, p, c)
             \/ \E x \in Executions : Status(w, x)
             \/ WrongCode(w) \/ RightCode(w) \/ Lookup(w) \/ Abandon(w)
      PROVE  record' = record
  BY <1>4 DEF VerifyCode, Broadcast, Status, WrongCode, RightCode, Lookup, Abandon
<1>5. CASE UNCHANGED vars
  BY <1>2, <1>5 DEF vars
<1>6. CASE Next
  BY <1>1, <1>2, <1>3, <1>4, <1>6, BroadcastForGood, OtherKeeps DEF Next, Step
<1>7. QED
  BY <1>5, <1>6

\* Who passed a check together stays noted.
LEMMA CrossedStays == [Next]_vars => crossed \subseteq crossed'
<1>1. SUFFICES ASSUME Next PROVE crossed \subseteq crossed'
  BY DEF vars
<1>2. ASSUME NEW w \in Workers, Step(w) \/ Abandon(w) PROVE crossed \subseteq crossed'
  BY <1>2 DEF Step, WrongCode, RightCode, Consume, Mark, Idempotent, GoOn, FetchNonce,
         NonceHeld, AnswerHeld, NonceFree, ReserveNonce, NoNonce, CircleAccepts, CircleRefuses,
         AnswerLost, ReleaseNonce, RecordFailed, RecordSent, Lookup, RecordFound, Abandon
<1>3. QED
  BY <1>1, <1>2, OtherKeeps DEF Next, VerifyCode, Broadcast, Status

\* What is recorded as submitted stays so while nothing is lost and no two broadcasts
\* were underway together: no retry and no status poll with a stale copy takes it
\* back.
THEOREM SubmissionIsForGood == Spec => SubmittedForGood
<1> DEFINE Good == \A e \in Executions :
                       e \notin crossed' /\ lost'[e] = 0 =>
                           /\ InFlight(record[e]) => InFlight(record'[e])
                           /\ record[e].hash => record'[e].hash
<1>1. Accounted /\ Accounted' /\ [Next]_vars => [Good]_vars
  BY StepForGood, CrossedStays DEF StaysSubmitted
<1>2. QED
  BY <1>1, InitAccounted, StepAccounted, PTL DEF Spec, SubmittedForGood

-------------------------------------------------------------------------------
(* A code is exchanged once: it is used by the request that deletes it, it is     *)
(* stored once, and no other request that found it can write it back.            *)

Checks(w, m) == job[w].step = "check" /\ job[w].code.mail = m

UsedOnce(m) ==
    /\ \A v, w \in Workers : Checks(v, m) /\ Checks(w, m) => v = w
    /\ code # NoCode /\ code.mail = m => used[m] = 0
    /\ \A w \in Workers : Checks(w, m) => used[m] = 0
    /\ used[m] <= 1

CodeOnce ==
    /\ Typed
    /\ code # NoCode => mailed[code.mail] # None
    /\ \A w \in Workers : job[w].step = "check" => mailed[job[w].code.mail] # None
    /\ \A m \in Mails : mailed[m] = None => used[m] = 0
    /\ \A m \in Mails \ crossed : UsedOnce(m)

LEMMA InitCodeOnce == Init => CodeOnce
<1>1. SUFFICES ASSUME Init PROVE CodeOnce
  OBVIOUS
<1>2. (\A w \in Workers : job[w].step = "idle") /\ code = NoCode
  BY <1>1, ValueTypes DEF Init
<1>3. \A m \in Mails : used[m] = 0
  BY <1>1 DEF Init
<1>4. QED
  BY <1>1, <1>2, <1>3, InitTyped DEF CodeOnce, UsedOnce, Checks

\* Nothing happens to the codes, and nobody starts to check one.
LEMMA CodeOnceKept ==
    ASSUME CodeOnce, Typed', UNCHANGED <<mailed, used>>, code' \in {code, NoCode},
           \A w \in Workers : job'[w].step = "check" =>
               job[w].step = "check" /\ job'[w].code = job[w].code,
           crossed \subseteq crossed'
    PROVE  CodeOnce'
<1>1. \A w \in Workers, m \in Mails : Checks(w, m)' => Checks(w, m)
  BY DEF Checks
<1>2. ASSUME NEW m \in Mails \ crossed' PROVE UsedOnce(m)'
  BY <1>1, <1>2 DEF CodeOnce, UsedOnce
<1>3. QED
  BY <1>2 DEF CodeOnce

LEMMA BroadcastCodeOnce ==
    ASSUME CodeOnce, NEW w \in Workers,
           \/ Consume(w) \/ Mark(w) \/ Idempotent(w)
           \/ FetchNonce(w) \/ NonceHeld(w) \/ AnswerHeld(w) \/ NonceFree(w) \/ ReserveNonce(w) \/ NoNonce(w)
           \/ CircleAccepts(w) \/ CircleRefuses(w) \/ AnswerLost(w) \/ ReleaseNonce(w)
           \/ RecordFailed(w) \/ RecordSent(w)
    PROVE  CodeOnce'
<1>1. Typed /\ Typed'
  BY BroadcastTyped DEF CodeOnce
<1>2. UNCHANGED <<mailed, code, used>>
  BY DEF Consume, Mark, Idempotent, FetchNonce, NonceHeld, AnswerHeld, NonceFree, ReserveNonce, NoNonce,
         CircleAccepts, CircleRefuses, AnswerLost, ReleaseNonce, RecordFailed, RecordSent, otp
<1>3. \A x \in Workers : job'[x] = job[x] \/ job'[x].step # "check"
  BY <1>1, BroadcastMoves, ValueTypes DEF BroadcastSteps, Early, Underway
<1>4. crossed \subseteq crossed'
  BY CrossedStays DEF Next, Step
<1>5. QED
  BY <1>1, <1>2, <1>3, <1>4, CodeOnceKept

LEMMA CheckCodeOnce ==
    ASSUME CodeOnce, NEW w \in Workers,
           (\E m \in Mails \cup {None} : VerifyCode(w, m)) \/ WrongCode(w) \/ RightCode(w)
    PROVE  CodeOnce'
<1>1. Typed /\ Typed' /\ TypeOK
  BY StartTyped, CodeTyped DEF CodeOnce, Typed
<1>2. ASSUME NEW m \in Mails \cup {None}, VerifyCode(w, m) PROVE CodeOnce'
  <2>1. UNCHANGED <<mailed, code, used>>
    BY <1>2 DEF VerifyCode, otp
  <2>2. /\ \A x \in Workers \ {w} : job'[x] = job[x]
        /\ job'[w].step = "check" /\ job'[w].code = code /\ code # NoCode
        /\ job[w].step = "idle"
    BY <1>1, <1>2, VerifyDoes DEF VerifyCode, At
  <2>3. /\ crossed \subseteq crossed'
        /\ (\E v \in Workers : Checks(v, code.mail)) => code.mail \in crossed'
    BY <1>2 DEF VerifyCode, At, Checks
  <2>4. ASSUME NEW k \in Mails \ crossed' PROVE UsedOnce(k)'
    <3>1. UsedOnce(k)
      BY <2>3, <2>4 DEF CodeOnce
    <3>2. \A x \in Workers \ {w} : Checks(x, k)' <=> Checks(x, k)
      BY <2>2 DEF Checks
    <3>3. CASE k = code.mail
      <4>1. \A x \in Workers : ~Checks(x, k)
        BY <2>3, <2>4, <3>3
      <4>2. \A x \in Workers : Checks(x, k)' => x = w
        BY <3>2, <4>1
      <4>3. QED
        BY <2>1, <2>2, <3>1, <3>3, <4>2 DEF UsedOnce
    <3>4. CASE k # code.mail
      <4>1. ~Checks(w, k)'
        BY <2>2, <3>4 DEF Checks
      <4>2. \A x \in Workers : Checks(x, k)' => Checks(x, k)
        BY <3>2, <4>1
      <4>3. QED
        BY <2>1, <3>1, <4>2 DEF UsedOnce
    <3>5. QED
      BY <3>3, <3>4
  <2>5. QED
    BY <1>1, <2>1, <2>2, <2>4 DEF CodeOnce
<1>3. CASE WrongCode(w) \/ RightCode(w)
  <2>1. PICK m \in Mails : m = job[w].code.mail
    BY <1>1, <1>3, CodeDoes
  <2>2. /\ job[w].step = "check" /\ job'[w].step = "idle" /\ mailed' = mailed
        /\ \A x \in Workers \ {w} : job'[x] = job[x]
        /\ \/ code' = NoCode
           \/ code'.mail = m /\ used' = used
        /\ used' = used \/ used' = [used EXCEPT ![m] = used[m] + 1]
        /\ used' # used => code' = NoCode
        /\ crossed' = crossed
    BY <1>1, <1>3, <2>1, CodeDoes, ValueTypes
  <2>3. mailed[m] # None
    BY <2>1, <2>2 DEF CodeOnce
  <2>4. \A k \in Mails : k # m => used'[k] = used[k]
    BY <1>1, <2>2 DEF TypeOK
  <2>5. \A x \in Workers, k \in Mails : Checks(x, k)' => Checks(x, k) /\ x # w
    BY <2>2 DEF Checks
  <2>6. ASSUME NEW k \in Mails \ crossed PROVE UsedOnce(k)'
    <3>1. UsedOnce(k)
      BY <2>6 DEF CodeOnce
    <3>2. CASE k # m
      BY <2>2, <2>4, <2>5, <3>1, <3>2 DEF UsedOnce
    <3>3. CASE k = m
      <4>1. Checks(w, m) /\ used[m] = 0
        BY <2>1, <2>2, <3>1, <3>3 DEF Checks, UsedOnce
      <4>2. \A x \in Workers : ~Checks(x, m)'
        BY <2>5, <3>1, <3>3, <4>1 DEF UsedOnce
      <4>3. used'[m] <= 1 /\ (code' # NoCode => used'[m] = 0)
        BY <1>1, <2>2, <4>1 DEF TypeOK
      <4>4. QED
        BY <3>3, <4>2, <4>3 DEF UsedOnce
    <3>4. QED
      BY <3>2, <3>3
  <2>7. \A k \in Mails : mailed'[k] = None => used'[k] = 0
    BY <2>2, <2>3, <2>4 DEF CodeOnce
  <2>8. code' # NoCode => mailed'[code'.mail] # None
    BY <2>2, <2>3
  <2>9. \A x \in Workers : job'[x].step = "check" => mailed'[job'[x].code.mail] # None
    BY <2>2 DEF CodeOnce
  <2>10. QED
    BY <1>1, <2>2, <2>6, <2>7, <2>8, <2>9 DEF CodeOnce
<1>4. QED
  BY <1>2, <1>3

LEMMA PollCodeOnce ==
    ASSUME CodeOnce, NEW w \in Workers,
           \/ \E p \in Proofs, c \in Calls : Broadcast(w, p, c)
           \/ \E e \in Executions : Status(w, e)
           \/ Lookup(w) \/ RecordFound(w) \/ Abandon(w)
    PROVE  CodeOnce'
<1>1. Typed /\ Typed' /\ TypeOK
  BY StartTyped, PollTyped DEF CodeOnce, Typed
<1>2. UNCHANGED <<mailed, code, used>>
  BY DEF Broadcast, Status, Lookup, RecordFound, Abandon, otp
<1>3. \A x \in Workers : job'[x] = job[x] \/ job'[x].step # "check"
  <2>1. CASE Done(w)
    BY <1>1, <2>1, DoneDoes, ValueTypes
  <2>2. CASE Goto(w, "found")
    BY <1>1, <2>2, GotoKeeps DEF Steps
  <2>3. CASE \E p \in Proofs, c \in Calls : Broadcast(w, p, c)
    BY <1>1, <2>3, BroadcastDoes
  <2>4. CASE \E e \in Executions : Status(w, e)
    BY <1>1, <2>4, StatusDoes
  <2>5. QED
    BY <2>1, <2>2, <2>3, <2>4 DEF Lookup, RecordFound, Abandon
<1>4. crossed \subseteq crossed'
  BY DEF Broadcast, Status, Lookup, RecordFound, Abandon
<1>5. QED
  BY <1>1, <1>2, <1>3, <1>4, CodeOnceKept

LEMMA OtherCodeOnce ==
    ASSUME CodeOnce,
           \/ ExpireCode
           \/ \E m \in Mails, t \in Terms : RequestCode(m, t)
           \/ \E p \in Proofs, e \in Executions, d \in Declarations, c \in Calls :
                 Authorize(p, e, d, c)
           \/ \E e \in Executions : Hash(e)
           \/ \E n \in 0..MaxNonce : ExpireNonce(n)
    PROVE  CodeOnce'
<1>1. Typed /\ Typed' /\ TypeOK
  BY OtherTyped DEF CodeOnce, Typed
<1>2. UNCHANGED <<job, used, crossed>>
  BY DEF ExpireCode, RequestCode, Authorize, Hash, ExpireNonce, otp
<1>3. ASSUME NEW m \in Mails, NEW t \in Terms, RequestCode(m, t) PROVE CodeOnce'
  <2>1. mailed[m] = None /\ mailed' = [mailed EXCEPT ![m] = t] /\ code'.mail = m
    BY <1>3 DEF RequestCode
  <2>2. t # None /\ m # None
    BY SignerAssumption DEF SignerAssumption
  <2>3. mailed'[m] = t /\ \A k \in Mails \ {m} : mailed'[k] = mailed[k]
    BY <1>1, <2>1 DEF TypeOK
  <2>4. \A w \in Workers : job[w].step = "check" => job[w].code.mail \in Mails
    BY <1>1 DEF Typed, JobOf
  <2>5. used[m] = 0 /\ code' # NoCode
    BY <2>1, <2>2 DEF CodeOnce, NoCode
  <2>6. \A w \in Workers, k \in Mails : Checks(w, k)' <=> Checks(w, k)
    BY <1>2 DEF Checks
  <2>7. ASSUME NEW k \in Mails \ crossed PROVE UsedOnce(k)'
    BY <1>2, <2>1, <2>5, <2>6, <2>7 DEF CodeOnce, UsedOnce
  <2>8. QED
    BY <1>1, <1>2, <2>1, <2>2, <2>3, <2>4, <2>7 DEF CodeOnce
<1>4. CASE \/ ExpireCode
           \/ \E p \in Proofs, e \in Executions, d \in Declarations, c \in Calls :
                 Authorize(p, e, d, c)
           \/ \E e \in Executions : Hash(e)
           \/ \E n \in 0..MaxNonce : ExpireNonce(n)
  <2>1. mailed' = mailed /\ code' \in {code, NoCode}
    BY <1>4 DEF ExpireCode, Authorize, Hash, ExpireNonce, otp
  <2>2. QED
    BY <1>1, <1>2, <2>1, CodeOnceKept
<1>5. QED
  BY <1>3, <1>4

LEMMA StepCodeOnce == CodeOnce /\ [Next]_vars => CodeOnce'
<1>1. SUFFICES ASSUME CodeOnce, [Next]_vars PROVE CodeOnce'
  OBVIOUS
<1>2. CASE UNCHANGED vars
  BY <1>1, <1>2, StepTyped, CodeOnceKept, CrossedStays DEF CodeOnce, vars, otp
<1>3. CASE Next
  BY <1>1, <1>3, BroadcastCodeOnce, CheckCodeOnce, PollCodeOnce, OtherCodeOnce DEF Next, Step
<1>4. QED
  BY <1>1, <1>2, <1>3

\* A mailed code that no two requests tried together yields one token.
THEOREM CodeIsUsedOnce == Spec => []CodeUsedOnce
<1>1. CodeOnce => CodeUsedOnce
  BY DEF CodeOnce, UsedOnce, CodeUsedOnce
<1>2. QED
  BY <1>1, InitCodeOnce, StepCodeOnce, PTL DEF Spec
==============================================================================
