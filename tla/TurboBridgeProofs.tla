-------------------------- MODULE TurboBridgeProofs --------------------------
(***************************************************************************)
(* Theorems about TurboBridge for every number of intents, burns and       *)
(* workers.  Records and copies are written from stale reads, so every     *)
(* fact about a record is carried by every copy a worker holds; what makes *)
(* them facts is that payments and mints are never undone.                 *)
(***************************************************************************)
EXTENDS TurboBridge, TLAPS

\* What a record, or a copy of one, may say when the Vault paid v and the burns
\* are as in u.
TrueRecord(i, r, v, u) ==
    /\ r.fulfilledAt \/ r.status \in {"Fulfilled", "Settled"} \/ r.settledAt => i \in v
    /\ r.settledAt => r.burn \in Burns /\ u[r.burn] = "minted"

ExecuteSteps == {"executing", "precheck", "pay", "fulfilled"}
BurnSteps == {"start", "poll", "attested", "nonce", "mint", "settle", "credit"}
PaidSteps == (Steps \ ExecuteSteps) \cup {"fulfilled"}

\* What a job may be.
TrueJob(j, v, u) ==
    j.step # "idle" =>
        /\ j.intent \in Intents
        /\ TrueRecord(j.intent, j.copy, v, u)
        /\ j.step \in PaidSteps => j.intent \in v
        /\ j.step = "fulfilled" => ~j.copy.settledAt
        /\ j.step \in BurnSteps => j.copy.burn \in Burns
        /\ j.step \in {"settle", "credit"} => u[j.copy.burn] = "minted"

Credited(i, v, u) == i \in v /\ \E b \in Burns : u[b] = "minted"

Safe ==
    /\ TypeOK
    /\ \A i \in Intents : TrueRecord(i, record[i], vault, burn)
    /\ \A i \in Intents : "VAULT_CREDIT" \in ledger[i] => Credited(i, vault, burn)
    /\ \A w \in Workers : TrueJob(job[w], vault, burn)

-------------------------------------------------------------------------------
(* Types *)

LEMMA ValueTypes ==
    /\ NoRecord \in Records /\ Idle \in Jobs /\ Idle.step = "idle"
    /\ \A i \in Intents : Drive(i) \in Jobs
    /\ \A i \in Intents : Drive(i).step = "drive" /\ Drive(i).intent = i /\ Drive(i).copy = NoRecord
    /\ \A b \in Burns \cup {None}, known \in BOOLEAN : NewRecord(b, known) \in Records
    /\ \A r \in Records : Executing(r) \in Records /\ Reimbursed(r) \in Records
    /\ \A r \in Records, b \in Burns \cup {None}, known \in BOOLEAN :
          Fulfilled(r, b, known) \in Records
<1>1. NoRecord \in Records
  BY DEF NoRecord, NewRecord, Records
<1>2. Idle \in Jobs /\ Idle.step = "idle"
  BY <1>1 DEF Idle, Jobs
<1>3. ASSUME NEW i \in Intents
      PROVE  /\ Drive(i) \in Jobs
             /\ Drive(i).step = "drive" /\ Drive(i).intent = i /\ Drive(i).copy = NoRecord
  BY <1>1 DEF Drive, Idle, Jobs, Steps
<1>4. ASSUME NEW b \in Burns \cup {None}, NEW known \in BOOLEAN
      PROVE  NewRecord(b, known) \in Records
  BY DEF NewRecord, Records
<1>5. ASSUME NEW r \in Records
      PROVE  Executing(r) \in Records /\ Reimbursed(r) \in Records
  BY DEF Executing, Reimbursed, Records
<1>6. ASSUME NEW r \in Records, NEW b \in Burns \cup {None}, NEW known \in BOOLEAN
      PROVE  Fulfilled(r, b, known) \in Records
  BY DEF Fulfilled, Records
<1>7. QED
  BY <1>1, <1>2, <1>3, <1>4, <1>5, <1>6

LEMMA GotoDoes ==
    ASSUME TypeOK, NEW w \in Workers, NEW step \in Steps, Goto(w, step)
    PROVE  /\ job' \in [Workers -> Jobs]
           /\ job'[w] = [job[w] EXCEPT !.step = step]
           /\ \A x \in Workers \ {w} : job'[x] = job[x]
<1>1. job[w] \in Jobs
  BY DEF TypeOK
<1>2. [job[w] EXCEPT !.step = step] \in Jobs
  BY <1>1 DEF Jobs
<1>3. QED
  BY <1>2 DEF TypeOK, Goto

LEMMA WithDoes ==
    ASSUME TypeOK, NEW w \in Workers, NEW step \in Steps, NEW r \in Records, With(w, step, r)
    PROVE  /\ job' \in [Workers -> Jobs]
           /\ job'[w] = [job[w] EXCEPT !.step = step, !.copy = r]
           /\ \A x \in Workers \ {w} : job'[x] = job[x]
<1>1. job[w] \in Jobs
  BY DEF TypeOK
<1>2. [job[w] EXCEPT !.step = step, !.copy = r] \in Jobs
  BY <1>1 DEF Jobs
<1>3. job' = [job EXCEPT ![w] = [job[w] EXCEPT !.step = step, !.copy = r]]
  BY <1>1 DEF TypeOK, With, Jobs
<1>4. QED
  BY <1>2, <1>3 DEF TypeOK

LEMMA DoneDoes ==
    ASSUME TypeOK, NEW w \in Workers, Done(w)
    PROVE  /\ job' \in [Workers -> Jobs]
           /\ job'[w] = Idle
           /\ \A x \in Workers \ {w} : job'[x] = job[x]
  BY ValueTypes DEF TypeOK, Done

LEMMA FaultTyped ==
    ASSUME TypeOK, Fault
    PROVE  faults' \in 0..MaxFaults /\ executes' = executes
  BY TurboAssumption DEF TypeOK, Fault, TurboAssumption

LEMMA PersistDoes ==
    ASSUME TypeOK, NEW w \in Workers, job[w].intent \in Intents, NEW r \in Records,
           Persist(w, r)
    PROVE  /\ record' \in [Intents -> Records]
           /\ \A i \in Intents : \/ record'[i] = record[i]
                                 \/ i = job[w].intent /\ record'[i] = r
           /\ executes' = executes /\ faults' \in 0..MaxFaults
  BY FaultTyped DEF TypeOK, Persist, bounds

LEMMA AccountDoes ==
    ASSUME TypeOK, NEW i \in Intents, NEW stage \in Stages, Account(i, stage)
    PROVE  /\ ledger' \in [Intents -> SUBSET Stages]
           /\ \A k \in Intents : ledger'[k] \subseteq ledger[k] \cup {stage}
           /\ \A k \in Intents \ {i} : ledger'[k] = ledger[k]
  BY DEF TypeOK, Account

-------------------------------------------------------------------------------
(* Safety: payments and mints are never undone, so what was true stays true.   *)

LEMMA RecordStays ==
    ASSUME NEW v, NEW v1, NEW u, NEW u1, v \subseteq v1,
           \A b \in Burns : u[b] = "minted" => u1[b] = "minted",
           NEW i, NEW r, TrueRecord(i, r, v, u)
    PROVE  TrueRecord(i, r, v1, u1)
  BY DEF TrueRecord

LEMMA JobStays ==
    ASSUME NEW v, NEW v1, NEW u, NEW u1, v \subseteq v1,
           \A b \in Burns : u[b] = "minted" => u1[b] = "minted",
           NEW j, TrueJob(j, v, u)
    PROVE  TrueJob(j, v1, u1)
<1>1. SUFFICES ASSUME j.step # "idle"
               PROVE  /\ j.intent \in Intents
                      /\ TrueRecord(j.intent, j.copy, v1, u1)
                      /\ j.step \in PaidSteps => j.intent \in v1
                      /\ j.step = "fulfilled" => ~j.copy.settledAt
                      /\ j.step \in BurnSteps => j.copy.burn \in Burns
                      /\ j.step \in {"settle", "credit"} => u1[j.copy.burn] = "minted"
  BY DEF TrueJob
<1>2. TrueRecord(j.intent, j.copy, v1, u1)
  BY <1>1, RecordStays DEF TrueJob
<1>3. j.step \in {"settle", "credit"} => u1[j.copy.burn] = "minted"
  BY <1>1 DEF TrueJob, BurnSteps
<1>4. QED
  BY <1>1, <1>2, <1>3 DEF TrueJob

\* What a step has to show: that nothing is undone, and that what it writes is true.
LEMMA Preserved ==
    ASSUME Safe, TypeOK', vault \subseteq vault',
           \A b \in Burns : burn[b] = "minted" => burn'[b] = "minted",
           \A i \in Intents : \/ record'[i] = record[i]
                              \/ TrueRecord(i, record'[i], vault', burn'),
           \A i \in Intents : "VAULT_CREDIT" \in ledger'[i] =>
               "VAULT_CREDIT" \in ledger[i] \/ Credited(i, vault', burn'),
           \A x \in Workers : job'[x] = job[x] \/ TrueJob(job'[x], vault', burn')
    PROVE  Safe'
<1>1. \A i \in Intents : TrueRecord(i, record[i], vault', burn')
  BY RecordStays DEF Safe
<1>2. \A i \in Intents : "VAULT_CREDIT" \in ledger[i] => Credited(i, vault', burn')
  BY DEF Safe, Credited
<1>3. \A x \in Workers : TrueJob(job[x], vault', burn')
  BY JobStays DEF Safe
<1>4. \A i \in Intents : TrueRecord(i, record'[i], vault', burn')
  BY <1>1
<1>5. \A x \in Workers : TrueJob(job'[x], vault', burn')
  BY <1>3
<1>6. \A i \in Intents : "VAULT_CREDIT" \in ledger'[i] => Credited(i, vault', burn')
  BY <1>2
<1>7. QED
  BY <1>4, <1>5, <1>6 DEF Safe

LEMMA InitSafe == Init => Safe
<1>1. SUFFICES ASSUME Init PROVE Safe
  OBVIOUS
<1>2. TypeOK
  BY <1>1, ValueTypes, TurboAssumption DEF Init, TypeOK, TurboAssumption
<1>3. \A i \in Intents : TrueRecord(i, record[i], vault, burn)
  BY <1>1 DEF Init, TrueRecord, NoRecord, NewRecord
<1>4. \A w \in Workers : TrueJob(job[w], vault, burn)
  BY <1>1, ValueTypes DEF Init, TrueJob
<1>5. QED
  BY <1>1, <1>2, <1>3, <1>4 DEF Init, Safe

\* What every worker that is at work knows.
LEMMA AtWork ==
    ASSUME Safe, NEW w \in Workers, job[w].step # "idle"
    PROVE  /\ job[w].intent \in Intents /\ job[w].copy \in Records
           /\ job[w] \in Jobs
           /\ TrueRecord(job[w].intent, job[w].copy, vault, burn)
           /\ record[job[w].intent] \in Records
           /\ TrueRecord(job[w].intent, record[job[w].intent], vault, burn)
  BY DEF Safe, TypeOK, TrueJob, Jobs

\* A step that only moves a worker to the next of its steps.
LEMMA MovePreserves ==
    ASSUME Safe, NEW w \in Workers, job[w].step # "idle", NEW step \in Steps,
           Goto(w, step),
           UNCHANGED <<record, ledger, vault, burn>>,
           payPool' \subseteq Intents, mintPool' \subseteq Burns,
           executes' = executes, faults' \in 0..MaxFaults,
           TrueJob([job[w] EXCEPT !.step = step], vault, burn)
    PROVE  Safe'
<1>1. TypeOK
  BY DEF Safe
<1>2. /\ job' \in [Workers -> Jobs]
      /\ job'[w] = [job[w] EXCEPT !.step = step]
      /\ \A x \in Workers \ {w} : job'[x] = job[x]
  BY <1>1, GotoDoes
<1>3. TypeOK'
  BY <1>1, <1>2 DEF TypeOK
<1>4. \A x \in Workers : job'[x] = job[x] \/ TrueJob(job'[x], vault', burn')
  BY <1>2
<1>5. QED
  BY <1>3, <1>4, Preserved

\* A step that ends a worker's job.
LEMMA DonePreserves ==
    ASSUME Safe, NEW w \in Workers, Done(w),
           UNCHANGED <<record, vault, burn>>, ledger' \in [Intents -> SUBSET Stages],
           \A i \in Intents : "VAULT_CREDIT" \in ledger'[i] =>
               "VAULT_CREDIT" \in ledger[i] \/ Credited(i, vault, burn),
           payPool' \subseteq Intents, mintPool' \subseteq Burns,
           executes' = executes, faults' \in 0..MaxFaults
    PROVE  Safe'
<1>1. TypeOK
  BY DEF Safe
<1>2. /\ job' \in [Workers -> Jobs]
      /\ job'[w] = Idle
      /\ \A x \in Workers \ {w} : job'[x] = job[x]
  BY <1>1, DoneDoes
<1>3. TypeOK'
  BY <1>1, <1>2 DEF TypeOK
<1>4. TrueJob(Idle, vault', burn')
  BY ValueTypes DEF TrueJob
<1>5. \A x \in Workers : job'[x] = job[x] \/ TrueJob(job'[x], vault', burn')
  BY <1>2, <1>4
<1>6. QED
  BY <1>3, <1>5, Preserved

\* A step that writes a copy that is true, and goes on with it.
LEMMA WritePreserves ==
    ASSUME Safe, NEW w \in Workers, job[w].step # "idle", NEW r \in Records,
           Persist(w, r), TrueRecord(job[w].intent, r, vault, burn),
           job' \in [Workers -> Jobs],
           \A x \in Workers \ {w} : job'[x] = job[x],
           TrueJob(job'[w], vault, burn),
           UNCHANGED <<vault, burn, payPool, mintPool>>,
           ledger' \in [Intents -> SUBSET Stages],
           \A i \in Intents : "VAULT_CREDIT" \in ledger'[i] => "VAULT_CREDIT" \in ledger[i]
    PROVE  Safe'
<1>1. TypeOK /\ job[w].intent \in Intents
  BY AtWork DEF Safe
<1>2. /\ record' \in [Intents -> Records]
      /\ \A i \in Intents : \/ record'[i] = record[i]
                            \/ i = job[w].intent /\ record'[i] = r
      /\ executes' = executes /\ faults' \in 0..MaxFaults
  BY <1>1, PersistDoes
<1>3. TypeOK'
  BY <1>1, <1>2 DEF TypeOK
<1>4. \A i \in Intents : record'[i] = record[i] \/ TrueRecord(i, record'[i], vault', burn')
  BY <1>2
<1>5. \A x \in Workers : job'[x] = job[x] \/ TrueJob(job'[x], vault', burn')
  OBVIOUS
<1>6. QED
  BY <1>3, <1>4, <1>5, Preserved

-------------------------------------------------------------------------------
(* The steps of POST /execute *)

LEMMA RequestSafe ==
    ASSUME Safe, NEW i \in Intents, NEW b \in Burns \cup {None}, NEW known \in BOOLEAN,
           \/ CreateIntent(i, b, known)
           \/ \E w \in Workers : Execute(w, i, b, known) \/ Poll(w, i)
    PROVE  Safe'
<1>1. TypeOK
  BY DEF Safe
<1>2. CASE CreateIntent(i, b, known)
  <2>1. TrueRecord(i, NewRecord(b, known), vault, burn)
    BY DEF TrueRecord, NewRecord
  <2>2. TypeOK'
    BY <1>1, <1>2, ValueTypes DEF CreateIntent, TypeOK, chains, bounds
  <2>3. QED
    BY <1>1, <1>2, <2>1, <2>2, Preserved DEF CreateIntent, TypeOK, chains, bounds
<1>3. ASSUME NEW w \in Workers, Execute(w, i, b, known) PROVE Safe'
  <2> DEFINE j == [step |-> "executing", intent |-> i, copy |-> record[i],
                   burn |-> b, domain |-> known]
  <2>1. j \in Jobs
    BY <1>1 DEF Jobs, TypeOK, Steps
  <2>2. executes' \in [Intents -> 0..MaxExecutes]
    <3>1. executes[i] \in 0..MaxExecutes /\ executes[i] < MaxExecutes
      BY <1>1, <1>3 DEF TypeOK, Execute
    <3>2. executes[i] + 1 \in 0..MaxExecutes
      BY <3>1, TurboAssumption DEF TurboAssumption
    <3>3. QED
      BY <3>2, <1>1, <1>3 DEF Execute, TypeOK
  <2>3. TypeOK'
    BY <1>1, <1>3, <2>1, <2>2 DEF Execute, TypeOK, chains
  <2>4. TrueJob(j, vault, burn)
    BY DEF TrueJob, Safe, PaidSteps, ExecuteSteps, BurnSteps
  <2>5. \A x \in Workers : job'[x] = job[x] \/ TrueJob(job'[x], vault, burn)
    BY <1>1, <1>3, <2>4 DEF Execute, TypeOK
  <2>6. UNCHANGED <<record, ledger, vault, burn>>
    BY <1>3 DEF Execute, chains
  <2>7. QED
    BY <2>3, <2>5, <2>6, Preserved
<1>4. ASSUME NEW w \in Workers, Poll(w, i) PROVE Safe'
  <2>1. TypeOK'
    BY <1>1, <1>4, ValueTypes DEF Poll, TypeOK, chains, bounds
  <2>2. i \in vault
    BY <1>4 DEF Poll, Resumable, Safe, TrueRecord
  <2>3. TrueRecord(i, NoRecord, vault, burn)
    BY DEF TrueRecord, NoRecord, NewRecord
  <2>4. TrueJob(Drive(i), vault, burn)
    BY <2>2, <2>3, ValueTypes DEF TrueJob, BurnSteps
  <2>5. \A x \in Workers : job'[x] = job[x] \/ TrueJob(job'[x], vault, burn)
    BY <1>1, <1>4, <2>4 DEF Poll, TypeOK
  <2>6. UNCHANGED <<record, ledger, vault, burn>>
    BY <1>4 DEF Poll, chains
  <2>7. QED
    BY <2>1, <2>5, <2>6, Preserved
<1>5. QED
  BY <1>2, <1>3, <1>4

LEMMA ExecuteSafe ==
    ASSUME Safe, NEW w \in Workers, ExecuteStep(w)
    PROVE  Safe'
<1>1. TypeOK
  BY DEF Safe
<1>2. CASE MarkExecuting(w)
  <2> DEFINE r == Executing(job[w].copy)
  <2>1. job[w].step = "executing"
    BY <1>2 DEF MarkExecuting, At
  <2>2. /\ job[w].intent \in Intents /\ job[w] \in Jobs /\ r \in Records
        /\ TrueRecord(job[w].intent, job[w].copy, vault, burn)
    BY <2>1, AtWork, ValueTypes
  <2>3. TrueRecord(job[w].intent, r, vault, burn)
    BY <2>2 DEF TrueRecord, Executing, Records, Jobs
  <2>4. Persist(w, r) /\ With(w, "precheck", r) /\ UNCHANGED <<ledger, chains>>
    BY <1>2 DEF MarkExecuting
  <2>5. /\ job' \in [Workers -> Jobs]
        /\ job'[w] = [job[w] EXCEPT !.step = "precheck", !.copy = r]
        /\ \A x \in Workers \ {w} : job'[x] = job[x]
    BY <1>1, <2>2, <2>4, WithDoes DEF Steps
  <2>6. /\ job'[w].step = "precheck" /\ job'[w].intent = job[w].intent /\ job'[w].copy = r
    BY <2>2, <2>5 DEF Jobs
  <2>7. TrueJob(job'[w], vault, burn)
    BY <2>2, <2>3, <2>6 DEF TrueJob, PaidSteps, ExecuteSteps, BurnSteps
  <2>8. QED
    BY <1>1, <2>1, <2>2, <2>3, <2>4, <2>5, <2>7, WritePreserves DEF chains, TypeOK
<1>3. CASE Skip(w) \/ PayReverted(w)
  BY <1>1, <1>3, DonePreserves DEF Skip, PayReverted, chains, bounds, TypeOK
<1>4. CASE Precheck(w)
  <2>1. job[w].step = "precheck" /\ Goto(w, "pay")
    BY <1>4 DEF Precheck, At
  <2>2. job[w] \in Jobs /\ TrueJob(job[w], vault, burn)
    BY <1>1 DEF Safe, TypeOK
  <2>3. TrueJob([job[w] EXCEPT !.step = "pay"], vault, burn)
    BY <2>1, <2>2 DEF TrueJob, PaidSteps, ExecuteSteps, BurnSteps, Jobs
  <2>4. QED
    BY <1>1, <1>4, <2>1, <2>3, MovePreserves DEF Precheck, chains, bounds, TypeOK, Steps
<1>5. CASE PayMined(w)
  <2> DEFINE i == job[w].intent
  <2>1. job[w].step = "pay" /\ i \notin vault /\ vault' = vault \cup {i}
    BY <1>5 DEF PayMined, At
  <2>2. i \in Intents /\ job[w] \in Jobs /\ TrueRecord(i, job[w].copy, vault, burn)
    BY <2>1, AtWork
  <2>3. /\ job' \in [Workers -> Jobs]
        /\ job'[w] = [job[w] EXCEPT !.step = "fulfilled"]
        /\ \A x \in Workers \ {w} : job'[x] = job[x]
    BY <1>1, <1>5, GotoDoes DEF PayMined, Steps
  <2>4. /\ ledger' \in [Intents -> SUBSET Stages]
        /\ \A k \in Intents : ledger'[k] \subseteq ledger[k] \cup {"TREASURY_PAYMENT"}
    BY <1>1, <1>5, <2>2, AccountDoes DEF PayMined, Stages
  <2>5. TypeOK'
    BY <1>1, <1>5, <2>1, <2>2, <2>3, <2>4 DEF PayMined, TypeOK, bounds
  <2>6. /\ job'[w].step = "fulfilled" /\ job'[w].intent = i /\ job'[w].copy = job[w].copy
    BY <2>2, <2>3 DEF Jobs
  <2>7. ~job[w].copy.settledAt
    BY <2>1, <2>2 DEF TrueRecord
  <2>8. TrueRecord(i, job[w].copy, vault', burn)
    BY <2>1, <2>2 DEF TrueRecord
  <2>9. TrueJob(job'[w], vault', burn)
    BY <2>1, <2>2, <2>6, <2>7, <2>8 DEF TrueJob, BurnSteps
  <2>10. UNCHANGED <<record, burn>>
    BY <1>5 DEF PayMined
  <2>11. \A k \in Intents : "VAULT_CREDIT" \in ledger'[k] => "VAULT_CREDIT" \in ledger[k]
    BY <2>4
  <2>12. \A x \in Workers : job'[x] = job[x] \/ TrueJob(job'[x], vault', burn')
    BY <2>3, <2>9, <2>10
  <2>13. QED
    BY <2>1, <2>5, <2>10, <2>11, <2>12, Preserved
<1>6. CASE PayUnseen(w)
  <2>1. job[w].step = "pay" /\ Done(w)
    BY <1>6 DEF PayUnseen, At
  <2>2. payPool' \subseteq Intents
    BY <1>1, <1>6, <2>1, AtWork DEF PayUnseen, TypeOK
  <2>3. QED
    BY <1>1, <1>6, <2>1, <2>2, FaultTyped, DonePreserves DEF PayUnseen, TypeOK
<1>7. CASE MarkFulfilled(w)
  <2> DEFINE i == job[w].intent
             r == Fulfilled(job[w].copy, job[w].burn, job[w].domain)
  <2>1. job[w].step = "fulfilled"
    BY <1>7 DEF MarkFulfilled, At
  <2>2. /\ i \in Intents /\ job[w] \in Jobs /\ job[w].copy \in Records
        /\ TrueRecord(i, job[w].copy, vault, burn)
    BY <2>1, AtWork
  <2>3. i \in vault /\ ~job[w].copy.settledAt
    BY <2>1 DEF Safe, TrueJob, PaidSteps
  <2>4. r \in Records
    BY <2>2, ValueTypes DEF Jobs
  <2>5. ~r.settledAt
    BY <2>2, <2>3 DEF Fulfilled, Records
  <2>6. TrueRecord(i, r, vault, burn)
    BY <2>3, <2>5 DEF TrueRecord
  <2>7. /\ Persist(w, r) /\ Account(i, "TREASURY_PAYMENT") /\ UNCHANGED chains
        /\ job' = [job EXCEPT ![w] = Drive(i)] \/ Done(w)
    BY <1>7 DEF MarkFulfilled
  <2>8. /\ ledger' \in [Intents -> SUBSET Stages]
        /\ \A k \in Intents : ledger'[k] \subseteq ledger[k] \cup {"TREASURY_PAYMENT"}
    BY <1>1, <2>2, <2>7, AccountDoes DEF Stages
  <2>9. TrueRecord(i, NoRecord, vault, burn)
    BY DEF TrueRecord, NoRecord, NewRecord
  <2>10. TrueJob(Drive(i), vault, burn) /\ TrueJob(Idle, vault, burn)
    BY <2>2, <2>3, <2>9, ValueTypes DEF TrueJob, BurnSteps
  <2>11. /\ job' \in [Workers -> Jobs]
         /\ job'[w] \in {Drive(i), Idle}
         /\ \A x \in Workers \ {w} : job'[x] = job[x]
    BY <1>1, <2>2, <2>7, DoneDoes, ValueTypes DEF TypeOK
  <2>12. TrueJob(job'[w], vault, burn)
    BY <2>10, <2>11
  <2>13. \A k \in Intents : "VAULT_CREDIT" \in ledger'[k] => "VAULT_CREDIT" \in ledger[k]
    BY <2>8
  <2>14. UNCHANGED <<vault, burn, payPool, mintPool>>
    BY <2>7 DEF chains
  <2>15. QED
    BY <2>1, <2>4, <2>6, <2>7, <2>8, <2>11, <2>12, <2>13, <2>14, WritePreserves
<1>8. QED
  BY <1>2, <1>3, <1>4, <1>5, <1>6, <1>7 DEF ExecuteStep

-------------------------------------------------------------------------------
(* The steps of driveSettlement *)

\* A worker that drives a settlement works on a paid intent and a known burn.
LEMMA Driving ==
    ASSUME Safe, NEW w \in Workers, job[w].step \in PaidSteps
    PROVE  /\ job[w].intent \in Intents /\ job[w].intent \in vault
           /\ job[w] \in Jobs /\ job[w].copy \in Records
           /\ TrueRecord(job[w].intent, job[w].copy, vault, burn)
           /\ job[w].step \in BurnSteps => job[w].copy.burn \in Burns
           /\ job[w].step \in {"settle", "credit"} => burn[job[w].copy.burn] = "minted"
  BY DEF Safe, TypeOK, TrueJob, Jobs, PaidSteps, Steps, ExecuteSteps

\* Going on from one settlement step to another: only "settle" needs a mint.
LEMMA NextDrive ==
    ASSUME Safe, NEW w \in Workers, job[w].step \in PaidSteps, job[w].step \in BurnSteps,
           NEW step \in {"note", "poll", "attested", "nonce", "mint", "settle"},
           step = "settle" => burn[job[w].copy.burn] = "minted"
    PROVE  TrueJob([job[w] EXCEPT !.step = step], vault, burn)
  BY Driving DEF TrueJob, Jobs

LEMMA DriveMoves ==
    ASSUME Safe, NEW w \in Workers,
           \/ DriveEnds(w) \/ AttestationPending(w) \/ Nonce(w) \/ MintReverted(w)
           \/ MintUnseen(w) \/ MintFails(w) \/ Credit(w)
    PROVE  Safe'
<1>1. TypeOK
  BY DEF Safe
<1>2. CASE DriveEnds(w)
  BY <1>1, <1>2, DonePreserves DEF DriveEnds, chains, bounds, TypeOK
<1>3. CASE AttestationPending(w)
  <2>1. job[w].step = "poll" /\ Goto(w, "note")
    BY <1>3 DEF AttestationPending, At
  <2>2. TrueJob([job[w] EXCEPT !.step = "note"], vault, burn)
    BY <2>1, NextDrive DEF PaidSteps, Steps, ExecuteSteps, BurnSteps
  <2>3. executes' = executes /\ faults' \in 0..MaxFaults
    BY <1>1, <1>3, FaultTyped DEF AttestationPending, bounds, TypeOK
  <2>4. QED
    BY <1>1, <1>3, <2>1, <2>2, <2>3, MovePreserves DEF AttestationPending, chains, TypeOK, Steps
<1>4. CASE Nonce(w)
  <2> DEFINE step == IF burn[job[w].copy.burn] = "minted" THEN "settle" ELSE "mint"
  <2>1. job[w].step = "nonce" /\ Goto(w, step)
    BY <1>4 DEF Nonce, At
  <2>2. TrueJob([job[w] EXCEPT !.step = step], vault, burn)
    BY <2>1, NextDrive DEF PaidSteps, Steps, ExecuteSteps, BurnSteps
  <2>3. step \in Steps
    BY DEF Steps
  <2>4. QED
    BY <1>1, <1>4, <2>1, <2>2, <2>3, MovePreserves DEF Nonce, chains, bounds, TypeOK
<1>5. CASE MintReverted(w)
  <2>1. job[w].step = "mint" /\ Goto(w, "note")
    BY <1>5 DEF MintReverted, At
  <2>2. TrueJob([job[w] EXCEPT !.step = "note"], vault, burn)
    BY <2>1, NextDrive DEF PaidSteps, Steps, ExecuteSteps, BurnSteps
  <2>3. QED
    BY <1>1, <1>5, <2>1, <2>2, MovePreserves DEF MintReverted, chains, bounds, TypeOK, Steps
<1>6. CASE MintUnseen(w)
  <2>1. job[w].step = "mint" /\ Goto(w, "note")
    BY <1>6 DEF MintUnseen, At
  <2>2. TrueJob([job[w] EXCEPT !.step = "note"], vault, burn)
    BY <2>1, NextDrive DEF PaidSteps, Steps, ExecuteSteps, BurnSteps
  <2>3. mintPool' \subseteq Burns
    BY <1>1, <1>6, <2>1, Driving DEF MintUnseen, TypeOK, PaidSteps, Steps, ExecuteSteps, BurnSteps
  <2>4. QED
    BY <1>1, <1>6, <2>1, <2>2, <2>3, FaultTyped, MovePreserves DEF MintUnseen, TypeOK, Steps
<1>7. CASE MintFails(w)
  <2>1. job[w].step \in {"nonce", "mint"} /\ Goto(w, "note")
    BY <1>7 DEF MintFails
  <2>2. TrueJob([job[w] EXCEPT !.step = "note"], vault, burn)
    BY <2>1, NextDrive DEF PaidSteps, Steps, ExecuteSteps, BurnSteps
  <2>3. QED
    BY <1>1, <1>7, <2>1, <2>2, FaultTyped, MovePreserves DEF MintFails, chains, TypeOK, Steps
<1>8. CASE Credit(w)
  <2> DEFINE i == job[w].intent
  <2>1. job[w].step = "credit" /\ Done(w) /\ Account(i, "VAULT_CREDIT")
    BY <1>8 DEF Credit, At
  <2>2. i \in Intents /\ Credited(i, vault, burn)
    BY <2>1, Driving DEF PaidSteps, Steps, ExecuteSteps, BurnSteps, Credited
  <2>3. /\ ledger' \in [Intents -> SUBSET Stages]
        /\ \A k \in Intents \ {i} : ledger'[k] = ledger[k]
    BY <1>1, <2>1, <2>2, AccountDoes DEF Stages
  <2>4. \A k \in Intents : "VAULT_CREDIT" \in ledger'[k] =>
            "VAULT_CREDIT" \in ledger[k] \/ Credited(k, vault, burn)
    BY <2>2, <2>3
  <2>5. QED
    BY <1>1, <1>8, <2>1, <2>3, <2>4, DonePreserves DEF Credit, chains, bounds, TypeOK
<1>9. QED
  BY <1>2, <1>3, <1>4, <1>5, <1>6, <1>7, <1>8

\* A worker that carries its copy, or a new one that is true, to a settlement step.
LEMMA CarryPreserves ==
    ASSUME Safe, NEW w \in Workers, job[w].step \in PaidSteps, NEW r \in Records,
           NEW step \in {"note", "start", "poll", "attested"},
           With(w, step, r), TrueRecord(job[w].intent, r, vault, burn),
           step # "note" => r.burn \in Burns,
           UNCHANGED <<record, ledger, chains, bounds>>
    PROVE  Safe'
<1>1. TypeOK /\ step \in Steps
  BY DEF Safe, Steps
<1>2. /\ job' \in [Workers -> Jobs]
      /\ job'[w] = [job[w] EXCEPT !.step = step, !.copy = r]
      /\ \A x \in Workers \ {w} : job'[x] = job[x]
  BY <1>1, WithDoes
<1>3. job[w].intent \in Intents /\ job[w].intent \in vault /\ job[w] \in Jobs
  BY Driving
<1>4. job'[w].step = step /\ job'[w].copy = r /\ job'[w].intent = job[w].intent
  BY <1>2, <1>3 DEF Jobs
<1>5. TrueJob(job'[w], vault, burn)
  BY <1>3, <1>4 DEF TrueJob, BurnSteps
<1>6. TypeOK'
  BY <1>1, <1>2 DEF TypeOK, chains, bounds
<1>7. \A x \in Workers : job'[x] = job[x] \/ TrueJob(job'[x], vault, burn)
  BY <1>2, <1>5
<1>8. QED
  BY <1>6, <1>7, Preserved DEF chains

LEMMA DriveReads ==
    ASSUME Safe, NEW w \in Workers, DriveStarts(w) \/ AttestationComplete(w)
    PROVE  Safe'
<1>1. TypeOK
  BY DEF Safe
<1>2. CASE DriveStarts(w)
  <2> DEFINE r == record[job[w].intent]
             step == IF r.burn = None \/ ~r.domain THEN "note"
                     ELSE IF r.started THEN "poll" ELSE "start"
  <2>1. job[w].step = "drive" /\ With(w, step, r) /\ UNCHANGED <<record, ledger, chains, bounds>>
    BY <1>2 DEF DriveStarts, At
  <2>2. r \in Records /\ TrueRecord(job[w].intent, r, vault, burn)
    BY <2>1, AtWork
  <2>3. step # "note" => r.burn \in Burns
    BY <2>2 DEF Records
  <2>4. job[w].step \in PaidSteps /\ step \in {"note", "start", "poll", "attested"}
    BY <2>1 DEF PaidSteps, Steps, ExecuteSteps
  <2>5. QED
    BY <2>1, <2>2, <2>3, <2>4, CarryPreserves
<1>3. CASE AttestationComplete(w)
  <2> DEFINE r == job[w].copy
  <2>1. job[w].step = "poll" /\ UNCHANGED <<record, ledger, chains, bounds>>
    BY <1>3 DEF AttestationComplete, At
  <2>2. job[w].step \in PaidSteps /\ job[w].step \in BurnSteps
    BY <2>1 DEF PaidSteps, Steps, ExecuteSteps, BurnSteps
  <2>3. /\ r \in Records /\ r.burn \in Burns
        /\ TrueRecord(job[w].intent, r, vault, burn)
    BY <2>2, Driving
  <2>4. CASE Goto(w, "nonce")
    <3>1. TrueJob([job[w] EXCEPT !.step = "nonce"], vault, burn)
      BY <2>2, NextDrive
    <3>2. QED
      BY <1>1, <2>1, <2>4, <3>1, MovePreserves DEF chains, bounds, TypeOK, Steps
  <2>5. CASE With(w, "attested", [r EXCEPT !.attestationAt = TRUE])
    <3> DEFINE q == [r EXCEPT !.attestationAt = TRUE]
    <3>1. q \in Records /\ q.burn \in Burns
      BY <2>3 DEF Records
    <3>2. TrueRecord(job[w].intent, q, vault, burn)
      BY <2>3 DEF TrueRecord, Records
    <3>3. QED
      BY <2>1, <2>2, <2>5, <3>1, <3>2, CarryPreserves
  <2>6. QED
    BY <1>3, <2>4, <2>5 DEF AttestationComplete
<1>4. QED
  BY <1>2, <1>3

LEMMA DriveWrites ==
    ASSUME Safe, NEW w \in Workers, Start(w) \/ Note(w) \/ MarkAttested(w) \/ Settle(w)
    PROVE  Safe'
<1>1. TypeOK
  BY DEF Safe
<1>2. job[w].step \in {"start", "note", "attested", "settle"}
  BY DEF Start, Note, MarkAttested, Settle, At
<1>3. job[w].step \in PaidSteps /\ job[w].step # "idle"
  BY <1>2 DEF PaidSteps, Steps, ExecuteSteps
<1>4. /\ job[w].intent \in Intents /\ job[w].intent \in vault
      /\ job[w] \in Jobs /\ job[w].copy \in Records
      /\ TrueRecord(job[w].intent, job[w].copy, vault, burn)
      /\ job[w].step \in BurnSteps => job[w].copy.burn \in Burns
      /\ job[w].step \in {"settle", "credit"} => burn[job[w].copy.burn] = "minted"
  BY <1>3, Driving
<1>5. CASE Start(w)
  <2> DEFINE r == [job[w].copy EXCEPT !.started = TRUE]
  <2>1. /\ job[w].step = "start" /\ Persist(w, r) /\ With(w, "poll", r)
        /\ UNCHANGED <<ledger, chains>>
    BY <1>5 DEF Start, At
  <2>2. r \in Records /\ r.burn \in Burns /\ TrueRecord(job[w].intent, r, vault, burn)
    <3>1. job[w].copy.burn \in Burns
      BY <1>4, <2>1 DEF BurnSteps
    <3>2. r \in Records /\ r.burn = job[w].copy.burn
      BY <1>4 DEF Records
    <3>3. TrueRecord(job[w].intent, r, vault, burn)
      BY <1>4 DEF Records, TrueRecord
    <3>4. QED
      BY <3>1, <3>2, <3>3
  <2>3. /\ job' \in [Workers -> Jobs]
        /\ job'[w] = [job[w] EXCEPT !.step = "poll", !.copy = r]
        /\ \A x \in Workers \ {w} : job'[x] = job[x]
    BY <1>1, <2>1, <2>2, WithDoes DEF Steps
  <2>4. job'[w].step = "poll" /\ job'[w].copy = r /\ job'[w].intent = job[w].intent
    BY <1>4, <2>3 DEF Jobs
  <2>5. TrueJob(job'[w], vault, burn)
    BY <1>4, <2>2, <2>4 DEF TrueJob
  <2>6. QED
    BY <1>1, <1>3, <2>1, <2>2, <2>3, <2>5, WritePreserves DEF chains, TypeOK
<1>6. CASE Note(w)
  <2>1. Persist(w, job[w].copy) /\ Done(w) /\ UNCHANGED <<ledger, chains>>
    BY <1>6 DEF Note
  <2>2. TrueJob(Idle, vault, burn)
    BY ValueTypes DEF TrueJob
  <2>3. QED
    BY <1>1, <1>3, <1>4, <2>1, <2>2, DoneDoes, WritePreserves DEF chains, TypeOK
<1>7. CASE MarkAttested(w)
  <2>1. /\ job[w].step = "attested"
        /\ Persist(w, job[w].copy) /\ Goto(w, "nonce") /\ UNCHANGED <<ledger, chains>>
    BY <1>7 DEF MarkAttested, At
  <2>2. TrueJob([job[w] EXCEPT !.step = "nonce"], vault, burn)
    BY <1>3, <2>1, NextDrive DEF BurnSteps
  <2>3. /\ job' \in [Workers -> Jobs]
        /\ job'[w] = [job[w] EXCEPT !.step = "nonce"]
        /\ \A x \in Workers \ {w} : job'[x] = job[x]
    BY <1>1, <2>1, GotoDoes DEF Steps
  <2>4. QED
    BY <1>1, <1>3, <1>4, <2>1, <2>2, <2>3, WritePreserves DEF chains, TypeOK
<1>8. CASE Settle(w)
  <2> DEFINE r == Reimbursed(job[w].copy)
  <2>1. /\ job[w].step = "settle" /\ Persist(w, r) /\ With(w, "credit", r)
        /\ UNCHANGED <<ledger, chains>>
    BY <1>8 DEF Settle, At
  <2>2. r \in Records /\ r.burn = job[w].copy.burn
    BY <1>4, ValueTypes DEF Reimbursed, Records
  <2>3. r.burn \in Burns /\ burn[r.burn] = "minted"
    BY <1>4, <2>1, <2>2 DEF BurnSteps
  <2>4. TrueRecord(job[w].intent, r, vault, burn)
    BY <1>4, <2>3 DEF TrueRecord
  <2>5. /\ job' \in [Workers -> Jobs]
        /\ job'[w] = [job[w] EXCEPT !.step = "credit", !.copy = r]
        /\ \A x \in Workers \ {w} : job'[x] = job[x]
    BY <1>1, <2>1, <2>2, WithDoes DEF Steps
  <2>6. job'[w].step = "credit" /\ job'[w].copy = r /\ job'[w].intent = job[w].intent
    BY <1>4, <2>5 DEF Jobs
  <2>7. TrueJob(job'[w], vault, burn)
    BY <1>4, <2>3, <2>4, <2>6 DEF TrueJob
  <2>8. QED
    BY <1>1, <1>3, <2>1, <2>2, <2>4, <2>5, <2>7, WritePreserves DEF chains, TypeOK
<1>9. QED
  BY <1>5, <1>6, <1>7, <1>8

-------------------------------------------------------------------------------
(* The chains, and what is safe in every reachable state *)

LEMMA ChainSafe ==
    ASSUME Safe,
           \/ \E w \in Workers : MintMined(w) \/ Abandon(w)
           \/ \E i \in Intents : MinePayment(i)
           \/ \E b \in Burns : Attest(b) \/ MineMint(b)
    PROVE  Safe'
<1>1. TypeOK
  BY DEF Safe
<1>2. ASSUME NEW w \in Workers, MintMined(w) PROVE Safe'
  <2> DEFINE i == job[w].intent
             b == job[w].copy.burn
  <2>1. job[w].step = "mint" /\ burn' = [burn EXCEPT ![b] = "minted"]
    BY <1>2 DEF MintMined, At
  <2>2. job[w].step \in PaidSteps /\ job[w].step \in BurnSteps
    BY <2>1 DEF PaidSteps, Steps, ExecuteSteps, BurnSteps
  <2>3. /\ i \in Intents /\ i \in vault /\ b \in Burns /\ job[w] \in Jobs
        /\ TrueRecord(i, job[w].copy, vault, burn)
    BY <2>2, Driving
  <2>4. /\ job' \in [Workers -> Jobs]
        /\ job'[w] = [job[w] EXCEPT !.step = "settle"]
        /\ \A x \in Workers \ {w} : job'[x] = job[x]
    BY <1>1, <1>2, GotoDoes DEF MintMined, Steps
  <2>5. /\ ledger' \in [Intents -> SUBSET Stages]
        /\ \A k \in Intents \ {i} : ledger'[k] = ledger[k]
    BY <1>1, <1>2, <2>3, AccountDoes DEF MintMined, Stages
  <2>6. /\ burn' \in [Burns -> {"burnt", "attested", "minted"}]
        /\ burn'[b] = "minted"
        /\ \A c \in Burns : burn[c] = "minted" => burn'[c] = "minted"
    BY <1>1, <2>1, <2>3 DEF TypeOK
  <2>7. TypeOK'
    BY <1>1, <1>2, <2>4, <2>5, <2>6 DEF MintMined, TypeOK, bounds
  <2>8. UNCHANGED <<record, vault>>
    BY <1>2 DEF MintMined
  <2>9. /\ job'[w].step = "settle" /\ job'[w].intent = i /\ job'[w].copy = job[w].copy
    BY <2>3, <2>4 DEF Jobs
  <2>10. TrueRecord(i, job[w].copy, vault, burn')
    BY <2>3, <2>6, RecordStays
  <2>11. TrueJob(job'[w], vault, burn')
    BY <2>3, <2>6, <2>9, <2>10 DEF TrueJob
  <2>12. \A k \in Intents : "VAULT_CREDIT" \in ledger'[k] =>
             "VAULT_CREDIT" \in ledger[k] \/ Credited(k, vault', burn')
    BY <2>3, <2>5, <2>6, <2>8 DEF Credited
  <2>13. \A x \in Workers : job'[x] = job[x] \/ TrueJob(job'[x], vault', burn')
    BY <2>4, <2>8, <2>11
  <2>14. QED
    BY <2>6, <2>7, <2>8, <2>12, <2>13, Preserved
<1>3. ASSUME NEW w \in Workers, Abandon(w) PROVE Safe'
  BY <1>1, <1>3, FaultTyped, DonePreserves DEF Abandon, chains, TypeOK
<1>4. ASSUME NEW i \in Intents, MinePayment(i) PROVE Safe'
  <2>1. TypeOK' /\ vault \subseteq vault' /\ UNCHANGED <<record, ledger, burn, job>>
    BY <1>1, <1>4 DEF MinePayment, TypeOK, bounds
  <2>2. QED
    BY <2>1, Preserved
<1>5. ASSUME NEW b \in Burns, Attest(b) \/ MineMint(b) PROVE Safe'
  <2>1. (burn' = [burn EXCEPT ![b] = "attested"] /\ burn[b] = "burnt")
        \/ burn' = [burn EXCEPT ![b] = "minted"]
    BY <1>5 DEF Attest, MineMint
  <2>2. TypeOK' /\ UNCHANGED <<record, ledger, vault, job>>
    BY <1>1, <1>5, <2>1 DEF Attest, MineMint, TypeOK, bounds
  <2>3. \A c \in Burns : burn[c] = "minted" => burn'[c] = "minted"
    BY <1>1, <2>1 DEF TypeOK
  <2>4. QED
    BY <2>2, <2>3, Preserved
<1>6. QED
  BY <1>2, <1>3, <1>4, <1>5

LEMMA StepSafe == Safe /\ [Next]_vars => Safe'
<1>1. SUFFICES ASSUME Safe, [Next]_vars PROVE Safe'
  OBVIOUS
<1>2. CASE UNCHANGED vars
  BY <1>1, <1>2 DEF Safe, vars, chains, bounds, TypeOK
<1>3. ASSUME NEW i \in Intents, NEW b \in Burns \cup {None}, NEW known \in BOOLEAN,
             CreateIntent(i, b, known) \/ \E w \in Workers : Execute(w, i, b, known)
      PROVE  Safe'
  BY <1>1, <1>3, RequestSafe
<1>4. ASSUME NEW w \in Workers, NEW i \in Intents, Poll(w, i) PROVE Safe'
  BY <1>1, <1>4, RequestSafe
<1>5. ASSUME NEW w \in Workers, ExecuteStep(w) \/ DriveStep(w) \/ Abandon(w) PROVE Safe'
  BY <1>1, <1>5, ExecuteSafe, DriveMoves, DriveReads, DriveWrites, ChainSafe DEF DriveStep
<1>6. ASSUME NEW i \in Intents, MinePayment(i) PROVE Safe'
  BY <1>1, <1>6, ChainSafe
<1>7. ASSUME NEW b \in Burns, Attest(b) \/ MineMint(b) PROVE Safe'
  BY <1>1, <1>7, ChainSafe
<1>8. QED
  BY <1>1, <1>2, <1>3, <1>4, <1>5, <1>6, <1>7 DEF Next

LEMMA SafeMeans == Safe => TypeOK /\ FulfilledIsPaid /\ SettledIsMinted /\ CreditedIsPaid
<1>1. SUFFICES ASSUME Safe
               PROVE  TypeOK /\ FulfilledIsPaid /\ SettledIsMinted /\ CreditedIsPaid
  OBVIOUS
<1>2. FulfilledIsPaid
  BY <1>1 DEF Safe, TrueRecord, FulfilledIsPaid
<1>3. SettledIsMinted
  BY <1>1, TurboAssumption DEF Safe, TrueRecord, SettledIsMinted, TurboAssumption
<1>4. CreditedIsPaid
  BY <1>1 DEF Safe, Credited, CreditedIsPaid
<1>5. QED
  BY <1>1, <1>2, <1>3, <1>4 DEF Safe

LEMMA AlwaysSafe == Spec => []Safe
  BY InitSafe, StepSafe, PTL DEF Spec

\* The types of the records, copies and jobs are right in every reachable state.
THEOREM TypeCorrect == Spec => []TypeOK
  BY AlwaysSafe, SafeMeans, PTL

\* Whatever writes whatever copy of a record, fulfilled means that the Vault paid.
THEOREM FulfilmentIsPayment == Spec => []FulfilledIsPaid
  BY AlwaysSafe, SafeMeans, PTL

\* Whatever fails and however stale the copies, settled means that the burn the
\* record names was minted.
THEOREM SettlementIsMint == Spec => []SettledIsMinted
  BY AlwaysSafe, SafeMeans, PTL

\* A credit in the ledger is of an intent that was paid, after a mint.
THEOREM CreditIsPaid == Spec => []CreditedIsPaid
  BY AlwaysSafe, SafeMeans, PTL

-------------------------------------------------------------------------------
(* An intent executed once: its execution is over before anything settles it,  *)
(* and every copy that is written back agrees with the record.                 *)

CopySteps == (Steps \ ExecuteSteps) \ {"drive"}

Agrees(c, r) ==
    c.fulfilledAt = r.fulfilledAt /\ c.burn = r.burn /\ c.domain = r.domain

Unpaid(r) == ~r.fulfilledAt /\ r.status \notin {"Fulfilled", "Settled"}

OnceFor(i) ==
    /\ executes[i] = 0 => Unpaid(record[i]) /\ \A w \in Workers : job[w].intent # i
    /\ executes[i] = 1 => \A w \in Workers : job[w].intent = i =>
          /\ job[w].step \in ExecuteSteps =>
                /\ Unpaid(record[i]) /\ Unpaid(job[w].copy)
                /\ \A x \in Workers \ {w} : job[x].intent # i
          /\ job[w].step \in CopySteps => Agrees(job[w].copy, record[i])

Once == Safe /\ \A i \in Intents : OnceFor(i)

LEMMA InitOnce == Init => Once
<1>1. SUFFICES ASSUME Init PROVE Once
  OBVIOUS
<1>2. Safe
  BY <1>1, InitSafe
<1>3. ASSUME NEW i \in Intents PROVE OnceFor(i)
  <2>1. executes[i] = 0 /\ record[i] = NoRecord
    BY <1>1 DEF Init
  <2>2. Unpaid(NoRecord)
    BY DEF Unpaid, NoRecord, NewRecord
  <2>3. \A w \in Workers : job[w].intent = None
    BY <1>1 DEF Init, Idle
  <2>4. None # i
    BY TurboAssumption DEF TurboAssumption
  <2>5. QED
    BY <2>1, <2>2, <2>3, <2>4 DEF OnceFor
<1>4. QED
  BY <1>2, <1>3 DEF Once

\* What a settlement step does to the record of its intent and to its own copy.
LEMMA DriveShape ==
    ASSUME Safe, NEW w \in Workers, DriveStep(w),
           job[w].step = "drive" \/ Agrees(job[w].copy, record[job[w].intent])
    PROVE  /\ job[w].step \in Steps \ ExecuteSteps /\ job[w].intent \in Intents
           /\ executes' = executes
           /\ \A x \in Workers \ {w} : job'[x] = job[x]
           /\ \A i \in Intents \ {job[w].intent} : record'[i] = record[i]
           /\ Agrees(record'[job[w].intent], record[job[w].intent])
           /\ \/ job'[w] = Idle
              \/ /\ job'[w].intent = job[w].intent /\ job'[w].step \in CopySteps
                 /\ Agrees(job'[w].copy, record[job[w].intent])
<1> DEFINE k == job[w].intent
           c == job[w].copy
<1>1. TypeOK
  BY DEF Safe
<1>2. job[w].step \in Steps \ ExecuteSteps
  BY DEF DriveStep, DriveEnds, DriveStarts, Start, Note, AttestationPending,
         AttestationComplete, MarkAttested, Nonce, MintMined, MintReverted, MintUnseen,
         MintFails, Settle, Credit, At, Steps, ExecuteSteps
<1>3. job[w].step # "idle"
  BY <1>2 DEF Steps
<1>4. k \in Intents /\ c \in Records /\ job[w] \in Jobs /\ record[k] \in Records
  BY <1>3, AtWork
<1>5. Agrees(record[k], record[k])
  BY DEF Agrees
<1>6. ASSUME NEW r \in Records, Persist(w, r), Agrees(r, record[k])
      PROVE  /\ executes' = executes
             /\ \A i \in Intents \ {k} : record'[i] = record[i]
             /\ Agrees(record'[k], record[k])
  <2>1. /\ \A i \in Intents : record'[i] = record[i] \/ (i = k /\ record'[i] = r)
        /\ executes' = executes
    BY <1>1, <1>4, <1>6, PersistDoes
  <2>2. QED
    BY <1>4, <1>5, <1>6, <2>1
<1>7. ASSUME NEW step \in CopySteps, Goto(w, step), Agrees(c, record[k])
      PROVE  /\ \A x \in Workers \ {w} : job'[x] = job[x]
             /\ job'[w].intent = k /\ job'[w].step \in CopySteps
             /\ Agrees(job'[w].copy, record[k])
  <2>1. step \in Steps
    BY DEF CopySteps
  <2>2. /\ job'[w] = [job[w] EXCEPT !.step = step]
        /\ \A x \in Workers \ {w} : job'[x] = job[x]
    BY <1>1, <1>7, <2>1, GotoDoes
  <2>3. job'[w].intent = k /\ job'[w].step = step /\ job'[w].copy = c
    BY <1>4, <2>2 DEF Jobs
  <2>4. QED
    BY <1>7, <2>2, <2>3
<1>8. ASSUME NEW step \in CopySteps, NEW r \in Records, With(w, step, r), Agrees(r, record[k])
      PROVE  /\ \A x \in Workers \ {w} : job'[x] = job[x]
             /\ job'[w].intent = k /\ job'[w].step \in CopySteps
             /\ Agrees(job'[w].copy, record[k])
  <2>1. step \in Steps
    BY DEF CopySteps
  <2>2. /\ job'[w] = [job[w] EXCEPT !.step = step, !.copy = r]
        /\ \A x \in Workers \ {w} : job'[x] = job[x]
    BY <1>1, <1>8, <2>1, WithDoes
  <2>3. job'[w].intent = k /\ job'[w].step = step /\ job'[w].copy = r
    BY <1>4, <2>2 DEF Jobs
  <2>4. QED
    BY <1>8, <2>2, <2>3
<1>9. Fault \/ UNCHANGED bounds => executes' = executes
  BY DEF Fault, bounds
<1>10. Done(w) => job'[w] = Idle /\ \A x \in Workers \ {w} : job'[x] = job[x]
  BY <1>1, DoneDoes
<1>11. /\ {"start", "poll", "attested", "nonce", "mint", "settle", "credit", "note"} \subseteq CopySteps
       /\ "drive" \notin CopySteps
  BY DEF CopySteps, Steps, ExecuteSteps
<1>12. CASE DriveEnds(w) \/ Credit(w)
  BY <1>2, <1>4, <1>5, <1>9, <1>10, <1>12 DEF DriveEnds, Credit
<1>13. CASE DriveStarts(w)
  <2> DEFINE step == IF record[k].burn = None \/ ~record[k].domain THEN "note"
                     ELSE IF record[k].started THEN "poll" ELSE "start"
  <2>1. With(w, step, record[k]) /\ UNCHANGED <<record, bounds>>
    BY <1>13 DEF DriveStarts
  <2>2. step \in CopySteps
    BY <1>11
  <2>3. QED
    BY <1>2, <1>4, <1>5, <1>8, <1>9, <2>1, <2>2
<1>14. CASE AttestationPending(w) \/ Nonce(w) \/ MintMined(w) \/ MintReverted(w)
            \/ MintUnseen(w) \/ MintFails(w)
  <2>1. /\ UNCHANGED record /\ executes' = executes /\ Agrees(c, record[k])
    BY <1>9, <1>14 DEF AttestationPending, Nonce, MintMined, MintReverted, MintUnseen,
                       MintFails, At
  <2>2. Goto(w, "note") \/ Goto(w, "settle") \/ Goto(w, "mint")
    BY <1>14 DEF AttestationPending, Nonce, MintMined, MintReverted, MintUnseen, MintFails
  <2>3. QED
    BY <1>2, <1>4, <1>5, <1>7, <1>11, <2>1, <2>2
<1>15. CASE AttestationComplete(w)
  <2> DEFINE q == [c EXCEPT !.attestationAt = TRUE]
  <2>1. UNCHANGED record /\ executes' = executes /\ Agrees(c, record[k])
    BY <1>9, <1>15 DEF AttestationComplete, At
  <2>2. q \in Records /\ Agrees(q, record[k])
    BY <1>4, <2>1 DEF Records, Agrees
  <2>3. Goto(w, "nonce") \/ With(w, "attested", q)
    BY <1>15 DEF AttestationComplete
  <2>4. QED
    BY <1>2, <1>4, <1>5, <1>7, <1>8, <1>11, <2>1, <2>2, <2>3
<1>16. CASE Start(w)
  <2> DEFINE q == [c EXCEPT !.started = TRUE]
  <2>1. Persist(w, q) /\ With(w, "poll", q) /\ Agrees(c, record[k])
    BY <1>16 DEF Start, At
  <2>2. q \in Records /\ Agrees(q, record[k])
    BY <1>4, <2>1 DEF Records, Agrees
  <2>3. QED
    BY <1>2, <1>4, <1>6, <1>8, <1>11, <2>1, <2>2
<1>17. CASE Note(w)
  BY <1>2, <1>4, <1>6, <1>10, <1>17 DEF Note, At
<1>18. CASE MarkAttested(w)
  BY <1>2, <1>4, <1>6, <1>7, <1>11, <1>18 DEF MarkAttested, At
<1>19. CASE Settle(w)
  <2> DEFINE q == Reimbursed(c)
  <2>1. Persist(w, q) /\ With(w, "credit", q) /\ Agrees(c, record[k])
    BY <1>19 DEF Settle, At
  <2>2. q \in Records /\ Agrees(q, record[k])
    BY <1>4, <2>1, ValueTypes DEF Reimbursed, Records, Agrees
  <2>3. QED
    BY <1>2, <1>4, <1>6, <1>8, <1>11, <2>1, <2>2
<1>20. QED
  BY <1>12, <1>13, <1>14, <1>15, <1>16, <1>17, <1>18, <1>19 DEF DriveStep

\* What a step of a worker leaves alone: other workers and other intents.
LEMMA OthersUntouched ==
    ASSUME Safe, NEW w \in Workers, ExecuteStep(w) \/ DriveStep(w) \/ Abandon(w)
    PROVE  /\ job[w].intent \in Intents /\ job[w].step # "idle"
           /\ executes' = executes
           /\ \A x \in Workers \ {w} : job'[x] = job[x]
           /\ \A i \in Intents \ {job[w].intent} : record'[i] = record[i]
           /\ job'[w].intent \in {job[w].intent, None}
<1> DEFINE k == job[w].intent
<1>1. TypeOK
  BY DEF Safe
<1>2. job[w].step # "idle"
  BY <1>1 DEF ExecuteStep, MarkExecuting, Skip, Precheck, PayMined, PayReverted, PayUnseen,
              MarkFulfilled, DriveStep, DriveEnds, DriveStarts, Start, Note,
              AttestationPending, AttestationComplete, MarkAttested, Nonce, MintMined,
              MintReverted, MintUnseen, MintFails, Settle, Credit, At, Abandon
<1>3. k \in Intents
  BY <1>2, AtWork
<1>4. Fault \/ UNCHANGED bounds => executes' = executes
  BY DEF Fault, bounds
<1>5. executes' = executes
  BY <1>4 DEF ExecuteStep, MarkExecuting, Skip, Precheck, PayMined, PayReverted, PayUnseen,
              MarkFulfilled, DriveStep, DriveEnds, DriveStarts, Start, Note,
              AttestationPending, AttestationComplete, MarkAttested, Nonce, MintMined,
              MintReverted, MintUnseen, MintFails, Settle, Credit, Persist, Abandon
<1>6. \A i \in Intents \ {k} : record'[i] = record[i]
  <2>1. ASSUME NEW r, Persist(w, r) PROVE \A i \in Intents \ {k} : record'[i] = record[i]
    BY <1>1, <2>1 DEF Persist, TypeOK
  <2>2. UNCHANGED record \/ \E r : Persist(w, r)
    BY DEF ExecuteStep, MarkExecuting, Skip, Precheck, PayMined, PayReverted, PayUnseen,
           MarkFulfilled, DriveStep, DriveEnds, DriveStarts, Start, Note,
           AttestationPending, AttestationComplete, MarkAttested, Nonce, MintMined,
           MintReverted, MintUnseen, MintFails, Settle, Credit, Abandon
  <2>3. QED
    BY <2>1, <2>2
<1>7. ASSUME NEW step, Goto(w, step)
      PROVE  /\ \A x \in Workers \ {w} : job'[x] = job[x]
             /\ job'[w].intent = k
  BY <1>1, <1>7 DEF Goto, TypeOK, Jobs
<1>8. ASSUME NEW step, NEW r, With(w, step, r)
      PROVE  /\ \A x \in Workers \ {w} : job'[x] = job[x]
             /\ job'[w].intent = k
  BY <1>1, <1>8 DEF With, TypeOK, Jobs
<1>9. Done(w) \/ job' = [job EXCEPT ![w] = Drive(k)] =>
        /\ \A x \in Workers \ {w} : job'[x] = job[x]
        /\ job'[w].intent \in {k, None}
  BY <1>1, <1>3, ValueTypes DEF Done, TypeOK, Idle
<1>10. \/ \E step : Goto(w, step)
       \/ \E step, r : With(w, step, r)
       \/ Done(w) \/ job' = [job EXCEPT ![w] = Drive(k)]
  <2>1. CASE ExecuteStep(w)
    BY <2>1 DEF ExecuteStep, MarkExecuting, Skip, Precheck, PayMined, PayReverted, PayUnseen,
                MarkFulfilled
  <2>2. CASE DriveStep(w)
    BY <2>2 DEF DriveStep, DriveEnds, DriveStarts, Start, Note,
                AttestationPending, AttestationComplete, MarkAttested, Nonce, MintMined,
                MintReverted, MintUnseen, MintFails, Settle, Credit
  <2>3. QED
    BY <2>1, <2>2 DEF Abandon
<1>11. QED
  BY <1>2, <1>3, <1>5, <1>6, <1>7, <1>8, <1>9, <1>10

\* What a step of the execution does to an intent that is not known to be paid.
LEMMA ExecuteShape ==
    ASSUME Safe, NEW w \in Workers, ExecuteStep(w),
           Unpaid(record[job[w].intent]), Unpaid(job[w].copy)
    PROVE  /\ job[w].step \in ExecuteSteps
           /\ \/ job'[w] \in {Idle, Drive(job[w].intent)}
              \/ /\ Unpaid(record'[job[w].intent])
                 /\ job'[w].step \in ExecuteSteps /\ Unpaid(job'[w].copy)
<1> DEFINE k == job[w].intent
           c == job[w].copy
<1>1. TypeOK
  BY DEF Safe
<1>2. job[w].step \in ExecuteSteps
  BY DEF ExecuteStep, MarkExecuting, Skip, Precheck, PayMined, PayReverted, PayUnseen,
         MarkFulfilled, At, ExecuteSteps
<1>3. job[w].step # "idle"
  BY <1>2 DEF ExecuteSteps
<1>4. k \in Intents /\ c \in Records /\ job[w] \in Jobs /\ record[k] \in Records
  BY <1>3, AtWork
<1>5. CASE MarkExecuting(w)
  <2> DEFINE r == Executing(c)
  <2>1. Persist(w, r) /\ With(w, "precheck", r)
    BY <1>5 DEF MarkExecuting
  <2>2. r \in Records /\ Unpaid(r)
    BY <1>4, ValueTypes DEF Executing, Unpaid, Records
  <2>3. record'[k] \in {record[k], r}
    BY <1>1, <1>4, <2>1, <2>2, PersistDoes
  <2>4. job'[w] = [job[w] EXCEPT !.step = "precheck", !.copy = r]
    <3>1. "precheck" \in Steps
      BY DEF Steps
    <3>2. QED
      BY <1>1, <2>1, <2>2, <3>1, WithDoes
  <2>5. job'[w].step = "precheck" /\ job'[w].copy = r
    BY <1>4, <2>4 DEF Jobs
  <2>6. QED
    BY <1>2, <2>2, <2>3, <2>5 DEF ExecuteSteps
<1>6. CASE Precheck(w) \/ PayMined(w)
  <2>1. UNCHANGED record /\ (Goto(w, "pay") \/ Goto(w, "fulfilled"))
    BY <1>6 DEF Precheck, PayMined
  <2>2. job'[w].step \in {"pay", "fulfilled"} /\ job'[w].copy = c
    BY <1>1, <1>4, <2>1 DEF Goto, TypeOK, Jobs
  <2>3. QED
    BY <1>2, <2>1, <2>2 DEF ExecuteSteps
<1>7. CASE Skip(w) \/ PayReverted(w) \/ PayUnseen(w)
  BY <1>1, <1>2, <1>7, DoneDoes DEF Skip, PayReverted, PayUnseen
<1>8. CASE MarkFulfilled(w)
  BY <1>1, <1>2, <1>8, DoneDoes DEF MarkFulfilled, TypeOK
<1>9. QED
  BY <1>5, <1>6, <1>7, <1>8 DEF ExecuteStep

LEMMA WorkerOnce ==
    ASSUME Once, NEW w \in Workers, ExecuteStep(w) \/ DriveStep(w) \/ Abandon(w),
           NEW i \in Intents
    PROVE  OnceFor(i)' /\ (executes'[i] = 1 /\ record[i].fulfilledAt => Agrees(record'[i], record[i]))
<1> DEFINE k == job[w].intent
<1>1. Safe /\ TypeOK /\ OnceFor(i)
  BY DEF Once, Safe
<1>2. /\ k \in Intents /\ job[w].step # "idle"
      /\ executes' = executes
      /\ \A x \in Workers \ {w} : job'[x] = job[x]
      /\ \A q \in Intents \ {k} : record'[q] = record[q]
      /\ job'[w].intent \in {k, None}
  BY <1>1, OthersUntouched
<1>3. None # i /\ Idle.intent = None /\ Idle.step = "idle"
  BY ValueTypes, TurboAssumption DEF TurboAssumption, Idle
<1>4. CASE i # k
  <2>1. record'[i] = record[i] /\ executes'[i] = executes[i]
    BY <1>2, <1>4
  <2>2. \A x \in Workers : job'[x].intent = i => x # w /\ job'[x] = job[x]
    BY <1>2, <1>3, <1>4
  <2>3. \A x \in Workers : job[x].intent # i => job'[x].intent # i
    BY <1>2, <1>3, <1>4
  <2>4. OnceFor(i)'
    BY <1>1, <2>1, <2>2, <2>3 DEF OnceFor
  <2>5. Agrees(record'[i], record[i])
    BY <2>1 DEF Agrees
  <2>6. QED
    BY <2>4, <2>5
<1>5. CASE i = k /\ executes[i] # 1
  <2>1. executes[i] # 0 /\ executes'[i] # 0 /\ executes'[i] # 1
    BY <1>1, <1>2, <1>5 DEF OnceFor
  <2>2. QED
    BY <2>1 DEF OnceFor
<1>6. CASE i = k /\ executes[i] = 1 /\ ExecuteStep(w)
  <2>1. job[w].step \in ExecuteSteps
    BY <1>6 DEF ExecuteStep, MarkExecuting, Skip, Precheck, PayMined, PayReverted, PayUnseen,
           MarkFulfilled, At, ExecuteSteps
  <2>2. /\ Unpaid(record[i]) /\ Unpaid(job[w].copy)
        /\ \A x \in Workers \ {w} : job[x].intent # i
    BY <1>1, <1>6, <2>1 DEF OnceFor
  <2>3. \/ job'[w] \in {Idle, Drive(i)}
        \/ /\ Unpaid(record'[i])
           /\ job'[w].step \in ExecuteSteps /\ Unpaid(job'[w].copy)
    BY <1>1, <1>6, <2>2, ExecuteShape
  <2>4. \A x \in Workers : job'[x].intent = i => x = w
    BY <1>2, <2>2
  <2>5. executes'[i] = 1
    BY <1>2, <1>6
  <2>6. Drive(i).step = "drive" /\ "drive" \notin ExecuteSteps \cup CopySteps
        /\ "idle" \notin ExecuteSteps \cup CopySteps
    BY ValueTypes DEF ExecuteSteps, CopySteps, Steps
  <2>7. ExecuteSteps \cap CopySteps = {}
    BY DEF ExecuteSteps, CopySteps
  <2>8. OnceFor(i)'
    BY <1>3, <2>3, <2>4, <2>5, <2>6, <2>7 DEF OnceFor
  <2>9. ~record[i].fulfilledAt
    BY <2>2 DEF Unpaid
  <2>10. QED
    BY <2>8, <2>9
<1>7. CASE i = k /\ executes[i] = 1 /\ DriveStep(w)
  <2>1. job[w].step \in Steps \ ExecuteSteps
    BY <1>7 DEF DriveStep, DriveEnds, DriveStarts, Start, Note, AttestationPending,
           AttestationComplete, MarkAttested, Nonce, MintMined, MintReverted, MintUnseen,
           MintFails, Settle, Credit, At, Steps, ExecuteSteps
  <2>2. job[w].step = "drive" \/ Agrees(job[w].copy, record[i])
    BY <1>1, <1>7, <2>1 DEF OnceFor, CopySteps
  <2>3. /\ Agrees(record'[i], record[i])
        /\ \/ job'[w] = Idle
           \/ /\ job'[w].intent = i /\ job'[w].step \in CopySteps
              /\ Agrees(job'[w].copy, record[i])
    BY <1>1, <1>7, <2>2, DriveShape
  <2>4. \A x \in Workers : job[x].intent = i => job[x].step \notin ExecuteSteps
    BY <1>1, <1>7, <2>1 DEF OnceFor
  <2>5. \A x \in Workers : job'[x].intent = i => job'[x].step \notin ExecuteSteps
    BY <1>2, <1>3, <2>3, <2>4 DEF CopySteps
  <2>6. \A x \in Workers : job'[x].intent = i /\ job'[x].step \in CopySteps =>
            Agrees(job'[x].copy, record[i])
    BY <1>1, <1>2, <1>3, <1>7, <2>3 DEF OnceFor
  <2>7. \A x \in Workers : job'[x].intent = i /\ job'[x].step \in CopySteps =>
            Agrees(job'[x].copy, record'[i])
    BY <2>3, <2>6 DEF Agrees
  <2>8. executes'[i] = 1
    BY <1>2, <1>7
  <2>9. OnceFor(i)'
    BY <2>5, <2>7, <2>8 DEF OnceFor
  <2>10. QED
    BY <2>3, <2>9
<1>8. CASE i = k /\ executes[i] = 1 /\ Abandon(w)
  <2>1. job'[w] = Idle /\ record' = record
    BY <1>1, <1>8, DoneDoes DEF Abandon
  <2>2. \A x \in Workers : job'[x].intent = i => x # w /\ job'[x] = job[x]
    BY <1>2, <1>3, <2>1
  <2>3. \A x \in Workers : job[x].intent # i => job'[x].intent # i
    BY <1>2, <1>3, <2>1
  <2>4. OnceFor(i)'
    BY <1>1, <1>2, <2>1, <2>2, <2>3 DEF OnceFor
  <2>5. QED
    BY <2>1, <2>4 DEF Agrees
<1>9. QED
  BY <1>4, <1>5, <1>6, <1>7, <1>8

LEMMA RequestOnce ==
    ASSUME Once, NEW k \in Intents, NEW b \in Burns \cup {None}, NEW known \in BOOLEAN,
           \/ CreateIntent(k, b, known)
           \/ \E w \in Workers : Execute(w, k, b, known) \/ Poll(w, k),
           NEW i \in Intents
    PROVE  OnceFor(i)' /\ (executes'[i] = 1 /\ record[i].fulfilledAt => Agrees(record'[i], record[i]))
<1>1. TypeOK /\ OnceFor(i) /\ OnceFor(k)
  BY DEF Once, Safe
<1>2. CASE CreateIntent(k, b, known)
  <2>1. /\ executes' = executes /\ job' = job /\ executes[k] = 0
        /\ record' = [record EXCEPT ![k] = NewRecord(b, known)]
    BY <1>2 DEF CreateIntent, bounds
  <2>2. Unpaid(NewRecord(b, known))
    BY DEF Unpaid, NewRecord
  <2>3. CASE i = k
    BY <1>1, <2>1, <2>2, <2>3 DEF OnceFor, TypeOK
  <2>4. CASE i # k
    BY <1>1, <2>1, <2>4 DEF OnceFor, TypeOK, Agrees
  <2>5. QED
    BY <2>3, <2>4
<1>3. ASSUME NEW w \in Workers, Execute(w, k, b, known)
      PROVE  OnceFor(i)' /\ (executes'[i] = 1 /\ record[i].fulfilledAt => Agrees(record'[i], record[i]))
  <2> DEFINE j == [step |-> "executing", intent |-> k, copy |-> record[k],
                   burn |-> b, domain |-> known]
  <2>1. /\ job'[w] = j /\ \A x \in Workers \ {w} : job'[x] = job[x]
        /\ record' = record
        /\ executes'[k] = executes[k] + 1
        /\ \A q \in Intents \ {k} : executes'[q] = executes[q]
    BY <1>1, <1>3 DEF Execute, TypeOK
  <2>2. Agrees(record'[i], record[i])
    BY <2>1 DEF Agrees
  <2>3. CASE i # k
    <3>1. \A x \in Workers : job'[x].intent = i => x # w /\ job'[x] = job[x]
      BY <2>1, <2>3
    <3>2. \A x \in Workers : job[x].intent # i => job'[x].intent # i
      BY <2>1, <2>3
    <3>3. OnceFor(i)'
      BY <1>1, <2>1, <2>3, <3>1, <3>2 DEF OnceFor
    <3>4. QED
      BY <2>2, <3>3
  <2>4. CASE i = k
    <3>1. executes[k] \in Nat
      BY <1>1, TurboAssumption DEF TypeOK, TurboAssumption
    <3>2. executes'[i] # 0 /\ (executes'[i] = 1 => executes[i] = 0)
      BY <2>1, <2>4, <3>1
    <3>3. executes'[i] = 1 => /\ Unpaid(record'[i])
                              /\ \A x \in Workers : job'[x].intent = i => x = w
      BY <1>1, <2>1, <2>4, <3>2 DEF OnceFor
    <3>4. j.step \in ExecuteSteps /\ j.step \notin CopySteps /\ j.copy = record'[i]
      BY <2>1, <2>4 DEF ExecuteSteps, CopySteps
    <3>5. OnceFor(i)'
      BY <2>1, <3>2, <3>3, <3>4 DEF OnceFor
    <3>6. QED
      BY <2>2, <3>5
  <2>5. QED
    BY <2>3, <2>4
<1>4. ASSUME NEW w \in Workers, Poll(w, k)
      PROVE  OnceFor(i)' /\ (executes'[i] = 1 /\ record[i].fulfilledAt => Agrees(record'[i], record[i]))
  <2>1. /\ job'[w] = Drive(k) /\ \A x \in Workers \ {w} : job'[x] = job[x]
        /\ record' = record /\ executes' = executes
        /\ record[k].status \in {"Fulfilled", "Settled"}
    BY <1>1, <1>4 DEF Poll, TypeOK, bounds, Resumable
  <2>2. ~Unpaid(record[k])
    BY <2>1 DEF Unpaid
  <2>3. /\ job'[w].intent = k /\ job'[w].step = "drive"
        /\ "drive" \notin ExecuteSteps \cup CopySteps
    BY <2>1, ValueTypes DEF ExecuteSteps, CopySteps
  <2>4. \A x \in Workers : job'[x].intent = i /\ job'[x].step # "drive" =>
            x # w /\ job'[x] = job[x]
    BY <2>1, <2>3
  <2>5. CASE i = k
    <3>1. executes[i] # 0
      BY <1>1, <2>2, <2>5 DEF OnceFor
    <3>2. executes[i] = 1 => \A x \in Workers : job[x].intent = i => job[x].step \notin ExecuteSteps
      BY <1>1, <2>2, <2>5 DEF OnceFor
    <3>3. executes[i] = 1 => \A x \in Workers : job'[x].intent = i =>
              /\ job'[x].step \notin ExecuteSteps
              /\ job'[x].step \in CopySteps => Agrees(job'[x].copy, record'[i])
      BY <1>1, <2>1, <2>3, <2>4, <3>2 DEF OnceFor
    <3>4. OnceFor(i)'
      BY <2>1, <3>1, <3>3 DEF OnceFor
    <3>5. QED
      BY <2>1, <3>4 DEF Agrees
  <2>6. CASE i # k
    <3>1. \A x \in Workers : job'[x].intent = i => x # w /\ job'[x] = job[x]
      BY <2>1, <2>3, <2>6
    <3>2. \A x \in Workers : job[x].intent # i => job'[x].intent # i
      BY <2>1, <2>3, <2>6
    <3>3. OnceFor(i)'
      BY <1>1, <2>1, <3>1, <3>2 DEF OnceFor
    <3>4. QED
      BY <2>1, <3>3 DEF Agrees
  <2>7. QED
    BY <2>5, <2>6
<1>5. QED
  BY <1>2, <1>3, <1>4

LEMMA StepOnce ==
    ASSUME Once, [Next]_vars
    PROVE  /\ Once'
           /\ \A i \in Intents : executes'[i] = 1 /\ record[i].fulfilledAt =>
                  Agrees(record'[i], record[i])
<1> DEFINE Goal == \A i \in Intents :
        OnceFor(i)' /\ (executes'[i] = 1 /\ record[i].fulfilledAt => Agrees(record'[i], record[i]))
<1>1. Safe'
  BY StepSafe DEF Once
<1>2. ASSUME UNCHANGED <<record, job, executes>> PROVE Goal
  BY <1>2 DEF Once, OnceFor, Agrees
<1>3. ASSUME UNCHANGED vars PROVE Goal
  BY <1>2, <1>3 DEF vars, bounds
<1>4. ASSUME NEW k \in Intents, NEW b \in Burns \cup {None}, NEW known \in BOOLEAN,
             CreateIntent(k, b, known) \/ \E w \in Workers : Execute(w, k, b, known)
      PROVE  Goal
  BY <1>4, RequestOnce
<1>5. ASSUME NEW w \in Workers, NEW k \in Intents, Poll(w, k) PROVE Goal
  BY <1>5, RequestOnce
<1>6. ASSUME NEW w \in Workers, ExecuteStep(w) \/ DriveStep(w) \/ Abandon(w) PROVE Goal
  BY <1>6, WorkerOnce
<1>7. ASSUME NEW k \in Intents, MinePayment(k) PROVE Goal
  BY <1>2, <1>7 DEF MinePayment, bounds
<1>8. ASSUME NEW b \in Burns, Attest(b) \/ MineMint(b) PROVE Goal
  BY <1>2, <1>8 DEF Attest, MineMint, bounds
<1>9. Goal
  BY <1>3, <1>4, <1>5, <1>6, <1>7, <1>8 DEF Next
<1>10. QED
  BY <1>1, <1>9 DEF Once

\* While an intent is executed only once, no stale write of its record takes back
\* the payment, the burn or the chain.
THEOREM FulfilmentIsForGood == Spec => FulfilledForGood
<1>1. ASSUME Once, [Next]_vars
      PROVE  [\A i \in Intents :
                 record[i].fulfilledAt /\ executes'[i] = 1 =>
                     /\ record'[i].fulfilledAt
                     /\ record'[i].burn = record[i].burn
                     /\ record'[i].domain = record[i].domain]_vars
  BY <1>1, StepOnce DEF Agrees
<1>2. ASSUME Once, [Next]_vars PROVE Once'
  BY <1>2, StepOnce
<1>3. QED
  BY <1>1, <1>2, InitOnce, PTL DEF Spec, FulfilledForGood
-------------------------------------------------------------------------------
(* An intent executed once, whose burn is attested: however the polls' writes  *)
(* fall, it is reimbursed or the next poll takes it up.                        *)

Known(r) == r.status \in {"Fulfilled", "Settled"}

\* Until the record says that the user was paid only one worker has the intent,
\* the one that executes it; from then on every copy says it too.
WayFor(i) == executes[i] = 1 =>
    /\ ~Known(record[i]) =>
          \A x, y \in Workers : job[x].intent = i /\ job[y].intent = i => x = y
    /\ Known(record[i]) =>
          \A x \in Workers : job[x].intent = i /\ job[x].step \in CopySteps => Known(job[x].copy)

Way == Once /\ \A i \in Intents : WayFor(i)

\* What a settlement step does to the status, of the record and of its own copy.
LEMMA DriveStatus ==
    ASSUME Safe, NEW w \in Workers, DriveStep(w)
    PROVE  LET k == job[w].intent IN
           /\ Known(record[k]) /\ (job[w].step = "drive" \/ Known(job[w].copy)) =>
                 Known(record'[k]) /\ (job'[w] = Idle \/ Known(job'[w].copy))
           /\ ~Known(record[k]) /\ Known(record'[k]) => job'[w] = Idle \/ Known(job'[w].copy)
<1> DEFINE k == job[w].intent
           c == job[w].copy
<1>1. TypeOK /\ k \in Intents /\ job[w].step # "idle"
  BY OthersUntouched DEF Safe
<1>2. c \in Records /\ job[w] \in Jobs /\ record[k] \in Records
  BY <1>1, AtWork
<1>3. ASSUME NEW r \in Records, Persist(w, r)
      PROVE  record'[k] = record[k] \/ record'[k] = r
  BY <1>1, <1>3, PersistDoes
<1>4. ASSUME NEW step \in Steps, Goto(w, step) PROVE job'[w].copy = c
  BY <1>1, <1>2, <1>4, GotoDoes DEF Jobs
<1>5. ASSUME NEW step \in Steps, NEW r \in Records, With(w, step, r) PROVE job'[w].copy = r
  <2>1. TypeOK
    BY <1>1
  <2>2. /\ job'[w] = [job[w] EXCEPT !.step = step, !.copy = r]
        /\ \A x \in Workers \ {w} : job'[x] = job[x]
    BY <1>5, <2>1, WithDoes
  <2>3. QED
    BY <1>2, <2>2 DEF Jobs
<1>6. Done(w) => job'[w] = Idle
  BY <1>1, DoneDoes
<1>7. {"start", "poll", "attested", "nonce", "mint", "settle", "credit", "note"} \subseteq Steps
  BY DEF Steps
<1>8. CASE DriveEnds(w) \/ Credit(w)
  BY <1>6, <1>8 DEF DriveEnds, Credit
<1>9. CASE DriveStarts(w)
  <2> DEFINE step == IF record[k].burn = None \/ ~record[k].domain THEN "note"
                     ELSE IF record[k].started THEN "poll" ELSE "start"
  <2>1. With(w, step, record[k]) /\ UNCHANGED record
    BY <1>9 DEF DriveStarts
  <2>2. job'[w].copy = record[k]
    BY <1>2, <1>5, <1>7, <2>1
  <2>3. QED
    BY <2>1, <2>2
<1>10. CASE AttestationPending(w) \/ Nonce(w) \/ MintMined(w) \/ MintReverted(w)
            \/ MintUnseen(w) \/ MintFails(w)
  <2>1. UNCHANGED record /\ job[w].step # "drive"
    BY <1>10 DEF AttestationPending, Nonce, MintMined, MintReverted, MintUnseen, MintFails, At
  <2>2. Goto(w, "note") \/ Goto(w, "settle") \/ Goto(w, "mint")
    BY <1>10 DEF AttestationPending, Nonce, MintMined, MintReverted, MintUnseen, MintFails
  <2>3. job'[w].copy = c
    BY <1>4, <1>7, <2>2
  <2>4. QED
    BY <2>1, <2>3
<1>11. CASE AttestationComplete(w)
  <2> DEFINE q == [c EXCEPT !.attestationAt = TRUE]
  <2>1. UNCHANGED record /\ job[w].step # "drive"
    BY <1>11 DEF AttestationComplete, At
  <2>2. q \in Records /\ (Known(q) <=> Known(c))
    BY <1>2 DEF Records, Known
  <2>3. Goto(w, "nonce") \/ With(w, "attested", q)
    BY <1>11 DEF AttestationComplete
  <2>4. job'[w].copy = c \/ job'[w].copy = q
    BY <1>4, <1>5, <1>7, <2>2, <2>3
  <2>5. QED
    BY <2>1, <2>2, <2>4
<1>12. CASE Start(w)
  <2> DEFINE q == [c EXCEPT !.started = TRUE]
  <2>1. Persist(w, q) /\ With(w, "poll", q) /\ job[w].step # "drive"
    BY <1>12 DEF Start, At
  <2>2. q \in Records /\ (Known(q) <=> Known(c))
    BY <1>2 DEF Records, Known
  <2>3. job'[w].copy = q /\ (record'[k] = record[k] \/ record'[k] = q)
    BY <1>3, <1>5, <1>7, <2>1, <2>2
  <2>4. QED
    BY <2>1, <2>2, <2>3
<1>13. CASE Note(w)
  <2>1. Persist(w, c) /\ Done(w) /\ job[w].step # "drive"
    BY <1>13 DEF Note, At
  <2>2. QED
    BY <1>2, <1>3, <1>6, <2>1
<1>14. CASE MarkAttested(w)
  <2>1. Persist(w, c) /\ Goto(w, "nonce") /\ job[w].step # "drive"
    BY <1>14 DEF MarkAttested, At
  <2>2. job'[w].copy = c /\ (record'[k] = record[k] \/ record'[k] = c)
    BY <1>2, <1>3, <1>4, <1>7, <2>1
  <2>3. QED
    BY <2>1, <2>2
<1>15. CASE Settle(w)
  <2> DEFINE q == Reimbursed(c)
  <2>1. Persist(w, q) /\ With(w, "credit", q)
    BY <1>15 DEF Settle
  <2>2. q \in Records /\ Known(q)
    BY <1>2, ValueTypes DEF Reimbursed, Records, Known
  <2>3. job'[w].copy = q /\ (record'[k] = record[k] \/ record'[k] = q)
    BY <1>3, <1>5, <1>7, <2>1, <2>2
  <2>4. QED
    BY <2>2, <2>3
<1>16. QED
  BY <1>8, <1>9, <1>10, <1>11, <1>12, <1>13, <1>14, <1>15 DEF DriveStep

LEMMA InitWay == Init => Way
<1>1. Init => \A i \in Intents : executes[i] = 0
  BY DEF Init
<1>2. QED
  BY <1>1, InitOnce DEF Way, WayFor

LEMMA WorkerWay ==
    ASSUME Way, NEW w \in Workers, ExecuteStep(w) \/ DriveStep(w) \/ Abandon(w),
           NEW i \in Intents
    PROVE  /\ WayFor(i)'
           /\ executes'[i] = 1 /\ Known(record[i]) =>
                 Known(record'[i]) /\ Agrees(record'[i], record[i])
<1> DEFINE k == job[w].intent
<1>1. Once /\ Safe /\ TypeOK /\ OnceFor(i) /\ WayFor(i)
  BY DEF Way, Once, Safe
<1>2. /\ k \in Intents /\ job[w].step # "idle"
      /\ executes' = executes
      /\ \A x \in Workers \ {w} : job'[x] = job[x]
      /\ \A q \in Intents \ {k} : record'[q] = record[q]
      /\ job'[w].intent \in {k, None}
  BY <1>1, OthersUntouched
<1>3. None # i /\ Idle.intent = None /\ Idle.step = "idle"
  BY ValueTypes, TurboAssumption DEF TurboAssumption, Idle
<1>4. \A x \in Workers : job'[x].intent = i => job[x].intent = i
  BY <1>2, <1>3
<1>5. CASE i # k
  <2>1. record'[i] = record[i] /\ executes'[i] = executes[i]
    BY <1>2, <1>5
  <2>2. \A x \in Workers : job'[x].intent = i => x # w /\ job'[x] = job[x]
    BY <1>2, <1>3, <1>5
  <2>3. WayFor(i)'
    BY <1>1, <1>4, <2>1, <2>2 DEF WayFor
  <2>4. QED
    BY <2>1, <2>3 DEF Agrees
<1>6. CASE i = k /\ executes[i] # 1
  BY <1>2, <1>6 DEF WayFor
<1>7. CASE i = k /\ executes[i] = 1 /\ ExecuteStep(w)
  <2>1. job[w].step \in ExecuteSteps
    BY <1>7 DEF ExecuteStep, MarkExecuting, Skip, Precheck, PayMined, PayReverted, PayUnseen,
           MarkFulfilled, At, ExecuteSteps
  <2>2. /\ Unpaid(record[i]) /\ Unpaid(job[w].copy)
        /\ \A x \in Workers \ {w} : job[x].intent # i
    BY <1>1, <1>7, <2>1 DEF OnceFor
  <2>3. \/ job'[w] \in {Idle, Drive(i)}
        \/ Unpaid(record'[i])
    BY <1>1, <1>7, <2>2, ExecuteShape
  <2>4. \A x \in Workers : job'[x].intent = i => x = w
    BY <1>4, <2>2
  <2>5. Drive(i).step \notin CopySteps /\ Idle.step \notin CopySteps
    BY ValueTypes DEF CopySteps, Steps
  <2>6. Known(record'[i]) => job'[w].step \notin CopySteps
    BY <2>3, <2>5 DEF Unpaid, Known
  <2>7. WayFor(i)'
    BY <2>4, <2>6 DEF WayFor
  <2>8. ~Known(record[i])
    BY <2>2 DEF Unpaid, Known
  <2>9. QED
    BY <2>7, <2>8
<1>8. CASE i = k /\ executes[i] = 1 /\ DriveStep(w)
  <2>1. job[w].step \in Steps \ ExecuteSteps
    BY <1>8 DEF DriveStep, DriveEnds, DriveStarts, Start, Note, AttestationPending,
           AttestationComplete, MarkAttested, Nonce, MintMined, MintReverted, MintUnseen,
           MintFails, Settle, Credit, At, Steps, ExecuteSteps
  <2>2. job[w].step = "drive" \/ job[w].step \in CopySteps
    BY <2>1 DEF CopySteps
  <2>3. Agrees(record'[i], record[i])
    BY <1>1, <1>8, <2>2, DriveShape DEF OnceFor
  <2>4. CASE Known(record[i])
    <3>1. \A x \in Workers : job[x].intent = i /\ job[x].step \in CopySteps => Known(job[x].copy)
      BY <1>1, <1>8, <2>4 DEF WayFor
    <3>2. Known(record'[i]) /\ (job'[w] = Idle \/ Known(job'[w].copy))
      BY <1>1, <1>8, <2>2, <2>4, <3>1, DriveStatus
    <3>3. \A x \in Workers : job'[x].intent = i /\ job'[x].step \in CopySteps => Known(job'[x].copy)
      BY <1>2, <1>3, <3>1, <3>2
    <3>4. WayFor(i)'
      BY <3>2, <3>3 DEF WayFor
    <3>5. QED
      BY <2>3, <3>2, <3>4
  <2>5. CASE ~Known(record[i])
    <3>1. \A x, y \in Workers : job[x].intent = i /\ job[y].intent = i => x = y
      BY <1>1, <1>8, <2>5 DEF WayFor
    <3>2. \A x \in Workers : job'[x].intent = i => x = w
      BY <1>4, <1>8, <3>1
    <3>3. Known(record'[i]) => job'[w] = Idle \/ Known(job'[w].copy)
      BY <1>1, <1>8, <2>5, DriveStatus
    <3>4. Known(record'[i]) =>
            \A x \in Workers : job'[x].intent = i /\ job'[x].step \in CopySteps => Known(job'[x].copy)
      BY <1>3, <3>2, <3>3
    <3>5. WayFor(i)'
      BY <3>2, <3>4 DEF WayFor
    <3>6. QED
      BY <2>5, <3>5
  <2>6. QED
    BY <2>4, <2>5
<1>9. CASE i = k /\ executes[i] = 1 /\ Abandon(w)
  <2>1. job'[w] = Idle /\ record' = record
    BY <1>1, <1>9, DoneDoes DEF Abandon
  <2>2. \A x \in Workers : job'[x].intent = i => x # w /\ job'[x] = job[x]
    BY <1>2, <1>3, <2>1
  <2>3. WayFor(i)'
    BY <1>1, <1>2, <1>4, <2>1, <2>2 DEF WayFor
  <2>4. QED
    BY <2>1, <2>3 DEF Agrees
<1>10. QED
  BY <1>5, <1>6, <1>7, <1>8, <1>9

LEMMA RequestWay ==
    ASSUME Way, NEW k \in Intents, NEW b \in Burns \cup {None}, NEW known \in BOOLEAN,
           \/ CreateIntent(k, b, known)
           \/ \E w \in Workers : Execute(w, k, b, known) \/ Poll(w, k),
           NEW i \in Intents
    PROVE  /\ WayFor(i)'
           /\ executes'[i] = 1 /\ Known(record[i]) =>
                 Known(record'[i]) /\ Agrees(record'[i], record[i])
<1>1. TypeOK /\ OnceFor(i) /\ OnceFor(k) /\ WayFor(i)
  BY DEF Way, Once, Safe
<1>2. CASE CreateIntent(k, b, known)
  <2>1. /\ executes' = executes /\ job' = job /\ executes[k] = 0
        /\ \A q \in Intents \ {k} : record'[q] = record[q]
    BY <1>1, <1>2 DEF CreateIntent, bounds, TypeOK
  <2>2. CASE i = k
    BY <2>1, <2>2 DEF WayFor
  <2>3. CASE i # k
    BY <1>1, <2>1, <2>3 DEF WayFor, Agrees
  <2>4. QED
    BY <2>2, <2>3
<1>3. ASSUME NEW w \in Workers, Execute(w, k, b, known)
      PROVE  /\ WayFor(i)'
             /\ executes'[i] = 1 /\ Known(record[i]) =>
                   Known(record'[i]) /\ Agrees(record'[i], record[i])
  <2>1. /\ job'[w].intent = k /\ job'[w].step = "executing"
        /\ \A x \in Workers \ {w} : job'[x] = job[x]
        /\ record' = record
        /\ executes'[k] = executes[k] + 1
        /\ \A q \in Intents \ {k} : executes'[q] = executes[q]
    BY <1>1, <1>3 DEF Execute, TypeOK
  <2>2. Agrees(record'[i], record[i]) /\ (Known(record'[i]) <=> Known(record[i]))
    BY <2>1 DEF Agrees
  <2>3. CASE i # k
    <3>1. \A x \in Workers : job'[x].intent = i => x # w /\ job'[x] = job[x]
      BY <2>1, <2>3
    <3>2. WayFor(i)'
      BY <1>1, <2>1, <2>3, <3>1 DEF WayFor
    <3>3. QED
      BY <2>2, <3>2
  <2>4. CASE i = k
    <3>1. executes[k] \in Nat
      BY <1>1, TurboAssumption DEF TypeOK, TurboAssumption
    <3>2. executes'[i] = 1 => executes[i] = 0
      BY <2>1, <2>4, <3>1
    <3>3. executes'[i] = 1 => /\ ~Known(record'[i])
                              /\ \A x \in Workers : job'[x].intent = i => x = w
      BY <1>1, <2>1, <2>4, <3>2 DEF OnceFor, Unpaid, Known
    <3>4. WayFor(i)'
      BY <3>3 DEF WayFor
    <3>5. QED
      BY <2>2, <3>4
  <2>5. QED
    BY <2>3, <2>4
<1>4. ASSUME NEW w \in Workers, Poll(w, k)
      PROVE  /\ WayFor(i)'
             /\ executes'[i] = 1 /\ Known(record[i]) =>
                   Known(record'[i]) /\ Agrees(record'[i], record[i])
  <2>1. /\ job'[w] = Drive(k) /\ \A x \in Workers \ {w} : job'[x] = job[x]
        /\ record' = record /\ executes' = executes
        /\ Known(record[k])
    BY <1>1, <1>4 DEF Poll, TypeOK, bounds, Resumable, Known
  <2>2. job'[w].intent = k /\ job'[w].step \notin CopySteps
    BY <2>1, ValueTypes DEF CopySteps
  <2>3. \A x \in Workers : job'[x].intent = i /\ job'[x].step \in CopySteps =>
            x # w /\ job'[x] = job[x]
    BY <2>1, <2>2
  <2>4. CASE i = k
    BY <1>1, <2>1, <2>3, <2>4 DEF WayFor, Agrees
  <2>5. CASE i # k
    <3>1. \A x \in Workers : job'[x].intent = i => x # w /\ job'[x] = job[x]
      BY <2>1, <2>2, <2>5
    <3>2. WayFor(i)'
      BY <1>1, <2>1, <3>1 DEF WayFor
    <3>3. QED
      BY <2>1, <3>2 DEF Agrees
  <2>6. QED
    BY <2>4, <2>5
<1>5. QED
  BY <1>2, <1>3, <1>4

LEMMA StepWay ==
    ASSUME Way, [Next]_vars
    PROVE  /\ Way'
           /\ \A i \in Intents : executes'[i] = 1 /\ Known(record[i]) =>
                  Known(record'[i]) /\ Agrees(record'[i], record[i])
<1> DEFINE Goal == \A i \in Intents :
        /\ WayFor(i)'
        /\ executes'[i] = 1 /\ Known(record[i]) =>
              Known(record'[i]) /\ Agrees(record'[i], record[i])
<1>1. Once'
  BY StepOnce DEF Way
<1>2. ASSUME UNCHANGED <<record, job, executes>> PROVE Goal
  BY <1>2 DEF Way, WayFor, Agrees
<1>3. ASSUME UNCHANGED vars PROVE Goal
  BY <1>2, <1>3 DEF vars, bounds
<1>4. ASSUME NEW k \in Intents, NEW b \in Burns \cup {None}, NEW known \in BOOLEAN,
             CreateIntent(k, b, known) \/ \E w \in Workers : Execute(w, k, b, known)
      PROVE  Goal
  BY <1>4, RequestWay
<1>5. ASSUME NEW w \in Workers, NEW k \in Intents, Poll(w, k) PROVE Goal
  BY <1>5, RequestWay
<1>6. ASSUME NEW w \in Workers, ExecuteStep(w) \/ DriveStep(w) \/ Abandon(w) PROVE Goal
  BY <1>6, WorkerWay
<1>7. ASSUME NEW k \in Intents, MinePayment(k) PROVE Goal
  BY <1>2, <1>7 DEF MinePayment, bounds
<1>8. ASSUME NEW b \in Burns, Attest(b) \/ MineMint(b) PROVE Goal
  BY <1>2, <1>8 DEF Attest, MineMint, bounds
<1>9. Goal
  BY <1>3, <1>4, <1>5, <1>6, <1>7, <1>8 DEF Next
<1>10. QED
  BY <1>1, <1>9 DEF Way

\* Circle and the chain never take an attestation or a mint back.
LEMMA BurnsStay ==
    ASSUME TypeOK, [Next]_vars, NEW b \in Burns, burn[b] # "burnt"
    PROVE  burn'[b] # "burnt"
<1>1. \/ burn' = burn
      \/ \E u \in {"attested", "minted"} : \E c : burn' = [burn EXCEPT ![c] = u]
  BY DEF Next, ExecuteStep, MarkExecuting, Skip, Precheck, PayMined, PayReverted, PayUnseen,
         MarkFulfilled, DriveStep, DriveEnds, DriveStarts, Start, Note, AttestationPending,
         AttestationComplete, MarkAttested, Nonce, MintMined, MintReverted, MintUnseen,
         MintFails, Settle, Credit, Abandon, CreateIntent, Execute, Poll, MinePayment, Attest,
         MineMint, chains, vars
<1>2. QED
  BY <1>1 DEF TypeOK

\* The user was paid, and the record names what the reimbursement needs.  Such an
\* intent is settled, or Awaiting: a poll takes it up.
Recoverable(i) ==
    /\ Known(record[i]) /\ record[i].burn # None /\ record[i].domain
    /\ burn[record[i].burn] # "burnt"

\* The safety half of PollsReimburse: while an intent is executed only once, no write
\* of it, however stale, leaves it neither settled nor awaiting settlement, even
\* when it takes back that it was settled.
RecoverableForGood ==
    [][\A i \in Intents : Recoverable(i) /\ executes'[i] = 1 => Recoverable(i)']_vars

\* So an intent that awaits its settlement goes on awaiting it until it is settled.
AwaitedUntilSettled ==
    [][\A i \in Intents : Awaiting(i) /\ executes'[i] = 1 =>
          Awaiting(i)' \/ record'[i].settledAt]_vars

\* A settled record can be overwritten by a settlement that began earlier, but what
\* replaces it can be settled again: no interleaving of polls strands the money.
THEOREM RecoveryIsForGood == Spec => RecoverableForGood /\ AwaitedUntilSettled
<1> DEFINE StillAwaiting == \A i \in Intents :
               Awaiting(i) /\ executes'[i] = 1 => Awaiting(i)' \/ record'[i].settledAt
           StillRecoverable == \A i \in Intents :
               Recoverable(i) /\ executes'[i] = 1 => Recoverable(i)'
<1>1. ASSUME Way, [Next]_vars
      PROVE  StillRecoverable
  <2>1. SUFFICES ASSUME NEW i \in Intents, Recoverable(i), executes'[i] = 1 PROVE Recoverable(i)'
    OBVIOUS
  <2>2. Known(record'[i]) /\ Agrees(record'[i], record[i])
    BY <1>1, <2>1, StepWay DEF Recoverable
  <2>3. record'[i].burn = record[i].burn /\ record'[i].domain = record[i].domain
    BY <2>2 DEF Agrees
  <2>4. TypeOK /\ record[i].burn \in Burns
    BY <1>1, <2>1 DEF Way, Once, Safe, TypeOK, Records, Recoverable
  <2>5. burn'[record[i].burn] # "burnt"
    BY <1>1, <2>1, <2>4, BurnsStay DEF Recoverable
  <2>6. QED
    BY <2>1, <2>2, <2>3, <2>5 DEF Recoverable
<1>2. ASSUME NEW i \in Intents
      PROVE  /\ Awaiting(i) => Recoverable(i)
             /\ Recoverable(i)' => Awaiting(i)' \/ record'[i].settledAt
  BY DEF Awaiting, Recoverable, Resumable, Known
<1>3. ASSUME Way, [Next]_vars
      PROVE  [StillRecoverable]_vars /\ [StillAwaiting]_vars
  BY <1>1, <1>2, <1>3
<1>4. ASSUME Way, [Next]_vars PROVE Way'
  BY <1>4, StepWay
<1>5. QED
  BY <1>3, <1>4, InitWay, PTL DEF Spec, RecoverableForGood, AwaitedUntilSettled

===============================================================================
