----------------------------- MODULE TurboBridge -----------------------------
(***************************************************************************)
(* The Turbo bridge of Treasury Core: an intent is registered, executed    *)
(* (the operator pays the user from the Vault before the user's own funds  *)
(* have crossed) and settled (the user's burn is attested and its mint     *)
(* pays the Vault back).                                                   *)
(*                                                                         *)
(* The record of an intent is one KV value.  POST /execute, the settlement *)
(* it schedules and the settlement every status poll schedules each load   *)
(* it, wait for a chain or for Circle, and write their whole copy back:    *)
(* nothing orders them.  What keeps the money right is on the chain, the   *)
(* Vault's intentState and the MessageTransmitter's nonce.                 *)
(*                                                                         *)
(* A fault is a worker lost, a KV write that fails (kvPutJSON swallows     *)
(* it), a call that fails, or a transaction whose receipt comes too late.  *)
(* There are at most MaxFaults of them: outages end.                       *)
(***************************************************************************)
EXTENDS Naturals

CONSTANTS
    Intents,
    Burns,          \* burn transactions on the source chain
    Workers,
    MaxExecutes,    \* bound: calls to execute, of each intent
    MaxFaults,      \* bound
    None

ASSUME TurboAssumption ==
    /\ MaxExecutes \in Nat /\ MaxFaults \in Nat
    /\ None \notin Intents \cup Burns

VARIABLES
    record,     \* the intents in the KV store
    ledger,     \* the stages the accounting ledger shows as done
    vault,      \* intents the TreasuryVault has paid
    payPool,    \* intents with a payment nobody waits for any more
    burn,       \* what Circle and the MessageTransmitter know of each burn
    mintPool,   \* burns with a mint nobody waits for any more
    job,        \* what each worker does
    executes,   \* calls to execute so far
    faults

chains == <<vault, payPool, burn, mintPool>>
bounds == <<executes, faults>>
vars   == <<record, ledger, chains, job, bounds>>

-------------------------------------------------------------------------------
(* Values *)

\* settledAt, the status Settled and the settlement state "reimbursed" are set
\* together and read as alternatives: settledAt stands for the three.
Records == [status : {"absent", "Created", "Executing", "Fulfilled", "Settled"},
            fulfilledAt : BOOLEAN, settledAt : BOOLEAN, attestationAt : BOOLEAN,
            started : BOOLEAN,                    \* settlement.pendingRecorded
            burn : Burns \cup {None}, domain : BOOLEAN]
NewRecord(b, known) ==
    [status |-> "Created", fulfilledAt |-> FALSE, settledAt |-> FALSE,
     attestationAt |-> FALSE, started |-> FALSE, burn |-> b, domain |-> known]
NoRecord == [NewRecord(None, FALSE) EXCEPT !.status = "absent"]


Idle == [step |-> "idle", intent |-> None, copy |-> NoRecord, burn |-> None, domain |-> FALSE]
Steps == {"executing", "precheck", "pay", "fulfilled", "drive", "start", "poll",
          "attested", "nonce", "mint", "settle", "credit", "note"}
Jobs == [step : Steps \cup {"idle"}, intent : Intents \cup {None}, copy : Records,
         burn : Burns \cup {None}, domain : BOOLEAN]

Stages == {"TREASURY_PAYMENT", "VAULT_CREDIT"}

Init ==
    /\ record = [i \in Intents |-> NoRecord]
    /\ ledger = [i \in Intents |-> {}]
    /\ vault = {} /\ payPool = {}
    /\ burn = [b \in Burns |-> "burnt"]
    /\ mintPool = {}
    /\ job = [w \in Workers |-> Idle]
    /\ executes = [i \in Intents |-> 0]
    /\ faults = 0

At(w, step) == job[w].step = step
Goto(w, step) == job' = [job EXCEPT ![w].step = step]
Done(w) == job' = [job EXCEPT ![w] = Idle]
With(w, step, copy) == job' = [job EXCEPT ![w].step = step, ![w].copy = copy]

Fault == faults < MaxFaults /\ faults' = faults + 1 /\ UNCHANGED executes

\* Writing a worker's copy, which fails in silence, or does nothing when the
\* intent was never registered.
Persist(w, r) ==
    LET i == job[w].intent IN
    \/ /\ job[w].copy # NoRecord
       /\ record' = [record EXCEPT ![i] = r]
       /\ UNCHANGED bounds
    \/ /\ job[w].copy = NoRecord
       /\ UNCHANGED <<record, bounds>>
    \/ Fault /\ UNCHANGED record

\* One more stage in the ledger, best effort.
Account(i, stage) == ledger' = [ledger EXCEPT ![i] = @ \cup {stage}]

Drive(i) == [Idle EXCEPT !.step = "drive", !.intent = i]

-------------------------------------------------------------------------------
(* POST /intents *)

\* The id is fresh: nobody has executed it.
CreateIntent(i, b, known) ==
    /\ record[i] = NoRecord /\ executes[i] = 0
    /\ record' = [record EXCEPT ![i] = NewRecord(b, known)]
    /\ UNCHANGED <<ledger, chains, job, bounds>>

-------------------------------------------------------------------------------
(* POST /execute, and the operator relayer it delegates to *)

\* The body may name the burn and its chain, and an intent nobody registered.
Execute(w, i, b, known) ==
    /\ At(w, "idle") /\ executes[i] < MaxExecutes
    /\ executes' = [executes EXCEPT ![i] = @ + 1]
    /\ job' = [job EXCEPT ![w] = [step |-> "executing", intent |-> i, copy |-> record[i],
                                  burn |-> b, domain |-> known]]
    /\ UNCHANGED <<record, ledger, chains, faults>>

Executing(r) == IF r = NoRecord THEN r ELSE [r EXCEPT !.status = "Executing"]

MarkExecuting(w) ==
    /\ At(w, "executing")
    /\ LET r == Executing(job[w].copy) IN Persist(w, r) /\ With(w, "precheck", r)
    /\ UNCHANGED <<ledger, chains>>

\* An intent paid before is skipped, and nothing else happens to it.
Skip(w) ==
    /\ At(w, "precheck") /\ job[w].intent \in vault
    /\ Done(w)
    /\ UNCHANGED <<record, ledger, chains, bounds>>

Precheck(w) ==
    /\ At(w, "precheck") /\ job[w].intent \notin vault
    /\ Goto(w, "pay")
    /\ UNCHANGED <<record, ledger, chains, bounds>>

\* fulfillAndPayWithFee pays an intent once, and reverts after that.
PayMined(w) ==
    LET i == job[w].intent IN
    /\ At(w, "pay") /\ i \notin vault
    /\ vault' = vault \cup {i}
    /\ Account(i, "TREASURY_PAYMENT")
    /\ Goto(w, "fulfilled")
    /\ UNCHANGED <<record, payPool, burn, mintPool, bounds>>

PayReverted(w) ==
    /\ At(w, "pay") /\ job[w].intent \in vault
    /\ Done(w)
    /\ UNCHANGED <<record, ledger, chains, bounds>>

\* Mutant of PayUnseen: a payment broadcast is a payment made.
PayUnseen_Fulfilled(w) ==
    /\ At(w, "pay")
    /\ payPool' = payPool \cup {job[w].intent}
    /\ Goto(w, "fulfilled") /\ Fault
    /\ UNCHANGED <<record, ledger, vault, burn, mintPool>>

\* wait() throws with the transaction still in the mempool: success is false.
PayUnseen(w) ==
    /\ At(w, "pay")
    /\ payPool' = payPool \cup {job[w].intent}
    /\ Done(w) /\ Fault
    /\ UNCHANGED <<record, ledger, vault, burn, mintPool>>

MinePayment(i) ==
    /\ i \in payPool
    /\ payPool' = payPool \ {i}
    /\ vault' = vault \cup {i}
    /\ UNCHANGED <<record, ledger, burn, mintPool, job, bounds>>

Fulfilled(r, b, known) ==
    IF r = NoRecord THEN r
    ELSE [r EXCEPT !.status = "Fulfilled", !.fulfilledAt = TRUE,
                   !.burn = IF b = None THEN @ ELSE b, !.domain = @ \/ known]

\* The answer is recorded and the settlement scheduled in the background.
MarkFulfilled(w) ==
    LET j == job[w]  r == Fulfilled(j.copy, j.burn, j.domain) IN
    /\ At(w, "fulfilled")
    /\ Persist(w, r)
    /\ Account(j.intent, "TREASURY_PAYMENT")
    /\ \/ r.burn # None /\ job' = [job EXCEPT ![w] = Drive(j.intent)]
       \/ r.burn = None /\ Done(w)
    /\ UNCHANGED chains

-------------------------------------------------------------------------------
(* GET /intents/<id> *)

\* Mutant of Resumable: any intent with a burn is settled when it is polled.
Resumable_AnyStatus(r) == r # NoRecord /\ ~r.settledAt /\ r.burn # None
Resumable(r) == ~r.settledAt /\ r.status \in {"Fulfilled", "Settled"} /\ r.burn # None

Poll(w, i) ==
    /\ At(w, "idle") /\ Resumable(record[i])
    /\ job' = [job EXCEPT ![w] = Drive(i)]
    /\ UNCHANGED <<record, ledger, chains, bounds>>

-------------------------------------------------------------------------------
(* driveSettlement, and the mint relayer it delegates to *)

\* Nothing to do; nothing that can be done, which is noted; or to Circle, the
\* first time with a note of it.
DriveEnds(w) ==
    LET r == record[job[w].intent] IN
    /\ At(w, "drive")
    /\ r = NoRecord \/ r.settledAt
    /\ Done(w)
    /\ UNCHANGED <<record, ledger, chains, bounds>>

DriveStarts(w) ==
    LET r == record[job[w].intent] IN
    /\ At(w, "drive") /\ r # NoRecord /\ ~r.settledAt
    /\ With(w, IF r.burn = None \/ ~r.domain THEN "note"
               ELSE IF r.started THEN "poll" ELSE "start", r)
    /\ UNCHANGED <<record, ledger, chains, bounds>>

Start(w) ==
    LET r == [job[w].copy EXCEPT !.started = TRUE] IN
    /\ At(w, "start")
    /\ Persist(w, r) /\ With(w, "poll", r)
    /\ UNCHANGED <<ledger, chains>>

\* The settlement's progress is noted: the copy is written back.
Note(w) ==
    /\ At(w, "note")
    /\ Persist(w, job[w].copy) /\ Done(w)
    /\ UNCHANGED <<ledger, chains>>

AttestationPending(w) ==
    /\ At(w, "poll")
    /\ \/ burn[job[w].copy.burn] = "burnt" /\ UNCHANGED bounds
       \/ Fault
    /\ Goto(w, "note")
    /\ UNCHANGED <<record, ledger, chains>>

AttestationComplete(w) ==
    LET r == job[w].copy IN
    /\ At(w, "poll") /\ burn[r.burn] # "burnt"
    /\ IF r.attestationAt THEN Goto(w, "nonce")
       ELSE With(w, "attested", [r EXCEPT !.attestationAt = TRUE])
    /\ UNCHANGED <<record, ledger, chains, bounds>>

MarkAttested(w) ==
    /\ At(w, "attested")
    /\ Persist(w, job[w].copy) /\ Goto(w, "nonce")
    /\ UNCHANGED <<ledger, chains>>

\* Mutant of Nonce: already_processed is a failure.
Nonce_NotSettled(w) ==
    /\ At(w, "nonce")
    /\ Goto(w, IF burn[job[w].copy.burn] = "minted" THEN "note" ELSE "mint")
    /\ UNCHANGED <<record, ledger, chains, bounds>>

\* already_processed counts as a reimbursement.
Nonce(w) ==
    /\ At(w, "nonce")
    /\ Goto(w, IF burn[job[w].copy.burn] = "minted" THEN "settle" ELSE "mint")
    /\ UNCHANGED <<record, ledger, chains, bounds>>

MintMined(w) ==
    LET j == job[w] IN
    /\ At(w, "mint") /\ burn[j.copy.burn] = "attested"
    /\ burn' = [burn EXCEPT ![j.copy.burn] = "minted"]
    /\ Account(j.intent, "VAULT_CREDIT")
    /\ Goto(w, "settle")
    /\ UNCHANGED <<record, vault, payPool, mintPool, bounds>>

MintReverted(w) ==
    /\ At(w, "mint") /\ burn[job[w].copy.burn] = "minted"
    /\ Goto(w, "note")
    /\ UNCHANGED <<record, ledger, chains, bounds>>

\* Mutant of MintUnseen: a mint broadcast is a mint made.
MintUnseen_Settled(w) ==
    /\ At(w, "mint")
    /\ mintPool' = mintPool \cup {job[w].copy.burn}
    /\ Goto(w, "settle") /\ Fault
    /\ UNCHANGED <<record, ledger, vault, payPool, burn>>

\* No receipt within 25 s: reimbursement_failed, and the mint may still happen.
MintUnseen(w) ==
    /\ At(w, "mint")
    /\ mintPool' = mintPool \cup {job[w].copy.burn}
    /\ Goto(w, "note") /\ Fault
    /\ UNCHANGED <<record, ledger, vault, payPool, burn>>

MineMint(b) ==
    /\ b \in mintPool
    /\ mintPool' = mintPool \ {b}
    /\ burn' = [burn EXCEPT ![b] = "minted"]
    /\ UNCHANGED <<record, ledger, vault, payPool, job, bounds>>

\* A failed check or call of the mint relayer: nothing was sent.
MintFails(w) ==
    /\ job[w].step \in {"nonce", "mint"}
    /\ Goto(w, "note") /\ Fault
    /\ UNCHANGED <<record, ledger, chains>>

\* Mutant of Reimbursed: a status nobody knows.
Reimbursed_Status(r) == [r EXCEPT !.status = "reimbursed", !.settledAt = TRUE]
Reimbursed(r) == [r EXCEPT !.status = "Settled", !.settledAt = TRUE]

Settle(w) ==
    LET r == Reimbursed(job[w].copy) IN
    /\ At(w, "settle")
    /\ Persist(w, r) /\ With(w, "credit", r)
    /\ UNCHANGED <<ledger, chains>>

Credit(w) ==
    /\ At(w, "credit")
    /\ Account(job[w].intent, "VAULT_CREDIT")
    /\ Done(w)
    /\ UNCHANGED <<record, chains, bounds>>

-------------------------------------------------------------------------------
(* Circle, and faults *)

Attest(b) ==
    /\ burn[b] = "burnt"
    /\ burn' = [burn EXCEPT ![b] = "attested"]
    /\ UNCHANGED <<record, ledger, vault, payPool, mintPool, job, bounds>>

\* A request refused by the relayer, an exception, a background task cut short.
Abandon(w) ==
    /\ ~At(w, "idle")
    /\ Done(w) /\ Fault
    /\ UNCHANGED <<record, ledger, chains>>

ExecuteStep(w) ==
    \/ MarkExecuting(w) \/ Skip(w) \/ Precheck(w)
    \/ PayMined(w) \/ PayReverted(w) \/ PayUnseen(w) \/ MarkFulfilled(w)
DriveStep(w) ==
    \/ DriveEnds(w) \/ DriveStarts(w) \/ Start(w) \/ Note(w)
    \/ AttestationPending(w) \/ AttestationComplete(w) \/ MarkAttested(w)
    \/ Nonce(w) \/ MintMined(w) \/ MintReverted(w) \/ MintUnseen(w) \/ MintFails(w)
    \/ Settle(w) \/ Credit(w)

Next ==
    \/ \E i \in Intents, b \in Burns \cup {None}, known \in BOOLEAN :
          CreateIntent(i, b, known) \/ \E w \in Workers : Execute(w, i, b, known)
    \/ \E w \in Workers : ExecuteStep(w) \/ DriveStep(w) \/ Abandon(w)
    \/ \E w \in Workers, i \in Intents : Poll(w, i)
    \/ \E i \in Intents : MinePayment(i)
    \/ \E b \in Burns : Attest(b) \/ MineMint(b)

Spec == Init /\ [][Next]_vars

\* A worker that is not lost goes on, and the client polls until it is told that
\* the Vault was reimbursed.  Nothing makes Circle attest a burn.
Fairness ==
    /\ \A w \in Workers : WF_vars(ExecuteStep(w)) /\ WF_vars(DriveStep(w))
    /\ \A i \in Intents : WF_vars(\E w \in Workers : Poll(w, i))
    /\ \A b \in Burns : WF_vars(MineMint(b))

FairSpec == Spec /\ Fairness

-------------------------------------------------------------------------------
(* Properties *)

\* The variables have the values described above.
TypeOK ==
    /\ record \in [Intents -> Records]
    /\ ledger \in [Intents -> SUBSET Stages]
    /\ vault \subseteq Intents /\ payPool \subseteq Intents
    /\ burn \in [Burns -> {"burnt", "attested", "minted"}]
    /\ mintPool \subseteq Burns
    /\ job \in [Workers -> Jobs]
    /\ executes \in [Intents -> 0..MaxExecutes]
    /\ faults \in 0..MaxFaults

\* A record that says the user was paid is of an intent the Vault paid, however
\* stale the copy it was written from.
FulfilledIsPaid ==
    \A i \in Intents : record[i].fulfilledAt => i \in vault

\* A record that says the Vault was reimbursed is of an intent the Vault paid,
\* and the burn it names has been minted: a lost receipt, a failed call or a
\* burn reported by a later call never count as one.
SettledIsMinted ==
    \A i \in Intents : record[i].settledAt =>
        /\ i \in vault
        /\ record[i].burn # None /\ burn[record[i].burn] = "minted"

\* The ledger never shows a reimbursement of what the Vault did not pay.
CreditedIsPaid ==
    \A i \in Intents : "VAULT_CREDIT" \in ledger[i] =>
        /\ i \in vault
        /\ \E b \in Burns : burn[b] = "minted"

\* Until the intent is executed again, no write takes back that the user was paid,
\* nor the burn and the chain that the reimbursement needs.
FulfilledForGood ==
    [][\A i \in Intents :
        record[i].fulfilledAt /\ executes'[i] = 1 =>
            /\ record'[i].fulfilledAt
            /\ record'[i].burn = record[i].burn
            /\ record'[i].domain = record[i].domain]_vars

Awaiting(i) ==
    /\ Resumable(record[i]) /\ record[i].domain
    /\ burn[record[i].burn] # "burnt"

\* Once Circle has attested the burn, the polls reimburse the Vault and the record
\* ends up saying so for good, stale writes notwithstanding, unless the intent is
\* executed again.
PollsReimburse ==
    \A i \in Intents : Awaiting(i) ~> (executes[i] > 1 \/ []record[i].settledAt)

\* The same of every intent, as settlement.mjs says: "each call to the status
\* endpoint (or a re-execute) drives it one step further until reimbursed".
ReexecuteReimburses ==
    \A i \in Intents : Awaiting(i) ~> record[i].settledAt

=============================================================================
