-------------------------- MODULE ScheduleExecutor --------------------------
(***************************************************************************)
(* Scheduled payments (shared/agentScheduleExecutor.js), executed by       *)
(* whichever browser tab ticks first.  A key is one occurrence of one      *)
(* schedule; a payment or a multisend makes its transfers one by one       *)
(* through the server's Circle signer.                                     *)
(*                                                                         *)
(* The tabs share localStorage: the ledger of occurrences, which a tab     *)
(* reads when it starts on an occurrence and later writes back whole; the  *)
(* claims, read again at every access; and the schedules, read when the    *)
(* tab is loaded and written back whole.  Between two awaits a tab's code  *)
(* is one step.                                                            *)
(*                                                                         *)
(* Of the signer's server the model has what AgentSigner has of a          *)
(* broadcast: it looks for a record of the execution, asks for the         *)
(* wallet's nonce lock, and then calls Circle and writes the record,       *)
(* whether or not the tab still waits.  A transaction found by its nonce   *)
(* is the transfer's own (no two transfers are identical).                 *)
(***************************************************************************)
EXTENDS Naturals, FiniteSets

CONSTANTS
    Tabs,
    Keys,
    Rows,           \* how many transfers an occurrence has
    Multisends,     \* the occurrences of multisends, the others being payments
    RetryMax,       \* the policy's retryMax
    MaxSends,       \* bound: the transactions Circle makes of one transfer
    Kinds,          \* the faults that may happen, each at most once
    MaxFaults,      \* bound
    None

Transfers == UNION {{<<k, n>> : n \in 1..Rows[k]} : k \in Keys}

\* The i-th transaction Circle makes of a transfer.
Txs == UNION {{<<k, n, i>> : n \in 1..Rows[k], i \in 1..MaxSends} : k \in Keys}
Of(x) == <<x[1], x[2]>>

ASSUME ScheduleAssumption ==
    /\ Rows \in [Keys -> Nat \ {0}] /\ Multisends \subseteq Keys
    /\ RetryMax \in Nat \ {0} /\ MaxFaults \in Nat
    /\ Kinds \subseteq {"crash", "refusal", "answer", "record", "receipt"}
    /\ MaxSends \in Nat
    /\ None \notin Keys \cup Txs \cup Transfers

VARIABLES
    ledger,     \* the ledger in localStorage
    claim,      \* the claims in localStorage
    stored,     \* the schedules in localStorage: is the occurrence still ahead?
    due,        \* each tab's copy of them
    overdue,    \* has a day passed?
    job,        \* what each tab does, and its copy of the ledger
    tx,         \* the transactions Circle made
    held,       \* the transaction the signer's record of an execution names
    lost,       \* transactions whose record was lost, or could not be read
    orphans,    \* how many requests of a transfer go on with no tab waiting
    outlived,   \* occurrences whose lease expired while a tab was at work on them
    crossed,    \* executions with two requests past the look for a record
    unsent,     \* occurrences told "pending" of a transfer that was not sent
    faults

storage == <<ledger, claim, stored>>
tabs    == <<due, job>>
circle  == <<tx, held, lost, orphans>>
history == <<outlived, crossed, unsent>>
vars    == <<storage, tabs, overdue, circle, history, faults>>

-------------------------------------------------------------------------------
(* Values *)

\* The executionId: every row of a multisend has its own, a payment has one.
Execution(k, n) == IF k \in Multisends THEN <<k, n>> ELSE <<k, 1>>

\* A hash, or "pending:" and the execution id.
Refs == Txs \cup Transfers \cup {None}

Entries == [status : {"none", "executing", "retry_pending", "awaiting_auth", "in_progress",
                      "execution_unknown", "submitted", "executed", "failed", "blocked",
                      "skipped_stale"},
            ref : Refs, row : Nat, attempts : Nat, transient : BOOLEAN]
NoEntry == [status |-> "none", ref |-> None, row |-> 0, attempts |-> 0, transient |-> FALSE]
\* Mutant of Entry: the attempts are counted down.
Entry_Left(status, attempts) == [NoEntry EXCEPT !.status = status, !.attempts = attempts - 1]
\* The attempts are kept where a later run reads them.
Entry(status, attempts) == [NoEntry EXCEPT !.status = status, !.attempts = attempts]

\* expired: claimed, or execution_unknown, and the lease has run out.  A claim
\* with a txHash is submitted for good: nobody looks at its lease.
Claims == {"none", "claimed", "expired", "submitted", "confirmed", "failed"}

Running == {"mark", "prepare", "send", "wait", "resolve", "receipt", "reconcile"}
Idle == [step |-> "idle", key |-> None, row |-> 1, attempts |-> 0, claimed |-> FALSE, ref |-> None,
         copy |-> [k \in Keys |-> NoEntry]]
Jobs == [step : Running \cup {"claim", "idle"}, key : Keys \cup {None}, row : Nat,
         attempts : Nat, claimed : BOOLEAN, ref : Refs, copy : [Keys -> Entries]]

Init ==
    /\ ledger = [k \in Keys |-> NoEntry]
    /\ claim = [k \in Keys |-> "none"]
    /\ stored = [k \in Keys |-> TRUE]
    /\ due = [t \in Tabs |-> stored]
    /\ overdue = FALSE
    /\ job = [t \in Tabs |-> Idle]
    /\ tx = [x \in Txs |-> "none"]
    /\ held = [e \in Transfers |-> None]
    /\ lost = {} /\ orphans = [r \in Transfers |-> 0]
    /\ outlived = {} /\ crossed = {} /\ unsent = {}
    /\ faults = {}

At(t, step) == job[t].step = step
Become(t, j) == job' = [job EXCEPT ![t] = j]
Goto(t, step) == Become(t, [job[t] EXCEPT !.step = step])
Done(t) == Become(t, Idle)

Fault(kind) ==
    /\ kind \in Kinds \ faults /\ Cardinality(faults) < MaxFaults
    /\ faults' = faults \cup {kind}

\* A tick begins with _ledgerRefresh: what it writes then is up to date.
SaveFresh(k, e) == ledger' = [ledger EXCEPT ![k] = e]

\* _saveLedger later: the tab's whole copy replaces what is stored.
Save(t, e) == ledger' = [job[t].copy EXCEPT ![job[t].key] = e]
SaveAndGo(t, e, step) ==
    /\ Save(t, e)
    /\ Become(t, [job[t] EXCEPT !.step = step, !.copy = ledger'])

\* _advanceSchedule: the occurrence is over in the tab's list, which is stored whole.
Advance(t, k) ==
    /\ due' = [due EXCEPT ![t][k] = FALSE]
    /\ stored' = due'[t]

\* updateExecutionClaim: whoever holds it, the executor's name is the same.
UpdateClaim(k, status) == claim' = [claim EXCEPT ![k] = IF @ = "none" THEN @ ELSE status]

\* The finally block of a run: the claim is deleted, whosever it is.
Release(k) == claim' = [claim EXCEPT ![k] = "none"]

\* What is known of a hash, or of the hash an execution has on record.
Hash(ref) == IF ref \in Transfers THEN held[ref] ELSE ref
Settled(ref) == IF Hash(ref) \in Txs THEN tx[Hash(ref)] ELSE "none"

-------------------------------------------------------------------------------
(* A tick reaches an occurrence: _executeSchedule up to the claim *)

Ready(t, k) == At(t, "idle") /\ due[t][k]

Exhausted(e) == e.status = "retry_pending" /\ e.attempts >= RetryMax

\* Mutants of Startable: an occurrence in any state is executed again; one that
\* waits for a retry never is.
Startable_Any(e) == ~Exhausted(e)
Startable_Once(e) == e.status \in {"none", "awaiting_auth", "in_progress"}
Startable(e) == e.status \in {"none", "awaiting_auth", "in_progress", "retry_pending"}
                /\ ~Exhausted(e)

StartClaim(t, k) ==
    /\ Ready(t, k) /\ ~overdue /\ Startable(ledger[k])
    /\ Become(t, [Idle EXCEPT !.step = "claim", !.key = k, !.copy = ledger,
                              !.attempts = ledger[k].attempts])
    /\ UNCHANGED <<storage, due, overdue, circle, history, faults>>

\* Missed by more than a day.
Skip(t, k) ==
    /\ Ready(t, k) /\ overdue /\ Startable(ledger[k])
    /\ SaveFresh(k, Entry("skipped_stale", 0))
    /\ Advance(t, k)
    /\ UNCHANGED <<claim, job, overdue, circle, history, faults>>

\* A network failure is retried for ever, any other one RetryMax times.
GiveUp(t, k) ==
    /\ Ready(t, k) /\ Exhausted(ledger[k]) /\ ~ledger[k].transient
    /\ SaveFresh(k, Entry("failed", 0))
    /\ Advance(t, k)
    /\ UNCHANGED <<claim, job, overdue, circle, history, faults>>

KeepTrying(t, k) ==
    /\ Ready(t, k) /\ Exhausted(ledger[k]) /\ ledger[k].transient
    /\ SaveFresh(k, [ledger[k] EXCEPT !.attempts = 0])
    /\ UNCHANGED <<claim, stored, due, job, overdue, circle, history, faults>>

\* The occurrence was submitted, or may have been: no claim is asked for.
StartReconcile(t, k) ==
    /\ Ready(t, k) /\ ledger[k].status \in {"submitted", "execution_unknown"}
    /\ Become(t, [Idle EXCEPT
                    !.step = IF ledger[k].status = "submitted" THEN "reconcile" ELSE "resolve",
                    !.key = k, !.row = ledger[k].row, !.ref = ledger[k].ref, !.copy = ledger])
    /\ UNCHANGED <<storage, due, overdue, circle, history, faults>>

Tick(t, k) == StartClaim(t, k) \/ Skip(t, k) \/ GiveUp(t, k) \/ KeepTrying(t, k)
              \/ StartReconcile(t, k)

-------------------------------------------------------------------------------
(* The claim, and the checks before anything is signed *)

\* Mutant of CanClaim: the lease is not looked at.
CanClaim_Held(c) == c \in {"none", "claimed", "expired"}
CanClaim(c) == c \in {"none", "expired"}

\* Under the Web Lock.
Claim(t) ==
    LET k == job[t].key IN
    /\ At(t, "claim") /\ CanClaim(claim[k])
    /\ claim' = [claim EXCEPT ![k] = "claimed"]
    /\ Become(t, [job[t] EXCEPT !.step = "mark", !.claimed = TRUE, !.attempts = @ + 1])
    /\ UNCHANGED <<ledger, stored, due, overdue, circle, history, faults>>

ClaimRefused(t) ==
    /\ At(t, "claim") /\ ~CanClaim(claim[job[t].key])
    /\ Done(t)
    /\ UNCHANGED <<storage, due, overdue, circle, history, faults>>

MarkExecuting(t) ==
    /\ At(t, "mark")
    /\ SaveAndGo(t, Entry("executing", 0), "prepare")
    /\ UNCHANGED <<claim, stored, due, overdue, circle, history, faults>>

\* No signer, no network, a failed check or simulation; no authorization.
Postpone(t) ==
    LET j == job[t] IN
    /\ At(t, "prepare") /\ job[t].row = 1 /\ Fault("refusal")
    /\ \E e \in {Entry("awaiting_auth", j.attempts), Entry("retry_pending", j.attempts),
                 [Entry("retry_pending", j.attempts) EXCEPT !.transient = TRUE]} :
         Save(t, e)
    /\ Release(j.key) /\ Done(t)
    /\ UNCHANGED <<stored, due, overdue, circle, history>>

\* The occurrence ends badly; a run gives its claim back.
Fail(t, status) ==
    LET j == job[t] IN
    /\ Save(t, Entry(status, 0))
    /\ Advance(t, j.key)
    /\ Done(t)

Block(t) ==
    /\ At(t, "prepare") /\ job[t].row = 1 /\ Fault("refusal")
    /\ Fail(t, "blocked") /\ Release(job[t].key)
    /\ UNCHANGED <<overdue, circle, history>>

-------------------------------------------------------------------------------
(* One transfer: prepared, recorded as an intent, sent *)

Prepare(t) ==
    LET j == job[t] IN
    /\ At(t, "prepare")
    /\ SaveAndGo(t, IF j.key \in Multisends THEN Entry("in_progress", j.attempts)
                    ELSE [Entry("execution_unknown", 0) EXCEPT !.row = j.row], "send")
    /\ UNCHANGED <<claim, stored, due, overdue, circle, history, faults>>

PrepareFails(t) ==
    /\ At(t, "prepare") /\ Fault("refusal")
    /\ Fail(t, "failed") /\ Release(job[t].key)
    /\ UNCHANGED <<overdue, circle, history>>

\* One more transaction of the transfer.
Make(x, transfer) ==
    /\ x \in Txs /\ Of(x) = transfer /\ tx[x] = "none"
    /\ \A y \in Txs : Of(y) = transfer /\ y[3] < x[3] => tx[y] # "none"
    /\ tx' = [tx EXCEPT ![x] = "sent"]

\* The hash, or the marker of a hash that is not known yet, is written down.
\* A payment with a marker waits for a later tick, a multisend polls for it.
Sent(t, ref) ==
    LET j == job[t]
        multi == j.key \in Multisends IN
    /\ Save(t, IF multi THEN Entry("in_progress", j.attempts)
               ELSE [Entry("submitted", 0) EXCEPT !.ref = ref])
    /\ UpdateClaim(j.key, "submitted")
    /\ IF multi \/ ref \in Txs
       THEN Become(t, [j EXCEPT !.step = "receipt", !.ref = ref, !.copy = ledger'])
       ELSE Done(t)
    /\ UNCHANGED <<stored, due, overdue>>

\* The transfer a tab is at, and its execution.
Transfer(t) == <<job[t].key, job[t].row>>
This(t) == Execution(job[t].key, job[t].row)

\* Requests of an execution that are past the look for a record.
Underway(e) ==
    \/ \E t \in Tabs : At(t, "wait") /\ This(t) = e
    \/ \E r \in Transfers : orphans[r] > 0 /\ Execution(r[1], r[2]) = e

\* Another execution may have the wallet's nonce lock.
NonceTaken(e) ==
    \/ \E f \in Transfers \ {e} : Underway(f)
    \/ \E x \in Txs : tx[x] = "sent" /\ Execution(x[1], x[2]) # e

\* Mutant of OnRecord: the record is not looked for.
OnRecord_Never(e) == FALSE
OnRecord(e) == held[e] # None

\* authorize, and broadcast up to its answer when it does not call Circle: an
\* execution on record is not sent again, and one that meets the nonce lock of
\* another is not sent at all, but answered "pending" like one that is.
SendKnown(t) ==
    LET e == This(t) IN
    /\ At(t, "send")
    /\ \/ OnRecord(e) /\ (Sent(t, held[e]) \/ Sent(t, e)) /\ UNCHANGED unsent
       \/ /\ ~OnRecord(e) /\ NonceTaken(e)
          /\ Sent(t, e)
          /\ unsent' = unsent \cup {job[t].key}
    /\ UNCHANGED <<circle, outlived, crossed, faults>>

\* A record that cannot be read is none.
Send(t) ==
    LET e == This(t) IN
    /\ At(t, "send") /\ Goto(t, "wait")
    /\ \/ ~OnRecord(e) /\ UNCHANGED <<lost, faults>>
       \/ OnRecord(e) /\ Fault("record") /\ lost' = lost \cup {held[e]}
    /\ crossed' = IF Underway(e) THEN crossed \cup {e} ELSE crossed
    /\ UNCHANGED <<storage, due, overdue, tx, held, orphans, outlived, unsent>>

\* The call throws before it has done anything.
SendThrows(t) ==
    /\ At(t, "send") /\ Goto(t, "resolve")
    /\ Fault("refusal") \/ Fault("answer")
    /\ UNCHANGED <<storage, due, overdue, circle, history>>

\* Circle is called and the record written.
Broadcast(r) ==
    \E x \in Txs :
        /\ Make(x, r)
        /\ held' = [held EXCEPT ![Execution(r[1], r[2])] = x]
        /\ UNCHANGED lost

\* Circle made the transaction, and the record of it was lost.
Unrecorded(r) ==
    /\ Fault("record")
    /\ \E x \in Txs : Make(x, r) /\ lost' = lost \cup {x}

\* The record says that the execution failed, whatever it said before.
RecordFailed(r) == held' = [held EXCEPT ![Execution(r[1], r[2])] = None]

\* Circle's call fails, after the transaction was made or before.
CallFails(r) ==
    \/ Fault("refusal") /\ RecordFailed(r) /\ UNCHANGED <<tx, lost>>
    \/ Unrecorded(r) /\ (RecordFailed(r) \/ UNCHANGED held)

Answer(t) ==
    /\ At(t, "wait")
    /\ \/ Broadcast(Transfer(t)) /\ UNCHANGED faults
       \/ Unrecorded(Transfer(t)) /\ UNCHANGED held
    /\ \E x \in Txs : tx'[x] # tx[x] /\ (Sent(t, x) \/ Sent(t, This(t)))
    /\ UNCHANGED <<orphans, history>>

AnswerThrows(t) ==
    /\ At(t, "wait") /\ Goto(t, "resolve")
    /\ CallFails(Transfer(t))
    /\ UNCHANGED <<storage, due, overdue, orphans, history>>

\* Circle's own nonce_conflict is answered "pending" too.
AnswerPending(t) ==
    /\ At(t, "wait") /\ Fault("refusal")
    /\ RecordFailed(Transfer(t))
    /\ Sent(t, This(t))
    /\ unsent' = unsent \cup {job[t].key}
    /\ UNCHANGED <<tx, lost, orphans, outlived, crossed>>

\* The answer is lost on its way, or before: the request goes on.
AnswerLost(t) ==
    /\ At(t, "wait") /\ Fault("answer") /\ Goto(t, "resolve")
    /\ orphans' = [orphans EXCEPT ![Transfer(t)] = @ + 1]
    /\ UNCHANGED <<storage, due, overdue, tx, held, lost, history>>

\* A request nobody waits for comes to its end.
Orphan(r) ==
    /\ orphans[r] > 0
    /\ orphans' = [orphans EXCEPT ![r] = @ - 1]
    /\ \/ Broadcast(r) /\ UNCHANGED faults
       \/ CallFails(r)
    /\ UNCHANGED <<storage, tabs, overdue, history>>

\* _resolveUnknownIntent: the transaction at the intent's nonce, if the RPC
\* node can tell; else the transfer is given up, not sent again.
Resolve(t) ==
    LET j == job[t] IN
    /\ At(t, "resolve")
    /\ \E x \in Txs :
        /\ Of(x) = <<j.key, j.row>> /\ tx[x] # "none"
        /\ IF j.key \in Multisends THEN Sent(t, x)
           ELSE /\ Save(t, [Entry("submitted", 0) EXCEPT !.ref = x])
                /\ Become(t, [j EXCEPT !.step = "reconcile", !.ref = x, !.copy = ledger'])
                /\ UNCHANGED <<claim, stored, due, overdue>>
    /\ UNCHANGED <<circle, history, faults>>

ResolveFails(t) ==
    LET j == job[t] IN
    /\ At(t, "resolve")
    /\ Fail(t, "failed")
    /\ IF j.claimed THEN Release(j.key) ELSE UNCHANGED claim
    /\ UNCHANGED <<overdue, circle, history, faults>>

-------------------------------------------------------------------------------
(* The receipt *)

\* Mutant of Succeeded: a receipt is taken for a success.
Succeeded_Any(ref) == Settled(ref) \in {"confirmed", "reverted"}
Succeeded(ref) == Settled(ref) = "confirmed"
Reverted(ref) == Settled(ref) = "reverted"

\* The next transfer, or the occurrence is executed.
NextRow(t) ==
    LET j == job[t] IN
    /\ At(t, "receipt") /\ Succeeded(j.ref) /\ j.row < Rows[j.key]
    /\ \/ j.key \in Multisends /\ Save(t, Entry("in_progress", j.attempts))
       \/ j.key \notin Multisends /\ UNCHANGED ledger
    /\ Become(t, [j EXCEPT !.step = "prepare", !.row = @ + 1, !.ref = None,
                           !.copy = IF j.key \in Multisends THEN ledger' ELSE @])
    /\ UNCHANGED <<claim, stored, due, overdue, circle, history, faults>>

Executed(t, ref) ==
    LET j == job[t] IN
    /\ Save(t, [Entry("executed", 0) EXCEPT !.ref = ref])
    /\ Advance(t, j.key)
    /\ Done(t)

Finish(t) ==
    LET j == job[t] IN
    /\ At(t, "receipt") /\ Succeeded(j.ref) /\ j.row = Rows[j.key]
    /\ Executed(t, j.ref) /\ Release(j.key)
    /\ UNCHANGED <<overdue, circle, history, faults>>

ReceiptReverted(t) ==
    /\ At(t, "receipt") /\ Reverted(job[t].ref)
    /\ Fail(t, "failed") /\ Release(job[t].key)
    /\ UNCHANGED <<overdue, circle, history, faults>>

\* Not mined within a minute, or no node to ask: a later tick will see.
Late(t) ==
    \/ Settled(job[t].ref) \in {"none", "sent"} /\ UNCHANGED faults
    \/ Fault("receipt")

ReceiptLate(t) ==
    LET j == job[t] IN
    /\ At(t, "receipt") /\ Late(t)
    /\ IF j.key \in Multisends
       THEN \E ref \in {j.ref, Hash(j.ref)} \ {None} : Save(t, [Entry("submitted", 0) EXCEPT !.ref = ref])
       ELSE UNCHANGED ledger
    /\ UpdateClaim(j.key, "submitted")
    /\ Done(t)
    /\ UNCHANGED <<stored, due, overdue, circle, history>>

\* _reconcileSubmitted, of a tick or of a run whose call threw.
ReconcileSucceeded(t) ==
    LET j == job[t] IN
    /\ At(t, "reconcile") /\ Succeeded(j.ref)
    /\ Executed(t, Hash(j.ref))
    /\ IF j.claimed THEN Release(j.key)
       ELSE IF j.ref \in Transfers THEN UpdateClaim(j.key, "confirmed")
       ELSE UNCHANGED claim
    /\ UNCHANGED <<overdue, circle, history, faults>>

ReconcileReverted(t) ==
    LET j == job[t] IN
    /\ At(t, "reconcile") /\ Reverted(j.ref)
    /\ Fail(t, "failed")
    /\ IF j.claimed THEN Release(j.key)
       ELSE IF j.ref \in Transfers THEN UpdateClaim(j.key, "failed")
       ELSE UNCHANGED claim
    /\ UNCHANGED <<overdue, circle, history, faults>>

ReconcileLate(t) ==
    LET j == job[t] IN
    /\ At(t, "reconcile") /\ Late(t)
    /\ IF j.ref \in Transfers
       THEN Save(t, [Entry("submitted", 0) EXCEPT !.ref = j.ref])
       ELSE UNCHANGED ledger
    /\ Done(t)
    /\ UNCHANGED <<claim, stored, due, overdue, circle, history>>

-------------------------------------------------------------------------------
(* The chain, the clock and the user *)

Mine(x) ==
    /\ tx[x] = "sent"
    /\ \E s \in {"confirmed", "reverted"} : tx' = [tx EXCEPT ![x] = s]
    /\ UNCHANGED <<storage, tabs, overdue, held, lost, orphans, history, faults>>

\* 300 s after the claim was made: renewing it does not change claimedAt.
ExpireLease(k) ==
    /\ claim[k] = "claimed"
    /\ claim' = [claim EXCEPT ![k] = "expired"]
    /\ outlived' = IF \E t \in Tabs : job[t].claimed /\ job[t].key = k
                   THEN outlived \cup {k} ELSE outlived
    /\ UNCHANGED <<ledger, stored, tabs, overdue, circle, crossed, unsent, faults>>

ADayPasses ==
    /\ ~overdue /\ overdue' = TRUE
    /\ UNCHANGED <<storage, tabs, circle, history, faults>>

\* The tab is closed, or lost, and loaded again; its request goes on.
Reload(t) ==
    /\ Fault("crash")
    /\ due' = [due EXCEPT ![t] = stored]
    /\ Done(t)
    /\ orphans' = IF At(t, "wait") THEN [orphans EXCEPT ![Transfer(t)] = @ + 1] ELSE orphans
    /\ UNCHANGED <<storage, overdue, tx, held, lost, history>>

Work(t) ==
    \/ Claim(t) \/ ClaimRefused(t) \/ MarkExecuting(t)
    \/ Postpone(t) \/ Block(t)
    \/ Prepare(t) \/ PrepareFails(t)
    \/ SendKnown(t) \/ Send(t) \/ SendThrows(t)
    \/ Answer(t) \/ AnswerThrows(t) \/ AnswerPending(t) \/ AnswerLost(t)
    \/ Resolve(t) \/ ResolveFails(t)
    \/ NextRow(t) \/ Finish(t) \/ ReceiptReverted(t) \/ ReceiptLate(t)
    \/ ReconcileSucceeded(t) \/ ReconcileReverted(t) \/ ReconcileLate(t)

Next ==
    \/ \E t \in Tabs, k \in Keys : Tick(t, k)
    \/ \E t \in Tabs : Work(t) \/ Reload(t)
    \/ \E r \in Transfers : Orphan(r)
    \/ \E x \in Txs : Mine(x)
    \/ \E k \in Keys : ExpireLease(k)
    \/ ADayPasses

Spec == Init /\ [][Next]_vars

\* A tick goes through the due occurrences one after the other, the tab's code
\* runs on, and what Circle sent is mined.
Fairness ==
    /\ \A t \in Tabs : WF_vars(Work(t)) /\ \A k \in Keys : SF_vars(Tick(t, k))
    /\ \A x \in Txs : WF_vars(Mine(x))
FairSpec == Spec /\ Fairness

-------------------------------------------------------------------------------
(* Properties *)

\* The type invariant of the storage, the tabs and Circle's side.
TypeOK ==
    /\ ledger \in [Keys -> Entries]
    /\ claim \in [Keys -> Claims]
    /\ stored \in [Keys -> BOOLEAN] /\ due \in [Tabs -> [Keys -> BOOLEAN]]
    /\ overdue \in BOOLEAN
    /\ job \in [Tabs -> Jobs]
    /\ tx \in [Txs -> {"none", "sent", "confirmed", "reverted"}]
    /\ held \in [Transfers -> Txs \cup {None}]
    /\ lost \subseteq Txs /\ orphans \in [Transfers -> Nat]
    /\ outlived \subseteq Keys /\ crossed \subseteq Transfers /\ unsent \subseteq Keys
    /\ faults \subseteq Kinds

\* No two transactions of one transfer, unless the record of one was lost or two
\* requests of its execution were past the look for a record at once: an
\* occurrence that runs again, because a stale copy of the ledger, a crash or a
\* second tab hid what was done, finds its execution on record.  (The code: two
\* tabs may cross so after a lease ran out, or a reloaded tab with its own
\* request; the nonce lock lets one execution pass twice.)
PaidOnce ==
    \A x, y \in Txs : x # y /\ Of(x) = Of(y) /\ "none" \notin {tx[x], tx[y]}
        => {x, y} \cap lost # {} \/ Execution(x[1], x[2]) \in crossed

\* Wherever an occurrence stands as executed, in the ledger or in any tab's copy
\* of it, its hash, or the execution its marker names, is that of a confirmed
\* transaction of this occurrence, however late the receipt came and whichever
\* tab reconciled it.
ExecutedIsPaid ==
    \A k \in Keys : \A e \in {ledger[k]} \cup {job[t].copy[k] : t \in Tabs} :
        e.status = "executed" =>
            \E x \in Txs : /\ x[1] = k /\ tx[x] = "confirmed"
                           /\ e.ref \in {x, Execution(x[1], x[2])}

\* Two tabs run one occurrence at a time only when the lease of the first ran
\* out under it, although every end of a run deletes whatever claim there is.
OneRunner ==
    \A t, u \in Tabs : t # u /\ job[t].claimed /\ job[u].claimed /\ job[t].key = job[u].key
        => job[t].key \in outlived

\* With one tab a payment is sent once, even when the signer loses its record or
\* the tab is reloaded at any step: the intent written before the broadcast keeps
\* the occurrence from starting again.
PaymentSentOnce ==
    \A x, y \in Txs : Of(x) = Of(y) /\ x[1] \notin Multisends /\ "none" \notin {tx[x], tx[y]}
        => x = y

\* What "executed" tells the user: every transfer of the occurrence is made.
\* (The code: a multisend whose row's receipt is late is reconciled as a whole.)
ExecutedPaysAll ==
    \A k \in Keys : ledger[k].status = "executed" =>
        \A n \in 1..Rows[k] : \E x \in Txs : Of(x) = <<k, n>> /\ tx[x] = "confirmed"

\* A due occurrence is executed or given up, whatever is refused and whatever
\* answer or receipt is missing, as long as no tab is reloaded, no record lost
\* (either may leave it executing, or waiting for a hash, for ever) and it was
\* not told "pending" of a transfer that met another's nonce lock (the code: no
\* fault is needed for that, and it then waits for that hash for ever).
DueResolves ==
    \A t \in Tabs, k \in Keys :
        due[t][k] ~> \/ ~due[t][k] \/ k \in unsent
                     \/ faults \cap {"crash", "record"} # {}
==============================================================================
