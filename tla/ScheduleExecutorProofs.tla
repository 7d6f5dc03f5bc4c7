----------------------- MODULE ScheduleExecutorProofs -----------------------
(***************************************************************************)
(* Theorems about ScheduleExecutor for every number of tabs, occurrences,  *)
(* transfers, retries and faults.                                          *)
(***************************************************************************)
EXTENDS ScheduleExecutor, TLAPS

-------------------------------------------------------------------------------
(* Values *)

LEMMA TransferValues ==
    ASSUME NEW k \in Keys, NEW n \in 1..Rows[k]
    PROVE  /\ <<k, n>> \in Transfers /\ Execution(k, n) \in Transfers
           /\ Execution(k, n)[1] = k
<1>1. Rows[k] \in Nat \ {0} /\ 1 \in 1..Rows[k]
  BY ScheduleAssumption
<1>2. <<k, n>> \in Transfers /\ <<k, 1>> \in Transfers
  BY <1>1 DEF Transfers
<1>3. QED
  BY <1>2 DEF Execution

LEMMA TxValues ==
    ASSUME NEW x \in Txs
    PROVE  x[1] \in Keys /\ x[2] \in 1..Rows[x[1]] /\ Of(x) \in Transfers
<1>1. PICK k \in Keys : x \in {<<k, n, i>> : n \in 1..Rows[k], i \in 1..MaxSends}
  BY DEF Txs
<1>2. PICK n \in 1..Rows[k], i \in 1..MaxSends : x = <<k, n, i>>
  BY <1>1
<1>3. x[1] = k /\ x[2] = n
  BY <1>2
<1>4. QED
  BY <1>3, TransferValues DEF Of

LEMMA TransferShape ==
    ASSUME NEW e \in Transfers
    PROVE  e[1] \in Keys /\ e[2] \in 1..Rows[e[1]] /\ e = <<e[1], e[2]>>
<1>1. PICK k \in Keys : e \in {<<k, n>> : n \in 1..Rows[k]}
  BY DEF Transfers
<1>2. PICK n \in 1..Rows[k] : e = <<k, n>>
  BY <1>1
<1>3. QED
  BY <1>2

\* A transaction is not taken for an execution.
LEMMA Apart == Txs \cap Transfers = {}
<1> SUFFICES ASSUME NEW x \in Txs, x \in Transfers PROVE FALSE
  OBVIOUS
<1>1. PICK k \in Keys : x \in {<<k, n, i>> : n \in 1..Rows[k], i \in 1..MaxSends}
  BY DEF Txs
<1>2. PICK n \in 1..Rows[k], i \in 1..MaxSends : x = <<k, n, i>>
  BY <1>1
<1>3. x = <<x[1], x[2]>>
  BY TransferShape
<1>4. 3 \in DOMAIN <<k, n, i>> /\ 3 \notin DOMAIN <<x[1], x[2]>>
  OBVIOUS
<1>5. QED
  BY <1>2, <1>3, <1>4

LEMMA IdleTyped == NoEntry \in Entries /\ Idle \in Jobs
<1>1. NoEntry \in Entries
  BY DEF NoEntry, Entries, Refs
<1>2. QED
  BY <1>1 DEF Idle, Jobs, Refs

-------------------------------------------------------------------------------
(* The inductive invariant *)

RowSteps == {"claim", "mark", "prepare", "send", "wait", "resolve", "receipt"}

\* The hash of an executed occurrence of k, or the execution its marker names,
\* when T is what became of the transactions.
IsPaid(T, ref, k) ==
    \E x \in Txs : x[1] = k /\ T[x] = "confirmed" /\ ref \in {x, Execution(x[1], x[2])}

\* An entry speaks of its own occurrence.
Good(T, e, k) ==
    /\ e \in Entries
    /\ e.ref # None => e.ref[1] = k
    /\ e.status = "execution_unknown" => e.row \in 1..Rows[k] /\ k \notin Multisends
    /\ e.status = "executed" => IsPaid(T, e.ref, k)

GoodJob(j) ==
    /\ j \in Jobs
    /\ IF j.step = "idle" THEN ~j.claimed ELSE j.key \in Keys
    /\ j.step \in RowSteps => j.row \in 1..Rows[j.key]
    /\ j.step \in {"mark", "prepare", "send", "wait", "receipt"} => j.claimed
    /\ j.step = "resolve" /\ j.key \in Multisends => j.claimed
    /\ j.ref # None => j.ref[1] = j.key

GoodLedger == ledger \in [Keys -> Entries] /\ \A k \in Keys : Good(tx, ledger[k], k)
GoodJobs ==
    /\ job \in [Tabs -> Jobs]
    /\ \A t \in Tabs : GoodJob(job[t]) /\ \A k \in Keys : Good(tx, job[t].copy[k], k)
GoodCircle ==
    /\ tx \in [Txs -> {"none", "sent", "confirmed", "reverted"}]
    /\ held \in [Transfers -> Txs \cup {None}]
    /\ \A e \in Transfers : held[e] # None => Execution(held[e][1], held[e][2]) = e
Rest ==
    /\ claim \in [Keys -> Claims]
    /\ stored \in [Keys -> BOOLEAN] /\ due \in [Tabs -> [Keys -> BOOLEAN]]
    /\ overdue \in BOOLEAN
    /\ lost \subseteq Txs /\ orphans \in [Transfers -> Nat]
    /\ outlived \subseteq Keys /\ crossed \subseteq Transfers /\ unsent \subseteq Keys
    /\ faults \subseteq Kinds

Inv == GoodLedger /\ GoodJobs /\ GoodCircle /\ Rest

\* What is confirmed stays so.
Persists == \A x \in Txs : tx[x] = "confirmed" => tx'[x] = "confirmed"

LEMMA NoneApart == None \notin Keys /\ None \notin Txs /\ None \notin Transfers
  BY ScheduleAssumption

LEMMA GoodPersists ==
    ASSUME Persists, NEW e, NEW k, Good(tx, e, k)
    PROVE  Good(tx', e, k)
<1>1. SUFFICES ASSUME e.status = "executed" PROVE IsPaid(tx', e.ref, k)
  BY DEF Good
<1>2. IsPaid(tx, e.ref, k)
  BY <1>1 DEF Good
<1>3. QED
  BY <1>2 DEF IsPaid, Persists

LEMMA Plain ==
    ASSUME NEW T, NEW k, NEW attempts \in Nat,
           NEW status \in {"none", "executing", "retry_pending", "awaiting_auth", "in_progress",
                           "submitted", "failed", "blocked", "skipped_stale"}
    PROVE  Good(T, Entry(status, attempts), k)
BY DEF Good, Entry, NoEntry, Entries, Refs

LEMMA SaveGood ==
    ASSUME Inv, Persists, NEW t \in Tabs, NEW e, Good(tx', e, job[t].key), Save(t, e)
    PROVE  GoodLedger'
<1>1. job[t].copy \in [Keys -> Entries] /\ e \in Entries
  BY DEF Inv, GoodJobs, Good, GoodJob, Jobs
<1>2. ledger' \in [Keys -> Entries]
  BY <1>1 DEF Save
<1>3. ASSUME NEW k \in Keys PROVE Good(tx', ledger'[k], k)
  <2>1. CASE k = job[t].key
    BY <1>1, <2>1 DEF Save
  <2>2. CASE k # job[t].key
    <3>1. ledger'[k] = job[t].copy[k]
      BY <1>1, <2>2 DEF Save
    <3>2. Good(tx, job[t].copy[k], k)
      BY DEF Inv, GoodJobs
    <3>3. QED
      BY <3>1, <3>2, GoodPersists DEF Inv
  <2>3. QED
    BY <2>1, <2>2
<1>4. QED
  BY <1>2, <1>3 DEF GoodLedger

LEMMA KeptLedger ==
    ASSUME Inv, Persists, UNCHANGED ledger
    PROVE  GoodLedger'
<1>1. ASSUME NEW k \in Keys PROVE Good(tx', ledger'[k], k)
  BY GoodPersists DEF Inv, GoodLedger
<1>2. QED
  BY <1>1 DEF Inv, GoodLedger

LEMMA KeptJobs ==
    ASSUME Inv, Persists, UNCHANGED job
    PROVE  GoodJobs'
<1>1. ASSUME NEW t \in Tabs, NEW k \in Keys PROVE Good(tx', job'[t].copy[k], k)
  BY GoodPersists DEF Inv, GoodJobs
<1>2. QED
  BY <1>1 DEF Inv, GoodJobs

LEMMA BecomeGood ==
    ASSUME Inv, Persists, NEW t \in Tabs, NEW j, GoodJob(j), Become(t, j),
           \A k \in Keys : Good(tx', j.copy[k], k)
    PROVE  GoodJobs'
<1>1. job \in [Tabs -> Jobs] /\ j \in Jobs
  BY DEF Inv, GoodJobs, GoodJob
<1>2. job' \in [Tabs -> Jobs]
  BY <1>1 DEF Become
<1>3. ASSUME NEW u \in Tabs
      PROVE  GoodJob(job'[u]) /\ \A k \in Keys : Good(tx', job'[u].copy[k], k)
  <2>1. CASE u = t
    BY <1>1, <2>1 DEF Become
  <2>2. CASE u # t
    <3>1. job'[u] = job[u]
      BY <1>1, <2>2 DEF Become
    <3>2. GoodJob(job[u]) /\ \A k \in Keys : Good(tx, job[u].copy[k], k)
      BY DEF Inv, GoodJobs
    <3>3. QED
      BY <3>1, <3>2, GoodPersists DEF Inv
  <2>3. QED
    BY <2>1, <2>2
<1>4. QED
  BY <1>2, <1>3 DEF GoodJobs

\* A tab that keeps its copy of the ledger, and one that has just read or saved it.
LEMMA KeptCopy ==
    ASSUME Inv, Persists, NEW t \in Tabs
    PROVE  \A k \in Keys : Good(tx', job[t].copy[k], k)
BY GoodPersists DEF Inv, GoodJobs

LEMMA IdleGood ==
    ASSUME NEW T
    PROVE  GoodJob(Idle) /\ \A k \in Keys : Good(T, Idle.copy[k], k)
<1>1. \A k \in Keys : Idle.copy[k] = NoEntry
  BY DEF Idle
<1>2. \A k \in Keys : Good(T, NoEntry, k)
  BY IdleTyped DEF Good, NoEntry
<1>3. QED
  BY <1>1, <1>2, IdleTyped DEF GoodJob, Idle, RowSteps

LEMMA DoneGood ==
    ASSUME Inv, Persists, NEW t \in Tabs, Done(t)
    PROVE  GoodJobs'
BY IdleGood, BecomeGood DEF Done

-------------------------------------------------------------------------------
(* Entries *)

LEMMA IntentGood ==
    ASSUME NEW T, NEW k \in Keys \ Multisends, NEW row \in 1..Rows[k]
    PROVE  Good(T, [Entry("execution_unknown", 0) EXCEPT !.row = row], k)
<1>1. row \in Nat
  BY ScheduleAssumption
<1>2. QED
  BY <1>1 DEF Good, Entry, NoEntry, Entries, Refs

LEMMA SubmittedGood ==
    ASSUME NEW T, NEW k, NEW ref \in Txs \cup Transfers, ref[1] = k
    PROVE  Good(T, [Entry("submitted", 0) EXCEPT !.ref = ref], k)
BY DEF Good, Entry, NoEntry, Entries, Refs

LEMMA ExecutedIsGood ==
    ASSUME NEW T, NEW k, NEW ref \in Txs \cup Transfers, ref[1] = k, IsPaid(T, ref, k)
    PROVE  Good(T, [Entry("executed", 0) EXCEPT !.ref = ref], k)
BY DEF Good, Entry, NoEntry, Entries, Refs

LEMMA TransientGood ==
    ASSUME NEW T, NEW k, NEW n \in Nat
    PROVE  Good(T, [Entry("retry_pending", n) EXCEPT !.transient = TRUE], k)
BY DEF Good, Entry, NoEntry, Entries, Refs

\* The record of an execution names one of its transactions.
LEMMA HeldOf ==
    ASSUME GoodCircle, NEW e \in Transfers, held[e] # None
    PROVE  /\ held[e] \in Txs /\ Execution(held[e][1], held[e][2]) = e
           /\ held[e][1] = e[1]
<1>1. held[e] \in Txs /\ Execution(held[e][1], held[e][2]) = e
  BY DEF GoodCircle
<1>2. held[e][1] \in Keys /\ held[e][2] \in 1..Rows[held[e][1]]
  BY <1>1, TxValues
<1>3. QED
  BY <1>1, <1>2, TransferValues

\* A hash known to be confirmed is that of the job's own occurrence.
LEMMA SettledPaid ==
    ASSUME Inv, NEW t \in Tabs, Succeeded(job[t].ref)
    PROVE  /\ job[t].ref \in Txs \cup Transfers /\ job[t].ref[1] = job[t].key
           /\ IsPaid(tx, job[t].ref, job[t].key)
           /\ Hash(job[t].ref) \in Txs /\ Hash(job[t].ref)[1] = job[t].key
           /\ IsPaid(tx, Hash(job[t].ref), job[t].key)
<1> DEFINE ref == job[t].ref
           k == job[t].key
           x == Hash(ref)
<1>1. ref \in Refs /\ (ref # None => ref[1] = k)
  BY DEF Inv, GoodJobs, GoodJob, Jobs
<1>2. x \in Txs /\ tx[x] = "confirmed"
  BY DEF Succeeded, Settled
<1>3. ref # None
  BY <1>2, NoneApart DEF Hash
<1>4. x[1] = k /\ ref \in {x, Execution(x[1], x[2])}
  <2>1. CASE ref \in Transfers
    <3>1. x = held[ref] /\ held[ref] # None
      BY <2>1, <1>2, NoneApart DEF Hash
    <3>2. QED
      BY <2>1, <1>1, <1>3, <3>1, HeldOf DEF Inv
  <2>2. CASE ref \notin Transfers
    BY <2>2, <1>1, <1>3 DEF Hash
  <2>3. QED
    BY <2>1, <2>2
<1> HIDE DEF ref, k, x
<1>5. IsPaid(tx, ref, k) /\ IsPaid(tx, x, k) /\ ref \in Txs \cup Transfers
  BY <1>1, <1>2, <1>3, <1>4 DEF IsPaid, Refs
<1>6. QED
  BY <1>1, <1>2, <1>3, <1>4, <1>5 DEF ref, k, x

-------------------------------------------------------------------------------
(* Circle's side *)

\* What a request may do to it: a transaction, and a record of its execution.
LEMMA CallCircle ==
    ASSUME GoodCircle, NEW r \in Transfers,
           UNCHANGED tx \/ \E x \in Txs : Make(x, r),
           UNCHANGED held \/ RecordFailed(r) \/ Broadcast(r)
    PROVE  Persists /\ GoodCircle'
<1>1. tx' \in [Txs -> {"none", "sent", "confirmed", "reverted"}] /\ Persists
  BY DEF Make, Persists, GoodCircle
<1>2. Execution(r[1], r[2]) \in Transfers /\ r = <<r[1], r[2]>>
  BY TransferShape, TransferValues
<1>3. CASE UNCHANGED held
  BY <1>1, <1>3 DEF GoodCircle
<1>4. CASE RecordFailed(r)
  BY <1>1, <1>2, <1>4 DEF RecordFailed, GoodCircle
<1>5. CASE Broadcast(r)
  <2>1. PICK x \in Txs : Of(x) = r /\ held' = [held EXCEPT ![Execution(r[1], r[2])] = x]
    BY <1>5 DEF Broadcast, Make
  <2>2. x[1] = r[1] /\ x[2] = r[2]
    BY <2>1 DEF Of
  <2>3. QED
    BY <1>1, <1>2, <2>1, <2>2 DEF GoodCircle
<1>6. QED
  BY <1>3, <1>4, <1>5

LEMMA KeptCircle ==
    ASSUME GoodCircle, UNCHANGED <<tx, held>>
    PROVE  Persists /\ GoodCircle'
BY DEF Persists, GoodCircle

LEMMA MineCircle ==
    ASSUME GoodCircle, NEW x \in Txs, Mine(x)
    PROVE  Persists /\ GoodCircle'
BY DEF Mine, Persists, GoodCircle

\* The job of a tab that sends.
LEMMA Sender ==
    ASSUME Inv, NEW t \in Tabs, At(t, "send") \/ At(t, "wait") \/ At(t, "resolve")
    PROVE  /\ job[t].key \in Keys /\ job[t].row \in 1..Rows[job[t].key]
           /\ Transfer(t) \in Transfers /\ Transfer(t)[1] = job[t].key
           /\ This(t) \in Transfers /\ This(t)[1] = job[t].key
           /\ Execution(Transfer(t)[1], Transfer(t)[2]) = This(t)
<1>1. job[t].key \in Keys /\ job[t].row \in 1..Rows[job[t].key]
  BY DEF Inv, GoodJobs, GoodJob, RowSteps, At
<1>2. QED
  BY <1>1, TransferValues DEF Transfer, This

-------------------------------------------------------------------------------
(* The ledger and the jobs *)

\* A tab writes an entry and goes on with what it wrote.
LEMMA AfterSave ==
    ASSUME Inv, Persists, NEW t \in Tabs, NEW e, Good(tx', e, job[t].key), Save(t, e),
           NEW j, GoodJob(j), j.copy = ledger', Become(t, j)
    PROVE  GoodLedger' /\ GoodJobs'
<1>1. GoodLedger'
  BY SaveGood
<1>2. \A k \in Keys : Good(tx', j.copy[k], k)
  BY <1>1 DEF GoodLedger
<1>3. QED
  BY <1>1, <1>2, BecomeGood

LEMMA SaveDone ==
    ASSUME Inv, Persists, NEW t \in Tabs, NEW e, Good(tx', e, job[t].key), Save(t, e), Done(t)
    PROVE  GoodLedger' /\ GoodJobs'
BY SaveGood, DoneGood

LEMMA FailGood ==
    ASSUME Inv, Persists, NEW t \in Tabs, NEW status \in {"failed", "blocked"}, Fail(t, status)
    PROVE  GoodLedger' /\ GoodJobs'
<1>1. Good(tx', Entry(status, 0), job[t].key)
  BY Plain
<1>2. QED
  BY <1>1, SaveDone DEF Fail

LEMMA ExecutedGood ==
    ASSUME Inv, Persists, NEW t \in Tabs, NEW ref \in Txs \cup Transfers, ref[1] = job[t].key,
           IsPaid(tx, ref, job[t].key), UNCHANGED tx, Executed(t, ref)
    PROVE  GoodLedger' /\ GoodJobs'
<1>1. Good(tx', [Entry("executed", 0) EXCEPT !.ref = ref], job[t].key)
  BY ExecutedIsGood
<1>2. QED
  BY <1>1, SaveDone DEF Executed

-------------------------------------------------------------------------------
(* Every step keeps the ledger and the jobs *)

LEMMA TickKeeps ==
    ASSUME Inv, NEW t \in Tabs, NEW k \in Keys, Tick(t, k)
    PROVE  Persists /\ GoodCircle' /\ GoodLedger' /\ GoodJobs'
<1>1. UNCHANGED <<tx, held>>
  BY DEF Tick, StartClaim, Skip, GiveUp, KeepTrying, StartReconcile, circle
<1>2. Persists /\ GoodCircle'
  BY <1>1, KeptCircle DEF Inv
<1>3. Good(tx', ledger[k], k) /\ \A i \in Keys : Good(tx', ledger[i], i)
  BY <1>2, GoodPersists DEF Inv, GoodLedger
<1>4. ledger[k] \in Entries /\ ledger \in [Keys -> Entries] /\ Rows[k] \in Nat \ {0}
  BY ScheduleAssumption DEF Inv, GoodLedger
<1>5. ASSUME NEW e, Good(tx', e, k), SaveFresh(k, e) PROVE GoodLedger'
  BY <1>3, <1>4, <1>5 DEF SaveFresh, GoodLedger, Good
<1>6. CASE StartClaim(t, k)
  <2> DEFINE j == [Idle EXCEPT !.step = "claim", !.key = k, !.copy = ledger,
                               !.attempts = ledger[k].attempts]
  <2>1. j \in Jobs /\ j.step = "claim" /\ j.key = k /\ j.copy = ledger /\ j.row = 1 /\ j.ref = None
        /\ j.claimed = FALSE
    BY <1>4, IdleTyped DEF Idle, Jobs, Entries
  <2>2. Become(t, j) /\ UNCHANGED ledger
    BY <1>6 DEF StartClaim, storage
  <2> HIDE DEF j
  <2>3. GoodJob(j)
    BY <2>1, <1>4 DEF GoodJob, RowSteps
  <2>4. QED
    BY <1>2, <1>3, <2>1, <2>2, <2>3, BecomeGood, KeptLedger
<1>7. CASE Skip(t, k)
  BY <1>2, <1>5, <1>7, Plain, KeptJobs DEF Skip
<1>8. CASE GiveUp(t, k)
  BY <1>2, <1>5, <1>8, Plain, KeptJobs DEF GiveUp
<1>9. CASE KeepTrying(t, k)
  <2> DEFINE e == [ledger[k] EXCEPT !.attempts = 0]
  <2>1. e \in Entries /\ e.status = "retry_pending" /\ e.ref = ledger[k].ref
    BY <1>4, <1>9 DEF Entries, KeepTrying, Exhausted
  <2>2. SaveFresh(k, e) /\ UNCHANGED job
    BY <1>9 DEF KeepTrying
  <2> HIDE DEF e
  <2>3. Good(tx', e, k)
    BY <2>1, <1>3 DEF Good
  <2>4. QED
    BY <1>2, <1>5, <2>2, <2>3, KeptJobs
<1>10. CASE StartReconcile(t, k)
  <2> DEFINE step == IF ledger[k].status = "submitted" THEN "reconcile" ELSE "resolve"
             j == [Idle EXCEPT !.step = step, !.key = k, !.row = ledger[k].row,
                               !.ref = ledger[k].ref, !.copy = ledger]
  <2>2. Become(t, j) /\ UNCHANGED ledger
    BY <1>10 DEF StartReconcile, storage
  <2>0. /\ step \in {"reconcile", "resolve"} /\ ledger[k].row \in Nat /\ ledger[k].ref \in Refs
        /\ step = "resolve" => ledger[k].status = "execution_unknown"
    BY <1>4, <1>10 DEF StartReconcile, Entries
  <2> HIDE DEF step
  <2>1. /\ j \in Jobs /\ j.key = k /\ j.copy = ledger /\ j.row = ledger[k].row
        /\ j.ref = ledger[k].ref
        /\ j.step \in {"reconcile", "resolve"}
        /\ j.step = "resolve" => ledger[k].status = "execution_unknown"
    <3>1. j \in Jobs
      BY <1>4, <2>0, IdleTyped DEF Idle, Jobs, Running
    <3>2. j.step = step /\ j.key = k /\ j.row = ledger[k].row /\ j.ref = ledger[k].ref
          /\ j.copy = ledger
      BY DEF Idle
    <3> HIDE DEF j
    <3>3. QED
      BY <2>0, <3>1, <3>2
  <2> HIDE DEF j
  <2>3. /\ ledger[k].ref # None => ledger[k].ref[1] = k
        /\ ledger[k].status = "execution_unknown" => ledger[k].row \in 1..Rows[k] /\ k \notin Multisends
    BY <1>3 DEF Good
  <2>4. GoodJob(j)
    BY <2>1, <2>3 DEF GoodJob, RowSteps
  <2>5. QED
    BY <1>2, <1>3, <2>1, <2>2, <2>4, BecomeGood, KeptLedger
<1>11. QED
  BY <1>6, <1>7, <1>8, <1>9, <1>10 DEF Tick

LEMMA ClaimKeeps ==
    ASSUME Inv, NEW t \in Tabs, Claim(t) \/ ClaimRefused(t) \/ MarkExecuting(t)
    PROVE  Persists /\ GoodCircle' /\ GoodLedger' /\ GoodJobs'
<1>1. Persists /\ GoodCircle'
  BY KeptCircle DEF Inv, Claim, ClaimRefused, MarkExecuting, circle
<1>2. GoodJob(job[t]) /\ job[t] \in Jobs
  BY DEF Inv, GoodJobs, GoodJob
<1>3. CASE Claim(t)
  <2> DEFINE j == [job[t] EXCEPT !.step = "mark", !.claimed = TRUE, !.attempts = @ + 1]
  <2>0. job[t].attempts + 1 \in Nat
    BY <1>2 DEF Jobs
  <2>1. /\ j \in Jobs /\ j.step = "mark" /\ j.key = job[t].key /\ j.row = job[t].row
        /\ j.ref = job[t].ref /\ j.copy = job[t].copy /\ j.claimed
    <3>1. j \in Jobs
      BY <1>2, <2>0 DEF Jobs, Running
    <3>2. j.step = "mark" /\ j.key = job[t].key /\ j.row = job[t].row
      BY <1>2 DEF Jobs
    <3>3. j.ref = job[t].ref /\ j.copy = job[t].copy
      BY <1>2 DEF Jobs
    <3>4. j.claimed = TRUE
      BY <1>2 DEF Jobs
    <3> HIDE DEF j
    <3>5. QED
      BY <3>1, <3>2, <3>3, <3>4
  <2>2. Become(t, j) /\ UNCHANGED ledger /\ job[t].step = "claim"
    BY <1>3 DEF Claim, At
  <2> HIDE DEF j
  <2>3. GoodJob(j)
    BY <1>2, <2>1, <2>2 DEF GoodJob, RowSteps
  <2>4. QED
    BY <1>1, <2>1, <2>2, <2>3, BecomeGood, KeptCopy, KeptLedger
<1>4. CASE ClaimRefused(t)
  BY <1>1, <1>4, DoneGood, KeptLedger DEF ClaimRefused, storage
<1>5. CASE MarkExecuting(t)
  <2>1. ledger' \in [Keys -> Entries]
    <3>1. Entry("executing", 0) \in Entries
      BY Plain DEF Good
    <3>2. QED
      BY <1>2, <1>5, <3>1 DEF MarkExecuting, SaveAndGo, Save, Jobs
  <2> DEFINE j == [job[t] EXCEPT !.step = "prepare", !.copy = ledger']
  <2>2. /\ j \in Jobs /\ j.step = "prepare" /\ j.key = job[t].key /\ j.row = job[t].row
        /\ j.ref = job[t].ref /\ j.copy = ledger' /\ j.claimed = job[t].claimed
    BY <1>2, <2>1 DEF Jobs, Running
  <2>3. Become(t, j) /\ Save(t, Entry("executing", 0)) /\ job[t].step = "mark"
    BY <1>5 DEF MarkExecuting, SaveAndGo, At
  <2> HIDE DEF j
  <2>4. GoodJob(j)
    BY <1>2, <2>2, <2>3 DEF GoodJob, RowSteps
  <2>5. Good(tx', Entry("executing", 0), job[t].key)
    BY Plain
  <2>6. QED
    BY <1>1, <2>2, <2>3, <2>4, <2>5, AfterSave
<1>6. QED
  BY <1>3, <1>4, <1>5

LEMMA PrepareKeeps ==
    ASSUME Inv, NEW t \in Tabs, Prepare(t)
    PROVE  Persists /\ GoodCircle' /\ GoodLedger' /\ GoodJobs'
<1>1. Persists /\ GoodCircle'
  BY KeptCircle DEF Inv, Prepare, circle
<1>2. GoodJob(job[t]) /\ job[t] \in Jobs /\ job[t].step = "prepare"
  BY DEF Inv, GoodJobs, GoodJob, Prepare, At
<1>3. job[t].key \in Keys /\ job[t].row \in 1..Rows[job[t].key] /\ job[t].attempts \in Nat
      /\ job[t].claimed /\ job[t].copy \in [Keys -> Entries]
  BY <1>2 DEF GoodJob, RowSteps, Jobs
<1>4. PICK e : /\ Good(tx', e, job[t].key) /\ SaveAndGo(t, e, "send")
  <2>1. CASE job[t].key \in Multisends
    <3>1. Good(tx', Entry("in_progress", job[t].attempts), job[t].key)
      BY <1>3, Plain
    <3>2. SaveAndGo(t, Entry("in_progress", job[t].attempts), "send")
      BY <2>1 DEF Prepare
    <3>3. QED
      BY <3>1, <3>2
  <2>2. CASE job[t].key \notin Multisends
    <3>1. Good(tx', [Entry("execution_unknown", 0) EXCEPT !.row = job[t].row], job[t].key)
      BY <1>3, <2>2, IntentGood
    <3>2. SaveAndGo(t, [Entry("execution_unknown", 0) EXCEPT !.row = job[t].row], "send")
      BY <2>2 DEF Prepare
    <3>3. QED
      BY <3>1, <3>2
  <2>3. QED
    BY <2>1, <2>2
<1> DEFINE j == [job[t] EXCEPT !.step = "send", !.copy = ledger']
<1>5. Become(t, j) /\ Save(t, e)
  BY <1>4 DEF SaveAndGo
<1>6. ledger' \in [Keys -> Entries]
  BY <1>3, <1>4, <1>5 DEF Save, Good
<1>7. /\ j \in Jobs /\ j.step = "send" /\ j.key = job[t].key /\ j.row = job[t].row
      /\ j.ref = job[t].ref /\ j.copy = ledger' /\ j.claimed = job[t].claimed
  BY <1>2, <1>6 DEF Jobs, Running
<1> HIDE DEF j
<1>8. GoodJob(j)
  BY <1>2, <1>3, <1>7 DEF GoodJob, RowSteps
<1>9. QED
  BY <1>1, <1>4, <1>5, <1>7, <1>8, AfterSave

LEMMA SentGood ==
    ASSUME Inv, Persists, NEW t \in Tabs, job[t].key \in Keys, job[t].claimed,
           job[t].row \in 1..Rows[job[t].key],
           NEW ref \in Txs \cup Transfers, ref[1] = job[t].key, Sent(t, ref)
    PROVE  GoodLedger' /\ GoodJobs'
<1>1. job[t] \in Jobs /\ job[t].copy \in [Keys -> Entries] /\ job[t].attempts \in Nat
  BY DEF Inv, GoodJobs, Jobs
<1>2. PICK e : Good(tx', e, job[t].key) /\ Save(t, e)
  <2>1. CASE job[t].key \in Multisends
    <3>1. Good(tx', Entry("in_progress", job[t].attempts), job[t].key)
      BY <1>1, Plain
    <3>2. QED
      BY <2>1, <3>1 DEF Sent
  <2>2. CASE job[t].key \notin Multisends
    <3>1. Good(tx', [Entry("submitted", 0) EXCEPT !.ref = ref], job[t].key)
      BY SubmittedGood
    <3>2. QED
      BY <2>2, <3>1 DEF Sent
  <2>3. QED
    BY <2>1, <2>2
<1> DEFINE j == [job[t] EXCEPT !.step = "receipt", !.ref = ref, !.copy = ledger']
<1>3. Become(t, j) \/ Done(t)
  BY DEF Sent
<1>4. ledger' \in [Keys -> Entries]
  BY <1>1, <1>2 DEF Save, Good
<1>5. /\ j \in Jobs /\ j.step = "receipt" /\ j.key = job[t].key /\ j.row = job[t].row
      /\ j.ref = ref /\ j.copy = ledger' /\ j.claimed = job[t].claimed
  BY <1>1, <1>4 DEF Jobs, Running, Refs
<1> HIDE DEF j
<1>6. GoodJob(j)
  BY <1>5 DEF GoodJob, RowSteps
<1>7. QED
  BY <1>2, <1>3, <1>5, <1>6, AfterSave, SaveDone

\* The steps that end badly, or end without an entry.
LEMMA EndKeeps ==
    ASSUME Inv, NEW t \in Tabs,
           \/ Postpone(t) \/ Block(t) \/ PrepareFails(t) \/ ResolveFails(t)
           \/ ReceiptReverted(t) \/ ReconcileReverted(t) \/ Reload(t)
    PROVE  Persists /\ GoodCircle' /\ GoodLedger' /\ GoodJobs'
<1>1. Persists /\ GoodCircle'
  <2>1. UNCHANGED <<tx, held>>
    BY DEF Postpone, Block, PrepareFails, ResolveFails, ReceiptReverted, ReconcileReverted, Reload,
           circle
  <2>2. QED
    BY <2>1, KeptCircle DEF Inv
<1>2. CASE Postpone(t)
  <2>1. job[t].attempts \in Nat
    BY DEF Inv, GoodJobs, Jobs
  <2>2. PICK e \in {Entry("awaiting_auth", job[t].attempts), Entry("retry_pending", job[t].attempts),
                    [Entry("retry_pending", job[t].attempts) EXCEPT !.transient = TRUE]} :
          Save(t, e)
    BY <1>2 DEF Postpone
  <2>3. Good(tx', e, job[t].key)
    BY <2>1, <2>2, Plain, TransientGood
  <2>4. QED
    BY <1>1, <1>2, <2>2, <2>3, SaveDone DEF Postpone
<1>3. CASE Reload(t)
  BY <1>1, <1>3, DoneGood, KeptLedger DEF Reload, storage
<1>4. CASE Block(t) \/ PrepareFails(t) \/ ResolveFails(t) \/ ReceiptReverted(t)
           \/ ReconcileReverted(t)
  <2>1. Fail(t, "failed") \/ Fail(t, "blocked")
    BY <1>4 DEF Block, PrepareFails, ResolveFails, ReceiptReverted, ReconcileReverted
  <2>2. QED
    BY <1>1, <2>1, FailGood
<1>5. QED
  BY <1>2, <1>3, <1>4

\* Answers of the signer that a tab goes on with.
LEMMA AnsweredKeeps ==
    ASSUME Inv, NEW t \in Tabs, SendKnown(t) \/ Answer(t) \/ AnswerPending(t)
    PROVE  Persists /\ GoodCircle' /\ GoodLedger' /\ GoodJobs'
<1>1. /\ job[t].key \in Keys /\ job[t].row \in 1..Rows[job[t].key] /\ Transfer(t) \in Transfers
      /\ This(t) \in Transfers /\ This(t)[1] = job[t].key /\ Transfer(t)[1] = job[t].key
  BY Sender DEF SendKnown, Answer, AnswerPending
<1>2. job[t].claimed
  BY DEF Inv, GoodJobs, GoodJob, SendKnown, Answer, AnswerPending, At
<1>3. /\ UNCHANGED tx \/ \E x \in Txs : Make(x, Transfer(t))
      /\ UNCHANGED held \/ RecordFailed(Transfer(t)) \/ Broadcast(Transfer(t))
  BY DEF SendKnown, Answer, AnswerPending, Unrecorded, Broadcast, circle
<1>4. Persists /\ GoodCircle'
  BY <1>1, <1>3, CallCircle DEF Inv
<1>5. PICK ref \in Txs \cup Transfers : ref[1] = job[t].key /\ Sent(t, ref)
  <2>1. CASE SendKnown(t)
    <3>1. OnRecord(This(t)) => held[This(t)] \in Txs /\ held[This(t)][1] = job[t].key
      BY <1>1, HeldOf DEF OnRecord, Inv
    <3>2. QED
      BY <1>1, <2>1, <3>1 DEF SendKnown
  <2>2. CASE Answer(t)
    <3>1. PICK x \in Txs : tx'[x] # tx[x] /\ (Sent(t, x) \/ Sent(t, This(t)))
      BY <2>2 DEF Answer
    <3>2. PICK y \in Txs : Make(y, Transfer(t))
      BY <2>2 DEF Answer, Broadcast, Unrecorded
    <3>3. x = y /\ Of(y) = Transfer(t)
      BY <3>1, <3>2 DEF Make, Inv, GoodCircle
    <3>4. x[1] = job[t].key
      BY <3>3 DEF Of, Transfer
    <3>5. QED
      BY <1>1, <3>1, <3>4
  <2>3. CASE AnswerPending(t)
    BY <1>1, <2>3 DEF AnswerPending
  <2>4. QED
    BY <2>1, <2>2, <2>3
<1>6. QED
  BY <1>1, <1>2, <1>4, <1>5, SentGood

\* The request is on its way, or the tab has no answer of it.
LEMMA CallKeeps ==
    ASSUME Inv, NEW t \in Tabs,
           Send(t) \/ SendThrows(t) \/ AnswerThrows(t) \/ AnswerLost(t)
    PROVE  Persists /\ GoodCircle' /\ GoodLedger' /\ GoodJobs'
<1>1. Transfer(t) \in Transfers
  BY Sender DEF Send, SendThrows, AnswerThrows, AnswerLost
<1>2. /\ UNCHANGED tx \/ \E x \in Txs : Make(x, Transfer(t))
      /\ UNCHANGED held \/ RecordFailed(Transfer(t)) \/ Broadcast(Transfer(t))
  BY DEF Send, SendThrows, AnswerThrows, AnswerLost, CallFails, Unrecorded, circle
<1>3. Persists /\ GoodCircle'
  BY <1>1, <1>2, CallCircle DEF Inv
<1>4. PICK step \in {"wait", "resolve"} : Goto(t, step) /\ UNCHANGED ledger
  BY DEF Send, SendThrows, AnswerThrows, AnswerLost, storage
<1>5. GoodJob(job[t]) /\ job[t] \in Jobs /\ job[t].step \in {"send", "wait"}
  BY DEF Inv, GoodJobs, GoodJob, Send, SendThrows, AnswerThrows, AnswerLost, At
<1> DEFINE j == [job[t] EXCEPT !.step = step]
<1>6. /\ j \in Jobs /\ j.step = step /\ j.key = job[t].key /\ j.row = job[t].row
      /\ j.ref = job[t].ref /\ j.copy = job[t].copy /\ j.claimed = job[t].claimed
  BY <1>5 DEF Jobs, Running
<1>7. Become(t, j)
  BY <1>4 DEF Goto
<1> HIDE DEF j
<1>8. GoodJob(j)
  BY <1>5, <1>6 DEF GoodJob, RowSteps
<1>9. QED
  BY <1>3, <1>4, <1>6, <1>7, <1>8, BecomeGood, KeptCopy, KeptLedger

LEMMA ResolveKeeps ==
    ASSUME Inv, NEW t \in Tabs, Resolve(t)
    PROVE  Persists /\ GoodCircle' /\ GoodLedger' /\ GoodJobs'
<1>1. job[t].key \in Keys /\ job[t].row \in 1..Rows[job[t].key]
  BY Sender DEF Resolve
<1>2. GoodJob(job[t]) /\ job[t] \in Jobs /\ job[t].step = "resolve"
      /\ job[t].copy \in [Keys -> Entries]
  BY DEF Inv, GoodJobs, GoodJob, Resolve, At, Jobs
<1>3. Persists /\ GoodCircle'
  BY KeptCircle DEF Inv, Resolve, circle
<1>4. PICK x \in Txs :
        /\ Of(x) = <<job[t].key, job[t].row>>
        /\ job[t].key \in Multisends => Sent(t, x)
        /\ job[t].key \notin Multisends =>
              /\ Save(t, [Entry("submitted", 0) EXCEPT !.ref = x])
              /\ Become(t, [job[t] EXCEPT !.step = "reconcile", !.ref = x, !.copy = ledger'])
  BY DEF Resolve
<1>5. x[1] = job[t].key
  BY <1>4 DEF Of
<1>6. CASE job[t].key \in Multisends
  BY <1>1, <1>2, <1>3, <1>4, <1>5, <1>6, SentGood DEF GoodJob
<1>7. CASE job[t].key \notin Multisends
  <2> DEFINE j == [job[t] EXCEPT !.step = "reconcile", !.ref = x, !.copy = ledger']
             e == [Entry("submitted", 0) EXCEPT !.ref = x]
  <2>1. Good(tx', e, job[t].key)
    BY <1>5, SubmittedGood
  <2>2. Save(t, e) /\ Become(t, j)
    BY <1>4, <1>7
  <2> HIDE DEF e
  <2>3. ledger' \in [Keys -> Entries]
    BY <1>2, <2>1, <2>2 DEF Save, Good
  <2>4. /\ j \in Jobs /\ j.step = "reconcile" /\ j.key = job[t].key /\ j.row = job[t].row
        /\ j.ref = x /\ j.copy = ledger' /\ j.claimed = job[t].claimed
    BY <1>2, <2>3 DEF Jobs, Running, Refs
  <2> HIDE DEF j
  <2>5. GoodJob(j)
    BY <1>1, <1>2, <1>5, <2>4 DEF GoodJob, RowSteps
  <2>6. QED
    BY <1>3, <2>1, <2>2, <2>4, <2>5, AfterSave
<1>8. QED
  BY <1>6, <1>7

\* The next row, from the copy that was kept or from the ledger just written.
LEMMA NextRowKeeps ==
    ASSUME Inv, NEW t \in Tabs, NextRow(t)
    PROVE  Persists /\ GoodCircle' /\ GoodLedger' /\ GoodJobs'
<1>1. Persists /\ GoodCircle'
  BY KeptCircle DEF Inv, NextRow, circle
<1>2. GoodJob(job[t]) /\ job[t] \in Jobs /\ job[t].step = "receipt"
      /\ job[t].copy \in [Keys -> Entries] /\ job[t].attempts \in Nat
  BY DEF Inv, GoodJobs, GoodJob, NextRow, At, Jobs
<1>3. job[t].key \in Keys /\ job[t].row \in 1..Rows[job[t].key] /\ job[t].claimed
      /\ Rows[job[t].key] \in Nat
  BY <1>2, ScheduleAssumption DEF GoodJob, RowSteps
<1>4. job[t].row + 1 \in 1..Rows[job[t].key] /\ job[t].row + 1 \in Nat
  BY <1>3 DEF NextRow
<1> DEFINE c == IF job[t].key \in Multisends THEN ledger' ELSE job[t].copy
           j == [job[t] EXCEPT !.step = "prepare", !.row = @ + 1, !.ref = None, !.copy = c]
<1>5. Become(t, j)
  BY DEF NextRow
<1>6. GoodLedger' /\ c \in [Keys -> Entries] /\ \A k \in Keys : Good(tx', c[k], k)
  <2>1. CASE job[t].key \in Multisends
    <3>1. Good(tx', Entry("in_progress", job[t].attempts), job[t].key)
      BY <1>2, Plain
    <3>2. Save(t, Entry("in_progress", job[t].attempts))
      BY <2>1 DEF NextRow
    <3>3. GoodLedger'
      BY <1>1, <3>1, <3>2, SaveGood
    <3>4. QED
      BY <2>1, <3>3 DEF GoodLedger
  <2>2. CASE job[t].key \notin Multisends
    <3>1. UNCHANGED ledger
      BY <2>2 DEF NextRow
    <3>2. QED
      BY <1>1, <1>2, <2>2, <3>1, KeptLedger, KeptCopy
  <2>3. QED
    BY <2>1, <2>2
<1> HIDE DEF c
<1>7. /\ j \in Jobs /\ j.step = "prepare" /\ j.key = job[t].key /\ j.row = job[t].row + 1
      /\ j.ref = None /\ j.copy = c /\ j.claimed = job[t].claimed
  <2>1. j \in Jobs
    BY <1>2, <1>4, <1>6 DEF Jobs, Running, Refs
  <2>2. j.step = "prepare" /\ j.key = job[t].key /\ j.row = job[t].row + 1
    BY <1>2 DEF Jobs
  <2>3. j.ref = None /\ j.copy = c /\ j.claimed = job[t].claimed
    BY <1>2 DEF Jobs
  <2> HIDE DEF j
  <2>4. QED
    BY <2>1, <2>2, <2>3
<1> HIDE DEF j
<1>8. GoodJob(j)
  BY <1>3, <1>4, <1>7 DEF GoodJob, RowSteps
<1>9. QED
  BY <1>1, <1>5, <1>6, <1>7, <1>8, BecomeGood

LEMMA ExecutedKeeps ==
    ASSUME Inv, NEW t \in Tabs, Finish(t) \/ ReconcileSucceeded(t)
    PROVE  Persists /\ GoodCircle' /\ GoodLedger' /\ GoodJobs'
<1>1. UNCHANGED <<tx, held>>
  BY DEF Finish, ReconcileSucceeded, circle
<1>2. Persists /\ GoodCircle'
  BY <1>1, KeptCircle DEF Inv
<1>3. Succeeded(job[t].ref) /\ (Executed(t, job[t].ref) \/ Executed(t, Hash(job[t].ref)))
  BY DEF Finish, ReconcileSucceeded
<1>4. PICK ref \in Txs \cup Transfers :
        ref[1] = job[t].key /\ IsPaid(tx, ref, job[t].key) /\ Executed(t, ref)
  BY <1>3, SettledPaid
<1>5. QED
  BY <1>1, <1>2, <1>4, ExecutedGood

LEMMA LateKeeps ==
    ASSUME Inv, NEW t \in Tabs, ReceiptLate(t) \/ ReconcileLate(t)
    PROVE  Persists /\ GoodCircle' /\ GoodLedger' /\ GoodJobs'
<1>1. Persists /\ GoodCircle'
  BY KeptCircle DEF Inv, ReceiptLate, ReconcileLate, circle
<1>2. job[t].ref \in Refs /\ (job[t].ref # None => job[t].ref[1] = job[t].key)
  BY DEF Inv, GoodJobs, GoodJob, Jobs
<1>3. Done(t)
  BY DEF ReceiptLate, ReconcileLate
<1>4. CASE UNCHANGED ledger
  BY <1>1, <1>3, <1>4, KeptLedger, DoneGood
<1>5. CASE ledger' # ledger
  <2>1. PICK ref \in {job[t].ref, Hash(job[t].ref)} \ {None} :
          Save(t, [Entry("submitted", 0) EXCEPT !.ref = ref])
    <3>1. CASE ReceiptLate(t)
      BY <1>5, <3>1 DEF ReceiptLate
    <3>2. CASE ReconcileLate(t)
      BY <1>5, <3>2, NoneApart DEF ReconcileLate
    <3>3. QED
      BY <3>1, <3>2
  <2>2. ref \in Txs \cup Transfers /\ ref[1] = job[t].key
    <3>1. CASE job[t].ref \in Transfers
      BY <1>2, <2>1, <3>1, NoneApart, HeldOf DEF Hash, Inv
    <3>2. CASE job[t].ref \notin Transfers
      BY <1>2, <2>1, <3>2 DEF Hash, Refs
    <3>3. QED
      BY <3>1, <3>2
  <2>3. Good(tx', [Entry("submitted", 0) EXCEPT !.ref = ref], job[t].key)
    BY <2>2, SubmittedGood
  <2>4. QED
    BY <1>1, <1>3, <2>1, <2>3, SaveDone
<1>6. QED
  BY <1>4, <1>5

-------------------------------------------------------------------------------
(* The claims, the schedules and the clock stay well typed *)

LEMMA TickRest ==
    ASSUME Inv, NEW t \in Tabs, NEW k \in Keys, Tick(t, k)
    PROVE  Rest'
<1>1. Rest
  BY DEF Inv
<1>2. CASE Skip(t, k) \/ GiveUp(t, k)
  <2>1. Advance(t, k) /\ UNCHANGED <<claim, overdue, lost, orphans, history, faults>>
    BY <1>2 DEF Skip, GiveUp, circle
  <2>2. QED
    BY <1>1, <2>1 DEF Rest, Advance, history
<1>3. CASE StartClaim(t, k) \/ KeepTrying(t, k) \/ StartReconcile(t, k)
  <2>1. UNCHANGED <<claim, stored, due, overdue, lost, orphans, history, faults>>
    BY <1>3 DEF StartClaim, KeepTrying, StartReconcile, circle, storage
  <2>2. QED
    BY <1>1, <2>1 DEF Rest, history
<1>4. QED
  BY <1>2, <1>3 DEF Tick

\* Only the clock ends a lease or a day.
LEMMA WorkKeeps ==
    ASSUME NEW t \in Tabs, Work(t)
    PROVE  overdue' = overdue /\ outlived' = outlived
<1>1. overdue' = overdue
  BY DEF Work, Claim, ClaimRefused, MarkExecuting, Postpone, Block, Prepare, PrepareFails, SendKnown,
         Send, SendThrows, Answer, AnswerThrows, AnswerPending, AnswerLost, Resolve, ResolveFails,
         NextRow, Finish, ReceiptReverted, ReceiptLate, ReconcileSucceeded, ReconcileReverted,
         ReconcileLate, Sent
<1>2. outlived' = outlived
  BY DEF Work, Claim, ClaimRefused, MarkExecuting, Postpone, Block, Prepare, PrepareFails, SendKnown,
         Send, SendThrows, Answer, AnswerThrows, AnswerPending, AnswerLost, Resolve, ResolveFails,
         NextRow, Finish, ReceiptReverted, ReceiptLate, ReconcileSucceeded, ReconcileReverted,
         ReconcileLate, history
<1>3. QED
  BY <1>1, <1>2

LEMMA WorkRest ==
    ASSUME Inv, NEW t \in Tabs, Work(t)
    PROVE  Rest'
<1>1. Rest
  BY DEF Inv
<1>2. overdue' = overdue /\ outlived' = outlived
  BY WorkKeeps
<1>3. /\ \/ UNCHANGED claim
         \/ \E k : claim' = [claim EXCEPT ![k] = "claimed"] \/ Release(k)
         \/ \E k : \E status \in {"submitted", "confirmed", "failed"} : UpdateClaim(k, status)
      /\ UNCHANGED <<stored, due>> \/ \E k : Advance(t, k)
      /\ lost' \subseteq Txs
      /\ orphans' \in [Transfers -> Nat]
      /\ crossed' \subseteq Transfers /\ unsent' \subseteq Keys
      /\ faults' = faults \/ \E kind \in Kinds : faults' = faults \cup {kind}
  <2>1. CASE Claim(t) \/ ClaimRefused(t) \/ MarkExecuting(t) \/ Prepare(t) \/ NextRow(t)
    BY <1>1, <2>1 DEF Claim, ClaimRefused, MarkExecuting, Prepare, NextRow, circle, storage, history, Rest
  <2>2. CASE Postpone(t) \/ Block(t) \/ PrepareFails(t)
    BY <1>1, <2>2 DEF Postpone, Block, PrepareFails, Fail, Fault, circle, history, Rest
  <2>3. CASE SendKnown(t) \/ Answer(t) \/ AnswerPending(t)
    <3>1. job[t].key \in Keys
      BY <2>3, Sender DEF SendKnown, Answer, AnswerPending
    <3>2. lost' \subseteq Txs
      BY <1>1, <2>3 DEF SendKnown, Answer, AnswerPending, Broadcast, Unrecorded, circle, Rest
    <3>3. UNCHANGED <<orphans, crossed>> /\ unsent' \subseteq Keys
      BY <1>1, <2>3, <3>1 DEF SendKnown, Answer, AnswerPending, circle, history, Rest
    <3>4. faults' = faults \/ \E kind \in Kinds : faults' = faults \cup {kind}
      BY <2>3 DEF SendKnown, Answer, AnswerPending, Unrecorded, Fault
    <3>5. UpdateClaim(job[t].key, "submitted") /\ UNCHANGED <<stored, due>>
      BY <2>3 DEF SendKnown, Answer, AnswerPending, Sent
    <3>6. QED
      BY <1>1, <3>2, <3>3, <3>4, <3>5 DEF Rest
  <2>4. CASE Send(t) \/ SendThrows(t) \/ AnswerThrows(t) \/ AnswerLost(t)
    <3>1. Transfer(t) \in Transfers /\ This(t) \in Transfers
      BY <2>4, Sender DEF Send, SendThrows, AnswerThrows, AnswerLost
    <3>2. UNCHANGED <<claim, stored, due, unsent>>
      BY <2>4 DEF Send, SendThrows, AnswerThrows, AnswerLost, storage, history
    <3>3. lost' \subseteq Txs
      <4>1. OnRecord(This(t)) => held[This(t)] \in Txs
        BY <3>1 DEF OnRecord, Inv, GoodCircle
      <4>2. QED
        BY <1>1, <2>4, <4>1 DEF Send, SendThrows, AnswerThrows, AnswerLost, CallFails, Unrecorded, circle,
                                Rest
    <3>4. orphans' \in [Transfers -> Nat] /\ crossed' \subseteq Transfers
      BY <1>1, <2>4, <3>1 DEF Send, SendThrows, AnswerThrows, AnswerLost, circle, history, Rest
    <3>5. faults' = faults \/ \E kind \in Kinds : faults' = faults \cup {kind}
      BY <2>4 DEF Send, SendThrows, AnswerThrows, AnswerLost, CallFails, Unrecorded, Fault
    <3>6. QED
      BY <1>1, <3>2, <3>3, <3>4, <3>5 DEF Rest
  <2>5. CASE Resolve(t) \/ ResolveFails(t)
    BY <1>1, <2>5 DEF Resolve, ResolveFails, Fail, Sent, circle, history, Rest
  <2>6. CASE Finish(t) \/ ReceiptReverted(t) \/ ReconcileSucceeded(t) \/ ReconcileReverted(t)
    BY <1>1, <2>6 DEF Finish, ReceiptReverted, ReconcileSucceeded, ReconcileReverted, Executed, Fail,
                      circle, history, Rest
  <2>7. CASE ReceiptLate(t) \/ ReconcileLate(t)
    BY <1>1, <2>7 DEF ReceiptLate, ReconcileLate, Late, Fault, circle, history, Rest
  <2>8. QED
    BY <2>1, <2>2, <2>3, <2>4, <2>5, <2>6, <2>7 DEF Work
<1>4. claim' \in [Keys -> Claims]
  BY <1>1, <1>3 DEF Rest, Release, UpdateClaim, Claims
<1>5. stored' \in [Keys -> BOOLEAN] /\ due' \in [Tabs -> [Keys -> BOOLEAN]]
  <2>1. CASE UNCHANGED <<stored, due>>
    BY <1>1, <2>1 DEF Rest
  <2>2. ASSUME NEW k, Advance(t, k)
        PROVE  stored' \in [Keys -> BOOLEAN] /\ due' \in [Tabs -> [Keys -> BOOLEAN]]
    <3>1. due \in [Tabs -> [Keys -> BOOLEAN]] /\ due[t] \in [Keys -> BOOLEAN]
      BY <1>1 DEF Rest
    <3>2. [due[t] EXCEPT ![k] = FALSE] \in [Keys -> BOOLEAN]
      BY <3>1
    <3>3. due' = [due EXCEPT ![t] = [due[t] EXCEPT ![k] = FALSE]] /\ stored' = due'[t]
      BY <2>2 DEF Advance
    <3>4. QED
      BY <3>1, <3>2, <3>3
  <2>3. QED
    BY <1>3, <2>1, <2>2
<1>6. QED
  BY <1>1, <1>2, <1>3, <1>4, <1>5 DEF Rest

LEMMA OrphanKeeps ==
    ASSUME Inv, NEW r \in Transfers, Orphan(r)
    PROVE  Inv'
<1>1. /\ UNCHANGED tx \/ \E x \in Txs : Make(x, r)
      /\ UNCHANGED held \/ RecordFailed(r) \/ Broadcast(r)
  BY DEF Orphan, CallFails, Unrecorded, Broadcast
<1>2. Persists /\ GoodCircle'
  BY <1>1, CallCircle DEF Inv
<1>3. UNCHANGED <<ledger, job>> /\ UNCHANGED <<claim, stored, due, overdue, outlived, crossed, unsent>>
  BY DEF Orphan, storage, tabs, history
<1>4. Rest'
  <2>1. orphans' \in [Transfers -> Nat]
    BY DEF Orphan, Inv, Rest
  <2>2. lost' \subseteq Txs /\ faults' \subseteq Kinds
    BY DEF Orphan, Broadcast, CallFails, Unrecorded, Fault, Inv, Rest
  <2>3. QED
    BY <1>3, <2>1, <2>2 DEF Inv, Rest
<1>5. QED
  BY <1>2, <1>3, <1>4, KeptLedger, KeptJobs DEF Inv

LEMMA ReloadRest ==
    ASSUME Inv, NEW t \in Tabs, Reload(t)
    PROVE  Rest'
<1>1. Rest
  BY DEF Inv
<1>2. due' \in [Tabs -> [Keys -> BOOLEAN]] /\ faults' \subseteq Kinds
  BY <1>1 DEF Reload, Fault, Rest
<1>3. orphans' \in [Transfers -> Nat]
  <2>1. CASE At(t, "wait")
    <3>1. Transfer(t) \in Transfers
      BY <2>1, Sender
    <3>2. QED
      BY <1>1, <2>1, <3>1 DEF Reload, Rest
  <2>2. CASE ~At(t, "wait")
    BY <1>1, <2>2 DEF Reload, Rest
  <2>3. QED
    BY <2>1, <2>2
<1>4. QED
  BY <1>1, <1>2, <1>3 DEF Reload, Rest, storage, history

LEMMA WorldKeeps ==
    ASSUME Inv, \/ \E x \in Txs : Mine(x)
                \/ \E k \in Keys : ExpireLease(k)
                \/ ADayPasses \/ UNCHANGED vars
    PROVE  Inv'
<1>1. Persists /\ GoodCircle'
  <2>1. CASE \E x \in Txs : Mine(x)
    BY <2>1, MineCircle DEF Inv
  <2>2. CASE UNCHANGED <<tx, held>>
    BY <2>2, KeptCircle DEF Inv
  <2>3. QED
    BY <2>1, <2>2 DEF ExpireLease, ADayPasses, vars, circle
<1>2. UNCHANGED <<ledger, job>>
  BY DEF Mine, ExpireLease, ADayPasses, vars, storage, tabs
<1>3. Rest'
  <2>1. Rest
    BY DEF Inv
  <2>2. UNCHANGED <<stored, due, lost, orphans, crossed, unsent, faults>>
    BY DEF Mine, ExpireLease, ADayPasses, vars, storage, tabs, circle, history
  <2>3. claim' \in [Keys -> Claims] /\ overdue' \in BOOLEAN /\ outlived' \subseteq Keys
    BY <2>1 DEF Mine, ExpireLease, ADayPasses, vars, storage, history, Rest, Claims
  <2>4. QED
    BY <2>1, <2>2, <2>3 DEF Rest
<1>4. QED
  BY <1>1, <1>2, <1>3, KeptLedger, KeptJobs DEF Inv

LEMMA StepKeeps == Inv /\ [Next]_vars => Inv'
<1> SUFFICES ASSUME Inv, [Next]_vars PROVE Inv'
  OBVIOUS
<1>1. ASSUME NEW t \in Tabs, NEW k \in Keys, Tick(t, k) PROVE Inv'
  BY <1>1, TickKeeps, TickRest DEF Inv
<1>2. ASSUME NEW t \in Tabs, Work(t) PROVE Inv'
  <2>1. Rest'
    BY <1>2, WorkRest
  <2>2. GoodCircle' /\ GoodLedger' /\ GoodJobs'
    BY <1>2, ClaimKeeps, PrepareKeeps, EndKeeps, AnsweredKeeps, CallKeeps,
       ResolveKeeps, NextRowKeeps, ExecutedKeeps, LateKeeps DEF Work
  <2>3. QED
    BY <2>1, <2>2 DEF Inv
<1>3. ASSUME NEW t \in Tabs, Reload(t) PROVE Inv'
  BY <1>3, ReloadRest, EndKeeps DEF Inv
<1>4. ASSUME NEW r \in Transfers, Orphan(r) PROVE Inv'
  BY <1>4, OrphanKeeps
<1>5. QED
  BY <1>1, <1>2, <1>3, <1>4, WorldKeeps DEF Next

LEMMA InitGood == Init => Inv
<1> SUFFICES ASSUME Init PROVE Inv
  OBVIOUS
<1>1. GoodLedger
  BY IdleTyped DEF Init, GoodLedger, Good, NoEntry
<1>2. GoodJobs
  BY IdleTyped, IdleGood DEF Init, GoodJobs
<1>3. GoodCircle
  BY DEF Init, GoodCircle
<1>4. Rest
  BY DEF Init, Rest, Claims
<1>5. QED
  BY <1>1, <1>2, <1>3, <1>4 DEF Inv

LEMMA AlwaysGood == Spec => []Inv
BY InitGood, StepKeeps, PTL DEF Spec

\* The type invariant of the model.
THEOREM TypeCorrect == Spec => []TypeOK
<1>1. Inv => TypeOK
  BY DEF Inv, GoodLedger, GoodJobs, GoodCircle, Rest, TypeOK
<1>2. QED
  BY <1>1, AlwaysGood, PTL

\* What stands as executed was paid: an entry, and each copy of it, speaks of
\* its own occurrence, and what is confirmed stays so.
THEOREM ExecutionIsPaid == Spec => []ExecutedIsPaid
<1>1. ASSUME Inv PROVE ExecutedIsPaid
  <2>1. ASSUME NEW k \in Keys, NEW e \in {ledger[k]} \cup {job[t].copy[k] : t \in Tabs},
               e.status = "executed"
        PROVE  IsPaid(tx, e.ref, k)
    <3>1. Good(tx, e, k)
      BY <1>1 DEF Inv, GoodLedger, GoodJobs
    <3>2. QED
      BY <2>1, <3>1 DEF Good
  <2>2. QED
    BY <2>1 DEF ExecutedIsPaid, IsPaid
<1>2. QED
  BY <1>1, AlwaysGood, PTL

-------------------------------------------------------------------------------
(* One transaction of a transfer *)

Waits(t, e) == At(t, "wait") /\ This(t) = e
Left(r, e) == orphans[r] > 0 /\ Execution(r[1], r[2]) = e

\* One request of an execution at most is past the look for a record.
Alone(e) ==
    /\ \A t, u \in Tabs : Waits(t, e) /\ Waits(u, e) => t = u
    /\ \A t \in Tabs, r \in Transfers : ~(Waits(t, e) /\ Left(r, e))
    /\ \A q, r \in Transfers : Left(q, e) /\ Left(r, e) => q = r /\ orphans[r] = 1

\* Its transactions whose record was not lost are on record, and no request of
\* it that missed the record is underway.
OnItsRecord(e) == \A x \in Txs :
    Execution(x[1], x[2]) = e /\ tx[x] # "none" /\ x \notin lost => held[e] = x /\ ~Underway(e)

Recorded == \A e \in Transfers \ crossed : Alone(e) /\ OnItsRecord(e)

LEMMA UnderwayIs ==
    ASSUME NEW e
    PROVE  Underway(e) <=> (\E t \in Tabs : Waits(t, e)) \/ (\E r \in Transfers : Left(r, e))
BY DEF Underway, Waits, Left

LEMMA UnderwayNext ==
    ASSUME NEW e
    PROVE  Underway(e)' <=> (\E t \in Tabs : Waits(t, e)') \/ (\E r \in Transfers : Left(r, e)')
BY DEF Underway, Waits, Left

\* A step that adds no request of e, nor a transaction of it that has a record.
LEMMA Elsewhere ==
    ASSUME Inv, NEW e \in Transfers, Alone(e), OnItsRecord(e),
           \A t \in Tabs : Waits(t, e)' => Waits(t, e),
           \A r \in Transfers : Left(r, e)' => Left(r, e) /\ orphans'[r] <= orphans[r],
           \A x \in Txs : Execution(x[1], x[2]) = e /\ tx'[x] # "none" /\ x \notin lost'
                          => tx[x] # "none" /\ x \notin lost,
           held'[e] = held[e], orphans' \in [Transfers -> Nat]
    PROVE  Alone(e)' /\ OnItsRecord(e)'
<1>1. Alone(e)'
  <2>1. \A t, u \in Tabs : Waits(t, e)' /\ Waits(u, e)' => t = u
    BY DEF Alone
  <2>2. \A t \in Tabs, r \in Transfers : ~(Waits(t, e)' /\ Left(r, e)')
    BY DEF Alone
  <2>3. ASSUME NEW q \in Transfers, NEW r \in Transfers, Left(q, e)', Left(r, e)'
        PROVE  q = r /\ orphans'[r] = 1
    <3>1. q = r /\ orphans[r] = 1 /\ orphans'[r] <= orphans[r]
      BY <2>3 DEF Alone
    <3>2. orphans'[r] \in Nat /\ orphans'[r] > 0
      BY <2>3 DEF Left
    <3>3. QED
      BY <3>1, <3>2
  <2>4. QED
    BY <2>1, <2>2, <2>3 DEF Alone
<1>2. ~Underway(e) => ~Underway(e)'
  BY UnderwayIs, UnderwayNext
<1>3. OnItsRecord(e)'
  BY <1>2 DEF OnItsRecord
<1>4. QED
  BY <1>1, <1>3

\* What becomes of the jobs leaves the other executions' requests alone.
LEMMA OthersWait ==
    ASSUME Inv, NEW t \in Tabs, NEW j, Become(t, j), NEW e,
           j.step = "wait" => job[t].key = j.key /\ job[t].row = j.row /\ (At(t, "wait") \/ This(t) # e)
    PROVE  \A u \in Tabs : Waits(u, e)' => Waits(u, e)
<1>1. job'[t] = j /\ \A u \in Tabs \ {t} : job'[u] = job[u]
  BY DEF Become, Inv, GoodJobs
<1>2. ASSUME NEW u \in Tabs, u # t, Waits(u, e)' PROVE Waits(u, e)
  BY <1>1, <1>2 DEF Waits, At, This
<1>3. ASSUME Waits(t, e)' PROVE Waits(t, e)
  <2>1. j.step = "wait" /\ Execution(j.key, j.row) = e
    BY <1>1, <1>3 DEF Waits, At, This
  <2>2. QED
    BY <2>1 DEF Waits, This
<1>4. QED
  BY <1>2, <1>3

\* A request that ends, with a transaction or without.
Ends(r) ==
    \/ Broadcast(r)
    \/ /\ \E x \in Txs : Make(x, r) /\ lost' = lost \cup {x}
       /\ RecordFailed(r) \/ UNCHANGED held
    \/ RecordFailed(r) /\ UNCHANGED <<tx, lost>>

LEMMA EndRecords ==
    ASSUME Inv, Recorded, NEW r \in Transfers, NEW e, e = Execution(r[1], r[2]), Ends(r), Underway(e),
           UNCHANGED crossed, orphans' \in [Transfers -> Nat],
           \A f \in Transfers : \A t \in Tabs : Waits(t, f)' => Waits(t, f),
           \A f \in Transfers : \A q \in Transfers :
              Left(q, f)' => Left(q, f) /\ orphans'[q] <= orphans[q],
           Alone(e) => ~Underway(e)'
    PROVE  Recorded'
<1>1. e \in Transfers /\ r = <<r[1], r[2]>>
  BY TransferShape, TransferValues
<1>2. /\ tx \in [Txs -> {"none", "sent", "confirmed", "reverted"}]
      /\ held \in [Transfers -> Txs \cup {None}]
  BY DEF Inv, GoodCircle
<1>3. \A f \in Transfers \ {e} : held'[f] = held[f]
  BY <1>1, <1>2 DEF Ends, Broadcast, RecordFailed
<1>4. ASSUME NEW x \in Txs, tx'[x] # "none", x \notin lost'
      PROVE  \/ tx[x] # "none" /\ x \notin lost
             \/ Execution(x[1], x[2]) = e /\ held'[e] = x
  <2>1. CASE Broadcast(r)
    <3>1. PICK y \in Txs : Make(y, r) /\ held' = [held EXCEPT ![e] = y] /\ UNCHANGED lost
      BY <2>1 DEF Broadcast
    <3>2. tx' = [tx EXCEPT ![y] = "sent"] /\ y[1] = r[1] /\ y[2] = r[2]
      BY <3>1 DEF Make, Of
    <3>3. QED
      BY <1>1, <1>2, <1>4, <3>1, <3>2
  <2>2. CASE \E y \in Txs : Make(y, r) /\ lost' = lost \cup {y}
    BY <1>2, <1>4, <2>2 DEF Make
  <2>3. CASE UNCHANGED <<tx, lost>>
    BY <1>4, <2>3
  <2>4. QED
    BY <2>1, <2>2, <2>3 DEF Ends
<1>5. ASSUME NEW f \in Transfers, f \notin crossed, f # e PROVE Alone(f)' /\ OnItsRecord(f)'
  BY <1>3, <1>4, <1>5, Elsewhere DEF Recorded
<1>6. ASSUME e \notin crossed PROVE Alone(e)' /\ OnItsRecord(e)'
  <2>1. Alone(e) /\ OnItsRecord(e) /\ ~Underway(e)'
    BY <1>1, <1>6 DEF Recorded
  <2>2. Alone(e)'
    BY <2>1, UnderwayNext DEF Alone
  <2>3. \A x \in Txs : Execution(x[1], x[2]) = e /\ tx'[x] # "none" /\ x \notin lost' => held'[e] = x
    BY <1>4, <2>1 DEF OnItsRecord
  <2>4. QED
    BY <2>1, <2>2, <2>3 DEF OnItsRecord
<1>7. QED
  BY <1>5, <1>6 DEF Recorded

\* The answers end the request of a tab.
LEMMA AnswerRecords ==
    ASSUME Inv, Recorded, NEW t \in Tabs, Answer(t) \/ AnswerThrows(t) \/ AnswerPending(t)
    PROVE  Recorded'
<1>0. At(t, "wait")
  BY DEF Answer, AnswerThrows, AnswerPending
<1>1. PICK r \in Transfers, e \in Transfers :
        r = Transfer(t) /\ e = This(t) /\ e = Execution(r[1], r[2])
  BY <1>0, Sender
<1>2. Ends(r) /\ UNCHANGED <<orphans, crossed>>
  BY <1>1 DEF Answer, AnswerThrows, AnswerPending, CallFails, Unrecorded, Ends, history
<1>3. PICK j : Become(t, j) /\ j.step # "wait"
  <2>1. CASE AnswerThrows(t)
    <3>1. [job[t] EXCEPT !.step = "resolve"].step = "resolve"
      BY DEF Inv, GoodJobs, Jobs
    <3>2. QED
      BY <2>1, <3>1 DEF AnswerThrows, Goto
  <2>2. CASE Answer(t) \/ AnswerPending(t)
    <3>1. PICK ref : Sent(t, ref)
      BY <2>2 DEF Answer, AnswerPending
    <3>2. [job[t] EXCEPT !.step = "receipt", !.ref = ref, !.copy = ledger'].step = "receipt"
      BY DEF Inv, GoodJobs, Jobs
    <3>3. Idle.step = "idle"
      BY DEF Idle
    <3>4. QED
      BY <3>1, <3>2, <3>3 DEF Sent, Done
  <2>3. QED
    BY <2>1, <2>2
<1>4. \A f \in Transfers : \A u \in Tabs : Waits(u, f)' => Waits(u, f)
  BY <1>3, OthersWait
<1>5. ~Waits(t, e)'
  BY <1>3 DEF Become, Inv, GoodJobs, Waits, At
<1>6. \A f \in Transfers : \A q \in Transfers : Left(q, f)' => Left(q, f) /\ orphans'[q] <= orphans[q]
  BY <1>2 DEF Left, Inv, Rest
<1>7. Waits(t, e)
  BY <1>0, <1>1 DEF Waits
<1>8. Alone(e) => ~Underway(e)'
  BY <1>1, <1>4, <1>5, <1>6, <1>7, UnderwayNext DEF Alone
<1>9. Underway(e)
  BY <1>7, UnderwayIs
<1>10. QED
  BY <1>1, <1>2, <1>4, <1>6, <1>8, <1>9, EndRecords DEF Inv, Rest

LEMMA OrphanRecords ==
    ASSUME Inv, Recorded, NEW r \in Transfers, Orphan(r)
    PROVE  Recorded'
<1> DEFINE e == Execution(r[1], r[2])
<1>1. /\ orphans \in [Transfers -> Nat] /\ orphans[r] > 0
      /\ orphans' = [orphans EXCEPT ![r] = @ - 1] /\ UNCHANGED <<job, crossed>>
  BY DEF Orphan, Inv, Rest, tabs, history
<1>2. Ends(r)
  BY DEF Orphan, CallFails, Unrecorded, Ends
<1>3. Left(r, e)
  BY <1>1 DEF Left
<1>4. \A f \in Transfers : \A t \in Tabs : Waits(t, f)' => Waits(t, f)
  BY <1>1 DEF Waits, At, This
<1>5. \A f \in Transfers : \A q \in Transfers : Left(q, f)' => Left(q, f) /\ orphans'[q] <= orphans[q]
  BY <1>1 DEF Left
<1>6. e \in Transfers
  BY TransferShape, TransferValues
<1>7. ASSUME Alone(e) PROVE ~Underway(e)'
  <2>1. \A t \in Tabs : ~Waits(t, e)'
    BY <1>3, <1>4, <1>6, <1>7 DEF Alone
  <2>2. orphans'[r] = 0
    BY <1>1, <1>3, <1>7 DEF Alone
  <2>3. \A q \in Transfers : ~Left(q, e)'
    <3>1. ASSUME NEW q \in Transfers, Left(q, e)' PROVE FALSE
      <4>1. Left(q, e)
        BY <1>5, <1>6, <3>1
      <4>2. q = r
        BY <1>3, <1>7, <4>1 DEF Alone
      <4>3. QED
        BY <2>2, <3>1, <4>2 DEF Left
    <3>2. QED
      BY <3>1
  <2>4. QED
    BY <2>1, <2>3, UnderwayNext
<1>8. Underway(e)
  BY <1>3, UnderwayIs
<1> HIDE DEF e
<1>9. orphans' \in [Transfers -> Nat]
  BY <1>1
<1>10. QED
  BY <1>1, <1>2, <1>4, <1>5, <1>7, <1>8, <1>9, EndRecords DEF e

\* A request past the look for a record: whatever was made of its execution has
\* lost its record, or it crosses another request.
LEMMA SendRecords ==
    ASSUME Inv, Recorded, NEW t \in Tabs, Send(t)
    PROVE  Recorded'
<1> DEFINE j == [job[t] EXCEPT !.step = "wait"]
<1>1. PICK e \in Transfers : e = This(t) /\ At(t, "send")
  BY Sender DEF Send
<1>2. /\ UNCHANGED <<tx, held, orphans>> /\ Become(t, j)
      /\ crossed' = IF Underway(e) THEN crossed \cup {e} ELSE crossed
      /\ \/ ~OnRecord(e) /\ UNCHANGED lost
         \/ lost' = lost \cup {held[e]}
  BY <1>1 DEF Send, Goto
<1>3. j.step = "wait" /\ j.key = job[t].key /\ j.row = job[t].row
  BY DEF Inv, GoodJobs, Jobs
<1>4. \A f \in Transfers \ {e} : \A u \in Tabs : Waits(u, f)' => Waits(u, f)
  BY <1>1, <1>2, <1>3, OthersWait
<1>5. \A u \in Tabs \ {t} : Waits(u, e)' => Waits(u, e)
  <2>1. \A u \in Tabs \ {t} : job'[u] = job[u]
    BY <1>2 DEF Become, Inv, GoodJobs
  <2>2. QED
    BY <2>1 DEF Waits, At, This
<1>6. \A f \in Transfers : \A q \in Transfers : Left(q, f)' <=> Left(q, f)
  BY <1>2 DEF Left
<1> HIDE DEF j
<1>7. ASSUME NEW f \in Transfers, f \notin crossed', f # e PROVE Alone(f)' /\ OnItsRecord(f)'
  <2>1. f \notin crossed /\ Alone(f) /\ OnItsRecord(f)
    BY <1>2, <1>7 DEF Recorded
  <2>2. \A q \in Transfers : Left(q, f)' => Left(q, f) /\ orphans'[q] <= orphans[q]
    BY <1>2, <1>6 DEF Inv, Rest
  <2>3. \A x \in Txs : Execution(x[1], x[2]) = f /\ tx'[x] # "none" /\ x \notin lost'
                       => tx[x] # "none" /\ x \notin lost
    BY <1>2
  <2>4. QED
    BY <1>2, <1>4, <1>7, <2>1, <2>2, <2>3, Elsewhere DEF Inv, Rest
<1>8. ASSUME e \notin crossed' PROVE Alone(e)' /\ OnItsRecord(e)'
  <2>1. ~Underway(e) /\ e \notin crossed /\ OnItsRecord(e)
    BY <1>1, <1>2, <1>8 DEF Recorded
  <2>2. (\A u \in Tabs : ~Waits(u, e)) /\ (\A q \in Transfers : ~Left(q, e))
    BY <2>1, UnderwayIs
  <2>3. Alone(e)'
    BY <1>1, <1>5, <1>6, <2>2 DEF Alone
  <2>4. ASSUME NEW x \in Txs, Execution(x[1], x[2]) = e, tx'[x] # "none", x \notin lost' PROVE FALSE
    <3>1. held[e] = x
      BY <1>2, <2>1, <2>4 DEF OnItsRecord
    <3>2. QED
      BY <1>2, <2>4, <3>1, NoneApart DEF OnRecord
  <2>5. QED
    BY <2>3, <2>4 DEF OnItsRecord
<1>9. QED
  BY <1>7, <1>8 DEF Recorded

\* A tab that stops waiting leaves its request behind.
LEMMA LeaveRecords ==
    ASSUME Inv, Recorded, NEW t \in Tabs, At(t, "wait"), NEW j, Become(t, j), j.step # "wait",
           orphans' = [orphans EXCEPT ![Transfer(t)] = @ + 1], UNCHANGED <<tx, held, lost, crossed>>
    PROVE  Recorded'
<1>1. PICK r \in Transfers, e \in Transfers :
        r = Transfer(t) /\ Execution(r[1], r[2]) = e /\ Waits(t, e)
  BY Sender DEF Waits
<1>2. orphans \in [Transfers -> Nat] /\ orphans' \in [Transfers -> Nat] /\ orphans'[r] = orphans[r] + 1
      /\ \A q \in Transfers \ {r} : orphans'[q] = orphans[q]
  BY <1>1 DEF Inv, Rest
<1>3. \A f \in Transfers : \A u \in Tabs : Waits(u, f)' => Waits(u, f)
  BY OthersWait
<1>4. ~Waits(t, e)'
  BY DEF Become, Inv, GoodJobs, Waits, At
<1>5. ASSUME NEW f \in Transfers, f \notin crossed, f # e PROVE Alone(f)' /\ OnItsRecord(f)'
  <2>1. \A q \in Transfers : Left(q, f)' => Left(q, f) /\ orphans'[q] <= orphans[q]
    BY <1>1, <1>2, <1>5 DEF Left
  <2>2. QED
    BY <1>2, <1>3, <1>5, <2>1, Elsewhere DEF Recorded
<1>6. ASSUME e \notin crossed PROVE Alone(e)' /\ OnItsRecord(e)'
  <2>1. Alone(e) /\ OnItsRecord(e) /\ Underway(e)
    BY <1>1, <1>6, UnderwayIs DEF Recorded
  <2>2. \A u \in Tabs : ~Waits(u, e)'
    BY <1>1, <1>3, <1>4, <2>1 DEF Alone
  <2>3. \A q \in Transfers : ~Left(q, e)
    BY <1>1, <2>1 DEF Alone
  <2>4. orphans[r] = 0 /\ \A q \in Transfers : Left(q, e)' => q = r
    BY <1>1, <1>2, <2>3 DEF Left
  <2>5. Alone(e)'
    BY <1>2, <2>2, <2>4 DEF Alone
  <2>6. OnItsRecord(e)'
    BY <2>1 DEF OnItsRecord
  <2>7. QED
    BY <2>5, <2>6
<1>7. QED
  BY <1>5, <1>6 DEF Recorded

\* The other steps begin no request and end none.
LEMMA QuietRecords ==
    ASSUME Inv, Recorded, UNCHANGED <<held, lost, orphans, crossed>>,
           \A x \in Txs : tx'[x] # "none" => tx[x] # "none",
           \A e \in Transfers : \A t \in Tabs : Waits(t, e)' => Waits(t, e)
    PROVE  Recorded'
<1>1. ASSUME NEW e \in Transfers, e \notin crossed PROVE Alone(e)' /\ OnItsRecord(e)'
  <2>1. \A q \in Transfers : Left(q, e)' => Left(q, e) /\ orphans'[q] <= orphans[q]
    BY DEF Left, Inv, Rest
  <2>2. QED
    BY <1>1, <2>1, Elsewhere DEF Recorded, Inv, Rest
<1>2. QED
  BY <1>1 DEF Recorded

LEMMA TickWaits ==
    ASSUME Inv, NEW t \in Tabs, NEW k \in Keys, Tick(t, k)
    PROVE  \A e \in Transfers : \A u \in Tabs : Waits(u, e)' => Waits(u, e)
<1>1. CASE UNCHANGED job
  BY <1>1 DEF Waits, At, This
<1>2. CASE StartClaim(t, k)
  <2>1. [Idle EXCEPT !.step = "claim", !.key = k, !.copy = ledger,
                     !.attempts = ledger[k].attempts].step = "claim"
    BY DEF Idle
  <2>2. QED
    BY <1>2, <2>1, OthersWait DEF StartClaim
<1>3. CASE StartReconcile(t, k)
  <2> DEFINE step == IF ledger[k].status = "submitted" THEN "reconcile" ELSE "resolve"
             j == [Idle EXCEPT !.step = step, !.key = k, !.row = ledger[k].row,
                               !.ref = ledger[k].ref, !.copy = ledger]
  <2>1. Become(t, j) /\ step # "wait"
    BY <1>3 DEF StartReconcile
  <2> HIDE DEF step
  <2>2. j.step = step
    BY DEF Idle
  <2> HIDE DEF j
  <2>3. QED
    BY <2>1, <2>2, OthersWait
<1>4. QED
  BY <1>1, <1>2, <1>3 DEF Tick, Skip, GiveUp, KeepTrying

\* The steps of a tab other than those of its request leave it at no "wait".
LEMMA WorkWaits ==
    ASSUME Inv, NEW t \in Tabs,
           \/ Claim(t) \/ ClaimRefused(t) \/ MarkExecuting(t) \/ Postpone(t) \/ Block(t)
           \/ Prepare(t) \/ PrepareFails(t) \/ SendKnown(t) \/ SendThrows(t)
           \/ Resolve(t) \/ ResolveFails(t) \/ NextRow(t) \/ Finish(t) \/ ReceiptReverted(t)
           \/ ReceiptLate(t) \/ ReconcileSucceeded(t) \/ ReconcileReverted(t) \/ ReconcileLate(t)
    PROVE  \A e \in Transfers : \A u \in Tabs : Waits(u, e)' => Waits(u, e)
<1>1. PICK j : Become(t, j) /\ j.step # "wait"
  <2>1. job[t] \in Jobs /\ Idle.step = "idle"
    BY DEF Inv, GoodJobs, Idle
  <2>2. CASE Done(t)
    BY <2>1, <2>2 DEF Done
  <2>3. ASSUME NEW ref, Sent(t, ref) PROVE \E j : Become(t, j) /\ j.step # "wait"
    <3>1. [job[t] EXCEPT !.step = "receipt", !.ref = ref, !.copy = ledger'].step = "receipt"
      BY <2>1 DEF Jobs
    <3>2. QED
      BY <2>2, <2>3, <3>1 DEF Sent
  <2>4. CASE Claim(t)
    <3>1. [job[t] EXCEPT !.step = "mark", !.claimed = TRUE, !.attempts = @ + 1].step = "mark"
      BY <2>1 DEF Jobs
    <3>2. QED
      BY <2>4, <3>1 DEF Claim
  <2>5. CASE MarkExecuting(t) \/ Prepare(t)
    <3>1. PICK step \in {"prepare", "send"} : \E e : SaveAndGo(t, e, step)
      <4>1. CASE MarkExecuting(t)
        BY <4>1 DEF MarkExecuting
      <4>2. CASE Prepare(t)
        BY <4>2 DEF Prepare
      <4>3. QED
        BY <2>5, <4>1, <4>2
    <3>2. [job[t] EXCEPT !.step = step, !.copy = ledger'].step = step
      BY <2>1 DEF Jobs
    <3>3. QED
      BY <3>1, <3>2 DEF SaveAndGo
  <2>6. CASE SendThrows(t)
    <3>1. [job[t] EXCEPT !.step = "resolve"].step = "resolve"
      BY <2>1 DEF Jobs
    <3>2. QED
      BY <2>6, <3>1 DEF SendThrows, Goto
  <2>7. CASE Resolve(t)
    <3>1. PICK x : Sent(t, x) \/ Become(t, [job[t] EXCEPT !.step = "reconcile", !.ref = x, !.copy = ledger'])
      BY <2>7 DEF Resolve
    <3>2. [job[t] EXCEPT !.step = "reconcile", !.ref = x, !.copy = ledger'].step = "reconcile"
      BY <2>1 DEF Jobs
    <3>3. QED
      BY <2>3, <3>1, <3>2
  <2>8. CASE NextRow(t)
    <3> DEFINE c == IF job[t].key \in Multisends THEN ledger' ELSE job[t].copy
               j == [job[t] EXCEPT !.step = "prepare", !.row = @ + 1, !.ref = None, !.copy = c]
    <3>1. Become(t, j)
      BY <2>8 DEF NextRow
    <3> HIDE DEF c
    <3>2. j.step = "prepare"
      BY <2>1 DEF Jobs
    <3> HIDE DEF j
    <3>3. QED
      BY <3>1, <3>2
  <2>9. CASE SendKnown(t)
    BY <2>3, <2>9 DEF SendKnown
  <2>10. QED
    BY <2>2, <2>4, <2>5, <2>6, <2>7, <2>8, <2>9
       DEF ClaimRefused, Postpone, Block, PrepareFails, ResolveFails, Finish, ReceiptReverted, ReceiptLate,
           ReconcileSucceeded, ReconcileReverted, ReconcileLate, Fail, Executed
<1>2. QED
  BY <1>1, OthersWait

LEMMA StepRecords == Inv /\ Recorded /\ [Next]_vars => Recorded'
<1> SUFFICES ASSUME Inv, Recorded, [Next]_vars PROVE Recorded'
  OBVIOUS
<1>1. ASSUME NEW t \in Tabs, NEW k \in Keys, Tick(t, k) PROVE Recorded'
  <2>1. UNCHANGED <<circle, history>>
    BY <1>1 DEF Tick, StartClaim, Skip, GiveUp, KeepTrying, StartReconcile
  <2>2. QED
    BY <1>1, <2>1, TickWaits, QuietRecords DEF circle, history
<1>2. ASSUME NEW t \in Tabs, Work(t) PROVE Recorded'
  <2>1. CASE Send(t)
    BY <2>1, SendRecords
  <2>2. CASE Answer(t) \/ AnswerThrows(t) \/ AnswerPending(t)
    BY <2>2, AnswerRecords
  <2>3. CASE AnswerLost(t)
    <3>1. [job[t] EXCEPT !.step = "resolve"].step = "resolve"
      BY DEF Inv, GoodJobs, Jobs
    <3>2. QED
      BY <2>3, <3>1, LeaveRecords DEF AnswerLost, Goto, history
  <2>4. CASE ~(Send(t) \/ Answer(t) \/ AnswerThrows(t) \/ AnswerPending(t) \/ AnswerLost(t))
    <3>1. UNCHANGED <<circle, crossed>>
      BY <1>2, <2>4 DEF Work, Claim, ClaimRefused, MarkExecuting, Postpone, Block, Prepare, PrepareFails,
         SendKnown, SendThrows, Resolve, ResolveFails, NextRow, Finish, ReceiptReverted, ReceiptLate,
         ReconcileSucceeded, ReconcileReverted, ReconcileLate, history
    <3>2. \A e \in Transfers : \A u \in Tabs : Waits(u, e)' => Waits(u, e)
      BY <1>2, <2>4, WorkWaits DEF Work
    <3>3. QED
      BY <3>1, <3>2, QuietRecords DEF circle
  <2>5. QED
    BY <2>1, <2>2, <2>3, <2>4
<1>3. ASSUME NEW t \in Tabs, Reload(t) PROVE Recorded'
  <2>1. Become(t, Idle) /\ Idle.step = "idle" /\ UNCHANGED <<tx, held, lost, crossed>>
    BY <1>3 DEF Reload, Done, Idle, history
  <2>2. CASE At(t, "wait")
    BY <1>3, <2>1, <2>2, LeaveRecords DEF Reload
  <2>3. CASE ~At(t, "wait")
    <3>1. UNCHANGED orphans
      BY <1>3, <2>3 DEF Reload
    <3>2. \A e \in Transfers : \A u \in Tabs : Waits(u, e)' => Waits(u, e)
      BY <2>1, OthersWait
    <3>3. QED
      BY <2>1, <3>1, <3>2, QuietRecords
  <2>4. QED
    BY <2>2, <2>3
<1>4. ASSUME NEW r \in Transfers, Orphan(r) PROVE Recorded'
  BY <1>4, OrphanRecords
<1>5. CASE UNCHANGED vars \/ ADayPasses \/ (\E k \in Keys : ExpireLease(k)) \/ (\E x \in Txs : Mine(x))
  <2>1. UNCHANGED <<held, lost, orphans, crossed, job>>
    BY <1>5 DEF vars, ADayPasses, ExpireLease, Mine, circle, history, tabs
  <2>2. \A x \in Txs : tx'[x] # "none" => tx[x] # "none"
    BY <1>5 DEF vars, ADayPasses, ExpireLease, Mine, circle, Inv, GoodCircle
  <2>3. \A e \in Transfers : \A t \in Tabs : Waits(t, e)' => Waits(t, e)
    BY <2>1 DEF Waits, At, This
  <2>4. QED
    BY <2>1, <2>2, <2>3, QuietRecords
<1>6. QED
  BY <1>1, <1>2, <1>3, <1>4, <1>5 DEF Next

\* No transfer is made twice, unless the record of one transaction was lost or
\* two requests of its execution were past the look for a record at once: two
\* transactions would be on the one record of their execution.
THEOREM TransferIsPaidOnce == Spec => []PaidOnce
<1>1. ASSUME Init PROVE Recorded
  <2>1. \A t \in Tabs, e \in Transfers : ~Waits(t, e)
    BY <1>1 DEF Init, Waits, At, Idle
  <2>2. \A r \in Transfers, e \in Transfers : ~Left(r, e)
    BY <1>1 DEF Init, Left
  <2>3. \A e \in Transfers : OnItsRecord(e)
    BY <1>1 DEF Init, OnItsRecord
  <2>4. QED
    BY <2>1, <2>2, <2>3 DEF Recorded, Alone
<1>2. ASSUME Recorded PROVE PaidOnce
  <2>1. ASSUME NEW x \in Txs, NEW y \in Txs, Of(x) = Of(y), tx[x] # "none", tx[y] # "none",
               x \notin lost, y \notin lost, Execution(x[1], x[2]) \notin crossed
        PROVE  x = y
    <3> DEFINE e == Execution(x[1], x[2])
    <3>1. x[1] = y[1] /\ x[2] = y[2]
      BY <2>1 DEF Of
    <3>2. e \in Transfers
      BY TxValues, TransferValues
    <3>3. QED
      BY <1>2, <2>1, <3>1, <3>2 DEF Recorded, OnItsRecord
  <2>2. QED
    BY <2>1 DEF PaidOnce
<1>3. QED
  BY <1>1, <1>2, StepRecords, AlwaysGood, PTL DEF Spec

-------------------------------------------------------------------------------
(* One tab at an occurrence *)

Open == {"none", "expired"}

\* The claim of a tab at work lets nobody else in, unless its lease ran out.
Guarded == \A t \in Tabs :
    job[t].claimed /\ job[t].key \notin outlived => claim[job[t].key] \notin Open

\* A step of one tab that gives up no claim but its own, and takes none.
LEMMA OwnClaim ==
    ASSUME Guarded, OneRunner, NEW t \in Tabs,
           \A u \in Tabs \ {t} : job'[u] = job[u],
           job'[t].claimed => job[t].claimed /\ job'[t].key = job[t].key,
           outlived' = outlived,
           \A k \in Keys : claim'[k] \in Open =>
               \/ claim[k] \in Open
               \/ job[t].claimed /\ job[t].key = k /\ ~job'[t].claimed,
           \A u \in Tabs : job[u].claimed => job[u].key \in Keys
    PROVE  Guarded' /\ OneRunner'
<1>1. Guarded'
  <2>1. ASSUME NEW u \in Tabs, job'[u].claimed, job'[u].key \notin outlived'
        PROVE  claim'[job'[u].key] \notin Open
    <3>1. CASE u = t
      BY <2>1, <3>1 DEF Guarded
    <3>2. CASE u # t
      <4>1. job'[u] = job[u] /\ job[u].claimed /\ job[u].key \notin outlived /\ job[u].key \in Keys
        BY <2>1, <3>2
      <4>2. claim[job[u].key] \notin Open
        BY <4>1 DEF Guarded
      <4>3. ~(job[t].claimed /\ job[t].key = job[u].key)
        BY <3>2, <4>1 DEF OneRunner
      <4>4. QED
        BY <4>1, <4>2, <4>3
    <3>3. QED
      BY <3>1, <3>2
  <2>2. QED
    BY <2>1 DEF Guarded, Open
<1>2. OneRunner'
  <2>1. ASSUME NEW u \in Tabs, NEW v \in Tabs, u # v, job'[u].claimed, job'[v].claimed,
               job'[u].key = job'[v].key
        PROVE  job'[u].key \in outlived'
    <3>1. job[u].claimed /\ job[u].key = job'[u].key /\ job[v].claimed /\ job[v].key = job'[v].key
      BY <2>1
    <3>2. QED
      BY <2>1, <3>1 DEF OneRunner
  <2>2. QED
    BY <2>1 DEF OneRunner
<1>3. QED
  BY <1>1, <1>2

\* What a step of a tab does to the claims, and that it keeps its own or ends.
ClaimStep(t) ==
    \/ UNCHANGED claim
    \/ \E k : \E status \in {"submitted", "confirmed", "failed"} : UpdateClaim(k, status)
    \/ Release(job[t].key) /\ job[t].claimed /\ Done(t)

Onward(t) ==
    /\ \A u \in Tabs \ {t} : job'[u] = job[u]
    /\ job'[t].claimed => job[t].claimed /\ job'[t].key = job[t].key

LEMMA DoneOnward ==
    ASSUME Inv, NEW t \in Tabs, Done(t)
    PROVE  Onward(t) /\ ~job'[t].claimed
<1>1. job' = [job EXCEPT ![t] = Idle] /\ job \in [Tabs -> Jobs] /\ Idle.claimed = FALSE
  BY DEF Done, Become, Inv, GoodJobs, Idle
<1>2. QED
  BY <1>1 DEF Onward

LEMMA BecomeOnward ==
    ASSUME Inv, NEW t \in Tabs, NEW j, Become(t, j), j.claimed = job[t].claimed, j.key = job[t].key
    PROVE  Onward(t)
BY DEF Become, Onward, Inv, GoodJobs

LEMMA SentOnward ==
    ASSUME Inv, NEW t \in Tabs, NEW ref, Sent(t, ref)
    PROVE  ClaimStep(t) /\ Onward(t)
<1>1. ClaimStep(t)
  BY DEF Sent, ClaimStep
<1>2. CASE Done(t)
  BY <1>1, <1>2, DoneOnward
<1> DEFINE j == [job[t] EXCEPT !.step = "receipt", !.ref = ref, !.copy = ledger']
<1>3. CASE Become(t, j)
  <2>1. j.claimed = job[t].claimed /\ j.key = job[t].key
    BY DEF Inv, GoodJobs, Jobs
  <2> HIDE DEF j
  <2>2. QED
    BY <1>1, <1>3, <2>1, BecomeOnward
<1>4. QED
  BY <1>2, <1>3 DEF Sent

LEMMA WorkOnward ==
    ASSUME Inv, NEW t \in Tabs, Work(t), ~Claim(t)
    PROVE  ClaimStep(t) /\ Onward(t)
<1>1. job[t] \in Jobs /\ GoodJob(job[t])
  BY DEF Inv, GoodJobs
<1>2. CASE ClaimRefused(t)
  BY <1>2, DoneOnward DEF ClaimRefused, ClaimStep, storage
<1>3. CASE MarkExecuting(t)
  <2> DEFINE j == [job[t] EXCEPT !.step = "prepare", !.copy = ledger']
  <2>1. Become(t, j) /\ UNCHANGED claim
    BY <1>3 DEF MarkExecuting, SaveAndGo
  <2>2. j.claimed = job[t].claimed /\ j.key = job[t].key
    BY <1>1 DEF Jobs
  <2> HIDE DEF j
  <2>3. QED
    BY <2>1, <2>2, BecomeOnward DEF ClaimStep
<1>4. CASE Prepare(t)
  <2> DEFINE j == [job[t] EXCEPT !.step = "send", !.copy = ledger']
  <2>1. Become(t, j) /\ UNCHANGED claim
    BY <1>4 DEF Prepare, SaveAndGo
  <2>2. j.claimed = job[t].claimed /\ j.key = job[t].key
    BY <1>1 DEF Jobs
  <2> HIDE DEF j
  <2>3. QED
    BY <2>1, <2>2, BecomeOnward DEF ClaimStep
<1>5. CASE Postpone(t) \/ Block(t) \/ PrepareFails(t) \/ Finish(t) \/ ReceiptReverted(t)
  <2>1. Done(t) /\ Release(job[t].key) /\ job[t].step \in {"prepare", "receipt"}
    BY <1>5 DEF Postpone, Block, PrepareFails, Finish, ReceiptReverted, Fail, Executed, At
  <2>2. QED
    BY <1>1, <2>1, DoneOnward DEF GoodJob, ClaimStep
<1>6. CASE ResolveFails(t) \/ ReconcileSucceeded(t) \/ ReconcileReverted(t)
  <2>1. Done(t)
    BY <1>6 DEF ResolveFails, ReconcileSucceeded, ReconcileReverted, Fail, Executed
  <2>2. ClaimStep(t)
    BY <1>6, <2>1 DEF ResolveFails, ReconcileSucceeded, ReconcileReverted, ClaimStep
  <2>3. QED
    BY <2>1, <2>2, DoneOnward
<1>7. CASE ReceiptLate(t) \/ ReconcileLate(t)
  <2>1. Done(t) /\ ClaimStep(t)
    BY <1>7 DEF ReceiptLate, ReconcileLate, ClaimStep
  <2>2. QED
    BY <2>1, DoneOnward
<1>8. CASE SendKnown(t) \/ Answer(t) \/ AnswerPending(t)
  <2>1. \E ref : Sent(t, ref)
    BY <1>8 DEF SendKnown, Answer, AnswerPending
  <2>2. QED
    BY <2>1, SentOnward
<1>9. CASE Send(t) \/ SendThrows(t) \/ AnswerThrows(t) \/ AnswerLost(t)
  <2>1. PICK step : Goto(t, step) /\ UNCHANGED claim
    BY <1>9 DEF Send, SendThrows, AnswerThrows, AnswerLost, storage
  <2> DEFINE j == [job[t] EXCEPT !.step = step]
  <2>2. Become(t, j) /\ UNCHANGED claim
    BY <2>1 DEF Goto
  <2>3. j.claimed = job[t].claimed /\ j.key = job[t].key
    BY <1>1 DEF Jobs
  <2> HIDE DEF j
  <2>4. QED
    BY <2>2, <2>3, BecomeOnward DEF ClaimStep
<1>10. CASE Resolve(t)
  <2>1. PICK x \in Txs :
          \/ Sent(t, x)
          \/ /\ Become(t, [job[t] EXCEPT !.step = "reconcile", !.ref = x, !.copy = ledger'])
             /\ UNCHANGED claim
    BY <1>10 DEF Resolve
  <2> DEFINE j == [job[t] EXCEPT !.step = "reconcile", !.ref = x, !.copy = ledger']
  <2>2. j.claimed = job[t].claimed /\ j.key = job[t].key
    BY <1>1 DEF Jobs
  <2>3. Sent(t, x) \/ (Become(t, j) /\ UNCHANGED claim)
    BY <2>1
  <2> HIDE DEF j
  <2>4. QED
    BY <2>2, <2>3, SentOnward, BecomeOnward DEF ClaimStep
<1>11. CASE NextRow(t)
  <2> DEFINE c == IF job[t].key \in Multisends THEN ledger' ELSE job[t].copy
             j == [job[t] EXCEPT !.step = "prepare", !.row = @ + 1, !.ref = None, !.copy = c]
  <2>1. Become(t, j) /\ UNCHANGED claim
    BY <1>11 DEF NextRow
  <2> HIDE DEF c
  <2>2. j.claimed = job[t].claimed /\ j.key = job[t].key
    BY <1>1 DEF Jobs
  <2> HIDE DEF j
  <2>3. QED
    BY <2>1, <2>2, BecomeOnward DEF ClaimStep
<1>12. QED
  BY <1>2, <1>3, <1>4, <1>5, <1>6, <1>7, <1>8, <1>9, <1>10, <1>11 DEF Work

LEMMA ClaimedKey ==
    ASSUME Inv
    PROVE  \A u \in Tabs : job[u].claimed => job[u].key \in Keys
BY DEF Inv, GoodJobs, GoodJob

LEMMA StepGuards == Inv /\ Guarded /\ OneRunner /\ [Next]_vars => Guarded' /\ OneRunner'
<1> SUFFICES ASSUME Inv, Guarded, OneRunner, [Next]_vars PROVE Guarded' /\ OneRunner'
  OBVIOUS
<1>1. claim \in [Keys -> Claims] /\ job \in [Tabs -> Jobs]
  BY DEF Inv, Rest, GoodJobs
<1>2. ASSUME NEW t \in Tabs, Work(t), ~Claim(t) PROVE Guarded' /\ OneRunner'
  <2>1. ClaimStep(t) /\ Onward(t)
    BY <1>2, WorkOnward
  <2>2. outlived' = outlived
    BY <1>2, WorkKeeps
  <2>3. ASSUME NEW k \in Keys, claim'[k] \in Open
        PROVE  \/ claim[k] \in Open
               \/ job[t].claimed /\ job[t].key = k /\ ~job'[t].claimed
    <3>1. CASE UNCHANGED claim
      BY <2>3, <3>1
    <3>2. CASE \E i : \E status \in {"submitted", "confirmed", "failed"} : UpdateClaim(i, status)
      BY <1>1, <2>3, <3>2 DEF UpdateClaim, Open
    <3>3. CASE Release(job[t].key) /\ job[t].claimed /\ Done(t)
      <4>1. ~job'[t].claimed
        BY <3>3, DoneOnward
      <4>2. QED
        BY <1>1, <2>3, <3>3, <4>1 DEF Release
    <3>4. QED
      BY <2>1, <3>1, <3>2, <3>3 DEF ClaimStep
  <2>4. QED
    BY <2>1, <2>2, <2>3, OwnClaim, ClaimedKey DEF Onward
<1>3. ASSUME NEW t \in Tabs, Claim(t) PROVE Guarded' /\ OneRunner'
  <2> DEFINE k == job[t].key
             j == [job[t] EXCEPT !.step = "mark", !.claimed = TRUE, !.attempts = @ + 1]
  <2>1. claim[k] \in Open /\ claim' = [claim EXCEPT ![k] = "claimed"] /\ Become(t, j)
        /\ outlived' = outlived /\ k \in Keys
    BY <1>3 DEF Claim, CanClaim, Open, At, Inv, GoodJobs, GoodJob, history
  <2>2. j.key = k
    BY <1>1 DEF Jobs
  <2> HIDE DEF j
  <2>3. job'[t] = j /\ \A u \in Tabs \ {t} : job'[u] = job[u]
    BY <1>1, <2>1 DEF Become
  <2>4. ASSUME NEW u \in Tabs, u # t, job[u].claimed, job[u].key = k PROVE k \in outlived
    BY <2>1, <2>4 DEF Guarded
  <2>5. Guarded'
    BY <1>1, <2>1, <2>2, <2>3, ClaimedKey DEF Guarded, Open
  <2>6. OneRunner'
    <3>1. ASSUME NEW u \in Tabs, NEW v \in Tabs, u # v, job'[u].claimed, job'[v].claimed,
                 job'[u].key = job'[v].key
          PROVE  job'[u].key \in outlived'
      BY <2>1, <2>2, <2>3, <2>4, <3>1 DEF OneRunner
    <3>2. QED
      BY <3>1 DEF OneRunner
  <2>7. QED
    BY <2>5, <2>6
<1>4. ASSUME NEW t \in Tabs, NEW k \in Keys, Tick(t, k) PROVE Guarded' /\ OneRunner'
  <2>1. UNCHANGED <<claim, outlived>>
    BY <1>4 DEF Tick, StartClaim, Skip, GiveUp, KeepTrying, StartReconcile, storage, history
  <2>2. Onward(t)
    <3>1. CASE UNCHANGED job
      BY <3>1 DEF Onward
    <3>2. CASE StartClaim(t, k)
      <4> DEFINE j == [Idle EXCEPT !.step = "claim", !.key = k, !.copy = ledger,
                                   !.attempts = ledger[k].attempts]
      <4>1. Become(t, j) /\ j.claimed = FALSE
        BY <3>2 DEF StartClaim, Idle
      <4> HIDE DEF j
      <4>2. QED
        BY <1>1, <4>1 DEF Become, Onward
    <3>3. CASE StartReconcile(t, k)
      <4> DEFINE step == IF ledger[k].status = "submitted" THEN "reconcile" ELSE "resolve"
                 j == [Idle EXCEPT !.step = step, !.key = k, !.row = ledger[k].row,
                                   !.ref = ledger[k].ref, !.copy = ledger]
      <4>1. Become(t, j)
        BY <3>3 DEF StartReconcile
      <4> HIDE DEF step
      <4>2. j.claimed = FALSE
        BY DEF Idle
      <4> HIDE DEF j
      <4>3. QED
        BY <1>1, <4>1, <4>2 DEF Become, Onward
    <3>4. QED
      BY <1>4, <3>1, <3>2, <3>3 DEF Tick, Skip, GiveUp, KeepTrying
  <2>3. QED
    BY <2>1, <2>2, OwnClaim, ClaimedKey DEF Onward
<1>5. ASSUME NEW t \in Tabs, Reload(t) PROVE Guarded' /\ OneRunner'
  <2>1. UNCHANGED <<claim, outlived>> /\ Onward(t)
    BY <1>5, DoneOnward DEF Reload, storage, history
  <2>2. QED
    BY <2>1, OwnClaim, ClaimedKey DEF Onward
<1>6. ASSUME NEW k \in Keys, ExpireLease(k) PROVE Guarded' /\ OneRunner'
  <2>1. claim' = [claim EXCEPT ![k] = "expired"] /\ job' = job /\ outlived \subseteq outlived'
        /\ \A t \in Tabs : job[t].claimed /\ job[t].key = k => k \in outlived'
    BY <1>6 DEF ExpireLease, tabs
  <2>2. OneRunner'
    BY <2>1 DEF OneRunner
  <2>3. ASSUME NEW t \in Tabs, job[t].claimed, job[t].key \notin outlived'
        PROVE  claim'[job[t].key] \notin Open
    <3>1. job[t].key # k /\ claim[job[t].key] \notin Open
      BY <2>1, <2>3 DEF Guarded
    <3>2. job[t].key \in Keys
      BY <2>3, ClaimedKey
    <3>3. QED
      BY <1>1, <2>1, <3>1, <3>2
  <2>4. Guarded'
    BY <2>1, <2>3 DEF Guarded, Open
  <2>5. QED
    BY <2>2, <2>4
<1>7. CASE UNCHANGED <<claim, job, outlived>>
  BY <1>7 DEF Guarded, OneRunner, Open
<1>8. QED
  BY <1>2, <1>3, <1>4, <1>5, <1>6, <1>7
     DEF Next, Orphan, Mine, ADayPasses, vars, storage, tabs, history

\* No two tabs run one occurrence, unless the lease of the first ran out: until
\* then its claim is there, and only its own end deletes it.
THEOREM OneTabRuns == Spec => []OneRunner
<1>1. Init => Guarded /\ OneRunner
  BY DEF Init, Guarded, OneRunner, Idle
<1>2. QED
  BY <1>1, StepGuards, AlwaysGood, PTL DEF Spec

-------------------------------------------------------------------------------
(* One tab: a payment is sent once *)

OneTab == \A t, u \in Tabs : t = u

\* Where an occurrence stands before its intent is written.
Unsent == {"none", "awaiting_auth", "in_progress", "retry_pending", "executing"}

\* The tab's copy is the ledger while it works on an occurrence.
InStep == \A t \in Tabs : job[t].step # "idle" => job[t].copy = ledger

\* A request of the transfer goes on, or has made a transaction.
Spent(r) == orphans[r] > 0 \/ \E x \in Txs : Of(x) = r /\ tx[x] # "none"

\* No request for a payment before its intent is in the ledger.
IntentFirst == \A r \in Transfers :
    r[1] \notin Multisends /\ ledger[r[1]].status \in Unsent => ~Spent(r)

\* A payment's transfers are made in their order: none of a later row.
RowsInOrder == \A t \in Tabs, r \in Transfers : r[1] = job[t].key /\ r[1] \notin Multisends =>
    /\ job[t].step \in {"prepare", "send", "wait"} /\ job[t].row <= r[2] => ~Spent(r)
    /\ job[t].step = "receipt" /\ job[t].row < r[2] => ~Spent(r)

\* What the ledger says of a payment at which the tab is at work.
Begun == \A t \in Tabs : job[t].key \notin Multisends =>
    /\ job[t].step \in {"claim", "mark"} => job[t].row = 1 /\ ledger[job[t].key].status \in Unsent
    /\ job[t].step \in {"send", "wait"} => ledger[job[t].key].status \notin Unsent

\* A transfer of a payment has one transaction, or one request that goes on.
OnceEach == \A r \in Transfers : r[1] \notin Multisends =>
    /\ orphans[r] \in {0, 1}
    /\ orphans[r] = 1 => \A x \in Txs : Of(x) = r => tx[x] = "none"
    /\ \A x, y \in Txs : Of(x) = r /\ Of(y) = r /\ "none" \notin {tx[x], tx[y]} => x = y

SoloInv == InStep /\ IntentFirst /\ RowsInOrder /\ Begun /\ OnceEach

LEMMA EntryStatus ==
    ASSUME NEW status, NEW attempts
    PROVE  /\ Entry(status, attempts).status = status
           /\ \A ref : [Entry(status, attempts) EXCEPT !.ref = ref].status = status
           /\ \A row : [Entry(status, attempts) EXCEPT !.row = row].status = status
BY DEF Entry, NoEntry

\* A write of the tab changes the one entry.
LEMMA SoloSave ==
    ASSUME Inv, InStep, NEW t \in Tabs, job[t].step # "idle", NEW e, Save(t, e)
    PROVE  /\ job[t].key \in Keys /\ ledger'[job[t].key] = e
           /\ \A k \in Keys \ {job[t].key} : ledger'[k] = ledger[k]
<1>1. job[t].key \in Keys /\ job[t].copy = ledger /\ ledger \in [Keys -> Entries]
  BY DEF Inv, GoodJobs, GoodJob, GoodLedger, InStep
<1>2. QED
  BY <1>1 DEF Save

\* A step that begins no request but the tab's own, when it writes nothing about a
\* payment that was sent which would let it start again.
LEMMA SoloStep ==
    ASSUME OneTab, Inv, SoloInv, NEW t \in Tabs, OnceEach',
           \A r \in Transfers : r[1] \notin Multisends /\ Spent(r)' =>
              Spent(r) \/ (At(t, "wait") /\ r[1] = job[t].key),
           \A k \in Keys \ Multisends :
              \/ ledger'[k] = ledger[k]
              \/ ledger'[k].status \notin Unsent
              \/ \A r \in Transfers : r[1] = k => ~Spent(r)',
           job'[t].step # "idle" => job'[t].copy = ledger',
           job'[t].step # "idle" => job'[t].key \in Keys,
           job'[t].key \in Keys \ Multisends =>
              /\ job'[t].step \in {"claim", "mark"} =>
                    job'[t].row = 1 /\ ledger'[job'[t].key].status \in Unsent
              /\ job'[t].step \in {"send", "wait"} => ledger'[job'[t].key].status \notin Unsent
              /\ \A r \in Transfers : r[1] = job'[t].key =>
                    /\ job'[t].step \in {"prepare", "send", "wait"} /\ job'[t].row <= r[2] => ~Spent(r)'
                    /\ job'[t].step = "receipt" /\ job'[t].row < r[2] => ~Spent(r)'
    PROVE  SoloInv'
<1>1. \A u \in Tabs : u = t
  BY DEF OneTab
<1>2. \A r \in Transfers : r[1] \in Keys
  BY TransferShape
<1>3. InStep'
  BY <1>1 DEF InStep
<1>4. IntentFirst'
  <2>1. ASSUME NEW r \in Transfers, r[1] \notin Multisends, ledger'[r[1]].status \in Unsent, Spent(r)'
        PROVE  FALSE
    <3>1. ledger'[r[1]] = ledger[r[1]]
      BY <1>2, <2>1
    <3>2. CASE Spent(r)
      BY <2>1, <3>1, <3>2 DEF SoloInv, IntentFirst
    <3>3. CASE At(t, "wait") /\ r[1] = job[t].key
      BY <2>1, <3>1, <3>3 DEF SoloInv, Begun, At
    <3>4. QED
      BY <2>1, <3>2, <3>3
  <2>2. QED
    BY <2>1 DEF IntentFirst
<1>5. RowsInOrder'
  BY <1>1, <1>2 DEF RowsInOrder
<1>6. Begun'
  BY <1>1 DEF Begun
<1>7. QED
  BY <1>3, <1>4, <1>5, <1>6 DEF SoloInv

\* A step that begins no request and makes no transaction.
LEMMA SoloMove ==
    ASSUME OneTab, Inv, SoloInv, NEW t \in Tabs, UNCHANGED <<tx, orphans>>,
           \A k \in Keys \ Multisends :
              \/ ledger'[k] = ledger[k]
              \/ ledger'[k].status \notin Unsent
              \/ \A r \in Transfers : r[1] = k => ~Spent(r),
           job'[t].step # "idle" => job'[t].copy = ledger',
           job'[t].step # "idle" => job'[t].key \in Keys,
           job'[t].key \in Keys \ Multisends =>
              /\ job'[t].step \in {"claim", "mark"} =>
                    job'[t].row = 1 /\ ledger'[job'[t].key].status \in Unsent
              /\ job'[t].step \in {"send", "wait"} => ledger'[job'[t].key].status \notin Unsent
              /\ \A r \in Transfers : r[1] = job'[t].key =>
                    /\ job'[t].step \in {"prepare", "send", "wait"} /\ job'[t].row <= r[2] => ~Spent(r)
                    /\ job'[t].step = "receipt" /\ job'[t].row < r[2] => ~Spent(r)
    PROVE  SoloInv'
<1>1. \A r \in Transfers : Spent(r)' <=> Spent(r)
  BY DEF Spent
<1>2. OnceEach'
  BY DEF SoloInv, OnceEach
<1>3. QED
  BY <1>1, <1>2, SoloStep

\* An end of the work, with or without an entry about it.
LEMMA SoloDone ==
    ASSUME OneTab, Inv, SoloInv, NEW t \in Tabs, UNCHANGED <<tx, orphans>>, Done(t),
           \/ UNCHANGED ledger
           \/ \E e : /\ Save(t, e) /\ job[t].step # "idle"
                     /\ \/ e.status \notin Unsent
                        \/ job[t].key \in Multisends
                        \/ \A r \in Transfers : r[1] = job[t].key => ~Spent(r)
    PROVE  SoloInv'
<1>1. job'[t].step = "idle" /\ job'[t].key = None
  BY DEF Done, Become, Idle, Inv, GoodJobs
<1>2. ASSUME NEW k \in Keys \ Multisends
      PROVE  \/ ledger'[k] = ledger[k]
             \/ ledger'[k].status \notin Unsent
             \/ \A r \in Transfers : r[1] = k => ~Spent(r)
  BY SoloSave DEF SoloInv
<1>3. QED
  BY <1>1, <1>2, SoloMove, NoneApart

\* The steps of a tick.
LEMMA SoloTick ==
    ASSUME OneTab, Inv, SoloInv, NEW t \in Tabs, NEW k \in Keys, Tick(t, k)
    PROVE  SoloInv'
<1>1. job \in [Tabs -> Jobs] /\ ledger \in [Keys -> Entries] /\ job[t].step = "idle"
      /\ UNCHANGED <<tx, orphans>>
  BY DEF Inv, GoodJobs, GoodLedger, Tick, StartClaim, Skip, GiveUp, KeepTrying, StartReconcile,
         Ready, At, circle
<1>2. CASE StartClaim(t, k)
  <2> DEFINE j == [Idle EXCEPT !.step = "claim", !.key = k, !.copy = ledger,
                               !.attempts = ledger[k].attempts]
  <2>1. Become(t, j) /\ UNCHANGED ledger /\ ledger[k].status \in Unsent
    BY <1>2 DEF StartClaim, storage, Startable, Unsent
  <2>2. j.step = "claim" /\ j.key = k /\ j.copy = ledger /\ j.row = 1
    BY DEF Idle
  <2> HIDE DEF j
  <2>3. job'[t] = j
    BY <1>1, <2>1 DEF Become
  <2>4. QED
    BY <1>1, <2>1, <2>2, <2>3, SoloMove
<1>3. CASE StartReconcile(t, k)
  <2> DEFINE step == IF ledger[k].status = "submitted" THEN "reconcile" ELSE "resolve"
             j == [Idle EXCEPT !.step = step, !.key = k, !.row = ledger[k].row,
                               !.ref = ledger[k].ref, !.copy = ledger]
  <2>1. Become(t, j) /\ UNCHANGED ledger /\ step \in {"reconcile", "resolve"}
    BY <1>3 DEF StartReconcile, storage
  <2> HIDE DEF step
  <2>2. j.step = step /\ j.key = k /\ j.copy = ledger
    BY DEF Idle
  <2> HIDE DEF j
  <2>3. job'[t] = j
    BY <1>1, <2>1 DEF Become
  <2>4. QED
    BY <1>1, <2>1, <2>2, <2>3, SoloMove
\* What is skipped, given up or tried again was never sent, or stays as it was.
<1>4. CASE Skip(t, k) \/ GiveUp(t, k) \/ KeepTrying(t, k)
  <2>1. PICK e : SaveFresh(k, e) /\ (e.status \notin Unsent \/ e.status = ledger[k].status)
    <3>1. CASE Skip(t, k)
      BY <3>1, EntryStatus DEF Skip, Unsent
    <3>2. CASE GiveUp(t, k)
      BY <3>2, EntryStatus DEF GiveUp, Unsent
    <3>3. CASE KeepTrying(t, k)
      <4>1. [ledger[k] EXCEPT !.attempts = 0].status = ledger[k].status
        BY <1>1 DEF Entries
      <4>2. QED
        BY <3>3, <4>1 DEF KeepTrying
    <3>4. QED
      BY <1>4, <3>1, <3>2, <3>3
  <2>2. job' = job
    BY <1>4 DEF Skip, GiveUp, KeepTrying
  <2>3. ledger'[k] = e /\ \A i \in Keys \ {k} : ledger'[i] = ledger[i]
    BY <1>1, <2>1 DEF SaveFresh
  <2>4. ASSUME NEW i \in Keys \ Multisends
        PROVE  \/ ledger'[i] = ledger[i]
               \/ ledger'[i].status \notin Unsent
               \/ \A r \in Transfers : r[1] = i => ~Spent(r)
    BY <2>1, <2>3 DEF SoloInv, IntentFirst
  <2>5. QED
    BY <1>1, <2>2, <2>4, SoloMove
<1>5. QED
  BY <1>2, <1>3, <1>4 DEF Tick

\* The ends of a run.
LEMMA SoloEnd ==
    ASSUME OneTab, Inv, SoloInv, NEW t \in Tabs,
           \/ ClaimRefused(t) \/ Postpone(t) \/ Block(t) \/ PrepareFails(t) \/ ResolveFails(t)
           \/ Finish(t) \/ ReceiptReverted(t) \/ ReceiptLate(t)
           \/ ReconcileSucceeded(t) \/ ReconcileReverted(t) \/ ReconcileLate(t)
    PROVE  SoloInv'
<1>1. UNCHANGED <<tx, orphans>> /\ Done(t)
  BY DEF ClaimRefused, Postpone, Block, PrepareFails, ResolveFails, Finish, ReceiptReverted, ReceiptLate,
         ReconcileSucceeded, ReconcileReverted, ReconcileLate, Fail, Executed, circle
<1>2. CASE Postpone(t)
  <2>1. PICK e : Save(t, e)
    BY <1>2 DEF Postpone
  <2>2. job[t].step = "prepare" /\ job[t].row = 1
    BY <1>2 DEF Postpone, At
  <2>3. job[t].key \in Multisends \/ \A r \in Transfers : r[1] = job[t].key => ~Spent(r)
    <3>1. \A r \in Transfers : r[2] \in Nat /\ 1 <= r[2]
      BY TransferShape, ScheduleAssumption DEF ScheduleAssumption
    <3>2. QED
      BY <2>2, <3>1 DEF SoloInv, RowsInOrder
  <2>4. QED
    BY <1>1, <2>1, <2>2, <2>3, SoloDone
<1>3. CASE ClaimRefused(t)
  <2>1. UNCHANGED ledger
    BY <1>3 DEF ClaimRefused, storage
  <2>2. QED
    BY <1>1, <2>1, SoloDone
<1>4. CASE ~Postpone(t) /\ ~ClaimRefused(t)
  <2>1. job[t].step # "idle"
    BY <1>4 DEF Block, PrepareFails, ResolveFails, Finish, ReceiptReverted, ReceiptLate,
         ReconcileSucceeded, ReconcileReverted, ReconcileLate, At
  <2>2. \/ UNCHANGED ledger
        \/ \E status \in {"blocked", "failed"} : Save(t, Entry(status, 0))
        \/ \E ref : Save(t, [Entry("executed", 0) EXCEPT !.ref = ref])
        \/ \E ref : Save(t, [Entry("submitted", 0) EXCEPT !.ref = ref])
    BY <1>4 DEF Block, PrepareFails, ResolveFails, Finish, ReceiptReverted, ReceiptLate,
         ReconcileSucceeded, ReconcileReverted, ReconcileLate, Fail, Executed
  <2>3. ASSUME NEW e, Save(t, e), e.status \notin Unsent PROVE SoloInv'
    BY <1>1, <2>1, <2>3, SoloDone
  <2>4. ASSUME NEW status \in {"blocked", "failed"}, Save(t, Entry(status, 0)) PROVE SoloInv'
    <3>1. Entry(status, 0).status \notin Unsent
      BY EntryStatus DEF Unsent
    <3>2. QED
      BY <2>3, <2>4, <3>1
  <2>5. ASSUME NEW ref, NEW status \in {"executed", "submitted"},
               Save(t, [Entry(status, 0) EXCEPT !.ref = ref])
        PROVE  SoloInv'
    <3>1. [Entry(status, 0) EXCEPT !.ref = ref].status \notin Unsent
      BY EntryStatus DEF Unsent
    <3>2. QED
      BY <2>3, <2>5, <3>1
  <2>6. CASE UNCHANGED ledger
    BY <1>1, <2>6, SoloDone
  <2>7. QED
    BY <2>2, <2>4, <2>5, <2>6
<1>5. QED
  BY <1>2, <1>3, <1>4

\* The steps of a run that make no transaction.
LEMMA SoloRun ==
    ASSUME OneTab, Inv, SoloInv, NEW t \in Tabs,
           Claim(t) \/ MarkExecuting(t) \/ Prepare(t) \/ NextRow(t)
    PROVE  SoloInv'
<1>1. job \in [Tabs -> Jobs] /\ job[t].step # "idle" /\ job[t].key \in Keys
      /\ UNCHANGED <<tx, orphans>>
  BY DEF Inv, GoodJobs, GoodJob, Claim, MarkExecuting, Prepare, NextRow, At, circle
<1>2. job[t].copy = ledger
  BY <1>1 DEF SoloInv, InStep
<1>3. CASE Claim(t)
  <2> DEFINE j == [job[t] EXCEPT !.step = "mark", !.claimed = TRUE, !.attempts = @ + 1]
  <2>1. Become(t, j) /\ UNCHANGED ledger /\ job[t].step = "claim"
    BY <1>3 DEF Claim, At
  <2>2. j.step = "mark" /\ j.key = job[t].key /\ j.copy = job[t].copy /\ j.row = job[t].row
    BY <1>1 DEF Jobs
  <2> HIDE DEF j
  <2>3. job'[t] = j
    BY <1>1, <2>1 DEF Become
  <2>4. QED
    BY <1>1, <1>2, <2>1, <2>2, <2>3, SoloMove DEF SoloInv, Begun
<1>4. CASE MarkExecuting(t)
  <2> DEFINE j == [job[t] EXCEPT !.step = "prepare", !.copy = ledger']
             e == Entry("executing", 0)
  <2>1. Save(t, e) /\ Become(t, j) /\ job[t].step = "mark"
    BY <1>4 DEF MarkExecuting, SaveAndGo, At
  <2> HIDE DEF e
  <2>2. j.step = "prepare" /\ j.key = job[t].key /\ j.copy = ledger'
    BY <1>1 DEF Jobs
  <2> HIDE DEF j
  <2>3. job'[t] = j
    BY <1>1, <2>1 DEF Become
  <2>4. \A k \in Keys \ {job[t].key} : ledger'[k] = ledger[k]
    BY <1>1, <2>1, SoloSave DEF SoloInv
  <2>5. job[t].key \notin Multisends => \A r \in Transfers : r[1] = job[t].key => ~Spent(r)
    BY <2>1 DEF SoloInv, Begun, IntentFirst
  <2>6. QED
    BY <1>1, <2>2, <2>3, <2>4, <2>5, SoloMove
<1>5. CASE Prepare(t)
  <2> DEFINE j == [job[t] EXCEPT !.step = "send", !.copy = ledger']
             e == IF job[t].key \in Multisends THEN Entry("in_progress", job[t].attempts)
                  ELSE [Entry("execution_unknown", 0) EXCEPT !.row = job[t].row]
  <2>1. Save(t, e) /\ Become(t, j) /\ job[t].step = "prepare"
    BY <1>5 DEF Prepare, SaveAndGo, At
  <2>2. job[t].key \in Multisends \/ e.status \notin Unsent
    BY EntryStatus DEF Unsent
  <2> HIDE DEF e
  <2>3. j.step = "send" /\ j.key = job[t].key /\ j.copy = ledger' /\ j.row = job[t].row
    BY <1>1 DEF Jobs
  <2> HIDE DEF j
  <2>4. job'[t] = j
    BY <1>1, <2>1 DEF Become
  <2>5. ledger'[job[t].key] = e /\ \A k \in Keys \ {job[t].key} : ledger'[k] = ledger[k]
    BY <1>1, <2>1, SoloSave DEF SoloInv
  <2>6. job[t].key \notin Multisends =>
            \A r \in Transfers : r[1] = job[t].key /\ job[t].row <= r[2] => ~Spent(r)
    BY <2>1 DEF SoloInv, RowsInOrder
  <2>7. QED
    BY <1>1, <2>2, <2>3, <2>4, <2>5, <2>6, SoloMove
<1>6. CASE NextRow(t)
  <2> DEFINE c == IF job[t].key \in Multisends THEN ledger' ELSE job[t].copy
             j == [job[t] EXCEPT !.step = "prepare", !.row = @ + 1, !.ref = None, !.copy = c]
  <2>1. Become(t, j) /\ job[t].step = "receipt"
    BY <1>6 DEF NextRow, At
  <2>2. \/ job[t].key \in Multisends /\ \E e : Save(t, e)
        \/ job[t].key \notin Multisends /\ UNCHANGED ledger
    BY <1>6 DEF NextRow
  <2>3. \A k \in Keys \ Multisends : ledger'[k] = ledger[k]
    BY <1>1, <2>2, SoloSave DEF SoloInv
  <2>4. c = ledger'
    BY <1>2, <2>2
  <2> HIDE DEF c
  <2>5. j.step = "prepare" /\ j.key = job[t].key /\ j.copy = c /\ j.row = job[t].row + 1
    BY <1>1 DEF Jobs
  <2> HIDE DEF j
  <2>6. job'[t] = j
    BY <1>1, <2>1 DEF Become
  <2>7. job[t].key \notin Multisends =>
            \A r \in Transfers : r[1] = job[t].key /\ job[t].row + 1 <= r[2] => ~Spent(r)
    <3>1. job[t].row \in Nat /\ \A r \in Transfers : r[2] \in Nat
      BY <1>1, TransferShape, ScheduleAssumption DEF Jobs, ScheduleAssumption
    <3>2. QED
      BY <2>1, <3>1 DEF SoloInv, RowsInOrder
  <2>8. QED
    BY <1>1, <2>3, <2>4, <2>5, <2>6, <2>7, SoloMove
<1>7. QED
  BY <1>3, <1>4, <1>5, <1>6

\* What the request of a tab that waits makes, or may still make, is the first
\* of its transfer.
LEMMA SoloSpends ==
    ASSUME Inv, SoloInv, NEW t \in Tabs, NEW r \in Transfers, At(t, "wait"), r = Transfer(t),
           \/ (UNCHANGED tx \/ \E x \in Txs : Make(x, r)) /\ UNCHANGED orphans
           \/ UNCHANGED tx /\ orphans' = [orphans EXCEPT ![r] = @ + 1]
    PROVE  /\ OnceEach'
           /\ \A q \in Transfers : q[1] \notin Multisends /\ Spent(q)' => Spent(q) \/ q = r
<1>1. orphans \in [Transfers -> Nat] /\ tx \in [Txs -> {"none", "sent", "confirmed", "reverted"}]
  BY DEF Inv, Rest, GoodCircle
<1>2. r[1] \notin Multisends => ~Spent(r)
  <2>1. r[1] = job[t].key /\ r[2] = job[t].row /\ job[t].row \in Nat
    BY DEF Transfer, Inv, GoodJobs, Jobs
  <2>2. QED
    BY <2>1 DEF SoloInv, RowsInOrder, At
<1>3. \A q \in Transfers \ {r} :
          /\ orphans'[q] = orphans[q]
          /\ \A x \in Txs : Of(x) = q => tx'[x] = tx[x]
  BY <1>1 DEF Make
<1>4. \A q \in Transfers \ {r} : Spent(q)' => Spent(q)
  BY <1>3 DEF Spent
<1>5. ASSUME NEW q \in Transfers, q[1] \notin Multisends
      PROVE  /\ orphans'[q] \in {0, 1}
             /\ orphans'[q] = 1 => \A x \in Txs : Of(x) = q => tx'[x] = "none"
             /\ \A x, y \in Txs : Of(x) = q /\ Of(y) = q /\ "none" \notin {tx'[x], tx'[y]} => x = y
  <2>1. CASE q # r
    BY <1>3, <1>5, <2>1 DEF SoloInv, OnceEach
  <2>2. CASE q = r
    <3>1. orphans[r] = 0 /\ \A x \in Txs : Of(x) = r => tx[x] = "none"
      BY <1>1, <1>2, <1>5, <2>2 DEF Spent
    <3>2. CASE UNCHANGED tx /\ orphans' = [orphans EXCEPT ![r] = @ + 1]
      BY <1>1, <2>2, <3>1, <3>2
    <3>3. CASE UNCHANGED <<tx, orphans>>
      BY <2>2, <3>1, <3>3
    <3>4. ASSUME NEW x \in Txs, Make(x, r), UNCHANGED orphans
          PROVE  /\ orphans'[r] = 0
                 /\ \A y \in Txs : Of(y) = r /\ tx'[y] # "none" => y = x
      BY <1>1, <3>1, <3>4 DEF Make
    <3>5. QED
      BY <2>2, <3>2, <3>3, <3>4
  <2>3. QED
    BY <2>1, <2>2
<1>6. OnceEach'
  BY <1>5 DEF OnceEach
<1>7. QED
  BY <1>4, <1>6

\* The call is over for the tab, and the payment's entry says that it was made.
LEMMA SoloCall ==
    ASSUME OneTab, Inv, SoloInv, NEW t \in Tabs, At(t, "wait"),
           \/ (UNCHANGED tx \/ \E x \in Txs : Make(x, Transfer(t))) /\ UNCHANGED orphans
           \/ UNCHANGED tx /\ orphans' = [orphans EXCEPT ![Transfer(t)] = @ + 1],
           \A k \in Keys \ {job[t].key} : ledger'[k] = ledger[k],
           job[t].key \notin Multisends => ledger'[job[t].key].status \notin Unsent,
           job'[t].step \in {"idle", "receipt", "resolve"},
           job'[t].step # "idle" => /\ job'[t].copy = ledger' /\ job'[t].key = job[t].key
                                    /\ job'[t].row = job[t].row
    PROVE  SoloInv'
<1>1. PICK r \in Transfers : r = Transfer(t)
  BY Sender
<1>2. /\ OnceEach'
      /\ \A q \in Transfers : q[1] \notin Multisends /\ Spent(q)' => Spent(q) \/ q = r
  BY <1>1, SoloSpends
<1>3. r[1] = job[t].key /\ r[2] = job[t].row /\ job[t].key \in Keys /\ job[t].row \in Nat
      /\ \A q \in Transfers : q[2] \in Nat
  BY <1>1, TransferShape, ScheduleAssumption
     DEF Transfer, At, Inv, GoodJobs, GoodJob, Jobs, ScheduleAssumption
<1>4. ASSUME NEW q \in Transfers, q[1] = job[t].key, job[t].key \notin Multisends, job[t].row < q[2]
      PROVE  ~Spent(q)'
  <2>1. q # r /\ job[t].row <= q[2]
    BY <1>3, <1>4
  <2>2. ~Spent(q)
    BY <1>4, <2>1 DEF SoloInv, RowsInOrder, At
  <2>3. QED
    BY <1>2, <1>4, <2>1, <2>2
<1>5. QED
  BY <1>2, <1>3, <1>4, SoloStep

\* Reloaded, the tab leaves the request it waits for behind.
LEMMA SoloReload ==
    ASSUME OneTab, Inv, SoloInv, NEW t \in Tabs, Reload(t)
    PROVE  SoloInv'
<1>1. UNCHANGED <<ledger, tx>> /\ Done(t)
  BY DEF Reload, storage
<1>2. CASE At(t, "wait")
  <2>1. job'[t].step = "idle"
    BY <1>1 DEF Done, Become, Idle, Inv, GoodJobs
  <2>2. job[t].key \notin Multisends => ledger'[job[t].key].status \notin Unsent
    BY <1>1, <1>2 DEF SoloInv, Begun, At
  <2>3. orphans' = [orphans EXCEPT ![Transfer(t)] = @ + 1]
    BY <1>2 DEF Reload
  <2>4. QED
    BY <1>1, <1>2, <2>1, <2>2, <2>3, SoloCall
<1>3. CASE ~At(t, "wait")
  <2>1. UNCHANGED orphans
    BY <1>3 DEF Reload
  <2>2. QED
    BY <1>1, <2>1, SoloDone
<1>4. QED
  BY <1>2, <1>3

\* What a request left behind makes is the first of its transfer.
LEMMA SoloOrphan ==
    ASSUME Inv, SoloInv, NEW r \in Transfers, Orphan(r)
    PROVE  SoloInv'
<1>1. orphans \in [Transfers -> Nat] /\ tx \in [Txs -> {"none", "sent", "confirmed", "reverted"}]
  BY DEF Inv, Rest, GoodCircle
<1>2. /\ orphans[r] > 0 /\ orphans' = [orphans EXCEPT ![r] = @ - 1] /\ UNCHANGED <<ledger, job>>
      /\ UNCHANGED tx \/ \E x \in Txs : Make(x, r)
  BY DEF Orphan, Broadcast, CallFails, Unrecorded, storage, tabs
<1>3. \A q \in Transfers \ {r} :
          /\ orphans'[q] = orphans[q]
          /\ \A x \in Txs : Of(x) = q => tx'[x] = tx[x]
  BY <1>1, <1>2 DEF Make
<1>4. \A q \in Transfers : Spent(q)' => Spent(q)
  BY <1>2, <1>3 DEF Spent
<1>5. ASSUME NEW q \in Transfers, q[1] \notin Multisends
      PROVE  /\ orphans'[q] \in {0, 1}
             /\ orphans'[q] = 1 => \A x \in Txs : Of(x) = q => tx'[x] = "none"
             /\ \A x, y \in Txs : Of(x) = q /\ Of(y) = q /\ "none" \notin {tx'[x], tx'[y]} => x = y
  <2>1. CASE q # r
    BY <1>3, <1>5, <2>1 DEF SoloInv, OnceEach
  <2>2. CASE q = r
    <3>1. orphans[r] = 1 /\ \A x \in Txs : Of(x) = r => tx[x] = "none"
      BY <1>1, <1>2, <1>5, <2>2 DEF SoloInv, OnceEach
    <3>2. orphans'[r] = 0
      BY <1>1, <1>2, <3>1
    <3>3. \A x, y \in Txs : Of(x) = r /\ Of(y) = r /\ "none" \notin {tx'[x], tx'[y]} => x = y
      BY <1>1, <1>2, <3>1 DEF Make
    <3>4. QED
      BY <2>2, <3>2, <3>3
  <2>3. QED
    BY <2>1, <2>2
<1>6. OnceEach'
  BY <1>5 DEF OnceEach
<1>7. InStep' /\ Begun'
  BY <1>2 DEF SoloInv, InStep, Begun
<1>8. IntentFirst' /\ RowsInOrder'
  BY <1>2, <1>4 DEF SoloInv, IntentFirst, RowsInOrder
<1>9. QED
  BY <1>6, <1>7, <1>8 DEF SoloInv

\* What Sent writes, and where it leaves the tab.
LEMMA SoloSent ==
    ASSUME Inv, InStep, NEW t \in Tabs, job[t].step # "idle", NEW ref, Sent(t, ref)
    PROVE  /\ \A k \in Keys \ {job[t].key} : ledger'[k] = ledger[k]
           /\ job[t].key \notin Multisends => ledger'[job[t].key].status \notin Unsent
           /\ job'[t].step \in {"idle", "receipt"}
           /\ job'[t].step # "idle" => /\ job'[t].copy = ledger' /\ job'[t].key = job[t].key
                                       /\ job'[t].row = job[t].row
<1> DEFINE e == IF job[t].key \in Multisends THEN Entry("in_progress", job[t].attempts)
                ELSE [Entry("submitted", 0) EXCEPT !.ref = ref]
           j == [job[t] EXCEPT !.step = "receipt", !.ref = ref, !.copy = ledger']
<1>1. job \in [Tabs -> Jobs]
  BY DEF Inv, GoodJobs
<1>2. Save(t, e) /\ (Become(t, j) \/ Done(t))
  BY DEF Sent
<1>3. job[t].key \in Multisends \/ e.status \notin Unsent
  BY EntryStatus DEF Unsent
<1> HIDE DEF e
<1>4. ledger'[job[t].key] = e /\ \A k \in Keys \ {job[t].key} : ledger'[k] = ledger[k]
  BY <1>2, SoloSave
<1>5. j.step = "receipt" /\ j.copy = ledger' /\ j.key = job[t].key /\ j.row = job[t].row
  BY <1>1 DEF Jobs
<1> HIDE DEF j
<1>6. job'[t] = j \/ job'[t].step = "idle"
  BY <1>1, <1>2 DEF Become, Done, Idle
<1>7. QED
  BY <1>3, <1>4, <1>5, <1>6

\* Before the call: an answer without one, no answer, or the call itself.
LEMMA SoloSends ==
    ASSUME OneTab, Inv, SoloInv, NEW t \in Tabs, SendKnown(t) \/ Send(t) \/ SendThrows(t)
    PROVE  SoloInv'
<1>1. /\ job \in [Tabs -> Jobs] /\ job[t].step = "send" /\ InStep /\ job[t].copy = ledger
      /\ job[t].key \in Keys /\ job[t].row \in Nat /\ \A r \in Transfers : r[2] \in Nat
  BY TransferShape, ScheduleAssumption
     DEF Inv, GoodJobs, GoodJob, Jobs, SendKnown, Send, SendThrows, At, SoloInv, InStep, ScheduleAssumption
<1>2. UNCHANGED <<tx, orphans>>
  BY DEF SendKnown, Send, SendThrows, circle
<1>3. job[t].key \notin Multisends =>
          /\ ledger[job[t].key].status \notin Unsent
          /\ \A r \in Transfers : r[1] = job[t].key /\ job[t].row <= r[2] => ~Spent(r)
  BY <1>1 DEF SoloInv, Begun, RowsInOrder
<1>4. CASE SendKnown(t)
  <2>1. PICK ref : Sent(t, ref)
    BY <1>4 DEF SendKnown
  <2>2. job[t].key \notin Multisends =>
            \A r \in Transfers : r[1] = job[t].key /\ job[t].row < r[2] => ~Spent(r)
    BY <1>1, <1>3
  <2>3. QED
    BY <1>1, <1>2, <2>1, <2>2, SoloSent, SoloMove
<1>5. CASE Send(t) \/ SendThrows(t)
  <2>1. PICK step \in {"wait", "resolve"} : Goto(t, step) /\ UNCHANGED ledger
    BY <1>5 DEF Send, SendThrows, storage
  <2> DEFINE j == [job[t] EXCEPT !.step = step]
  <2>2. j.step = step /\ j.copy = job[t].copy /\ j.key = job[t].key /\ j.row = job[t].row
    BY <1>1 DEF Jobs
  <2>3. Become(t, j)
    BY <2>1 DEF Goto
  <2> HIDE DEF j
  <2>4. job'[t] = j
    BY <1>1, <2>3 DEF Become
  <2>5. QED
    BY <1>1, <1>2, <1>3, <2>1, <2>2, <2>4, SoloMove
<1>6. QED
  BY <1>4, <1>5

LEMMA SoloAnswers ==
    ASSUME OneTab, Inv, SoloInv, NEW t \in Tabs,
           Answer(t) \/ AnswerThrows(t) \/ AnswerPending(t) \/ AnswerLost(t)
    PROVE  SoloInv'
<1>1. /\ job \in [Tabs -> Jobs] /\ At(t, "wait") /\ job[t].step = "wait" /\ InStep
      /\ job[t].copy = ledger
  BY DEF Inv, GoodJobs, Answer, AnswerThrows, AnswerPending, AnswerLost, At, SoloInv, InStep
<1>2. \/ (UNCHANGED tx \/ \E x \in Txs : Make(x, Transfer(t))) /\ UNCHANGED orphans
      \/ UNCHANGED tx /\ orphans' = [orphans EXCEPT ![Transfer(t)] = @ + 1]
  BY DEF Answer, AnswerThrows, AnswerPending, AnswerLost, Broadcast, CallFails, Unrecorded
<1>3. CASE Answer(t) \/ AnswerPending(t)
  <2>1. PICK ref : Sent(t, ref)
    BY <1>3 DEF Answer, AnswerPending
  <2>2. QED
    BY <1>1, <1>2, <2>1, SoloSent, SoloCall
<1>4. CASE AnswerThrows(t) \/ AnswerLost(t)
  <2> DEFINE j == [job[t] EXCEPT !.step = "resolve"]
  <2>1. Become(t, j) /\ UNCHANGED ledger
    BY <1>4 DEF AnswerThrows, AnswerLost, Goto, storage
  <2>2. j.step = "resolve" /\ j.copy = job[t].copy /\ j.key = job[t].key /\ j.row = job[t].row
    BY <1>1 DEF Jobs
  <2> HIDE DEF j
  <2>3. job'[t] = j
    BY <1>1, <2>1 DEF Become
  <2>4. job[t].key \notin Multisends => ledger'[job[t].key].status \notin Unsent
    BY <1>1, <2>1 DEF SoloInv, Begun
  <2>5. QED
    BY <1>1, <1>2, <2>1, <2>2, <2>3, <2>4, SoloCall
<1>5. QED
  BY <1>3, <1>4

LEMMA SoloResolve ==
    ASSUME OneTab, Inv, SoloInv, NEW t \in Tabs, Resolve(t)
    PROVE  SoloInv'
<1>1. job \in [Tabs -> Jobs] /\ job[t].step # "idle" /\ job[t].key \in Keys /\ InStep
      /\ UNCHANGED <<tx, orphans>>
  BY DEF Inv, GoodJobs, GoodJob, Resolve, At, SoloInv, circle
<1>2. PICK x \in Txs :
        IF job[t].key \in Multisends THEN Sent(t, x)
        ELSE /\ Save(t, [Entry("submitted", 0) EXCEPT !.ref = x])
             /\ Become(t, [job[t] EXCEPT !.step = "reconcile", !.ref = x, !.copy = ledger'])
  BY DEF Resolve
<1>3. CASE job[t].key \in Multisends
  BY <1>1, <1>2, <1>3, SoloSent, SoloMove
<1>4. CASE job[t].key \notin Multisends
  <2> DEFINE e == [Entry("submitted", 0) EXCEPT !.ref = x]
             j == [job[t] EXCEPT !.step = "reconcile", !.ref = x, !.copy = ledger']
  <2>1. Save(t, e) /\ Become(t, j)
    BY <1>2, <1>4
  <2>2. e.status \notin Unsent
    BY EntryStatus DEF Unsent
  <2> HIDE DEF e
  <2>3. j.step = "reconcile" /\ j.copy = ledger' /\ j.key = job[t].key
    BY <1>1 DEF Jobs
  <2> HIDE DEF j
  <2>4. job'[t] = j
    BY <1>1, <2>1 DEF Become
  <2>5. ledger'[job[t].key] = e /\ \A k \in Keys \ {job[t].key} : ledger'[k] = ledger[k]
    BY <1>1, <2>1, SoloSave
  <2>6. QED
    BY <1>1, <1>4, <2>2, <2>3, <2>4, <2>5, SoloMove
<1>5. QED
  BY <1>3, <1>4

LEMMA StepSolo == OneTab /\ Inv /\ SoloInv /\ [Next]_vars => SoloInv'
<1> SUFFICES ASSUME OneTab, Inv, SoloInv, [Next]_vars PROVE SoloInv'
  OBVIOUS
<1>1. ASSUME NEW t \in Tabs, NEW k \in Keys, Tick(t, k) PROVE SoloInv'
  BY <1>1, SoloTick
<1>2. ASSUME NEW t \in Tabs, Work(t) \/ Reload(t) PROVE SoloInv'
  BY <1>2, SoloEnd, SoloRun, SoloSends, SoloAnswers, SoloResolve, SoloReload DEF Work
<1>3. ASSUME NEW r \in Transfers, Orphan(r) PROVE SoloInv'
  BY <1>3, SoloOrphan
<1>4. ASSUME UNCHANGED <<ledger, job, orphans>>,
             \A x \in Txs : (tx[x] = "none") <=> (tx'[x] = "none")
      PROVE  SoloInv'
  <2>1. \A r \in Transfers : Spent(r)' <=> Spent(r)
    BY <1>4 DEF Spent
  <2>2. InStep' /\ Begun'
    BY <1>4 DEF SoloInv, InStep, Begun
  <2>3. IntentFirst' /\ RowsInOrder'
    BY <1>4, <2>1 DEF SoloInv, IntentFirst, RowsInOrder
  <2>4. OnceEach'
    BY <1>4 DEF SoloInv, OnceEach
  <2>5. QED
    BY <2>2, <2>3, <2>4 DEF SoloInv
<1>5. ASSUME NEW x \in Txs, Mine(x) PROVE SoloInv'
  BY <1>4, <1>5 DEF Mine, storage, tabs, Inv, GoodCircle
<1>6. CASE UNCHANGED vars \/ ADayPasses \/ \E k \in Keys : ExpireLease(k)
  BY <1>4, <1>6 DEF vars, storage, tabs, circle, ADayPasses, ExpireLease
<1>7. QED
  BY <1>1, <1>2, <1>3, <1>5, <1>6 DEF Next

LEMMA SoloInit == Init => SoloInv
<1> SUFFICES ASSUME Init PROVE SoloInv
  OBVIOUS
<1>1. \A r \in Transfers : ~Spent(r)
  BY DEF Init, Spent
<1>2. InStep /\ IntentFirst /\ RowsInOrder /\ Begun
  BY <1>1 DEF Init, InStep, IntentFirst, RowsInOrder, Begun, Idle
<1>3. OnceEach
  BY DEF Init, OnceEach
<1>4. QED
  BY <1>2, <1>3 DEF SoloInv

\* With one tab a payment is sent once, for any number of occurrences and of rows,
\* whatever fails and whenever the tab is reloaded: the entry that says its intent
\* is written comes before the transaction, and keeps it from starting again.
THEOREM PaymentIsSentOnce ==
    ASSUME \A t, u \in Tabs : t = u
    PROVE  Spec => []PaymentSentOnce
<1>1. OneTab
  BY DEF OneTab
<1>2. Init => SoloInv
  BY SoloInit
<1>3. Inv /\ SoloInv /\ [Next]_vars => SoloInv'
  BY <1>1, StepSolo
<1>4. ASSUME SoloInv PROVE PaymentSentOnce
  <2>1. ASSUME NEW x \in Txs, NEW y \in Txs, Of(x) = Of(y), x[1] \notin Multisends,
               "none" \notin {tx[x], tx[y]}
        PROVE  x = y
    <3>1. Of(x) \in Transfers /\ Of(x)[1] = x[1]
      BY TxValues DEF Of
    <3>2. QED
      BY <1>4, <2>1, <3>1 DEF SoloInv, OnceEach
  <2>2. QED
    BY <2>1 DEF PaymentSentOnce
<1>5. QED
  BY <1>2, <1>3, <1>4, AlwaysGood, PTL DEF Spec

-------------------------------------------------------------------------------
(* One tab that is not reloaded: no occurrence gets stuck *)

\* A later tick can go on with an occurrence that is in the hands of nobody:
\* it is executed, or executed again, or asked after.
GoesOn(k) ==
    \/ ledger[k].status \in {"submitted", "execution_unknown"}
    \/ /\ ledger[k].status \in {"none", "awaiting_auth", "in_progress", "retry_pending"}
       /\ claim[k] \in Open

\* Every due occurrence goes on, except the one the tab has claimed or asks after.
OthersGoOn == \A t \in Tabs, k \in Keys :
    due[t][k] /\ (job[t].step \in {"idle", "claim"} \/ job[t].key # k) => GoesOn(k)

\* A tab that waits for a receipt has said so in the ledger.
Waiting == \A t \in Tabs :
    job[t].step = "reconcile" \/ (job[t].step = "receipt" /\ job[t].key \notin Multisends)
        => ledger[job[t].key].status = "submitted"

FreeInv == "crash" \notin faults => OthersGoOn /\ Waiting

\* A step about the occurrence k0 that leaves the others as they are.
LEMMA FreeStep ==
    ASSUME OneTab, FreeInv, NEW t \in Tabs, NEW k0, faults \subseteq faults',
           job[t].step = "idle" \/ job[t].key = k0,
           \A k \in Keys \ {k0} : /\ ledger'[k] = ledger[k]
                                  /\ claim[k] \in Open => claim'[k] \in Open,
           \A k \in Keys : due'[t][k] => due[t][k],
           k0 \in Keys /\ due'[t][k0] /\ (job'[t].step \in {"idle", "claim"} \/ job'[t].key # k0)
              /\ "crash" \notin faults /\ OthersGoOn /\ Waiting => GoesOn(k0)',
           job'[t].step = "reconcile" \/ (job'[t].step = "receipt" /\ job'[t].key \notin Multisends)
              => ledger'[job'[t].key].status = "submitted"
    PROVE  FreeInv'
<1> SUFFICES ASSUME "crash" \notin faults' PROVE OthersGoOn' /\ Waiting'
  BY DEF FreeInv
<1>1. "crash" \notin faults /\ OthersGoOn /\ Waiting /\ \A u \in Tabs : u = t
  BY DEF FreeInv, OneTab
<1>2. ASSUME NEW k \in Keys, due'[t][k], job'[t].step \in {"idle", "claim"} \/ job'[t].key # k
      PROVE  GoesOn(k)'
  <2>1. CASE k = k0
    BY <1>1, <1>2, <2>1
  <2>2. CASE k # k0
    <3>1. GoesOn(k)
      BY <1>1, <1>2, <2>2 DEF OthersGoOn
    <3>2. ledger'[k] = ledger[k] /\ (claim[k] \in Open => claim'[k] \in Open)
      BY <2>2
    <3>3. QED
      BY <3>1, <3>2 DEF GoesOn, Open
  <2>3. QED
    BY <2>1, <2>2
<1>3. OthersGoOn'
  BY <1>1, <1>2 DEF OthersGoOn
<1>4. Waiting'
  BY <1>1 DEF Waiting
<1>5. QED
  BY <1>3, <1>4

LEMMA FaultGrows ==
    ASSUME (\E kind : Fault(kind)) \/ UNCHANGED faults
    PROVE  faults \subseteq faults'
BY DEF Fault

\* The claims a step about k touches.
LEMMA OtherClaims ==
    ASSUME Inv, NEW k \in Keys,
           \/ UNCHANGED claim
           \/ Release(k)
           \/ \E status : UpdateClaim(k, status)
    PROVE  \A i \in Keys \ {k} : claim[i] \in Open => claim'[i] \in Open
BY DEF Inv, Rest, Release, UpdateClaim

LEMMA AdvanceDue ==
    ASSUME Inv, NEW t \in Tabs, NEW k \in Keys, Advance(t, k)
    PROVE  ~due'[t][k] /\ \A i \in Keys : due'[t][i] => due[t][i]
BY DEF Inv, Rest, Advance

LEMMA FreeTick ==
    ASSUME OneTab, Inv, SoloInv, FreeInv, NEW t \in Tabs, NEW k \in Keys, Tick(t, k)
    PROVE  FreeInv'
<1>1. /\ job \in [Tabs -> Jobs] /\ ledger \in [Keys -> Entries] /\ job[t].step = "idle" /\ due[t][k]
      /\ UNCHANGED <<claim, faults>>
  BY DEF Inv, GoodJobs, GoodLedger, Tick, StartClaim, Skip, GiveUp, KeepTrying, StartReconcile,
         Ready, At, storage
<1>2. CASE StartClaim(t, k)
  <2> DEFINE j == [Idle EXCEPT !.step = "claim", !.key = k, !.copy = ledger,
                               !.attempts = ledger[k].attempts]
  <2>1. Become(t, j) /\ UNCHANGED <<ledger, due>>
    BY <1>2 DEF StartClaim, storage
  <2>2. j.step = "claim"
    BY DEF Idle
  <2> HIDE DEF j
  <2>3. job'[t] = j
    BY <1>1, <2>1 DEF Become
  <2>4. OthersGoOn => GoesOn(k)'
    BY <1>1, <2>1 DEF OthersGoOn, GoesOn
  <2>5. QED
    BY <1>1, <2>1, <2>2, <2>3, <2>4, FreeStep
<1>3. CASE StartReconcile(t, k)
  <2> DEFINE step == IF ledger[k].status = "submitted" THEN "reconcile" ELSE "resolve"
             j == [Idle EXCEPT !.step = step, !.key = k, !.row = ledger[k].row,
                               !.ref = ledger[k].ref, !.copy = ledger]
  <2>1. Become(t, j) /\ UNCHANGED <<ledger, due>>
    BY <1>3 DEF StartReconcile, storage
  <2>2. step = "resolve" \/ (step = "reconcile" /\ ledger[k].status = "submitted")
    BY <1>3 DEF StartReconcile
  <2> HIDE DEF step
  <2>3. j.step = step /\ j.key = k
    BY DEF Idle
  <2> HIDE DEF j
  <2>4. job'[t] = j
    BY <1>1, <2>1 DEF Become
  <2>5. QED
    BY <1>1, <2>1, <2>2, <2>3, <2>4, FreeStep
<1>4. CASE Skip(t, k) \/ GiveUp(t, k)
  <2>1. PICK e : SaveFresh(k, e)
    BY <1>4 DEF Skip, GiveUp
  <2>2. Advance(t, k) /\ job' = job
    BY <1>4 DEF Skip, GiveUp
  <2>3. ~due'[t][k] /\ \A i \in Keys : due'[t][i] => due[t][i]
    BY <2>2, AdvanceDue
  <2>4. \A i \in Keys \ {k} : ledger'[i] = ledger[i]
    BY <1>1, <2>1 DEF SaveFresh
  <2>5. QED
    BY <1>1, <2>2, <2>3, <2>4, FreeStep
<1>5. CASE KeepTrying(t, k)
  <2> DEFINE e == [ledger[k] EXCEPT !.attempts = 0]
  <2>1. SaveFresh(k, e) /\ UNCHANGED <<due, job>>
    BY <1>5 DEF KeepTrying
  <2>2. e.status = ledger[k].status
    BY <1>1 DEF Entries
  <2> HIDE DEF e
  <2>3. ledger'[k].status = ledger[k].status /\ \A i \in Keys \ {k} : ledger'[i] = ledger[i]
    BY <1>1, <2>1, <2>2 DEF SaveFresh
  <2>4. OthersGoOn => GoesOn(k)'
    BY <1>1, <2>3 DEF OthersGoOn, GoesOn
  <2>5. QED
    BY <1>1, <2>1, <2>3, <2>4, FreeStep
<1>6. QED
  BY <1>2, <1>3, <1>4, <1>5 DEF Tick

\* The occurrence is over in the tab's list, or its run ends with an entry and a
\* claim from which a later tick goes on.
LEMMA FreeEnd ==
    ASSUME OneTab, Inv, SoloInv, FreeInv, NEW t \in Tabs, NEW k \in Keys, k = job[t].key,
           \/ ClaimRefused(t) \/ Postpone(t) \/ Block(t) \/ PrepareFails(t) \/ ResolveFails(t)
           \/ Finish(t) \/ ReceiptReverted(t) \/ ReceiptLate(t)
           \/ ReconcileSucceeded(t) \/ ReconcileReverted(t) \/ ReconcileLate(t)
    PROVE  FreeInv'
<1>1. /\ job \in [Tabs -> Jobs] /\ job[t].step # "idle" /\ Done(t)
      /\ claim \in [Keys -> Claims]
  BY DEF Inv, GoodJobs, GoodJob, Rest, ClaimRefused, Postpone, Block, PrepareFails, ResolveFails, Finish,
         ReceiptReverted, ReceiptLate, ReconcileSucceeded, ReconcileReverted, ReconcileLate,
         Fail, Executed, At
<1>2. job'[t].step = "idle"
  BY <1>1 DEF Done, Become, Idle
<1>3. faults \subseteq faults'
  <2>1. (\E kind : Fault(kind)) \/ UNCHANGED faults
    BY DEF ClaimRefused, Postpone, Block, PrepareFails, ResolveFails, Finish, ReceiptReverted,
           ReceiptLate, ReconcileSucceeded, ReconcileReverted, ReconcileLate, Late
  <2>2. QED
    BY <2>1, FaultGrows
<1>4. \A i \in Keys \ {k} : claim[i] \in Open => claim'[i] \in Open
  <2>1. UNCHANGED claim \/ Release(k) \/ \E status : UpdateClaim(k, status)
    BY DEF ClaimRefused, Postpone, Block, PrepareFails, ResolveFails, Finish, ReceiptReverted,
           ReceiptLate, ReconcileSucceeded, ReconcileReverted, ReconcileLate, storage
  <2>2. QED
    BY <1>1, <2>1, OtherClaims
<1>5. \A i \in Keys \ {k} : ledger'[i] = ledger[i]
  <2>1. UNCHANGED ledger \/ \E e : Save(t, e)
    BY DEF ClaimRefused, Postpone, Block, PrepareFails, ResolveFails, Finish, ReceiptReverted,
           ReceiptLate, ReconcileSucceeded, ReconcileReverted, ReconcileLate, Fail, Executed, storage
  <2>2. QED
    BY <1>1, <2>1, SoloSave DEF SoloInv
<1>6. CASE Advance(t, k)
  BY <1>1, <1>2, <1>3, <1>4, <1>5, <1>6, AdvanceDue, FreeStep
<1>7. ASSUME due' = due, OthersGoOn /\ Waiting /\ due[t][k] => GoesOn(k)' PROVE FreeInv'
  BY <1>1, <1>2, <1>3, <1>4, <1>5, <1>7, FreeStep
<1>8. CASE ClaimRefused(t)
  <2>1. OthersGoOn /\ due[t][k] => GoesOn(k)'
    BY <1>1, <1>8 DEF ClaimRefused, At, storage, OthersGoOn, GoesOn
  <2>2. QED
    BY <1>7, <1>8, <2>1 DEF ClaimRefused
<1>9. CASE Postpone(t)
  <2>1. claim'[k] = "none" /\ due' = due
    BY <1>1, <1>9 DEF Postpone, Release
  <2>2. PICK e \in {Entry("awaiting_auth", job[t].attempts), Entry("retry_pending", job[t].attempts),
                    [Entry("retry_pending", job[t].attempts) EXCEPT !.transient = TRUE]} : Save(t, e)
    BY <1>9 DEF Postpone
  <2>3. [Entry("retry_pending", job[t].attempts) EXCEPT !.transient = TRUE].status = "retry_pending"
    BY DEF Entry, NoEntry
  <2> DEFINE late == [Entry("retry_pending", job[t].attempts) EXCEPT !.transient = TRUE]
  <2>4. e.status \in {"awaiting_auth", "retry_pending"}
    <3>1. e = late => e.status = "retry_pending"
      BY <2>3
    <3>2. e = Entry("awaiting_auth", job[t].attempts) => e.status = "awaiting_auth"
      BY EntryStatus
    <3>3. e = Entry("retry_pending", job[t].attempts) => e.status = "retry_pending"
      BY EntryStatus
    <3>4. e \in {Entry("awaiting_auth", job[t].attempts), Entry("retry_pending", job[t].attempts), late}
      BY <2>2
    <3> HIDE DEF late
    <3>5. QED
      BY <3>1, <3>2, <3>3, <3>4
  <2>5. ledger'[k] = e
    BY <1>1, <2>2, SoloSave DEF SoloInv
  <2>6. GoesOn(k)'
    BY <2>1, <2>4, <2>5 DEF GoesOn, Open
  <2>7. QED
    BY <1>7, <2>1, <2>6
<1>10. CASE ReceiptLate(t) \/ ReconcileLate(t)
  <2>1. due' = due
    BY <1>10 DEF ReceiptLate, ReconcileLate
  <2>2. \/ \E ref : Save(t, [Entry("submitted", 0) EXCEPT !.ref = ref])
        \/ UNCHANGED ledger /\ (Waiting => ledger[k].status = "submitted")
    BY <1>10 DEF ReceiptLate, ReconcileLate, At, Waiting
  <2>3. ASSUME NEW ref, Save(t, [Entry("submitted", 0) EXCEPT !.ref = ref])
        PROVE  ledger'[k].status = "submitted"
    <3> DEFINE e == [Entry("submitted", 0) EXCEPT !.ref = ref]
    <3>1. e.status = "submitted"
      BY EntryStatus
    <3>2. Save(t, e)
      BY <2>3
    <3> HIDE DEF e
    <3>3. ledger'[k] = e
      BY <1>1, <3>2, SoloSave DEF SoloInv
    <3>4. QED
      BY <3>1, <3>3
  <2>4. Waiting => GoesOn(k)'
    BY <2>2, <2>3 DEF GoesOn
  <2>5. QED
    BY <1>7, <2>1, <2>4
<1>11. QED
  BY <1>6, <1>8, <1>9, <1>10
     DEF Block, PrepareFails, ResolveFails, Finish, ReceiptReverted, ReconcileSucceeded,
         ReconcileReverted, Fail, Executed

\* The tab goes on with the occurrence it has claimed.
LEMMA FreeRun ==
    ASSUME OneTab, Inv, SoloInv, FreeInv, NEW t \in Tabs,
           Claim(t) \/ MarkExecuting(t) \/ Prepare(t) \/ NextRow(t)
    PROVE  FreeInv'
<1> DEFINE k == job[t].key
<1>1. /\ job \in [Tabs -> Jobs] /\ job[t].step # "idle" /\ k \in Keys /\ claim \in [Keys -> Claims]
      /\ UNCHANGED <<due, faults>>
  BY DEF Inv, GoodJobs, GoodJob, Rest, Claim, MarkExecuting, Prepare, NextRow, At
<1>2. \A i \in Keys \ {k} : claim[i] \in Open => claim'[i] \in Open
  BY <1>1 DEF Claim, MarkExecuting, Prepare, NextRow
<1>3. \A i \in Keys \ {k} : ledger'[i] = ledger[i]
  <2>1. UNCHANGED ledger \/ \E e : Save(t, e)
    BY DEF Claim, MarkExecuting, Prepare, NextRow, SaveAndGo
  <2>2. QED
    BY <1>1, <2>1, SoloSave DEF SoloInv
<1>4. job'[t].step \in {"mark", "prepare", "send"} /\ job'[t].key = k
  <2>1. CASE Claim(t)
    <3> DEFINE j == [job[t] EXCEPT !.step = "mark", !.claimed = TRUE, !.attempts = @ + 1]
    <3>1. Become(t, j) /\ j.step = "mark" /\ j.key = k
      BY <1>1, <2>1 DEF Claim, Jobs
    <3> HIDE DEF j
    <3>2. QED
      BY <1>1, <3>1 DEF Become
  <2>2. CASE MarkExecuting(t)
    <3> DEFINE j == [job[t] EXCEPT !.step = "prepare", !.copy = ledger']
    <3>1. Become(t, j) /\ j.step = "prepare" /\ j.key = k
      BY <1>1, <2>2 DEF MarkExecuting, SaveAndGo, Jobs
    <3> HIDE DEF j
    <3>2. QED
      BY <1>1, <3>1 DEF Become
  <2>3. CASE Prepare(t)
    <3> DEFINE j == [job[t] EXCEPT !.step = "send", !.copy = ledger']
    <3>1. Become(t, j) /\ j.step = "send" /\ j.key = k
      BY <1>1, <2>3 DEF Prepare, SaveAndGo, Jobs
    <3> HIDE DEF j
    <3>2. QED
      BY <1>1, <3>1 DEF Become
  <2>4. CASE NextRow(t)
    <3> DEFINE c == IF job[t].key \in Multisends THEN ledger' ELSE job[t].copy
               j == [job[t] EXCEPT !.step = "prepare", !.row = @ + 1, !.ref = None, !.copy = c]
    <3>1. Become(t, j)
      BY <2>4 DEF NextRow
    <3> HIDE DEF c
    <3>2. j.step = "prepare" /\ j.key = k
      BY <1>1 DEF Jobs
    <3> HIDE DEF j
    <3>3. QED
      BY <1>1, <3>1, <3>2 DEF Become
  <2>5. QED
    BY <2>1, <2>2, <2>3, <2>4
<1>5. QED
  BY <1>1, <1>2, <1>3, <1>4, FreeStep

\* What Sent leaves: the payment has its entry, and the receipt is waited for.
LEMMA FreeSent ==
    ASSUME Inv, InStep, NEW t \in Tabs, job[t].step # "idle", NEW ref, Sent(t, ref)
    PROVE  /\ \A k \in Keys \ {job[t].key} : claim[k] \in Open => claim'[k] \in Open
           /\ \A k \in Keys \ {job[t].key} : ledger'[k] = ledger[k]
           /\ job[t].key \notin Multisends => ledger'[job[t].key].status = "submitted"
           /\ \/ job'[t].step = "receipt" /\ job'[t].key = job[t].key
              \/ job'[t].step = "idle" /\ job[t].key \notin Multisends
           /\ due' = due
<1> DEFINE e == IF job[t].key \in Multisends THEN Entry("in_progress", job[t].attempts)
                ELSE [Entry("submitted", 0) EXCEPT !.ref = ref]
           j == [job[t] EXCEPT !.step = "receipt", !.ref = ref, !.copy = ledger']
<1>1. job \in [Tabs -> Jobs] /\ job[t].key \in Keys
  BY DEF Inv, GoodJobs, GoodJob
<1>2. /\ Save(t, e) /\ due' = due /\ UpdateClaim(job[t].key, "submitted")
      /\ Become(t, j) \/ (Done(t) /\ job[t].key \notin Multisends)
  BY DEF Sent
<1>3. job[t].key \in Multisends \/ e.status = "submitted"
  BY EntryStatus
<1> HIDE DEF e
<1>4. ledger'[job[t].key] = e /\ \A k \in Keys \ {job[t].key} : ledger'[k] = ledger[k]
  BY <1>2, SoloSave
<1>5. j.step = "receipt" /\ j.key = job[t].key
  BY <1>1 DEF Jobs
<1> HIDE DEF j
<1>6. job'[t] = j \/ (job'[t].step = "idle" /\ job[t].key \notin Multisends)
  BY <1>1, <1>2 DEF Become, Done, Idle
<1>7. \A k \in Keys \ {job[t].key} : claim[k] \in Open => claim'[k] \in Open
  BY <1>1, <1>2, OtherClaims
<1>8. QED
  BY <1>2, <1>3, <1>4, <1>5, <1>6, <1>7

LEMMA FreeSends ==
    ASSUME OneTab, Inv, SoloInv, FreeInv, NEW t \in Tabs, NEW k \in Keys, k = job[t].key,
           \/ SendKnown(t) \/ Send(t) \/ SendThrows(t)
           \/ Answer(t) \/ AnswerThrows(t) \/ AnswerPending(t) \/ AnswerLost(t) \/ Resolve(t)
    PROVE  FreeInv'
<1>1. job \in [Tabs -> Jobs] /\ job[t].step # "idle" /\ InStep
  BY DEF Inv, GoodJobs, GoodJob, SendKnown, Send, SendThrows, Answer, AnswerThrows, AnswerPending,
         AnswerLost, Resolve, At, SoloInv
<1>2. faults \subseteq faults'
  BY FaultGrows DEF SendKnown, Send, SendThrows, Answer, AnswerThrows, AnswerPending, AnswerLost,
                    CallFails, Unrecorded, Resolve
<1>3. ASSUME NEW ref, Sent(t, ref) PROVE FreeInv'
  <2>1. k \notin Multisends => GoesOn(k)'
    BY <1>1, <1>3, FreeSent DEF GoesOn
  <2>2. QED
    BY <1>1, <1>2, <1>3, <2>1, FreeSent, FreeStep
<1>4. CASE SendKnown(t) \/ Answer(t) \/ AnswerPending(t)
  <2>1. PICK ref : Sent(t, ref)
    BY <1>4 DEF SendKnown, Answer, AnswerPending
  <2>2. QED
    BY <1>3, <2>1
<1>5. CASE Send(t) \/ SendThrows(t) \/ AnswerThrows(t) \/ AnswerLost(t)
  <2>1. PICK step \in {"wait", "resolve"} : Goto(t, step) /\ UNCHANGED <<ledger, claim, due>>
    BY <1>5 DEF Send, SendThrows, AnswerThrows, AnswerLost, storage
  <2> DEFINE j == [job[t] EXCEPT !.step = step]
  <2>2. j.step = step /\ j.key = k
    BY <1>1 DEF Jobs
  <2>3. Become(t, j)
    BY <2>1 DEF Goto
  <2> HIDE DEF j
  <2>4. job'[t] = j
    BY <1>1, <2>3 DEF Become
  <2>5. QED
    BY <1>1, <1>2, <2>1, <2>2, <2>4, FreeStep
<1>6. CASE Resolve(t)
  <2>1. PICK x \in Txs :
          \/ Sent(t, x)
          \/ /\ Save(t, [Entry("submitted", 0) EXCEPT !.ref = x])
             /\ Become(t, [job[t] EXCEPT !.step = "reconcile", !.ref = x, !.copy = ledger'])
             /\ UNCHANGED <<claim, due>>
    BY <1>6 DEF Resolve
  <2>2. CASE ~Sent(t, x)
    <3> DEFINE e == [Entry("submitted", 0) EXCEPT !.ref = x]
               j == [job[t] EXCEPT !.step = "reconcile", !.ref = x, !.copy = ledger']
    <3>1. Save(t, e) /\ Become(t, j) /\ UNCHANGED <<claim, due>>
      BY <2>1, <2>2
    <3>2. e.status = "submitted"
      BY EntryStatus
    <3> HIDE DEF e
    <3>3. j.step = "reconcile" /\ j.key = k
      BY <1>1 DEF Jobs
    <3> HIDE DEF j
    <3>4. job'[t] = j
      BY <1>1, <3>1 DEF Become
    <3>5. ledger'[k] = e /\ \A i \in Keys \ {k} : ledger'[i] = ledger[i]
      BY <1>1, <3>1, SoloSave
    <3>6. QED
      BY <1>1, <1>2, <3>1, <3>2, <3>3, <3>4, <3>5, FreeStep
  <2>3. QED
    BY <1>3, <2>2
<1>7. QED
  BY <1>4, <1>5, <1>6

LEMMA StepFree == OneTab /\ Inv /\ SoloInv /\ FreeInv /\ [Next]_vars => FreeInv'
<1> SUFFICES ASSUME OneTab, Inv, SoloInv, FreeInv, [Next]_vars PROVE FreeInv'
  OBVIOUS
<1>1. ASSUME NEW t \in Tabs, NEW k \in Keys, Tick(t, k) PROVE FreeInv'
  BY <1>1, FreeTick
<1>2. ASSUME NEW t \in Tabs, Work(t) PROVE FreeInv'
  <2>1. job[t].key \in Keys
    BY <1>2 DEF Inv, GoodJobs, GoodJob, Work, Claim, ClaimRefused, MarkExecuting, Postpone, Block, Prepare,
           PrepareFails, SendKnown, Send, SendThrows, Answer, AnswerThrows, AnswerPending, AnswerLost,
           Resolve, ResolveFails, NextRow, Finish, ReceiptReverted, ReceiptLate, ReconcileSucceeded,
           ReconcileReverted, ReconcileLate, At
  <2>2. QED
    BY <1>2, <2>1, FreeEnd, FreeRun, FreeSends DEF Work
<1>3. ASSUME NEW t \in Tabs, Reload(t) PROVE FreeInv'
  BY <1>3 DEF Reload, Fault, FreeInv
<1>4. ASSUME NEW k \in Keys, ExpireLease(k) PROVE FreeInv'
  <2>1. UNCHANGED <<ledger, due, job, faults>>
        /\ \A i \in Keys : claim[i] \in Open => claim'[i] \in Open
    BY <1>4 DEF ExpireLease, tabs, Inv, Rest, Open
  <2>2. QED
    BY <2>1 DEF FreeInv, OthersGoOn, Waiting, GoesOn, Open
<1>5. CASE UNCHANGED vars \/ ADayPasses \/ \E x \in Txs : Mine(x)
  <2>1. UNCHANGED <<ledger, claim, due, job, faults>>
    BY <1>5 DEF vars, storage, tabs, ADayPasses, Mine
  <2>2. QED
    BY <2>1 DEF FreeInv, OthersGoOn, Waiting, GoesOn, Open
<1>6. ASSUME NEW r \in Transfers, Orphan(r) PROVE FreeInv'
  <2>1. UNCHANGED <<ledger, claim, due, job>>
    BY <1>6 DEF Orphan, storage, tabs
  <2>2. faults \subseteq faults'
    BY <1>6, FaultGrows DEF Orphan, CallFails, Unrecorded
  <2>3. QED
    BY <2>1, <2>2 DEF FreeInv, OthersGoOn, Waiting, GoesOn, Open
<1>7. QED
  BY <1>1, <1>2, <1>3, <1>4, <1>5, <1>6 DEF Next

\* With one tab that is not reloaded, an occurrence that is due and that nobody is
\* at work on is one the next tick goes on with: it has been submitted, or may have
\* been, and is asked after; or its retries are exhausted, which ends or renews them;
\* or it may be started, and no claim is in the way.  (Ends that leave a claim, or an
\* entry a tick does not look at, would block the occurrence for ever.)
NothingBlocked ==
    "crash" \notin faults => \A t \in Tabs, k \in Keys : due[t][k] /\ job[t].step = "idle" =>
        \/ ledger[k].status \in {"submitted", "execution_unknown"}
        \/ Exhausted(ledger[k])
        \/ Startable(ledger[k]) /\ CanClaim(claim[k])

THEOREM DueGoesOn ==
    ASSUME \A t, u \in Tabs : t = u
    PROVE  Spec => []NothingBlocked
<1>1. OneTab
  BY DEF OneTab
<1>2. Init => FreeInv
  BY DEF Init, FreeInv, OthersGoOn, Waiting, GoesOn, Open, Idle, NoEntry
<1>3. Inv /\ SoloInv /\ FreeInv /\ [Next]_vars => FreeInv'
  BY <1>1, StepFree
<1>4. Init => SoloInv
  BY SoloInit
<1>5. Inv /\ SoloInv /\ [Next]_vars => SoloInv'
  BY <1>1, StepSolo
<1>6. FreeInv => NothingBlocked
  BY DEF FreeInv, OthersGoOn, GoesOn, NothingBlocked, Startable, CanClaim, Open
<1>7. QED
  BY <1>2, <1>3, <1>4, <1>5, <1>6, AlwaysGood, PTL DEF Spec
===============================================================================
