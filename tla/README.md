# Verification of the Elligent money-moving code

This directory holds TLA+ models of the parts of Elligent that decide, across
retries, races and crashes, whether money moves once: the Gateway transfer
endpoint and its browser client, payment links and invoices, the CPN fiat
payout, the agent's wallet signer, the Turbo bridge of Treasury Core, and
scheduled payments. TLC checks the models on small instances; TLAPS proves
their safety properties for every size.

Paths below are relative to the repository (`src/functions/api/` is written
`api/`, `src/shared/` is written `shared/`).

1. [The system](#1-the-system)
2. [Modules](#2-modules)
3. [How the models correspond to the code](#3-how-the-models-correspond-to-the-code)
4. [Runs, bounds and what they show](#4-runs-bounds-and-what-they-show)
5. [Fairness](#5-fairness)
6. [Disagreements between the code and its documentation](#6-disagreements-between-the-code-and-its-documentation)
7. [What is proved](#7-what-is-proved)
8. [What is only model-checked, and what is not modelled](#8-what-is-only-model-checked-and-what-is-not-modelled)
9. [Plan](#9-plan)

## 1. The system

Elligent is a treasury application on stablecoins: a browser client
(`index.html`, `pay.html`, `shared/`), server functions on Cloudflare Workers
(`functions/api/`), Durable Objects that serialise access to one key each,
several KV namespaces, and contracts (`contracts/`). Money moves at Circle
(Gateway, CPN, developer-controlled wallets) and on chains.

A Worker may die after any `await`; a fetch may take effect and lose its
answer; KV offers no compare-and-set and its reads may be stale; a Durable
Object runs one request at a time and may set an alarm; a browser tab may be
closed at any point, and shares `localStorage` with other tabs. Everything hard
about this code follows from these facts.

| Component | Source | State | Operations | Interacts with | What is hard | What makes it correct |
|---|---|---|---|---|---|---|
| Gateway operation lock (partly modelled) | `api/gateway/gateway-op-lock.do.js` | one operation record per salt | `/status`, `/reserve`, `/update`, `/release` | called by the transfer endpoint | the transition table is its whole safety | terminal records stay; a salt is reserved once |
| Gateway transfer endpoint (partly) | `api/gateway/transfer.js` | none of its own; the lock, or KV `GATEWAY_OPS_KV` | POST (reserve a batch, forward, classify, store), POST confirm, GET, PATCH | the lock, Circle Gateway, RPC nodes | overlapping batches, 18 s timeout against a late acceptance, lost answers, partial updates, stale reads before RPC calls | no salt forwarded twice; records agree with Circle and the chain |
| Gateway client (modelled) | `shared/GatewaySpendService.js` | one in-flight entry per transfer, in the tab | execute, cancel, resolveAmbiguous | transfer endpoint, the user's wallet, the chain | awaits between writes to an entry that may have been taken away; a reload; a mint that anybody may send | one open submission of a transfer; a reported result is what happened |
| Payment lock (modelled) | `api/payment-lock.do.js` | one claim per transaction, 60 s alarm | claim, commit, release, alarm | called by payment links | the alarm races its own request | a committed claim stays |
| Payment links and invoices (partly) | `api/payment/[token].js`, `api/invoice.js`, `api/payment-links.js` | one KV record per link | create, post again, GET (scan, expire), POST (pay) | payment lock, RPC nodes | whole-record writes from stale copies, abandoned requests | a paid link was paid; a transaction pays one link; paid stays paid |
| CPN lock (modelled) | `api/cpn-lock.do.js` | one claim per idempotency key, 120 s alarm | claim, commit, markPending, release, alarm | called by the payout endpoint | an alarm that must keep the outcome guarded | one caller at a time; a commit stays |
| CPN payout endpoint (partly) | `api/cpn/[[route]].mjs` | KV records `cpn_reserve`, `cpn_idem`, `cpn_pending` | POST payments; proxies for the other paths | CPN lock, Circle CPN | unknown outcomes, partial writes after a payment, retries with other payloads | a replay tells the truth |
| Agent signer (partly) | `api/agent-signer/*`, `api/agent/exec-otp.js` | execution records, nonce lock, consumed proofs, mailed codes | code, authorize, broadcast, status | Circle wallets, circuit breaker | read-then-write locks, a fresh idempotency key per call, success answered without a transaction, stale copies | an execution is sent once, as its proof binds and its code did not contradict |
| Treasury Core (partly) | `api/core/*` | intents, circuit breaker, nonces, flags in KV | create, execute, poll, settle | relayer, ledger, Circle Iris | a settlement driven by several workers at once on whole copies | a fulfilled intent was paid, and the Vault is reimbursed |
| Relayer and ledger (partly) | `api/relayer.js`, `api/relayer/mint.js`, `api/ledger.mjs` | ledger entries in KV | pay, mint, record | contracts, Treasury Core | a receipt that comes too late | no credit without its payment |
| Schedule executor (partly) | `shared/agentScheduleExecutor.js`, `index.html` | ledger of occurrences, claims and schedules in `localStorage` | tick, execute, reconcile | agent signer, chain | two tabs with stale copies, leases, reloads, late receipts | a transfer is made once; executed means paid |
| Contracts (not modelled) | `contracts/*.sol` | vault balances, allowances | batch payments, CCTP adapters | relayer, client | accounting of partial batches | sums are conserved |
| Rate limiting (not modelled) | `api/rate-limit.mjs`, `api/core/rate-limit.mjs` | counters in KV | count and compare | every endpoint | lost updates, by design | best effort |
| Client billing (not modelled) | `shared/billingCrosschain.js`, `shared/cpnFiatPayout.js` | none that lasts | post, poll | the endpoints | requests repeated at any time | covered on the server side |
| Client execution engines (not modelled) | `shared/BatchExecutionEngine.js`, `shared/executionQueue.js`, `shared/CCTPV2InboundEngine.js` and others | queues in `localStorage` | enqueue, run, recover | wallets, chains | reload at any point | an entry is executed once |
| User interface, proxies, assets (not modelled) | `index.html`, `pay.html`, `api/lifi/quote.js` and others | none worth checking | | | | |

The groups interact as follows. The Gateway client calls the transfer endpoint,
which calls its lock: `GatewayTransfer` models the server against Circle and the
chain, is shown to implement `GatewayOperation`, and `GatewaySpend` composes the
client with `GatewayOperation`. The schedule executor sends through the agent
signer: `ScheduleExecutor` has of a broadcast the steps of `AgentSigner` that a
scheduled payment can tell apart (the look for a record, the nonce lock, Circle,
the record), not a summary of what they achieve. Payment links, payouts and the
Turbo bridge stand on their own, each endpoint together with its lock, its
records, the service it calls and the chain. The locks of payment links and
payouts are two Durable Objects written to one pattern: what that pattern promises
is `ClaimLock`, and what the handlers and the alarm do to the claim of one key is
shown to implement it.

## 2. Modules

| Module | What it is |
|---|---|
| `GatewayOpLock` | the record of one Gateway operation and what `/reserve` and `/update` do to it |
| `GatewayTransfer` | the transfer endpoint: POST and confirm handlers, both stores, Circle, the chain; EXTENDS `GatewayOpLock` |
| `GatewayOperation` | the abstract specification: what the endpoint promises about operations, without requests, workers or stores |
| `GatewaySpend` | the browser client of the endpoint, composed with an INSTANCE of `GatewayOperation` |
| `ClaimLock` | the abstract specification of a claim lock: claimed, then committed for good or free again; `PaymentLink` and `CpnPayout` each implement it |
| `PaymentLink` | link records, their handlers, the payment lock |
| `CpnPayout` | the payout handler, the CPN lock, the KV records, Circle |
| `AgentSigner` | mailed codes, proofs, the broadcast with its record and nonce lock, the status poll, Circle |
| `TurboBridge` | the life of an intent: execution through the relayer, settlement, polls, the ledger, the chains |
| `ScheduleExecutor` | tabs, `localStorage`, and scheduled payments and multisends through the signer |
| `GatewayTransferProofs`, `GatewaySafetyProofs` | type correctness; safety and the implementation of `GatewayOperation` |
| `GatewaySpendProofs`, `PaymentLinkProofs`, `CpnPayoutProofs`, `AgentSignerProofs`, `TurboBridgeProofs`, `ScheduleExecutorProofs` | type correctness and safety of each |
| `MC...` | the small instances of the runs |

Definitions whose name ends in `_Something` next to a definition of the same
name are plausible bugs of the code (a dropped guard, a missing alarm). They are
used nowhere in the specifications; replacing the definition by its variant
makes TLC report the property it is listed with in `PROJECT.json`, which shows
that the property does depend on that code.

## 3. How the models correspond to the code

`PROJECT.json` ("map") names the lines of every definition. In outline:

**Gateway endpoint.** `rec["do"]` and `rec["kv"]` are the records in the Durable
Object and in KV. `pc`, `batch`, `next`, `reserved`, `todo`, `unsaved`,
`verdict` and `resp` are the locals of a POST handler. One step of the model is
one call of the handler to the store, to Circle or back to its client:

- `DoReserve`, `KvReserveGet`/`KvReservePut`: one turn of the reservation loop,
  with the fall-through to KV outside production; `Blocked` starts the rollback.
- `Forward`, `CircleAnswered`, `CallFailed`: the fetch, with its 18 s timer;
  `CircleHandles` is Circle, which may take the batch after the caller gave up.
- `DoUpdateOne`, `KvUpdateOneGet`/`KvUpdateOnePut`: one turn of either update
  loop; `Respond`: its end, which turns an answer that was not stored under
  every salt into the recoverable 502. The loops go over the salts in any order,
  which includes the order of the code.
- `ConfirmRead`, `ConfirmVerify`, `ConfirmWrite` (`ConfirmKvGet`,
  `ConfirmKvPut`): the confirm handler, whose RPC calls leave time between the
  check of the status and the write.
- A failed store call (`DoUpdate` with `ok = FALSE`, `DoReserveFails`,
  `KvReserveFails`) may have taken effect; `Crash` ends a worker for good.

`classifyHttpStatus`, `DoTransitions` and `KvTransitions` are the code's
functions and tables; the two tables differ, as they do in the code.

**Gateway client.** One lock key is one transfer (token, chains, depositor,
amount), which its user may start again at any time; each execution draws a salt
and is named by it. `lock` is `_inflight[lockKey]`, `step` the await an execution
is at, `outcome` what `execute()` returned. A step of the model is the code
between two awaits: it writes to the entry of the key, whoever's it is, and
throws when there is none. `Catch` and `Finally` are the two blocks at the end
of `execute()`, which between them decide whether the entry stays. The query
before the POST asks about a salt drawn a moment ago, so it finds nothing or
fails; the branches for a record it finds cannot be reached and are left out.
The endpoint is `Op`, an INSTANCE of `GatewayOperation`: `Serve` takes its steps
for the salts posted, whether or not the tab still waits, and confirms any of
them by any transaction; `MintElsewhere` is a mint of an attested salt by somebody
else, which the contract permits. The model
is of the library, which the tests exercise; `index.html` also carries an inline
flow of its own (`saExecGateway`), which is not modelled.

**Payment links.** `link` is the KV record of each token, `claim` and `alarm`
the PaymentLock of each transaction (or, when the lock is not bound, the KV
sentinel), and `req` what each worker is doing, with the copy of the record it
read. `Terms` stands for amount, recipient, token, chain, fee and expiry
together: two terms differ in any of them. `Verify` compares the receipt with
the copy; `Commit` ignores the lock's answer, as the code does, and leaves the
worker with a whole record to `Put`. `Scan` is GET, which writes the record back
with one more scan, or as expired. Creating a link writes under a fresh random
token; an invoice is named by its client and may be posted again. A stale KV
read is a read made earlier by a worker that goes on later, so it needs no step
of its own. The alarm may go off at any time after the claim; `outlived` remembers
the transactions for which it did with a request still between its claim and the
end of it.

**CPN payout.** One idempotency key of one user: `lock` and `alarm` are its
CpnLock, `reserve`, `idem` and `pending` the KV records, `pc`, `payload` and
`call` the requests, `payment` what Circle created for the key. `TakeLock`,
`Send`, `Answered`/`NetworkError`, `Promote`, `Commit`, `MarkPending`,
`Release`, `WritePending` and `ClearPending` follow the handler in order; each
write may fail before or after it took effect. A KV record that cannot be read
counts as absent, as in the code. `outlived` remembers whether the alarm has ever
gone off with a request still at its business.

**Agent signer.** One user and one wallet. `code` is the KV record of the code
waiting to be typed for one intent (a second one replaces it), `tokens` and
`proof` what `exec-otp.js` and `authorize.js` issue, `consumed`, `record` and
`lock` the KV records of proofs, executions and nonces. `job` is a request in
progress with what it has read: every access to a store is a step. What an
operation is said to be and what Circle is asked to call are two things, as they
are in the code: `Terms` are the operations codes are asked for, `Declarations`
those authorisations are asked for, `Calls` contracts, functions and parameters.
`Confirms` compares a declaration with a token field by field, skipping what either
leaves out, and never the call; `Bound` compares the call with the proof's, and not
the native value sent along, which is left out of `Calls`. A broadcast that finds the nonce
held by another execution (`AnswerHeld`), or meets Circle's own `nonce_conflict`
(`RecordFailed`), is answered ok and `pending` although nothing was sent; `acked`
and `stalled` tell the two kinds of success apart, which the client does not.
`Create` is Circle, which makes a transaction for each call, since each call draws
its own idempotency key; `orders` remembers what it was told, `Hash` lets the
transaction reach the chain. `lost` counts, for each execution, answers of Circle and
accesses to its record that were lost. `crossed` remembers the executions of which
two broadcasts were between the look for a record and its write at once, and the
codes with two attempts between read and answer: the read-then-write accesses
of the code keep neither apart (section 6). The asset of a known token, which
`authorize.js` also compares, is not among the terms.

**Turbo bridge.** `record` is the KV value of each intent. A worker's `job` holds
the copy it read; each `Persist` writes that whole copy, over whatever came
since, and may fail in silence as `kvPutJSON` does. `Execute` to `MarkFulfilled`
follow `execute.js` and `relayer.js`; `Poll` is the status endpoint, which
schedules the driver; `DriveStarts` to `Credit` follow `driveSettlement` and
`relayer/mint.js`. `vault` is the Vault's `intentState`, `burn` what Circle and
the MessageTransmitter know of a burn; `payPool` and `mintPool` are transactions
whose caller stopped waiting and that may still be mined. `ledger` holds the
stages the accounting shows.

**Schedule executor.** `ledger`, `claim` and `stored` are `localStorage`; `due`
is each tab's copy of the schedules, read when it is loaded; `job` is a tab's
work with its copy of the ledger, read when it starts on an occurrence and
written back whole (`Save`). The code between two awaits is one step. `Tick`
chooses what to do with a due occurrence by its entry (execute, skip, give up,
try later, reconcile); `Claim` to `Finish` execute it row by row; `Late` and the
`Reconcile...` actions handle a receipt that is not there yet. A transfer is sent
in two steps, as the server works: `Send` looks for a record of the execution,
finds none, and passes; at step `wait` Circle is called and the record written
(`Answer`, or `AnswerThrows`, `AnswerPending`). `SendKnown` is the answer of a
server that does not call Circle: the execution is on record, or the nonce lock
of the wallet is another's, and then the answer is `pending` for a transfer
nobody made. A tab that is reloaded, or loses the answer, leaves its request
behind (`orphans`), which the server goes on with (`Orphan`). The nonce lock counts
as taken while another scheduled transfer of the wallet is underway or not mined,
and may be found free even then: `Send` does not depend on it, as the code does
not when the lookup fails. `tx` are Circle's transactions, `held` what the
signer's record of an execution names, `lost` transactions whose record was lost
or not read, `outlived` occurrences whose lease ran out under a tab at work,
`crossed` executions with two requests past the look for a record, `unsent`
occurrences told `pending` of a transfer that was not sent.

**External.** Circle, the chains, the clock, KV expiry and the runtime are
modelled from how the code uses them. Circle Gateway takes a salt at most once
(its attestations are per salt); a 2xx means it took the batch, a definitive 4xx
that it did not, anything else leaves it open. Circle CPN creates at most one
payment per idempotency key. A mint succeeds only for attested salts not minted
before. A reverted transaction transferred nothing. The Vault pays an intent
once, the MessageTransmitter accepts a burn's message once.

## 4. Runs, bounds and what they show

Every bound is a CONSTANT of the configuration; the data domains are model
values.

| Run | Instance | What it shows |
|---|---|---|
| `GatewayProd` | 2 salts, 2 POSTs (single, pair, the pair reversed, a salt twice), 1 confirmation, 1 mint transaction (one or two attestations), 1 failure anywhere; Durable Object only; fairness | a salt is forwarded once, a rollback touches only its own salts, a rejection is definitive, a confirmation is a mint, settled is settled, every step is one of `GatewayOperation`, and while nothing has failed no record stays at `submitting` |
| `GatewayKv` | 1 salt, 2 POSTs, 2 confirmations, 2 transactions, 1 failure; KV only | even with separate reads and writes a confirmed record names its mint |
| `GatewaySpend` | 3 executions of one transfer, 1 reload; cancel, resolve and mints by others at any time | one open submission while the entry is not taken away; what an execution reports is so |
| `Payment` | a link and an invoice, 2 terms, 1 transaction, 2 workers; with and without the lock; an alarm at any time; fairness | a paid link is verified; a transaction pays one link unless its alarm went off under a live request; each transaction's lock implements `ClaimLock`; claims end |
| `PaymentReposted` | an invoice, 1 transaction, 2 workers | refutes `PaidIsFinal` (section 6) |
| `Cpn` | 3 requests, 2 payloads; with and without the lock; an alarm at any time; fairness | one request at a time deals with Circle until the alarm goes off under a live one; replays are true; the key's lock implements `ClaimLock`; claims end |
| `TurboBridge` | 1 intent, 2 burns, 2 workers, up to 2 executions, 2 faults; fairness | stale writes and lost receipts record no payment or mint that did not happen; polls reimburse the Vault |
| `TurboReexecuted` | 1 intent, 1 burn, 2 workers, 2 executions, no fault | refutes `ReexecuteReimburses` (section 6) |
| `Signer` | 2 executions, 2 amounts (an authorisation may leave its own out), 2 codes, 2 proofs, 2 workers, 2 nonces, 1 fault; bound `Apart` | Circle acts once per execution unless something is lost or two broadcasts cross, calls what the proof binds, and a code confirms nothing its mail contradicts; records are true |
| `Schedule` | 2 tabs, 2 payments, leases that run out, a tab closed once, its request going on; bound `Apart` | no transfer is made twice until two requests of its execution cross, nothing unpaid stands as executed, two tabs run one occurrence only after a lease ran out |
| `ScheduleAlone` | 1 tab, a payment and a multisend of 2 rows, any 2 of five faults (crash, refusal, lost answer, lost record, missing receipt); bound `QuietDays`; fairness | a payment is sent once; a row of a multisend too, unless its record is lost or its requests cross; a due occurrence comes to an end unless told `pending` of a transfer nobody sent |
| `ScheduleUnpaid` | 1 tab, a multisend of 2 rows, no fault | refutes `ExecutedPaysAll` (section 6) |

Why the bounds are enough. The hazards are between two requests (a retry and the
first attempt, two batches, two payers, two drivers of a settlement, two tabs),
between a request and something that comes from outside (Circle, an alarm, a
lease, a transaction), or need one failure at the wrong moment. Two requests of
one item each, or of two items in both orders, contain all of these pairs. One
failure can already lose an answer at every call; two let a retry fail as well.
A third CPN request is needed for a retry of a retry that meets another payload,
a third execution of the client for one that finds the key free while two are
still running. One payment transaction suffices for two links to compete for it.
`Schedule` has crashes as its only fault and single transfers: with two tabs a
lost record or a second row takes the state space beyond what can be explored,
and `ScheduleAlone` has them with one. The deployment of the Gateway endpoint
with both stores is in no run: what it keeps (`ConfirmedIsMinted`,
`SettledForGood`, types) is proved in any deployment. The proofs remove the
bounds for all the safety properties they cover.

Three runs have a state constraint, defined and named in their MC module.
`Signer`'s `Apart` explores either broadcasts (two proofs of operations that need
no code, two workers, a fault) or codes (two codes, attempts that overlap, one
proof, one broadcast, no fault), since what a code confirms does not depend on how
the stores of a broadcast fail. `Schedule`'s `Apart` ends a behaviour when two
requests of one execution have crossed, which `PaidOnce` excepts from there on, or
when a day is missed. `ScheduleAlone`'s `QuietDays` allows one fault, not two, where
a day is missed. The theorems have none of these bounds.

Symmetry is used only in runs without liveness properties.

No constant assumes a kind clock or kind users. Where the code gives no guarantee
a history variable remembers that the bad thing has happened, the behaviour goes on,
and the properties say which transactions, keys or executions they except:
`outlived` (the alarm of a claim, 60 s for a payment and 120 s for a payout, went off
under a live request; a lease, under a tab at work), `crossed` (two requests past
one check together), `lost` (an answer or a record), `unsent` (success answered
without a transaction), `dropped` (the client's entry taken from a running
execution). Section 6 says what the code does then.

Deadlock is not checked because the systems may stop: requests end and nothing
says clients send more.

The properties, and the hazard behind each:

- `ForwardedOnce`: a retry, an overlapping batch, a salt named twice in a batch, a
  lost answer or a crash never makes the endpoint hand a salt to Circle again.
- `RolledBackWasNeverSent`: an operation given up by a rollback was not in flight.
- `RejectedIsDefinitive`: the client is told to sign a new intent only when the
  old one is dead.
- `ConfirmedIsMinted`, `SettledForGood`: confirmations, which act on a status
  they read several RPC calls ago, neither invent a mint nor overwrite a result.
- `SubmissionResolves`: overlapping batches do not leave each other blocked.
- `OneSubmission`: the client's entry, written and deleted between awaits by
  whoever runs, keeps two burns of one transfer apart until somebody takes it away.
- `AnswerIsTrue`: a transfer reported as done was minted and accepted, one reported
  as failed before its POST never reaches the endpoint, although anybody may mint an
  attested salt and confirm any transaction.
- `PaidVerified`: although records are written whole from stale copies, a paid
  record carries the terms its transaction did pay.
- `TxPaysOneLink`, `ImplementsLock`, `ClaimsResolve`: the lock's claims are
  exclusive, only their holder commits them, they are final once committed (that
  is `CommittedForGood`, which the proofs also state), until an alarm goes off under a
  live request; even then a request leaves the claims of other owners alone. No
  claim is stuck.
- `OneCallInFlight`, `ReplayIsPaid`, `ImplementsLock`, `ClaimResolves`: the same
  for payouts, where a committed key must also name what Circle paid, whatever the
  alarm did.
- `OneTransaction`, `SubmittedIsSent`, `SubmittedForGood`: proofs and record
  together make one transaction of an execution, and its record neither claims more
  nor forgets, unless something is lost or two broadcasts of it cross.
- `DoneAsConfirmed`, `CodeUsedOnce`: codes overwritten, mistyped and retried never
  confirm what their mail contradicts, and Circle is told to call what the proof was
  issued for. That the call does what was declared is not a property of the code.
- `FulfilledIsPaid`, `SettledIsMinted`, `FulfilledForGood`, `PollsReimburse`: the whole-record writes of executions and settlement drivers
  neither invent a payment nor lose the reimbursement.
- `PaidOnce`, `PaymentSentOnce`: an occurrence run again because a copy was stale,
  a tab closed or an answer lost pays nothing twice; the first with any number of
  tabs while no record is lost and no two requests cross, the second with one tab
  whatever is lost.
- `ExecutedIsPaid`, `OneRunner`, `DueResolves`: reconciliation is true, leases
  exclude, and an occurrence is left hanging only in the ways it names.

## 5. Fairness

- `GatewayTransfer!FairSpec`: weak fairness of `PostStep(p)`. A live worker runs
  its handler to the end, and the wait for Circle is ended by the handler's own
  18 s timer (`CallFailed` is part of the step). Nothing is assumed of clients,
  of Circle, of the chain or of confirmations. `SubmissionResolves` excepts
  behaviours with a failure: a dead worker does leave its salts at `submitting`.
- `PaymentLink!FairSpec` and `CpnPayout!FairSpec`: weak fairness of each live
  request's next step, and of the alarm once set. The platform runs a set alarm
  at least once. A dead worker is `Abandon`, which ends the request in the model
  at any step, so fairness never assumes that a request is completed.
- `TurboBridge!FairSpec`: weak fairness of each worker's execution and settlement
  steps, of the client's polls of each intent (the page polls until it is told
  that the Vault was reimbursed), and of the mining of what was broadcast. Lost
  workers and failed calls are faults, of which there are finitely many: outages
  end. Nothing makes Circle attest a burn: `PollsReimburse` is about attested ones.
- `ScheduleExecutor!FairSpec`: weak fairness of a tab's work and of mining, strong
  fairness of the tick of each occurrence: a tick goes through the due occurrences
  in turn, so one that is due again and again is reached, though a tab at work on
  another is not ready for it.
- `AgentSigner` and `GatewaySpend` state none: their properties are safety.

## 6. Disagreements between the code and its documentation

Three are the counterexample of a run.

1. `PaymentReposted`. "Never overwrite an already-paid invoice"
   (`invoice.js:102`) is checked on a read made before the write: an invoice paid
   in between is set back to active.
2. `TurboReexecuted`. "Each call to the status endpoint (or a re-execute) drives it
   one step further until reimbursed" (`settlement.mjs:175`). Executing a fulfilled
   intent again leaves it at `Executing`, which the status endpoint does not resume.
3. `ScheduleUnpaid`. "An interrupted run resumes or reconciles without re-sending
   already-confirmed rows" (`agentScheduleExecutor.js:1125-1127`). When the receipt
   of one row is late the occurrence is reconciled as a whole by that row's hash:
   executed, with the remaining rows never sent.

Others were met while modelling and have no run of their own:

- The header of `transfer.js` (line 27) says confirm writes `failed` once it
  verified that there was no on-chain activity. It writes `failed` when the named
  transaction reverted; another may still mint the attestation, and `failed` is
  final.
- When Circle's answer cannot be stored the client is told that the result is
  recoverable by later reconciliation (`transfer.js:506-508`). The record is still
  `submitting`, which confirm refuses and nothing else changes.
- The alarm of the payment lock "only fires on abandoned/failed requests"
  (`payment-lock.do.js:80`), that of the CPN lock "only when the owning fetch never
  reached commit/markPending/release" (`cpn-lock.do.js:112`). Both fire when their
  time has come, whatever the request is doing (its RPC calls and its call to Circle
  have no timeout): another link can then claim the transaction and both be paid with
  it, a retry can call Circle beside the first request, and a late release takes back a
  commit of the same owner. `ImplementsLock` states what a lock still keeps then.
- "Release the lock on a known CPN error so the caller can retry safely"
  (`cpn/[[route]].mjs:733`) includes 5xx, after which the payment may exist; the
  free key is then given to another payload.
- "One executionId ⇒ at most one Circle transaction" (`_execution.mjs:10`), "it still
  prevents a duplicate broadcast for the same execution" (lines 75-76), "Circle's own
  idempotency key + single-use proof already prevent replay" (`broadcast.js:190-193`).
  A record is looked for at `broadcast.js:177` and written at 265, after the call to
  Circle; the nonce lock lets the same execution pass (`_execution.mjs:89`), proofs are
  per request, and the idempotency key is drawn anew (line 219). Two broadcasts of one
  execution underway together make two transactions, and so does a retry after a call
  that threw, whose record says failed. `OneTransaction` says there is no other way.
- The signer answers ok and `pending`, as for a transaction in flight, to an execution
  that meets another's nonce lock, or Circle's `nonce_conflict`
  (`broadcast.js:202-208`, 252-256), although there is no transaction of it and none
  will be made; "tx is in-flight but not recorded" (line 207) is true of the other
  execution's. The client takes the answer for a submission
  (`secureSignerProvider.js:217-221`). A second occurrence due in the same tick meets
  the lock of the first in this way, with no fault, and stays submitted for ever: its
  execution has no record, or a failed one, so no hash ever comes.
- "Authorize this operation" (`exec-otp.js:106`): the mail shows operation, amount and
  asset, not the destination. `authorize.js:116-131` compares the declared operation,
  amount and destination with the token, each only where both have it, and never the
  request whose call is executed; `broadcast.js:150-158` compares the call with the
  proof's, but not the native value it sends (line 229). What a code confirms is what
  was declared, not what is called.
- "OTP valid — consume it (single-use)" (`exec-otp.js:242`): two right answers between
  the read of the code and its deletion each get a token, and two wrong ones count as
  one attempt. The token is called single-use too (line 22); nothing consumes it, and
  it authorises until it expires.
- Two tabs whose lease ran out, or a reloaded tab and its own earlier request, can cross
  in the signer as above: the transfer is then made twice.
- The gateway client "retains submitted entries until explicitly acknowledged"
  (`GatewaySpendService.js:219-221`). A failure after the acceptance deletes the
  entry on the way out (lines 963-967), so the next try burns again.
- "cancel() is refused once the intent has been submitted to Circle" (line 39). It
  is refused once the POST was answered; a cancel while the query or the POST is
  out is accepted and the intent is submitted all the same.
- The query before the POST is meant to find a submission "from a previous crashed
  session" (lines 37-38), but asks about a salt drawn in this very call.
- A payment with several recipients sends all its transfers under one execution id
  (`agentScheduleExecutor.js:1028`): the signer answers the second with the first.
- A tab that ticks while another is sending an occurrence finds `execution_unknown`
  and gives it up as failed (`agentScheduleExecutor.js:812`) while it is being paid.

## 7. What is proved

All theorems are for any finite or infinite sets of salts, requests, links,
transactions, workers, payloads, intents, executions, codes and tabs, and any
number of failures; none refers to the instances of the runs.

| Theorem | Statement | Assumption |
|---|---|---|
| `GatewayTransferProofs!TypeCorrect` | `[]TypeOK` | none |
| `GatewaySafetyProofs!ForwardedAtMostOnce` | `[]ForwardedOnce` | `DurableOnly` |
| `GatewaySafetyProofs!RollbackIsSafe` | `[]RolledBackWasNeverSent` | `DurableOnly` |
| `GatewaySafetyProofs!RejectionIsDefinitive` | `[]RejectedIsDefinitive` | `DurableOnly` |
| `GatewaySafetyProofs!Settled` | `SettledForGood` | none |
| `GatewaySafetyProofs!ConfirmationIsMint` | `[]ConfirmedIsMinted` | none |
| `GatewaySafetyProofs!Implements` | `ImplementsOperation` | `DurableOnly` |
| `GatewaySafetyProofs!SubmissionsAccounted` | `[]Accounted` | `DurableOnly` |
| `GatewaySafetyProofs!SubmissionsInHand` | `[]SubmissionInHand` | `DurableOnly` |
| `GatewaySpendProofs!TypeCorrect` | `[]TypeOK` | none |
| `GatewaySpendProofs!OneOpenSubmission` | `[]OneSubmission` | none |
| `GatewaySpendProofs!AnswersAreTrue` | `[]AnswerIsTrue` | none |
| `PaymentLinkProofs!TypeCorrect` | `[]TypeOK` | none |
| `PaymentLinkProofs!PaidLinkIsVerified` | `[]PaidVerified` | none |
| `PaymentLinkProofs!OneLinkPerTx` | `[]TxPaysOneLink` | none (excepts `outlived`) |
| `PaymentLinkProofs!CommitIsForGood` | `CommittedForGood` | none (excepts `outlived`) |
| `PaymentLinkProofs!LockRefined`, `!EachLockRefined` | `ImplementsLock`, `Lock(t)!Spec` of each transaction | none |
| `PaymentLinkProofs!ClaimHasAlarm` | `[]RunningHasAlarm` | none |
| `CpnPayoutProofs!TypeCorrect` | `[]TypeOK` | none |
| `CpnPayoutProofs!ReplayIsTrue` | `[]ReplayIsPaid` | none |
| `CpnPayoutProofs!OneCall` | `[]OneCallInFlight` | none (until `outlived`) |
| `CpnPayoutProofs!CommitIsForGood` | `CommittedForGood` | none (until `outlived`) |
| `CpnPayoutProofs!LockRefined` | `ImplementsLock` | none |
| `CpnPayoutProofs!ClaimHasAlarm` | `[]RunningHasAlarm` | none (until `outlived`) |
| `TurboBridgeProofs!TypeCorrect` | `[]TypeOK` | none |
| `TurboBridgeProofs!FulfilmentIsPayment` | `[]FulfilledIsPaid` | none |
| `TurboBridgeProofs!SettlementIsMint` | `[]SettledIsMinted` | none |
| `TurboBridgeProofs!CreditIsPaid` | `[]CreditedIsPaid` | none |
| `TurboBridgeProofs!FulfilmentIsForGood` | `FulfilledForGood` | none (the property is about intents executed once) |
| `TurboBridgeProofs!RecoveryIsForGood` | `RecoverableForGood`, `AwaitedUntilSettled` | none (likewise) |
| `AgentSignerProofs!TypeCorrect` | `[]TypeOK` | none |
| `AgentSignerProofs!ConfirmationIsKept` | `[]DoneAsConfirmed` | none |
| `AgentSignerProofs!SubmissionIsSent` | `[]SubmittedIsSent` | none |
| `AgentSignerProofs!OneTransactionEach` | `[]OneTransaction` | none (excepts `crossed`, counts `lost`) |
| `AgentSignerProofs!SubmissionIsForGood` | `SubmittedForGood` | none (excepts `crossed`, `lost`) |
| `AgentSignerProofs!CodeIsUsedOnce` | `[]CodeUsedOnce` | none (excepts `crossed`) |
| `ScheduleExecutorProofs!TypeCorrect` | `[]TypeOK` | none |
| `ScheduleExecutorProofs!ExecutionIsPaid` | `[]ExecutedIsPaid` | none |
| `ScheduleExecutorProofs!TransferIsPaidOnce` | `[]PaidOnce` | none (excepts `lost`, `crossed`) |
| `ScheduleExecutorProofs!OneTabRuns` | `[]OneRunner` | none (excepts `outlived`) |
| `ScheduleExecutorProofs!PaymentIsSentOnce` | `[]PaymentSentOnce` | one tab |
| `ScheduleExecutorProofs!DueGoesOn` | `[]NothingBlocked` | one tab |

The other assumptions are those the modules name (`SpendAssumption`,
`TurboAssumption`, ...): bounds are naturals, the null value is none of the
others. `DurableOnly` is `HasDO /\ (Prod \/ ~HasKV)`: the Durable Object is bound
and a request never falls through to KV. This is what the code demands in
production. Outside it a salt reserved in KV after the Durable Object threw may be
reserved again, and the code says so. Where the table says what a theorem excepts,
the exception is part of the property and is a history of the behaviour, not a
restriction of it: the model goes on through it, and the theorem says that there is no
other way to what it denies.

**Gateway.** None of the properties is inductive: that a salt is forwarded once
follows from who owns its reservation, which no property mentions. The
strengthening `DurableInv` has these parts. `ReservedPrefix`: what a request has
reserved is the part of its batch it has gone over, which names no salt twice.
`Ownership`: two requests never have reserved the same salt, and a reserved salt
has a record. `Progress`: a request that forwards has reserved its whole batch,
and its loops stay within what it reserved. `Untouched`: a salt whose owner has
not stored anything yet is at `submitting`. `Origins`: what Circle took, and each
accepted, ambiguous or rejected record, comes from a request that owns the salt
and got that answer. A lost answer of a reserve leaves a record nobody owns,
which is why ownership is stated from the request's side. `ConfirmedIsMinted`
needs a different invariant (`MintInv`): whatever a confirmation carries between
its steps, or has in hand between a KV read and write, names a mined transaction
that proves its salt, and what is mined stays. The refinement maps `rec["do"]` to
the status of an operation and the forwarded batches to `sent`; each action is a
step of `GatewayOperation` or a stutter, given `DurableInv`. `Accounted` says from
the record's side what the failures leave behind: an operation at `submitting` is
in the hands of a live request that will store an outcome, or was left by a crash
(`reserved` of a dead request), by an update that failed (`unsaved`), or by a
reserve whose answer was lost; each of the three is the mark of a fault (`Marks`),
so without one it is in a live request's hands. With fairness of `PostStep` this is
why `SubmissionResolves` holds.

**Gateway client.** `LockInv`: until the entry is taken from it, a running
execution holds the entry of its key, not submitted before the POST's answer and
submitted after it; an entry nobody runs for is that of an ambiguous submission.
Two open submissions would both hold the one entry. For `AnswerIsTrue` the invariant
is `Told`: an execution before its POST has posted nothing, and what was never posted
is nowhere at the endpoint; after an answer that accepted it the record has not gone
back; a successful receipt is of a mint, and mints stay. It assumes neither who minted
nor what was confirmed, and nothing of the entry.

**Payment links.** For `PaidVerified`, the invariant `PaidInv` adds the copies:
a record about to be written shows a payment only if the transaction is accepted
for the terms in the same copy, and a request at its commit has verified exactly
that. For the lock, `LockInv` says, of each transaction not in `outlived`, that a request
between its claim and its end has a running claim of its own, that no other has one
for the same transaction, and that a paid record, stored or about to be, rests on a
committed claim of its link. A claim names one link, so a transaction pays one.
Given `LockInv` each step is one of `ClaimLock` for one transaction and a stutter for
the others: the state of the abstract lock is the claim, who is inside are the
requests between their claim and its end, and it has `lapsed` when the transaction is
in `outlived`. `ClaimLock` allows more then, as the code does (a second client beside
the first, a late release of what the same owner closed), but never a change of a
claim held for another owner: this is what the lock compares on every call. That every
claim not committed has its alarm (`AlarmInv`) needs no exception.

**CPN payout.** `ReplayInv` follows the answer: a request that promotes or
commits was answered with a payment, the answer means Circle's payment has its
payload, and Circle's payment never changes. `HoldInv` says that a request from
its claim to its last call to the lock is the only one and that the claim is
running, so nothing but that request ends it. From it follow both the refinement
of `ClaimLock`, in which a call that fails after it took effect is the step and the
others stutter, and that a processing claim keeps its alarm. Both parts of `HoldInv`
are about behaviours in which no alarm has gone off under a live request (`outlived`).
After one, the refinement still holds, with the abstract lock lapsed, but a claim may
lose its alarm: `release` (`cpn-lock.do.js:92-97`) deletes the alarm whichever payload
holds the claim, so a late release of one request takes the alarm away from the claim
another has taken since, and if that one dies the key stays at processing.

**Turbo bridge.** Nothing orders the writes, so every fact about a record is
carried by every copy a worker holds (`TrueRecord`, `TrueJob`): a copy says paid
or settled only of what the Vault paid or the burn that was minted, and payments
and mints are never undone. `FulfilledForGood` needs more (`Once`): of an intent
executed once the execution is over before anything drives its settlement, so
every copy around agrees on the fulfilment, the burn and the chain.
`RecoveryIsForGood` is the safety half of `PollsReimburse`. That a settled record
stays settled is false: a settlement that began earlier can overwrite it. But every
copy written over a record that says the user was paid says so too, and names the
same burn and chain (`Way`: until the record says it, only the worker that executes
the intent has it), so what is left is settled or taken up by the next poll.

**Agent signer.** `Sends`: a record, or a copy, that shows an execution as
submitted is of one Circle made a transaction of, and so is one acknowledged by its
record. `Confirmed`: a token carries the operation its mail was sent for, a proof
issued on it was declared as one that agrees with it, a broadcast's call is its
proof's, and neither a proof nor what a code was mailed for ever changes. `Accounted`,
of each execution not in `crossed`: one broadcast of it at most is past the look for
a record, and the number of its transactions is bounded by the answers and accesses
it lost, by the step that broadcast is at (`Level`), and by one for a record in
flight. `CodeOnce`, of each code not in `crossed`: one request at most is checking
it, and as long as it is waiting or being checked it was not used.

**Schedule executor.** `Inv`: in the ledger and in every copy, an entry's hash or
marker is of its own occurrence and `executed` goes with a confirmed transaction; a job
is within its rows and its claim; what a record names was made. `PaidOnce` follows
with `Recorded`, of each execution not in `crossed`: one request of it at most, of a
tab or left behind by one, is past the look for a record (`Alone`), and each of its
transactions is on record or lost, with nobody past the look (`OnItsRecord`).
`OneRunner` follows with `Guarded`: the claim of an occurrence a tab is at work on is
a running one, unless it is in `outlived`. With one tab more holds, because nobody
writes between its reads and writes: its copy is the ledger (`InStep`), no request or
transaction of a payment precedes its intent in the ledger (`IntentFirst`), the rows
of a payment are sent in order (`RowsInOrder`), an occurrence that may be run again
stands at a status before its intent (`Begun`), and a transfer has one transaction or
one request that goes on without the tab, not both (`OnceEach`). Together they are
`SoloInv`, which gives `PaymentSentOnce`; it needs no exception, since the intent keeps
a payment from being sent again even where the signer would send it. `DueGoesOn` adds,
of a tab that is not reloaded, that every due occurrence it is not at work on is one
the next tick can start or ask after, its claim free (`OthersGoOn`): the safety half
of `DueResolves`. An occurrence told `pending` of a transfer nobody sent is one the
tick can ask after, in vain.

## 8. What is only model-checked, and what is not modelled

Only model-checked: the liveness properties (`SubmissionResolves`,
`ClaimsResolve`, `ClaimResolves`, `PollsReimburse`, `DueResolves`), which are
beyond the proof system used here, and the three counterexamples. Of each liveness
property the safety half is proved, which says that nothing is ever in a state from
which the fair steps could not go on: `SubmissionsInHand`, `ClaimHasAlarm` (twice),
`RecoveryIsForGood` and `DueGoesOn`. What remains for TLC is that the fair steps do
happen and that there are finitely many of them.

Not modelled in the modelled components, and why:

- `DELETE /release` of the Gateway lock has no caller in the repository. GET and
  PATCH of the transfer endpoint write nothing.
- KV records expire after their retention time; the models keep them, except
  codes and nonce locks of the signer, whose expiry is an action. The expiry of a
  Gateway record would free a salt long after Circle's own deadline.
- The rollback on KV cannot write `failed` (the KV table has no such
  transition). The model has this, and no property is stated about it: only
  development deployments run on KV.
- The Gateway endpoint keys records by the salt as written, and compares salts without
  regard to the case of their hex digits only where it decodes the attestation
  (`transfer.js:207`, 227, 365, 382 against 1304). A salt is a model value: two
  spellings of one salt would be two records. The client always sends lower case.
- Fees of payment links, token, chain and rate limits are part of `Terms` or left
  out; the fee transaction is not claimed by the code and not modelled.
- Sessions, signatures, field validation, ABI decoding and logging decide whether
  a request is let in, and are abstracted to that decision. The asset that
  `authorize.js` compares for known tokens (lines 141-147) and the user and wallet of a
  token are part of it. The signer's circuit
  breaker, pause and rate limit appear as refusals.
- The claim of a CPN or payment lock and its alarm are one step; in the code an
  instance lost between the two leaves a claim without an alarm. `ClaimHasAlarm` is
  about what the handlers do and holds up to such a loss.
- Treasury Core: authentication, quotes, the replay protection of nonces and the
  circuit breaker; fees of the relayer's payments.
- Schedule executor: swaps, bridges and cross-chain schedules, which are delegated
  to other code (`_delegateExecution`, `_reconcileCrossChain`); manual types, which
  only remind; the browser's own signer; a full `localStorage`; the pruning of the
  ledger beyond 300 entries; two identical transfers that cannot be told apart by
  their nonce; requests of the same wallet from elsewhere, which can hold its nonce lock
  too. The renewal of a lease does not extend it and changes nothing.
- Gateway client: `prepare()`, amounts, the building and the verification of the
  intent change no state. The copy of the flow inlined in `index.html` is separate
  code.

Components not modelled: contracts (each call is one atomic transaction), rate
limiting (best effort by design), client billing (its requests may come at any
time in the models of the endpoints), and the client execution engines, of which
`CCTPV2InboundEngine` and `BridgeRecoveryEngine` have no live caller. Most of the
repository is user interface, prompts and natural-language handling, data, proxies
and vendored libraries, which keep no state worth checking here.

## 9. Plan

Done: Gateway endpoint and client, payments, payouts, the agent's signer, the
Turbo bridge, scheduled payments, and the abstract lock that payments and payouts
implement.

Next, in this order:

1. `CircuitBreaker` and `ReplayNonce` (`api/core/`): half-open, the failure
   window, lost counter updates; a nonce looked up and then stored.
2. The other kinds of schedules, with the execution queue they are delegated to
   (`shared/executionQueue.js`, `shared/BatchExecutionEngine.js`).
3. `MultiSend` (`contracts/MultiSendExecutorV4.sol`): conservation of a batch with
   failing recipients.
4. An abstract signer that `AgentSigner` implements and `ScheduleExecutor` uses as an
   INSTANCE, as `GatewaySpend` uses `GatewayOperation`: requests of an execution past
   the look for a record, the transactions they make, what is recorded, and answers
   that name nothing.
