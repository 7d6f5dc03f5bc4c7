--------------------------- MODULE GatewayTransfer ---------------------------
(***************************************************************************)
(* /api/gateway/transfer: the POST handler that forwards a batch of signed *)
(* burn intents to Circle's Gateway at most once per salt, and the         *)
(* POST .../confirm handler that settles an operation from an on-chain     *)
(* transaction.                                                            *)
(*                                                                         *)
(* A POST reserves every salt of its batch, in order; the first one it     *)
(* cannot reserve makes it roll back the others and stop.  With all of     *)
(* them reserved it forwards the batch, waits for Circle (18 s at most),   *)
(* and stores the classified answer under every salt.  Each call to the    *)
(* store is one step of the model (two for the non-atomic KV namespace),   *)
(* so the steps of several requests, of Circle, of the chain and of        *)
(* confirmations interleave as awaits let them.                            *)
(*                                                                         *)
(* A store call may fail, with or without having taken effect (an answer   *)
(* that was lost), and a worker may die between two steps: MaxFaults       *)
(* bounds how often.                                                       *)
(***************************************************************************)
EXTENDS GatewayOpLock, Sequences, Functions

CONSTANTS
    Salts,       \* operation identifiers
    Posts,       \* POST requests; a client's retry is another request
    Confirms,    \* workers serving POST .../confirm
    Txs,         \* transactions the chain may mine
    Batches,     \* bodies a client may post: sequences of salts
    MintGroups,  \* salts one mint transaction may carry, in order
    HasDO,       \* GATEWAY_OP_LOCK is bound
    HasKV,       \* GATEWAY_OPS_KV is bound
    Prod,        \* isProduction(env)
    MaxFaults    \* bound on failed store calls and dead workers

NonEmptySeqs(S, seqs) == \A b \in seqs : b \in Seq(S) /\ b # <<>>

ASSUME GatewayAssumption ==
    /\ NonEmptySeqs(Salts, Batches)
    /\ NonEmptySeqs(Salts, MintGroups)
    /\ {HasDO, HasKV, Prod} \subseteq BOOLEAN
    /\ HasDO \/ (HasKV /\ ~Prod)        \* otherwise every POST is refused
    /\ NoTx \notin Txs
    /\ MaxFaults \in Nat
    /\ Posts \cap Confirms = {}

VARIABLES
    rec,        \* rec[store][salt]: the operation records
    pc,         \* where each POST is
    batch,      \* the body it carries
    next,       \* the item it reserves next
    reserved,   \* the salts it has reserved
    todo,       \* the salts its current update loop has still to visit
    unsaved,    \* the salts whose update it saw fail
    verdict,    \* the status it is to store
    resp,       \* what it answers its client
    circle,     \* what became of the forwarded batch at Circle
    attested,   \* salts Circle accepted
    chain,      \* mined transactions
    conf,       \* confirmations in progress
    hand,       \* KV read-modify-writes in progress
    faults      \* failures so far

storeVars   == <<rec, faults, hand>>
loopVars    == <<todo, unsaved>>
requestVars == <<batch, next, reserved>>
outsideVars == <<circle, attested, chain>>
vars == <<rec, pc, batch, next, reserved, todo, unsaved, verdict, resp,
          circle, attested, chain, conf, hand, faults>>

-------------------------------------------------------------------------------
(* Values *)

Stores  == {"do", "kv"}
Records == [status : KnownStates \cup {"none"}, tx : Txs \cup {NoTx}]
Codes   == {"2xx", "4xx", "408", "429", "5xx"}

PostStates  == {"idle", "reserve", "kvReserve", "kvPut", "forward", "await",
                "rollback", "record", "done", "crashed"}
Responses   == {"none", "conflict", "blocked", "ambiguous", "recoverable", "answered"}
CircleState == {"unsent", "sent"} \cup Codes

Actors == Posts \cup Confirms
NoHand == [salt |-> "none", old |-> NoRecord]
Hands  == {NoHand} \cup [salt : Salts, old : Records]

NoMint    == [salts |-> <<>>, ok |-> FALSE]
Idle      == [step |-> "idle", salt |-> "none", tx |-> NoTx]
Confirming(step, s, t) == [step |-> step, salt |-> s, tx |-> t]
Mined(t)  == chain[t] # NoMint
MintedBy(t, s) == chain[t].ok /\ s \in Range(chain[t].salts)
Minted(s) == \E t \in Txs : MintedBy(t, s)

\* VALID_TRANSITIONS of transfer.js, which the KV fallback applies: unlike the
\* Durable Object's table it has no submitting -> failed.
KvTransitions == [DoTransitions EXCEPT !["submitting"] = {"accepted", "rejected", "ambiguous"}]

KvCanUpdate(record, to) ==
    /\ record.status # "none"
    /\ to \in KvTransitions[record.status]

\* Mutant of classifyHttpStatus: every failure read as a definitive refusal.
classifyHttpStatus_5xxRejected(code) ==
    CASE code = "2xx" -> "accepted"
      [] code \in {"4xx", "5xx"} -> "rejected"
      [] OTHER -> "ambiguous"

\* Mutant of classifyHttpStatus: a status the state machine does not know.
classifyHttpStatus_Timeout(code) ==
    CASE code = "2xx" -> "accepted"
      [] code = "4xx" -> "rejected"
      [] code = "408" -> "timeout"
      [] OTHER -> "ambiguous"

\* What an HTTP answer of Circle means; anything uncertain is 'ambiguous'.
classifyHttpStatus(code) ==
    CASE code = "2xx" -> "accepted"
      [] code = "4xx" -> "rejected"
      [] OTHER -> "ambiguous"

Init ==
    /\ rec = [st \in Stores |-> [s \in Salts |-> NoRecord]]
    /\ pc = [p \in Posts |-> "idle"]
    /\ batch = [p \in Posts |-> <<>>]
    /\ next = [p \in Posts |-> 1]
    /\ reserved = [p \in Posts |-> {}]
    /\ todo = [p \in Posts |-> {}]
    /\ unsaved = [p \in Posts |-> {}]
    /\ verdict = [p \in Posts |-> "none"]
    /\ resp = [p \in Posts |-> "none"]
    /\ circle = [p \in Posts |-> "unsent"]
    /\ attested = {}
    /\ chain = [t \in Txs |-> NoMint]
    /\ conf = [c \in Confirms |-> Idle]
    /\ hand = [a \in Actors |-> NoHand]
    /\ faults = 0

-------------------------------------------------------------------------------
(* Calls to the store *)

Fault == faults < MaxFaults /\ faults' = faults + 1

\* The record stored by the call, and the call that changes nothing.
Store(st, s, record) == rec' = [rec EXCEPT ![st][s] = record]

\* tryUpdate on the Durable Object: ok is what the caller sees.  A call that
\* throws is reported as a failure whether or not it took effect.
DoUpdate(s, to, rollback, tx, ok) ==
    /\ HasDO
    /\ \/ /\ ok
          /\ CanUpdate(rec["do"][s], to, rollback)
          /\ Store("do", s, Updated(rec["do"][s], to, tx))
          /\ UNCHANGED faults
       \/ /\ ~ok
          /\ ~CanUpdate(rec["do"][s], to, rollback)
          /\ UNCHANGED <<rec, faults>>
       \/ /\ ~ok
          /\ Fault
          /\ \/ UNCHANGED rec
             \/ /\ CanUpdate(rec["do"][s], to, rollback)
                /\ Store("do", s, Updated(rec["do"][s], to, tx))

\* tryUpdate on KV, first half: read and check; the value read is kept in hand.
KvUpdateGet(a, s, to) ==
    /\ ~HasDO /\ hand[a] = NoHand
    /\ KvCanUpdate(rec["kv"][s], to)
    /\ hand' = [hand EXCEPT ![a] = [salt |-> s, old |-> rec["kv"][s]]]
    /\ UNCHANGED <<rec, faults>>

\* ... or give up: no such record, transition not allowed, or KV failed.
KvUpdateRefused(a, s, to) ==
    /\ ~HasDO /\ hand[a] = NoHand
    /\ \/ ~KvCanUpdate(rec["kv"][s], to) /\ UNCHANGED faults
       \/ Fault
    /\ UNCHANGED <<rec, hand>>

\* Second half: the whole record goes back, built from the value read earlier.
KvUpdatePut(a, to, tx, ok) ==
    /\ hand[a] # NoHand
    /\ hand' = [hand EXCEPT ![a] = NoHand]
    /\ \/ ok /\ UNCHANGED faults
       \/ ~ok /\ Fault
    /\ \/ Store("kv", hand[a].salt, Updated(hand[a].old, to, tx))
       \/ ~ok /\ UNCHANGED rec

-------------------------------------------------------------------------------
(* POST: reservation of the batch *)

Item(p) == batch[p][next[p]]

\* The body has been validated; the loop over its items starts.
Receive(p, b) ==
    /\ pc[p] = "idle"
    /\ batch' = [batch EXCEPT ![p] = b]
    /\ pc' = [pc EXCEPT ![p] = "reserve"]
    /\ UNCHANGED <<storeVars, next, reserved, loopVars, verdict, resp, outsideVars, conf>>

\* The salt is ours: next item, or forward when it was the last one.
Reserved(p) ==
    /\ reserved' = [reserved EXCEPT ![p] = @ \cup {Item(p)}]
    /\ next' = [next EXCEPT ![p] = @ + 1]
    /\ pc' = [pc EXCEPT ![p] = IF next[p] = Len(batch[p]) THEN "forward" ELSE "reserve"]
    /\ UNCHANGED <<batch, loopVars, verdict, resp, hand, outsideVars, conf>>

\* Mutant of Blocked: the whole batch is rolled back, not what was reserved.
Blocked_WholeBatch(p, why) ==
    /\ pc' = [pc EXCEPT ![p] = "rollback"]
    /\ todo' = [todo EXCEPT ![p] = Range(batch[p])]
    /\ resp' = [resp EXCEPT ![p] = why]
    /\ UNCHANGED <<requestVars, unsaved, verdict, hand, outsideVars, conf>>

\* It is not: roll back what was reserved and answer why.
Blocked(p, why) ==
    /\ pc' = [pc EXCEPT ![p] = "rollback"]
    /\ todo' = [todo EXCEPT ![p] = reserved[p]]
    /\ resp' = [resp EXCEPT ![p] = why]
    /\ UNCHANGED <<requestVars, unsaved, verdict, hand, outsideVars, conf>>

DoReserve(p) ==
    /\ pc[p] = "reserve" /\ HasDO
    /\ \/ /\ CanReserve(rec["do"][Item(p)])
          /\ Store("do", Item(p), NewRecord)
          /\ Reserved(p)
       \/ /\ ~CanReserve(rec["do"][Item(p)])
          /\ Blocked(p, "conflict")
          /\ UNCHANGED rec
    /\ UNCHANGED faults

\* The call fails.  Outside production an exception falls through to KV.
DoReserveFails(p) ==
    /\ pc[p] = "reserve" /\ HasDO
    /\ Fault
    /\ \/ UNCHANGED rec
       \/ /\ CanReserve(rec["do"][Item(p)])
          /\ Store("do", Item(p), NewRecord)
    /\ \/ Blocked(p, "blocked")
       \/ /\ ~Prod /\ HasKV
          /\ pc' = [pc EXCEPT ![p] = "kvReserve"]
          /\ UNCHANGED <<requestVars, loopVars, verdict, resp, hand, outsideVars, conf>>

AtKvReserve(p) == pc[p] = "kvReserve" \/ (pc[p] = "reserve" /\ ~HasDO)

KvReserveGet(p) ==
    /\ AtKvReserve(p)
    /\ \/ /\ CanReserve(rec["kv"][Item(p)])
          /\ pc' = [pc EXCEPT ![p] = "kvPut"]
          /\ UNCHANGED <<requestVars, loopVars, verdict, resp, hand, outsideVars, conf>>
       \/ /\ ~CanReserve(rec["kv"][Item(p)])
          /\ Blocked(p, "conflict")
    /\ UNCHANGED <<rec, faults>>

KvReservePut(p) ==
    /\ pc[p] = "kvPut"
    /\ Store("kv", Item(p), NewRecord)
    /\ Reserved(p)
    /\ UNCHANGED faults

KvReserveFails(p) ==
    /\ AtKvReserve(p) \/ pc[p] = "kvPut"
    /\ Fault
    /\ \/ UNCHANGED rec
       \/ pc[p] = "kvPut" /\ Store("kv", Item(p), NewRecord)
    /\ Blocked(p, "blocked")

-------------------------------------------------------------------------------
(* POST: forward, wait, store the outcome *)

Forward(p) ==
    /\ pc[p] = "forward"
    /\ circle' = [circle EXCEPT ![p] = "sent"]
    /\ pc' = [pc EXCEPT ![p] = "await"]
    /\ UNCHANGED <<storeVars, requestVars, loopVars, verdict, resp, attested, chain, conf>>

\* Both update loops go over the salts of the batch.
StartRecording(p, status, r) ==
    /\ pc' = [pc EXCEPT ![p] = "record"]
    /\ verdict' = [verdict EXCEPT ![p] = status]
    /\ todo' = [todo EXCEPT ![p] = Range(batch[p])]
    /\ resp' = [resp EXCEPT ![p] = r]
    /\ UNCHANGED <<storeVars, requestVars, unsaved, outsideVars, conf>>

CircleAnswered(p) ==
    /\ pc[p] = "await" /\ circle[p] \in Codes
    /\ StartRecording(p, classifyHttpStatus(circle[p]), "answered")

\* The 18 s timer aborts the call, or the connection breaks, at any point.
CallFailed(p) ==
    /\ pc[p] = "await"
    /\ StartRecording(p, "ambiguous", "ambiguous")

Target(p) == IF pc[p] = "rollback" THEN "failed" ELSE verdict[p]

InLoop(p, s) == pc[p] \in {"rollback", "record"} /\ s \in todo[p]

Visited(p, s, ok) ==
    /\ todo' = [todo EXCEPT ![p] = @ \ {s}]
    /\ unsaved' = [unsaved EXCEPT ![p] = IF ok THEN @ ELSE @ \cup {s}]
    /\ UNCHANGED <<pc, requestVars, verdict, resp, outsideVars, conf>>

DoUpdateOne(p, s) ==
    /\ InLoop(p, s)
    /\ \E ok \in BOOLEAN :
          /\ DoUpdate(s, Target(p), pc[p] = "rollback", NoTx, ok)
          /\ Visited(p, s, ok)
    /\ UNCHANGED hand

KvUpdateOneGet(p, s) ==
    /\ InLoop(p, s)
    /\ \/ /\ KvUpdateGet(p, s, Target(p))
          /\ UNCHANGED <<pc, requestVars, loopVars, verdict, resp, outsideVars, conf>>
       \/ /\ KvUpdateRefused(p, s, Target(p))
          /\ Visited(p, s, FALSE)

KvUpdateOnePut(p) ==
    \E ok \in BOOLEAN :
        /\ KvUpdatePut(p, Target(p), NoTx, ok)
        /\ Visited(p, hand[p].salt, ok)

\* The loop is over.  A Circle answer that could not be stored under every salt
\* is reported as recoverable instead of being passed on.
Respond(p) ==
    /\ pc[p] \in {"rollback", "record"} /\ todo[p] = {}
    /\ pc' = [pc EXCEPT ![p] = "done"]
    /\ resp' = [resp EXCEPT ![p] =
                   IF @ = "answered" /\ unsaved[p] # {} THEN "recoverable" ELSE @]
    /\ UNCHANGED <<storeVars, requestVars, loopVars, verdict, outsideVars, conf>>

\* The worker dies; nothing resumes the request.
Crash(p) ==
    /\ pc[p] \notin {"idle", "done", "crashed"}
    /\ Fault
    /\ pc' = [pc EXCEPT ![p] = "crashed"]
    /\ hand' = [hand EXCEPT ![p] = NoHand]
    /\ UNCHANGED <<rec, requestVars, loopVars, verdict, resp, outsideVars, conf>>

-------------------------------------------------------------------------------
(* POST .../confirm *)

postVars == <<pc, requestVars, loopVars, verdict, resp>>

Reconcilable(record) == record.status \in {"accepted", "ambiguous"}

\* tryRead: the Durable Object, or KV when there is none or it failed.
ReadFrom(st) ==
    \/ st = "do" /\ HasDO /\ UNCHANGED faults
    \/ st = "kv" /\ ~HasDO /\ UNCHANGED faults
    \/ st = "kv" /\ HasDO /\ HasKV /\ Fault

\* The record is read and its status checked here, and not again: the RPC
\* calls that follow leave time for anything else to happen.
ConfirmRead(c, s, t) ==
    /\ conf[c] = Idle
    /\ \E st \in Stores : ReadFrom(st) /\ Reconcilable(rec[st][s])
    /\ conf' = [conf EXCEPT ![c] = Confirming("verify", s, t)]
    /\ UNCHANGED <<rec, hand, postVars, outsideVars>>

\* The transaction is mined and its calldata carries the salt in the first
\* attestation; the others of an attestation set are not looked at.
Proves(t, s) == Mined(t) /\ Head(chain[t].salts) = s

ConfirmVerify(c) ==
    /\ conf[c].step = "verify"
    /\ Proves(conf[c].tx, conf[c].salt)
    /\ conf' = [conf EXCEPT ![c] = Confirming("write", conf[c].salt, conf[c].tx)]
    /\ UNCHANGED <<storeVars, postVars, outsideVars>>

\* An RPC error, a transaction that proves nothing, or a dead worker.
ConfirmGiveUp(c) ==
    /\ conf[c].step \in {"verify", "write"}
    /\ conf' = [conf EXCEPT ![c] = Idle]
    /\ hand' = [hand EXCEPT ![c] = NoHand]
    /\ UNCHANGED <<rec, faults, postVars, outsideVars>>

\* Mutant of Settlement: a revert taken for a success.
Settlement_IgnoresRevert(t) == "confirmed"

Settlement(t) == IF chain[t].ok THEN "confirmed" ELSE "failed"

ConfirmWrite(c) ==
    /\ conf[c].step = "write"
    /\ \E ok \in BOOLEAN :
          DoUpdate(conf[c].salt, Settlement(conf[c].tx), FALSE, conf[c].tx, ok)
    /\ conf' = [conf EXCEPT ![c] = Idle]
    /\ UNCHANGED <<hand, postVars, outsideVars>>

ConfirmKvGet(c) ==
    /\ conf[c].step = "write"
    /\ \/ /\ KvUpdateGet(c, conf[c].salt, Settlement(conf[c].tx))
          /\ UNCHANGED conf
       \/ /\ KvUpdateRefused(c, conf[c].salt, Settlement(conf[c].tx))
          /\ conf' = [conf EXCEPT ![c] = Idle]
    /\ UNCHANGED <<postVars, outsideVars>>

ConfirmKvPut(c) ==
    /\ conf[c].step = "write"
    /\ \E ok \in BOOLEAN : KvUpdatePut(c, Settlement(conf[c].tx), conf[c].tx, ok)
    /\ conf' = [conf EXCEPT ![c] = Idle]
    /\ UNCHANGED <<postVars, outsideVars>>

-------------------------------------------------------------------------------
(* Circle and the chain *)

insideVars == <<storeVars, postVars, conf>>

\* Circle handles a batch it received, even long after the caller gave up.  It
\* takes a salt at most once; a 2xx means it took the batch, a 4xx that it did
\* not, and anything else leaves it open.
CircleHandles(p, code) ==
    /\ circle[p] = "sent"
    /\ \E takes \in BOOLEAN :
          /\ code = "2xx" => takes
          /\ code = "4xx" => ~takes
          /\ takes => Range(batch[p]) \cap attested = {}
          /\ attested' = IF takes THEN attested \cup Range(batch[p]) ELSE attested
    /\ circle' = [circle EXCEPT ![p] = code]
    /\ UNCHANGED <<insideVars, chain>>

\* A transaction calling gatewayMint is mined.  It succeeds only for salts that
\* Circle attested and that were not minted before; any may revert.
Mine(t, g, ok) ==
    /\ ~Mined(t)
    /\ ok => \A s \in Range(g) : s \in attested /\ ~Minted(s)
    /\ chain' = [chain EXCEPT ![t] = [salts |-> g, ok |-> ok]]
    /\ UNCHANGED <<insideVars, circle, attested>>

-------------------------------------------------------------------------------
(* Specification *)

PostStep(p) ==
    \/ DoReserve(p) \/ KvReserveGet(p) \/ KvReservePut(p)
    \/ Forward(p) \/ CircleAnswered(p) \/ CallFailed(p)
    \/ \E s \in Salts : DoUpdateOne(p, s) \/ KvUpdateOneGet(p, s)
    \/ KvUpdateOnePut(p)
    \/ Respond(p)

PostFailure(p) == DoReserveFails(p) \/ KvReserveFails(p) \/ Crash(p)

ConfirmStep(c) ==
    \/ \E s \in Salts, t \in Txs : ConfirmRead(c, s, t)
    \/ ConfirmVerify(c) \/ ConfirmGiveUp(c)
    \/ ConfirmWrite(c) \/ ConfirmKvGet(c) \/ ConfirmKvPut(c)

Outside ==
    \/ \E p \in Posts, code \in Codes : CircleHandles(p, code)
    \/ \E t \in Txs, g \in MintGroups, ok \in BOOLEAN : Mine(t, g, ok)

Next ==
    \/ \E p \in Posts, b \in Batches : Receive(p, b)
    \/ \E p \in Posts : PostStep(p) \/ PostFailure(p)
    \/ \E c \in Confirms : ConfirmStep(c)
    \/ Outside

Spec == Init /\ [][Next]_vars

\* A live worker runs its handler to the end, and its 18 s timer ends the wait
\* for Circle.  Nothing is assumed of clients, of Circle or of the chain.
FairSpec == Spec /\ \A p \in Posts : WF_vars(PostStep(p))

-------------------------------------------------------------------------------
(* Properties *)

StoreTypeOK ==
    /\ rec \in [Stores -> [Salts -> Records]]
    /\ hand \in [Actors -> Hands]
    /\ faults \in Nat

PostTypeOK ==
    /\ pc \in [Posts -> PostStates]
    /\ batch \in [Posts -> Batches \cup {<<>>}]
    /\ next \in [Posts -> Nat \ {0}]
    /\ reserved \in [Posts -> SUBSET Salts]
    /\ todo \in [Posts -> SUBSET Salts]
    /\ unsaved \in [Posts -> SUBSET Salts]
    /\ verdict \in [Posts -> KnownStates \cup {"none"}]
    /\ resp \in [Posts -> Responses]

OutsideTypeOK ==
    /\ circle \in [Posts -> CircleState]
    /\ attested \subseteq Salts
    /\ chain \in [Txs -> {NoMint} \cup [salts : MintGroups, ok : BOOLEAN]]

ConfTypeOK ==
    conf \in [Confirms -> {Idle} \cup [step : {"verify", "write"}, salt : Salts, tx : Txs]]

TypeOK == StoreTypeOK /\ PostTypeOK /\ OutsideTypeOK /\ ConfTypeOK

Sent(p) == circle[p] # "unsent"

\* A salt reaches Circle in at most one request, and in at most one item of it:
\* neither a retry, nor a concurrent POST, nor a batch that names a salt twice,
\* nor a crash at any point makes the handler forward an operation again.
ForwardedOnce ==
    \A p \in Posts : Sent(p) =>
        /\ \A i, j \in 1..Len(batch[p]) : batch[p][i] = batch[p][j] => i = j
        /\ \A q \in Posts \ {p} :
              Sent(q) => Range(batch[p]) \cap Range(batch[q]) = {}

\* An operation rolled back to 'failed' (no transaction was involved) was never
\* handed to Circle: the rollback of one batch never touches another's salts.
RolledBackWasNeverSent ==
    \A s \in Salts : rec["do"][s] = [status |-> "failed", tx |-> NoTx] =>
        \A p \in Posts : Sent(p) => s \notin Range(batch[p])

\* 'rejected' tells the client it may retry with a new salt, so Circle has not
\* taken the operation, and will not take it later.
RejectedIsDefinitive ==
    \A s \in Salts : rec["do"][s].status = "rejected" =>
        /\ s \notin attested
        /\ \A p \in Posts : s \in Range(batch[p]) => circle[p] # "sent"

\* 'confirmed' names a transaction that did mint the operation.
ConfirmedIsMinted ==
    \A s \in Salts, st \in Stores : rec[st][s].status = "confirmed" =>
        rec[st][s].tx \in Txs /\ MintedBy(rec[st][s].tx, s)

\* A settled record is never written again, whatever confirmations and late
\* updates that read it earlier still have to write.
SettledForGood ==
    [][\A s \in Salts : rec["do"][s].status \in TerminalStates =>
          rec'["do"][s] = rec["do"][s]]_vars

\* As long as nothing fails, a submission is resolved: a record does not stay
\* at 'submitting', whether its batch was forwarded or given up.
SubmissionResolves ==
    \A s \in Salts : rec["do"][s].status = "submitting"
                        ~> rec["do"][s].status # "submitting" \/ faults > 0

-------------------------------------------------------------------------------
(* Refinement *)

Operation == INSTANCE GatewayOperation WITH
    status <- [s \in Salts |-> rec["do"][s].status],
    sent   <- UNION {Range(batch[p]) : p \in {q \in Posts : Sent(q)}},
    minted <- {s \in Salts : Minted(s)}

\* The endpoint keeps the promise of GatewayOperation: no interleaving of
\* requests, failures and confirmations makes a step of an operation that the
\* abstract specification does not have.
ImplementsOperation == Operation!Spec
===============================================================================
