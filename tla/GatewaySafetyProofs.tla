------------------------- MODULE GatewaySafetyProofs -------------------------
(***************************************************************************)
(* Safety of GatewayTransfer where the Durable Object is the only store    *)
(* (production, or any deployment without the KV namespace): the promise   *)
(* of GatewayOperation is kept, for every value of the constants.          *)
(*                                                                         *)
(* The argument: a salt is reserved by at most one request, forever        *)
(* (Ownership).  A request touches, with its loops and at Circle, only     *)
(* salts it reserved, so what is known of a salt is known from its owner's *)
(* progress (Progress, Records).                                           *)
(***************************************************************************)
EXTENDS GatewayTransferProofs

DurableOnly == HasDO /\ (Prod \/ ~HasKV)

status(s) == rec["do"][s].status

(* No request is on the KV path. *)
NoKvPath ==
    /\ \A p \in Posts : pc[p] \notin {"kvReserve", "kvPut"}
    /\ \A a \in Actors : hand[a] = NoHand

(* What a request reserved is the part of its batch it has gone over, which
   names no salt twice; a request that went past its loop went over all of it. *)
Before(p) == 1..(next[p] - 1)

ReservedPrefix ==
    \A p \in Posts :
        /\ reserved[p] = {batch[p][i] : i \in Before(p)}
        /\ next[p] <= Len(batch[p]) + 1
        /\ \A i, j \in Before(p) : batch[p][i] = batch[p][j] => i = j

(* A salt has at most one owner, and a record as soon as it has one. *)
Ownership ==
    /\ \A p \in Posts, s \in Salts : s \in reserved[p] => status(s) # "none"
    /\ \A p, q \in Posts : p # q => reserved[p] \cap reserved[q] = {}

Progress ==
    \A p \in Posts :
        /\ Sent(p) \/ pc[p] \in {"forward", "await", "record"} =>
              next[p] = Len(batch[p]) + 1 /\ reserved[p] = Range(batch[p])
        /\ pc[p] \in {"await", "record"} => Sent(p)
        /\ Sent(p) => pc[p] \in {"await", "record", "done", "crashed"}
        /\ pc[p] \in {"rollback", "record"} => todo[p] \subseteq reserved[p]
        /\ pc[p] = "record" /\ verdict[p] = "rejected" => circle[p] = "4xx"
        /\ pc[p] = "record" /\ verdict[p] = "accepted" => circle[p] = "2xx"
        /\ circle[p] = "2xx" => reserved[p] \subseteq attested

(* The record of a salt whose owner has not stored anything yet. *)
Untouched ==
    \A p \in Posts, s \in Salts :
        \/ pc[p] \in {"reserve", "forward", "await"} /\ s \in reserved[p]
        \/ pc[p] \in {"rollback", "record"} /\ s \in todo[p]
        => status(s) = "submitting"

(* Where what Circle took and what the records say come from. *)
Origins ==
    /\ \A s \in attested : \E p \in Posts : s \in reserved[p] /\ circle[p] \notin {"unsent", "sent", "4xx"}
    /\ \A s \in Salts : status(s) \in {"accepted", "ambiguous"} =>
          \E p \in Posts : s \in reserved[p] /\ Sent(p)
    /\ \A s \in Salts : status(s) = "rejected" =>
          \E p \in Posts : s \in reserved[p] /\ circle[p] = "4xx"

(* What holds of the durable records, as one name, and the whole of it. *)
Durable ==
    ReservedPrefix /\ Ownership /\ Progress /\ Untouched /\ Origins /\ RolledBackWasNeverSent

DurableInv == TypeInv /\ NoKvPath /\ Durable

-------------------------------------------------------------------------------
(* What the calls to the Durable Object do to a record *)

LEMMA DoUpdateEffect ==
    ASSUME TypeInv, NEW s \in Salts, NEW to \in KnownStates, NEW rb,
           NEW tx \in Txs \cup {NoTx}, NEW ok \in BOOLEAN, DoUpdate(s, to, rb, tx, ok)
    PROVE  \/ rec' = rec
           \/ /\ CanUpdate(rec["do"][s], to, rb)
              /\ rec'["do"][s] = Updated(rec["do"][s], to, tx)
              /\ \A s2 \in Salts : s2 # s => rec'["do"][s2] = rec["do"][s2]
              /\ rec'["kv"] = rec["kv"]
<1>1. rec \in [Stores -> [Salts -> Records]] /\ {"do", "kv"} = Stores
  BY RecordTypes DEF TypeInv, StoreTypeOK
<1>2. Store("do", s, Updated(rec["do"][s], to, tx)) =>
         /\ rec'["do"][s] = Updated(rec["do"][s], to, tx)
         /\ \A s2 \in Salts : s2 # s => rec'["do"][s2] = rec["do"][s2]
         /\ rec'["kv"] = rec["kv"]
  BY <1>1 DEF Store
<1>3. QED
  BY <1>2 DEF DoUpdate

(* An update never erases a record, nor touches one that is settled. *)
LEMMA CanUpdateFrom ==
    ASSUME NEW r \in Records, NEW to, NEW rb, CanUpdate(r, to, rb)
    PROVE  /\ r.status \notin TerminalStates \cup {"none"}
           /\ to \in {"accepted", "rejected", "ambiguous", "confirmed", "failed"}
           /\ r.status = "submitting" => to # "confirmed" /\ (to = "failed" => rb)
           /\ r.status \in {"submitting", "accepted", "ambiguous"}
  BY DEF CanUpdate, DoTransitions, Records, KnownStates, TerminalStates

(* A step that only the Durable Object takes part in cannot be a KV step. *)
LEMMA NoKvStep ==
    ASSUME DurableOnly, NoKvPath
    PROVE  /\ \A p \in Posts : /\ ~KvReserveGet(p) /\ ~KvReservePut(p) /\ ~KvReserveFails(p)
                               /\ ~KvUpdateOnePut(p)
                               /\ \A s \in Salts : ~KvUpdateOneGet(p, s)
           /\ \A c \in Confirms : ~ConfirmKvGet(c) /\ ~ConfirmKvPut(c)
  BY DEF DurableOnly, NoKvPath, KvReserveGet, KvReservePut, KvReserveFails, AtKvReserve,
         KvUpdateOnePut, KvUpdateOneGet, KvUpdateGet, KvUpdateRefused, KvUpdatePut,
         ConfirmKvGet, ConfirmKvPut, Actors

(* Nor does it leave the KV path unvisited for another. *)
LEMMA StaysOffKv ==
    ASSUME DurableOnly, TypeInv, NoKvPath, [Next]_vars
    PROVE  NoKvPath'
<1> USE NoKvStep
<1>1. ASSUME NEW p \in Posts, (\E b \in Batches : Receive(p, b)) \/ PostStep(p) \/ PostFailure(p)
      PROVE  NoKvPath'
  <2>1. \E to \in PostStates \ {"kvReserve", "kvPut"} : pc' = [pc EXCEPT ![p] = to]
    BY <1>1 DEF PostStep, PostFailure, Receive, DoReserve, Reserved, Blocked, DoReserveFails,
       Forward, CircleAnswered, CallFailed, StartRecording, DoUpdateOne, Visited, Respond, Crash,
       DurableOnly, PostStates, TypeInv, PostInv, PostTypeOK, NoKvPath
  <2>2. hand' = hand \/ hand' = [hand EXCEPT ![p] = NoHand]
    BY <1>1 DEF PostStep, PostFailure, Receive, DoReserve, Reserved, Blocked, DoReserveFails,
       Forward, CircleAnswered, CallFailed, StartRecording, DoUpdateOne, Respond, Crash, storeVars
  <2>3. QED
    BY <2>1, <2>2 DEF NoKvPath, TypeInv, StoreTypeOK, PostInv, PostTypeOK
<1>2. ASSUME NEW c \in Confirms, ConfirmStep(c) PROVE NoKvPath'
  <2>1. pc' = pc /\ (hand' = hand \/ hand' = [hand EXCEPT ![c] = NoHand])
    BY <1>2 DEF ConfirmStep, ConfirmRead, ConfirmVerify, ConfirmGiveUp, ConfirmWrite, postVars,
                storeVars
  <2>2. QED
    BY <2>1 DEF NoKvPath, TypeInv, StoreTypeOK
<1>3. CASE Outside
  BY <1>3 DEF Outside, CircleHandles, Mine, insideVars, storeVars, postVars, NoKvPath
<1>4. CASE UNCHANGED vars
  BY <1>4 DEF vars, NoKvPath
<1>5. QED
  BY <1>1, <1>2, <1>3, <1>4 DEF Next


-------------------------------------------------------------------------------
(* The invariant is inductive: one lemma for each group of actions *)

LEMMA ReserveDurable ==
    ASSUME DurableOnly, TypeInv, NoKvPath, Durable, NEW p \in Posts,
           DoReserve(p) \/ DoReserveFails(p)
    PROVE  Durable'
<1> USE DEF TypeInv, PostInv, PostTypeOK, Durable
<1>0. PICK s0 \in Salts : s0 = Item(p)
  BY SeqFacts DEF DoReserve, DoReserveFails, Item, AtAnItem
<1>1. /\ pc[p] = "reserve"
      /\ next[p] \in 1..Len(batch[p]) /\ Len(batch[p]) \in Nat
      /\ s0 = batch[p][next[p]]
  BY <1>0, SeqFacts DEF DoReserve, DoReserveFails, Item, AtAnItem
<1>2. /\ UNCHANGED <<batch, verdict, circle, attested, chain>>
      /\ ~Sent(p)
  BY <1>1 DEF DoReserve, DoReserveFails, Reserved, Blocked, DurableOnly, requestVars, outsideVars,
         Progress
<1>3. \/ rec' = rec
      \/ /\ status(s0) = "none" /\ rec'["do"][s0] = NewRecord
         /\ \A s \in Salts : s # s0 => rec'["do"][s] = rec["do"][s]
  <2>1. Store("do", s0, NewRecord) =>
           /\ rec'["do"][s0] = NewRecord
           /\ \A s \in Salts : s # s0 => rec'["do"][s] = rec["do"][s]
    BY <1>1, RecordTypes DEF Store, StoreTypeOK
  <2>2. QED
    BY <1>0, <2>1 DEF DoReserve, DoReserveFails, CanReserve, status
<1>4. \/ /\ Reserved(p)
         /\ status(s0) = "none" /\ rec'["do"][s0] = NewRecord
      \/ /\ pc' = [pc EXCEPT ![p] = "rollback"] /\ todo' = [todo EXCEPT ![p] = reserved[p]]
         /\ UNCHANGED requestVars
  <2>1. Store("do", s0, NewRecord) => rec'["do"][s0] = NewRecord
    BY <1>1, RecordTypes DEF Store, StoreTypeOK
  <2>2. QED
    BY <1>0, <2>1 DEF DoReserve, DoReserveFails, CanReserve, status, Blocked, DurableOnly
<1>5. \A s \in Salts : \/ rec'["do"][s] = rec["do"][s] /\ status(s)' = status(s)
                       \/ /\ status(s) = "none" /\ status(s)' = "submitting"
                          /\ rec'["do"][s] # [status |-> "failed", tx |-> NoTx]
  BY <1>3 DEF status, NewRecord
<1>6. \A q \in Posts : s0 \in reserved[q] => status(s0) # "none"
  BY <1>1 DEF Ownership
<1>7. CASE Reserved(p) /\ status(s0) = "none" /\ rec'["do"][s0] = NewRecord
  <2>1. /\ reserved' = [reserved EXCEPT ![p] = @ \cup {s0}]
        /\ next' = [next EXCEPT ![p] = @ + 1]
        /\ pc' = [pc EXCEPT ![p] = IF next[p] = Len(batch[p]) THEN "forward" ELSE "reserve"]
        /\ todo' = todo
    BY <1>0, <1>7 DEF Reserved, loopVars
  <2>2. /\ \A q \in Posts : s0 \notin reserved[q]
        /\ reserved'[p] = reserved[p] \cup {s0} /\ pc'[p] \in {"reserve", "forward"}
        /\ \A q \in Posts \ {p} : reserved'[q] = reserved[q] /\ pc'[q] = pc[q]
        /\ status(s0)' = "submitting"
    <3>1. \A q \in Posts : s0 \notin reserved[q]
      BY <1>6, <1>7
    <3>2. reserved'[p] = reserved[p] \cup {s0} /\ pc'[p] \in {"reserve", "forward"}
      BY <2>1
    <3>3. \A q \in Posts \ {p} : reserved'[q] = reserved[q] /\ pc'[q] = pc[q]
      BY <2>1
    <3>4. status(s0)' = "submitting"
      BY <1>7 DEF status, NewRecord
    <3>5. QED
      BY <3>1, <3>2, <3>3, <3>4
  <2>3. ReservedPrefix'
    <3>1. ASSUME NEW q \in Posts \ {p}
          PROVE  /\ Before(q)' = Before(q) /\ batch'[q] = batch[q]
                 /\ reserved'[q] = reserved[q] /\ next'[q] = next[q]
      BY <1>2, <2>1 DEF Before
    <3>2. Before(p)' = Before(p) \cup {next[p]} /\ next'[p] <= Len(batch'[p]) + 1
      BY <1>1, <1>2, <2>1 DEF Before
    <3>3. reserved'[p] = {batch'[p][i] : i \in Before(p)'}
      BY <1>1, <1>2, <2>1, <3>2 DEF ReservedPrefix
    <3>4. \A i \in Before(p) : batch[p][i] # batch[p][next[p]]
      BY <1>1, <2>2 DEF ReservedPrefix, Before
    <3>5. \A i, j \in Before(p)' : batch'[p][i] = batch'[p][j] => i = j
      BY <1>1, <1>2, <3>2, <3>4 DEF ReservedPrefix
    <3>6. ASSUME NEW q \in Posts \ {p}
          PROVE  /\ reserved'[q] = {batch'[q][i] : i \in Before(q)'}
                 /\ next'[q] <= Len(batch'[q]) + 1
                 /\ \A i, j \in Before(q)' : batch'[q][i] = batch'[q][j] => i = j
      <4>1. /\ reserved[q] = {batch[q][i] : i \in Before(q)}
            /\ next[q] <= Len(batch[q]) + 1
            /\ \A i, j \in Before(q) : batch[q][i] = batch[q][j] => i = j
        BY DEF ReservedPrefix
      <4> HIDE DEF TypeInv, PostInv, PostTypeOK, Durable
      <4>2. QED
        BY <3>1, <4>1
    <3> HIDE DEF TypeInv, PostInv, PostTypeOK, Durable
    <3>7. QED
      BY <3>2, <3>3, <3>5, <3>6 DEF ReservedPrefix
  <2>4. Ownership'
    <3>1. \A q \in Posts, s \in Salts : s \in reserved'[q] => status(s)' # "none"
      BY <1>5, <2>2 DEF Ownership
    <3>2. \A q, r \in Posts : q # r => reserved'[q] \cap reserved'[r] = {}
      BY <2>2 DEF Ownership
    <3>3. QED
      BY <3>1, <3>2 DEF Ownership
  <2>5. Progress'
    <3>1. next[p] = Len(batch[p]) => reserved'[p] = Range(batch'[p])
      <4>1. DOMAIN batch[p] = 1..Len(batch[p])
        BY <1>1, SeqFacts
      <4>2. ASSUME next[p] = Len(batch[p])
            PROVE  reserved'[p] = {batch[p][i] : i \in DOMAIN batch[p]}
        <5>1. DOMAIN batch[p] = Before(p) \cup {next[p]}
          BY <1>1, <4>1, <4>2 DEF Before
        <5>2. reserved'[p] = {batch[p][i] : i \in Before(p)} \cup {batch[p][next[p]]}
          BY <1>1, <2>2 DEF ReservedPrefix
        <5>3. QED
          BY <5>1, <5>2
      <4>3. QED
        BY <1>2, <4>2 DEF Range
    <3>2. QED
      BY <1>1, <1>2, <2>1, <3>1 DEF Progress, Sent
  <2>6. Untouched'
    BY <1>1, <1>5, <2>1, <2>2 DEF Untouched
  <2>7. Origins'
    <3>1. \A q \in Posts : reserved[q] \subseteq reserved'[q]
      BY <2>2
    <3>2. QED
      BY <1>2, <1>5, <3>1 DEF Origins, Sent
  <2>8. RolledBackWasNeverSent'
    BY <1>2, <1>5 DEF RolledBackWasNeverSent, Sent
  <2>9. QED
    BY <2>3, <2>4, <2>5, <2>6, <2>7, <2>8 DEF Durable
<1>8. CASE /\ pc' = [pc EXCEPT ![p] = "rollback"] /\ todo' = [todo EXCEPT ![p] = reserved[p]]
           /\ UNCHANGED requestVars
  <2>1. ReservedPrefix'
    BY <1>8 DEF ReservedPrefix, Before, requestVars
  <2>2. Ownership'
    BY <1>5, <1>8 DEF Ownership, requestVars
  <2>3. Progress'
    BY <1>1, <1>2, <1>8 DEF Progress, Sent, requestVars
  <2>4. Untouched'
    <3>1. \A q \in Posts \ {p} : pc'[q] = pc[q] /\ todo'[q] = todo[q] /\ reserved'[q] = reserved[q]
      BY <1>8 DEF requestVars
    <3>2. pc'[p] = "rollback" /\ todo'[p] = reserved[p]
      BY <1>8
    <3> HIDE DEF TypeInv, PostInv, PostTypeOK, Durable
    <3>3. \A q \in Posts, s \in Salts :
             \/ pc[q] \in {"reserve", "forward", "await"} /\ s \in reserved[q]
             \/ pc[q] \in {"rollback", "record"} /\ s \in todo[q]
             => status(s)' = "submitting"
      BY <1>5 DEF Untouched, Durable
    <3>4. QED
      BY <1>1, <3>1, <3>2, <3>3 DEF Untouched
  <2>5. Origins'
    BY <1>2, <1>5, <1>8 DEF Origins, requestVars, Sent
  <2>6. RolledBackWasNeverSent'
    BY <1>2, <1>5 DEF RolledBackWasNeverSent, Sent
  <2>7. QED
    BY <2>1, <2>2, <2>3, <2>4, <2>5, <2>6 DEF Durable
<1>9. QED
  BY <1>4, <1>7, <1>8


LEMMA PostDurable ==
    ASSUME TypeInv, Durable, NEW p \in Posts,
           \/ \E b \in Batches : Receive(p, b)
           \/ Forward(p) \/ CircleAnswered(p) \/ CallFailed(p) \/ Respond(p) \/ Crash(p)
    PROVE  Durable'
<1> USE DEF Durable
<1>1. /\ UNCHANGED <<rec, reserved, next, attested, chain>>
      /\ \A q \in Posts \ {p} : /\ pc'[q] = pc[q] /\ batch'[q] = batch[q] /\ todo'[q] = todo[q]
                                /\ verdict'[q] = verdict[q] /\ circle'[q] = circle[q]
  BY DEF Receive, Forward, CircleAnswered, CallFailed, StartRecording, Respond, Crash,
         storeVars, loopVars, requestVars, outsideVars, TypeInv, PostInv, PostTypeOK, OutsideTypeOK
<1>2. \/ /\ pc[p] = "idle" /\ pc'[p] = "reserve" /\ circle'[p] = circle[p]
         /\ next[p] = 1 /\ reserved[p] = {} /\ batch'[p] \in Batches
      \/ /\ pc[p] = "forward" /\ pc'[p] = "await" /\ circle'[p] = "sent" /\ batch'[p] = batch[p]
      \/ /\ pc[p] = "await" /\ pc'[p] = "record" /\ circle'[p] = circle[p] /\ batch'[p] = batch[p]
         /\ todo'[p] = Range(batch[p])
         /\ \/ verdict'[p] = "accepted" /\ circle[p] = "2xx"
            \/ verdict'[p] = "rejected" /\ circle[p] = "4xx"
            \/ verdict'[p] = "ambiguous"
      \/ /\ pc'[p] \in {"done", "crashed"} /\ pc[p] # "idle" /\ circle'[p] = circle[p]
         /\ batch'[p] = batch[p]
  <2> USE DEF TypeInv, PostInv, PostTypeOK, OutsideTypeOK, requestVars, outsideVars, loopVars
  <2>1. ASSUME NEW b \in Batches, Receive(p, b)
        PROVE  /\ pc[p] = "idle" /\ pc'[p] = "reserve" /\ circle'[p] = circle[p]
               /\ next[p] = 1 /\ reserved[p] = {} /\ batch'[p] \in Batches
    BY <2>1 DEF Receive, IdleIsEmpty
  <2>2. CASE Forward(p)
    BY <2>2 DEF Forward
  <2>3. CASE CircleAnswered(p)
    BY <2>3 DEF CircleAnswered, StartRecording, classifyHttpStatus, Codes
  <2>4. CASE CallFailed(p)
    BY <2>4 DEF CallFailed, StartRecording
  <2>5. CASE Respond(p) \/ Crash(p)
    BY <2>5 DEF Respond, Crash
  <2>6. QED
    BY <2>1, <2>2, <2>3, <2>4, <2>5
<1>3. ReservedPrefix'
  <2>1. ASSUME NEW q \in Posts
        PROVE  /\ reserved'[q] = {batch'[q][i] : i \in Before(q)'}
               /\ next'[q] <= Len(batch'[q]) + 1
               /\ \A i, j \in Before(q)' : batch'[q][i] = batch'[q][j] => i = j
    <3>1. CASE batch'[q] = batch[q]
      <4>1. Before(q)' = Before(q) /\ next'[q] = next[q] /\ reserved'[q] = reserved[q]
        BY <1>1 DEF Before
      <4>2. QED
        BY <3>1, <4>1 DEF ReservedPrefix
    <3>2. CASE q = p /\ next[p] = 1 /\ reserved[p] = {} /\ batch'[p] \in Batches
      <4>1. Before(p)' = {} /\ reserved'[p] = {} /\ next'[p] = 1
        BY <1>1, <3>2 DEF Before
      <4>2. QED
        BY <3>2, <4>1, SeqFacts
    <3>3. QED
      BY <1>1, <1>2, <3>1, <3>2
  <2>2. QED
    BY <2>1 DEF ReservedPrefix
<1>4. Ownership'
  BY <1>1 DEF Ownership, status
<1>5. Progress'
  BY <1>1, <1>2 DEF Progress, Sent
<1>6. Untouched'
  BY <1>1, <1>2 DEF Untouched, Progress, status
<1>7. Origins'
  BY <1>1, <1>2 DEF Origins, Progress, Sent, status
<1>8. RolledBackWasNeverSent'
  BY <1>1, <1>2 DEF RolledBackWasNeverSent, Progress, Untouched, Sent, status
<1>9. QED
  BY <1>3, <1>4, <1>5, <1>6, <1>7, <1>8


LEMMA LoopDurable ==
    ASSUME TypeInv, Durable, NEW p \in Posts, NEW s \in Salts, DoUpdateOne(p, s)
    PROVE  Durable'
<1> USE DEF Durable
<1>1. PICK ok \in BOOLEAN :
         DoUpdate(s, Target(p), pc[p] = "rollback", NoTx, ok) /\ Visited(p, s, ok)
  BY DEF DoUpdateOne
<1>2. /\ pc[p] \in {"rollback", "record"} /\ s \in todo[p] /\ s \in reserved[p]
      /\ status(s) = "submitting"
  BY DEF DoUpdateOne, InLoop, Progress, Untouched
<1>3. /\ UNCHANGED <<pc, batch, next, reserved, verdict, circle, attested, chain>>
      /\ todo'[p] = todo[p] \ {s} /\ \A q \in Posts \ {p} : todo'[q] = todo[q]
  BY <1>1 DEF Visited, requestVars, outsideVars, TypeInv, PostInv, PostTypeOK
<1>4. Target(p) \in KnownStates
  BY <1>2, TargetKnown DEF TypeInv, PostInv
<1>5. /\ \A s2 \in Salts \ {s} : rec'["do"][s2] = rec["do"][s2]
      /\ rec'["do"][s] = rec["do"][s] \/ status(s)' = Target(p)
  <2>1. \/ rec' = rec
        \/ /\ rec'["do"][s] = Updated(rec["do"][s], Target(p), NoTx)
           /\ \A s2 \in Salts : s2 # s => rec'["do"][s2] = rec["do"][s2]
    BY <1>1, <1>4, DoUpdateEffect
  <2>2. Updated(rec["do"][s], Target(p), NoTx).status = Target(p)
    BY DEF Updated
  <2>3. QED
    BY <2>1, <2>2 DEF status
<1>6. Target(p) # "none"
  BY <1>4 DEF KnownStates
<1>7. /\ pc[p] = "rollback" => Target(p) = "failed"
      /\ pc[p] = "record" => Target(p) = verdict[p] /\ Target(p) # "failed"
  BY DEF Target, Outcomes, TypeInv, PostInv, OutcomeKnown
<1>8. ReservedPrefix'
  <2>1. \A q \in Posts : Before(q)' = Before(q)
    BY <1>3 DEF Before
  <2>2. QED
    BY <1>3, <2>1 DEF ReservedPrefix
<1>9. Ownership'
  BY <1>3, <1>5, <1>6 DEF Ownership, status
<1>10. Progress'
  BY <1>3 DEF Progress, Sent
<1>11. Untouched'
  <2>1. ASSUME NEW q \in Posts, q # p PROVE s \notin reserved[q]
    BY <1>2, <2>1 DEF Ownership
  <2>2. QED
    BY <1>2, <1>3, <1>5, <2>1 DEF Untouched, Progress, status
<1>12. Origins'
  BY <1>2, <1>3, <1>5, <1>7 DEF Origins, Progress, status, Sent
<1>13. RolledBackWasNeverSent'
  <2>1. ASSUME NEW q \in Posts, Sent(q), pc[p] = "rollback" PROVE s \notin Range(batch[q])
    BY <1>2, <2>1 DEF Ownership, Progress
  <2>2. rec'["do"][s] = [status |-> "failed", tx |-> NoTx] => pc[p] = "rollback"
    BY <1>2, <1>5, <1>7 DEF status
  <2>3. QED
    BY <1>3, <1>5, <2>1, <2>2 DEF RolledBackWasNeverSent, Sent
<1>14. QED
  BY <1>8, <1>9, <1>10, <1>11, <1>12, <1>13

(* A confirmation writes only over 'accepted' and 'ambiguous'. *)
LEMMA ConfirmEffect ==
    ASSUME TypeInv, NEW c \in Confirms, ConfirmWrite(c)
    PROVE  /\ conf[c].step = "write" /\ conf[c].salt \in Salts /\ conf[c].tx \in Txs
           /\ \A s \in Salts :
                 \/ rec'["do"][s] = rec["do"][s]
                 \/ /\ s = conf[c].salt
                    /\ status(s) \in {"accepted", "ambiguous"}
                    /\ rec'["do"][s] = [status |-> Settlement(conf[c].tx), tx |-> conf[c].tx]
           /\ rec'["kv"] = rec["kv"]
<1>1. conf[c].step = "write" /\ conf[c].salt \in Salts /\ conf[c].tx \in Txs
  BY DEF ConfirmWrite, TypeInv, ConfTypeOK, Idle
<1>2. PICK ok \in BOOLEAN :
         DoUpdate(conf[c].salt, Settlement(conf[c].tx), FALSE, conf[c].tx, ok)
  BY DEF ConfirmWrite
<1>3. Settlement(conf[c].tx) \in {"confirmed", "failed"} \cap KnownStates
  BY DEF Settlement, KnownStates
<1>4. conf[c].tx # NoTx
  BY <1>1, GatewayAssumption DEF GatewayAssumption
<1>5. rec["do"][conf[c].salt] \in Records
  BY <1>1, RecordTypes DEF TypeInv, StoreTypeOK
<1>6. CanUpdate(rec["do"][conf[c].salt], Settlement(conf[c].tx), FALSE) =>
         status(conf[c].salt) \in {"accepted", "ambiguous"}
  BY <1>3, <1>5, CanUpdateFrom DEF status
<1>7. \/ rec' = rec
      \/ /\ CanUpdate(rec["do"][conf[c].salt], Settlement(conf[c].tx), FALSE)
         /\ rec'["do"][conf[c].salt] =
               Updated(rec["do"][conf[c].salt], Settlement(conf[c].tx), conf[c].tx)
         /\ \A s2 \in Salts : s2 # conf[c].salt => rec'["do"][s2] = rec["do"][s2]
         /\ rec'["kv"] = rec["kv"]
  BY <1>1, <1>2, <1>3, DoUpdateEffect
<1>8. QED
  BY <1>1, <1>4, <1>6, <1>7 DEF Updated

LEMMA ConfirmDurable ==
    ASSUME TypeInv, Durable, NEW c \in Confirms,
           \/ \E s \in Salts, t \in Txs : ConfirmRead(c, s, t)
           \/ ConfirmVerify(c) \/ ConfirmGiveUp(c) \/ ConfirmWrite(c)
    PROVE  Durable'
<1> USE DEF Durable
<1>1. UNCHANGED <<pc, batch, next, reserved, todo, verdict, circle, attested, chain>>
  BY DEF ConfirmRead, ConfirmVerify, ConfirmGiveUp, ConfirmWrite, postVars, loopVars, requestVars,
         outsideVars
<1>2. \A s \in Salts :
         \/ rec'["do"][s] = rec["do"][s]
         \/ /\ status(s) \in {"accepted", "ambiguous"}
            /\ status(s)' \in {"confirmed", "failed"}
            /\ rec'["do"][s] # [status |-> "failed", tx |-> NoTx]
  <2>1. CASE rec' = rec
    BY <2>1
  <2>2. CASE ConfirmWrite(c)
    <3>1. \A t : Settlement(t) \in {"confirmed", "failed"}
      BY DEF Settlement
    <3>2. conf[c].tx # NoTx
      BY <2>2, ConfirmEffect, GatewayAssumption DEF GatewayAssumption
    <3>3. QED
      <4>1. ASSUME NEW s \in Salts,
                   rec'["do"][s] = [status |-> Settlement(conf[c].tx), tx |-> conf[c].tx]
            PROVE  /\ status(s)' \in {"confirmed", "failed"}
                   /\ rec'["do"][s] # [status |-> "failed", tx |-> NoTx]
        BY <3>1, <3>2, <4>1 DEF status
      <4>2. QED
        BY <2>2, <4>1, ConfirmEffect
  <2>3. QED
    BY <2>1, <2>2 DEF ConfirmRead, ConfirmVerify, ConfirmGiveUp, storeVars
<1>3. ReservedPrefix'
  BY <1>1 DEF ReservedPrefix, Before
<1>4. Ownership'
  BY <1>1, <1>2 DEF Ownership, status
<1>5. Progress'
  BY <1>1 DEF Progress, Sent
<1>6. Untouched'
  BY <1>1, <1>2 DEF Untouched, status
<1>7. Origins'
  BY <1>1, <1>2 DEF Origins, status, Sent
<1>8. RolledBackWasNeverSent'
  BY <1>1, <1>2 DEF RolledBackWasNeverSent, Sent
<1>9. QED
  BY <1>3, <1>4, <1>5, <1>6, <1>7, <1>8

LEMMA OutsideDurable == ASSUME TypeInv, Durable, Outside PROVE Durable'
<1> USE DEF Durable
<1>1. UNCHANGED <<rec, pc, batch, next, reserved, todo, verdict>>
  BY DEF Outside, CircleHandles, Mine, insideVars, postVars, storeVars, loopVars, requestVars
<1>2. ReservedPrefix' /\ Ownership' /\ Untouched'
  BY <1>1 DEF ReservedPrefix, Before, Ownership, Untouched, status
<1>3. ASSUME NEW p \in Posts, NEW code \in Codes, CircleHandles(p, code)
      PROVE  (Progress /\ Origins /\ RolledBackWasNeverSent)'
  <2>1. /\ circle[p] = "sent" /\ circle'[p] = code /\ chain' = chain
        /\ \A q \in Posts \ {p} : circle'[q] = circle[q]
        /\ reserved[p] = Range(batch[p])
    BY <1>3 DEF CircleHandles, TypeInv, OutsideTypeOK, Progress, Sent
  <2>2. \A q \in Posts : Sent(q)' = Sent(q)
    BY <2>1 DEF Sent, Codes
  <2>3. /\ attested \subseteq attested'
        /\ code = "2xx" => reserved[p] \subseteq attested'
        /\ attested' # attested => attested' = attested \cup reserved[p] /\ code # "4xx"
    BY <1>3, <2>1 DEF CircleHandles
  <2>4. Progress'
    BY <1>1, <2>1, <2>2, <2>3 DEF Progress
  <2>5. Origins'
    <3>1. \A s \in attested' : \E q \in Posts :
             s \in reserved'[q] /\ circle'[q] \notin {"unsent", "sent", "4xx"}
      <4>1. \A s \in attested : \E q \in Posts :
               s \in reserved[q] /\ circle'[q] \notin {"unsent", "sent", "4xx"}
        BY <2>1 DEF Origins
      <4>2. attested' # attested =>
               \A s \in reserved[p] : circle'[p] \notin {"unsent", "sent", "4xx"}
        BY <2>1, <2>3 DEF Codes
      <4>3. QED
        BY <1>1, <2>3, <4>1, <4>2
    <3>2. \A s \in Salts : status(s)' \in {"accepted", "ambiguous"} =>
             \E q \in Posts : s \in reserved'[q] /\ Sent(q)'
      BY <1>1, <2>2 DEF Origins, status
    <3>3. \A s \in Salts : status(s)' = "rejected" =>
             \E q \in Posts : s \in reserved'[q] /\ circle'[q] = "4xx"
      BY <1>1, <2>1 DEF Origins, status
    <3>4. QED
      BY <3>1, <3>2, <3>3 DEF Origins
  <2>6. RolledBackWasNeverSent'
    BY <1>1, <2>2 DEF RolledBackWasNeverSent
  <2>7. QED
    BY <2>4, <2>5, <2>6
<1>4. ASSUME NEW t \in Txs, NEW g \in MintGroups, NEW k \in BOOLEAN, Mine(t, g, k)
      PROVE  (Progress /\ Origins /\ RolledBackWasNeverSent)'
  <2>1. UNCHANGED <<circle, attested>>
    BY <1>4 DEF Mine
  <2>2. QED
    BY <1>1, <2>1 DEF Progress, Origins, RolledBackWasNeverSent, Sent, status
<1>5. QED
  BY <1>2, <1>3, <1>4 DEF Outside

LEMMA DurableInit == Init => DurableInv
<1> SUFFICES ASSUME Init PROVE NoKvPath /\ Durable
  BY InitType DEF DurableInv
<1>1. NoKvPath
  BY DEF Init, NoKvPath
<1>2. \A s \in Salts : status(s) = "none" /\ rec["do"][s].status = "none"
  BY DEF Init, NoRecord, status, Stores
<1>3. \A p \in Posts : /\ pc[p] = "idle" /\ reserved[p] = {} /\ next[p] = 1 /\ ~Sent(p)
                       /\ Before(p) = {} /\ Len(batch[p]) = 0 /\ circle[p] = "unsent"
  BY DEF Init, Before, Sent
<1>4. attested = {}
  BY DEF Init
<1>5. QED
  BY <1>1, <1>2, <1>3, <1>4
  DEF Durable, ReservedPrefix, Ownership, Progress, Untouched, Origins, RolledBackWasNeverSent

LEMMA DurableNext ==
    ASSUME DurableOnly, DurableInv, [Next]_vars
    PROVE  DurableInv'
<1> USE DEF DurableInv
<1>1. TypeInv' /\ NoKvPath'
  BY NextType, StaysOffKv
<1> SUFFICES Durable'
  BY <1>1
<1>2. ASSUME NEW p \in Posts, (\E b \in Batches : Receive(p, b)) \/ PostStep(p) \/ PostFailure(p)
      PROVE  Durable'
  BY <1>2, NoKvStep, ReserveDurable, PostDurable, LoopDurable DEF PostStep, PostFailure
<1>3. ASSUME NEW c \in Confirms, ConfirmStep(c) PROVE Durable'
  BY <1>3, NoKvStep, ConfirmDurable DEF ConfirmStep
<1>4. CASE UNCHANGED vars
  BY <1>4 DEF vars, Durable, ReservedPrefix, Before, Ownership, Progress, Untouched, Origins,
              RolledBackWasNeverSent, Sent, status
<1>5. CASE Outside
  BY <1>5, OutsideDurable
<1>6. ASSUME NEW p \in Posts, NEW b \in Batches, Receive(p, b) PROVE Durable'
  BY <1>2, <1>6
<1>7. ASSUME NEW p \in Posts, PostStep(p) \/ PostFailure(p) PROVE Durable'
  BY <1>2, <1>7
<1>8. QED
  BY <1>3, <1>4, <1>5, <1>6, <1>7 DEF Next

LEMMA DurableAlways == ASSUME DurableOnly PROVE Spec => []DurableInv
  BY DurableInit, DurableNext, PTL DEF Spec

-------------------------------------------------------------------------------
(* The safety properties *)

LEMMA SentAreDistinct ==
    ASSUME TypeInv, Durable, NEW p \in Posts, Sent(p)
    PROVE  \A i, j \in 1..Len(batch[p]) : batch[p][i] = batch[p][j] => i = j
<1>1. batch[p] \in Batches \cup {<<>>} /\ reserved[p] = Range(batch[p])
  BY DEF TypeInv, PostInv, PostTypeOK, Durable, Progress
<1>2. next[p] = Len(batch[p]) + 1
  BY DEF Durable, Progress, Sent
<1>3. QED
  BY <1>1, <1>2 DEF Durable, ReservedPrefix, Before


(* A salt is handed to Circle in at most one item of one request, whatever
   retries, concurrent requests, lost store answers and crashes there are. *)
THEOREM ForwardedAtMostOnce == ASSUME DurableOnly PROVE Spec => []ForwardedOnce
<1>1. ASSUME DurableInv PROVE ForwardedOnce
  <2>1. \A p, q \in Posts : p # q /\ Sent(p) /\ Sent(q) => Range(batch[p]) \cap Range(batch[q]) = {}
    BY <1>1 DEF DurableInv, Durable, Ownership, Progress
  <2>2. QED
    BY <1>1, <2>1, SentAreDistinct DEF ForwardedOnce, DurableInv
<1>2. QED
  BY <1>1, DurableAlways, PTL

(* An operation whose record was rolled back to 'failed' was never handed to
   Circle: no rollback touches the salt of another request's batch. *)
THEOREM RollbackIsSafe == ASSUME DurableOnly PROVE Spec => []RolledBackWasNeverSent
<1>1. DurableInv => RolledBackWasNeverSent
  BY DEF DurableInv, Durable
<1>2. QED
  BY <1>1, DurableAlways, PTL

(* A record says 'rejected' only when Circle has not taken the operation and
   has no request left with which it could. *)
THEOREM RejectionIsDefinitive == ASSUME DurableOnly PROVE Spec => []RejectedIsDefinitive
<1>1. ASSUME DurableInv PROVE RejectedIsDefinitive
  <2> USE DEF DurableInv, Durable
  <2>1. ASSUME NEW s \in Salts, status(s) = "rejected"
        PROVE  s \notin attested /\ \A p \in Posts : s \in Range(batch[p]) => circle[p] # "sent"
    <3>1. PICK o \in Posts : s \in reserved[o] /\ circle[o] = "4xx"
      BY <1>1, <2>1 DEF Origins
    <3>2. \A p \in Posts : s \in reserved[p] => p = o
      BY <1>1, <3>1 DEF Ownership
    <3>3. s \notin attested
      BY <1>1, <3>1, <3>2 DEF Origins
    <3>4. \A p \in Posts : circle[p] = "sent" => reserved[p] = Range(batch[p])
      BY <1>1 DEF Progress, Sent
    <3>5. QED
      BY <3>1, <3>2, <3>3, <3>4
  <2>2. QED
    BY <2>1 DEF RejectedIsDefinitive, status
<1>2. QED
  BY <1>1, DurableAlways, PTL

(* A settled record is never written again: in any deployment. *)
THEOREM Settled == Spec => SettledForGood
<1>1. ASSUME TypeInv, Next, NEW s \in Salts, status(s) \in TerminalStates
      PROVE  rec'["do"][s] = rec["do"][s]
  <2> USE <1>1
  <2>1. rec \in [Stores -> [Salts -> Records]] /\ {"do", "kv"} = Stores
    BY RecordTypes DEF TypeInv, StoreTypeOK
  <2>2. \A s2, r : Store("kv", s2, r) => rec'["do"] = rec["do"]
    BY <2>1 DEF Store
  <2>3. \A s2 \in Salts : Store("do", s2, NewRecord) /\ CanReserve(rec["do"][s2]) =>
           rec'["do"][s] = rec["do"][s]
    BY <2>1 DEF Store, CanReserve, TerminalStates, status
  <2>4. ASSUME NEW s2 \in Salts, NEW to \in KnownStates, NEW rb, NEW tx \in Txs \cup {NoTx},
               NEW ok \in BOOLEAN, DoUpdate(s2, to, rb, tx, ok)
        PROVE  rec'["do"][s] = rec["do"][s]
    <3>1. CanUpdate(rec["do"][s2], to, rb) => s # s2
      BY <2>1, CanUpdateFrom DEF status
    <3>2. QED
      BY <2>4, <3>1, DoUpdateEffect
  <2>5. ASSUME NEW p \in Posts, PostStep(p) \/ PostFailure(p) \/ \E b \in Batches : Receive(p, b)
        PROVE  rec'["do"][s] = rec["do"][s]
    <3>1. CASE DoReserve(p) \/ DoReserveFails(p) \/ KvReserveGet(p) \/ KvReservePut(p) \/ KvReserveFails(p)
      <4>1. pc[p] \in {"reserve", "kvReserve", "kvPut"}
        BY <3>1 DEF DoReserve, DoReserveFails, KvReserveGet, KvReservePut, KvReserveFails, AtKvReserve
      <4>2. Item(p) \in Salts
        BY <4>1, SeqFacts DEF Item, TypeInv, PostInv, PostTypeOK, AtAnItem
      <4>3. QED
        BY <2>2, <2>3, <3>1, <4>2
        DEF DoReserve, DoReserveFails, KvReserveGet, KvReservePut, KvReserveFails
    <3>2. ASSUME NEW s2 \in Salts, DoUpdateOne(p, s2) PROVE rec'["do"][s] = rec["do"][s]
      <4>1. Target(p) \in KnownStates
        BY <3>2, TargetKnown DEF DoUpdateOne, InLoop, TypeInv, PostInv
      <4>2. QED
        BY <2>4, <3>2, <4>1 DEF DoUpdateOne
    <3>3. CASE KvUpdateOnePut(p)
      BY <2>2, <3>3 DEF KvUpdateOnePut, KvUpdatePut
    <3>4. CASE rec' = rec
      BY <3>4
    <3>5. QED
      BY <2>5, <3>1, <3>2, <3>3, <3>4
      DEF PostStep, PostFailure, Receive, Forward, CircleAnswered, CallFailed, StartRecording,
          KvUpdateOneGet, KvUpdateGet, KvUpdateRefused, Respond, Crash, storeVars
  <2>6. ASSUME NEW c \in Confirms, ConfirmStep(c) PROVE rec'["do"][s] = rec["do"][s]
    <3>1. CASE ConfirmWrite(c)
      BY <3>1, ConfirmEffect DEF TerminalStates
    <3>2. CASE ConfirmKvPut(c)
      BY <2>2, <3>2 DEF ConfirmKvPut, KvUpdatePut
    <3>3. QED
      BY <2>6, <3>1, <3>2
      DEF ConfirmStep, ConfirmRead, ConfirmVerify, ConfirmGiveUp, ConfirmKvGet, KvUpdateGet,
          KvUpdateRefused, storeVars
  <2>7. CASE Outside
    BY <2>7 DEF Outside, CircleHandles, Mine, insideVars, storeVars
  <2>8. QED
    BY <2>5, <2>6, <2>7 DEF Next
<1>2. TypeInv /\ [Next]_vars =>
         [\A s \in Salts : rec["do"][s].status \in TerminalStates => rec'["do"][s] = rec["do"][s]]_vars
  BY <1>1 DEF status
<1>3. QED
  BY <1>2, InitType, NextType, PTL DEF Spec, SettledForGood


-------------------------------------------------------------------------------
(* 'confirmed' names a transaction that minted: in any deployment *)

(* A confirmation that is about to write holds a proof, and what it has in hand
   on the KV path is for the salt it proved. *)
ConfProved ==
    \A c \in Confirms :
        /\ conf[c].step = "write" => Proves(conf[c].tx, conf[c].salt)
        /\ hand[c] # NoHand => /\ ~HasDO /\ conf[c].step = "write"
                               /\ hand[c].salt = conf[c].salt

MintInv == TypeInv /\ ConfProved /\ ConfirmedIsMinted

LEMMA ProofIsMint ==
    ASSUME TypeInv, NEW t \in Txs, NEW s \in Salts, Proves(t, s), chain[t].ok
    PROVE  MintedBy(t, s)
  BY SeqFacts DEF Proves, Mined, MintedBy, NoMint, TypeInv, OutsideTypeOK

(* What a step may write to a record: a confirmation that has its proof, or
   something else than 'confirmed'. *)
ConfirmedChange(s) ==
    \A st \in Stores :
        \/ rec'[st][s] = rec[st][s]
        \/ rec'[st][s].status # "confirmed"
        \/ rec'[st][s].tx \in Txs /\ MintedBy(rec'[st][s].tx, s)

LEMMA ChangesAreProved ==
    ASSUME MintInv, Next, NEW s \in Salts
    PROVE  ConfirmedChange(s)
<1> USE DEF MintInv
<1>1. rec \in [Stores -> [Salts -> Records]] /\ {"do", "kv"} = Stores
  BY RecordTypes DEF TypeInv, StoreTypeOK
<1>2. ASSUME NEW st \in Stores, NEW s2 \in Salts, NEW r \in Records, Store(st, s2, r),
             s2 = s /\ r.status = "confirmed" => r.tx \in Txs /\ MintedBy(r.tx, s)
      PROVE  ConfirmedChange(s)
  BY <1>1, <1>2, StoreOne DEF ConfirmedChange
<1>3. CASE rec' = rec
  BY <1>3 DEF ConfirmedChange
<1>4. ASSUME NEW p \in Posts, PostStep(p) \/ PostFailure(p) \/ \E b \in Batches : Receive(p, b)
      PROVE  ConfirmedChange(s)
  <2>1. CASE DoReserve(p) \/ DoReserveFails(p) \/ KvReserveGet(p) \/ KvReservePut(p) \/ KvReserveFails(p)
    <3>1. pc[p] \in {"reserve", "kvReserve", "kvPut"}
      BY <2>1 DEF DoReserve, DoReserveFails, KvReserveGet, KvReservePut, KvReserveFails, AtKvReserve
    <3>2. Item(p) \in Salts
      BY <3>1, SeqFacts DEF Item, TypeInv, PostInv, PostTypeOK, AtAnItem
    <3>3. \A st \in Stores : Store(st, Item(p), NewRecord) => ConfirmedChange(s)
      BY <1>2, <3>2, RecordTypes DEF NewRecord
    <3>4. QED
      BY <1>1, <1>3, <2>1, <3>3
      DEF DoReserve, DoReserveFails, KvReserveGet, KvReservePut, KvReserveFails
  <2>2. ASSUME pc[p] \in {"rollback", "record"}, NEW st \in Stores, NEW s2 \in Salts,
               NEW r \in Records, Store(st, s2, Updated(r, Target(p), NoTx))
        PROVE  ConfirmedChange(s)
    <3>1. Target(p) \in KnownStates \ {"confirmed"}
      BY <2>2, TargetKnown DEF Target, TypeInv, PostInv, OutcomeKnown, Outcomes
    <3>2. Updated(r, Target(p), NoTx) \in Records
      BY <3>1, RecordTypes
    <3>3. QED
      BY <1>2, <2>2, <3>1, <3>2 DEF Updated
  <2>3. ASSUME NEW s2 \in Salts, DoUpdateOne(p, s2) PROVE ConfirmedChange(s)
    <3>1. pc[p] \in {"rollback", "record"} /\ rec["do"][s2] \in Records
      BY <1>1, <2>3 DEF DoUpdateOne, InLoop
    <3>2. Store("do", s2, Updated(rec["do"][s2], Target(p), NoTx)) \/ rec' = rec
      BY <2>3 DEF DoUpdateOne, DoUpdate
    <3>3. QED
      BY <1>1, <1>3, <2>2, <3>1, <3>2
  <2>4. CASE KvUpdateOnePut(p)
    <3>1. /\ pc[p] \in {"rollback", "record"} /\ hand[p].salt \in Salts /\ hand[p].old \in Records
      BY <2>4 DEF KvUpdateOnePut, KvUpdatePut, TypeInv, HandInLoop, StoreTypeOK, Actors, Hands
    <3>2. Store("kv", hand[p].salt, Updated(hand[p].old, Target(p), NoTx)) \/ rec' = rec
      BY <2>4 DEF KvUpdateOnePut, KvUpdatePut
    <3>3. QED
      BY <1>1, <1>3, <2>2, <3>1, <3>2
  <2>5. QED
    BY <1>3, <1>4, <2>1, <2>3, <2>4
    DEF PostStep, PostFailure, Receive, Forward, CircleAnswered, CallFailed, StartRecording,
        KvUpdateOneGet, KvUpdateGet, KvUpdateRefused, Respond, Crash, storeVars
<1>5. ASSUME NEW c \in Confirms, ConfirmStep(c) PROVE ConfirmedChange(s)
  <2>1. ASSUME conf[c].step = "write", NEW st \in Stores, NEW r \in Records,
               Store(st, conf[c].salt, Updated(r, Settlement(conf[c].tx), conf[c].tx))
        PROVE  ConfirmedChange(s)
    <3>1. conf[c].salt \in Salts /\ conf[c].tx \in Txs /\ conf[c].tx # NoTx
      BY <2>1, GatewayAssumption DEF TypeInv, ConfTypeOK, Idle, GatewayAssumption
    <3>2. Settlement(conf[c].tx) \in KnownStates
      BY DEF Settlement, KnownStates
    <3>3. Settlement(conf[c].tx) = "confirmed" => MintedBy(conf[c].tx, conf[c].salt)
      BY <2>1, <3>1, ProofIsMint DEF Settlement, ConfProved
    <3>4. Updated(r, Settlement(conf[c].tx), conf[c].tx) \in Records
      BY <3>1, <3>2, RecordTypes
    <3>5. QED
      BY <1>2, <2>1, <3>1, <3>3, <3>4 DEF Updated
  <2>2. CASE ConfirmWrite(c)
    <3>1. conf[c].step = "write" /\ rec["do"][conf[c].salt] \in Records
      BY <1>1, <2>2 DEF ConfirmWrite, TypeInv, ConfTypeOK, Idle
    <3>2. \/ rec' = rec
          \/ Store("do", conf[c].salt,
                   Updated(rec["do"][conf[c].salt], Settlement(conf[c].tx), conf[c].tx))
      BY <2>2 DEF ConfirmWrite, DoUpdate
    <3>3. QED
      BY <1>1, <1>3, <2>1, <3>1, <3>2
  <2>3. CASE ConfirmKvPut(c)
    <3>1. /\ conf[c].step = "write" /\ hand[c] # NoHand /\ hand[c].salt = conf[c].salt
          /\ hand[c].old \in Records
      BY <2>3 DEF ConfirmKvPut, KvUpdatePut, ConfProved, TypeInv, StoreTypeOK, Actors, Hands
    <3>2. \/ rec' = rec
          \/ Store("kv", conf[c].salt,
                   Updated(hand[c].old, Settlement(conf[c].tx), conf[c].tx))
      BY <2>3, <3>1 DEF ConfirmKvPut, KvUpdatePut
    <3>3. QED
      BY <1>1, <1>3, <2>1, <3>1, <3>2
  <2>4. QED
    BY <1>3, <1>5, <2>2, <2>3
    DEF ConfirmStep, ConfirmRead, ConfirmVerify, ConfirmGiveUp, ConfirmKvGet, KvUpdateGet,
        KvUpdateRefused, storeVars
<1>6. CASE Outside
  BY <1>3, <1>6 DEF Outside, CircleHandles, Mine, insideVars, storeVars
<1>7. QED
  BY <1>4, <1>5, <1>6 DEF Next

(* A mined transaction stays as it is. *)
LEMMA ChainGrows ==
    ASSUME TypeInv, [Next]_vars, NEW t \in Txs, Mined(t)
    PROVE  chain'[t] = chain[t]
<1>1. ASSUME NEW u \in Txs, NEW g \in MintGroups, NEW k \in BOOLEAN, Mine(u, g, k)
      PROVE  chain'[t] = chain[t]
  BY <1>1 DEF Mine, TypeInv, OutsideTypeOK
<1>2. CASE chain' = chain
  BY <1>2
<1>3. QED
  BY <1>1, <1>2
  DEF Next, PostStep, PostFailure, Receive, DoReserve, Reserved, Blocked, DoReserveFails,
      KvReserveGet, KvReservePut, KvReserveFails, Forward, CircleAnswered, CallFailed,
      StartRecording, DoUpdateOne, Visited, KvUpdateOneGet, KvUpdateOnePut, Respond, Crash,
      ConfirmStep, ConfirmRead, ConfirmVerify, ConfirmGiveUp, ConfirmWrite, ConfirmKvGet,
      ConfirmKvPut, Outside, CircleHandles, outsideVars, vars

LEMMA ConfProvedNext ==
    ASSUME MintInv, [Next]_vars
    PROVE  ConfProved'
<1> USE DEF MintInv
<1> DEFINE Proved(c) ==
        /\ conf[c].step = "write" => Proves(conf[c].tx, conf[c].salt)
        /\ hand[c] # NoHand => /\ ~HasDO /\ conf[c].step = "write"
                               /\ hand[c].salt = conf[c].salt
<1>1. ASSUME NEW t \in Txs, NEW s \in Salts, Proves(t, s)
      PROVE  chain'[t] # NoMint /\ Head(chain'[t].salts) = s
  BY <1>1, ChainGrows DEF Proves, Mined
<1>2. ASSUME NEW c \in Confirms, conf'[c] = conf[c], hand'[c] = hand[c]
      PROVE  Proved(c)'
  <2>1. conf[c].step = "write" => conf[c].salt \in Salts /\ conf[c].tx \in Txs
    BY DEF TypeInv, ConfTypeOK, Idle
  <2>2. conf[c].step = "write" => /\ chain'[conf[c].tx] # NoMint
                                  /\ Head(chain'[conf[c].tx].salts) = conf[c].salt
    BY <1>1, <2>1 DEF ConfProved
  <2>3. (conf[c].step = "write" => Proves(conf[c].tx, conf[c].salt))'
    BY <1>2, <2>2 DEF Proves, Mined
  <2>4. QED
    BY <1>2, <2>3 DEF ConfProved
<1>3. ASSUME NEW c \in Confirms, ConfirmStep(c) PROVE Proved(c)'
  <2> USE DEF TypeInv, StoreTypeOK, ConfTypeOK, Actors
  <2>1. ASSUME NEW s \in Salts, NEW t \in Txs, ConfirmRead(c, s, t) PROVE Proved(c)'
    <3>1. conf'[c].step = "verify" /\ hand' = hand /\ hand[c] = NoHand
      BY <2>1 DEF ConfirmRead, Confirming, ConfProved, Idle
    <3>2. QED
      BY <3>1
  <2>2. CASE ConfirmVerify(c)
    <3>1. /\ conf'[c] = Confirming("write", conf[c].salt, conf[c].tx)
          /\ hand' = hand /\ hand[c] = NoHand /\ chain' = chain
          /\ Proves(conf[c].tx, conf[c].salt)
      BY <2>2 DEF ConfirmVerify, ConfProved, storeVars, outsideVars
    <3>2. QED
      BY <3>1 DEF Confirming, Proves, Mined
  <2>3. CASE ConfirmGiveUp(c) \/ ConfirmWrite(c) \/ ConfirmKvPut(c)
    <3>1. conf'[c] = Idle /\ hand'[c] = NoHand
      BY <2>3 DEF ConfirmGiveUp, ConfirmWrite, DoUpdate, ConfirmKvPut, KvUpdatePut, ConfProved
    <3>2. QED
      BY <3>1 DEF Idle
  <2>4. CASE ConfirmKvGet(c)
    <3>1. CASE KvUpdateGet(c, conf[c].salt, Settlement(conf[c].tx)) /\ UNCHANGED conf
      <4>1. /\ ~HasDO /\ hand'[c].salt = conf[c].salt /\ conf[c].step = "write" /\ chain' = chain
        BY <2>4, <3>1 DEF ConfirmKvGet, KvUpdateGet, outsideVars
      <4>2. QED
        BY <3>1, <4>1 DEF ConfProved, Proves, Mined
    <3>2. CASE KvUpdateRefused(c, conf[c].salt, Settlement(conf[c].tx)) /\ conf' = [conf EXCEPT ![c] = Idle]
      BY <3>2 DEF KvUpdateRefused, Idle
    <3>3. QED
      BY <2>4, <3>1, <3>2 DEF ConfirmKvGet
  <2>5. QED
    BY <1>3, <2>1, <2>2, <2>3, <2>4 DEF ConfirmStep
<1>4. ASSUME NEW c \in Confirms, NEW d \in Confirms, d # c, ConfirmStep(d)
      PROVE  conf'[c] = conf[c] /\ hand'[c] = hand[c]
  <2>1. conf' = conf \/ \E v : conf' = [conf EXCEPT ![d] = v]
    BY <1>4 DEF ConfirmStep, ConfirmRead, ConfirmVerify, ConfirmGiveUp, ConfirmWrite, ConfirmKvGet,
                ConfirmKvPut
  <2>2. hand' = hand \/ \E v : hand' = [hand EXCEPT ![d] = v]
    BY <1>4 DEF ConfirmStep, ConfirmRead, ConfirmVerify, ConfirmGiveUp, ConfirmWrite, ConfirmKvGet,
                ConfirmKvPut, KvUpdateGet, KvUpdateRefused, KvUpdatePut, storeVars
  <2>3. QED
    BY <1>4, <2>1, <2>2 DEF TypeInv, StoreTypeOK, ConfTypeOK, Actors
<1>5. ASSUME NEW c \in Confirms, NEW p \in Posts,
             PostStep(p) \/ PostFailure(p) \/ \E b \in Batches : Receive(p, b)
      PROVE  conf'[c] = conf[c] /\ hand'[c] = hand[c]
  <2>1. conf' = conf
    BY <1>5 DEF PostStep, PostFailure, Receive, DoReserve, Reserved, Blocked, DoReserveFails,
      KvReserveGet, KvReservePut, KvReserveFails, Forward, CircleAnswered, CallFailed,
      StartRecording, DoUpdateOne, Visited, KvUpdateOneGet, KvUpdateOnePut, Respond, Crash
  <2>2. hand' = hand \/ \E v : hand' = [hand EXCEPT ![p] = v]
    BY <1>5 DEF PostStep, PostFailure, Receive, DoReserve, Reserved, Blocked, DoReserveFails,
      KvReserveGet, KvReservePut, KvReserveFails, Forward, CircleAnswered, CallFailed,
      StartRecording, DoUpdateOne, KvUpdateOneGet, KvUpdateGet, KvUpdateRefused,
      KvUpdateOnePut, KvUpdatePut, Respond, Crash, storeVars
  <2>3. c # p
    BY GatewayAssumption DEF GatewayAssumption
  <2>4. QED
    BY <2>1, <2>2, <2>3 DEF TypeInv, StoreTypeOK, Actors
<1>6. CASE Outside \/ UNCHANGED vars
  <2>1. conf' = conf /\ hand' = hand
    BY <1>6 DEF Outside, CircleHandles, Mine, insideVars, storeVars, vars
  <2>2. \A c \in Confirms : Proved(c)'
    BY <1>2, <2>1
  <2>3. QED
    BY <2>2 DEF ConfProved
<1>7. ASSUME NEW c \in Confirms, Next PROVE Proved(c)'
  <2>1. CASE Outside
    BY <1>6, <2>1 DEF ConfProved
  <2>2. ASSUME NEW d \in Confirms, ConfirmStep(d) PROVE Proved(c)'
    <3>1. CASE d = c
      BY <1>3, <2>2, <3>1
    <3>2. CASE d # c
      BY <1>2, <1>4, <2>2, <3>2
    <3>3. QED
      BY <3>1, <3>2
  <2>3. ASSUME NEW p \in Posts, PostStep(p) \/ PostFailure(p) \/ \E b \in Batches : Receive(p, b)
        PROVE  Proved(c)'
    BY <1>2, <1>5, <2>3
  <2>4. QED
    BY <1>7, <2>1, <2>2, <2>3 DEF Next
<1>8. QED
  BY <1>6, <1>7 DEF ConfProved

LEMMA MintAlways == Spec => []MintInv
<1>1. Init => MintInv
  <2>1. Init => ConfProved /\ ConfirmedIsMinted
    BY DEF Init, ConfProved, Idle, Actors, ConfirmedIsMinted, NoRecord, Stores
  <2>2. QED
    BY <2>1, InitType DEF MintInv
<1>2. MintInv /\ [Next]_vars => MintInv'
  <2> SUFFICES ASSUME MintInv, [Next]_vars PROVE ConfirmedIsMinted'
    BY NextType, ConfProvedNext DEF MintInv
  <2>1. ASSUME NEW t \in Txs, NEW s \in Salts, MintedBy(t, s) PROVE MintedBy(t, s)'
    BY <2>1, ChainGrows DEF MintedBy, Mined, NoMint, MintInv
  <2>2. ASSUME NEW s \in Salts, NEW st \in Stores, rec'[st][s].status = "confirmed"
        PROVE  rec'[st][s].tx \in Txs /\ MintedBy(rec'[st][s].tx, s)
    <3>1. rec'[st][s] = rec[st][s] \/ ConfirmedChange(s)
      BY ChangesAreProved DEF vars
    <3>2. rec[st][s].status = "confirmed" => rec[st][s].tx \in Txs /\ MintedBy(rec[st][s].tx, s)
      BY DEF MintInv, ConfirmedIsMinted
    <3>3. QED
      BY <2>2, <3>1, <3>2 DEF ConfirmedChange
  <2>3. ASSUME NEW s \in Salts, NEW st \in Stores, rec'[st][s].status = "confirmed"
        PROVE  (rec[st][s].tx \in Txs /\ MintedBy(rec[st][s].tx, s))'
    <3>1. \A t : t = rec'[st][s].tx => t \in Txs /\ MintedBy(t, s)
      BY <2>2, <2>3
    <3>2. \A t : t = rec'[st][s].tx => MintedBy(t, s)'
      BY <2>1, <3>1
    <3>3. QED
      BY <3>1, <3>2 DEF MintedBy
  <2>4. QED
    BY <2>3 DEF ConfirmedIsMinted
<1>3. QED
  BY <1>1, <1>2, PTL DEF Spec

(* 'confirmed' names a transaction that minted the operation: in production and
   in the deployments with the KV fallback, with any number of failures. *)
THEOREM ConfirmationIsMint == Spec => []ConfirmedIsMinted
<1>1. MintInv => ConfirmedIsMinted
  BY DEF MintInv
<1>2. QED
  BY <1>1, MintAlways, PTL

-------------------------------------------------------------------------------
(* Refinement: the endpoint implements GatewayOperation. *)


(* The mapped variables. *)
absStatus == [s \in Salts |-> rec["do"][s].status]
absSent   == UNION {Range(batch[p]) : p \in {q \in Posts : Sent(q)}}
absMinted == {s \in Salts : Minted(s)}

SameSent   == absSent' = absSent
SameMinted == absMinted' = absMinted
SameStatus == \A s \in Salts : status(s)' = status(s)

(* One record changes its status, and nothing else changes. *)
OneStatus(s, from, to) ==
    /\ status(s) \in from /\ status(s)' = to
    /\ \A s2 \in Salts \ {s} : status(s2)' = status(s2)
    /\ SameSent /\ SameMinted /\ attested' = attested

LEMMA Become ==
    ASSUME NEW s \in Salts, NEW from, NEW to, OneStatus(s, from, to)
    PROVE  Operation!Become(s, from, to)
<1>1. absStatus' = [absStatus EXCEPT ![s] = to]
  BY DEF OneStatus, status, absStatus
<1>2. absStatus[s] \in from
  BY DEF OneStatus, status, absStatus
<1>3. QED
  BY <1>1, <1>2 DEF OneStatus, SameSent, SameMinted, absStatus, absSent, absMinted,
                    Operation!Become

LEMMA Stutter ==
    ASSUME SameStatus, SameSent, SameMinted, attested' = attested
    PROVE  UNCHANGED Operation!vars
<1>1. absStatus' = absStatus
  BY DEF SameStatus, status, absStatus
<1>2. QED
  BY <1>1 DEF SameSent, SameMinted, absStatus, absSent, absMinted, Operation!vars

(* What was handed to Circle stays the same as long as no request is sent and
   none that was sent changes its batch; what is minted, as the chain does. *)
LEMMA SentFrame ==
    ASSUME \A p \in Posts : Sent(p)' = Sent(p) /\ (Sent(p) => batch'[p] = batch[p])
    PROVE  SameSent
  BY DEF SameSent, absSent

LEMMA MintedFrame == ASSUME chain' = chain PROVE SameMinted
  BY DEF SameMinted, absMinted, Minted, MintedBy

(* The abstract sets in terms of owners. *)
LEMMA SentIsOwned ==
    ASSUME TypeInv, Durable
    PROVE  \A s : s \in absSent <=> \E p \in Posts : Sent(p) /\ s \in reserved[p]
  BY DEF absSent, Durable, Progress

LEMMA StepIn ==
    \A s \in Salts :
        /\ Operation!Reserve(s) \/ Operation!GiveUp(s) \/ Operation!Accepted(s)
              \/ Operation!Rejected(s) \/ Operation!Ambiguous(s) \/ Operation!Confirmed(s)
              \/ Operation!Failed(s) => Operation!Next
  BY DEF Operation!Next

-------------------------------------------------------------------------------
(* One lemma for each kind of step *)

Mapped == Operation!Next \/ UNCHANGED Operation!vars

LEMMA ReserveMapped ==
    ASSUME TypeInv, Durable, NEW p \in Posts, DoReserve(p) \/ DoReserveFails(p)
    PROVE  Mapped
<1>0. PICK s0 \in Salts : s0 = Item(p)
  BY SeqFacts DEF DoReserve, DoReserveFails, Item, AtAnItem, TypeInv, PostInv, PostTypeOK
<1>1. /\ batch' = batch /\ circle' = circle /\ attested' = attested /\ chain' = chain
  BY DEF DoReserve, DoReserveFails, Reserved, Blocked, requestVars, outsideVars
<1>2. SameSent /\ SameMinted
  BY <1>1, SentFrame, MintedFrame DEF Sent
<1>3. SameStatus \/ OneStatus(s0, {"none"}, "submitting")
  <2>1. Store("do", s0, NewRecord) =>
           /\ rec'["do"][s0] = NewRecord
           /\ \A s \in Salts : s # s0 => rec'["do"][s] = rec["do"][s]
    BY RecordTypes DEF Store, StoreTypeOK, TypeInv
  <2>2. CASE rec' = rec
    BY <2>2 DEF SameStatus, status
  <2>3. CASE Store("do", s0, NewRecord) /\ CanReserve(rec["do"][s0])
    BY <1>1, <1>2, <2>1, <2>3 DEF OneStatus, status, NewRecord, CanReserve
  <2>4. QED
    BY <1>0, <2>2, <2>3 DEF DoReserve, DoReserveFails
<1>4. QED
  BY <1>1, <1>2, <1>3, Stutter, Become, StepIn DEF Mapped, Operation!Reserve

LEMMA ForwardMapped ==
    ASSUME TypeInv, Durable, NEW p \in Posts, Forward(p)
    PROVE  Mapped
<1> DEFINE B == Range(batch[p])
<1>1. /\ pc[p] = "forward" /\ reserved[p] = B /\ ~Sent(p) /\ B \subseteq Salts
      /\ circle' = [circle EXCEPT ![p] = "sent"]
      /\ UNCHANGED <<rec, batch, attested, chain>>
  BY BatchRange DEF Forward, Durable, Progress, storeVars, requestVars, TypeInv, PostInv
<1>2. \A q \in Posts : Sent(q)' = (Sent(q) \/ q = p)
  BY <1>1 DEF Sent, TypeInv, OutsideTypeOK
<1>3. absSent' = absSent \cup B
  BY <1>1, <1>2 DEF absSent
<1>4. B \cap absSent = {}
  BY <1>1, SentIsOwned DEF Durable, Ownership
<1>5. \A s \in B : absStatus[s] = "submitting"
  BY <1>1 DEF Durable, Untouched, status, absStatus
<1>6. absStatus' = absStatus /\ absMinted' = absMinted
  BY <1>1, MintedFrame DEF absStatus, SameMinted
<1>7. Operation!Submit(B)
  BY <1>1, <1>3, <1>4, <1>5, <1>6 DEF Operation!Submit, absStatus, absSent, absMinted
<1>8. QED
  BY <1>1, <1>7 DEF Mapped, Operation!Next

LEMMA LoopMapped ==
    ASSUME TypeInv, Durable, NEW p \in Posts, NEW s \in Salts, DoUpdateOne(p, s)
    PROVE  Mapped
<1>1. PICK ok \in BOOLEAN :
         DoUpdate(s, Target(p), pc[p] = "rollback", NoTx, ok) /\ Visited(p, s, ok)
  BY DEF DoUpdateOne
<1>2. /\ pc[p] \in {"rollback", "record"} /\ s \in reserved[p] /\ status(s) = "submitting"
      /\ Target(p) \in KnownStates
  BY TargetKnown DEF DoUpdateOne, InLoop, Durable, Progress, Untouched, TypeInv, PostInv
<1>3. /\ UNCHANGED <<batch, circle, attested, chain>> /\ SameSent /\ SameMinted
  BY <1>1, SentFrame, MintedFrame DEF Visited, requestVars, outsideVars, Sent
<1>4. SameStatus \/ OneStatus(s, {"submitting"}, Target(p))
  <2>1. \/ rec' = rec
        \/ /\ rec'["do"][s] = Updated(rec["do"][s], Target(p), NoTx)
           /\ \A s2 \in Salts : s2 # s => rec'["do"][s2] = rec["do"][s2]
    BY <1>1, <1>2, DoUpdateEffect
  <2>2. Updated(rec["do"][s], Target(p), NoTx).status = Target(p)
    BY DEF Updated
  <2>3. QED
    BY <1>2, <1>3, <2>1, <2>2 DEF SameStatus, OneStatus, status
<1>5. CASE SameStatus
  BY <1>3, <1>5, Stutter DEF Mapped
<1>6. CASE OneStatus(s, {"submitting"}, Target(p)) /\ pc[p] = "rollback"
  <2>1. s \notin absSent
    BY <1>2, <1>6, SentIsOwned DEF Durable, Ownership, Progress
  <2>2. Target(p) = "failed"
    BY <1>6 DEF Target
  <2>3. Operation!GiveUp(s)
    BY <1>6, <2>1, <2>2, Become DEF Operation!GiveUp, absSent
  <2>4. QED
    BY <2>3, StepIn DEF Mapped
<1>7. CASE OneStatus(s, {"submitting"}, Target(p)) /\ pc[p] = "record"
  <2>1. s \in absSent
    BY <1>2, <1>7, SentIsOwned DEF Durable, Progress
  <2>2. Target(p) = verdict[p] /\ verdict[p] \in Outcomes
    BY <1>7 DEF Target, TypeInv, PostInv, OutcomeKnown
  <2>3. CASE verdict[p] = "accepted"
    <3>1. s \in attested
      BY <1>2, <1>7, <2>3 DEF Durable, Progress
    <3>2. QED
      BY <1>7, <2>2, <2>3, <3>1, Become, StepIn DEF Mapped, Operation!Accepted
  <2>4. CASE verdict[p] = "rejected"
    <3>1. s \notin attested
      BY <1>2, <1>7, <2>4 DEF Durable, Progress, Origins, Ownership
    <3>2. Operation!Rejected(s)
      BY <1>7, <2>1, <2>2, <2>4, <3>1, Become DEF Operation!Rejected, absSent
    <3>3. QED
      BY <3>2, StepIn DEF Mapped
  <2>5. CASE verdict[p] = "ambiguous"
    <3>1. Operation!Ambiguous(s)
      BY <1>7, <2>1, <2>2, <2>5, Become DEF Operation!Ambiguous, absSent
    <3>2. QED
      BY <3>1, StepIn DEF Mapped
  <2>6. QED
    BY <2>2, <2>3, <2>4, <2>5 DEF Outcomes
<1>8. QED
  BY <1>2, <1>4, <1>5, <1>6, <1>7


(* The other steps of a request are its own business. *)
LEMMA QuietMapped ==
    ASSUME TypeInv, Durable, NEW p \in Posts,
           \/ \E b \in Batches : Receive(p, b)
           \/ CircleAnswered(p) \/ CallFailed(p) \/ Respond(p) \/ Crash(p)
    PROVE  Mapped
<1>1. UNCHANGED <<rec, circle, attested, chain>>
  BY DEF Receive, CircleAnswered, CallFailed, StartRecording, Respond, Crash, storeVars, outsideVars
<1>2. \A q \in Posts : Sent(q) => batch'[q] = batch[q]
  BY DEF Receive, CircleAnswered, CallFailed, StartRecording, Respond, Crash, requestVars,
         Durable, Progress, TypeInv, PostInv, PostTypeOK
<1>3. SameSent /\ SameMinted /\ SameStatus
  BY <1>1, <1>2, SentFrame, MintedFrame DEF Sent, SameStatus, status
<1>4. QED
  BY <1>1, <1>3, Stutter DEF Mapped

LEMMA ConfirmMapped ==
    ASSUME MintInv, Durable, NEW c \in Confirms,
           \/ \E s \in Salts, t \in Txs : ConfirmRead(c, s, t)
           \/ ConfirmVerify(c) \/ ConfirmGiveUp(c) \/ ConfirmWrite(c)
    PROVE  Mapped
<1>1. UNCHANGED <<batch, circle, attested, chain>>
  BY DEF ConfirmRead, ConfirmVerify, ConfirmGiveUp, ConfirmWrite, postVars, requestVars, outsideVars
<1>2. SameSent /\ SameMinted
  BY <1>1, SentFrame, MintedFrame DEF Sent
<1>3. CASE rec' = rec
  BY <1>1, <1>2, <1>3, Stutter DEF SameStatus, status, Mapped
<1>4. CASE ConfirmWrite(c)
  <2>1. PICK s \in Salts, t \in Txs : s = conf[c].salt /\ t = conf[c].tx /\ conf[c].step = "write"
    BY <1>4, ConfirmEffect DEF MintInv
  <2>2. SameStatus \/ OneStatus(s, {"accepted", "ambiguous"}, Settlement(t))
    <3>1. \A s2 \in Salts :
             \/ rec'["do"][s2] = rec["do"][s2]
             \/ /\ s2 = s /\ status(s) \in {"accepted", "ambiguous"}
                /\ rec'["do"][s2] = [status |-> Settlement(t), tx |-> t]
      BY <1>4, <2>1, ConfirmEffect DEF MintInv
    <3>2. CASE rec'["do"][s] = rec["do"][s]
      BY <3>1, <3>2 DEF SameStatus, status
    <3>3. CASE /\ status(s) \in {"accepted", "ambiguous"}
               /\ rec'["do"][s] = [status |-> Settlement(t), tx |-> t]
      BY <1>1, <1>2, <3>1, <3>3 DEF OneStatus, status
    <3>4. QED
      BY <3>1, <3>2, <3>3
  <2>3. Proves(t, s)
    BY <2>1 DEF MintInv, ConfProved
  <2>4. status(s) \in {"accepted", "ambiguous"} => s \in absSent
    BY SentIsOwned DEF MintInv, Durable, Origins
  <2>5. CASE SameStatus
    BY <1>1, <1>2, <2>5, Stutter DEF Mapped
  <2>6. CASE OneStatus(s, {"accepted", "ambiguous"}, Settlement(t)) /\ chain[t].ok
    <3>1. s \in absMinted
      BY <2>3, <2>6, ProofIsMint DEF absMinted, Minted, MintInv
    <3>2. Settlement(t) = "confirmed"
      BY <2>6 DEF Settlement
    <3>3. Operation!Confirmed(s)
      BY <2>6, <3>1, <3>2, Become DEF Operation!Confirmed, absMinted
    <3>4. QED
      BY <3>3, StepIn DEF Mapped
  <2>7. CASE OneStatus(s, {"accepted", "ambiguous"}, Settlement(t)) /\ ~chain[t].ok
    <3>1. Settlement(t) = "failed"
      BY <2>7 DEF Settlement
    <3>2. Operation!Failed(s)
      BY <2>4, <2>7, <3>1, Become DEF Operation!Failed, OneStatus, absSent
    <3>3. QED
      BY <3>2, StepIn DEF Mapped
  <2>8. QED
    BY <2>2, <2>5, <2>6, <2>7
<1>5. QED
  BY <1>3, <1>4 DEF ConfirmRead, ConfirmVerify, ConfirmGiveUp, storeVars

LEMMA CircleMapped ==
    ASSUME TypeInv, Durable, NEW p \in Posts, NEW code \in Codes, CircleHandles(p, code)
    PROVE  Mapped
<1> DEFINE B == Range(batch[p])
<1>1. /\ circle[p] = "sent" /\ circle' = [circle EXCEPT ![p] = code] /\ chain' = chain
      /\ UNCHANGED <<rec, batch>> /\ reserved[p] = B /\ B \subseteq Salts
  BY BatchRange DEF CircleHandles, Durable, Progress, Sent, insideVars, storeVars, postVars, requestVars,
            TypeInv, PostInv
<1>2. SameSent /\ SameMinted /\ SameStatus
  <2>1. \A q \in Posts : Sent(q)' = Sent(q)
    BY <1>1 DEF Sent, Codes, TypeInv, OutsideTypeOK
  <2>2. QED
    BY <1>1, <2>1, SentFrame, MintedFrame DEF SameStatus, status
<1>3. CASE attested' = attested
  BY <1>2, <1>3, Stutter DEF Mapped
<1>4. CASE attested' = attested \cup B /\ B \cap attested = {}
  <2>1. B \subseteq absSent
    BY <1>1 DEF absSent, Sent
  <2>2. \A s \in B : absStatus[s] # "rejected"
    BY <1>1 DEF Durable, Origins, Ownership, absStatus, status
  <2>3. absStatus' = absStatus
    BY <1>1 DEF absStatus
  <2>4. Operation!Attest(B)
    BY <1>2, <1>4, <2>1, <2>2, <2>3
    DEF Operation!Attest, SameSent, SameMinted, absSent, absStatus, absMinted
  <2>5. QED
    BY <1>1, <2>4 DEF Mapped, Operation!Next
<1>5. QED
  BY <1>3, <1>4 DEF CircleHandles

LEMMA MineMapped ==
    ASSUME TypeInv, Durable, NEW t \in Txs, NEW g \in MintGroups, NEW ok \in BOOLEAN, Mine(t, g, ok)
    PROVE  Mapped
<1> DEFINE B == IF ok THEN Range(g) ELSE {}
<1>1. /\ ~Mined(t) /\ chain' = [chain EXCEPT ![t] = [salts |-> g, ok |-> ok]]
      /\ UNCHANGED <<rec, batch, circle, attested>> /\ B \subseteq attested /\ B \subseteq Salts
      /\ B \cap absMinted = {}
  BY SeqFacts DEF Mine, insideVars, storeVars, postVars, requestVars, absMinted
<1>2. SameSent /\ absStatus' = absStatus
  BY <1>1, SentFrame DEF Sent, absStatus
<1>3. absMinted' = absMinted \cup B
  <2>1. \A u \in Txs \ {t}, s \in Salts : MintedBy(u, s)' = MintedBy(u, s)
    BY <1>1 DEF MintedBy, TypeInv, OutsideTypeOK
  <2>2. \A s \in Salts : MintedBy(t, s)' <=> s \in B
    BY <1>1 DEF MintedBy, TypeInv, OutsideTypeOK
  <2>3. \A s \in Salts : ~MintedBy(t, s)
    BY <1>1, SeqFacts DEF MintedBy, Mined, NoMint
  <2>4. QED
    BY <1>1, <2>1, <2>2, <2>3 DEF absMinted, Minted
<1>4. Operation!Mint(B)
  BY <1>1, <1>2, <1>3 DEF Operation!Mint, SameSent, absSent, absStatus, absMinted
<1>5. QED
  BY <1>1, <1>4 DEF Mapped, Operation!Next

(* The transfer endpoint keeps the promise of GatewayOperation about every
   operation, whatever requests, failures and confirmations there are. *)
THEOREM Implements == ASSUME DurableOnly PROVE Spec => ImplementsOperation
<1>1. Init => Operation!Init
  <2>1. Init => absStatus = [s \in Salts |-> "none"]
    BY DEF Init, NoRecord, Stores, absStatus
  <2>2. Init => absSent = {} /\ absMinted = {} /\ attested = {}
    BY SeqFacts DEF Init, Sent, NoMint, absSent, absMinted, Minted, MintedBy
  <2>3. QED
    BY <2>1, <2>2 DEF Operation!Init, absStatus, absSent, absMinted
<1>2. ASSUME DurableInv, MintInv, [Next]_vars PROVE Mapped
  <2> USE <1>2 DEF DurableInv
  <2>1. ASSUME NEW p \in Posts, (\E b \in Batches : Receive(p, b)) \/ PostStep(p) \/ PostFailure(p)
        PROVE  Mapped
    BY <2>1, NoKvStep, ReserveMapped, ForwardMapped, LoopMapped, QuietMapped DEF PostStep, PostFailure
  <2>2. ASSUME NEW p \in Posts, NEW b \in Batches, Receive(p, b) PROVE Mapped
    BY <2>1, <2>2
  <2>3. ASSUME NEW p \in Posts, PostStep(p) \/ PostFailure(p) PROVE Mapped
    BY <2>1, <2>3
  <2>4. ASSUME NEW c \in Confirms, ConfirmStep(c) PROVE Mapped
    BY <2>4, NoKvStep, ConfirmMapped DEF ConfirmStep
  <2>5. CASE Outside
    BY <2>5, CircleMapped, MineMapped DEF Outside
  <2>6. CASE UNCHANGED vars
    <3>1. UNCHANGED <<rec, batch, circle, attested, chain>>
      BY <2>6 DEF vars
    <3>2. SameStatus /\ SameSent /\ SameMinted
      BY <3>1, SentFrame, MintedFrame DEF SameStatus, status, Sent
    <3>3. QED
      BY <3>1, <3>2, Stutter DEF Mapped
  <2>7. QED
    BY <2>2, <2>3, <2>4, <2>5, <2>6 DEF Next
<1>3. DurableInv /\ MintInv /\ [Next]_vars => [Operation!Next]_Operation!vars
  BY <1>2 DEF Mapped
<1>4. Spec => []MintInv
  BY MintAlways
<1>5. Spec => []DurableInv
  BY DurableAlways
<1>6. QED
  BY <1>1, <1>3, <1>4, <1>5, PTL DEF Spec, ImplementsOperation, Operation!Spec
-------------------------------------------------------------------------------
(* Operations that stay at 'submitting' *)

(* A live request that has reserved the salt will store something under it. *)
InHand(p, s) ==
    \/ pc[p] \in {"reserve", "forward", "await"} /\ s \in reserved[p]
    \/ pc[p] \in {"rollback", "record"} /\ s \in todo[p]

(* Nobody will: its worker died, the call that was to store the outcome failed, or
   the call that reserved it did, although it took effect. *)
LeftBehind(p, s) ==
    \/ pc[p] = "crashed" /\ s \in reserved[p]
    \/ s \in unsaved[p]
    \/ resp[p] = "blocked" /\ s = Item(p)

Accounted == \A s \in Salts :
    status(s) = "submitting" => \E p \in Posts : InHand(p, s) \/ LeftBehind(p, s)

(* Each of these is the mark of a fault. *)
Faulty(p) == pc[p] = "crashed" \/ unsaved[p] # {} \/ resp[p] = "blocked"
Marks     == (\E p \in Posts : Faulty(p)) => faults > 0

Unanswered ==
    \A p \in Posts : pc[p] \in {"idle", "reserve", "forward", "await"} => resp[p] = "none"

LeftInv == Accounted /\ Marks /\ Unanswered

(* What a request does to the other requests and to the records. *)
LEMMA AccountedStep ==
    ASSUME Accounted, NEW p \in Posts,
           \A q \in Posts \ {p} :
               /\ pc'[q] = pc[q] /\ reserved'[q] = reserved[q] /\ todo'[q] = todo[q]
               /\ unsaved'[q] = unsaved[q] /\ resp'[q] = resp[q]
               /\ batch'[q] = batch[q] /\ next'[q] = next[q],
           \A s \in Salts : status(s)' = "submitting" =>
               \/ InHand(p, s)' \/ LeftBehind(p, s)'
               \/ status(s) = "submitting" /\ ~InHand(p, s) /\ ~LeftBehind(p, s)
    PROVE  Accounted'
<1>1. ASSUME NEW s \in Salts, status(s)' = "submitting"
      PROVE  \E q \in Posts : InHand(q, s)' \/ LeftBehind(q, s)'
  <2>1. CASE InHand(p, s)' \/ LeftBehind(p, s)'
    BY <2>1
  <2>2. CASE status(s) = "submitting" /\ ~InHand(p, s) /\ ~LeftBehind(p, s)
    <3>1. PICK q \in Posts \ {p} : InHand(q, s) \/ LeftBehind(q, s)
      BY <2>2 DEF Accounted
    <3>2. InHand(q, s)' \/ LeftBehind(q, s)'
      BY <3>1 DEF InHand, LeftBehind, Item
    <3>3. QED
      BY <3>2
  <2>3. QED
    BY <1>1, <2>1, <2>2
<1>2. QED
  BY <1>1 DEF Accounted

LEMMA MarksStep ==
    ASSUME TypeInv, Marks, NEW p \in Posts, faults' \in Nat, faults <= faults',
           \A q \in Posts \ {p} : pc'[q] = pc[q] /\ unsaved'[q] = unsaved[q] /\ resp'[q] = resp[q],
           Faulty(p)' => Faulty(p) \/ faults' > 0
    PROVE  Marks'
<1>1. faults \in Nat
  BY DEF TypeInv, StoreTypeOK
<1>2. faults > 0 => faults' > 0
  BY <1>1
<1>3. \A q \in Posts \ {p} : Faulty(q)' = Faulty(q)
  BY DEF Faulty
<1>4. QED
  BY <1>2, <1>3 DEF Marks

(* The request in hand is accounted for, whatever it does next. *)
LEMMA LeftByPost ==
    ASSUME DurableOnly, DurableInv, LeftInv, NEW p \in Posts,
           (\E b \in Batches : Receive(p, b)) \/ PostStep(p) \/ PostFailure(p)
    PROVE  LeftInv'
<1> USE DEF DurableInv, LeftInv
<1>1. /\ pc \in [Posts -> PostStates] /\ reserved \in [Posts -> SUBSET Salts]
      /\ todo \in [Posts -> SUBSET Salts] /\ unsaved \in [Posts -> SUBSET Salts]
      /\ resp \in [Posts -> Responses] /\ next \in [Posts -> Nat \ {0}]
      /\ batch \in [Posts -> Batches \cup {<<>>}]
      /\ faults \in Nat /\ rec \in [Stores -> [Salts -> Records]] /\ "do" \in Stores
  BY DEF TypeInv, PostInv, PostTypeOK, StoreTypeOK, Stores
<1>2. \A q \in Posts \ {p} :
          /\ pc'[q] = pc[q] /\ reserved'[q] = reserved[q] /\ todo'[q] = todo[q]
          /\ unsaved'[q] = unsaved[q] /\ resp'[q] = resp[q]
          /\ batch'[q] = batch[q] /\ next'[q] = next[q]
  BY <1>1, NoKvStep
  DEF Receive, PostStep, PostFailure, DoReserve, DoReserveFails, Reserved, Blocked, Forward,
      CircleAnswered, CallFailed, StartRecording, DoUpdateOne, Visited, Respond, Crash,
      requestVars, loopVars
<1>3. faults' \in Nat /\ faults <= faults'
  <2>1. faults' = faults \/ faults' = faults + 1
    BY NoKvStep
    DEF Receive, PostStep, PostFailure, DoReserve, DoReserveFails, Forward, CircleAnswered,
        CallFailed, StartRecording, DoUpdateOne, DoUpdate, Respond, Crash, Fault, storeVars
  <2>2. QED
    BY <1>1, <2>1
\* What is left to show of each step.
<1>4. ASSUME Faulty(p)' => Faulty(p) \/ faults' > 0,
             pc'[p] \in {"idle", "reserve", "forward", "await"} => resp'[p] = "none",
             \A s \in Salts : status(s)' = "submitting" =>
                 \/ InHand(p, s)' \/ LeftBehind(p, s)'
                 \/ status(s) = "submitting" /\ ~InHand(p, s) /\ ~LeftBehind(p, s)
      PROVE  LeftInv'
  <2>1. Accounted'
    BY <1>2, <1>4, AccountedStep
  <2>2. Marks'
    BY <1>2, <1>3, <1>4, MarksStep
  <2>3. Unanswered'
    BY <1>2, <1>4 DEF Unanswered
  <2>4. QED
    BY <2>1, <2>2, <2>3
<1>5. Fault => faults' > 0
  BY <1>1 DEF Fault
<1>6. ASSUME NEW b \in Batches, Receive(p, b) PROVE LeftInv'
  <2>1. pc[p] = "idle" /\ pc'[p] = "reserve" /\ resp[p] = "none"
        /\ UNCHANGED <<rec, reserved, todo, unsaved, resp>>
    BY <1>1, <1>6 DEF Receive, storeVars, loopVars, Unanswered
  <2>2. QED
    BY <2>1, <1>4 DEF Faulty, InHand, LeftBehind, status
<1>7. CASE DoReserve(p)
  <2>1. pc[p] = "reserve" /\ resp[p] = "none" /\ UNCHANGED unsaved
    BY <1>7 DEF DoReserve, Reserved, Blocked, loopVars, Unanswered
  <2>2. CASE Store("do", Item(p), NewRecord) /\ Reserved(p)
    <3>1. pc'[p] \in {"forward", "reserve"} /\ reserved'[p] = reserved[p] \cup {Item(p)}
          /\ resp' = resp
      BY <1>1, <2>2 DEF Reserved
    <3>2. \A s \in Salts \ {Item(p)} : rec'["do"][s] = rec["do"][s]
      BY <1>1, <2>2 DEF Store
    <3>3. QED
      BY <2>1, <3>1, <3>2, <1>4 DEF Faulty, InHand, LeftBehind, status
  <2>3. CASE Blocked(p, "conflict") /\ UNCHANGED rec
    <3>1. pc'[p] = "rollback" /\ resp'[p] = "conflict" /\ todo'[p] = reserved[p]
      BY <1>1, <2>3 DEF Blocked
    <3>2. QED
      BY <2>1, <2>3, <3>1, <1>4 DEF Faulty, InHand, LeftBehind, status
  <2>4. QED
    BY <1>7, <2>2, <2>3 DEF DoReserve
<1>8. CASE DoReserveFails(p)
  <2>1. pc[p] = "reserve" /\ resp[p] = "none" /\ faults' > 0 /\ Blocked(p, "blocked")
    BY <1>5, <1>8 DEF DoReserveFails, Unanswered, DurableOnly
  <2>2. pc'[p] = "rollback" /\ resp'[p] = "blocked" /\ todo'[p] = reserved[p] /\ Item(p)' = Item(p)
        /\ unsaved' = unsaved
    BY <1>1, <2>1 DEF Blocked, Item, requestVars
  <2>3. \A s \in Salts \ {Item(p)} : rec'["do"][s] = rec["do"][s]
    BY <1>1, <1>8 DEF DoReserveFails, Store
  <2>4. QED
    BY <2>1, <2>2, <2>3, <1>4 DEF InHand, LeftBehind, status
<1>9. CASE Forward(p)
  <2>1. pc[p] = "forward" /\ pc'[p] = "await" /\ resp[p] = "none"
        /\ UNCHANGED <<rec, batch, next, reserved, unsaved, resp>>
    BY <1>1, <1>9 DEF Forward, storeVars, requestVars, loopVars, Unanswered
  <2>2. QED
    BY <2>1, <1>4 DEF Faulty, InHand, LeftBehind, status
<1>10. ASSUME NEW to, NEW r \in {"answered", "ambiguous"}, pc[p] = "await", StartRecording(p, to, r)
       PROVE  LeftInv'
  <2>1. pc'[p] = "record" /\ todo'[p] = Range(batch[p]) /\ resp'[p] = r /\ resp[p] = "none"
        /\ UNCHANGED <<rec, reserved, unsaved>>
    BY <1>1, <1>10 DEF StartRecording, storeVars, requestVars, Unanswered
  <2>2. reserved[p] = Range(batch[p])
    BY <1>10 DEF Durable, Progress
  <2>3. QED
    BY <2>1, <2>2, <1>4, <1>10 DEF Faulty, InHand, LeftBehind, status
<1>11. ASSUME NEW s \in Salts, DoUpdateOne(p, s) PROVE LeftInv'
  <2>1. PICK ok \in BOOLEAN :
           DoUpdate(s, Target(p), pc[p] = "rollback", NoTx, ok) /\ Visited(p, s, ok)
    BY <1>11 DEF DoUpdateOne
  <2>2. /\ pc[p] \in {"rollback", "record"} /\ s \in todo[p] /\ status(s) = "submitting"
    BY <1>11 DEF DoUpdateOne, InLoop, Durable, Progress, Untouched
  <2>3. /\ UNCHANGED <<pc, reserved, resp, batch, next>>
        /\ todo'[p] = todo[p] \ {s}
        /\ unsaved'[p] = IF ok THEN unsaved[p] ELSE unsaved[p] \cup {s}
    BY <1>1, <2>1 DEF Visited, requestVars
  <2>4. /\ Target(p) \in {"accepted", "rejected", "ambiguous", "failed"}
        /\ Target(p) = "failed" => pc[p] = "rollback"
    BY <2>2 DEF Target, TypeInv, PostInv, OutcomeKnown, Outcomes
  <2>5. CanUpdate(rec["do"][s], Target(p), pc[p] = "rollback")
    BY <2>2, <2>4 DEF CanUpdate, DoTransitions, status
  <2>6. Target(p) \in KnownStates /\ NoTx \in Txs \cup {NoTx}
    BY <2>4 DEF KnownStates
  <2>7. \A u \in Salts \ {s} : rec'["do"][u] = rec["do"][u]
    BY <2>1, <2>6, DoUpdateEffect
  <2>8. CASE ok
    <3>1. rec'["do"][s] = Updated(rec["do"][s], Target(p), NoTx)
      BY <1>1, <2>1, <2>8 DEF DoUpdate, Store
    <3>2. status(s)' # "submitting"
      BY <2>4, <3>1 DEF Updated, status
    <3>3. QED
      BY <2>2, <2>3, <2>7, <2>8, <3>2, <1>4 DEF Faulty, InHand, LeftBehind, Item, status
  <2>9. CASE ~ok
    <3>1. faults' > 0
      BY <1>5, <2>1, <2>5, <2>9 DEF DoUpdate
    <3>2. s \in unsaved'[p] /\ unsaved[p] \subseteq unsaved'[p]
      BY <2>3, <2>9
    <3>3. QED
      BY <2>2, <2>3, <2>7, <3>1, <3>2, <1>4 DEF InHand, LeftBehind, Item, status
  <2>10. QED
    BY <2>8, <2>9
<1>12. CASE Respond(p)
  <2>1. pc[p] \in {"rollback", "record"} /\ todo[p] = {} /\ pc'[p] = "done"
        /\ UNCHANGED <<rec, unsaved, batch, next>>
        /\ (resp'[p] = "blocked" <=> resp[p] = "blocked")
    BY <1>1, <1>12 DEF Respond, storeVars, requestVars, loopVars
  <2>2. QED
    BY <2>1, <1>4 DEF Faulty, InHand, LeftBehind, Item, status
<1>13. CASE Crash(p)
  <2>1. faults' > 0 /\ pc'[p] = "crashed" /\ UNCHANGED <<rec, reserved, unsaved, resp, batch, next>>
    BY <1>1, <1>5, <1>13 DEF Crash, requestVars, loopVars
  <2>2. pc[p] \in {"rollback", "record"} => todo[p] \subseteq reserved[p]
    BY DEF Durable, Progress
  <2>3. QED
    BY <2>1, <2>2, <1>4 DEF InHand, LeftBehind, Item, status
<1>14. ASSUME CircleAnswered(p) \/ CallFailed(p) PROVE LeftInv'
  BY <1>10, <1>14 DEF CircleAnswered, CallFailed
<1>15. QED
  BY <1>6, <1>7, <1>8, <1>9, <1>11, <1>12, <1>13, <1>14, NoKvStep DEF PostStep, PostFailure

(* A confirmation leaves no operation at 'submitting', and the rest of the world does
   not see the records. *)
LEMMA LeftByOthers ==
    ASSUME DurableOnly, DurableInv, LeftInv,
           (\E c \in Confirms : ConfirmStep(c)) \/ Outside \/ UNCHANGED vars
    PROVE  LeftInv'
<1> USE DEF DurableInv, LeftInv
<1>1. UNCHANGED <<pc, batch, next, reserved, todo, unsaved, resp>>
  BY NoKvStep DEF ConfirmStep, ConfirmRead, ConfirmVerify, ConfirmGiveUp, ConfirmWrite, Outside,
         CircleHandles, Mine, insideVars, postVars, requestVars, loopVars, vars
<1>2. faults \in Nat /\ faults' \in Nat /\ faults <= faults'
  <2>1. faults' = faults \/ faults' = faults + 1
    BY NoKvStep DEF ConfirmStep, ConfirmRead, ReadFrom, ConfirmVerify, ConfirmGiveUp, ConfirmWrite,
           DoUpdate, Fault, Outside, CircleHandles, Mine, insideVars, storeVars, vars
  <2>2. QED
    BY <2>1 DEF TypeInv, StoreTypeOK
<1>3. \A s \in Salts : status(s)' = "submitting" => status(s) = "submitting"
  <2>1. ASSUME NEW c \in Confirms, ConfirmWrite(c), NEW s \in Salts, status(s)' = "submitting"
        PROVE  status(s) = "submitting"
    <3>1. Settlement(conf[c].tx) # "submitting"
      BY DEF Settlement
    <3>2. TypeInv
      OBVIOUS
    <3>3. rec'["do"][s] = rec["do"][s]
          \/ rec'["do"][s] = [status |-> Settlement(conf[c].tx), tx |-> conf[c].tx]
      BY <2>1, <3>2, ConfirmEffect
    <3>4. QED
      BY <2>1, <3>1, <3>3 DEF status
  <2>2. QED
    BY <2>1, NoKvStep DEF ConfirmStep, ConfirmRead, ConfirmVerify, ConfirmGiveUp, Outside,
           CircleHandles, Mine, insideVars, storeVars, vars, status
<1>4. Accounted'
  BY <1>1, <1>3 DEF Accounted, InHand, LeftBehind, Item
<1>5. Marks'
  BY <1>1, <1>2 DEF Marks, Faulty
<1>6. QED
  BY <1>1, <1>4, <1>5 DEF Unanswered

LEMMA LeftNext == ASSUME DurableOnly PROVE DurableInv /\ LeftInv /\ [Next]_vars => LeftInv'
<1>1. SUFFICES ASSUME DurableInv, LeftInv, [Next]_vars PROVE LeftInv'
  OBVIOUS
<1>2. ASSUME NEW p \in Posts, (\E b \in Batches : Receive(p, b)) \/ PostStep(p) \/ PostFailure(p)
      PROVE  LeftInv'
  BY <1>1, <1>2, LeftByPost
<1>3. ASSUME (\E c \in Confirms : ConfirmStep(c)) \/ Outside \/ UNCHANGED vars
      PROVE  LeftInv'
  BY <1>1, <1>3, LeftByOthers
<1>4. ASSUME NEW p \in Posts, NEW b \in Batches, Receive(p, b) PROVE LeftInv'
  BY <1>2, <1>4
<1>5. QED
  BY <1>1, <1>2, <1>3, <1>4 DEF Next

LEMMA LeftAlways == ASSUME DurableOnly PROVE Spec => []LeftInv
<1>1. Init => LeftInv
  BY DEF Init, LeftInv, Accounted, Marks, Faulty, Unanswered, status, NoRecord, Stores
<1>2. DurableInv /\ LeftInv /\ [Next]_vars => LeftInv'
  BY LeftNext
<1>3. QED
  BY <1>1, <1>2, DurableAlways, PTL DEF Spec

(* An operation at 'submitting' is in the hands of a live request, which will store an
   outcome or roll it back, or was left behind in one of three ways; there is no other,
   for any number of requests and failures. *)
THEOREM SubmissionsAccounted == ASSUME DurableOnly PROVE Spec => []Accounted
<1>1. LeftInv => Accounted
  BY DEF LeftInv
<1>2. QED
  BY <1>1, LeftAlways, PTL

(* As long as nothing has failed, it is in the hands of a live request: the safety half
   of SubmissionResolves. *)
SubmissionInHand == faults = 0 => \A s \in Salts :
    status(s) = "submitting" => \E p \in Posts : InHand(p, s)

THEOREM SubmissionsInHand == ASSUME DurableOnly PROVE Spec => []SubmissionInHand
<1>1. LeftInv => SubmissionInHand
  <2>1. SUFFICES ASSUME LeftInv, faults = 0 PROVE \A p \in Posts, s \in Salts : ~LeftBehind(p, s)
    BY DEF LeftInv, Accounted, SubmissionInHand
  <2>2. \A p \in Posts : ~Faulty(p)
    BY <2>1 DEF LeftInv, Marks
  <2>3. QED
    BY <2>2 DEF Faulty, LeftBehind
<1>2. QED
  BY <1>1, LeftAlways, PTL

===============================================================================
