------------------------ MODULE GatewayTransferProofs ------------------------
(***************************************************************************)
(* Theorems about GatewayTransfer for every number of salts, requests,     *)
(* confirmations and transactions, and for any number of failures.         *)
(***************************************************************************)
EXTENDS GatewayTransfer, TLAPS

(* A request that still reserves is at an item of its batch. *)
AtAnItem ==
    \A p \in Posts : pc[p] \in {"reserve", "kvReserve", "kvPut"} =>
        next[p] \in 1..Len(batch[p])

IdleIsEmpty == \A p \in Posts : pc[p] = "idle" => next[p] = 1 /\ reserved[p] = {}

(* A POST that stores an outcome has one; a KV update it has under way is of a
   salt its loop has not left yet. *)
Outcomes == {"accepted", "rejected", "ambiguous"}

OutcomeKnown == \A p \in Posts : pc[p] = "record" => verdict[p] \in Outcomes

HandInLoop ==
    \A p \in Posts : hand[p] # NoHand =>
        ~HasDO /\ pc[p] \in {"rollback", "record"} /\ hand[p].salt \in todo[p]

PostInv == PostTypeOK /\ AtAnItem /\ IdleIsEmpty /\ OutcomeKnown

TypeInv == StoreTypeOK /\ PostInv /\ HandInLoop /\ OutsideTypeOK /\ ConfTypeOK

(* What storing a record does, point by point. *)
LEMMA StoreOne ==
    ASSUME rec \in [Stores -> [Salts -> Records]],
           NEW st \in Stores, NEW s \in Salts, NEW r \in Records,
           Store(st, s, r)
    PROVE  /\ rec' \in [Stores -> [Salts -> Records]]
           /\ rec'[st][s] = r
           /\ \A st2 \in Stores, s2 \in Salts :
                 <<st2, s2>> # <<st, s>> => rec'[st2][s2] = rec[st2][s2]
  BY DEF Store

LEMMA RecordTypes ==
    /\ NoRecord \in Records /\ NewRecord \in Records
    /\ \A r \in Records, to \in KnownStates, tx \in Txs \cup {NoTx} :
          Updated(r, to, tx) \in Records
    /\ {"do", "kv"} = Stores
  BY DEF NoRecord, NewRecord, Records, KnownStates, Updated, Stores

(* Facts about the sequences a client may post or the chain may carry. *)
LEMMA SeqFacts ==
    /\ \A b \in Batches : b \in Seq(Salts) /\ Len(b) \in Nat \ {0} /\ Range(b) \subseteq Salts
    /\ \A g \in MintGroups : /\ g \in Seq(Salts) /\ Range(g) \subseteq Salts
                             /\ Head(g) \in Range(g)
    /\ Len(<<>>) = 0 /\ Range(<<>>) = {}
<1>1. ASSUME NEW b \in Seq(Salts), b # <<>>
      PROVE  Len(b) \in Nat \ {0} /\ Range(b) \subseteq Salts /\ Head(b) \in Range(b)
  BY <1>1 DEF Range
<1>2. Len(<<>>) = 0 /\ Range(<<>>) = {}
  BY DEF Range
<1>3. QED
  BY <1>1, <1>2, GatewayAssumption DEF GatewayAssumption, NonEmptySeqs

LEMMA BatchRange == PostTypeOK => \A p \in Posts : Range(batch[p]) \subseteq Salts
  BY SeqFacts DEF PostTypeOK

-------------------------------------------------------------------------------
(* Types: what each call to a store gives *)

LEMMA UpdateTyped ==
    ASSUME StoreTypeOK, NEW s \in Salts, NEW to \in KnownStates, NEW rb,
           NEW tx \in Txs \cup {NoTx}, NEW ok \in BOOLEAN, DoUpdate(s, to, rb, tx, ok)
    PROVE  rec' \in [Stores -> [Salts -> Records]] /\ faults' \in Nat
<1>1. Updated(rec["do"][s], to, tx) \in Records
  BY RecordTypes DEF StoreTypeOK
<1>2. Store("do", s, Updated(rec["do"][s], to, tx)) => rec' \in [Stores -> [Salts -> Records]]
  BY <1>1, StoreOne, RecordTypes DEF StoreTypeOK
<1>3. QED
  BY <1>2 DEF DoUpdate, Fault, StoreTypeOK

LEMMA KvGetTyped ==
    ASSUME StoreTypeOK, NEW a \in Actors, NEW s \in Salts, NEW to,
           KvUpdateGet(a, s, to) \/ KvUpdateRefused(a, s, to)
    PROVE  StoreTypeOK' /\ \A b \in Actors \ {a} : hand'[b] = hand[b]
<1> DEFINE new == [salt |-> s, old |-> rec["kv"][s]]
<1>1. new \in Hands
  BY RecordTypes DEF StoreTypeOK, Hands
<1>2. hand' = hand \/ hand' = [hand EXCEPT ![a] = new]
  BY DEF KvUpdateGet, KvUpdateRefused
<1>3. rec' = rec /\ faults' \in Nat
  BY DEF KvUpdateGet, KvUpdateRefused, Fault, StoreTypeOK
<1> HIDE DEF new
<1>4. QED
  BY <1>1, <1>2, <1>3 DEF StoreTypeOK

LEMMA KvPutTyped ==
    ASSUME StoreTypeOK, NEW a \in Actors, NEW to \in KnownStates, NEW tx \in Txs \cup {NoTx},
           NEW ok \in BOOLEAN, KvUpdatePut(a, to, tx, ok)
    PROVE  hand[a].salt \in Salts /\ StoreTypeOK' /\ \A b \in Actors \ {a} : hand'[b] = hand[b]
<1>1. hand[a].salt \in Salts /\ hand[a].old \in Records
  BY DEF KvUpdatePut, StoreTypeOK, Hands
<1>2. Updated(hand[a].old, to, tx) \in Records
  BY <1>1, RecordTypes
<1>3. Store("kv", hand[a].salt, Updated(hand[a].old, to, tx)) => rec' \in [Stores -> [Salts -> Records]]
  BY <1>1, <1>2, StoreOne, RecordTypes DEF StoreTypeOK
<1>4. hand' = [hand EXCEPT ![a] = NoHand] /\ NoHand \in Hands
  BY DEF KvUpdatePut, Hands
<1>5. rec' \in [Stores -> [Salts -> Records]] /\ faults' \in Nat
  BY <1>3 DEF KvUpdatePut, Fault, StoreTypeOK
<1>6. QED
  BY <1>1, <1>4, <1>5 DEF StoreTypeOK

-------------------------------------------------------------------------------
(* Type correctness, one lemma for each group of actions *)

LEMMA InitType == Init => TypeInv
<1> SUFFICES ASSUME Init PROVE TypeInv
  OBVIOUS
<1>1. StoreTypeOK /\ HandInLoop
  BY RecordTypes DEF Init, StoreTypeOK, HandInLoop, Hands, Actors
<1>2. PostInv
  BY DEF Init, PostInv, PostTypeOK, AtAnItem, IdleIsEmpty, OutcomeKnown, PostStates, Responses
<1>3. OutsideTypeOK /\ ConfTypeOK
  BY DEF Init, OutsideTypeOK, ConfTypeOK, CircleState
<1>4. QED
  BY <1>1, <1>2, <1>3 DEF TypeInv

LEMMA ReserveStepType ==
    ASSUME TypeInv, NEW p \in Posts,
           DoReserve(p) \/ DoReserveFails(p) \/ KvReserveGet(p) \/ KvReservePut(p) \/ KvReserveFails(p)
    PROVE  TypeInv'
<1>1. pc[p] \in {"reserve", "kvReserve", "kvPut"}
  BY DEF DoReserve, DoReserveFails, KvReserveGet, KvReservePut, KvReserveFails, AtKvReserve
<1>2. /\ Item(p) \in Salts
      /\ next[p] \in Nat \ {0} /\ next[p] + 1 \in Nat \ {0}
      /\ next[p] # Len(batch[p]) => next[p] + 1 \in 1..Len(batch[p])
  BY <1>1, SeqFacts DEF Item, TypeInv, PostInv, PostTypeOK, AtAnItem
<1>3. rec' \in [Stores -> [Salts -> Records]]
  <2>1. \A st \in Stores : Store(st, Item(p), NewRecord) => rec' \in [Stores -> [Salts -> Records]]
    BY <1>2, StoreOne, RecordTypes DEF TypeInv, StoreTypeOK
  <2>2. QED
    BY <2>1, RecordTypes
    DEF DoReserve, DoReserveFails, KvReserveGet, KvReservePut, KvReserveFails, TypeInv, StoreTypeOK
<1>4. faults' \in Nat
  BY DEF DoReserve, DoReserveFails, KvReserveGet, KvReservePut, KvReserveFails, Fault,
         TypeInv, StoreTypeOK
<1>5. \/ Reserved(p)
      \/ \E why \in {"conflict", "blocked"} : Blocked(p, why)
      \/ /\ \E to \in {"kvReserve", "kvPut"} : pc' = [pc EXCEPT ![p] = to]
         /\ UNCHANGED <<requestVars, loopVars, verdict, resp, hand, outsideVars, conf>>
  BY DEF DoReserve, DoReserveFails, KvReserveGet, KvReservePut, KvReserveFails
<1>6. UNCHANGED <<hand, outsideVars, conf>>
  BY <1>5 DEF Reserved, Blocked
<1>7. PostInv'
  <2> USE DEF TypeInv, PostInv, PostTypeOK, AtAnItem, IdleIsEmpty, OutcomeKnown, PostStates
  <2>1. CASE Reserved(p)
    BY <1>1, <1>2, <2>1 DEF Reserved, loopVars
  <2>2. CASE \E why \in {"conflict", "blocked"} : Blocked(p, why)
    BY <1>1, <2>2 DEF Blocked, requestVars, Responses
  <2>3. CASE /\ \E to \in {"kvReserve", "kvPut"} : pc' = [pc EXCEPT ![p] = to]
             /\ UNCHANGED <<requestVars, loopVars, verdict, resp, hand, outsideVars, conf>>
    BY <1>1, <2>3 DEF requestVars, loopVars
  <2>4. QED
    BY <1>5, <2>1, <2>2, <2>3
<1>8. HandInLoop'
  <2>1. \A q \in Posts \ {p} : pc'[q] = pc[q] /\ todo'[q] = todo[q]
    BY <1>5 DEF Reserved, Blocked, loopVars, TypeInv, PostInv, PostTypeOK
  <2>2. QED
    BY <1>1, <1>6, <2>1 DEF TypeInv, HandInLoop
<1>9. (StoreTypeOK /\ OutsideTypeOK /\ ConfTypeOK)'
  BY <1>3, <1>4, <1>6 DEF TypeInv, StoreTypeOK, OutsideTypeOK, ConfTypeOK, outsideVars
<1>10. QED
  BY <1>7, <1>8, <1>9 DEF TypeInv

LEMMA PostStepType ==
    ASSUME TypeInv, NEW p \in Posts,
           \/ \E b \in Batches : Receive(p, b)
           \/ Forward(p) \/ CircleAnswered(p) \/ CallFailed(p) \/ Respond(p) \/ Crash(p)
    PROVE  TypeInv'
<1> USE DEF TypeInv, PostInv
<1>1. /\ UNCHANGED <<rec, conf, attested, chain>> /\ faults' \in Nat
      /\ hand' = hand \/ (hand' = [hand EXCEPT ![p] = NoHand] /\ pc[p] # "idle")
  BY DEF Receive, Forward, CircleAnswered, CallFailed, StartRecording, Respond, Crash, Fault,
         storeVars, outsideVars, StoreTypeOK
<1>2. circle' = circle \/ circle' = [circle EXCEPT ![p] = "sent"]
  BY DEF Receive, Forward, CircleAnswered, CallFailed, StartRecording, Respond, Crash, outsideVars
<1>3. (StoreTypeOK /\ OutsideTypeOK /\ ConfTypeOK)'
  BY <1>1, <1>2 DEF StoreTypeOK, OutsideTypeOK, ConfTypeOK, Hands, Actors, CircleState
<1>4. HandInLoop'
  <2>1. hand'[p] = NoHand
    BY <1>1 DEF Receive, Forward, CircleAnswered, CallFailed, StartRecording, Respond, Crash,
                storeVars, HandInLoop, StoreTypeOK, Actors
  <2>2. \A q \in Posts \ {p} : hand'[q] = hand[q] /\ pc'[q] = pc[q] /\ todo'[q] = todo[q]
    BY <1>1 DEF Receive, Forward, CircleAnswered, CallFailed, StartRecording, Respond, Crash,
                loopVars, PostTypeOK, StoreTypeOK, Actors
  <2>3. QED
    BY <2>1, <2>2 DEF HandInLoop
<1>5. PostInv'
  <2> USE DEF PostTypeOK, AtAnItem, IdleIsEmpty, OutcomeKnown, PostStates, requestVars, loopVars
  <2>1. ASSUME NEW b \in Batches, Receive(p, b) PROVE PostInv'
    BY <2>1, SeqFacts DEF Receive
  <2>2. CASE Forward(p)
    BY <2>2 DEF Forward
  <2>3. CASE CircleAnswered(p) \/ CallFailed(p)
    <3>1. PICK v \in Outcomes, r \in {"answered", "ambiguous"} : StartRecording(p, v, r)
      BY <2>3 DEF CircleAnswered, CallFailed, classifyHttpStatus, Outcomes
    <3>2. pc[p] = "await" /\ Range(batch[p]) \in SUBSET Salts
      BY <2>3, BatchRange DEF CircleAnswered, CallFailed
    <3>3. v \in KnownStates /\ r \in Responses
      BY DEF Outcomes, KnownStates, Responses
    <3>4. QED
      BY <3>1, <3>2, <3>3 DEF StartRecording
  <2>4. CASE Respond(p)
    BY <2>4 DEF Respond, Responses
  <2>5. CASE Crash(p)
    BY <2>5 DEF Crash
  <2>6. QED
    BY <2>1, <2>2, <2>3, <2>4, <2>5
<1>6. QED
  BY <1>3, <1>4, <1>5

(* The status a loop writes is a known one. *)
LEMMA TargetKnown ==
    ASSUME OutcomeKnown, NEW p \in Posts, pc[p] \in {"rollback", "record"}
    PROVE  Target(p) \in KnownStates
  BY DEF Target, OutcomeKnown, Outcomes, KnownStates

LEMMA LoopStepType ==
    ASSUME TypeInv, NEW p \in Posts,
           \/ \E s \in Salts : DoUpdateOne(p, s) \/ KvUpdateOneGet(p, s)
           \/ KvUpdateOnePut(p)
    PROVE  TypeInv'
<1>1. pc[p] \in {"rollback", "record"} /\ p \in Actors /\ StoreTypeOK
  BY DEF DoUpdateOne, KvUpdateOneGet, KvUpdateOnePut, KvUpdatePut, InLoop, TypeInv, HandInLoop,
         Actors
<1>2. Target(p) \in KnownStates
  BY <1>1, TargetKnown DEF TypeInv, PostInv
<1>3. ASSUME StoreTypeOK', \A b \in Actors \ {p} : hand'[b] = hand[b],
             UNCHANGED <<pc, requestVars, verdict, resp, outsideVars, conf>>,
             todo' \in [Posts -> SUBSET Salts], unsaved' \in [Posts -> SUBSET Salts],
             \A q \in Posts \ {p} : todo'[q] = todo[q],
             hand'[p] # NoHand => ~HasDO /\ hand'[p].salt \in todo'[p]
      PROVE  TypeInv'
  <2>1. HandInLoop'
    BY <1>1, <1>3 DEF TypeInv, HandInLoop, Actors
  <2>2. PostInv'
    BY <1>3 DEF TypeInv, PostInv, PostTypeOK, AtAnItem, IdleIsEmpty, OutcomeKnown, requestVars
  <2>3. (OutsideTypeOK /\ ConfTypeOK)'
    BY <1>3 DEF TypeInv, OutsideTypeOK, ConfTypeOK, outsideVars
  <2>4. QED
    BY <1>3, <2>1, <2>2, <2>3 DEF TypeInv
<1>4. ASSUME NEW s \in Salts, NEW ok \in BOOLEAN, Visited(p, s, ok)
      PROVE  /\ UNCHANGED <<pc, requestVars, verdict, resp, outsideVars, conf>>
             /\ todo' \in [Posts -> SUBSET Salts] /\ unsaved' \in [Posts -> SUBSET Salts]
             /\ \A q \in Posts \ {p} : todo'[q] = todo[q]
  BY <1>4 DEF Visited, TypeInv, PostInv, PostTypeOK
<1>5. ASSUME NEW s \in Salts, DoUpdateOne(p, s) PROVE TypeInv'
  <2>1. PICK ok \in BOOLEAN :
           DoUpdate(s, Target(p), pc[p] = "rollback", NoTx, ok) /\ Visited(p, s, ok)
    BY <1>5 DEF DoUpdateOne
  <2>2. rec' \in [Stores -> [Salts -> Records]] /\ faults' \in Nat
    BY <1>1, <1>2, <2>1, UpdateTyped
  <2>3. hand' = hand /\ hand[p] = NoHand
    BY <1>5, <2>1 DEF DoUpdateOne, DoUpdate, TypeInv, HandInLoop
  <2>4. StoreTypeOK'
    BY <1>1, <2>2, <2>3 DEF StoreTypeOK
  <2>5. QED
    BY <1>3, <1>4, <2>1, <2>3, <2>4
<1>6. ASSUME NEW s \in Salts, KvUpdateOneGet(p, s) PROVE TypeInv'
  <2>1. StoreTypeOK' /\ \A b \in Actors \ {p} : hand'[b] = hand[b]
    BY <1>1, <1>6, KvGetTyped DEF KvUpdateOneGet
  <2>2. CASE KvUpdateRefused(p, s, Target(p)) /\ Visited(p, s, FALSE)
    <3>1. hand'[p] = NoHand
      BY <2>2 DEF KvUpdateRefused
    <3>2. QED
      BY <1>3, <1>4, <2>1, <2>2, <3>1
  <2>3. CASE /\ KvUpdateGet(p, s, Target(p))
             /\ UNCHANGED <<pc, requestVars, loopVars, verdict, resp, outsideVars, conf>>
    <3>3. ~HasDO /\ hand'[p].salt \in todo'[p]
      BY <1>1, <1>6, <2>3 DEF KvUpdateOneGet, InLoop, KvUpdateGet, loopVars, StoreTypeOK
    <3>4. \A q \in Posts \ {p} : todo'[q] = todo[q]
      BY <2>3 DEF loopVars
    <3>1. todo' \in [Posts -> SUBSET Salts] /\ unsaved' \in [Posts -> SUBSET Salts]
      BY <2>3 DEF loopVars, TypeInv, PostInv, PostTypeOK
    <3>2. QED
      BY <1>3, <2>1, <2>3, <3>1, <3>3, <3>4
  <2>4. QED
    BY <1>6, <2>2, <2>3 DEF KvUpdateOneGet
<1>7. CASE KvUpdateOnePut(p)
  <2>1. PICK ok \in BOOLEAN : KvUpdatePut(p, Target(p), NoTx, ok) /\ Visited(p, hand[p].salt, ok)
    BY <1>7 DEF KvUpdateOnePut
  <2>2. /\ hand[p].salt \in Salts /\ StoreTypeOK'
        /\ \A b \in Actors \ {p} : hand'[b] = hand[b]
    BY <1>1, <1>2, <2>1, KvPutTyped
  <2>3. hand'[p] = NoHand
    BY <1>1, <2>1 DEF KvUpdatePut, StoreTypeOK
  <2>4. QED
    BY <1>3, <1>4, <2>1, <2>2, <2>3
<1>8. QED
  BY <1>5, <1>6, <1>7

LEMMA ConfirmStepType ==
    ASSUME TypeInv, NEW c \in Confirms, ConfirmStep(c)
    PROVE  TypeInv'
<1>1. /\ \A t : Settlement(t) \in KnownStates
      /\ c \in Actors /\ c \notin Posts /\ StoreTypeOK
      /\ conf[c].step \in {"verify", "write"} => conf[c].salt \in Salts /\ conf[c].tx \in Txs
  BY GatewayAssumption
  DEF GatewayAssumption, Actors, Settlement, KnownStates, TypeInv, ConfTypeOK, Idle
<1>2. UNCHANGED <<postVars, outsideVars>>
  BY DEF ConfirmStep, ConfirmRead, ConfirmVerify, ConfirmGiveUp, ConfirmWrite, ConfirmKvGet,
         ConfirmKvPut
<1>3. (PostInv /\ OutsideTypeOK)'
  BY <1>2 DEF TypeInv, PostInv, PostTypeOK, AtAnItem, IdleIsEmpty, OutcomeKnown, OutsideTypeOK,
              postVars, loopVars, requestVars, outsideVars
<1>4. ConfTypeOK'
  <2>1. ASSUME NEW s \in Salts, NEW t \in Txs, ConfirmRead(c, s, t) PROVE ConfTypeOK'
    BY <2>1 DEF ConfirmRead, Confirming, TypeInv, ConfTypeOK
  <2>2. CASE ConfirmVerify(c)
    BY <1>1, <2>2 DEF ConfirmVerify, Confirming, TypeInv, ConfTypeOK
  <2>3. CASE conf' = conf \/ conf' = [conf EXCEPT ![c] = Idle]
    BY <2>3 DEF TypeInv, ConfTypeOK
  <2>4. QED
    BY <2>1, <2>2, <2>3 DEF ConfirmStep, ConfirmGiveUp, ConfirmWrite, ConfirmKvGet, ConfirmKvPut
<1>5. StoreTypeOK' /\ \A b \in Actors \ {c} : hand'[b] = hand[b]
  <2>1. ASSUME NEW s \in Salts, NEW t \in Txs, ConfirmRead(c, s, t)
        PROVE  StoreTypeOK' /\ \A b \in Actors \ {c} : hand'[b] = hand[b]
    BY <1>1, <2>1 DEF ConfirmRead, ReadFrom, Fault, StoreTypeOK
  <2>2. CASE ConfirmVerify(c)
    BY <1>1, <2>2 DEF ConfirmVerify, storeVars, StoreTypeOK
  <2>3. CASE ConfirmGiveUp(c)
    BY <1>1, <2>3 DEF ConfirmGiveUp, StoreTypeOK, Hands
  <2>4. CASE ConfirmWrite(c)
    <3>1. PICK ok \in BOOLEAN :
             DoUpdate(conf[c].salt, Settlement(conf[c].tx), FALSE, conf[c].tx, ok)
      BY <2>4 DEF ConfirmWrite
    <3>2. conf[c].salt \in Salts /\ conf[c].tx \in Txs \cup {NoTx} /\ hand' = hand
      BY <1>1, <2>4 DEF ConfirmWrite
    <3>3. rec' \in [Stores -> [Salts -> Records]] /\ faults' \in Nat
      BY <1>1, <3>1, <3>2, UpdateTyped
    <3>4. QED
      BY <1>1, <3>2, <3>3 DEF StoreTypeOK
  <2>5. CASE ConfirmKvGet(c)
    BY <1>1, <2>5, KvGetTyped DEF ConfirmKvGet
  <2>6. CASE ConfirmKvPut(c)
    BY <1>1, <2>6, KvPutTyped DEF ConfirmKvPut
  <2>7. QED
    BY <2>1, <2>2, <2>3, <2>4, <2>5, <2>6 DEF ConfirmStep
<1>6. HandInLoop'
  BY <1>1, <1>2, <1>5 DEF TypeInv, HandInLoop, postVars, loopVars, Actors
<1>7. QED
  BY <1>3, <1>4, <1>5, <1>6 DEF TypeInv

LEMMA OutsideStepType == ASSUME TypeInv, Outside PROVE TypeInv'
<1>1. UNCHANGED insideVars
  BY DEF Outside, CircleHandles, Mine
<1>2. (StoreTypeOK /\ PostInv /\ HandInLoop /\ ConfTypeOK)'
  BY <1>1 DEF insideVars, postVars, storeVars, loopVars, requestVars, TypeInv, StoreTypeOK,
              PostInv, PostTypeOK, AtAnItem, IdleIsEmpty, OutcomeKnown, HandInLoop, ConfTypeOK
<1>3. ASSUME NEW p \in Posts, NEW code \in Codes, CircleHandles(p, code) PROVE OutsideTypeOK'
  <2>1. Range(batch[p]) \subseteq Salts
    BY BatchRange DEF TypeInv, PostInv
  <2>2. QED
    BY <1>3, <2>1 DEF CircleHandles, TypeInv, OutsideTypeOK, CircleState
<1>4. ASSUME NEW t \in Txs, NEW g \in MintGroups, NEW ok \in BOOLEAN, Mine(t, g, ok)
      PROVE  OutsideTypeOK'
  BY <1>4 DEF Mine, TypeInv, OutsideTypeOK
<1>5. QED
  BY <1>2, <1>3, <1>4 DEF Outside, TypeInv

LEMMA NextType == TypeInv /\ [Next]_vars => TypeInv'
<1> SUFFICES ASSUME TypeInv, [Next]_vars PROVE TypeInv'
  OBVIOUS
<1>1. ASSUME NEW p \in Posts, NEW b \in Batches, Receive(p, b) PROVE TypeInv'
  BY <1>1, PostStepType
<1>2. ASSUME NEW p \in Posts, PostStep(p) PROVE TypeInv'
  BY <1>2, ReserveStepType, PostStepType, LoopStepType DEF PostStep
<1>3. ASSUME NEW p \in Posts, PostFailure(p) PROVE TypeInv'
  BY <1>3, ReserveStepType, PostStepType DEF PostFailure
<1>4. CASE UNCHANGED vars
  BY <1>4 DEF vars, TypeInv, StoreTypeOK, PostInv, PostTypeOK, AtAnItem, IdleIsEmpty,
              OutcomeKnown, HandInLoop, OutsideTypeOK, ConfTypeOK
<1>5. QED
  BY <1>1, <1>2, <1>3, <1>4, ConfirmStepType, OutsideStepType DEF Next

(* Every variable keeps its type, in every deployment and with any number of
   failures. *)
THEOREM TypeCorrect == Spec => []TypeOK
<1>1. TypeInv => TypeOK
  BY DEF TypeInv, PostInv, TypeOK
<1>2. QED
  BY <1>1, InitType, NextType, PTL DEF Spec
===============================================================================
