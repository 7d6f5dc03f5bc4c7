------------------------- MODULE GatewaySpendProofs -------------------------
(***************************************************************************)
(* Theorems about GatewaySpend for any number of executions and reloads.   *)
(*                                                                         *)
(* The argument for OneSubmission: until the entry is taken from it, a     *)
(* running execution holds it (Holds), in the state its progress says      *)
(* (Entry), and leaves it behind only when it is ambiguous (Left).  Two    *)
(* open submissions would both hold the one entry.                         *)
(*                                                                         *)
(* The argument for AnswerIsTrue: execute() says ok only of a transaction  *)
(* of its own that succeeded, which it sent for an accepted operation, and *)
(* until it posts the endpoint knows nothing of its salt (Told).           *)
(***************************************************************************)
EXTENDS GatewaySpend, TLAPS

BeforeAnswer == {"balance", "signature", "query", "post"}
AfterAnswer  == {"mint", "receipt", "confirm"}

Ended == \A e \in Salts : outcome[e] # "none" <=> step[e] = "ended"

Holds == \A e \in Salts : Running(e) => lock.salt = e

Entry ==
    \A e \in Salts :
        /\ step[e] \in BeforeAnswer => ~lock.submitted /\ ~lock.error
        /\ step[e] \in AfterAnswer => lock.submitted /\ ~lock.error

Left ==
    /\ \A e \in Salts \ resolved : outcome[e] = "ambiguous" => lock.salt = e
    /\ lock # NoLock => Running(lock.salt) \/ outcome[lock.salt] = "ambiguous"

Posted ==
    /\ \A e \in posted : Running(e) \/ outcome[e] \in {"ok", "ambiguous", "failed"}
    /\ \A e \in Salts : step[e] \in {"new", "balance", "signature", "query"} => e \notin posted

LockInv == ~dropped => Holds /\ Entry /\ Left /\ Posted

Told ==
    \A e \in Salts :
        /\ step[e] \in {"new", "balance", "signature", "query"} => e \notin posted
        /\ outcome[e] = "refused" => step[e] = "ended" /\ e \notin posted
        /\ e \notin posted => status[e] = "none" /\ e \notin sent
        /\ tx[e] = "success" => e \in minted
        /\ outcome[e] = "ok" => step[e] = "ended" /\ tx[e] = "success"
        /\ step[e] \in AfterAnswer \/ outcome[e] = "ok"
                => status[e] \in {"accepted", "confirmed", "failed"}

-------------------------------------------------------------------------------
(* Type correctness *)

(* Catch and Finally leave an entry or none. *)
LEMMA EntryOrNone ==
    ASSUME NEW l \in Locks, NEW b \in BOOLEAN
    PROVE  Catch(l, b) \in Locks /\ Finally(l) \in Locks
BY DEF Catch, Finally, Locks, NoLock

LEMMA ThrowType ==
    ASSUME TypeOK, NEW e \in Salts, NEW how \in Outcomes, NEW l \in Locks, Throw(e, how, l)
    PROVE  lock' \in Locks /\ step' \in [Salts -> Steps] /\ outcome' \in [Salts -> Outcomes]
<1>1. Catch(l, how # "refused") \in Locks  BY EntryOrNone
<1>2. QED  BY <1>1, EntryOrNone DEF Throw, Return, TypeOK, Steps

LEMMA GotoType ==
    ASSUME TypeOK, NEW e \in Salts, NEW s \in Steps, Goto(e, s)
    PROVE  step' \in [Salts -> Steps] /\ outcome' \in [Salts -> Outcomes]
BY DEF Goto, TypeOK

(* Writing to an entry that is there. *)
LEMMA WriteType ==
    ASSUME TypeOK, NEW b \in BOOLEAN
    PROVE  /\ lock # NoLock => [lock EXCEPT !.error = b] \in Locks
           /\ Marked(b) \in Locks
BY DEF TypeOK, Locks, Marked, NoLock

LEMMA TypeStep == TypeOK /\ [Next]_vars => TypeOK'
<1> SUFFICES ASSUME TypeOK, [Next]_vars PROVE TypeOK'
  OBVIOUS
<1> USE SpendAssumption
<1>1. ASSUME NEW e \in Salts, Start(e) PROVE TypeOK'
  <2>1. lock' \in Locks  BY <1>1 DEF Start, Locks
  <2>2. QED  BY <1>1, <2>1, GotoType DEF Start, TypeOK, Steps, server, calls, user
<1>2. ASSUME NEW e \in Salts, NEW from, NEW to \in Steps, Advance(e, from, to) PROVE TypeOK'
  <2>1. CASE lock # NoLock /\ lock' = [lock EXCEPT !.error = FALSE] /\ Goto(e, to)
    BY <1>2, <2>1, GotoType, WriteType DEF Advance, TypeOK, server, calls, user
  <2>2. CASE Throw(e, "refused", lock)
    <3>1. lock \in Locks /\ "refused" \in Outcomes  BY DEF TypeOK, Outcomes
    <3>2. QED  BY <1>2, <2>2, <3>1, ThrowType DEF Advance, TypeOK, server, calls, user
  <2>3. QED  BY <1>2, <2>1, <2>2 DEF Advance
<1>3. ASSUME NEW e \in Salts, Queried(e) PROVE TypeOK'
  <2>1. CASE posted' = posted \cup {e} /\ Goto(e, "post") /\ UNCHANGED lock
    BY <1>3, <2>1, GotoType DEF Queried, TypeOK, Steps, server, user
  <2>2. CASE Throw(e, "refused", lock) /\ UNCHANGED posted
    <3>1. lock \in Locks /\ "refused" \in Outcomes  BY DEF TypeOK, Outcomes
    <3>2. QED  BY <1>3, <2>2, <3>1, ThrowType DEF Queried, TypeOK, server, user
  <2>3. QED  BY <1>3, <2>1, <2>2 DEF Queried
<1>4. ASSUME NEW e \in Salts, PostFailed(e) PROVE TypeOK'
  <2>1. Marked(TRUE) \in Locks  BY WriteType
  <2>2. (IF lock = NoLock THEN "failed" ELSE "ambiguous") \in Outcomes  BY DEF Outcomes
  <2>3. QED  BY <1>4, <2>1, <2>2, ThrowType DEF PostFailed, TypeOK, server, calls, user
<1>5. ASSUME NEW e \in Salts, PostAnswered(e) PROVE TypeOK'
  <2>1. Marked(FALSE) \in Locks /\ "failed" \in Outcomes  BY WriteType DEF Outcomes
  <2>2. CASE lock # NoLock /\ lock' = Marked(FALSE) /\ Goto(e, "mint")
    BY <1>5, <2>1, <2>2, GotoType DEF PostAnswered, TypeOK, Steps, server, calls, user
  <2>3. CASE Throw(e, "failed", Marked(FALSE))
    BY <1>5, <2>1, <2>3, ThrowType DEF PostAnswered, TypeOK, server, calls, user
  <2>4. QED  BY <1>5, <2>2, <2>3 DEF PostAnswered
<1>6. ASSUME NEW e \in Salts, MintSent(e) PROVE TypeOK'
  <2>1. lock \in Locks /\ "failed" \in Outcomes  BY DEF TypeOK, Outcomes
  <2>2. tx' \in [Salts -> TxStates]  BY <1>6 DEF MintSent, TypeOK, TxStates
  <2>3. lock' \in Locks /\ step' \in [Salts -> Steps] /\ outcome' \in [Salts -> Outcomes]
    <3>1. CASE Goto(e, "receipt") /\ UNCHANGED lock  BY <2>1, <3>1, GotoType DEF Steps
    <3>2. CASE Throw(e, "failed", lock)  BY <2>1, <3>2, ThrowType
    <3>3. QED  BY <1>6, <3>1, <3>2 DEF MintSent
  <2>4. QED  BY <1>6, <2>2, <2>3 DEF MintSent, TypeOK, server, user
<1>7. ASSUME NEW e \in Salts, ReceiptSeen(e) PROVE TypeOK'
  <2>1. lock \in Locks /\ "failed" \in Outcomes  BY DEF TypeOK, Outcomes
  <2>2. lock' \in Locks /\ step' \in [Salts -> Steps] /\ outcome' \in [Salts -> Outcomes]
    <3>1. CASE Goto(e, "confirm") /\ UNCHANGED lock  BY <2>1, <3>1, GotoType DEF Steps
    <3>2. CASE Throw(e, "failed", lock)  BY <2>1, <3>2, ThrowType
    <3>3. QED  BY <1>7, <3>1, <3>2 DEF ReceiptSeen
  <2>3. QED  BY <1>7, <2>2 DEF ReceiptSeen, TypeOK, server, calls, user
<1>8. ASSUME NEW e \in Salts, ConfirmAnswered(e) PROVE TypeOK'
  <2>1. lock \in Locks /\ "failed" \in Outcomes /\ "ok" \in Outcomes  BY DEF TypeOK, Outcomes
  <2>2. lock' \in Locks /\ step' \in [Salts -> Steps] /\ outcome' \in [Salts -> Outcomes]
    <3>1. CASE Return(e, "ok", lock)
      BY <2>1, <3>1, EntryOrNone DEF Return, TypeOK, Steps
    <3>2. CASE Throw(e, "failed", lock)  BY <2>1, <3>2, ThrowType
    <3>3. QED  BY <1>8, <3>1, <3>2 DEF ConfirmAnswered
  <2>3. QED  BY <1>8, <2>2 DEF ConfirmAnswered, TypeOK, server, calls, user
<1>9. ASSUME NEW e \in Salts, Serve(e) \/ MintElsewhere(e) PROVE TypeOK'
  <2>1. /\ status' \in [Salts -> Op!Statuses] /\ sent' \subseteq Salts
        /\ attested' \subseteq Salts /\ minted' \subseteq Salts
    BY <1>9 DEF Serve, MintElsewhere, TypeOK, Op!Mint, Op!Reserve, Op!GiveUp, Op!Submit,
       Op!Attest, Op!Accepted, Op!Rejected, Op!Ambiguous, Op!Confirmed, Op!Failed, Op!Become, Op!Statuses
  <2>2. QED  BY <1>9, <2>1 DEF Serve, MintElsewhere, TypeOK, calls, user
<1>10. ASSUME NEW e \in Salts, MineMint(e) PROVE TypeOK'
  <2>1. tx' \in [Salts -> TxStates]  BY <1>10 DEF MineMint, TypeOK, TxStates
  <2>2. status' = status /\ sent' = sent /\ attested' = attested /\ minted' \subseteq Salts
    BY <1>10 DEF MineMint, TypeOK, Op!Mint, server
  <2>3. QED  BY <1>10, <2>1, <2>2 DEF MineMint, TypeOK, user
<1>11. ASSUME Cancel PROVE TypeOK'
  BY <1>11 DEF Cancel, TypeOK, Locks, server, calls
<1>12. ASSUME ResolveAmbiguous PROVE TypeOK'
  <2>1. lock.salt \in Salts  BY <1>12 DEF ResolveAmbiguous, TypeOK, Locks, NoLock
  <2>2. dropped' \in BOOLEAN  BY <1>12 DEF ResolveAmbiguous, TypeOK
  <2>3. QED  BY <1>12, <2>1, <2>2 DEF ResolveAmbiguous, TypeOK, Locks, server, calls
<1>13. ASSUME Reload PROVE TypeOK'
  BY <1>13 DEF Reload, TypeOK, Locks, Steps, Outcomes, server, calls
<1>14. ASSUME UNCHANGED vars PROVE TypeOK'
  BY <1>14 DEF TypeOK, vars, server, calls, user
<1>15. QED
  <2>1. ASSUME NEW e \in Salts, BalanceRead(e) \/ Signed(e) PROVE TypeOK'
    BY <1>2, <2>1 DEF BalanceRead, Signed, Steps
  <2>2. QED
    BY <1>1, <1>3, <1>4, <1>5, <1>6, <1>7, <1>8, <1>9, <1>10, <1>11, <1>12, <1>13, <1>14, <2>1
       DEF Next

(* The tab, the endpoint and the chain are well typed in every reachable
   state. *)
THEOREM TypeCorrect == Spec => []TypeOK
<1>1. Init => TypeOK
  <2> SUFFICES ASSUME Init PROVE TypeOK
    OBVIOUS
  <2>1. status \in [Salts -> Op!Statuses] /\ sent = {} /\ attested = {} /\ minted = {}
    BY DEF Init, Op!Init, Op!Statuses
  <2>2. reloads \in 0..MaxReloads
    BY SpendAssumption DEF SpendAssumption, Init
  <2>3. QED
    BY <2>1, <2>2 DEF Init, TypeOK, Locks, Steps, Outcomes, TxStates
<1>2. QED
  BY <1>1, TypeStep, PTL DEF Spec

-------------------------------------------------------------------------------
(* One open submission *)

(* An execution has an outcome when it has ended, and only then. *)
LEMMA EndedStep == TypeOK /\ Ended /\ [Next]_vars => Ended'
<1> SUFFICES ASSUME TypeOK, Ended, [Next]_vars PROVE Ended'
  OBVIOUS
<1>1. ASSUME NEW e \in Salts, NEW s \in Steps \ {"ended"}, step[e] # "ended", Goto(e, s)
      PROVE  Ended'
  BY <1>1 DEF Goto, Ended, TypeOK
<1>2. ASSUME NEW e \in Salts, NEW how \in Outcomes \ {"none"}, NEW l, Return(e, how, l)
      PROVE  Ended'
  BY <1>2 DEF Return, Ended, TypeOK
<1>3. ASSUME NEW e \in Salts, NEW how \in Outcomes \ {"none"}, NEW l, Throw(e, how, l)
      PROVE  Ended'
  BY <1>2, <1>3 DEF Throw
<1>4. ASSUME NEW e \in Salts,
             \/ Start(e) \/ BalanceRead(e) \/ Signed(e) \/ Queried(e) \/ PostFailed(e)
             \/ PostAnswered(e) \/ MintSent(e) \/ ReceiptSeen(e) \/ ConfirmAnswered(e)
      PROVE  Ended'
  <2> DEFINE Goes == \E s \in Steps \ {"ended"} : step[e] # "ended" /\ Goto(e, s)
             Ends == \E how \in Outcomes \ {"none"}, l \in {lock, Marked(TRUE), Marked(FALSE)} :
                        Return(e, how, l) \/ Throw(e, how, l)
  <2>1. CASE Goes  BY <1>1, <2>1
  <2>2. CASE Ends  BY <1>2, <1>3, <2>2
  <2>3. Start(e) \/ BalanceRead(e) \/ Signed(e) => Goes \/ Ends
    BY DEF Start, BalanceRead, Signed, Advance, Steps, Outcomes
  <2>4. Queried(e) \/ PostFailed(e) \/ PostAnswered(e) => Goes \/ Ends
    BY DEF Queried, PostFailed, PostAnswered, Steps, Outcomes
  <2>5. MintSent(e) \/ ReceiptSeen(e) \/ ConfirmAnswered(e) => Goes \/ Ends
    BY DEF MintSent, ReceiptSeen, ConfirmAnswered, Steps, Outcomes
  <2>6. QED  BY <1>4, <2>1, <2>2, <2>3, <2>4, <2>5
<1>5. CASE Reload
  BY <1>5 DEF Reload, Ended, Running, TypeOK
<1>6. CASE UNCHANGED <<step, outcome>>
  BY <1>6 DEF Ended
<1>7. QED
  BY <1>4, <1>5, <1>6 DEF Next, Serve, MineMint, MintElsewhere, Cancel, ResolveAmbiguous, vars

(* An execution that holds the entry, and goes on with it. *)
LEMMA GoesOn ==
    ASSUME TypeOK, Ended, Holds, Entry, Left, Posted,
           NEW e \in Salts, step[e] # "ended", lock.salt = e \/ lock = NoLock,
           NEW s \in BeforeAnswer \cup AfterAnswer, Goto(e, s),
           lock' \in Locks, lock'.salt = e,
           s \in BeforeAnswer => ~lock'.submitted /\ ~lock'.error,
           s \in AfterAnswer => lock'.submitted /\ ~lock'.error,
           s \in {"balance", "signature", "query"} => posted' = posted /\ e \notin posted,
           posted' \in {posted, posted \cup {e}},
           resolved' = resolved
    PROVE  LockInv'
<1>1. \A f \in Salts : step'[f] = (IF f = e THEN s ELSE step[f]) /\ outcome'[f] = outcome[f]
  BY DEF Goto, TypeOK
<1>2. s \notin {"new", "ended"} /\ e # NoSalt
  BY SpendAssumption DEF SpendAssumption, BeforeAnswer, AfterAnswer
<1>3. Running(e)' /\ \A f \in Salts \ {e} : (Running(f)' <=> Running(f)) /\ ~Running(f)
  BY <1>1, <1>2, SpendAssumption DEF SpendAssumption, Running, Holds, NoLock
<1>4. Holds'  BY <1>3 DEF Holds
<1>5. Entry'
  BY <1>1, <1>3 DEF Entry, Running, BeforeAnswer, AfterAnswer
<1>6. outcome[e] = "none"  BY DEF Ended
<1>7. \A f \in Salts \ resolved : outcome[f] # "ambiguous"
  BY <1>6, SpendAssumption DEF SpendAssumption, Left, NoLock
<1>8. Left'
  BY <1>1, <1>3, <1>7 DEF Left
<1>9. Posted'
  <2>1. posted \subseteq Salts  BY DEF TypeOK
  <2>2. \A f \in posted' : Running(f)' \/ outcome'[f] \in {"ok", "ambiguous", "failed"}
    BY <1>1, <1>3, <2>1 DEF Posted
  <2>3. \A f \in Salts : step'[f] \in {"new", "balance", "signature", "query"} => f \notin posted'
    BY <1>1, <1>2 DEF Posted
  <2>4. QED  BY <2>2, <2>3 DEF Posted
<1>10. QED  BY <1>4, <1>5, <1>8, <1>9 DEF LockInv

(* One that holds the entry and leaves nothing of it behind. *)
LEMMA LeavesNothing ==
    ASSUME TypeOK, Ended, Holds, Entry, Left, Posted,
           NEW e \in Salts, Running(e), lock' = NoLock,
           NEW how \in {"ok", "refused", "failed"},
           step' = [step EXCEPT ![e] = "ended"], outcome' = [outcome EXCEPT ![e] = how],
           how = "refused" => e \notin posted,
           posted' = posted, resolved' = resolved
    PROVE  LockInv'
<1>1. /\ \A f \in Salts : step'[f] = IF f = e THEN "ended" ELSE step[f]
      /\ \A f \in Salts : outcome'[f] = IF f = e THEN how ELSE outcome[f]
  BY DEF TypeOK
<1>2. lock.salt = e  BY DEF Holds
<1>3. \A f \in Salts : ~Running(f)'
  BY <1>1, <1>2 DEF Running, Holds
<1>4. Holds' /\ Entry'
  BY <1>3 DEF Holds, Entry, Running, BeforeAnswer, AfterAnswer
<1>5. outcome[e] = "none"  BY DEF Ended, Running
<1>6. \A f \in Salts \ resolved : outcome'[f] # "ambiguous"
  BY <1>1, <1>2, <1>5 DEF Left
<1>7. Left'  BY <1>6 DEF Left, NoLock
<1>8. \A f \in Salts \ {e} : ~Running(f)  BY <1>2 DEF Holds
<1>9. Posted'
  BY <1>1, <1>8 DEF Posted, TypeOK
<1>10. QED  BY <1>4, <1>7, <1>9 DEF LockInv

(* What is left of the entry when an execution throws. *)
LEMMA Thrown ==
    ASSUME NEW l \in Locks
    PROVE  /\ Finally(Catch(l, FALSE)) = NoLock
           /\ l.submitted /\ l.error => Finally(Catch(l, TRUE)) = l
BY DEF Catch, Finally, NoLock, Locks

LEMMA LockInvStep == TypeOK /\ Ended /\ LockInv /\ [Next]_vars => LockInv'
<1> SUFFICES ASSUME TypeOK, Ended, LockInv, [Next]_vars, ~dropped' PROVE LockInv'
  BY DEF LockInv
<1> DEFINE Inv == Holds /\ Entry /\ Left /\ Posted
<1>1. ASSUME NEW e \in Salts, Inv, Start(e) PROVE LockInv'
  <2>1. e \notin posted /\ step[e] # "ended"  BY <1>1 DEF Start, Posted
  <2>2. lock' \in Locks /\ lock'.salt = e /\ ~lock'.submitted /\ ~lock'.error
    BY <1>1 DEF Start, Locks
  <2>3. QED
    BY <1>1, <2>1, <2>2, GoesOn DEF Start, BeforeAnswer, AfterAnswer, calls, user
<1>2. ASSUME NEW e \in Salts, Running(e), e \notin posted, Inv, Throw(e, "refused", lock),
             UNCHANGED <<posted, resolved>>
      PROVE  LockInv'
  <2>1. lock' = NoLock  BY <1>2, Thrown DEF Throw, Return, TypeOK
  <2>2. QED  BY <1>2, <2>1, LeavesNothing DEF Throw, Return
<1>3. ASSUME NEW e \in Salts, Running(e), Inv, NEW how \in {"ok", "failed"},
             NEW l \in Locks, l.submitted, ~l.error, Throw(e, how, l) \/ Return(e, how, l),
             UNCHANGED <<posted, resolved>>
      PROVE  LockInv'
  <2>1. (how # "refused") = TRUE  OBVIOUS
  <2>2. lock' = Finally(Catch(l, TRUE)) \/ lock' = Finally(l)
    BY <1>3, <2>1 DEF Throw, Return
  <2>3. lock' = NoLock  BY <1>3, <2>2 DEF Catch, Finally
  <2>4. QED  BY <1>3, <2>3, LeavesNothing DEF Throw, Return
<1>4. ASSUME NEW e \in Salts, NEW from \in {"balance", "signature"},
             NEW to \in {"signature", "query"}, Inv, Advance(e, from, to)
      PROVE  LockInv'
  <2>1. Running(e) /\ e \notin posted /\ step[e] = from
    BY <1>4 DEF Advance, Running, Posted
  <2>2. lock.salt = e /\ ~lock.submitted  BY <1>4, <2>1 DEF Holds, Entry, BeforeAnswer
  <2>3. ASSUME lock # NoLock, lock' = [lock EXCEPT !.error = FALSE], Goto(e, to) PROVE LockInv'
    <3>1. lock' \in Locks /\ lock'.salt = e /\ ~lock'.submitted /\ ~lock'.error
      BY <2>2, <2>3 DEF TypeOK, Locks, NoLock
    <3>2. QED
      BY <1>4, <2>1, <2>2, <2>3, <3>1, GoesOn
         DEF Advance, Running, BeforeAnswer, AfterAnswer, calls, user
  <2>4. CASE Throw(e, "refused", lock)
    BY <1>2, <1>4, <2>1, <2>4 DEF Advance, calls, user
  <2>5. QED  BY <1>4, <2>3, <2>4 DEF Advance
<1>5. ASSUME NEW e \in Salts, Inv, Queried(e) PROVE LockInv'
  <2>1. Running(e) /\ e \notin posted  BY <1>5 DEF Queried, Running, Posted
  <2>2. lock \in Locks /\ lock.salt = e /\ ~lock.submitted /\ ~lock.error
    BY <1>5, <2>1 DEF Queried, Holds, Entry, BeforeAnswer, TypeOK
  <2>3. CASE posted' = posted \cup {e} /\ Goto(e, "post") /\ UNCHANGED lock
    BY <1>5, <2>1, <2>2, <2>3, GoesOn DEF Queried, Running, BeforeAnswer, AfterAnswer, user
  <2>4. CASE Throw(e, "refused", lock) /\ UNCHANGED posted
    BY <1>2, <1>5, <2>1, <2>4 DEF Queried, user
  <2>5. QED  BY <1>5, <2>3, <2>4 DEF Queried
<1>6. ASSUME NEW e \in Salts, step[e] = "post", Inv
      PROVE  /\ Running(e) /\ lock # NoLock /\ lock \in Locks /\ lock.salt = e
             /\ Marked(FALSE) \in Locks /\ Marked(TRUE) \in Locks
             /\ Marked(FALSE).salt = e /\ Marked(FALSE).submitted /\ ~Marked(FALSE).error
             /\ Marked(TRUE).salt = e /\ Marked(TRUE).submitted /\ Marked(TRUE).error
  <2>1. Running(e) /\ lock \in Locks /\ lock.salt = e /\ ~lock.error
    BY <1>6 DEF Running, Holds, Entry, BeforeAnswer, TypeOK
  <2>2. lock # NoLock  BY <2>1, SpendAssumption DEF SpendAssumption, NoLock
  <2>3. QED  BY <2>1, <2>2, WriteType DEF Marked, Locks, NoLock
<1>7. ASSUME NEW e \in Salts, Inv, PostFailed(e) PROVE LockInv'
  <2>1. step[e] = "post" /\ Throw(e, "ambiguous", Marked(TRUE))
    BY <1>6, <1>7 DEF PostFailed
  <2>2. lock' = Marked(TRUE)
    <3>1. ("ambiguous" # "refused") = TRUE  OBVIOUS
    <3>2. lock' = Finally(Catch(Marked(TRUE), TRUE))  BY <2>1, <3>1 DEF Throw, Return
    <3>3. QED  BY <1>6, <1>7, <2>1, <3>2, Thrown
  <2>3. lock'.salt = e /\ lock' # NoLock
    <3>1. lock'.salt = e  BY <1>6, <1>7, <2>1, <2>2
    <3>2. QED  BY <3>1, SpendAssumption DEF SpendAssumption, NoLock
  <2>4. \A f \in Salts : step'[f] = (IF f = e THEN "ended" ELSE step[f])
                         /\ outcome'[f] = (IF f = e THEN "ambiguous" ELSE outcome[f])
    BY <2>1 DEF Throw, Return, TypeOK
  <2>5. lock.salt = e /\ Running(e)  BY <1>6, <1>7, <2>1
  <2>6. \A f \in Salts : ~Running(f)'  BY <1>7, <2>4, <2>5 DEF Running, Holds
  <2>7. Holds' /\ Entry'
    BY <2>6 DEF Holds, Entry, Running, BeforeAnswer, AfterAnswer
  <2>8. Left'
    BY <1>7, <2>3, <2>4, <2>5 DEF Left, PostFailed, user
  <2>9. Posted'
    BY <1>7, <2>4, <2>5 DEF Posted, Holds, PostFailed, calls, TypeOK
  <2>10. QED  BY <2>7, <2>8, <2>9 DEF LockInv
<1>8. ASSUME NEW e \in Salts, Inv, PostAnswered(e) PROVE LockInv'
  <2>1. step[e] = "post" /\ posted' = posted /\ resolved' = resolved
    BY <1>8 DEF PostAnswered, calls, user
  <2>2. CASE lock # NoLock /\ lock' = Marked(FALSE) /\ Goto(e, "mint")
    BY <1>6, <1>8, <2>1, <2>2, GoesOn DEF Running, BeforeAnswer, AfterAnswer
  <2>3. CASE Throw(e, "failed", Marked(FALSE))
    BY <1>3, <1>6, <1>8, <2>1, <2>3
  <2>4. QED  BY <1>8, <2>2, <2>3 DEF PostAnswered
<1>9. ASSUME NEW e \in Salts, step[e] \in AfterAnswer, Inv
      PROVE  Running(e) /\ lock \in Locks /\ lock.salt = e /\ lock.submitted /\ ~lock.error
  BY <1>9 DEF AfterAnswer, Running, Holds, Entry, TypeOK
<1>10. ASSUME NEW e \in Salts, Inv, MintSent(e) \/ ReceiptSeen(e) \/ ConfirmAnswered(e)
       PROVE  LockInv'
  <2>1. step[e] \in AfterAnswer /\ posted' = posted /\ resolved' = resolved
    BY <1>10 DEF MintSent, ReceiptSeen, ConfirmAnswered, AfterAnswer, calls, user
  <2>2. CASE lock' = lock /\ \E s \in {"receipt", "confirm"} : Goto(e, s)
    BY <1>9, <1>10, <2>1, <2>2, GoesOn DEF Running, BeforeAnswer, AfterAnswer
  <2>3. CASE Throw(e, "failed", lock) \/ Return(e, "ok", lock)
    BY <1>3, <1>9, <1>10, <2>1, <2>3
  <2>4. QED
    BY <1>10, <2>2, <2>3 DEF MintSent, ReceiptSeen, ConfirmAnswered
<1>11. ASSUME Inv, ResolveAmbiguous PROVE LockInv'
  <2>1. lock # NoLock /\ ~Running(lock.salt) /\ lock' = NoLock
    <3>1. lock # NoLock /\ lock' = NoLock  BY <1>11 DEF ResolveAmbiguous, NoLock
    <3>2. ~Running(lock.salt)  BY <1>11 DEF ResolveAmbiguous
    <3>3. QED  BY <3>1, <3>2
  <2>2. \A f \in Salts : ~Running(f)  BY <1>11, <2>1 DEF Holds
  <2>3. Holds' /\ Entry' /\ Posted'
    BY <1>11, <2>2 DEF ResolveAmbiguous, Holds, Entry, Posted, Running, BeforeAnswer,
       AfterAnswer, calls
  <2>4. Left'
    BY <1>11, <2>1 DEF ResolveAmbiguous, Left
  <2>5. QED  BY <2>3, <2>4 DEF LockInv
<1>12. ASSUME UNCHANGED <<posted, lock, step, outcome, user>> PROVE LockInv'
  BY <1>12 DEF LockInv, Holds, Entry, Left, Posted, Running, user
<1>13. CASE Cancel \/ Reload
  BY <1>13 DEF Cancel, Reload
<1>14. CASE ~dropped
  <2>1. Inv  BY <1>14 DEF LockInv
  <2>2. ASSUME NEW e \in Salts, BalanceRead(e) \/ Signed(e) PROVE LockInv'
    BY <1>4, <2>1, <2>2 DEF BalanceRead, Signed
  <2>3. ASSUME NEW e \in Salts, Serve(e) \/ MineMint(e) \/ MintElsewhere(e) PROVE LockInv'
    BY <1>12, <2>3 DEF Serve, MineMint, MintElsewhere, calls
  <2>4. CASE UNCHANGED vars  BY <1>12, <2>4 DEF vars, calls
  <2>5. QED
    BY <1>1, <1>5, <1>7, <1>8, <1>10, <1>11, <1>13, <2>1, <2>2, <2>3, <2>4 DEF Next
<1>15. CASE dropped
  <2>1. dropped' = dropped \/ Cancel \/ Reload \/ ResolveAmbiguous
    BY DEF Next, Start, BalanceRead, Signed, Advance, Queried, PostFailed, PostAnswered, MintSent,
       ReceiptSeen, ConfirmAnswered, Serve, MineMint, MintElsewhere, vars, user
  <2>2. QED  BY <1>15, <2>1 DEF Cancel, Reload, ResolveAmbiguous
<1>16. QED  BY <1>14, <1>15 DEF TypeOK

LEMMA LockInvInvariant == Spec => [](TypeOK /\ Ended /\ LockInv)
<1>1. Init => Ended /\ LockInv
  BY DEF Init, Ended, LockInv, Holds, Entry, Left, Posted, Running, NoLock, BeforeAnswer,
     AfterAnswer
<1>2. QED
  BY <1>1, TypeCorrect, EndedStep, LockInvStep, PTL DEF Spec

(* While nobody takes the entry from a running execution and the tab is not
   reloaded, at most one submission of a transfer is open, however many times it
   is started and however each ends. *)
THEOREM OneOpenSubmission == Spec => []OneSubmission
<1>1. TypeOK /\ LockInv => OneSubmission
  <2> SUFFICES ASSUME TypeOK, LockInv, ~dropped,
                      NEW e \in posted, NEW f \in posted, ~Closed(e), ~Closed(f)
               PROVE  e = f
    BY DEF OneSubmission
  <2>1. e \in Salts /\ f \in Salts  BY DEF TypeOK
  <2>2. lock.salt = e
    BY <2>1 DEF LockInv, Holds, Posted, Left, Closed
  <2>3. lock.salt = f
    BY <2>1 DEF LockInv, Holds, Posted, Left, Closed
  <2>4. QED  BY <2>2, <2>3
<1>2. QED  BY <1>1, LockInvInvariant, PTL

-------------------------------------------------------------------------------
(* What is answered *)

LEMMA ToldStep == TypeOK /\ Told /\ [Next]_vars => Told'
<1> SUFFICES ASSUME TypeOK, Told, [Next]_vars PROVE Told'
  OBVIOUS
<1>1. ASSUME NEW e \in Salts, NEW s \in Steps, Goto(e, s), step[e] # "ended", UNCHANGED <<server, calls>>,
             s \in {"new", "balance", "signature", "query"} => e \notin posted,
             s \in AfterAnswer => status[e] \in {"accepted", "confirmed", "failed"}
      PROVE  Told'
  BY <1>1 DEF Goto, Told, TypeOK, server, calls, AfterAnswer
<1>2. ASSUME NEW e \in Salts, NEW how \in Outcomes, NEW l, Throw(e, how, l) \/ Return(e, how, l),
             UNCHANGED <<server, calls>>, how = "refused" => e \notin posted,
             how = "ok" => tx[e] = "success" /\ step[e] \in AfterAnswer
      PROVE  Told'
  BY <1>2 DEF Throw, Return, Told, TypeOK, server, calls, AfterAnswer
<1>3. ASSUME NEW e \in Salts, Start(e) \/ BalanceRead(e) \/ Signed(e) PROVE Told'
  <2>1. e \notin posted /\ step[e] # "ended"
    BY <1>3 DEF Start, BalanceRead, Signed, Advance, Told
  <2>2. UNCHANGED <<server, calls>>
    BY <1>3 DEF Start, BalanceRead, Signed, Advance
  <2>3. ASSUME NEW s \in {"balance", "signature", "query"}, Goto(e, s) PROVE Told'
    BY <1>1, <2>1, <2>2, <2>3 DEF Steps, AfterAnswer
  <2>4. CASE Throw(e, "refused", lock)  BY <1>2, <2>1, <2>2, <2>4 DEF Outcomes
  <2>5. QED  BY <1>3, <2>3, <2>4 DEF Start, BalanceRead, Signed, Advance
<1>4. ASSUME NEW e \in Salts, Queried(e) PROVE Told'
  <2>1. e \notin posted /\ step[e] = "query" /\ UNCHANGED <<server, tx>>
    BY <1>4 DEF Queried, Told
  <2>2. CASE posted' = posted \cup {e} /\ Goto(e, "post")
    BY <1>4, <2>1, <2>2 DEF Queried, Goto, Told, TypeOK, server, AfterAnswer
  <2>3. CASE Throw(e, "refused", lock) /\ UNCHANGED posted
    BY <1>2, <2>1, <2>3 DEF Outcomes, calls
  <2>4. QED  BY <1>4, <2>2, <2>3 DEF Queried
<1>5. ASSUME NEW e \in Salts, PostFailed(e) PROVE Told'
  <2>1. \E how \in {"failed", "ambiguous"} : Throw(e, how, Marked(TRUE))
    BY <1>5 DEF PostFailed
  <2>2. QED  BY <1>2, <1>5, <2>1 DEF PostFailed, Outcomes
<1>6. ASSUME NEW e \in Salts, PostAnswered(e) PROVE Told'
  <2>1. UNCHANGED <<server, calls>> /\ status[e] = "accepted" /\ step[e] # "ended"
    BY <1>6 DEF PostAnswered
  <2>2. CASE Goto(e, "mint")  BY <1>1, <2>1, <2>2 DEF Steps
  <2>3. CASE Throw(e, "failed", Marked(FALSE))  BY <1>2, <2>1, <2>3 DEF Outcomes
  <2>4. QED  BY <1>6, <2>2, <2>3 DEF PostAnswered
<1>7. ASSUME NEW e \in Salts, MintSent(e) PROVE Told'
  <2>1. /\ UNCHANGED <<server, posted>> /\ step[e] = "mint" /\ outcome[e] # "ok"
        /\ status[e] \in {"accepted", "confirmed", "failed"}
    BY <1>7 DEF MintSent, Told, AfterAnswer
  <2>2. tx' = [tx EXCEPT ![e] = "pending"] \/ tx' = tx  BY <1>7 DEF MintSent
  <2>3. \/ step' = [step EXCEPT ![e] = "receipt"] /\ outcome' = outcome
        \/ step' = [step EXCEPT ![e] = "ended"] /\ outcome' = [outcome EXCEPT ![e] = "failed"]
    BY <1>7 DEF MintSent, Goto, Throw, Return
  <2>4. QED  BY <2>1, <2>2, <2>3 DEF Told, TypeOK, server, AfterAnswer
<1>8. ASSUME NEW e \in Salts, ReceiptSeen(e) PROVE Told'
  <2>1. /\ UNCHANGED <<server, calls>> /\ step[e] # "ended"
        /\ status[e] \in {"accepted", "confirmed", "failed"}
    BY <1>8 DEF ReceiptSeen, Told, AfterAnswer
  <2>2. CASE Throw(e, "failed", lock)  BY <1>2, <2>1, <2>2 DEF Outcomes
  <2>3. CASE Goto(e, "confirm")  BY <1>1, <2>1, <2>3 DEF Steps
  <2>4. QED  BY <1>8, <2>2, <2>3 DEF ReceiptSeen
<1>9. ASSUME NEW e \in Salts, ConfirmAnswered(e) PROVE Told'
  BY <1>2, <1>9 DEF ConfirmAnswered, ReceiptOk, Outcomes, AfterAnswer
<1>10. ASSUME NEW e \in Salts, Serve(e) \/ MintElsewhere(e) PROVE Told'
  <2>1. /\ UNCHANGED <<calls, step, outcome>> /\ minted \subseteq minted'
        /\ \/ status' = status /\ sent' \subseteq sent \cup {e} /\ (e \in posted \/ sent' = sent)
           \/ sent' = sent /\ e \in posted /\ status[e] \in {"none", "submitting"}
              /\ \E to : status' = [status EXCEPT ![e] = to]
           \/ sent' = sent /\ status[e] \in {"accepted", "ambiguous"}
              /\ \E to \in {"confirmed", "failed"} : status' = [status EXCEPT ![e] = to]
    BY <1>10 DEF Serve, MintElsewhere, Op!Reserve, Op!GiveUp, Op!Submit, Op!Attest, Op!Accepted,
       Op!Rejected, Op!Ambiguous, Op!Confirmed, Op!Failed, Op!Become, Op!Mint
  <2>2. QED  BY <2>1 DEF Told, TypeOK, calls
<1>11. ASSUME NEW e \in Salts, MineMint(e) PROVE Told'
  <2>1. /\ UNCHANGED <<status, sent, posted, step, outcome>> /\ tx[e] = "pending"
        /\ \/ tx' = [tx EXCEPT ![e] = "success"] /\ minted' = minted \cup {e}
           \/ tx' = [tx EXCEPT ![e] = "reverted"] /\ minted' = minted
    BY <1>11 DEF MineMint, Op!Mint, server
  <2>2. QED  BY <2>1 DEF Told, TypeOK
<1>12. CASE Cancel \/ ResolveAmbiguous \/ UNCHANGED vars
  BY <1>12 DEF Told, Cancel, ResolveAmbiguous, vars, server, calls
<1>13. CASE Reload
  <2>1. \A e \in Salts : /\ step'[e] \in {step[e], "ended"}
                         /\ outcome'[e] \in {outcome[e], "gone"}
    BY <1>13 DEF Reload
  <2>2. UNCHANGED <<server, calls>>  BY <1>13 DEF Reload
  <2>3. QED  BY <2>1, <2>2 DEF Told, server, calls, AfterAnswer
<1>14. QED
  BY <1>3, <1>4, <1>5, <1>6, <1>7, <1>8, <1>9, <1>10, <1>11, <1>12, <1>13 DEF Next

(* What execute() returns is true, whoever mints and confirms beside it, for
   any number of executions and reloads: done means minted, and refused that
   the endpoint never hears of the salt. *)
THEOREM AnswersAreTrue == Spec => []AnswerIsTrue
<1>1. Init => Told
  BY DEF Init, Told, Op!Init, AfterAnswer
<1>2. TypeOK /\ Told => AnswerIsTrue
  BY DEF TypeOK, Told, AnswerIsTrue
<1>3. QED  BY <1>1, <1>2, TypeCorrect, ToldStep, PTL DEF Spec
===============================================================================
