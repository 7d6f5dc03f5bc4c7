-------------------------- MODULE PaymentLinkProofs --------------------------
(***************************************************************************)
(* What PaymentLink promises, for every number of links, transactions and  *)
(* workers, in any deployment and however long requests take.  That a      *)
(* transaction pays one link and that a commit is never lifted are         *)
(* promises about each transaction whose alarm has not gone off under a    *)
(* live request (outlived): of those LockInv speaks.                       *)
(***************************************************************************)
EXTENDS PaymentLink, TLAPS

\* A worker that has to do with a transaction knows which.
TxSteps == {"claim", "kvPut", "kvCheck", "verify", "release", "commit"}
TxKnown == \A w \in Workers : req[w].step \in TxSteps => req[w].tx \in Txs

TypeInv == TypeOK /\ TxKnown

-------------------------------------------------------------------------------
(* Types *)

LEMMA ValueTypes ==
    /\ NoLink \in LinkRecords /\ Idle \in Requests
    /\ \A terms \in Terms : Fresh(terms) \in LinkRecords
    /\ \A record \in LinkRecords : AsExpired(record) \in LinkRecords
    /\ \A record \in LinkRecords, t \in Txs : AsPaid(record, t) \in LinkRecords
    /\ \A l \in Links : Processing(l) \in Claims /\ Committed(l) \in Claims
    /\ NoClaim \in Claims
  BY DEF NoLink, LinkRecords, Idle, Requests, Fresh, AsExpired, AsPaid, Processing,
         Committed, Claims, NoClaim

\* What the helpers do to one worker's request and leave of the others'.
LEMMA GotoDoes ==
    ASSUME TypeOK, NEW w \in Workers, NEW step \in Steps, req[w].step # "idle", Goto(w, step)
    PROVE  /\ req' \in [Workers -> Requests]
           /\ req'[w] = [req[w] EXCEPT !.step = step]
           /\ \A v \in Workers \ {w} : req'[v] = req[v]
<1>1. req[w] \in [step : Steps, token : Links, tx : Txs \cup {None}, copy : LinkRecords]
  BY DEF TypeOK, Requests, Idle
<1>2. [req[w] EXCEPT !.step = step] \in Requests
  BY <1>1 DEF Requests
<1>3. QED
  BY <1>2 DEF TypeOK, Goto

LEMMA DoneDoes ==
    ASSUME TypeOK, NEW w \in Workers, Done(w)
    PROVE  /\ req' \in [Workers -> Requests]
           /\ req'[w] = Idle
           /\ \A v \in Workers \ {w} : req'[v] = req[v]
  BY ValueTypes DEF TypeOK, Done

LEMMA ThenPutDoes ==
    ASSUME TypeOK, NEW w \in Workers, NEW l \in Links, NEW record \in LinkRecords,
           ThenPut(w, l, record)
    PROVE  /\ req' \in [Workers -> Requests]
           /\ req'[w] = [step |-> "put", token |-> l, tx |-> None, copy |-> record]
           /\ \A v \in Workers \ {w} : req'[v] = req[v]
  BY DEF TypeOK, ThenPut, Requests, Steps

LEMMA SetClaimDoes ==
    ASSUME TypeOK, NEW t \in Txs, NEW c \in Claims, SetClaim(t, c)
    PROVE  /\ claim' \in [Txs -> Claims]
           /\ claim'[t] = c
           /\ \A u \in Txs \ {t} : claim'[u] = claim[u]
  BY DEF TypeOK, SetClaim

LEMMA RequestFields ==
    TypeOK => \A w \in Workers : req[w].step # "idle" =>
        req[w].token \in Links /\ req[w].copy \in LinkRecords /\ req[w].step \in Steps
  BY DEF TypeOK, Requests, Idle

-------------------------------------------------------------------------------
(* What a step does, worker by worker and transaction by transaction: enough   *)
(* for every invariant below.                                                  *)

LEMMA InitTyped == Init => TypeInv
<1>1. Init => TypeOK
  BY ValueTypes, PaymentAssumption DEF Init, TypeOK, Pending, Receipts, PaymentAssumption
<1>2. Init => TxKnown
  BY DEF Init, TxKnown, TxSteps, Idle
<1>3. QED
  BY <1>1, <1>2 DEF TypeInv

LEMMA RequestTyped ==
    ASSUME TypeInv, NEW w \in Workers, Request(w)
    PROVE  TypeInv'
<1>1. ASSUME NEW l \in Links, NEW record \in LinkRecords, ThenPut(w, l, record),
             UNCHANGED <<lockBound, link, claim, alarm, chain, late, outlived>>
      PROVE  TypeInv'
  <2>1. TypeOK
    BY DEF TypeInv
  <2>2. /\ req' \in [Workers -> Requests]
        /\ req'[w] = [step |-> "put", token |-> l, tx |-> None, copy |-> record]
        /\ \A v \in Workers \ {w} : req'[v] = req[v]
    BY <1>1, <2>1, ThenPutDoes
  <2>3. req'[w].step = "put"
    BY <2>2
  <2>4. QED
    BY <1>1, <2>2, <2>3 DEF TypeInv, TypeOK, TxKnown, TxSteps
<1>2. ASSUME NEW l \in Links, NEW terms \in Terms, PostInvoice(w, l, terms) PROVE TypeInv'
  BY <1>1, <1>2, ValueTypes DEF PostInvoice
<1>3. ASSUME NEW l \in Links, Scan(w, l) PROVE TypeInv'
  BY <1>1, <1>3, ValueTypes DEF Scan, TypeInv, TypeOK
<1>4. ASSUME NEW l \in Links, NEW t \in Txs, Pay(w, l, t) PROVE TypeInv'
  <2>1. CASE ThenPut(w, l, AsExpired(link[l]))
    BY <2>1, <1>1, <1>4, ValueTypes DEF Pay, TypeInv, TypeOK
  <2>2. CASE req' = [req EXCEPT ![w] =
                        [step |-> "claim", token |-> l, tx |-> t, copy |-> link[l]]]
    <3>1. [step |-> "claim", token |-> l, tx |-> t, copy |-> link[l]] \in Requests
      BY DEF Requests, Steps, TypeInv, TypeOK
    <3>2. QED
      BY <3>1, <2>2, <1>4 DEF Pay, TypeInv, TypeOK, TxKnown, TxSteps
  <2>3. QED
    BY <2>1, <2>2, <1>4 DEF Pay
<1>5. QED
  BY <1>2, <1>3, <1>4 DEF Request


\* Going on keeps the transaction at hand; an idle or a writing worker has none.
LEMMA GotoTyped ==
    ASSUME TypeInv, NEW w \in Workers, NEW step \in Steps, req[w].step \in TxSteps, Goto(w, step)
    PROVE  /\ req' \in [Workers -> Requests]
           /\ TxKnown'
<1>1. TypeOK /\ TxKnown /\ req[w].step # "idle"
  BY DEF TypeInv, TxSteps
<1>2. /\ req' \in [Workers -> Requests]
      /\ req'[w] = [req[w] EXCEPT !.step = step]
      /\ \A v \in Workers \ {w} : req'[v] = req[v]
  BY <1>1, GotoDoes
<1>3. req[w].tx \in Txs
  BY <1>1 DEF TxKnown
<1>4. req'[w].tx = req[w].tx
  BY <1>1, <1>2 DEF TypeOK, Requests, Idle
<1>5. QED
  BY <1>1, <1>2, <1>3, <1>4 DEF TxKnown

LEMMA DoneTyped ==
    ASSUME TypeInv, NEW w \in Workers, Done(w)
    PROVE  /\ req' \in [Workers -> Requests]
           /\ TxKnown'
<1>1. TypeOK /\ TxKnown
  BY DEF TypeInv
<1>2. /\ req' \in [Workers -> Requests]
      /\ req'[w] = Idle
      /\ \A v \in Workers \ {w} : req'[v] = req[v]
  BY <1>1, DoneDoes
<1>3. QED
  BY <1>1, <1>2 DEF TxKnown, TxSteps, Idle

LEMMA ThenPutTyped ==
    ASSUME TypeInv, NEW w \in Workers, NEW l \in Links, NEW record \in LinkRecords,
           ThenPut(w, l, record)
    PROVE  /\ req' \in [Workers -> Requests]
           /\ TxKnown'
<1>1. TypeOK /\ TxKnown
  BY DEF TypeInv
<1>2. /\ req' \in [Workers -> Requests]
      /\ req'[w] = [step |-> "put", token |-> l, tx |-> None, copy |-> record]
      /\ \A v \in Workers \ {w} : req'[v] = req[v]
  BY <1>1, ThenPutDoes
<1>3. req'[w].step = "put"
  BY <1>2
<1>4. QED
  BY <1>1, <1>2, <1>3 DEF TxKnown, TxSteps

LEMMA PutTyped == ASSUME TypeInv, NEW w \in Workers, Put(w) PROVE TypeInv'
<1>1. req[w].token \in Links /\ req[w].copy \in LinkRecords
  BY RequestFields DEF Put, At, TypeInv
<1>2. link' \in [Links -> LinkRecords]
  BY <1>1 DEF Put, TypeInv, TypeOK
<1>3. Done(w) /\ UNCHANGED <<lockBound, claim, alarm, chain, late, outlived>>
  BY DEF Put
<1>4. QED
  BY <1>2, <1>3, DoneTyped DEF TypeInv, TypeOK

LEMMA ContinueTyped ==
    ASSUME TypeInv, NEW w \in Workers, Continue(w) \/ Abandon(w)
    PROVE  TypeInv'
<1> DEFINE tx == req[w].tx
<1> DEFINE token == req[w].token
<1>0. TypeOK
  BY DEF TypeInv
<1>a. req[w].step # "idle" => token \in Links /\ req[w].copy \in LinkRecords
  BY <1>0, RequestFields
<1>b. req[w].step \in TxSteps => tx \in Txs
  BY DEF TypeInv, TxKnown
<1>c. \A step \in TxSteps : step \in Steps /\ step # "idle"
  BY DEF TxSteps, Steps
<1> HIDE DEF tx, token
\* A step that leaves the records alone.
<1>1. ASSUME req' \in [Workers -> Requests], TxKnown', claim' \in [Txs -> Claims],
             alarm' \subseteq Txs, UNCHANGED <<lockBound, link, chain, late, outlived>>
      PROVE  TypeInv'
  BY <1>1, <1>0 DEF TypeInv, TypeOK
<1>2. ASSUME UNCHANGED <<claim, alarm>>
      PROVE  claim' \in [Txs -> Claims] /\ alarm' \subseteq Txs
  BY <1>0, <1>2 DEF TypeOK
<1>3. ASSUME NEW c \in Claims, tx \in Txs, SetClaim(tx, c),
             alarm' \in {alarm, alarm \cup {tx}, alarm \ {tx}}
      PROVE  claim' \in [Txs -> Claims] /\ alarm' \subseteq Txs
  BY <1>0, <1>3 DEF TypeOK, SetClaim
<1>4. CASE Put(w)
  BY <1>4, PutTyped
<1>5. CASE Claim(w)
  <2>1. req[w].step = "claim" /\ "claim" \in TxSteps /\ "verify" \in Steps
        /\ UNCHANGED <<lockBound, link, chain, late, outlived>>
    BY <1>5 DEF Claim, At, TxSteps, Steps
  <2>2. tx \in Txs /\ token \in Links
    BY <2>1, <1>a, <1>b
  <2>3. CASE Claimed(tx, token) /\ Goto(w, "verify")
    <3>1. SetClaim(tx, Processing(token)) /\ alarm' = alarm \cup {tx} /\ Processing(token) \in Claims
      BY <2>3, <2>2, ValueTypes DEF Claimed
    <3>2. QED
      BY <3>1, <2>1, <2>2, <2>3, GotoTyped, <1>1, <1>3
  <2>4. CASE Done(w) /\ UNCHANGED <<claim, alarm>>
    BY <2>1, <2>4, DoneTyped, <1>1, <1>2
  <2>5. QED
    BY <1>5, <2>3, <2>4 DEF Claim, tx, token
<1>6. CASE KvGet(w)
  <2>1. req[w].step = "claim" /\ "claim" \in TxSteps /\ "kvPut" \in Steps
        /\ UNCHANGED <<lockBound, link, chain, late, outlived>> /\ UNCHANGED <<claim, alarm>>
        /\ (Done(w) \/ Goto(w, "kvPut"))
    BY <1>6 DEF KvGet, At, TxSteps, Steps
  <2>2. QED
    BY <2>1, GotoTyped, DoneTyped, <1>1, <1>2
<1>7. CASE KvPut(w)
  <2>1. req[w].step = "kvPut" /\ "kvPut" \in TxSteps /\ "kvCheck" \in Steps
        /\ UNCHANGED <<lockBound, link, chain, late, outlived>> /\ alarm' = alarm
        /\ Goto(w, "kvCheck") /\ SetClaim(tx, Processing(token))
    BY <1>7 DEF KvPut, At, TxSteps, Steps, tx, token
  <2>2. tx \in Txs /\ Processing(token) \in Claims
    BY <2>1, <1>a, <1>b, ValueTypes
  <2>3. QED
    BY <2>1, <2>2, GotoTyped, <1>1, <1>3
<1>8. CASE KvCheck(w)
  <2>1. req[w].step = "kvCheck" /\ "kvCheck" \in TxSteps /\ "verify" \in Steps
        /\ UNCHANGED <<lockBound, link, chain, late, outlived>> /\ UNCHANGED <<claim, alarm>>
        /\ (Done(w) \/ Goto(w, "verify"))
    BY <1>8 DEF KvCheck, At, TxSteps, Steps
  <2>2. QED
    BY <2>1, GotoTyped, DoneTyped, <1>1, <1>2
<1>9. CASE Verify(w)
  <2>1. req[w].step = "verify" /\ "verify" \in TxSteps /\ {"commit", "release"} \subseteq Steps
        /\ UNCHANGED <<lockBound, link, chain, late, outlived>> /\ UNCHANGED <<claim, alarm>>
        /\ (Done(w) \/ Goto(w, "commit") \/ Goto(w, "release"))
    BY <1>9 DEF Verify, At, TxSteps, Steps
  <2>2. QED
    BY <2>1, GotoTyped, DoneTyped, <1>1, <1>2
<1>10. CASE Release(w)
  <2>1. req[w].step = "release" /\ "release" \in TxSteps /\ Done(w)
        /\ UNCHANGED <<lockBound, link, chain, late, outlived>>
        /\ \/ SetClaim(tx, NoClaim) /\ alarm' = alarm \ {tx}
           \/ UNCHANGED <<claim, alarm>>
    BY <1>10 DEF Release, At, TxSteps, tx
  <2>2. QED
    BY <2>1, <1>b, DoneTyped, ValueTypes, <1>1, <1>2, <1>3
<1>11. CASE Commit(w)
  <2>1. req[w].step = "commit" /\ "commit" \in TxSteps
        /\ ThenPut(w, token, AsPaid(req[w].copy, tx))
        /\ UNCHANGED <<lockBound, link, chain, late, outlived>>
        /\ \/ SetClaim(tx, Committed(token)) /\ alarm' = alarm \ {tx}
           \/ UNCHANGED <<claim, alarm>>
    BY <1>11 DEF Commit, At, TxSteps, tx, token
  <2>2. tx \in Txs /\ token \in Links /\ Committed(token) \in Claims
        /\ AsPaid(req[w].copy, tx) \in LinkRecords
    BY <2>1, <1>a, <1>b, ValueTypes
  <2>3. QED
    BY <2>1, <2>2, ThenPutTyped, <1>1, <1>2, <1>3
<1>12. CASE Abandon(w)
  BY <1>12, DoneTyped, <1>1, <1>2 DEF Abandon
<1>13. QED
  BY <1>4, <1>5, <1>6, <1>7, <1>8, <1>9, <1>10, <1>11, <1>12 DEF Continue

LEMMA WorldTyped == ASSUME TypeInv, World PROVE TypeInv'
<1>0. TypeOK /\ TxKnown
  BY DEF TypeInv
<1>1. ASSUME TypeOK', req' = req PROVE TypeInv'
  BY <1>0, <1>1 DEF TypeInv, TxKnown
<1>2. ASSUME NEW l \in Links, NEW terms \in Terms, CreateLink(l, terms) PROVE TypeInv'
  BY <1>0, <1>1, <1>2, ValueTypes DEF CreateLink, TypeOK
<1>3. ASSUME NEW t \in Txs, AlarmFires(t) \/ KvExpires(t) PROVE TypeInv'
  <2>1. claim' \in [Txs -> Claims]
    BY <1>0, <1>3, ValueTypes DEF AlarmFires, KvExpires, SetClaim, TypeOK
  <2>2. QED
    BY <1>0, <1>1, <1>3, <2>1 DEF AlarmFires, KvExpires, TypeOK
<1>4. ASSUME NEW t \in Txs, NEW ok \in BOOLEAN, NEW paid \in SUBSET Terms, Mine(t, ok, paid)
      PROVE  TypeInv'
  <2>1. [mined |-> TRUE, ok |-> ok, pays |-> paid] \in Receipts
    BY DEF Receipts
  <2>2. QED
    BY <1>0, <1>1, <1>4, <2>1 DEF Mine, TypeOK
<1>5. ASSUME NEW terms \in Terms, DatePasses(terms) PROVE TypeInv'
  BY <1>0, <1>1, <1>5 DEF DatePasses, TypeOK
<1>6. QED
  BY <1>2, <1>3, <1>4, <1>5 DEF World

LEMMA StepTyped == TypeInv /\ [Next]_vars => TypeInv'
<1>1. SUFFICES ASSUME TypeInv, [Next]_vars PROVE TypeInv'
  OBVIOUS
<1>2. CASE UNCHANGED vars
  <2>1. TypeOK'
    BY <1>1, <1>2 DEF vars, TypeInv, TypeOK
  <2>2. TxKnown'
    BY <1>1, <1>2 DEF vars, TypeInv, TxKnown
  <2>3. QED
    BY <2>1, <2>2 DEF TypeInv
<1>3. CASE Next
  <2>1. ASSUME NEW w \in Workers, Request(w) PROVE TypeInv'
    BY <1>1, <2>1, RequestTyped
  <2>2. ASSUME NEW w \in Workers, Continue(w) \/ Abandon(w) PROVE TypeInv'
    BY <1>1, <2>2, ContinueTyped
  <2>3. ASSUME World PROVE TypeInv'
    BY <1>1, <2>3, WorldTyped
  <2>4. QED
    BY <1>3, <2>1, <2>2, <2>3 DEF Next
<1>4. QED
  BY <1>1, <1>2, <1>3

LEMMA AlwaysTyped == Spec => []TypeInv
  BY InitTyped, StepTyped, PTL DEF Spec

\* Type correctness: every reachable record, claim and request is well formed,
\* with and without the lock, and however long requests take.
THEOREM TypeCorrect == Spec => []TypeOK
<1>1. TypeInv => TypeOK
  BY DEF TypeInv
<1>2. QED
  BY <1>1, AlwaysTyped, PTL

-------------------------------------------------------------------------------
(* A step of a worker concerns its own request *)

LEMMA OthersWait ==
    ASSUME TypeInv, NEW w \in Workers, Request(w) \/ Continue(w) \/ Abandon(w)
    PROVE  /\ \A v \in Workers \ {w} : req'[v] = req[v]
           /\ UNCHANGED <<lockBound, chain, outlived>>
<1>1. \A v \in Workers \ {w} : req'[v] = req[v]
  <2>1. ASSUME NEW any, req' = [req EXCEPT ![w] = any] \/ req' = [req EXCEPT ![w].step = any]
        PROVE  \A v \in Workers \ {w} : req'[v] = req[v]
    BY <2>1 DEF TypeInv, TypeOK
  <2>2. QED
    BY <2>1 DEF Request, Continue, Abandon, PostInvoice, Scan, Pay, Put, Claim, KvGet, KvPut,
                KvCheck, Verify, Release, Commit, Goto, Done, ThenPut
<1>2. UNCHANGED <<lockBound, chain, outlived>>
  BY DEF Request, Continue, Abandon, PostInvoice, Scan, Pay, Put, Claim, KvGet, KvPut,
         KvCheck, Verify, Release, Commit
<1>3. QED
  BY <1>1, <1>2

\* Where a step leaves the worker that takes it.
LEMMA ThenPutLeaves ==
    ASSUME TypeInv, NEW w \in Workers, NEW l, NEW record, ThenPut(w, l, record)
    PROVE  req'[w].step = "put" /\ req'[w].token = l /\ req'[w].copy = record
<1>1. req'[w] = [step |-> "put", token |-> l, tx |-> None, copy |-> record]
  BY DEF ThenPut, TypeInv, TypeOK
<1>2. QED
  BY <1>1

LEMMA GotoLeaves ==
    ASSUME TypeInv, NEW w \in Workers, NEW step, req[w].step \in TxSteps, Goto(w, step)
    PROVE  /\ req'[w].step = step /\ req'[w].token = req[w].token
           /\ req'[w].tx = req[w].tx /\ req'[w].copy = req[w].copy
           /\ req[w].tx \in Txs /\ req[w].token \in Links
<1>1. req[w] \in [step : Steps, token : Links, tx : Txs \cup {None}, copy : LinkRecords]
  BY DEF TypeInv, TypeOK, Requests, Idle, TxSteps
<1>2. req'[w] = [req[w] EXCEPT !.step = step]
  BY DEF Goto, TypeInv, TypeOK
<1>3. QED
  BY <1>1, <1>2 DEF TypeInv, TxKnown

LEMMA DoneLeaves ==
    ASSUME TypeInv, NEW w \in Workers, Done(w)
    PROVE  req'[w].step = "idle"
  BY DEF Done, Idle, TypeInv, TypeOK

-------------------------------------------------------------------------------
(* Paid links are verified *)

\* Every copy of a record that a worker will write is as good as the record.
Shows(record) ==
    record.status = "Paid" => record.paidTx \in Txs /\ Accepts(record.paidTx, record.terms)

LinksShow == \A l \in Links : Shows(link[l])
PutsShow  == \A w \in Workers : req[w].step = "put" => Shows(req[w].copy)
Verified  == \A w \in Workers :
                 req[w].step = "commit" => Accepts(req[w].tx, req[w].copy.terms)
PaidInv   == LinksShow /\ PutsShow /\ Verified

LEMMA ShowsRecords ==
    /\ \A terms \in Terms : Shows(Fresh(terms))
    /\ \A record \in LinkRecords : Shows(AsExpired(record))
    /\ \A record \in LinkRecords, t \in Txs :
          Accepts(t, record.terms) => Shows(AsPaid(record, t))
    /\ Shows(NoLink)
  BY DEF Shows, Fresh, AsExpired, AsPaid, NoLink, LinkRecords

LEMMA InitPaid == Init => PaidInv
<1>1. Init => LinksShow
  BY ShowsRecords DEF Init, LinksShow
<1>2. Init => PutsShow /\ Verified
  BY DEF Init, PutsShow, Verified, Idle
<1>3. QED
  BY <1>1, <1>2 DEF PaidInv

LEMMA PaidByWorker ==
    ASSUME TypeInv, PaidInv, NEW w \in Workers, Request(w) \/ Continue(w) \/ Abandon(w)
    PROVE  PaidInv'
<1> DEFINE tx == req[w].tx
<1> DEFINE copy == req[w].copy
<1>1. /\ \A v \in Workers \ {w} : req'[v] = req[v]
      /\ UNCHANGED <<lockBound, chain, outlived>>
  BY OthersWait
<1>2. LinksShow /\ PutsShow /\ Verified
  BY DEF PaidInv
<1>3. \A record : Shows(record)' <=> Shows(record)
  BY <1>1 DEF Shows, Accepts
<1>4. req[w].step # "idle" => copy \in LinkRecords
  BY RequestFields DEF TypeInv
\* It is enough to look at the records and at the request of this worker.
<1>5. ASSUME LinksShow',
             req'[w].step = "put" => Shows(req'[w].copy),
             req'[w].step = "commit" => Accepts(req'[w].tx, req'[w].copy.terms)
      PROVE  PaidInv'
  <2>1. PutsShow'
    BY <1>1, <1>2, <1>5 DEF PutsShow, Shows, Accepts
  <2>2. Verified'
    BY <1>1, <1>2, <1>5 DEF Verified, Accepts
  <2>3. QED
    BY <1>5, <2>1, <2>2 DEF PaidInv
<1>6. link' = link => LinksShow'
  BY <1>2, <1>1 DEF LinksShow, Shows, Accepts
<1>7. ASSUME NEW l, NEW record \in LinkRecords, ThenPut(w, l, record), Shows(record), link' = link
      PROVE  PaidInv'
  BY <1>5, <1>6, <1>7, ThenPutLeaves
<1>8. ASSUME NEW step \in TxSteps \ {"commit"}, req[w].step \in TxSteps, Goto(w, step), link' = link
      PROVE  PaidInv'
  BY <1>5, <1>6, <1>8, GotoLeaves DEF TxSteps
<1>9. ASSUME Done(w), LinksShow' PROVE PaidInv'
  BY <1>5, <1>9, DoneLeaves
<1>10. CASE Request(w)
  <2>1. ASSUME NEW l \in Links, NEW terms \in Terms, PostInvoice(w, l, terms) PROVE PaidInv'
    BY <2>1, <1>7, ShowsRecords, ValueTypes DEF PostInvoice
  <2>2. ASSUME NEW l \in Links, Scan(w, l) PROVE PaidInv'
    <3>1. link[l] \in LinkRecords /\ Shows(link[l])
      BY <1>2 DEF LinksShow, TypeInv, TypeOK
    <3>2. QED
      BY <2>2, <3>1, <1>7, ShowsRecords, ValueTypes DEF Scan
  <2>3. ASSUME NEW l \in Links, NEW t \in Txs, Pay(w, l, t) PROVE PaidInv'
    <3>1. CASE ThenPut(w, l, AsExpired(link[l]))
      BY <2>3, <3>1, <1>7, ShowsRecords, ValueTypes DEF Pay, TypeInv, TypeOK
    <3>2. CASE req' = [req EXCEPT ![w] =
                          [step |-> "claim", token |-> l, tx |-> t, copy |-> link[l]]]
      <4>1. req'[w] = [step |-> "claim", token |-> l, tx |-> t, copy |-> link[l]]
        BY <3>2 DEF TypeInv, TypeOK
      <4>2. req'[w].step = "claim" /\ link' = link
        BY <4>1, <2>3 DEF Pay
      <4>3. QED
        BY <4>2, <1>5, <1>6
    <3>3. QED
      BY <2>3, <3>1, <3>2 DEF Pay
  <2>4. QED
    BY <1>10, <2>1, <2>2, <2>3 DEF Request
<1>11. CASE Put(w)
  <2>1. Shows(copy) /\ link' = [link EXCEPT ![req[w].token] = copy] /\ Done(w)
    BY <1>11, <1>2 DEF Put, At, PutsShow
  <2>2. \A l \in Links : link'[l] \in {link[l], copy}
    BY <2>1 DEF TypeInv, TypeOK
  <2>3. LinksShow'
    BY <2>1, <2>2, <1>1, <1>2 DEF LinksShow, Shows, Accepts
  <2>4. QED
    BY <2>1, <2>3, <1>9
<1>12. CASE Verify(w)
  <2>1. req[w].step = "verify" /\ "verify" \in TxSteps /\ "release" \in TxSteps \ {"commit"}
        /\ link' = link
    BY <1>12 DEF Verify, At, TxSteps
  <2>2. CASE Accepts(tx, copy.terms) /\ Goto(w, "commit")
    <3>1. req'[w].step = "commit" /\ req'[w].tx = tx /\ req'[w].copy = copy
      BY <2>1, <2>2, GotoLeaves
    <3>2. QED
      BY <3>1, <2>1, <2>2, <1>5, <1>6
  <2>3. QED
    BY <1>12, <2>1, <2>2, <1>6, <1>8, <1>9 DEF Verify
<1>13. CASE Commit(w)
  <2>1. req[w].step = "commit" /\ "commit" \in TxSteps /\ link' = link
        /\ ThenPut(w, req[w].token, AsPaid(copy, tx)) /\ Accepts(tx, copy.terms)
    BY <1>13, <1>2 DEF Commit, At, TxSteps, Verified
  <2>2. tx \in Txs
    BY <2>1 DEF TypeInv, TxKnown
  <2>3. QED
    BY <2>1, <2>2, <1>4, <1>7, ShowsRecords, ValueTypes
<1>14. CASE Claim(w) \/ KvGet(w) \/ KvPut(w) \/ KvCheck(w) \/ Release(w) \/ Abandon(w)
  <2>1. /\ link' = link
        /\ \/ Done(w)
           \/ /\ req[w].step \in TxSteps
              /\ \E step \in TxSteps \ {"commit"} : Goto(w, step)
    BY <1>14 DEF Claim, KvGet, KvPut, KvCheck, Release, Abandon, At, TxSteps
  <2>2. QED
    BY <2>1, <1>6, <1>8, <1>9
<1>15. QED
  BY <1>10, <1>11, <1>12, <1>13, <1>14 DEF Continue


\* Mining a transaction only adds to what is accepted.
LEMMA PaidByWorld == ASSUME TypeInv, PaidInv, World PROVE PaidInv'
<1>1. req' = req
  BY DEF World, CreateLink, AlarmFires, KvExpires, Mine, DatePasses
<1>2. \A t \in Txs : \A terms : Accepts(t, terms) => Accepts(t, terms)'
  BY DEF World, CreateLink, AlarmFires, KvExpires, Mine, DatePasses, Accepts, TypeInv, TypeOK
<1>3. \A record : Shows(record) => Shows(record)'
  BY <1>2 DEF Shows
<1>4. \A l \in Links : link'[l] = link[l] \/ \E terms \in Terms : link'[l] = Fresh(terms)
  BY DEF World, CreateLink, AlarmFires, KvExpires, Mine, DatePasses, TypeInv, TypeOK
<1>5. LinksShow'
  BY <1>3, <1>4, ShowsRecords DEF PaidInv, LinksShow
<1>6. PutsShow'
  BY <1>1, <1>3 DEF PaidInv, PutsShow
<1>7. Verified'
  BY <1>1, <1>2 DEF PaidInv, Verified, TypeInv, TxKnown, TxSteps
<1>8. QED
  BY <1>5, <1>6, <1>7 DEF PaidInv

LEMMA StepPaid == TypeInv /\ PaidInv /\ [Next]_vars => PaidInv'
<1>1. SUFFICES ASSUME TypeInv, PaidInv, [Next]_vars PROVE PaidInv'
  OBVIOUS
<1>2. CASE UNCHANGED vars
  BY <1>1, <1>2 DEF vars, PaidInv, LinksShow, PutsShow, Verified, Shows, Accepts
<1>3. ASSUME NEW w \in Workers, Request(w) \/ Continue(w) \/ Abandon(w) PROVE PaidInv'
  BY <1>1, <1>3, PaidByWorker
<1>4. ASSUME World PROVE PaidInv'
  BY <1>1, <1>4, PaidByWorld
<1>5. QED
  BY <1>1, <1>2, <1>3, <1>4 DEF Next

\* A link is shown as paid only by a transaction that transferred the terms its
\* record states, although handlers write back records they read long before:
\* the copy travels with the transaction that was verified against it.
THEOREM PaidLinkIsVerified == Spec => []PaidVerified
<1>1. PaidInv => PaidVerified
  BY DEF PaidInv, LinksShow, Shows, Accepts, PaidVerified
<1>2. QED
  BY <1>1, InitPaid, StepPaid, AlwaysTyped, PTL DEF Spec

-------------------------------------------------------------------------------
(* The lock gives a transaction to one link *)

\* The request that made a claim and has not ended it.
HoldSteps == {"verify", "release", "commit"}
KvSteps   == {"kvPut", "kvCheck"}

\* A paid record, in KV or about to be written, belongs to a committed claim.
ClaimedBy(l, record) ==
    record.status = "Paid" /\ record.paidTx \notin outlived => claim[record.paidTx] = Committed(l)

HoldersClaim == \A w \in Workers :
    req[w].step \in HoldSteps /\ req[w].tx \notin outlived =>
        claim[req[w].tx] = Processing(req[w].token)
HoldersAlone == \A w, v \in Workers :
    /\ req[w].step \in HoldSteps /\ req[v].step \in HoldSteps
    /\ req[w].tx = req[v].tx /\ req[w].tx \notin outlived
    => w = v
NoKvSteps    == \A w \in Workers : req[w].step \notin KvSteps
LinksClaimed == \A l \in Links : ClaimedBy(l, link[l])
PutsClaimed  == \A w \in Workers : req[w].step = "put" => ClaimedBy(req[w].token, req[w].copy)

LockInv == lockBound =>
    HoldersClaim /\ HoldersAlone /\ NoKvSteps /\ LinksClaimed /\ PutsClaimed

LEMMA ClaimValues ==
    /\ \A l : Processing(l) # NoClaim /\ Committed(l) # NoClaim
    /\ \A l, m : Processing(l) # Committed(m)
    /\ \A l, m : Committed(l) = Committed(m) => l = m
    /\ \A l : Committed(l).status = "committed" /\ Processing(l).status = "processing"
    /\ \A l : Processing(l).token = l
  BY DEF Processing, Committed, NoClaim

LEMMA InitLock == Init => LockInv
  BY DEF Init, LockInv, HoldersClaim, HoldersAlone, NoKvSteps, LinksClaimed, PutsClaimed,
         ClaimedBy, Idle, NoLink, HoldSteps, KvSteps

LEMMA LockByWorker ==
    ASSUME TypeInv, PaidInv, LockInv, lockBound, NEW w \in Workers,
           Request(w) \/ Continue(w) \/ Abandon(w)
    PROVE  LockInv'
<1> DEFINE tx == req[w].tx
<1> DEFINE token == req[w].token
<1> DEFINE copy == req[w].copy
<1>1. /\ \A v \in Workers \ {w} : req'[v] = req[v]
      /\ UNCHANGED <<lockBound, chain, outlived>>
  BY OthersWait
<1>2. HoldersClaim /\ HoldersAlone /\ NoKvSteps /\ LinksClaimed /\ PutsClaimed
  BY DEF LockInv
<1>3. req[w].step # "idle" => token \in Links /\ copy \in LinkRecords
  BY RequestFields DEF TypeInv
<1>4. HoldSteps \subseteq TxSteps /\ TxSteps \subseteq Steps
  BY DEF HoldSteps, TxSteps, Steps
\* The claims a paid record may rest on stay as they are.
<1> DEFINE CommitsStay ==
        \A t \in Txs \ outlived : claim[t].status = "committed" => claim'[t] = claim[t]
\* The claims of the other holders stay as they are.
<1> DEFINE OthersKeep ==
        \A v \in Workers \ {w} : req[v].step \in HoldSteps /\ req[v].tx \notin outlived =>
            claim'[req[v].tx] = claim[req[v].tx]
<1>5. ASSUME CommitsStay, NEW l, NEW record, ClaimedBy(l, record), Shows(record)
      PROVE  ClaimedBy(l, record)'
  BY <1>1, <1>5, ClaimValues DEF ClaimedBy, Shows
<1>6. CommitsStay /\ link' = link => LinksClaimed'
  BY <1>2, <1>5 DEF LinksClaimed, PaidInv, LinksShow
\* It is enough to look at the claims and at the request of this worker.
<1>7. ASSUME CommitsStay, OthersKeep, LinksClaimed',
             req'[w].step \notin KvSteps,
             req'[w].step = "put" /\ req'[w].copy.status = "Paid" =>
                 \/ req'[w].copy.paidTx \in outlived
                 \/ claim'[req'[w].copy.paidTx] = Committed(req'[w].token),
             req'[w].step \in HoldSteps /\ req'[w].tx \notin outlived =>
                 /\ claim'[req'[w].tx] = Processing(req'[w].token)
                 /\ \A v \in Workers \ {w} : req[v].step \in HoldSteps => req[v].tx # req'[w].tx
      PROVE  LockInv'
  <2>1. HoldersClaim'
    BY <1>1, <1>2, <1>7 DEF HoldersClaim
  <2>2. HoldersAlone'
    BY <1>1, <1>2, <1>7 DEF HoldersAlone
  <2>3. NoKvSteps'
    BY <1>1, <1>2, <1>7 DEF NoKvSteps
  <2>4. PutsClaimed'
    <3>1. ASSUME NEW v \in Workers \ {w}, req[v].step = "put"
          PROVE  ClaimedBy(req[v].token, req[v].copy)'
      BY <3>1, <1>1, <1>2, <1>5, <1>7 DEF PutsClaimed, PaidInv, PutsShow
    <3>2. QED
      BY <3>1, <1>1, <1>7 DEF PutsClaimed, ClaimedBy
  <2>5. QED
    BY <1>7, <2>1, <2>2, <2>3, <2>4 DEF LockInv

\* The ways a request goes on.
<1>8. ASSUME CommitsStay, OthersKeep, LinksClaimed', Done(w) PROVE LockInv'
  BY <1>7, <1>8, DoneLeaves DEF HoldSteps, KvSteps
<1>9. ASSUME claim' = claim, link' = link, NEW l, NEW record, ThenPut(w, l, record),
             ClaimedBy(l, record)
      PROVE  LockInv'
  BY <1>1, <1>6, <1>7, <1>9, ThenPutLeaves DEF HoldSteps, KvSteps, ClaimedBy
<1>10. CASE Request(w)
  <2>1. link' = link /\ claim' = claim
    BY <1>10 DEF Request, PostInvoice, Scan, Pay
  <2>2. ASSUME NEW l \in Links, NEW terms \in Terms, PostInvoice(w, l, terms) PROVE LockInv'
    BY <2>1, <2>2, <1>9 DEF PostInvoice, ClaimedBy, Fresh
  <2>3. ASSUME NEW l \in Links PROVE ClaimedBy(l, link[l]) /\ ClaimedBy(l, AsExpired(link[l]))
    <3>1. AsExpired(link[l]).status = "Expired"
      BY DEF AsExpired, TypeInv, TypeOK, LinkRecords
    <3>2. QED
      BY <3>1, <1>2 DEF LinksClaimed, ClaimedBy
  <2>4. ASSUME NEW l \in Links, Scan(w, l) PROVE LockInv'
    BY <2>1, <2>3, <2>4, <1>9 DEF Scan
  <2>5. ASSUME NEW l \in Links, NEW t \in Txs, Pay(w, l, t) PROVE LockInv'
    <3>1. CASE ThenPut(w, l, AsExpired(link[l]))
      BY <2>1, <2>3, <3>1, <1>9
    <3>2. CASE req' = [req EXCEPT ![w] =
                          [step |-> "claim", token |-> l, tx |-> t, copy |-> link[l]]]
      <4>1. req'[w] = [step |-> "claim", token |-> l, tx |-> t, copy |-> link[l]]
        BY <3>2 DEF TypeInv, TypeOK
      <4>2. req'[w].step = "claim"
        BY <4>1
      <4>3. QED
        BY <2>1, <4>2, <1>6, <1>7 DEF HoldSteps, KvSteps
    <3>3. QED
      BY <2>5, <3>1, <3>2 DEF Pay
  <2>6. QED
    BY <1>10, <2>2, <2>4, <2>5 DEF Request
<1>11. CASE Put(w)
  <2>1. /\ ClaimedBy(token, copy) /\ link' = [link EXCEPT ![token] = copy]
        /\ Done(w) /\ claim' = claim /\ token \in Links
    BY <1>11, <1>2, <1>3 DEF Put, At, PutsClaimed
  <2>2. link'[token] = copy /\ \A l \in Links \ {token} : link'[l] = link[l]
    BY <2>1 DEF TypeInv, TypeOK
  <2>3. LinksClaimed'
    BY <2>1, <2>2, <1>1, <1>2 DEF LinksClaimed, ClaimedBy
  <2>4. QED
    BY <2>1, <2>3, <1>8
<1>12. CASE Claim(w)
  <2>1. req[w].step = "claim" /\ req[w].step \in TxSteps /\ link' = link
    BY <1>12 DEF Claim, At, TxSteps
  <2>2. tx \in Txs /\ token \in Links
    BY <2>1, <1>3 DEF TypeInv, TxKnown
  <2>3. CASE Claimed(tx, token) /\ Goto(w, "verify")
    <3>1. claim[tx] = NoClaim /\ claim'[tx] = Processing(token)
          /\ \A t \in Txs \ {tx} : claim'[t] = claim[t]
      BY <2>2, <2>3 DEF Claimed, SetClaim, TypeInv, TypeOK
    <3>2. CommitsStay
      BY <3>1 DEF NoClaim
    <3>3. \A v \in Workers : req[v].step \in HoldSteps /\ req[v].tx \notin outlived =>
              req[v].tx \in Txs \ {tx}
      BY <3>1, <1>2, <1>4, ClaimValues DEF HoldersClaim, TypeInv, TxKnown
    <3>4. /\ req'[w].step = "verify" /\ req'[w].token = token /\ req'[w].tx = tx
      BY <2>1, <2>3, GotoLeaves
    <3>5. LinksClaimed' /\ OthersKeep
      BY <2>1, <3>1, <3>2, <3>3, <1>6
    <3>6. tx \notin outlived => \A v \in Workers : req[v].step \in HoldSteps => req[v].tx # tx
      BY <3>3
    <3>7. QED
      BY <3>1, <3>2, <3>4, <3>5, <3>6, <1>7 DEF KvSteps
  <2>4. CASE Done(w) /\ UNCHANGED <<claim, alarm>>
    BY <2>1, <2>4, <1>6, <1>8
  <2>5. QED
    BY <1>12, <2>3, <2>4 DEF Claim
<1>13. CASE Verify(w)
  <2>1. req[w].step = "verify" /\ req[w].step \in HoldSteps /\ link' = link /\ claim' = claim
    BY <1>13 DEF Verify, At, HoldSteps
  <2>2. ASSUME NEW step \in {"commit", "release"}, Goto(w, step) PROVE LockInv'
    <3>1. req'[w].step = step /\ req'[w].token = token /\ req'[w].tx = tx
      BY <2>1, <2>2, <1>4, GotoLeaves
    <3>2. tx \notin outlived =>
              /\ claim'[tx] = Processing(token)
              /\ \A v \in Workers \ {w} : req[v].step \in HoldSteps => req[v].tx # tx
      BY <2>1, <1>2 DEF HoldersClaim, HoldersAlone
    <3>3. QED
      BY <2>1, <2>2, <3>1, <3>2, <1>6, <1>7 DEF KvSteps
  <2>3. QED
    BY <1>13, <2>1, <2>2, <1>6, <1>8 DEF Verify
\* Ending a claim: it is the claim of this request, so nobody else rests on it.
<1>14. ASSUME req[w].step \in HoldSteps, NEW c, SetClaim(tx, c)
       PROVE  CommitsStay /\ OthersKeep /\ tx \in Txs /\ claim'[tx] = c
  <2>1. tx \in Txs /\ (tx \notin outlived => claim[tx] = Processing(token))
    BY <1>14, <1>2, <1>4 DEF HoldersClaim, TypeInv, TxKnown
  <2>2. claim'[tx] = c /\ \A t \in Txs \ {tx} : claim'[t] = claim[t]
    BY <1>14, <2>1 DEF SetClaim, TypeInv, TypeOK
  <2>3. CommitsStay
    BY <2>1, <2>2, ClaimValues
  <2>4. \A v \in Workers \ {w} : req[v].step \in HoldSteps /\ req[v].tx \notin outlived =>
            req[v].tx \in Txs \ {tx}
    BY <1>14, <1>2, <1>4 DEF HoldersAlone, TypeInv, TxKnown
  <2>5. QED
    BY <2>1, <2>2, <2>3, <2>4
<1>15. CASE Release(w)
  <2>1. req[w].step \in HoldSteps /\ link' = link /\ Done(w)
        /\ (SetClaim(tx, NoClaim) \/ claim' = claim)
    BY <1>15 DEF Release, At, HoldSteps
  <2>2. QED
    BY <2>1, <1>6, <1>8, <1>14
<1>16. CASE Commit(w)
  <2>1. req[w].step = "commit" /\ req[w].step \in HoldSteps /\ link' = link
        /\ ThenPut(w, token, AsPaid(copy, tx))
    BY <1>16 DEF Commit, At, HoldSteps
  <2>2. SetClaim(tx, Committed(token)) \/ (tx \in outlived /\ claim' = claim)
    <3>1. tx \notin outlived => claim[tx].token = token
      BY <2>1, <1>2, ClaimValues DEF HoldersClaim
    <3>2. QED
      BY <3>1, <1>16 DEF Commit
  <2>3. CommitsStay /\ OthersKeep /\ (tx \in outlived \/ claim'[tx] = Committed(token))
    BY <2>1, <2>2, <1>14
  <2>4. /\ req'[w].step = "put" /\ req'[w].token = token /\ req'[w].copy = AsPaid(copy, tx)
    BY <2>1, ThenPutLeaves
  <2>5. copy \in LinkRecords
    BY <2>1, <1>3
  <2>6. AsPaid(copy, tx).paidTx = tx
    BY <2>5 DEF AsPaid, LinkRecords
  <2>7. QED
    BY <2>1, <2>3, <2>4, <2>6, <1>6, <1>7 DEF HoldSteps, KvSteps
<1>17. CASE Abandon(w)
  BY <1>17, <1>6, <1>8 DEF Abandon
<1>18. ~KvGet(w) /\ ~KvPut(w) /\ ~KvCheck(w)
  BY <1>2 DEF KvGet, KvPut, KvCheck, At, NoKvSteps, KvSteps
<1>19. QED
  BY <1>10, <1>11, <1>12, <1>13, <1>15, <1>16, <1>17, <1>18 DEF Continue


LEMMA LockByWorld ==
    ASSUME TypeInv, PaidInv, LockInv, lockBound, World
    PROVE  LockInv'
<1>1. HoldersClaim /\ HoldersAlone /\ NoKvSteps /\ LinksClaimed /\ PutsClaimed
  BY DEF LockInv
<1>2. req' = req
  BY DEF World, CreateLink, AlarmFires, KvExpires, Mine, DatePasses
<1>0. outlived \subseteq outlived'
  BY DEF World, CreateLink, AlarmFires, KvExpires, Mine, DatePasses
<1>3. HoldersAlone' /\ NoKvSteps'
  BY <1>0, <1>1, <1>2 DEF HoldersAlone, NoKvSteps
\* The alarm ends claims nobody holds, or outlived from now on, and no committed one.
<1>4. \A t \in Txs \ outlived' : claim'[t] = claim[t] \/
          /\ claim[t].status = "processing"
          /\ \A w \in Workers : req[w].step \in HoldSteps => req[w].tx # t
  BY DEF World, CreateLink, AlarmFires, KvExpires, Mine, DatePasses, SetClaim, Holds, HoldSteps,
         TypeInv, TypeOK
<1>5. HoldersClaim'
  BY <1>0, <1>1, <1>2, <1>4 DEF HoldersClaim, HoldSteps, TypeInv, TxKnown, TxSteps
<1>6. ASSUME NEW l, NEW record, ClaimedBy(l, record), Shows(record)
      PROVE  ClaimedBy(l, record)'
  BY <1>0, <1>4, <1>6, ClaimValues DEF ClaimedBy, Shows
<1>7. PutsClaimed'
  <2>1. \A w \in Workers : req[w].step = "put" => ClaimedBy(req[w].token, req[w].copy)
                                                   /\ Shows(req[w].copy)
    BY <1>1 DEF PutsClaimed, PaidInv, PutsShow
  <2>2. QED
    BY <2>1, <1>2, <1>6 DEF PutsClaimed, ClaimedBy
<1>8. \A l \in Links : link'[l] = link[l] \/ \E terms \in Terms : link'[l] = Fresh(terms)
  BY DEF World, CreateLink, AlarmFires, KvExpires, Mine, DatePasses, TypeInv, TypeOK
<1>9. LinksClaimed'
  <2>1. ASSUME NEW l \in Links
        PROVE  link'[l].status = "Paid" /\ link'[l].paidTx \notin outlived' =>
                   claim'[link'[l].paidTx] = Committed(l)
    <3>1. CASE link'[l] = link[l]
      <4>1. ClaimedBy(l, link[l]) /\ Shows(link[l])
        BY <1>1 DEF LinksClaimed, PaidInv, LinksShow
      <4>2. QED
        BY <3>1, <4>1, <1>6 DEF ClaimedBy
    <3>2. CASE \E terms \in Terms : link'[l] = Fresh(terms)
      BY <3>2 DEF Fresh
    <3>3. QED
      BY <3>1, <3>2, <1>8
  <2>2. QED
    BY <2>1 DEF LinksClaimed, ClaimedBy
<1>10. QED
  BY <1>3, <1>5, <1>7, <1>9 DEF LockInv

LEMMA StepLock == TypeInv /\ PaidInv /\ LockInv /\ [Next]_vars => LockInv'
<1>1. SUFFICES ASSUME TypeInv, PaidInv, LockInv, [Next]_vars PROVE LockInv'
  OBVIOUS
<1>2. lockBound' = lockBound
  BY <1>1 DEF Next, Request, Continue, Abandon, World, PostInvoice, Scan, Pay, Put, Claim, KvGet,
              KvPut, KvCheck, Verify, Release, Commit, CreateLink, AlarmFires, KvExpires, Mine,
              DatePasses, vars
<1>3. CASE ~lockBound
  BY <1>2, <1>3 DEF LockInv
<1>4. CASE lockBound /\ UNCHANGED vars
  BY <1>1, <1>4 DEF vars, LockInv, HoldersClaim, HoldersAlone, NoKvSteps, LinksClaimed,
                    PutsClaimed, ClaimedBy
<1>5. ASSUME lockBound, NEW w \in Workers, Request(w) \/ Continue(w) \/ Abandon(w) PROVE LockInv'
  BY <1>1, <1>5, LockByWorker
<1>6. ASSUME lockBound, World PROVE LockInv'
  BY <1>1, <1>6, LockByWorld
<1>7. QED
  BY <1>1, <1>3, <1>4, <1>5, <1>6 DEF Next

\* With the lock bound, one transaction never pays two links unless its alarm has
\* gone off under a live request: a paid record rests on a committed claim, and a
\* claim names one link.
THEOREM OneLinkPerTx == Spec => []TxPaysOneLink
<1>1. LockInv => TxPaysOneLink
  BY ClaimValues DEF LockInv, LinksClaimed, ClaimedBy, TxPaysOneLink
<1>2. QED
  BY <1>1, StepLock, InitPaid, StepPaid, InitLock, AlwaysTyped, PTL DEF Spec

\* With the same exception no release, alarm or second request lifts a committed
\* claim.
THEOREM CommitIsForGood == Spec => CommittedForGood
<1> DEFINE Kept == \A t \in Txs \ outlived : lockBound /\ claim[t].status = "committed" =>
                                      claim'[t] = claim[t]
<1>1. TypeInv /\ LockInv /\ Next => Kept
  <2>1. SUFFICES ASSUME TypeInv, LockInv, Next, lockBound PROVE Kept
    OBVIOUS
  <2>2. HoldersClaim /\ NoKvSteps
    BY <2>1 DEF LockInv
  <2>3. ASSUME NEW w \in Workers, NEW c, SetClaim(req[w].tx, c), req[w].step \in HoldSteps PROVE Kept
    BY <2>1, <2>2, <2>3, ClaimValues DEF HoldersClaim, SetClaim, TypeInv, TypeOK
  <2>4. ASSUME NEW w \in Workers, Request(w) \/ Continue(w) \/ Abandon(w) PROVE Kept
    <3>1. CASE claim' = claim
      BY <3>1
    <3>2. CASE Claim(w)
      BY <2>1, <3>2 DEF Claim, Claimed, SetClaim, NoClaim, TypeInv, TypeOK
    <3>3. CASE Release(w) \/ Commit(w)
      BY <2>3, <3>1, <3>3 DEF Release, Commit, At, HoldSteps
    <3>4. ~KvPut(w)
      BY <2>2 DEF KvPut, At, NoKvSteps, KvSteps
    <3>5. QED
      BY <2>4, <3>1, <3>2, <3>3, <3>4 DEF Request, Continue, Abandon, PostInvoice, Scan, Pay, Put,
             KvGet, KvCheck, Verify
  <2>5. ASSUME World PROVE Kept
    BY <2>1, <2>5 DEF World, CreateLink, AlarmFires, KvExpires, Mine, DatePasses, SetClaim,
           TypeInv, TypeOK
  <2>6. QED
    BY <2>1, <2>4, <2>5 DEF Next
<1>2. TypeInv /\ LockInv /\ [Next]_vars => [Kept]_vars
  BY <1>1
<1>3. QED
  BY <1>2, StepLock, InitPaid, StepPaid, InitLock, AlwaysTyped, PTL DEF Spec, CommittedForGood

-------------------------------------------------------------------------------
(* Each transaction's lock implements ClaimLock *)

\* A step that does not concern the lock of t, as its callers see it.
Unseen(t) == UNCHANGED <<Inside(t), Held(t), Closed(t), Lapsed(t)>>

\* What a worker's step may be for the lock of t.
LEMMA LockUnseen ==
    ASSUME NEW t \in Txs, NEW w \in Workers, UNCHANGED <<lockBound, outlived>>,
           \A v \in Workers \ {w} : req'[v] = req[v],
           Holds(w, t)' = Holds(w, t), Holds(w, t) => req'[w].token = req[w].token,
           claim'[t] = claim[t]
    PROVE  Unseen(t)
<1>1. \A v \in Workers : Holds(v, t)' = Holds(v, t)
  BY DEF Holds
<1>2. \A v \in Workers : Holds(v, t) => req'[v].token = req[v].token
  OBVIOUS
<1>3. Inside(t)' = Inside(t)
  BY <1>1, <1>2 DEF Inside
<1>4. QED
  BY <1>3 DEF Unseen, Held, Closed, Lapsed

LEMMA LockLeft ==
    ASSUME lockBound, UNCHANGED <<lockBound, outlived>>, NEW t \in Txs, NEW w \in Workers,
           \A v \in Workers \ {w} : req'[v] = req[v],
           Holds(w, t), ~Holds(w, t)', req[w].token \in Links,
           \/ claim'[t] = claim[t]
           \/ claim[t].token = req[w].token /\ claim'[t] = Committed(req[w].token)
           \/ /\ claim[t].token = req[w].token /\ claim'[t] = NoClaim
              /\ claim[t].status = "committed" => t \in outlived
    PROVE  Lock(t)!Next
<1>1. \A v \in Workers : Holds(v, t)' <=> (Holds(v, t) /\ v # w)
  BY DEF Holds
<1>2. Inside(t)' = Inside(t) \ {<<w, req[w].token>>} /\ <<w, req[w].token>> \in Inside(t)
  BY <1>1 DEF Inside
<1>3. CASE claim'[t] = claim[t]
  <2>1. UNCHANGED <<Held(t), Closed(t), Lapsed(t)>>
    BY <1>3 DEF Held, Closed, Lapsed
  <2>2. Lock(t)!Leave(w, req[w].token)
    BY <1>2, <2>1 DEF Lock!Leave
  <2>3. QED
    BY <2>2 DEF Lock!Next
<1>4. CASE claim[t].token = req[w].token /\ claim'[t] = Committed(req[w].token)
  <2>1. /\ Held(t) = req[w].token /\ Held(t)' = req[w].token /\ Closed(t)' = TRUE
        /\ Lapsed(t)' = Lapsed(t)
    BY <1>4 DEF Held, Closed, Lapsed, Committed
  <2>2. Lock(t)!Leave(w, req[w].token)
    BY <1>2, <2>1 DEF Lock!Leave
  <2>3. QED
    BY <2>2 DEF Lock!Next
<1>5. CASE /\ claim[t].token = req[w].token /\ claim'[t] = NoClaim
           /\ claim[t].status = "committed" => t \in outlived
  <2>1. /\ Held(t) = req[w].token /\ Held(t)' = None /\ Closed(t)' = FALSE
        /\ Lapsed(t)' = Lapsed(t)
    BY <1>5 DEF Held, Closed, Lapsed, NoClaim
  <2>2. Closed(t) => Lapsed(t)
    BY <1>5 DEF Closed, Lapsed
  <2>3. Lock(t)!Leave(w, req[w].token)
    BY <1>2, <2>1, <2>2 DEF Lock!Leave
  <2>4. QED
    BY <2>3 DEF Lock!Next
<1>6. QED
  BY <1>3, <1>4, <1>5

LEMMA LockEntered ==
    ASSUME lockBound, UNCHANGED <<lockBound, outlived>>, NEW t \in Txs, NEW w \in Workers,
           \A v \in Workers \ {w} : req'[v] = req[v],
           t \in outlived \/ \A v \in Workers : ~Holds(v, t),
           ~Holds(w, t), Holds(w, t)', req'[w].token \in Links,
           claim[t] = NoClaim, claim'[t] = Processing(req'[w].token)
    PROVE  Lock(t)!Next
<1>1. \A v \in Workers : Holds(v, t)' <=> (Holds(v, t) \/ v = w)
  BY DEF Holds
<1>2. Inside(t)' = Inside(t) \cup {<<w, req'[w].token>>}
  BY <1>1 DEF Inside, Holds
<1>3. t \notin outlived => Inside(t) = {}
  BY DEF Inside
<1>4. /\ Held(t)' = req'[w].token /\ Closed(t)' = FALSE
      /\ Held(t) = None /\ Closed(t) = FALSE
      /\ Lapsed(t)' = Lapsed(t) /\ Lapsed(t) = (t \in outlived)
  BY DEF Held, Closed, Lapsed, NoClaim, Processing
<1>5. Lock(t)!Enter(w, req'[w].token)
  BY <1>2, <1>3, <1>4 DEF Lock!Enter
<1>6. QED
  BY <1>5 DEF Lock!Next

LEMMA LockByStep ==
    ASSUME TypeInv, LockInv, lockBound, NEW t \in Txs, NEW w \in Workers,
           Request(w) \/ Continue(w) \/ Abandon(w)
    PROVE  Lock(t)!Next \/ Unseen(t)
<1> DEFINE tx == req[w].tx
<1> DEFINE token == req[w].token
<1>1. /\ \A v \in Workers \ {w} : req'[v] = req[v]
      /\ UNCHANGED <<lockBound, chain, outlived>>
  BY OthersWait
<1>2. HoldersClaim /\ HoldersAlone /\ NoKvSteps
  BY DEF LockInv
<1>3. HoldSteps \subseteq TxSteps
  BY DEF HoldSteps, TxSteps
<1>4. req[w].step \in TxSteps => tx \in Txs /\ token \in Links
  BY RequestFields DEF TypeInv, TxKnown, TxSteps
<1>5. t \notin outlived => \A v \in Workers : Holds(v, t) => claim[t] = Processing(req[v].token)
  BY <1>2 DEF Holds, HoldersClaim, HoldSteps
\* The request ends, or has come to its last write: if it held t, it has left.
<1>9. ASSUME ~Holds(w, t)', claim'[t] = claim[t]
      PROVE  Lock(t)!Next \/ Unseen(t)
  <2>1. CASE Holds(w, t)
    <3>1. req[w].token \in Links
      BY <2>1, <1>3, <1>4 DEF Holds, HoldSteps
    <3>2. QED
      BY <2>1, <3>1, <1>1, <1>9, LockLeft
  <2>2. CASE ~Holds(w, t)
    <3>1. Holds(w, t)' = Holds(w, t)
      BY <2>2, <1>9 DEF Holds
    <3>2. QED
      BY <2>2, <3>1, <1>1, <1>9, LockUnseen
  <2>3. QED
    BY <2>1, <2>2
<1>10. Done(w) => ~Holds(w, t)'
  BY DoneLeaves DEF Holds
<1>11. ASSUME NEW l, NEW record, ThenPut(w, l, record) PROVE ~Holds(w, t)'
  BY <1>11, ThenPutLeaves DEF Holds
<1>12. CASE Request(w)
  <2>1. claim' = claim
    BY <1>12 DEF Request, PostInvoice, Scan, Pay
  <2>2. ASSUME NEW l \in Links, NEW u \in Txs, Pay(w, l, u) PROVE ~Holds(w, t)'
    <3>1. CASE req' = [req EXCEPT ![w] =
                          [step |-> "claim", token |-> l, tx |-> u, copy |-> link[l]]]
      <4>1. req'[w] = [step |-> "claim", token |-> l, tx |-> u, copy |-> link[l]]
        BY <3>1 DEF TypeInv, TypeOK
      <4>2. req'[w].step = "claim"
        BY <4>1
      <4>3. QED
        BY <4>2 DEF Holds
    <3>2. QED
      BY <2>2, <3>1, <1>11 DEF Pay
  <2>3. ~Holds(w, t)'
    BY <1>12, <2>2, <1>11 DEF Request, PostInvoice, Scan
  <2>4. QED
    BY <2>1, <2>3, <1>9
<1>13. CASE Put(w) \/ Abandon(w)
  BY <1>13, <1>9, <1>10 DEF Put, Abandon
<1>14. CASE Claim(w)
  <2>1. req[w].step = "claim" /\ tx \in Txs /\ token \in Links /\ req[w].step \in TxSteps
    BY <1>4, <1>14 DEF Claim, At, TxSteps
  <2>2. CASE Claimed(tx, token) /\ Goto(w, "verify")
    <3>1. claim[tx] = NoClaim /\ claim'[tx] = Processing(token)
          /\ \A u \in Txs \ {tx} : claim'[u] = claim[u]
      BY <2>1, <2>2 DEF Claimed, SetClaim, TypeInv, TypeOK
    <3>2. /\ req'[w].step = "verify" /\ req'[w].token = token /\ req'[w].tx = tx
      BY <2>1, <2>2, GotoLeaves
    <3>3. CASE t = tx
      <4>1. t \notin outlived => \A v \in Workers : ~Holds(v, t)
        BY <3>1, <3>3, <1>5, ClaimValues
      <4>2. Holds(w, t)' /\ ~Holds(w, t)
        BY <2>1, <3>2, <3>3 DEF Holds
      <4>3. QED
        BY <3>1, <3>3, <4>1, <4>2, <3>2, <2>1, <1>1, LockEntered
    <3>4. CASE t # tx
      BY <3>1, <3>2, <3>4, <1>9 DEF Holds
    <3>5. QED
      BY <3>3, <3>4
  <2>3. CASE Done(w) /\ UNCHANGED <<claim, alarm>>
    BY <2>3, <1>9, <1>10
  <2>4. QED
    BY <1>14, <2>2, <2>3 DEF Claim
<1>15. CASE Verify(w)
  <2>1. req[w].step = "verify" /\ req[w].step \in TxSteps /\ claim' = claim
    BY <1>15 DEF Verify, At, TxSteps
  <2>2. ASSUME NEW step \in {"commit", "release"}, Goto(w, step) PROVE Unseen(t)
    <3>1. req'[w].step = step /\ req'[w].token = token /\ req'[w].tx = tx
      BY <2>1, <2>2, GotoLeaves
    <3>2. Holds(w, t)' = Holds(w, t)
      BY <2>1, <3>1 DEF Holds
    <3>3. QED
      BY <2>1, <3>1, <3>2, <1>1, LockUnseen
  <2>3. QED
    BY <1>15, <2>1, <2>2, <1>9, <1>10 DEF Verify
<1>16. CASE Release(w)
  <2>1. req[w].step = "release" /\ tx \in Txs /\ token \in Links /\ Done(w)
        /\ ((claim[tx].token = token /\ SetClaim(tx, NoClaim)) \/ claim' = claim)
    BY <1>16, <1>4 DEF Release, At, TxSteps
  <2>2. CASE t = tx /\ claim' # claim
    <3>1. Holds(w, t) /\ ~Holds(w, t)'
      BY <2>1, <2>2, <1>10 DEF Holds
    <3>2. claim[t].status = "committed" => t \in outlived
      BY <3>1, <1>5, ClaimValues
    <3>3. claim[t].token = token /\ claim'[t] = NoClaim
      BY <2>1, <2>2 DEF SetClaim, TypeInv, TypeOK
    <3>4. QED
      BY <2>1, <3>1, <3>2, <3>3, <1>1, LockLeft
  <2>3. CASE t # tx \/ claim' = claim
    <3>1. claim'[t] = claim[t]
      BY <2>1, <2>3 DEF SetClaim, TypeInv, TypeOK
    <3>2. QED
      BY <2>1, <3>1, <1>9, <1>10
  <2>4. QED
    BY <2>2, <2>3
<1>17. CASE Commit(w)
  <2>1. req[w].step = "commit" /\ tx \in Txs /\ token \in Links /\ ~Holds(w, t)'
        /\ ((claim[tx].token = token /\ SetClaim(tx, Committed(token))) \/ claim' = claim)
    BY <1>17, <1>4, <1>11 DEF Commit, At, TxSteps
  <2>2. CASE t = tx /\ claim' # claim
    <3>1. Holds(w, t)
      BY <2>1, <2>2 DEF Holds
    <3>2. claim[t].token = token /\ claim'[t] = Committed(token)
      BY <2>1, <2>2 DEF SetClaim, TypeInv, TypeOK
    <3>3. QED
      BY <2>1, <3>1, <3>2, <1>1, LockLeft
  <2>3. CASE t # tx \/ claim' = claim
    <3>1. claim'[t] = claim[t]
      BY <2>1, <2>3 DEF SetClaim, TypeInv, TypeOK
    <3>2. QED
      BY <2>1, <3>1, <1>9
  <2>4. QED
    BY <2>2, <2>3
<1>18. ~KvGet(w) /\ ~KvPut(w) /\ ~KvCheck(w)
  BY <1>2 DEF KvGet, KvPut, KvCheck, At, NoKvSteps, KvSteps
<1>19. QED
  BY <1>12, <1>13, <1>14, <1>15, <1>16, <1>17, <1>18 DEF Continue

LEMMA LockByTheWorld ==
    ASSUME TypeInv, LockInv, World, NEW t \in Txs
    PROVE  Lock(t)!Next \/ Unseen(t)
<1>1. req' = req /\ lockBound' = lockBound
  BY DEF World, CreateLink, AlarmFires, KvExpires, Mine, DatePasses
<1>2. Inside(t)' = Inside(t)
  BY <1>1 DEF Inside, Holds
<1>3. CASE ~lockBound
  BY <1>1, <1>2, <1>3 DEF Unseen, Held, Closed, Lapsed
<1>4. ASSUME lockBound, claim'[t] = claim[t], t \in outlived' <=> t \in outlived
      PROVE  Unseen(t)
  BY <1>1, <1>2, <1>4 DEF Unseen, Held, Closed, Lapsed
<1>5. ASSUME lockBound, AlarmFires(t)
      PROVE  Lock(t)!Next \/ Unseen(t)
  <2>1. t \in outlived' <=> (t \in outlived \/ Inside(t) # {})
    BY <1>5 DEF AlarmFires, Inside
  <2>2. CASE claim[t].status = "processing"
    <3>1. claim'[t] = NoClaim
      BY <1>5, <2>2 DEF AlarmFires, SetClaim, TypeInv, TypeOK
    <3>2. /\ Held(t)' = None /\ ~Closed(t) /\ ~Closed(t)'
          /\ Lapsed(t)' = (Lapsed(t) \/ Inside(t) # {})
      BY <1>1, <1>5, <2>1, <2>2, <3>1 DEF Held, Closed, Lapsed, NoClaim
    <3>3. Lock(t)!Alarm
      BY <1>2, <3>2 DEF Lock!Alarm, Closed
    <3>4. QED
      BY <3>3 DEF Lock!Next
  <2>3. CASE claim[t].status # "processing"
    <3>1. claim' = claim
      BY <1>5, <2>3 DEF AlarmFires
    <3>2. t \notin outlived => Inside(t) = {}
      BY <1>5, <2>3, ClaimValues DEF Inside, Holds, LockInv, HoldersClaim, HoldSteps
    <3>3. QED
      BY <1>4, <1>5, <2>1, <3>1, <3>2
  <2>4. QED
    BY <2>2, <2>3
<1>6. ASSUME NEW u \in Txs \ {t}, AlarmFires(u)
      PROVE  claim'[t] = claim[t] /\ (t \in outlived' <=> t \in outlived)
  BY <1>6 DEF AlarmFires, SetClaim, TypeInv, TypeOK
<1>7. QED
  BY <1>3, <1>4, <1>5, <1>6 DEF World, CreateLink, KvExpires, Mine, DatePasses

LEMMA LockByNext ==
    ASSUME TypeInv, LockInv, [Next]_vars, NEW t \in Txs
    PROVE  [Lock(t)!Next]_(Lock(t)!vars)
<1>1. CASE UNCHANGED vars
  BY <1>1 DEF vars, Lock!vars, Inside, Held, Closed, Lapsed, Holds
<1>2. CASE World
  BY <1>2, LockByTheWorld DEF Unseen, Lock!vars
<1>3. ASSUME NEW w \in Workers, Request(w) \/ Continue(w) \/ Abandon(w)
      PROVE  Lock(t)!Next \/ Unseen(t)
  <2>1. CASE lockBound
    BY <1>3, <2>1, LockByStep
  <2>2. CASE ~lockBound
    BY <1>3, <2>2, OthersWait DEF Unseen, Inside, Held, Closed, Lapsed
  <2>3. QED
    BY <2>1, <2>2
<1>4. QED
  BY <1>1, <1>2, <1>3 DEF Next, Unseen, Lock!vars

LEMMA LockInitially ==
    ASSUME Init, NEW t \in Txs
    PROVE  Lock(t)!Init
  BY DEF Init, Lock!Init, Inside, Held, Closed, Lapsed, Holds, Idle, NoClaim

\* What the workers and the alarm do to the lock of a transaction is what ClaimLock
\* allows, however long requests take: they enter one at a time, for one link, and
\* none after one has left with the transaction committed to its link, until an
\* alarm goes off under a live request, and even then no request touches the claim
\* of another link.
THEOREM LockRefined == Spec => ImplementsLock
<1>1. Init => \A t \in Txs : Lock(t)!Init
  BY LockInitially
<1>2. TypeInv /\ LockInv /\ [Next]_vars => [\A t \in Txs : [Lock(t)!Next]_(Lock(t)!vars)]_vars
  BY LockByNext
<1>3. QED
  BY <1>1, <1>2, StepLock, InitPaid, StepPaid, InitLock, AlwaysTyped, PTL DEF Spec, ImplementsLock

\* The same as the refinement of one lock by one transaction.
THEOREM EachLockRefined ==
    ASSUME NEW t \in Txs
    PROVE  Spec => Lock(t)!Spec
<1>1. Init => Lock(t)!Init
  BY LockInitially
<1>2. TypeInv /\ LockInv /\ [Next]_vars => [Lock(t)!Next]_(Lock(t)!vars)
  BY LockByNext
<1>3. QED
  BY <1>1, <1>2, StepLock, InitPaid, StepPaid, InitLock, AlwaysTyped, PTL DEF Spec, Lock!Spec

-------------------------------------------------------------------------------
(* A transaction is not left blocked *)

\* With the lock, a claim that is not committed has its alarm set.
RunningHasAlarm ==
    lockBound => \A t \in Txs : claim[t].status = "processing" => t \in alarm

AlarmInv == RunningHasAlarm /\ (lockBound => NoKvSteps)

\* What the lock does with a claim and its alarm together keeps the invariant.
LEMMA AlarmByClaim ==
    ASSUME TypeInv, RunningHasAlarm, NEW t \in Txs, NEW c,
           \/ SetClaim(t, c) /\ alarm' = alarm \cup {t}
           \/ SetClaim(t, c) /\ c.status # "processing" /\ alarm' = alarm \ {t}
           \/ UNCHANGED <<claim, alarm>>
    PROVE  lockBound => \A u \in Txs : claim'[u].status = "processing" => u \in alarm'
  BY DEF RunningHasAlarm, SetClaim, TypeInv, TypeOK

LEMMA AlarmByWorker ==
    ASSUME TypeInv, AlarmInv, NEW w \in Workers, Request(w) \/ Continue(w) \/ Abandon(w)
    PROVE  AlarmInv'
<1> DEFINE tx == req[w].tx
<1> DEFINE Kept == lockBound => \A u \in Txs : claim'[u].status = "processing" => u \in alarm'
<1>1. /\ \A v \in Workers \ {w} : req'[v] = req[v]
      /\ UNCHANGED <<lockBound, chain, outlived>>
  BY OthersWait
<1>2. RunningHasAlarm /\ (lockBound => NoKvSteps)
  BY DEF AlarmInv
<1>3. req[w].step \in TxSteps => tx \in Txs
  BY DEF TypeInv, TxKnown
<1>4. ASSUME UNCHANGED <<claim, alarm>> PROVE Kept
  BY <1>2, <1>4 DEF RunningHasAlarm
<1>5. ASSUME Claim(w) PROVE Kept
  <2>1. req[w].step \in TxSteps
    BY <1>5 DEF Claim, At, TxSteps
  <2>2. ASSUME Claimed(tx, req[w].token) PROVE Kept
    BY <1>2, <1>3, <2>1, <2>2, AlarmByClaim DEF Claimed
  <2>3. QED
    BY <1>4, <1>5, <2>2 DEF Claim
<1>6. ASSUME Release(w) PROVE Kept
  <2>1. req[w].step \in TxSteps
    BY <1>6 DEF Release, At, TxSteps
  <2>2. NoClaim.status # "processing"
    BY DEF NoClaim
  <2>3. ASSUME SetClaim(tx, NoClaim), alarm' = alarm \ {tx} PROVE Kept
    BY <1>2, <1>3, <2>1, <2>2, <2>3, AlarmByClaim
  <2>4. QED
    BY <1>4, <1>6, <2>3 DEF Release
<1>7. ASSUME Commit(w) PROVE Kept
  <2>1. req[w].step \in TxSteps
    BY <1>7 DEF Commit, At, TxSteps
  <2>2. Committed(req[w].token).status # "processing"
    BY DEF Committed
  <2>3. ASSUME SetClaim(tx, Committed(req[w].token)), alarm' = alarm \ {tx} PROVE Kept
    BY <1>2, <1>3, <2>1, <2>2, <2>3, AlarmByClaim
  <2>4. QED
    BY <1>4, <1>7, <2>3 DEF Commit
<1>8. lockBound => ~KvPut(w)
  BY <1>2 DEF KvPut, At, NoKvSteps, KvSteps
<1>9. RunningHasAlarm'
  BY <1>1, <1>4, <1>5, <1>6, <1>7, <1>8
  DEF RunningHasAlarm, Request, Continue, Abandon, PostInvoice, Scan, Pay, Put, KvGet, KvCheck, Verify
\* Only without the lock does a worker go to the KV key.
<1>10. ASSUME lockBound PROVE req'[w].step \notin KvSteps
  <2>1. req[w].step \notin KvSteps
    BY <1>2, <1>10 DEF NoKvSteps
  <2>2. ASSUME NEW step \in {"verify", "commit", "release"}, req[w].step \in TxSteps, Goto(w, step)
        PROVE  req'[w].step \notin KvSteps
    BY <2>2, GotoLeaves DEF KvSteps
  <2>3. Done(w) => req'[w].step \notin KvSteps
    BY DoneLeaves DEF KvSteps
  <2>4. ASSUME NEW l, NEW record, ThenPut(w, l, record) PROVE req'[w].step \notin KvSteps
    BY <2>4, ThenPutLeaves DEF KvSteps
  <2>5. ASSUME NEW l \in Links, NEW t \in Txs, Pay(w, l, t) PROVE req'[w].step \notin KvSteps
    <3>1. CASE req' = [req EXCEPT ![w] =
                          [step |-> "claim", token |-> l, tx |-> t, copy |-> link[l]]]
      <4>1. req'[w] = [step |-> "claim", token |-> l, tx |-> t, copy |-> link[l]]
        BY <3>1 DEF TypeInv, TypeOK
      <4>2. req'[w].step = "claim"
        BY <4>1
      <4>3. QED
        BY <4>2 DEF KvSteps
    <3>2. QED
      BY <2>4, <2>5, <3>1 DEF Pay
  <2>6. CASE Request(w)
    BY <2>4, <2>5, <2>6 DEF Request, PostInvoice, Scan
  <2>7. CASE Claim(w) \/ Verify(w)
    BY <2>2, <2>3, <2>7 DEF Claim, Verify, At, TxSteps
  <2>8. CASE Put(w) \/ Release(w) \/ Commit(w) \/ Abandon(w)
    BY <2>3, <2>4, <2>8 DEF Put, Release, Commit, Abandon
  <2>9. ~KvGet(w) /\ ~KvPut(w) /\ ~KvCheck(w)
    BY <1>10, <2>1 DEF KvGet, KvPut, KvCheck, At, KvSteps
  <2>10. QED
    BY <2>6, <2>7, <2>8, <2>9 DEF Continue
<1>11. QED
  BY <1>1, <1>2, <1>9, <1>10 DEF AlarmInv, NoKvSteps

LEMMA StepAlarm == TypeInv /\ AlarmInv /\ [Next]_vars => AlarmInv'
<1>1. SUFFICES ASSUME TypeInv, AlarmInv, [Next]_vars PROVE AlarmInv'
  OBVIOUS
<1>2. ASSUME NEW w \in Workers, Request(w) \/ Continue(w) \/ Abandon(w) PROVE AlarmInv'
  BY <1>1, <1>2, AlarmByWorker
<1>3. ASSUME UNCHANGED <<lockBound, req>>,
             lockBound => \A t \in Txs :
                 \/ claim'[t] = claim[t] /\ (t \in alarm => t \in alarm')
                 \/ claim'[t].status # "processing"
      PROVE  AlarmInv'
  BY <1>1, <1>3 DEF AlarmInv, RunningHasAlarm, NoKvSteps
<1>4. CASE World
  <2>1. UNCHANGED <<lockBound, req>>
    BY <1>4 DEF World, CreateLink, AlarmFires, KvExpires, Mine, DatePasses
  <2>2. ASSUME NEW u \in Txs, AlarmFires(u), NEW t \in Txs
        PROVE  \/ claim'[t] = claim[t] /\ (t \in alarm => t \in alarm')
               \/ claim'[t].status # "processing"
    <3>1. CASE t # u
      BY <1>1, <2>2, <3>1 DEF AlarmFires, SetClaim, TypeInv, TypeOK
    <3>2. CASE t = u /\ claim[t].status = "processing"
      BY <1>1, <2>2, <3>2 DEF AlarmFires, SetClaim, NoClaim, TypeInv, TypeOK
    <3>3. CASE t = u /\ claim[t].status # "processing"
      BY <2>2, <3>3 DEF AlarmFires
    <3>4. QED
      BY <3>1, <3>2, <3>3
  <2>3. QED
    BY <1>3, <1>4, <2>1, <2>2 DEF World, CreateLink, KvExpires, Mine, DatePasses
<1>5. CASE UNCHANGED vars
  BY <1>3, <1>5 DEF vars
<1>6. QED
  BY <1>1, <1>2, <1>4, <1>5 DEF Next

\* However long requests take, and wherever they are abandoned, a claim that runs is
\* one whose alarm is still to fire: the safety half of ClaimsResolve.
THEOREM ClaimHasAlarm == Spec => []RunningHasAlarm
<1>1. Init => AlarmInv
  BY DEF Init, AlarmInv, RunningHasAlarm, NoKvSteps, KvSteps, Idle, NoClaim
<1>2. AlarmInv => RunningHasAlarm
  BY DEF AlarmInv
<1>3. QED
  BY <1>1, <1>2, StepAlarm, AlwaysTyped, PTL DEF Spec

===============================================================================
