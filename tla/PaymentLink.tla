----------------------------- MODULE PaymentLink -----------------------------
(***************************************************************************)
(* Payment links and invoices: the records in the KV namespace             *)
(* PAYMENT_LINKS, the handlers of /api/payment/<token>, /api/payment-links *)
(* and /api/invoice that read and overwrite them, and the PaymentLock that *)
(* gives each transaction to one link.                                     *)
(*                                                                         *)
(* A handler reads a record, waits (for the lock, for an RPC node), and    *)
(* writes the whole record back from the copy it read.  A worker serves    *)
(* one request at a time, and its steps are the awaits of the handler: the *)
(* steps of other workers, the lock's alarm, the clock and the chain come  *)
(* in between.  A request may be abandoned at any step: an exception ends  *)
(* it with a 500, a dead worker with nothing.                              *)
(*                                                                         *)
(* A stale read of KV needs no step of its own: it is a read made earlier  *)
(* by a worker that goes on later.                                         *)
(***************************************************************************)
EXTENDS Naturals

CONSTANTS
    Links,          \* tokens of links and invoices
    Invoices,       \* those created by /api/invoice, which may be posted again
    Terms,          \* what is to be paid to whom, and until when
    Txs,            \* transactions
    Workers,
    Deployments,    \* values PAYMENT_LOCK's presence may take
    None

ASSUME PaymentAssumption ==
    /\ Invoices \subseteq Links
    /\ Deployments \subseteq BOOLEAN
    /\ None \notin Links \cup Terms \cup Txs

VARIABLES
    lockBound,  \* PAYMENT_LOCK is bound
    link,       \* the record of each token
    claim,      \* who may use each transaction: in the lock, or in a KV key
    alarm,      \* transactions whose lock has an alarm set
    req,        \* the request each worker serves
    chain,      \* what each transaction did
    late,       \* terms whose expiry date is past
    outlived    \* transactions whose alarm has gone off under a live request

vars == <<lockBound, link, claim, alarm, req, chain, late, outlived>>

-------------------------------------------------------------------------------
(* Values *)

NoLink       == [status |-> "absent", terms |-> None, paidTx |-> None]
Fresh(terms) == [status |-> "Active", terms |-> terms, paidTx |-> None]
LinkRecords  == [status : {"absent", "Active", "Paid", "Expired"},
                 terms  : Terms \cup {None},
                 paidTx : Txs \cup {None}]

AsExpired(record) == [record EXCEPT !.status = "Expired"]
AsPaid(record, t) == [record EXCEPT !.status = "Paid", !.paidTx = t]

NoClaim       == [token |-> None, status |-> "free"]
Processing(l) == [token |-> l, status |-> "processing"]
Committed(l)  == [token |-> l, status |-> "committed"]
Claims        == {NoClaim} \cup [token : Links, status : {"processing", "committed"}]

Idle     == [step |-> "idle", token |-> None, tx |-> None, copy |-> NoLink]
Steps    == {"claim", "kvPut", "kvCheck", "verify", "release", "commit", "put"}
Requests == {Idle} \cup [step : Steps, token : Links, tx : Txs \cup {None}, copy : LinkRecords]

Pending  == [mined |-> FALSE, ok |-> FALSE, pays |-> {}]
Receipts == [mined : BOOLEAN, ok : BOOLEAN, pays : SUBSET Terms]

Init ==
    /\ lockBound \in Deployments
    /\ link = [l \in Links |-> NoLink]
    /\ claim = [t \in Txs |-> NoClaim]
    /\ alarm = {}
    /\ req = [w \in Workers |-> Idle]
    /\ chain = [t \in Txs |-> Pending]
    /\ late = {} /\ outlived = {}

\* What a worker does next, or that its request is over.
Goto(w, step)  == req' = [req EXCEPT ![w].step = step]
Done(w)        == req' = [req EXCEPT ![w] = Idle]
ThenPut(w, l, record) ==
    req' = [req EXCEPT ![w] = [step |-> "put", token |-> l, tx |-> None, copy |-> record]]

At(w, step) == req[w].step = step

-------------------------------------------------------------------------------
(* Creating links and invoices *)

\* A payment link gets a fresh random token: one unconditional write.
CreateLink(l, terms) ==
    /\ l \notin Invoices /\ link[l] = NoLink
    /\ link' = [link EXCEPT ![l] = Fresh(terms)]
    /\ UNCHANGED <<lockBound, claim, alarm, req, chain, late, outlived>>

\* The client names the invoice and its owner may post it again, with other
\* terms; the record read here decides, a new one is written later.
PostInvoice(w, l, terms) ==
    /\ At(w, "idle") /\ l \in Invoices
    /\ link[l].status # "Paid"
    /\ ThenPut(w, l, Fresh(terms))
    /\ UNCHANGED <<lockBound, link, claim, alarm, chain, late, outlived>>

\* Every handler writes a whole record, built from what it read.
Put(w) ==
    /\ At(w, "put")
    /\ link' = [link EXCEPT ![req[w].token] = req[w].copy]
    /\ Done(w)
    /\ UNCHANGED <<lockBound, claim, alarm, chain, late, outlived>>

-------------------------------------------------------------------------------
(* GET: counts the scan, or marks the link as expired *)

IsLate(record) == record.status = "Active" /\ record.terms \in late

Scan(w, l) ==
    /\ At(w, "idle")
    /\ link[l].status \notin {"absent", "Expired"}
    /\ ThenPut(w, l, IF IsLate(link[l]) THEN AsExpired(link[l]) ELSE link[l])
    /\ UNCHANGED <<lockBound, link, claim, alarm, chain, late, outlived>>

-------------------------------------------------------------------------------
(* POST: claim the transaction, verify it, mark the link as paid *)

Pay(w, l, t) ==
    /\ At(w, "idle")
    /\ link[l].status = "Active"
    /\ \/ IsLate(link[l]) /\ ThenPut(w, l, AsExpired(link[l]))
       \/ /\ ~IsLate(link[l])
          /\ req' = [req EXCEPT ![w] =
                        [step |-> "claim", token |-> l, tx |-> t, copy |-> link[l]]]
    /\ UNCHANGED <<lockBound, link, claim, alarm, chain, late, outlived>>

SetClaim(t, c) == claim' = [claim EXCEPT ![t] = c]

\* Mutants of Claimed: the claim does not say whose it is; no alarm; an existing
\* claim of the same link, or of any link, taken for a new one.
Claimed_Unnamed(t, l) ==
    /\ claim[t] = NoClaim
    /\ SetClaim(t, Processing(None))
    /\ alarm' = alarm \cup {t}

Claimed_NoAlarm(t, l) ==
    /\ claim[t] = NoClaim
    /\ SetClaim(t, Processing(l))
    /\ UNCHANGED alarm

Claimed_Same(t, l) ==
    /\ claim[t].token \in {None, l}
    /\ \/ claim[t] # NoClaim /\ UNCHANGED <<claim, alarm>>
       \/ claim[t] = NoClaim /\ SetClaim(t, Processing(l)) /\ alarm' = alarm \cup {t}

Claimed_Any(t, l) ==
    /\ claim[t].status # "committed"
    /\ SetClaim(t, Processing(l))
    /\ alarm' = alarm \cup {t}

\* PaymentLock 'claim': true, with the alarm set, when there was none.
Claimed(t, l) ==
    /\ claim[t] = NoClaim
    /\ SetClaim(t, Processing(l))
    /\ alarm' = alarm \cup {t}

\* Any other answer ends the request: 'same' with the record as it is now and
\* ok, false with a 409.
Claim(w) ==
    /\ At(w, "claim") /\ lockBound
    /\ \/ Claimed(req[w].tx, req[w].token) /\ Goto(w, "verify")
       \/ claim[req[w].tx] # NoClaim /\ Done(w) /\ UNCHANGED <<claim, alarm>>
    /\ UNCHANGED <<lockBound, link, chain, late, outlived>>

\* Without the lock: a sentinel under a KV key.  Another's 'processing' is
\* ignored, and overwritten.
KvGet(w) ==
    /\ At(w, "claim") /\ ~lockBound
    /\ IF claim[req[w].tx].status = "committed" THEN Done(w) ELSE Goto(w, "kvPut")
    /\ UNCHANGED <<lockBound, link, claim, alarm, chain, late, outlived>>

KvPut(w) ==
    /\ At(w, "kvPut")
    /\ SetClaim(req[w].tx, Processing(req[w].token))
    /\ Goto(w, "kvCheck")
    /\ UNCHANGED <<lockBound, link, alarm, chain, late, outlived>>

KvCheck(w) ==
    /\ At(w, "kvCheck")
    /\ IF claim[req[w].tx].token \in {None, req[w].token} THEN Goto(w, "verify") ELSE Done(w)
    /\ UNCHANGED <<lockBound, link, claim, alarm, chain, late, outlived>>


\* Mutant of Accepts: any transfer of the token will do.
Accepts_AnyTransfer(t, terms) == chain[t].mined /\ chain[t].ok /\ chain[t].pays # {}

\* The receipt is there, did not revert, and its logs show a transfer of the
\* amount to the recipient.
Accepts(t, terms) == chain[t].mined /\ chain[t].ok /\ terms \in chain[t].pays

\* The receipt decides, against the copy of the record.  A transaction that is
\* unknown or reverted, or a chain that is not supported, leaves the claim to
\* its alarm; a transfer that does not match, or a fee that is not proved,
\* releases it.
Verify(w) ==
    /\ At(w, "verify")
    /\ \/ Accepts(req[w].tx, req[w].copy.terms) /\ Goto(w, "commit")
       \/ chain[req[w].tx].mined /\ chain[req[w].tx].ok /\ lockBound /\ Goto(w, "release")
       \/ Done(w)
    /\ UNCHANGED <<lockBound, link, claim, alarm, chain, late, outlived>>

\* PaymentLock 'release': only the claim of the same token, whatever its status.
Release(w) ==
    /\ At(w, "release")
    /\ IF claim[req[w].tx].token = req[w].token
       THEN SetClaim(req[w].tx, NoClaim) /\ alarm' = alarm \ {req[w].tx}
       ELSE UNCHANGED <<claim, alarm>>
    /\ Done(w)
    /\ UNCHANGED <<lockBound, link, chain, late, outlived>>

\* PaymentLock 'commit' answers 409 when the claim is gone or another's, but the
\* caller does not look at the answer.  The KV key is simply overwritten.
Commit(w) ==
    /\ At(w, "commit")
    /\ IF ~lockBound \/ claim[req[w].tx].token = req[w].token
       THEN SetClaim(req[w].tx, Committed(req[w].token)) /\ alarm' = alarm \ {req[w].tx}
       ELSE UNCHANGED <<claim, alarm>>
    /\ ThenPut(w, req[w].token, AsPaid(req[w].copy, req[w].tx))
    /\ UNCHANGED <<lockBound, link, chain, late, outlived>>

Abandon(w) ==
    /\ ~At(w, "idle")
    /\ Done(w)
    /\ UNCHANGED <<lockBound, link, claim, alarm, chain, late, outlived>>

-------------------------------------------------------------------------------
(* Time and the chain *)

\* A request that got this claim is still running.
Holds(w, t) == req[w].tx = t /\ req[w].step \in {"verify", "release", "commit"}

\* PaymentLock's alarm, 60 s after the claim, whether or not the request that
\* made the claim is still verifying.
AlarmFires(t) ==
    /\ t \in alarm
    /\ alarm' = alarm \ {t}
    /\ IF claim[t].status = "processing" THEN SetClaim(t, NoClaim) ELSE UNCHANGED claim
    /\ outlived' = IF \E w \in Workers : Holds(w, t) THEN outlived \cup {t} ELSE outlived
    /\ UNCHANGED <<lockBound, link, req, chain, late>>

\* KV keys expire: a sentinel after 60 s, a claim after 7 days.
KvExpires(t) ==
    /\ ~lockBound /\ claim[t] # NoClaim
    /\ SetClaim(t, NoClaim)
    /\ UNCHANGED <<lockBound, link, alarm, req, chain, late, outlived>>

\* A transaction that reverted transferred nothing.
Mine(t, ok, paid) ==
    /\ ~chain[t].mined
    /\ ok \/ paid = {}
    /\ chain' = [chain EXCEPT ![t] = [mined |-> TRUE, ok |-> ok, pays |-> paid]]
    /\ UNCHANGED <<lockBound, link, claim, alarm, req, late, outlived>>

DatePasses(terms) ==
    /\ terms \notin late
    /\ late' = late \cup {terms}
    /\ UNCHANGED <<lockBound, link, claim, alarm, req, chain, outlived>>

-------------------------------------------------------------------------------
(* Specification *)

Request(w) ==
    \/ \E l \in Links, terms \in Terms : PostInvoice(w, l, terms)
    \/ \E l \in Links : Scan(w, l)
    \/ \E l \in Links, t \in Txs : Pay(w, l, t)

Continue(w) ==
    \/ Put(w) \/ Claim(w) \/ KvGet(w) \/ KvPut(w) \/ KvCheck(w)
    \/ Verify(w) \/ Release(w) \/ Commit(w)

World ==
    \/ \E l \in Links, terms \in Terms : CreateLink(l, terms)
    \/ \E t \in Txs : AlarmFires(t) \/ KvExpires(t)
    \/ \E t \in Txs, ok \in BOOLEAN, paid \in SUBSET Terms : Mine(t, ok, paid)
    \/ \E terms \in Terms : DatePasses(terms)

Next ==
    \/ \E w \in Workers : Request(w) \/ Continue(w) \/ Abandon(w)
    \/ World

Spec == Init /\ [][Next]_vars

\* A worker finishes or abandons what it serves, and an alarm that was set
\* fires: the runtime guarantees both.
FairSpec ==
    /\ Spec
    /\ \A w \in Workers : WF_vars(Continue(w))
    /\ \A t \in Txs : WF_vars(AlarmFires(t))

-------------------------------------------------------------------------------
(* Properties *)

TypeOK ==
    /\ lockBound \in BOOLEAN
    /\ link \in [Links -> LinkRecords]
    /\ claim \in [Txs -> Claims]
    /\ alarm \subseteq Txs
    /\ req \in [Workers -> Requests]
    /\ chain \in [Txs -> Receipts]
    /\ late \subseteq Terms
    /\ outlived \subseteq Txs

\* A link is shown as paid only by a transaction that did transfer the terms
\* the record states now, although the terms may have been changed, or the
\* record overwritten, while the transaction was verified.
PaidVerified ==
    \A l \in Links : link[l].status = "Paid" =>
        /\ link[l].paidTx \in Txs
        /\ link[l].terms \in chain[link[l].paidTx].pays

\* With the lock, one transaction never pays two links, however their requests
\* interleave, are abandoned and retried, unless a request was still verifying
\* the transaction when the alarm of its claim went off.
TxPaysOneLink ==
    lockBound => \A l, m \in Links :
        /\ l # m
        /\ link[l].status = "Paid" /\ link[m].status = "Paid"
        /\ link[l].paidTx = link[m].paidTx
        => link[l].paidTx \in outlived

\* With the lock, a committed claim is never lifted, with the same exception: no
\* release, alarm or second request of the same link makes the transaction
\* usable again.
CommittedForGood ==
    [][\A t \in Txs \ outlived : lockBound /\ claim[t].status = "committed" =>
          claim'[t] = claim[t]]_vars

\* With the lock, a transaction does not stay blocked by a request that was
\* abandoned or that left its claim behind.
ClaimsResolve ==
    \A t \in Txs : lockBound /\ claim[t].status = "processing"
                        ~> claim[t].status # "processing"

\* A paid link stays paid, by the same transaction.
PaidIsFinal ==
    [][\A l \in Links : link[l].status = "Paid" => link'[l] = link[l]]_vars
-------------------------------------------------------------------------------
(* The lock as its callers see it *)

\* Who has won a claim and not yet ended it, and whom PaymentLock holds the
\* transaction for.  A worker without the binding uses no lock.
Inside(t) ==
    {<<w, req[w].token>> : w \in {v \in Workers : lockBound /\ Holds(v, t)}}

Held(t)   == IF lockBound THEN claim[t].token ELSE None
Closed(t) == lockBound /\ claim[t].status = "committed"
Lapsed(t) == lockBound /\ t \in outlived

Lock(t) == INSTANCE ClaimLock WITH
    Clients <- Workers, Owners <- Links,
    inside <- Inside(t), held <- Held(t), closed <- Closed(t), lapsed <- Lapsed(t)

\* The lock of every transaction lets one request in at a time, and none once a
\* link has been paid with the transaction, until an alarm goes off under a live
\* request; from then on it still keeps each link's claim from the requests of
\* other links.
ImplementsLock ==
    /\ \A t \in Txs : Lock(t)!Init
    /\ [][\A t \in Txs : [Lock(t)!Next]_(Lock(t)!vars)]_vars
==============================================================================
