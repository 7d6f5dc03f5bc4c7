\* A payment link and an invoice, one transaction, with and without the lock.
SPECIFICATION FairSpec
CONSTANTS
    l1 = l1  l2 = l2
    a = a  b = b
    t1 = t1  t2 = t2
    w1 = w1  w2 = w2
    None = None
    Links = {l1, l2}
    Invoices = {l2}
    Terms = {a, b}
    Txs = {t1}
    Workers = {w1, w2}
    Deployments = {TRUE, FALSE}
INVARIANTS TypeOK PaidVerified TxPaysOneLink
PROPERTIES ImplementsLock ClaimsResolve
CHECK_DEADLOCK FALSE
