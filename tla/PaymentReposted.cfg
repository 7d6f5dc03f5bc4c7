\* An invoice that is posted again, or scanned, while it is being paid.
SPECIFICATION Spec
CONSTANTS
    l1 = l1  l2 = l2
    a = a  b = b
    t1 = t1  t2 = t2
    w1 = w1  w2 = w2
    None = None
    Links = {l2}
    Invoices = {l2}
    Terms = {a}
    Txs = {t1}
    Workers = {w1, w2}
    Deployments = {TRUE}
PROPERTY PaidIsFinal
CHECK_DEADLOCK FALSE
