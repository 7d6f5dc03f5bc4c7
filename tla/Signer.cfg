\* Two executions of one wallet, two proofs, and a fault; or two mailed codes.
SPECIFICATION Spec
CONSTANTS
    e1 = e1  e2 = e2
    a1 = a1  a2 = a2
    n1 = n1
    c1 = c1
    m1 = m1  m2 = m2
    p1 = p1  p2 = p2
    w1 = w1  w2 = w2
    None = None
    Executions = {e1, e2}
    Terms <- BothAmounts
    Declarations <- OrNone
    Calls = {c1}
    Mails = {m1, m2}
    Proofs = {p1, p2}
    Workers = {w1, w2}
    MaxNonce = 1
    MaxFaults = 1
INVARIANTS TypeOK OneTransaction  SubmittedIsSent CodeUsedOnce
PROPERTIES SubmittedForGood
CONSTRAINT Apart
SYMMETRY Symmetry
CHECK_DEADLOCK FALSE
