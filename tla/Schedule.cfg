SPECIFICATION Spec
CONSTANTS
    k1 = k1  k2 = k2
    t1 = t1  t2 = t2
    None = None
    Tabs = {t1, t2}
    Keys = {k1, k2}
    Rows <- OneRow
    Multisends = {}
    RetryMax = 1
    MaxSends = 2
    Kinds = {"crash"}
    MaxFaults = 1
INVARIANTS TypeOK PaidOnce ExecutedIsPaid OneRunner
SYMMETRY Symmetry
CONSTRAINT Apart
CHECK_DEADLOCK FALSE
