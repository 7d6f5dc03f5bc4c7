SPECIFICATION Spec
CONSTANTS
    k1 = k1  k2 = k2
    t1 = t1  t2 = t2
    None = None
    Tabs = {t1}
    Keys = {k2}
    Rows <- SecondHasTwo
    Multisends = {k2}
    RetryMax = 1
    MaxSends = 2
    Kinds = {"crash", "refusal", "answer", "record", "receipt"}
    MaxFaults = 0
INVARIANT ExecutedPaysAll
CHECK_DEADLOCK FALSE
