SPECIFICATION FairSpec
CONSTANTS
    k1 = k1  k2 = k2
    t1 = t1  t2 = t2
    None = None
    Tabs = {t1}
    Keys = {k1, k2}
    Rows <- SecondHasTwo
    Multisends = {k2}
    RetryMax = 1
    MaxSends = 2
    Kinds = {"crash", "refusal", "answer", "record", "receipt"}
    MaxFaults = 2
INVARIANTS PaymentSentOnce PaidOnce
PROPERTY DueResolves
CONSTRAINT QuietDays
CHECK_DEADLOCK FALSE
