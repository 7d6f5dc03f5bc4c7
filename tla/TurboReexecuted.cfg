\* The status endpoint's promise, for an intent that is executed again.
SPECIFICATION FairSpec
CONSTANTS
    i1 = i1
    b1 = b1  b2 = b2
    w1 = w1  w2 = w2
    None = None
    Intents = {i1}
    Burns = {b1}
    Workers = {w1, w2}
    MaxExecutes = 2
    MaxFaults = 0
PROPERTY ReexecuteReimburses
CHECK_DEADLOCK FALSE
