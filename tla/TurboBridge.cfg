\* One intent, executed up to twice, with a fault at any step.
SPECIFICATION FairSpec
CONSTANTS
    i1 = i1
    b1 = b1  b2 = b2
    w1 = w1  w2 = w2
    None = None
    Intents = {i1}
    Burns = {b1, b2}
    Workers = {w1, w2}
    MaxExecutes = 2
    MaxFaults = 2
INVARIANTS TypeOK FulfilledIsPaid SettledIsMinted
PROPERTIES FulfilledForGood PollsReimburse
CHECK_DEADLOCK FALSE
