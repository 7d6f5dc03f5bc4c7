\* Three requests with one key and two payloads, with and without the lock.
SPECIFICATION FairSpec
CONSTANTS
    x = x  y = y
    r1 = r1  r2 = r2  r3 = r3
    None = None
    Requests = {r1, r2, r3}
    Payloads = {x, y}
    Deployments = {TRUE, FALSE}
INVARIANTS TypeOK OneCallInFlight ReplayIsPaid
PROPERTIES ImplementsLock ClaimResolves
CHECK_DEADLOCK FALSE
