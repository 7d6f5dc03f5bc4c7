\* Production: the Durable Object is the only store.  Safety under one failure
\* anywhere, liveness as long as none has happened.
SPECIFICATION FairSpec
CONSTANTS
    s1 = s1  s2 = s2
    p1 = p1  p2 = p2
    c1 = c1  c2 = c2
    t1 = t1  t2 = t2
    NoTx = NoTx
    Salts = {s1, s2}
    Posts = {p1, p2}
    Confirms = {c1}
    Txs = {t1}
    Batches <- AllBatches
    MintGroups <- Groups
    HasDO = TRUE
    HasKV = FALSE
    Prod = TRUE
    MaxFaults = 1
INVARIANTS TypeOK ForwardedOnce RolledBackWasNeverSent RejectedIsDefinitive ConfirmedIsMinted
PROPERTIES SubmissionResolves SettledForGood ImplementsOperation
CHECK_DEADLOCK FALSE
