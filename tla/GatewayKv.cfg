\* A development deployment: KV alone, its reads and writes apart.  Two
\* confirmations of one operation race, with two transactions that may mint
\* it or revert.
SPECIFICATION Spec
CONSTANTS
    s1 = s1  s2 = s2
    p1 = p1  p2 = p2
    c1 = c1  c2 = c2
    t1 = t1  t2 = t2
    NoTx = NoTx
    Salts = {s1}
    Posts = {p1, p2}
    Confirms = {c1, c2}
    Txs = {t1, t2}
    Batches <- Singles
    MintGroups <- OneGroup
    HasDO = FALSE
    HasKV = TRUE
    Prod = FALSE
    MaxFaults = 1
SYMMETRY Symmetry
INVARIANTS ConfirmedIsMinted
CHECK_DEADLOCK FALSE
