CONSTANTS
    t1 = t1
    t2 = t2
    t3 = t3
    t4 = t4
    t5 = t5
    p1 = p1
    p2 = p2
    m = m
    G = G
    b1 = b1
    b2 = b2
    bad = bad
    bl = bl
    x1 = x1
    x2 = x2
    x3 = x3
    LocalSrc = LocalSrc
    None = None
    Tasks <- MCTasks
    Src <- MCSrc
    Blk <- MCBlk
    Parent <- MCParent
    Txs <- MCTxs
    Local <- LocalSrc
    Genesis <- G
    NoTask <- None
    Malicious = {m}
    Invalid = {bad}
    SpendsPruned = {}
SPECIFICATION Spec
CHECK_DEADLOCK FALSE

PROPERTY AddedBlocksPropagated
