SPECIFICATION FairSpec
CONSTANTS
    Users = {1, 2, 3}
    Conns = {1, 2, 3, 4}
    Programs <- Mixed
    maxBadConnRetries = 2
    Nil = Nil
INVARIANTS OneOwner PoolCounts ConnsClean
PROPERTIES StmtClosedQuiet AllEnds
CHECK_DEADLOCK FALSE
