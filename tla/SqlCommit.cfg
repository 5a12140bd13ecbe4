SPECIFICATION FairSpec
CONSTANTS
    Users = {1, 2, 3}
    Conns = {1, 2, 3}
    Programs <- Commits
    maxBadConnRetries = 2
    Nil = Nil
PROPERTY CancelledTxEnds
CHECK_DEADLOCK FALSE
