SPECIFICATION SyncSpec
CONSTANTS
    G <- Three
    Sems <- AllSems
    Roots <- OneRoot
    RootOf <- SameRoot
    Nil = Nil
    Programs <- NextRound
    WgSemas <- Wgs
    MaxReaders = 8
INVARIANT NoEarlyWait
CHECK_DEADLOCK FALSE
