SPECIFICATION FairSpec
CONSTANTS
    G <- TwoGs
    M <- Threads
    P <- TwoPs
    NewProcs <- OneOrTwo
    NCPU = 1
    Programs <- Ending
    Main = 1
    M0 = 0
    Sysmon = 1
    None = None
INVARIANTS WorldStopped
PROPERTIES Ends
