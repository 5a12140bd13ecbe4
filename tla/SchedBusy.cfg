SPECIFICATION BusySpec
CONSTANTS
    G <- TwoGs
    M <- Threads
    P <- OneP
    NewProcs = {1}
    NCPU = 2
    Programs <- Busy
    Main = 1
    M0 = 0
    Sysmon = 1
    None = None
CHECK_DEADLOCK FALSE
PROPERTY Preempts
