SPECIFICATION Spec
CONSTANTS
    G <- ThreeGs
    M <- Threads
    P <- TwoPs
    NewProcs <- OneOrTwo
    NCPU = 2
    Programs <- Mixed
    Main = 1
    M0 = 0
    Sysmon = 1
    None = None
INVARIANTS ChecksHold InPlace SpinCount WorkConserving OneUser StallFree
