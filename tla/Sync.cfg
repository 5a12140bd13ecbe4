SPECIFICATION PrimSpec
CONSTANTS
    G <- Three
    Sems <- AllSems
    Roots <- OneRoot
    RootOf <- SameRoot
    Nil = Nil
    Programs <- SafePrograms
    WgSemas <- Wgs
    MaxReaders = 8
    A = A  B = B  C = C
    Threads = {A, B, C}  Sleeper = A  MaxLocks = 4
    Signals = {1, 2}  Chans = {1, 2}  Arrivals = {1, 2}  SigOf <- OneTwo  MaxNotify = 3
    nthr = 3  cnt = 4
    PoolUsers = {A, B}  Items = {A, B}  NoItem = C  MaxProcs = 2  MaxGrow = 1  MaxPoolCalls = 2
    Users = {A, B}  Values <- Three  TypeOf <- Types  None = 0  Busy = 9  MaxValueCalls = 3
INVARIANTS SemaSafe LocksSafe OneWakeup ReturnInTime MapSafe FutexSafe SignalSafe EveryNodeOnce ParForSafe TimersSafe PoolSafe LoadsWhole
PROPERTIES AllArrive
CHECK_DEADLOCK FALSE
