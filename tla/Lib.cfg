SPECIFICATION FairSpec
CONSTANTS
    None = 0
    nil = 0
    Nil = 0
    Ctxs = {1, 2, 3, 4, 5}
    Parent <- Tree
    Timers = {2}
    Foreign = {4}
    Reqs = {1, 2}
    Pcs = {1, 2}
    Options <- HttpOptions
    Goroutines = {1, 2, 3}
    Fds = {1, 2}
    NetPrograms <- Conns
INVARIANTS ContextSafe TransportSafe FdValid PollSafe
PROPERTIES AllEnd
CHECK_DEADLOCK FALSE
