\* Two client processes, the first with a worker; one resize.
SPECIFICATION Spec
CONSTANTS
    p1 = p1  p2 = p2  w1 = w1  w2 = w2
    kMaxEpochSlots = 3
    kMaxClients = 2
    U64Max = 7
    Mains <- TwoMains
    Workers <- OneWorker
    OpThreads <- OneWorker
    ProcOf <- TwoProc
    mem_threads = 1
    NKeys = 1
    s_slow = 1
    s_stop = 2
    MaxVersion = 2
    MaxIndex = 3
    MaxGeneration = 0
VIEW UpToGenerations
INVARIANTS CurrentUsable ViewNotAhead
CHECK_DEADLOCK FALSE
