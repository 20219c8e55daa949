\* One client process: the main thread connects, two workers operate; two
\* resizes, so that epoch slot 1 is used again.
SPECIFICATION Spec
CONSTANTS
    p1 = p1  p2 = p2  w1 = w1  w2 = w2
    kMaxEpochSlots = 3
    kMaxClients = 2
    U64Max = 7
    Mains <- OneMain
    Workers <- TwoWorkers
    OpThreads <- TwoWorkers
    ProcOf <- OneProc
    mem_threads = 1
    NKeys = 1
    s_slow = 1
    s_stop = 2
    MaxVersion = 4
    MaxIndex = 3
    MaxGeneration = 0
VIEW UpToGenerations
SYMMETRY WorkerSymmetry
INVARIANTS TypeOK OverlapBounded LaneIndexUnique HandedInCapacity
PROPERTIES BasesMatchVersions UnlinkOnlyDrained
CHECK_DEADLOCK FALSE
