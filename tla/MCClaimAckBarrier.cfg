\* A client that registers after do_copy has sampled the count.
SPECIFICATION Spec
CONSTANTS
    p1 = p1  p2 = p2  w1 = w1  w2 = w2
    kMaxEpochSlots = 3
    kMaxClients = 2
    U64Max = 7
    Mains <- OneMain
    Workers <- OneWorker
    OpThreads <- OneWorker
    ProcOf <- PairProc
    mem_threads = 1
    NKeys = 1
    s_slow = 1
    s_stop = 1
    MaxVersion = 2
    MaxIndex = 3
    MaxGeneration = 0
INVARIANT AckBarrier
CHECK_DEADLOCK FALSE
