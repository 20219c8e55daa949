\* One client process with one worker, creations that fail, two resizes; the refinement and
\* the liveness properties.
SPECIFICATION FairSpec
CONSTANTS
    p1 = p1  p2 = p2  w1 = w1  w2 = w2
    kMaxEpochSlots = 3
    kMaxClients = 2
    U64Max = 7
    Mains <- OneMain
    Workers <- OneWorker
    OpThreads <- OneWorker
    ProcOf <- PairProc
    mem_threads = 1
    NKeys = 1
    s_slow = 1
    s_stop = 2
    MaxVersion = 4
    MaxIndex = 3
    MaxGeneration = 4
PROPERTIES ImplementsRegions ResizeCompletes
CHECK_DEADLOCK FALSE
