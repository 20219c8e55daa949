\* Two processes with a thread each, two operations per thread.
SPECIFICATION FairSpec
CONSTANTS
    ka = ka  kb = kb  kc = kc  t1 = t1  t2 = t2  p1 = p1  p2 = p2
    NoKey = NoKey
    Keys <- ThreeKeys
    Vals = {0, 1}
    SLOTS_NUM_BUCKET = 2
    SeedCount = 2
    fingerprint <- Fingers
    hash <- Hash
    Procs <- TwoProcs
    Threads <- TwoThreads
    ProcOf <- Apart
    Loaded <- LoadedAB
    num_data_entries = 3
    MaxOps = 2
INVARIANTS TypeOK EntriesNotShared
PROPERTIES OnlyPutsAdd RowReleased
CHECK_DEADLOCK FALSE
