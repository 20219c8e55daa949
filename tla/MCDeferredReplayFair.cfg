\* Two handler threads with two operations around two resizes.
SPECIFICATION FairSpec
CONSTANTS
    ka = ka  kb = kb  kc = kc  t1 = t1  t2 = t2
    NoKey = NoKey
    Keys <- ThreeKeys
    Vals = {0}
    SLOTS_NUM_BUCKET = 2
    SeedCount = 1
    fingerprint <- Fingers
    hash <- Hash
    Threads <- TwoThreads
    Loaded <- LoadedA
    num_data_entries = 2
    kMaxDeferredDepth = 2
    MaxVersion = 3
    MaxOps = 2
INVARIANT DrainTakesPrefix
PROPERTY DrainFinishes
CHECK_DEADLOCK FALSE
