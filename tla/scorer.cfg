CONSTANTS
    Threads = {t1, t2, t3}
    Keys = {k1, k2}
    FailingKeys = {k2}
    NoThread = NoThread
    MaxFailures = 2
SPECIFICATION ScorerFairSpec
INVARIANT LoadedOnce SharesCached
PROPERTY ImplementsAtomicScorers CallsReturn InitializedNeverBlocks
