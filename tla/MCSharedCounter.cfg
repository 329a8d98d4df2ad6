CONSTANTS
    MaxThreads = 3
    ThreadCounts <- MCThreadCounts
    IterationCounts <- MCIterationCounts
    SyncOptions = {"none", "m", "s", "c"}
SPECIFICATION FairSpec
INVARIANTS
    TypeOK
    MutualExclusion
    FinalCounterZero
    LostUpdateBound
PROPERTIES
    AtomicSpec
    Termination
