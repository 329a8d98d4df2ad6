CONSTANTS
    NumThreads = 2
    NumIterations = 2
    NumLists = 1
    h0 = h0
    list <- MCHead
    Null = Null
    BinOf <- MCBinOf
    Keyings <- MCKeyings
    SyncOptions = {"none", "m", "s"}
SPECIFICATION FairSpecA
INVARIANTS
    CountIncludesOwn
    ListsEmptyAtExit
PROPERTIES
    Termination
