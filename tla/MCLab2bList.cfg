CONSTANTS
    NumThreads = 2
    NumIterations = 2
    NumLists = 4
    h0 = h0
    h1 = h1
    h2 = h2
    h3 = h3
    list <- MCHeads
    Null = Null
    BinOf <- MCBinOf
    Keyings <- MCKeyings
    SyncOptions = {"none", "m", "s"}
SPECIFICATION FairSpec
INVARIANTS
    TypeOK
    UndeletedLinked
    
    ListsEmptyAtExit
    
PROPERTIES
    LibrarySpec
    Termination
