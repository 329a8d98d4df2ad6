CONSTANTS
    Thread = {0, 1}
    Elem = {0, 1, 2}
    Bin = {0, 1}
    h0 = h0
    h1 = h1
    list <- MCTwoLists
    Null = Null
    Owner <- MCOwner
    BinOf <- MCBinOfTwo
    Keyings <- MCKeyings
    NumElements = 3
    SyncOptions = {"m", "s"}
SPECIFICATION Spec
INVARIANTS
    TypeOK
    MutualExclusion
    NoLeakedLock
    NextIsLeastAbove
    BackPointers
PROPERTIES
    SetSpec
