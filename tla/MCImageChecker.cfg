CONSTANTS
    Disks <- MCDisks
    NumDirect = 2
    PerBlock = 2
SPECIFICATION FairSpec
INVARIANTS
    SummaryExact
    
    InodesReported
    

    
