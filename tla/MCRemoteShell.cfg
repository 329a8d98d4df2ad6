CONSTANTS
    HasKey = {TRUE, FALSE}
    MaxKeys = 2
    MaxOutput = 2
    ShellBytes = {"plain"}
SPECIFICATION FairSpec
CHECK_DEADLOCK FALSE
INVARIANTS
    TypeOK
    OutputDelivered

    
    
