CONSTANTS
    BUFSIZE = 2
    PIPE_SIZE = 2
    MaxKeys = 3
    MaxOutput = 3
    ShellBytes = {"plain", "ctrlC"}
SPECIFICATION FairSpec
CHECK_DEADLOCK FALSE
INVARIANTS
    TypeOK
    NoOutputLost
    
PROPERTIES
    Ends
