CONSTANTS
    HasKey = {TRUE}
    MaxKeys = 2
    MaxOutput = 0
    ShellBytes = {"plain"}
SPECIFICATION Spec
CHECK_DEADLOCK FALSE
INVARIANTS
    KeysArriveIntact
