CONSTANTS
    Programs = {"lab4b", "lab4c_tcp", "lab4c_tls"}
    Sendable = {"STOP", "START", "PERIOD", "OFF", "SCALE?", "DEL", "NL", "^C"}
    BUFSIZE = 3
    MaxRecord = 4
    MaxBytes = 4
SPECIFICATION FairSpec
CHECK_DEADLOCK FALSE
INVARIANTS
    TypeOK
    
PROPERTIES
    InputHandled
    
