CONSTANTS
    Programs = {"lab4c_tls"}
    Sendable = {"STOP", "NL"}
    BUFSIZE = 2
    MaxRecord = 3
    MaxBytes = 3
SPECIFICATION FairSpec
CHECK_DEADLOCK FALSE
PROPERTIES
    CommandsTaken
