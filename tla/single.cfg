SPECIFICATION FairSpec
CONSTANTS
    None = None
    MaxMsgs = 3
    MaxConns = 3
    MaxCloses = 1
CHECK_DEADLOCK FALSE
INVARIANTS LogInOrder
PROPERTIES Implements EverySendSettles
