SPECIFICATION FairSpec
CONSTANTS
    None = None
    BatchSize = 3
    BatchBytes = 2
    HasTimeout = TRUE
    Bytes <- FirstTwoBytes
    MsgCap = 0
    BatchCap = 1
    MaxMsgs = 4
    MaxFlushes = 1
CHECK_DEADLOCK FALSE
INVARIANTS ReceiptsTrue CallsSettle
PROPERTIES Implements EveryMessageSettles CallsReturn
