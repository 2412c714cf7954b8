SPECIFICATION ReadingSpec
CONSTANTS
    None = None
    Batch <- PairAndSingle
    Garbled = {1}
    BatchSize = 1
    QueueSize = 5
    MaxRedeliver = None
    Setups <- OneAtATime
    Settling = {}
    MaxSends = 1
    MaxEpoch = 1
    MaxNotices = 1
CHECK_DEADLOCK FALSE
INVARIANT PermitsCover
PROPERTIES DropStops Reconnects
