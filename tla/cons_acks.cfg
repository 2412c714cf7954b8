SPECIFICATION Spec
CONSTANTS
    None = None
    Batch <- OnePair
    Garbled = {}
    BatchSize = 2
    QueueSize = 1
    MaxRedeliver = 1
    Setups <- WithDelay
    Settling = {"ack", "cumulative", "nack"}
    MaxSends = 2
    MaxEpoch = 1
    MaxNotices = 0
CHECK_DEADLOCK FALSE
INVARIANTS AckedWereHandled HeldAreTracked
