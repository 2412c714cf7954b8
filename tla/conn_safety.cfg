SPECIFICATION Spec
CONSTANTS
    None = None
    create = create
    send1 = send1
    send2 = send2
    subscribe = subscribe
    close = close
    ping1 = ping1
    ping2 = ping2
    c1 = c1
    Req = {send1, send2, subscribe, close, ping1, ping2}
    Kind <- KindOf
    Target <- TargetOf
    Consumers = {c1}
    DataCap = 1
    BlockIfFull = FALSE
    HasAuth = TRUE
    MaxCalls = 2
    MaxUnsolicited = 1
CHECK_DEADLOCK FALSE
SYMMETRY CallSymmetry
INVARIANTS TypeOK RepliesMatch FlagTellsTruth NoMessageLost
