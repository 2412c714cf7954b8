SPECIFICATION FairSpec
CONSTANTS
    None = None
    create = create
    send1 = send1
    send2 = send2
    subscribe = subscribe
    close = close
    ping1 = ping1
    ping2 = ping2
    c1 = c1
    Req = {create, ping1, send1, send2}
    Kind <- KindOf
    Target <- TargetOf
    Consumers = {}
    DataCap = 1
    BlockIfFull = TRUE
    HasAuth = FALSE
    MaxCalls = 2
    MaxUnsolicited = 0
CHECK_DEADLOCK FALSE
INVARIANT NoReplyLost
PROPERTIES EveryCallReturns DeadReceiverFreesCallers
