SPECIFICATION FairSpec
CONSTANTS
    None = None
    t1 = t1
    t2 = t2
    t3 = t3
    Task = {t1, t2, t3}
    MaxRetries = 1
CHECK_DEADLOCK FALSE
INVARIANTS TypeOK WaitersListed ConnectingIsLed
PROPERTY GetsReturn
