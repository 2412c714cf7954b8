SPECIFICATION FairSpec
CONSTANTS
    None = None
    t1 = t1
    t2 = t2
    t3 = t3
    Task = {t1, t2}
    MaxRetries = 0
CHECK_DEADLOCK FALSE
PROPERTY NobodyStuck
