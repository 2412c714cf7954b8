SPECIFICATION FairSpec
CONSTANTS
    None = None
    b1 = b1
    b2 = b2
    Broker = {b1, b2}
    Base = b1
    Topic = {"p0", "p1"}
    Budgets <- SomeBudgets
    Timeout = 1
    MaxMoves = 1
    MaxFaults = 1
CHECK_DEADLOCK FALSE
INVARIANTS TypeOK AskedRight OpenIsServed
PROPERTIES LoopsEnd FailureCloses
