SPECIFICATION FairMultiSpec
CONSTANTS
    Nothing = Nothing
    Topic = {"p0", "p1", "r"}
    Named = {"p0", "p1"}
    Matched = {"p1", "r"}
    MaxFaults = 2
CHECK_DEADLOCK FALSE
INVARIANT QueueMatchesMap
PROPERTIES NoTopicStarves EveryTopicFound
