SPECIFICATION FairSpec
CONSTANTS
    None = None
    Topic = {"a"}
    Keys <- OneKey
    FirstCounts = {0, 2}
    MaxCloses = 1
    MaxPartitions = 3
    MaxCalls = 3
    MaxRefreshes = 1
CHECK_DEADLOCK FALSE
INVARIANTS RulesKept CallOrder
PROPERTIES EverySendAnswered DropEndsTask
