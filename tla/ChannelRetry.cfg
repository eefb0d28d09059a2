\* Two groups of up to two priorities, two retries, a pool that changes twice.
CONSTANTS
    NGroups = 2
    Levels = {1, 2}
    RetryTimes = 2
    MaxPoolChanges = 2
SPECIFICATION FairSpec
CHECK_DEADLOCK FALSE
INVARIANTS AttemptsBounded TopDown NoGroupForgotten
PROPERTIES RequestEnds
