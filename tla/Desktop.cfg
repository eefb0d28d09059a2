\* Five attempts, four windows, both modes.
CONSTANTS
    MaxRetries = 5
    MaxWindows = 4
SPECIFICATION FairSpec
CHECK_DEADLOCK FALSE
INVARIANTS NoOrphan ProbesBounded
PROPERTIES StartSettles QuitEnds
