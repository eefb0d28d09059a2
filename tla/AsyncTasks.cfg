\* Two tasks of any kinds, one or two rows listed at a time, one fault.
CONSTANTS
    N = 2
    Limits = {1, 2}
    Price = 2
    Actuals = {3}
    MaxFaults = 1
    MaxFetches = 1
SPECIFICATION FairSpec
CHECK_DEADLOCK FALSE
INVARIANTS LedgerExact RefundedOnce
PROPERTIES TaskEnds
