\* A user's question about a video, answered before the video failed, is
\* written after the poller has refunded it.
CONSTANTS
    N = 1
    Limits = {1}
    Price = 2
    Actuals = {1, 3}
    MaxFaults = 0
    MaxFetches = 1
SPECIFICATION Spec
CHECK_DEADLOCK FALSE
INVARIANTS VideoRefundedOnce
