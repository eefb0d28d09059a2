\* Two requests, the job, a reset by hand and two changes of the subscription.
CONSTANTS
    q1 = q1  q2 = q2
    Requests = {q1, q2}
    Limits = {0, 2}
    Costs = {1, 2}
    Holds = {0, 2}
    MaxUsed = 3
    MaxChanges = 2
    MaxResets = 1
    MaxFailures = 1
SPECIFICATION FairSpec
CHECK_DEADLOCK FALSE
INVARIANTS ExhaustedIsSwitched FallbackHasCause GroupEndsWithSubscription
PROPERTIES FallbackEnds
