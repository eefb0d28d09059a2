\* Two subscriptions; two deliveries of payments overlap.
CONSTANTS
    r1 = r1  h1 = h1  h2 = h2
    None = None
    Subs = {1, 2}
    Creators = {r1}
    Hooks = {h1, h2}
    Roles0 = {"common"}
    StaleAfter = 0
    MaxTime = 2
    MaxDeliveries = 3
    MaxOps = 1
    MaxFailures = 1
SPECIFICATION FairSpec
CHECK_DEADLOCK FALSE
INVARIANTS CreditsBounded ActiveHasPlan 
PROPERTIES OverdueExpires
