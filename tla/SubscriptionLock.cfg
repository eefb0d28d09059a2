\* Two overlapping deliveries of one payment.
CONSTANTS
    r1 = r1  h1 = h1  h2 = h2
    None = None
    Subs = {1}
    Creators = {r1}
    Hooks = {h1, h2}
    Roles0 = {"common"}
    StaleAfter = 0
    MaxTime = 1
    MaxDeliveries = 2
    MaxOps = 0
    MaxFailures = 0
SPECIFICATION Spec
CHECK_DEADLOCK FALSE
INVARIANTS QuotaGrantedOnce
