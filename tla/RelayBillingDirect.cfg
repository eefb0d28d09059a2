\* Every quota change is written at once; a write may fail and the process die.
CONSTANTS
    r1 = r1
    r2 = r2
    t1 = t1
    t2 = t2
    Requests = {r1, r2}
    Tokens = {t1, t2}
    NoToken = NoToken
    UnlimitedTokens = {t2}
    Estimates = {0, 1}
    Prices = {0, 2}
    UserFunded = 2
    TokenFunded <- TwoUnitToken
    TrustQuota = 1
    MaxRetries = 1
    BatchUpdateEnabled = FALSE
    MaxStarts = 3
    MaxDBErrors = 1
    MaxCrashes = 1
SPECIFICATION Spec
CHECK_DEADLOCK FALSE
SYMMETRY RequestSymmetry
INVARIANTS OverdraftBounded UserFundsConserved
PROPERTIES ImplementsAccounts
