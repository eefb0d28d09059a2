\* Quota changes go through the batch updater; a write may fail and the process die.
CONSTANTS
    r1 = r1
    r2 = r2
    t1 = t1
    t2 = t2
    Requests = {r1, r2}
    Tokens = {t1}
    NoToken = NoToken
    UnlimitedTokens = {}
    Estimates = {0, 1}
    Prices = {0, 2}
    UserFunded = 2
    TokenFunded <- TwoUnitToken
    TrustQuota = 1
    MaxRetries = 1
    BatchUpdateEnabled = TRUE
    MaxStarts = 2
    MaxDBErrors = 1
    MaxCrashes = 1
SPECIFICATION FairSpec
CHECK_DEADLOCK FALSE
INVARIANTS UserFundsConserved TokenFundsConserved
PROPERTIES HoldsAreSettled BooksReachDatabase
