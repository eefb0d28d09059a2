\* One channel; overlapping reports and test rounds, an edit and a failing statement.
CONSTANTS
    c1 = c1
    w1 = w1
    t1 = t1
    t2 = t2
    None = None
    Channels = {c1}
    Tagged = {c1}
    Workers = {w1}
    Testers = {t1, t2}
    MaxReports = 1
    MaxOps = 1
    MaxRounds = 2
    MaxFailures = 1
SPECIFICATION FairSpec
INVARIANTS AbilitiesAgree DisabledNotSelected OneRound
PROPERTIES CacheConverges
