\* All operations, streams and plain responses, reloads at any moment.
CONSTANTS
    NoStore = NoStore
    MaxRequests = 3
    MaxActs = 4
SPECIFICATION FairSpec
CHECK_DEADLOCK FALSE
INVARIANTS TypeOK NoEarlierAnswer StoredAgrees
PROPERTIES SettledIsFinal AnswerSettles
