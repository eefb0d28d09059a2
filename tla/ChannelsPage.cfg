\* Two pages, three models tested two at a time, five acts of the user.
CONSTANTS
    Pages = 2
    Models = 3
    Limit = 2
    MaxUserActs = 5
SPECIFICATION FairPageSpec
CHECK_DEADLOCK FALSE
INVARIANTS LastAskedShown CountsAreComplete
PROPERTIES SpinnerStops TestsEnd
