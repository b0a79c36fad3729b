SPECIFICATION FairSpec
CONSTANTS
    IntMax = 3
    MaxPosts = 4
    MaxFailures = 1
    MaxRestarts = 2
INVARIANTS
    TypeOK
    BareAreFewerThanEnds
    SyncQueriesSucceed
PROPERTIES
    UserIsHeard
    ComesUp
CHECK_DEADLOCK FALSE
