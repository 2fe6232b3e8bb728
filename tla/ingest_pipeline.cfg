SPECIFICATION FairSpec
CONSTANTS
    Readings = {r1, r2, r3}
    Unbound = {r3}
    Rejected = {r2}
    QueueSize = 1
    MaxAttempts = 2
    RetryLimit = 1
    MaxPerRun = 1
    MaxIds = 3
    MaxCrashes = 1
    NoRow = NoRow
INVARIANTS
    ReportsAreTrue
    DuplicatesBounded
    StoredIsTracked
PROPERTIES
    PendingSettles
CHECK_DEADLOCK FALSE
