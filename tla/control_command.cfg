SPECIFICATION FairSpec
CONSTANTS
    Commands = {c1, c2}
    Valid = {c1}
    MaxCrashes = 1
    MaxRestarts = 1
INVARIANTS
    OutcomesAreTrue
    ActsOncePerBoot
PROPERTIES
    ImplementsLifecycle
    PendingIsSettled
CHECK_DEADLOCK FALSE
