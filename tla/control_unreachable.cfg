SPECIFICATION Spec
CONSTANTS
    Commands = {c1, c2}
    Valid = {c1}
    MaxCrashes = 0
    MaxRestarts = 0
INVARIANT
    UnreachableIsTrue
CHECK_DEADLOCK FALSE
