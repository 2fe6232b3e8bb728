SPECIFICATION Spec
CONSTANTS
    c1 = c1
    c2 = c2
    c3 = c3
    Commands = {c1, c2, c3}
    ActionOf <- MCActionOf
    Slots = 2
    Skew = 1
    Drift = 1
    Timeout = 2
    Wrap = 4
    MaxIteration = 1
    MaxTime = 5
    MaxReboots = 1
    None = None
INVARIANTS
    ReplaysRefused
    RelayIsSafe
