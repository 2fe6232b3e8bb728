SPECIFICATION ReloadSpec
CONSTANTS
    Adapters = {mqtt, modbus}
    Needy = {modbus}
    MaxEdits = 2
    MaxRuns = 1
    MaxStarts = 0
INVARIANT AdaptersKeptAlive
CHECK_DEADLOCK FALSE
