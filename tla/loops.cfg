SPECIFICATION Spec
CONSTANTS
    \* Database
    Threads = {t1, t2, t3}
    PoolSize = 2
    MaxCrashes = 2
    MaxUses = 5
    MaxDbAlerts = 2
    \* SemanticViews
    Requests = {r1, r2}
    CacheTTL = 2
    MaxViewClock = 2
    MaxContent = 2
    MaxQueries = 2
    \* ModbusPolling
    Catalogue <- MCCatalogue
    Spans = 2
    BitPad = 2
    MaxWrites = 2
    \* BindingReload
    Adapters = {mqtt, modbus}
    Needy = {modbus}
    MaxEdits = 2
    MaxRuns = 2
    MaxStarts = 1
    \* DeviceTwin
    Devices = {d1, d2}
    Protocols = {opcua, rest}
    Absent = Absent
    Cutoff = 1
    MaxRegs = 2
    MaxRestarts = 1
    \* EdgeBuffer
    Capacity = 2
    Backfill = 1
    MaxReadings = 4
    MaxReboots = 1
PROPERTIES
    SchemaAndPoolKept
    SharedQueryServes
    EveryGroupReported
    ReloadReachesAll
    TwinsFollow
    ReadingsKept
CHECK_DEADLOCK FALSE
