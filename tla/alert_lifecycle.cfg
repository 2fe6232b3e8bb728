SPECIFICATION Spec
CONSTANTS
    Devices = {d1, d2}
    Types = {temperature, humidity}
    Alarming = {temperature}
    Values = {0, 1, 2}
    Thresholds = {0, 1}
    Messages <- MCMessages
    MaxRecords = 4
    Idle = Idle
INVARIANTS
    OpenWhileBreached
    AlertsAccounted
PROPERTIES
    StatusForward
