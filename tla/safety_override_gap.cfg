SPECIFICATION Spec
CONSTANTS
    Props <- MCProps
    Rules <- MCRules
    Conditions <- MCConditions
    Readings <- MCReadings
    Policies <- MCPolicies
    RulesOf <- MCRulesOf
    Target <- MCTarget
    Overridable <- MCPolicies
    CanReset = FALSE
    Window = 2
    Cooldown = 3
    MinInterval = 2
    ClearHold = 5
    MaxRecords = 1
    MaxTime = 7
    MaxLag = 0
PROPERTIES
    FourMissedIntervals
