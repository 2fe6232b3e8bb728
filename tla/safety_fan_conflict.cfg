SPECIFICATION Spec
CONSTANTS
    Props <- MCProps
    Rules <- MCRules
    Conditions <- MCConditions
    Readings <- MCReadings
    Policies <- MCPolicies
    RulesOf <- MCRulesOf
    Target <- MCTarget
    Overridable <- MCOverridable
    CanReset = FALSE
    Window = 1
    Cooldown = 2
    MinInterval = 1
    ClearHold = 3
    MaxRecords = 2
    MaxTime = 5
    MaxLag = 0
INVARIANTS
    NoConflictingCommands
