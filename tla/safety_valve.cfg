SPECIFICATION Spec
CONSTANTS
    Props <- MCProps
    Rules <- MCRules
    Conditions <- MCConditions
    Readings <- MCReadings
    Policies <- MCPolicies
    RulesOf <- MCRulesOf
    Target <- MCTarget
    Overridable = {}
    CanReset = FALSE
    Window = 2
    Cooldown = 3
    MinInterval = 2
    ClearHold = 5
    MaxRecords = 1
    MaxTime = 8
    MaxLag = 0
INVARIANTS
    NoRuleIgnoredTwice
PROPERTIES
    ReleaseAfterQuiet
    ActuatorNotRecycled
