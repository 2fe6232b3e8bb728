SPECIFICATION Spec
CONSTANTS
    Props <- MCProps
    Rules <- MCRules
    Conditions <- MCConditions
    Readings <- MCReadings
    Policies <- MCPolicies
    RulesOf <- MCRulesOf
    Target <- MCTarget
    Overridable <- MCOverridable
    CanReset = TRUE
    Window = 1
    Cooldown = 1
    MinInterval = 1
    ClearHold = 2
    MaxRecords = 2
    MaxTime = 3
    MaxLag = 1
INVARIANTS
    EngagedHasDecision
PROPERTIES
    NoReleaseOnFiring
