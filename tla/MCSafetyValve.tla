--------------------------- MODULE MCSafetyValve ---------------------------
(***************************************************************************)
(* gas_isolation with both of its rules.  Each condition is reduced to     *)
(* below (0) or above (1) its threshold; occupancy is below when 0.        *)
(***************************************************************************)
EXTENDS SafetyLoop

Above(q) == [prop |-> q, threshold |-> 0, above |-> TRUE]
Below(q) == [prop |-> q, threshold |-> 1, above |-> FALSE]

MCProps == {"gas", "occupancy", "smoke", "co"}
MCRules == {"gas_leak_unattended", "smouldering"}
MCConditions ==
    [r \in MCRules |->
        IF r = "smouldering" THEN {Above("smoke"), Above("co")}
        ELSE {Above("gas"), Below("occupancy")}]
MCReadings ==
    [{"gas", "occupancy"} -> {0, 1}] \cup [{"smoke"} -> {0, 1}] \cup [{"co"} -> {1}]
MCPolicies == {"gas_isolation"}
MCRulesOf == [p \in MCPolicies |-> MCRules]
MCTarget == [p \in MCPolicies |-> "valve_gas_main"]
===========================================================================
