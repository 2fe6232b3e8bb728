---------------------------- MODULE MCSafetyFan ----------------------------
(***************************************************************************)
(* fire_ventilation and hvac_dehumidify, which share hvac_exhaust_01.      *)
(* Temperature has three levels: 0, above 35 (1) and above 38 (2).         *)
(***************************************************************************)
EXTENDS SafetyLoop

Above(q, t) == [prop |-> q, threshold |-> t, above |-> TRUE]

MCProps == {"co", "temperature", "humidity"}
MCRules == {"fire_risk", "condensation_risk"}
MCConditions ==
    [r \in MCRules |->
        IF r = "fire_risk" THEN {Above("co", 0), Above("temperature", 1)}
        ELSE {Above("temperature", 0), Above("humidity", 0)}]
MCReadings ==
    {[co |-> 1], [humidity |-> 1], [temperature |-> 2],
     [temperature |-> 1, humidity |-> 1]}
MCPolicies == {"fire_ventilation", "hvac_dehumidify"}
MCRulesOf ==
    [p \in MCPolicies |->
        IF p = "fire_ventilation" THEN {"fire_risk"} ELSE {"condensation_risk"}]
MCTarget == [p \in MCPolicies |-> "hvac_exhaust_01"]
MCOverridable == {"hvac_dehumidify"}
===========================================================================
