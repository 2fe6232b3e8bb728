-------------------------- MODULE MCAlertLifecycle --------------------------
(***************************************************************************)
(* Temperature has a rule, humidity has a threshold but no rule.  A        *)
(* message carries one or two measurements, of either type.                *)
(***************************************************************************)
EXTENDS AlertLifecycle

MCMessages == UNION {[1..n -> Measurements] : n \in 1..2}
=============================================================================
