------------------------- MODULE MCApplianceUpdate -------------------------
(* Small instances of ApplianceUpdate: the current order of a task created *)
(* today and the retained order of an older one.                           *)
EXTENDS ApplianceUpdate

CurrentPlan == [order |-> <<"photon_os", "powershell_modules">>, current |-> TRUE]
LegacyPlan == [order |-> <<"powershell_modules", "photon_os">>, current |-> FALSE]
AllPlans == {CurrentPlan, LegacyPlan}
============================================================================
