-------------------------- MODULE ConsequenceClasses --------------------------
(* The consequence classes of app/config.py, which both decision tiers      *)
(* check a request's class against.                                         *)

CONSTANT None  \* a value that is absent

KnownClasses == {"financial_transfer", "infra_change", "health_record_access",
                 "generic_tool_call", "vendor_master_change", "low_risk"}

LowRisk == "low_risk"
=============================================================================
