----------------------------- MODULE MCAuditLog -----------------------------
(***************************************************************************)
(* AuditLog for TLC, with MaxEvents rows at most.                          *)
(***************************************************************************)
EXTENDS AuditLog

CONSTANT MaxEvents

MCStep(type, value, detail) == [type |-> type, value |-> value, detail |-> detail]

MCSteps ==
  { MCStep("COHORT_ASSIGNED", "TREATED", "none"),
    MCStep("STATE_TRANSITION", "SCHEDULED", "none"),
    MCStep("STATE_TRANSITION", "ABANDONED", "COST_FLOOR"),
    MCStep("ACTION_REFUSED", "PROVIDER_ERROR", "none"),
    MCStep("CASE_CLOSED", "none", "none"),
    ResultStep("SUCCEEDED"), ForgedStep }

MCNext ==
  \/ \E a \in Appenders, b \in Body : Len(events) < MaxEvents /\ Draft(a, b)
  \/ \E d \in drafts : Insert(d) \/ Abandon(d)

MCSpec == AuditInit /\ [][MCNext]_auditVars
=============================================================================
