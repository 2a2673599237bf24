--------------------------- MODULE MCLiveRecovery ---------------------------
(***************************************************************************)
(* LiveRecovery for TLC: one case, a cap of two attempts, one reason for     *)
(* each way through triage and the ladder.                                 *)
(***************************************************************************)
EXTENDS LiveRecovery

MCCapByMethod == [m \in Methods |-> 2]

MCInput(reason, downtime, recurring) ==
  [reason |-> reason, method |-> "upi", downtime |-> downtime,
   recurring |-> recurring, amount |-> 249900]

MCInputs ==
  { MCInput("payment_failed", FALSE, FALSE),
    MCInput("card_expired", FALSE, FALSE),
    MCInput("account_closed", FALSE, TRUE),
    MCInput("never_seen", TRUE, FALSE) }

\* Answers on both sides of what validate() asks and of the gate's floor.
MCModelAnswers ==
  { [class |-> "TRANSIENT_INFRA", confidence |-> 90, evidence |-> "fields",
     action |-> "RETRY", delay |-> 30, missing |-> FALSE, tier |-> 3],
    [class |-> "CUSTOMER_FIXABLE", confidence |-> 90, evidence |-> "none",
     action |-> "RETRY", delay |-> 30, missing |-> FALSE, tier |-> 0],
    [class |-> "CUSTOMER_FIXABLE", confidence |-> 39, evidence |-> "none",
     action |-> "RETRY", delay |-> 30, missing |-> TRUE, tier |-> 0],
    [class |-> "TERMINAL", confidence |-> 60, evidence |-> "other",
     action |-> "RETRY", delay |-> 0, missing |-> FALSE, tier |-> 0],
    [class |-> "TRANSIENT_INFRA", confidence |-> 95, evidence |-> "other",
     action |-> "RETRY", delay |-> 0, missing |-> FALSE, tier |-> 0] }
=============================================================================
