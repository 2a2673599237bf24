---------------------------- MODULE MCDashboard ----------------------------
(***************************************************************************)
(* Dashboard for TLC: the caps of rules.yaml are at most the four attempts  *)
(* that a scenario forges; here they are smaller still.                    *)
(***************************************************************************)
EXTENDS Dashboard

CONSTANTS MaxAttempts,   \* the cap of every method
          MaxVersion     \* behaviours are followed up to that many writes of a row

MCCapByMethod == [m \in Methods |-> MaxAttempts]
MCMethodOf == [c \in Cases |-> "upi"]
MCAmountOf == [c \in Cases |-> 249900]

\* One that is carried out and one that goes to a human.
MCProposals ==
  { [class |-> "TRANSIENT_INFRA", action |-> "RETRY", confidence |-> 90],
    [class |-> "TRANSIENT_INFRA", action |-> "RETRY", confidence |-> 39] }

MCStartStates == {"DETECTED", "DIAGNOSED", "FAILED_ATTEMPT"}

FewWrites == \A c \in Cases : Exists(c) => rows[c].version <= MaxVersion
=============================================================================
