------------------------- MODULE MCRecoveryPipeline -------------------------
(***************************************************************************)
(* RecoveryPipeline for TLC.  The caps are made small so that a run reaches *)
(* them: with Cap attempts allowed, Cap + 1 would be one too many.          *)
(***************************************************************************)
EXTENDS PipelineContract, TLC

CONSTANTS MaxAttempts,  \* the cap of every method
          MaxVersion    \* no call starts on a row written that often

MCCapByMethod == [m \in Methods |-> MaxAttempts]
MCMethodOf == [c \in Cases |-> "upi"]
MCAmountOf == [c \in Cases |-> 249900]

\* A proposal that passes every gate, one of low confidence, and a STOP.
MCProposals ==
  { [class |-> "TRANSIENT_INFRA", action |-> "RETRY", confidence |-> 90],
    [class |-> "TRANSIENT_INFRA", action |-> "RETRY", confidence |-> 39],
    [class |-> "UNKNOWN", action |-> "RETRY", confidence |-> 90],
    [class |-> "UNKNOWN", action |-> "STOP", confidence |-> 0] }

\* The one that spends, and the one that asks a human.
MCWillingProposals ==
  { [class |-> "TRANSIENT_INFRA", action |-> "RETRY", confidence |-> 90],
    [class |-> "TRANSIENT_INFRA", action |-> "RETRY", confidence |-> 39] }

\* The states from which process_case() can get anywhere, and that a caller may
\* pass it; a quarantined case is left to reconcile().
MCStartStates == {"DETECTED", "DIAGNOSED", "FAILED_ATTEMPT"}

\* A caller that passes every open case.
MCAnyOpenState == States \ TERMINAL_STATES

MCNext ==
  \/ \E w \in Writers, c \in Cases, k \in Cohorts : Ingest(w, c, k)
  \/ \E c \in Cases : rows[c].version < MaxVersion /\ Process(c)
  \/ \E w \in Writers, c \in Cases : Find(w, c)
  \/ \E w \in Writers : Step(w)
  \/ \E w \in Writers : Crash(w)

MCSpec == PipelineInit /\ [][MCNext]_vars

WriterSymmetry == Permutations(Writers)
=============================================================================
