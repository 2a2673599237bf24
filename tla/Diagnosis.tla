----------------------------- MODULE Diagnosis -----------------------------
(***************************************************************************)
(* From an error reason to a proposal, as far as it is a pure function:     *)
(* triage (agent/triage.py), the proposals process_case() makes itself, the *)
(* checks and fallbacks of agent/diagnosis/prompting.py, and the fixtures   *)
(* that answer without a model.                                            *)
(***************************************************************************)
EXTENDS Policy

----------------------------------------------------------------------------
(* Triage *)

CLEAN ==
  LET customer   == {"insufficient_funds", "payment_cancelled_by_user",
                     "invalid_otp", "otp_attempts_exceeded"}
      instrument == {"card_expired", "invalid_card_number", "card_blocked",
                     "invalid_vpa"}
      terminal   == {"account_closed", "fraud_suspected", "payment_frozen",
                     "international_transaction_not_allowed", "mandate_revoked"}
      infra      == {"gateway_timeout", "issuer_down", "npci_unavailable",
                     "server_error"}
  IN  [r \in customer \cup instrument \cup terminal \cup infra |->
         CASE r \in customer   -> "CUSTOMER_FIXABLE"
           [] r \in instrument -> "INSTRUMENT_INVALID"
           [] r \in terminal   -> "TERMINAL"
           [] r \in infra      -> "TRANSIENT_INFRA"]

AMBIGUOUS == {"payment_failed", "payment_declined_by_bank",
              "authentication_failed", "collect_request_expired",
              "transaction_limit_exceeded"}

Clean(reason) == reason \in DOMAIN CLEAN

\* A bug: what is not clean is ambiguous.
TriageOpen(reason) ==
  IF Clean(reason) THEN [class |-> CLEAN[reason], matched |-> "clean"]
  ELSE [class |-> "UNKNOWN", matched |-> "ambiguous"]

Triage(reason) ==
  CASE Clean(reason)          -> [class |-> CLEAN[reason], matched |-> "clean"]
    [] reason \in AMBIGUOUS   -> [class |-> "UNKNOWN", matched |-> "ambiguous"]
    [] OTHER                  -> [class |-> "UNKNOWN", matched |-> "unseen"]

----------------------------------------------------------------------------
(* Proposals.  Confidence is in percent.  `evidence' says whether the list   *)
(* is empty, names fields of the prompt only, or names something else.      *)

Evidence == {"none", "fields", "other"}

Proposal(class, confidence, evidence, action, delay, tier) ==
  [class |-> class, confidence |-> confidence, evidence |-> evidence,
   action |-> action, delay |-> delay, missing |-> FALSE, tier |-> tier]

\* DiagnosisProposal: what the schema admits.  The tier is a field of it like any
\* other, so a model may set it.
ProposalType ==
  [class : Recoverability, confidence : 0 .. 100, evidence : Evidence,
   action : Actions, delay : Nat \cup {NoTime}, missing : BOOLEAN, tier : 0 .. 3]

StopUnless(retriable) == IF retriable THEN "RETRY" ELSE "STOP"

\* process_case() on a clean match, and on an unseen reason.
CleanProposal(class) ==
  Proposal(class, 100, "other", StopUnless(class # "TERMINAL"), 15, 0)
UnseenProposal == Proposal("UNKNOWN", 0, "other", "STOP", 0, 0)

\* validate(): the checks on an answer that has the schema.
Accepted(a) ==
  /\ a.evidence # "other"
  /\ a.action \in {"RETRY", "STOP"}
  /\ a.confidence >= 70 => a.evidence # "none"
  /\ a.confidence >= 85 => ~a.missing
  /\ ~(a.class = "TERMINAL" /\ a.action = "RETRY")

\* A bug: the prior is returned as if a model had vouched for it.
Tier2Sure(reason) ==
  Proposal(CLEAN[reason], 50, "none", StopUnless(CLEAN[reason] # "TERMINAL"), 60, 2)

\* tier2_fallback: the taxonomy's class, at low confidence.
Tier2(reason) ==
  Proposal(CLEAN[reason], 30, "none", StopUnless(CLEAN[reason] # "TERMINAL"), 60, 2)

\* UnknownDiagnosis, and tier3_fallback, which is the same with a rationale.
Unknown == Proposal("UNKNOWN", 0, "none", "STOP", NoTime, 3)

----------------------------------------------------------------------------
(* The fixtures *)

\* BaselineDiagnosis and AdversarialDiagnosis look at nothing.
Baseline == Proposal("TRANSIENT_INFRA", 50, "none", "RETRY", 60, 0)
Adversarial == Proposal("TRANSIENT_INFRA", 100, "other", "RETRY", 0, 0)

\* StubDiagnosis, branch by branch.
Stub(i) ==
  LET says(class, confidence, action, delay) ==
        Proposal(class, confidence, "other", action, delay, 0)
  IN CASE Clean(i.reason) ->
            says(CLEAN[i.reason], 85,
                 StopUnless(CLEAN[i.reason] \notin {"TERMINAL", "INSTRUMENT_INVALID"}),
                 IF i.downtime THEN 60 ELSE 15)
       [] ~Clean(i.reason) /\ i.downtime -> says("TRANSIENT_INFRA", 85, "RETRY", 60)
       [] ~Clean(i.reason) /\ ~i.downtime /\ i.recurring ->
            IF i.method = "card" THEN says("INSTRUMENT_INVALID", 80, "STOP", 0)
            ELSE says("TERMINAL", 85, "STOP", 0)
       [] OTHER ->
            CASE i.reason = "transaction_limit_exceeded" /\ i.amount > 1000000 ->
                   says("TERMINAL", 85, "STOP", 0)
              [] i.reason = "authentication_failed" ->
                   says("CUSTOMER_FIXABLE", 80, "RETRY", 15)
              [] i.reason = "collect_request_expired" ->
                   says("CUSTOMER_FIXABLE", 75, "RETRY", 15)
              [] OTHER -> says("TRANSIENT_INFRA", 70, "RETRY", 15)

Models == {"claude", "groq"}
Fixtures == {"stub", "baseline", "adversarial", "unknown"}
Ports == Models \cup Fixtures

FixtureAnswer(p, i) ==
  CASE p = "stub"        -> Stub(i)
    [] p = "baseline"    -> Baseline
    [] p = "adversarial" -> Adversarial
    [] p = "unknown"     -> Unknown
=============================================================================
