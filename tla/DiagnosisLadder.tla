-------------------------- MODULE DiagnosisLadder --------------------------
(***************************************************************************)
(* A diagnosis under way: triage first, as process_case() does it, then an  *)
(* implementation of DiagnosisPort (agent/diagnosis/): a fixture, or one of *)
(* two model clients with their ladder of retries and fallbacks.            *)
(*                                                                         *)
(* A model may answer anything; what its client lets through is `Accepted'. *)
(* Pauses between requests only take time and are left out.                 *)
(***************************************************************************)
EXTENDS Diagnosis

CONSTANTS Inputs,       \* what is asked: DiagnosisInput
          ModelAnswers  \* well-formed answers a model may give

VARIABLES stage,     \* where the diagnosis under way is
          input,     \* what it is about
          port,      \* the implementation that is asked
          tries,     \* failed attempts of the model client
          reply,     \* the model's answer that is being validated
          proposal   \* the proposal returned

diagnosisVars == <<stage, input, port, tries, reply, proposal>>

ASSUME DiagnosisAssumption ==
  /\ Inputs # {} /\ \A i \in Inputs : i.method \in Methods
  /\ ModelAnswers \subseteq ProposalType

----------------------------------------------------------------------------
(* A diagnosis *)

MaxTries == 2

NoInput == CHOOSE i \in Inputs : TRUE

DiagnosisInit ==
  /\ stage = "idle" /\ input = NoInput /\ port = "stub"
  /\ tries = 0 /\ reply = Unknown /\ proposal = Unknown

Enter(i, p, st, answer) ==
  /\ stage = "idle"
  /\ stage' = st /\ input' = i /\ port' = p /\ tries' = 0
  /\ reply' = Unknown /\ proposal' = answer

\* process_case(): the port is asked about ambiguous reasons only.
TriageFirst(i, p) ==
  LET t == Triage(i.reason)
  IN  CASE t.matched = "ambiguous" -> Enter(i, p, "ask", Unknown)
        [] t.matched = "clean"     -> Enter(i, p, "answered", CleanProposal(t.class))
        [] OTHER                   -> Enter(i, p, "answered", UnseenProposal)

\* diagnose(), called without triage.
Diagnose(i, p) == Enter(i, p, "ask", Unknown)

Answered(a) == stage' = "answered" /\ proposal' = a

AskFixture ==
  /\ stage = "ask" /\ port \in Fixtures
  /\ Answered(FixtureAnswer(port, input))
  /\ UNCHANGED <<input, port, tries, reply>>

\* The next attempt of the loop, if there is one.
Retry == stage' = "ask" /\ tries' = tries + 1

Asking == stage = "ask" /\ port \in Models /\ tries < MaxTries

\* A well-formed answer, from the model or from Groq's second model.
Hear(a) ==
  /\ Asking \/ stage = "secondModel"
  /\ stage' = "check" /\ reply' = a
  /\ UNCHANGED <<input, port, tries, proposal>>

\* No answer, or none with the schema: a timeout, an API error, a text that is not
\* JSON, a missing field.  Every exception of an attempt ends that attempt.
Miss ==
  /\ Asking \/ stage = "secondModel"
  /\ Retry
  /\ UNCHANGED <<input, port, reply, proposal>>

\* Groq is rate limited: the same attempt asks the second model.
RateLimited ==
  /\ Asking /\ port = "groq"
  /\ stage' = "secondModel"
  /\ UNCHANGED <<input, port, tries, reply, proposal>>

\* A bug: an answer that is refused is asked for again without end.
ValidateForever ==
  /\ stage = "check"
  /\ \/ Accepted(reply) /\ Answered(reply) /\ UNCHANGED tries
     \/ ~Accepted(reply) /\ stage' = "ask" /\ UNCHANGED <<tries, proposal>>
  /\ UNCHANGED <<input, port, reply>>

Validate ==
  /\ stage = "check"
  /\ \/ Accepted(reply) /\ Answered(reply) /\ UNCHANGED tries
     \/ ~Accepted(reply) /\ Retry /\ UNCHANGED proposal
  /\ UNCHANGED <<input, port, reply>>

\* Both attempts failed: tier 2 where the taxonomy knows the reason, else tier 3.
FallBack ==
  /\ stage = "ask" /\ port \in Models /\ tries = MaxTries
  /\ Answered(IF Clean(input.reason) THEN Tier2(input.reason) ELSE Unknown)
  /\ UNCHANGED <<input, port, tries, reply>>

DiagnosisStep ==
  \/ AskFixture \/ Miss \/ RateLimited \/ Validate \/ FallBack
  \/ \E a \in ModelAnswers : Hear(a)

\* The caller takes the proposal; the rest was local to the call.
Take ==
  /\ stage = "answered"
  /\ stage' = "idle" /\ input' = NoInput /\ port' = "stub"
  /\ tries' = 0 /\ reply' = Unknown /\ proposal' = Unknown

DiagnosisNext ==
  \/ \E i \in Inputs, p \in Ports : TriageFirst(i, p) \/ Diagnose(i, p)
  \/ DiagnosisStep
  \/ Take

----------------------------------------------------------------------------
(* Properties *)

DiagnosisTypeOK ==
  /\ stage \in {"idle", "ask", "secondModel", "check", "answered"}
  /\ input \in Inputs /\ port \in Ports /\ tries \in 0 .. MaxTries
  /\ reply \in ProposalType /\ proposal \in ProposalType

\* A case that no gate stands in the way of.
OpenView(i) ==
  [state |-> "DIAGNOSED", cohort |-> "TREATED", attempts |-> 0, keys |-> {},
   method |-> i.method, amount |-> i.amount]

\* When the model client gives up, on an API that is down as on answers that do
\* not validate, what it returns instead is allowed by no gate: the fallback's
\* confidence (prompting.py) stays under the policy's floor (rules.yaml).
GivingUpSpendsNothing ==
  stage = "answered" /\ port \in Models /\ tries = MaxTries =>
    DecisionOf(proposal, OpenView(input), FALSE) # "ALLOW"

\* A diagnosis that is begun is answered, whatever the models do.
DiagnosisAnswers == stage = "ask" ~> stage = "answered"
=============================================================================
