---------------------------- MODULE LiveRecovery ----------------------------
(***************************************************************************)
(* A case in live mode: process_case() with the diagnosis ladder, the gate  *)
(* of Policy and the live executor, and reconcile() afterwards.            *)
(*                                                                         *)
(* Here one process runs one call at a time, and the statements of a call   *)
(* between two exchanges with the outside are one step; RecoveryPipeline    *)
(* takes them apart.  What it leaves out is here: how a proposal comes      *)
(* about, and what an executor that talks to a service may do.             *)
(***************************************************************************)
EXTENDS DiagnosisLadder, LiveExecutor

VARIABLES rows,    \* case -> [state, cohort, attempts, uncertain]; uncertain is the
                   \* attempt whose ACTION_UNCERTAIN is unresolved, 0 for none
          inputOf, \* case -> the failure it is about
          round,   \* the case of the running process_case(), or what else runs
          issued   \* the verdicts that allowed an action

caseVars == <<rows, inputOf, round, issued>>
liveVars == <<diagnosisVars, execVars, caseVars>>

\* Any case may need as many attempts as its method's cap allows.
ASSUME LiveAssumption ==
  /\ LiveCases \cap {"none", "delivery", "probe"} = {}
  /\ \A m \in Methods : 1 .. CapByMethod[m] \subseteq LiveAttempts

RowStates == {"DETECTED", "DIAGNOSED", "EXECUTING", "SCHEDULED", "FAILED_ATTEMPT",
              "RECOVERED", "ABANDONED", "HOLDOUT_CLOSED", "QUARANTINED"}

NewRow(cohort) ==
  [state |-> "DETECTED", cohort |-> cohort, attempts |-> 0, uncertain |-> 0]

LiveInit ==
  /\ DiagnosisInit /\ ExecInit
  /\ rows \in [LiveCases -> {NewRow(k) : k \in {"TREATED", "HOLDOUT"}}]
  /\ inputOf \in [LiveCases -> Inputs]
  /\ round = "none" /\ issued = {}

Free == round = "none" /\ stage = "idle" /\ exec.stage = "idle"

----------------------------------------------------------------------------
(* process_case() *)

\* Nothing keeps a quarantined case out of it.  In any other state transition() raises
\* once the diagnosis is there, which is then for nothing: that is Probe.
StartRound(c, p) ==
  /\ Free
  /\ rows[c].state \in {"DETECTED", "DIAGNOSED", "FAILED_ATTEMPT", "QUARANTINED"}
  /\ TriageFirst(inputOf[c], p)
  /\ round' = c
  /\ UNCHANGED <<execVars, rows, inputOf, issued>>

\* The row is DIAGNOSED by now.  The live executor writes no row of actions, so no
\* key is ever known to have been executed.
View(c) ==
  [state |-> "DIAGNOSED", cohort |-> rows[c].cohort, attempts |-> rows[c].attempts,
   keys |-> {}, method |-> inputOf[c].method, amount |-> inputOf[c].amount]

DecisionOn(c) == DecisionOf(proposal, View(c), FALSE)

VerdictOn(c) ==
  [case |-> c, attempt |-> rows[c].attempts + 1, allowed |-> TRUE, action |-> "RETRY"]

Allow(c) ==
  /\ round = c /\ DecisionOn(c) = "ALLOW"
  /\ Take
  /\ Deliver(VerdictOn(c))
  /\ issued' = issued \cup {VerdictOn(c)}
  /\ rows' = [rows EXCEPT ![c].state = "EXECUTING"]
  /\ UNCHANGED <<inputOf, round>>

Landing(c) ==
  CASE DecisionOn(c) = "REVIEW"        -> "QUARANTINED"
    [] rows[c].cohort = "HOLDOUT"      -> "HOLDOUT_CLOSED"
    [] OTHER                           -> "ABANDONED"

Close(c) ==
  /\ round = c /\ DecisionOn(c) # "ALLOW"
  /\ Take
  /\ rows' = [rows EXCEPT ![c].state = Landing(c)]
  /\ round' = "none"
  /\ UNCHANGED <<execVars, inputOf, issued>>

Answering(answer, row) ==
  CASE answer = "SUCCEEDED" ->
         [row EXCEPT !.state = "RECOVERED", !.attempts = @ + 1]
    [] answer = "FAILED"    ->
         [row EXCEPT !.state = "FAILED_ATTEMPT", !.attempts = @ + 1]
    [] answer = "RETRYABLE" -> [row EXCEPT !.state = "SCHEDULED"]
    [] answer = "REFUSED"   -> [row EXCEPT !.state = "QUARANTINED"]
    [] answer = "UNCERTAIN" ->
         [row EXCEPT !.state = "QUARANTINED", !.uncertain = row.attempts + 1]

Settle(c) ==
  /\ round = c /\ exec.stage = "done"
  /\ rows' = [rows EXCEPT ![c] = Answering(exec.answer, @)]
  /\ Release
  /\ round' = "none"
  /\ UNCHANGED <<diagnosisVars, inputOf, issued>>

----------------------------------------------------------------------------
(* The callers: reconcile(), a verdict that is delivered again, and a        *)
(* diagnosis that nobody acts upon                                          *)

\* The link of the attempt that is uncertain, if there is one, means that it succeeded, or that it failed if the customer let it expire; without a link
\* the action is taken never to have run.
Reconcile(c) ==
  /\ Free
  /\ rows[c].state = "QUARANTINED" /\ rows[c].uncertain # 0
  /\ LET link == \E l \in links : l.key = <<c, rows[c].uncertain>>
         resolved(state, spent) ==
           [rows[c] EXCEPT !.state = state, !.uncertain = 0, !.attempts = @ + spent]
     IN  \/ link /\ rows' = [rows EXCEPT ![c] = resolved("RECOVERED", 1)]
         \/ link /\ rows' = [rows EXCEPT ![c] = resolved("FAILED_ATTEMPT", 1)]
         \/ ~link /\ rows' = [rows EXCEPT ![c] = resolved("DIAGNOSED", 0)]
  /\ UNCHANGED <<diagnosisVars, execVars, inputOf, round, issued>>

\* At-least-once delivery: an issued verdict again, or one that allows nothing.
Redeliver(v) ==
  /\ Free
  /\ v \in issued \/ ~v.allowed \/ v.action # "RETRY"
  /\ Deliver(v)
  /\ round' = "delivery"
  /\ UNCHANGED <<diagnosisVars, rows, inputOf, issued>>

Probe(i, p) ==
  /\ Free
  /\ Diagnose(i, p)
  /\ round' = "probe"
  /\ UNCHANGED <<execVars, rows, inputOf, issued>>

Discard ==
  /\ \/ round = "delivery" /\ exec.stage = "done" /\ Release /\ UNCHANGED diagnosisVars
     \/ round = "probe" /\ Take /\ UNCHANGED execVars
  /\ round' = "none"
  /\ UNCHANGED <<rows, inputOf, issued>>

----------------------------------------------------------------------------
\* The call that is running goes on.
RoundStep ==
  \/ DiagnosisStep /\ UNCHANGED <<execVars, caseVars>>
  \/ ExecStep /\ UNCHANGED <<diagnosisVars, caseVars>>
  \/ \E c \in LiveCases : Allow(c) \/ Close(c) \/ Settle(c)
  \/ Discard

LiveNext ==
  \/ \E c \in LiveCases, p \in Ports : StartRound(c, p)
  \/ RoundStep
  \/ \E c \in LiveCases : Reconcile(c)
  \/ \E v \in Verdict : Redeliver(v)
  \/ \E i \in Inputs, p \in Ports : Probe(i, p)
  \/ \E l \in inflight : Land(l) /\ UNCHANGED <<diagnosisVars, caseVars>>

\* A running call is straight-line Python that waits only for answers with a
\* timeout.
LiveSpec == LiveInit /\ [][LiveNext]_liveVars /\ WF_liveVars(RoundStep)

----------------------------------------------------------------------------
(* Properties *)

LiveTypeOK ==
  /\ DiagnosisTypeOK /\ ExecTypeOK
  /\ rows \in [LiveCases -> [state : RowStates, cohort : {"TREATED", "HOLDOUT"},
                             attempts : Nat, uncertain : Nat]]
  /\ inputOf \in [LiveCases -> Inputs]
  /\ round \in LiveCases \cup {"none", "delivery", "probe"}
  /\ issued \subseteq Verdict

LinksOf(c) == {l \in links : l.key[1] = c}

\* The customer gets no more links than the cap allows attempts, although
\* timeouts and refusals count none, verdicts are delivered again, and lost
\* requests take effect long after the case has moved on.
LinksWithinCap ==
  \A c \in LiveCases : Cardinality(LinksOf(c)) <= CapByMethod[inputOf[c].method]

\* Every request to the service carries a key that the gate allowed, and never
\* one of a holdout case.
LinksWereAuthorized ==
  \A l \in links \cup inflight :
    /\ rows[l.key[1]].cohort = "TREATED"
    /\ \E v \in issued : KeyOf(v) = l.key

\* A case says RECOVERED only if the customer was sent a link.
RecoveredHasLink ==
  \A c \in LiveCases : rows[c].state = "RECOVERED" => LinksOf(c) # {}

\* The gate allows an action only for a reason that triage does not call
\* terminal or unseen, and when a model was to be asked, only on an answer of it
\* that its client accepted in one of its attempts: a model that fails, answers
\* nonsense or contradicts itself spends nothing, and no port, be it the
\* adversarial one, gets at a terminal case.
VerdictIsVouchedFor ==
  [][ issued' # issued =>
      \E c \in LiveCases :
        LET reason == inputOf[c].reason IN
        /\ round = c
        /\ Clean(reason) => CLEAN[reason] # "TERMINAL"
        /\ Clean(reason) \/ reason \in AMBIGUOUS
        /\ reason \in AMBIGUOUS /\ port \in Models =>
             tries < MaxTries /\ proposal = reply /\ reply.evidence # "other" ]_liveVars

\* Every call ends, whatever the models and the service do.
RoundEnds == round # "none" ~> round = "none"
=============================================================================
