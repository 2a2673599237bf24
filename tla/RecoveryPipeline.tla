-------------------------- MODULE RecoveryPipeline --------------------------
(***************************************************************************)
(* One case from ingestion to a terminal state: agent/pipeline.py with the  *)
(* simulated executor, the audit log as its readers see it, and             *)
(* agent/reconciliation.py.                                                *)
(*                                                                         *)
(* A writer is a process with its own connection.  It runs one call of     *)
(* ingest(), process_case() or reconcile() at a time.  The connection is   *)
(* in autocommit mode, so a writer's step is one SQL statement and the     *)
(* Python code up to the next one; `pc' names the statement to come.  A    *)
(* crash leaves behind whatever the statements before it wrote.            *)
(***************************************************************************)
EXTENDS CaseStore, Policy

CONSTANTS StartStates,   \* states of a case that process_case() is called on
          MethodOf,      \* case -> its payment method
          AmountOf,      \* case -> its amount
          Proposals,     \* what the diagnosis layer may propose
          MaxTimeouts,   \* bound on calls that time out
          MaxCrashes,    \* bound on writers that die in a call
          PortMayRefuse  \* may the executor refuse with a retryable code?

Proposal == [class : Recoverability, action : Actions, confidence : Nat]

ASSUME PipelineAssumption ==
  /\ Cases # {}
  /\ StartStates \subseteq States
  /\ MethodOf \in [Cases -> Methods]
  /\ AmountOf \in [Cases -> Nat]
  /\ Proposals \subseteq Proposal /\ Proposals # {}
  /\ MaxTimeouts \in Nat
  /\ MaxCrashes \in Nat
  /\ PortMayRefuse \in BOOLEAN

VARIABLES
  actions,   \* the actions table: case -> set of [attempt, ok]
  log,       \* the audit log of a case, as replay() and reconcile() read it
  charges,   \* what the payment provider did: case -> sequence of [attempt, ok]
  pc,        \* writer -> its next statement ("idle": no call is running)
  job,       \* writer -> the local variables of its call
  timeouts,  \* calls that timed out so far
  crashes    \* writers that died so far

vars == <<rows, pending, actions, log, charges, pc, job, timeouts, crashes>>

Phases == {"diagnose", "schedule", "launch", "close", "settle", "reconcile"}
Pcs == {"idle", "announce", "guard", "select", "update", "log", "view", "decide",
        "execute", "lookup", "insert", "report", "find", "verify", "resolve"}

\* What the executor returned or raised, or the outcome given to reconcile().
\* "NONE" is Python's None.
Outcomes == {"SUCCEEDED", "FAILED", "REFUSED", "RETRYABLE", "UNCERTAIN", "NONE"}

Attempt == [attempt : Nat, ok : BOOLEAN]

\* The columns of a row that are read again after the SELECT.
View == [state : States \cup {"ABSENT"}, cohort : Cohorts, attempts : Nat]

\* cohort, state and attempts are what replay() returns; uncertain is the attempt
\* of the last ACTION_UNCERTAIN that no RECONCILIATION_RESOLVED follows, or 0.
LogEntry == [cohort : Cohorts \cup {"NONE"}, state : States \cup {"NONE"},
             attempts : Nat, uncertain : Nat]

\* phase and target: the transition the call is at; halted: the kill switch of
\* the Rules it was given; seen: the row it read for the policy, whose state the
\* executor reads again.
Job == [case : Cases, phase : Phases, target : States, halted : BOOLEAN,
        proposal : Proposal, seen : View, outcome : Outcomes]

NoView == [state |-> "DETECTED", cohort |-> "HOLDOUT", attempts |-> 0]

NoProposal == [class |-> "UNKNOWN", action |-> "STOP", confidence |-> 0]

NewJob(c, h, p, o) ==
  [case |-> c, phase |-> "diagnose", target |-> "DIAGNOSED", halted |-> h,
   proposal |-> p, seen |-> NoView, outcome |-> o]

NoJob == NewJob(CHOOSE c \in Cases : TRUE, FALSE, NoProposal, "NONE")

NoLog == [cohort |-> "NONE", state |-> "NONE", attempts |-> 0, uncertain |-> 0]

PipelineInit ==
  /\ StoreInit
  /\ actions = [c \in Cases |-> {}]
  /\ log = [c \in Cases |-> NoLog]
  /\ charges = [c \in Cases |-> <<>>]
  /\ pc = [w \in Writers |-> "idle"]
  /\ job = [w \in Writers |-> NoJob]
  /\ timeouts = 0
  /\ crashes = 0

----------------------------------------------------------------------------
(* How a call goes on *)

Goto(w, label) == pc' = [pc EXCEPT ![w] = label]

\* The call of w is over: it returned, or an exception left it.
Return(w) == Goto(w, "idle") /\ job' = [job EXCEPT ![w] = NoJob]

JobWith(w, phase, target, seen, outcome) ==
  [case |-> job[w].case, phase |-> phase, target |-> target,
   halted |-> job[w].halted, proposal |-> job[w].proposal,
   seen |-> seen, outcome |-> outcome]

\* Call transition(case, to) next.
Move(w, phase, to) ==
  /\ Goto(w, "select")
  /\ job' = [job EXCEPT ![w] = JobWith(w, phase, to, job[w].seen, job[w].outcome)]

Saw(w, view) ==
  job' = [job EXCEPT ![w] =
            JobWith(w, job[w].phase, job[w].target, view, job[w].outcome)]

Got(w, outcome) ==
  job' = [job EXCEPT ![w] =
            JobWith(w, job[w].phase, job[w].target, job[w].seen, outcome)]

\* The attempt the verdict authorised: Verdict.attempt_no, hence the idempotency
\* key.  It comes from the row the policy saw.
AttemptOf(w) == job[w].seen.attempts + 1

\* A bug: only the attempt that recovers the case is counted.
SpentOnRecovery(state) == state = "RECOVERED"

\* increment_attempt is passed for the two outcomes that spent an attempt.
Spent(state) == state \in {"RECOVERED", "FAILED_ATTEMPT"}

----------------------------------------------------------------------------
(* ingest() *)

\* create_case: the INSERT.
Ingest(w, c, cohort) ==
  /\ pc[w] = "idle"
  /\ CreateCase(c, cohort)
  /\ Goto(w, "announce")
  /\ job' = [job EXCEPT ![w] = NewJob(c, FALSE, NoProposal, "NONE")]
  /\ UNCHANGED <<actions, log, charges, timeouts, crashes>>

\* SIGNAL_RECEIVED and COHORT_ASSIGNED, of which replay() reads the second.
Announce(w) ==
  /\ pc[w] = "announce"
  /\ log' = [log EXCEPT ![job[w].case].cohort = rows[job[w].case].cohort]
  /\ Return(w)
  /\ UNCHANGED <<rows, pending, actions, charges, timeouts, crashes>>

----------------------------------------------------------------------------
(* transition(), and the STATE_TRANSITION event the caller appends after it *)

Legal(w) ==
  /\ Exists(job[w].case)
  /\ job[w].target \in VALID_TRANSITIONS[rows[job[w].case].state]

Select(w) ==
  /\ pc[w] = "select"
  /\ SelectRow(w, job[w].case, job[w].target, Spent(job[w].target))
  /\ Goto(w, "update")
  /\ UNCHANGED <<actions, log, charges, job, timeouts, crashes>>

\* IllegalTransition: no call catches it.
Illegal(w) ==
  /\ pc[w] = "select"
  /\ ~Legal(w)
  /\ Return(w)
  /\ UNCHANGED <<rows, pending, actions, log, charges, timeouts, crashes>>

\* A bug: reconcile() does not say that it resolved the uncertain action.
AfterUpdateUnresolved(w) ==
  IF job[w].phase = "launch" THEN "execute" ELSE "log"

\* EXECUTING is entered without an event; reconcile() appends its own first.
AfterUpdate(w) ==
  CASE job[w].phase = "launch"    -> "execute"
    [] job[w].phase = "reconcile" -> "resolve"
    [] OTHER                      -> "log"

\* A bug: a writer that lost the race writes all the same.
UpdateBlind(w) ==
  /\ pc[w] = "update"
  /\ \E p \in pending :
       /\ p.writer = w
       /\ rows' = [rows EXCEPT ![p.case] = Written(p)]
       /\ pending' = pending \ {p}
  /\ Goto(w, AfterUpdate(w))
  /\ UNCHANGED <<actions, log, charges, job, timeouts, crashes>>

Update(w) ==
  /\ pc[w] = "update"
  /\ \E p \in pending : p.writer = w /\ UpdateRow(p)
  /\ Goto(w, AfterUpdate(w))
  /\ UNCHANGED <<actions, log, charges, job, timeouts, crashes>>

Conflict(w) ==
  /\ pc[w] = "update"
  /\ \E p \in pending : p.writer = w /\ LoseRace(p)
  /\ Return(w)
  /\ UNCHANGED <<actions, log, charges, timeouts, crashes>>

LogTransition(w) ==
  /\ pc[w] = "log"
  /\ log' = [log EXCEPT ![job[w].case].state = job[w].target]
  /\ CASE job[w].phase = "diagnose" -> Goto(w, "view") /\ UNCHANGED job
       [] job[w].phase = "schedule" -> Move(w, "launch", "EXECUTING")
       [] OTHER                     -> Return(w)
  /\ UNCHANGED <<rows, pending, actions, charges, timeouts, crashes>>

----------------------------------------------------------------------------
(* process_case(): up to the decision *)

\* The first get_case, triage and diagnosis.  What they read of the case decides
\* nothing but the proposal, which may be any.
Begin(w, c, p, h) ==
  /\ pc[w] = "idle"
  /\ Goto(w, "guard")
  /\ job' = [job EXCEPT ![w] = NewJob(c, h, p, "NONE")]
  /\ UNCHANGED <<rows, pending, actions, log, charges, timeouts, crashes>>

Start(w, c, p, h) == rows[c].state \in StartStates /\ Begin(w, c, p, h)

\* A case that is DIAGNOSED already skips the transition.
Guard(w) ==
  /\ pc[w] = "guard"
  /\ IF rows[job[w].case].state = "DIAGNOSED"
       THEN Goto(w, "view") /\ UNCHANGED job
       ELSE Move(w, "diagnose", "DIAGNOSED")
  /\ UNCHANGED <<rows, pending, actions, log, charges, timeouts, crashes>>

RowView(c) ==
  [state |-> rows[c].state, cohort |-> rows[c].cohort, attempts |-> rows[c].attempts]

ReadCase(w) ==
  /\ pc[w] = "view"
  /\ Saw(w, RowView(job[w].case))
  /\ Goto(w, "decide")
  /\ UNCHANGED <<rows, pending, actions, log, charges, timeouts, crashes>>

ExecutedKeys(c) == {a.attempt : a \in actions[c]}

CaseView(w) ==
  LET c == job[w].case
      s == job[w].seen
  IN  [state |-> s.state, cohort |-> s.cohort, attempts |-> s.attempts,
       keys |-> ExecutedKeys(c), method |-> MethodOf[c], amount |-> AmountOf[c]]

\* A bug: the cohort of a case is not looked at.
DecideIgnoringCohort(w) ==
  DecisionOf(job[w].proposal, [CaseView(w) EXCEPT !.cohort = "TREATED"],
             job[w].halted)

\* A bug: the kill switch of the rules is not looked at.
DecideIgnoringHalt(w) == DecisionOf(job[w].proposal, CaseView(w), FALSE)

Decide(w) == DecisionOf(job[w].proposal, CaseView(w), job[w].halted)

\* Where a case goes that is not retried.
Landing(w) ==
  CASE Decide(w) = "REVIEW" -> "QUARANTINED"
    [] DecidingGate(job[w].proposal, CaseView(w), job[w].halted) = "HOLDOUT_GUARD"
         -> "HOLDOUT_CLOSED"
    [] OTHER -> "ABANDONED"

\* The SELECT of the executed keys, evaluate() and POLICY_VERDICT.
Authorize(w) ==
  /\ pc[w] = "decide"
  /\ IF Decide(w) = "ALLOW" THEN Move(w, "schedule", "SCHEDULED")
     ELSE Move(w, "close", Landing(w))
  /\ UNCHANGED <<rows, pending, actions, log, charges, timeouts, crashes>>

----------------------------------------------------------------------------
(* SimulatedExecutor.execute(), and the payment provider behind it *)

ExecutableCaseStates == {"SCHEDULED", "EXECUTING"}

\* The SELECT of the case.
ExecutorReads(w) ==
  /\ pc[w] = "execute"
  /\ Saw(w, [state |-> rows[job[w].case].state, cohort |-> job[w].seen.cohort,
             attempts |-> job[w].seen.attempts])
  /\ Goto(w, "lookup")
  /\ UNCHANGED <<rows, pending, actions, log, charges, timeouts, crashes>>

\* A bug: the state is looked at before the actions table.
KnownWhileExecutable(w) ==
  AttemptOf(w) \in ExecutedKeys(job[w].case) /\ job[w].seen.state \in ExecutableCaseStates

\* Does the actions table have a row with the key of this verdict?
Known(w) == AttemptOf(w) \in ExecutedKeys(job[w].case)

Result(ok) == IF ok THEN "SUCCEEDED" ELSE "FAILED"

\* Idempotent replay: the result of the first execution, whatever the state.
Replay(w) ==
  /\ pc[w] = "lookup" /\ Known(w)
  /\ \E a \in actions[job[w].case] :
       a.attempt = AttemptOf(w) /\ Got(w, Result(a.ok))
  /\ Goto(w, "report")
  /\ UNCHANGED <<rows, pending, actions, log, charges, timeouts, crashes>>

\* ILLEGAL_STATE, which is not retryable.
Refuse(w) ==
  /\ pc[w] = "lookup" /\ ~Known(w)
  /\ job[w].seen.state \notin ExecutableCaseStates
  /\ Got(w, "REFUSED")
  /\ Goto(w, "report")
  /\ UNCHANGED <<rows, pending, actions, log, charges, timeouts, crashes>>

Dispatchable(w) ==
  /\ pc[w] = "lookup" /\ ~Known(w)
  /\ job[w].seen.state \in ExecutableCaseStates

\* PROVIDER_ERROR or DUPLICATE_IN_FLIGHT: nothing ran.
RefuseForNow(w) ==
  /\ PortMayRefuse
  /\ Dispatchable(w)
  /\ Got(w, "RETRYABLE")
  /\ Goto(w, "report")
  /\ UNCHANGED <<rows, pending, actions, log, charges, timeouts, crashes>>

Charge(w, ok) ==
  charges' = [charges EXCEPT ![job[w].case] =
                Append(@, [attempt |-> AttemptOf(w), ok |-> ok])]

\* ExecutionUncertain: the request was lost, or its answer was.
TimeOut(w) ==
  /\ timeouts < MaxTimeouts
  /\ Dispatchable(w)
  /\ UNCHANGED charges \/ \E ok \in BOOLEAN : Charge(w, ok)
  /\ timeouts' = timeouts + 1
  /\ Got(w, "UNCERTAIN")
  /\ Goto(w, "report")
  /\ UNCHANGED <<rows, pending, actions, log, crashes>>

Perform(w, ok) ==
  /\ Dispatchable(w)
  /\ Charge(w, ok)
  /\ Got(w, Result(ok))
  /\ Goto(w, "insert")
  /\ UNCHANGED <<rows, pending, actions, log, timeouts, crashes>>

\* INSERT OR REPLACE INTO actions.
Record(w) ==
  /\ pc[w] = "insert"
  /\ actions' = [actions EXCEPT ![job[w].case] =
                   {a \in @ : a.attempt # AttemptOf(w)} \cup
                   {[attempt |-> AttemptOf(w), ok |-> job[w].outcome = "SUCCEEDED"]}]
  /\ Goto(w, "report")
  /\ UNCHANGED <<rows, pending, log, charges, job, timeouts, crashes>>

----------------------------------------------------------------------------
(* process_case(): after the executor *)

\* A bug: an uncertain outcome goes back to the queue like a refusal.
SettledAsRefusal(outcome) ==
  CASE outcome = "SUCCEEDED" -> "RECOVERED"
    [] outcome = "FAILED"    -> "FAILED_ATTEMPT"
    [] outcome = "REFUSED"   -> "QUARANTINED"
    [] OTHER                 -> "SCHEDULED"

\* A bug: a call that times out is taken for one that failed.
SettledAsFailure(outcome) ==
  CASE outcome = "SUCCEEDED" -> "RECOVERED"
    [] outcome = "RETRYABLE" -> "SCHEDULED"
    [] outcome = "REFUSED"   -> "QUARANTINED"
    [] OTHER                 -> "FAILED_ATTEMPT"

\* Where the case goes.
Settled(outcome) ==
  CASE outcome = "SUCCEEDED" -> "RECOVERED"
    [] outcome = "FAILED"    -> "FAILED_ATTEMPT"
    [] outcome = "RETRYABLE" -> "SCHEDULED"
    [] OTHER                 -> "QUARANTINED"

\* ACTION_RESULT, ACTION_UNCERTAIN or ACTION_REFUSED; replay() counts the first.
ReportOutcome(w) ==
  /\ pc[w] = "report"
  /\ CASE job[w].outcome \in {"SUCCEEDED", "FAILED"} ->
            log' = [log EXCEPT ![job[w].case].attempts = @ + 1]
       [] job[w].outcome = "UNCERTAIN" ->
            log' = [log EXCEPT ![job[w].case].uncertain = AttemptOf(w)]
       [] OTHER -> UNCHANGED log
  /\ Move(w, "settle", Settled(job[w].outcome))
  /\ UNCHANGED <<rows, pending, actions, charges, timeouts, crashes>>

----------------------------------------------------------------------------
(* reconcile() *)

\* What the caller learns from the provider about the uncertain attempt.
VerifiedOutcome(c) ==
  LET done == {i \in DOMAIN charges[c] :
                 charges[c][i].attempt = log[c].uncertain}
  IN  CASE done = {} -> "NONE"
        [] \E i \in done : charges[c][i].ok -> "SUCCEEDED"
        [] OTHER -> "FAILED"

\* find_uncertain_cases, the query to the provider, and the call of reconcile().
Find(w, c) ==
  /\ pc[w] = "idle"
  /\ rows[c].state = "QUARANTINED"
  /\ log[c].uncertain # 0
  /\ Goto(w, "find")
  /\ job' = [job EXCEPT ![w] = NewJob(c, FALSE, NoProposal, VerifiedOutcome(c))]
  /\ UNCHANGED <<rows, pending, actions, log, charges, timeouts, crashes>>

\* Its first guard reads the row ...
CheckQuarantined(w) ==
  /\ pc[w] = "find"
  /\ IF rows[job[w].case].state = "QUARANTINED"
       THEN Goto(w, "verify") /\ UNCHANGED job
       ELSE Return(w)
  /\ UNCHANGED <<rows, pending, actions, log, charges, timeouts, crashes>>

\* A bug: only a verified failure is taken for one.
ReconciledAsPaid(outcome) ==
  IF outcome = "FAILED" THEN "FAILED_ATTEMPT" ELSE "RECOVERED"

\* A bug: what did not succeed is taken never to have run.
ReconciledUnspent(outcome) ==
  IF outcome = "SUCCEEDED" THEN "RECOVERED" ELSE "DIAGNOSED"

Reconciled(outcome) ==
  CASE outcome = "SUCCEEDED" -> "RECOVERED"
    [] outcome = "FAILED"    -> "FAILED_ATTEMPT"
    [] OTHER                 -> "DIAGNOSED"

\* ... and its second the audit log.
CheckUncertain(w) ==
  /\ pc[w] = "verify"
  /\ IF log[job[w].case].uncertain # 0
       THEN Move(w, "reconcile", Reconciled(job[w].outcome))
       ELSE Return(w)
  /\ UNCHANGED <<rows, pending, actions, log, charges, timeouts, crashes>>

\* RECONCILIATION_RESOLVED.
Resolve(w) ==
  /\ pc[w] = "resolve"
  /\ log' = [log EXCEPT ![job[w].case].uncertain = 0]
  /\ Goto(w, "log")
  /\ UNCHANGED <<rows, pending, actions, charges, job, timeouts, crashes>>

----------------------------------------------------------------------------
Crash(w) ==
  /\ pc[w] # "idle"
  /\ crashes < MaxCrashes
  /\ crashes' = crashes + 1
  /\ pending' = {p \in pending : p.writer # w}
  /\ Return(w)
  /\ UNCHANGED <<rows, actions, log, charges, timeouts>>

\* The next statement of the call that w is running.
Step(w) ==
  \/ Announce(w)
  \/ Guard(w) \/ ReadCase(w) \/ Authorize(w)
  \/ Select(w) \/ Illegal(w) \/ Update(w) \/ Conflict(w) \/ LogTransition(w)
  \/ ExecutorReads(w) \/ Replay(w) \/ Refuse(w) \/ RefuseForNow(w) \/ TimeOut(w)
  \/ \E ok \in BOOLEAN : Perform(w, ok)
  \/ Record(w) \/ ReportOutcome(w)
  \/ CheckQuarantined(w) \/ CheckUncertain(w) \/ Resolve(w)

\* A call of process_case() for c, by any writer, with any diagnosis.
Process(c) ==
  \E w \in Writers, p \in Proposals, h \in BOOLEAN : Start(w, c, p, h)

PipelineNext ==
  \/ \E w \in Writers, c \in Cases, k \in Cohorts : Ingest(w, c, k)
  \/ \E c \in Cases : Process(c)
  \/ \E w \in Writers, c \in Cases : Find(w, c)
  \/ \E w \in Writers : Step(w)
  \/ \E w \in Writers : Crash(w)

PipelineSpec == PipelineInit /\ [][PipelineNext]_vars

\* A running call goes on.  The rest is asked of the callers, which are not in
\* this code: they return to the open cases and to those find_uncertain_cases()
\* lists.
PipelineFairness ==
  /\ \A w \in Writers : WF_vars(Step(w))
  /\ \A c \in Cases : SF_vars(Process(c))
  /\ \A c \in Cases : SF_vars(\E w \in Writers : Find(w, c))

FairPipelineSpec == PipelineSpec /\ PipelineFairness

----------------------------------------------------------------------------
(* Properties *)

PipelineTypeOK ==
  /\ StoreTypeOK
  /\ actions \in [Cases -> SUBSET Attempt]
  /\ log \in [Cases -> LogEntry]
  /\ charges \in [Cases -> Seq(Attempt)]
  /\ pc \in [Writers -> Pcs]
  /\ job \in [Writers -> Job]
  /\ timeouts \in Nat /\ crashes \in Nat

CapOf(c) == CapByMethod[MethodOf[c]]

\* A call of w is working on c.
WorksOn(w, c) == pc[w] # "idle" /\ job[w].case = c

Quiet(c) == \A w \in Writers : ~WorksOn(w, c)

\* The holdout arm is never acted upon: no provider call for a case of it, from
\* a stale view, a replay or a timeout, by any number of writers.
HoldoutNeverCharged ==
  \A c \in Cases : rows[c].cohort = "HOLDOUT" => charges[c] = <<>>

\* The customer pays once: no charge, successful or not, follows a successful
\* one, although its result reaches the row several statements later or only
\* through reconcile().
NothingAfterSuccess ==
  \A c \in Cases : \A i \in DOMAIN charges[c] :
     charges[c][i].ok => i = Len(charges[c])

\* An idempotency key is charged once.
KeyChargedOnce ==
  \A c \in Cases : \A i, j \in DOMAIN charges[c] :
     charges[c][i].attempt = charges[c][j].attempt => i = j

\* The provider is called at most as often as the method's cap allows, counting
\* the calls that timed out.
SpendWithinCap == \A c \in Cases : Len(charges[c]) <= CapOf(c)

\* The counter the cap is checked against never misses more than the one attempt
\* whose outcome is on its way or unknown, even when writers die.
SpendIsCounted ==
  \A c \in Cases :
    Len(charges[c]) <= rows[c].attempts +
      (IF rows[c].state \in {"EXECUTING", "QUARANTINED"} THEN 1 ELSE 0)

\* The audit log alone gives the case back: its cohort, its state and whether it
\* is waiting for reconciliation.
ReplayMatches(c) ==
  /\ log[c].cohort = rows[c].cohort
  /\ log[c].state = IF rows[c].state = "DETECTED" THEN "NONE" ELSE rows[c].state
  /\ log[c].uncertain # 0 => rows[c].state = "QUARANTINED"

\* With no call running and none that died, replay() agrees with the cases table,
\* although each call writes the two in different statements.
ReplayAgrees ==
  \A c \in Cases : Exists(c) /\ Quiet(c) /\ crashes = 0 => ReplayMatches(c)

\* A case that is quarantined for an unresolved uncertain action leaves that
\* state only by a reconcile() call.
UncertainWaitsForReconcile ==
  [][\A c \in Cases :
       /\ rows[c].state = "QUARANTINED" /\ log[c].uncertain # 0
       /\ rows'[c].state # "QUARANTINED"
       => \E w \in Writers : /\ WorksOn(w, c) /\ pc[w] = "update"
                             /\ pc'[w] = "resolve"]_vars

\* The counter never counts an attempt that the provider did not see, and a verified
\* one once, but for the deaths between reconcile()'s UPDATE and its event, after which
\* it is counted again.
CountsAreBacked ==
  \A c \in Cases : rows[c].attempts <= Len(charges[c]) + crashes

\* A case says RECOVERED only if the provider collected the money.
RecoveredMeansCollected ==
  \A c \in Cases :
    rows[c].state = "RECOVERED" => \E i \in DOMAIN charges[c] : charges[c][i].ok

\* What evaluate() says at the provider call: the view the verdict was made from, but
\* for the state, which has moved on since, and the keys as they are now.
DecisionNow(w) ==
  DecisionOf(job[w].proposal, [CaseView(w) EXCEPT !.state = "DIAGNOSED"], job[w].halted)

\* Every provider call is authorised when it is made, several statements and other
\* writers' steps after the verdict: for a treated case that the executor found in an
\* executable state, all gates but that of the state (cohort, class, confidence, cap,
\* expected value, duplicate, kill switch of the call) still allow the attempt
\* that is charged.
SpendIsAuthorized ==
  [][\A c \in Cases : charges'[c] # charges[c] =>
       \E w \in Writers :
         /\ WorksOn(w, c)
         /\ rows[c].cohort = "TREATED"
         /\ job[w].seen.state \in ExecutableCaseStates
         /\ DecisionNow(w) = "ALLOW"
         /\ charges'[c][Len(charges'[c])].attempt = AttemptOf(w)]_vars

\* The attempt counter of the row equals that of the replay.
CountersAgree ==
  \A c \in Cases :
    Exists(c) /\ Quiet(c) /\ crashes = 0 => rows[c].attempts = log[c].attempts

\* Where process_case() may leave a case.  It ends in SCHEDULED only for a refusal
\* that can be retried.
Settles(c) ==
  \/ rows[c].state \in TERMINAL_STATES \cup {"FAILED_ATTEMPT", "QUARANTINED"}
  \/ rows[c].state = "SCHEDULED" /\ PortMayRefuse

\* A call of process_case() that is not interfered with comes to an end and does
\* not leave its case on the way, in EXECUTING say, whatever the provider answers.
EveryCallSettles ==
  \A w \in Writers, c \in Cases :
    WorksOn(w, c) /\ pc[w] = "guard" ~> Quiet(c) /\ Settles(c)

AwaitsHuman(c) == rows[c].state = "QUARANTINED" /\ log[c].uncertain = 0

\* The rounds of attempts, timeouts and reconciliations end: a case that callers
\* return to reaches a terminal state or a human.
EveryCaseSettles ==
  \A c \in Cases :
    Exists(c) ~> (rows[c].state \in TERMINAL_STATES \/ AwaitsHuman(c))
=============================================================================
