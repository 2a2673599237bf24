------------------------------- MODULE Policy -------------------------------
(***************************************************************************)
(* The deterministic gate (agent/policy/engine.py with agent/policy/        *)
(* rules.yaml) and the downtime lookup it is given (agent/downtime.py).     *)
(*                                                                         *)
(* Everything here is a pure function of a request:                        *)
(*   proposal  what the diagnosis layer suggests                           *)
(*   view      the CaseView built from the case row and the actions table  *)
(*   halted    Rules.kill_switch                                           *)
(* Confidence is in percent, delays and times are in minutes, amounts in   *)
(* paise.  NoTime stands for Python's None.                                *)
(***************************************************************************)
EXTENDS Integers, FiniteSets, Sequences

CONSTANT CapByMethod   \* rules.yaml, ATTEMPT_CAP.by_method

NoTime == -1

Recoverability == {"TRANSIENT_INFRA", "CUSTOMER_FIXABLE", "INSTRUMENT_INVALID",
                   "TERMINAL", "UNKNOWN"}
Actions == {"RETRY", "STOP", "RECOVERY_LINK"}
Methods == {"card", "upi", "netbanking", "emandate"}

\* rules.yaml, the parameters of the enabled rules.
ActionableStates == {"DIAGNOSED", "FAILED_ATTEMPT"}
SupportedActions == {"RETRY", "STOP"}
DenyClasses      == {"TERMINAL", "UNKNOWN"}
ActionCostPaise  == 500
MinConfidence    == 40
Jitter           == 5
UnknownEndBackoff == 90
MinDelay         == 15
MaxDelay         == 10080

ASSUME PolicyAssumption == CapByMethod \in [Methods -> Nat]

----------------------------------------------------------------------------
(* The gates *)

\* A bug: the cap admits one attempt more than it names.
CapReachedLate(view) == view.attempts > CapByMethod[view.method]

CapReached(view) == view.attempts >= CapByMethod[view.method]

\* 0.30 * amount - cost <= 0, in integers.
EVNotPositive(view) == 3 * view.amount <= 10 * ActionCostPaise

\* The tests of evaluate() in the order in which it makes them.  STOP_PROPOSED
\* is the one that has no rule id: it denies with an empty fired_rules.
GateOrder == <<"REQUIRED_STATE", "SUPPORTED_ACTION", "KILL_SWITCH",
               "HOLDOUT_GUARD", "TERMINAL_CLASS", "ATTEMPT_CAP",
               "DUPLICATE_ACTION", "STOP_PROPOSED", "EV_FLOOR",
               "CONFIDENCE_FLOOR">>

\* view.keys holds the attempt numbers of the idempotency keys already executed:
\* a key is a function of the case, the action and the attempt number.
Fires(gate, proposal, view, halted) ==
  CASE gate = "REQUIRED_STATE"   -> view.state \notin ActionableStates
    [] gate = "SUPPORTED_ACTION" -> proposal.action \notin SupportedActions
    [] gate = "KILL_SWITCH"      -> halted
    [] gate = "HOLDOUT_GUARD"    -> view.cohort = "HOLDOUT"
    [] gate = "TERMINAL_CLASS"   -> proposal.class \in DenyClasses
    [] gate = "ATTEMPT_CAP"      -> CapReached(view)
    [] gate = "DUPLICATE_ACTION" -> /\ proposal.action = "RETRY"
                                    /\ view.attempts + 1 \in view.keys
    [] gate = "STOP_PROPOSED"    -> proposal.action = "STOP"
    [] gate = "EV_FLOOR"         -> EVNotPositive(view)
    [] gate = "CONFIDENCE_FLOOR" -> proposal.confidence < MinConfidence

Firing(proposal, view, halted) ==
  {i \in DOMAIN GateOrder : Fires(GateOrder[i], proposal, view, halted)}

\* The gate evaluate() returns from: the first that fires.
DecidingGate(proposal, view, halted) ==
  LET F == Firing(proposal, view, halted)
  IN  IF F = {} THEN "NONE"
      ELSE GateOrder[CHOOSE i \in F : \A j \in F : i <= j]

\* A bug: the first rule that asks for a human wins over every DENY.
ReviewFirst(proposal, view, halted) ==
  CASE Firing(proposal, view, halted) = {}      -> "ALLOW"
    [] proposal.confidence < MinConfidence      -> "REVIEW"
    [] OTHER                                    -> "DENY"

DecisionOf(proposal, view, halted) ==
  CASE Firing(proposal, view, halted) = {}                  -> "ALLOW"
    [] DecidingGate(proposal, view, halted) = "CONFIDENCE_FLOOR" -> "REVIEW"
    [] OTHER                                                -> "DENY"

----------------------------------------------------------------------------
(* Downtime: which window, if any, degrades an instrument at a time *)

ActiveStatuses == {"started", "updated", "scheduled"}

SeverityRank == [s \in {"high", "medium", "low"} |->
                   CASE s = "high" -> 3 [] s = "medium" -> 2 [] OTHER -> 1]

\* Instrument.matches: an empty scope covers the whole method.
InScope(w, instrument) == w.scope = {} \/ instrument \in w.scope

Covers(w, method, instrument, when) ==
  /\ w.method = method
  /\ w.status \in ActiveStatuses
  /\ w.begin <= when
  /\ w.end = NoTime \/ when < w.end
  /\ InScope(w, instrument)

\* The rows of downtime_windows in scan order.  Among the covering windows
\* active_at keeps the first of the highest severity; 0: none covers.
ActiveAt(windows, method, instrument, when) ==
  LET C == {i \in DOMAIN windows : Covers(windows[i], method, instrument, when)}
      rank(i) == SeverityRank[windows[i].severity]
  IN  IF C = {} THEN 0
      ELSE CHOOSE i \in C : \A j \in C :
              rank(j) < rank(i) \/ (rank(j) = rank(i) /\ i <= j)

NoDowntime == [active |-> FALSE, end |-> NoTime]

ContextAt(windows, method, instrument, when) ==
  LET i == ActiveAt(windows, method, instrument, when)
  IN  IF i = 0 THEN NoDowntime ELSE [active |-> TRUE, end |-> windows[i].end]

\* A bug: a new window replaces every window of its method.
AddedPerMethod(windows, w) ==
  Append(SelectSeq(windows, LAMBDA v : v.method # w.method), w)

\* DowntimeStore.add: INSERT OR REPLACE drops the row with that id, of which there is
\* one at most (PRIMARY KEY), and appends.
Added(windows, w) ==
  LET same == {j \in DOMAIN windows : windows[j].id = w.id}
      i == CHOOSE j \in same : TRUE
  IN  Append(IF same = {} THEN windows
             ELSE SubSeq(windows, 1, i - 1) \o SubSeq(windows, i + 1, Len(windows)), w)

----------------------------------------------------------------------------
(* Timing: when an allowed action runs *)

\* A bug: the model's delay is not clamped from above.
DelayUnbounded(proposal) ==
  IF proposal.delay < MinDelay THEN MinDelay ELSE proposal.delay

DelayOf(proposal) ==
  LET d == IF proposal.delay < MinDelay THEN MinDelay ELSE proposal.delay
  IN  IF d > MaxDelay THEN MaxDelay ELSE d

Candidate(now, ctx) ==
  IF ctx.end = NoTime THEN now + UnknownEndBackoff ELSE ctx.end + Jitter

\* A bug: an active window moves every action to its end.
DefersAlways(proposal, now, ctx) == ctx.active

\* DOWNTIME_DEFER fires only when it moves the action.
Defers(proposal, now, ctx) ==
  ctx.active /\ Candidate(now, ctx) > now + DelayOf(proposal)

ExecuteAt(proposal, now, ctx) ==
  IF Defers(proposal, now, ctx) THEN Candidate(now, ctx)
  ELSE now + DelayOf(proposal)

\* The verdict: attempt is the attempt number it authorises, at is NoTime unless
\* the decision is ALLOW.
Evaluate(proposal, view, halted, now, ctx) ==
  LET d == DecisionOf(proposal, view, halted)
  IN  [decision |-> d,
       action   |-> IF d = "ALLOW" THEN "RETRY" ELSE "STOP",
       attempt  |-> view.attempts + 1,
       gate     |-> DecidingGate(proposal, view, halted),
       deferred |-> d = "ALLOW" /\ Defers(proposal, now, ctx),
       at       |-> IF d = "ALLOW" THEN ExecuteAt(proposal, now, ctx) ELSE NoTime]
=============================================================================
