----------------------------- MODULE Dashboard -----------------------------
(***************************************************************************)
(* The dashboard server (scripts/serve_dashboard.py): pages that read the   *)
(* database (agent/dashboard.py) and demo scenarios that write it            *)
(* (agent/demo_scenarios.py).                                              *)
(*                                                                         *)
(* The server has one thread and one connection, so it either builds a page *)
(* or plays a scenario.  Other processes write the same file meanwhile, and *)
(* a page is several SELECTs that are not in one transaction: what it shows *)
(* is put together from different moments.                                 *)
(***************************************************************************)
EXTENDS RecoveryPipeline

CONSTANT Server   \* the writer that is the dashboard's connection

ASSUME DashboardAssumption == Server \in Writers

VARIABLES
  trail,  \* the events of a case, as far as a page shows them
  page,   \* the page being built, or shown
  demo    \* the scenario being played

dashVars == <<vars, trail, page, demo>>

D == INSTANCE Diagnosis

\* What the log may tell of a case: DIAGNOSIS_RETURNED, a POLICY_VERDICT of each decision,
\* an ACTION_RESULT of each kind, ACTION_UNCERTAIN, ACTION_REFUSED.  `told' is what it
\* has told, and `verdict' the decision of its last POLICY_VERDICT.
Marks == {"DIAGNOSIS", "ALLOW", "REVIEW", "DENY", "SUCCEEDED", "FAILED", "UNCERTAIN",
          "REFUSED"}

NoTrail == [verdict |-> "NONE", told |-> {}]

Scenarios == {"successful_recovery", "unsafe_ai_blocked", "duplicate_timeout_handled",
              "duplicate_event", "invalid_ai_output"}

PageKinds == {"none", "detail", "trace", "list", "metrics"}

\* `waiting' is history: was the case waiting for reconcile() when the row was read?
NoPage == [kind |-> "none", case |-> CHOOSE c \in Cases : TRUE, read |-> 0,
           state |-> "ABSENT", waiting |-> FALSE, verdict |-> "NONE", told |-> {},
           acted |-> FALSE, total |-> 0, recovered |-> 0, executed |-> 0,
           shares |-> <<0, 0>>]

\* The DecisionTrace that process_case() returns to the scenario: the verdict, which
\* is for the attempt after `attempts', and what came of it.
NoTrace == [decision |-> "NONE", attempts |-> 0, outcome |-> "NONE"]

NoDemo == [name |-> "none", case |-> CHOOSE c \in Cases : TRUE, step |-> "none",
           trace |-> NoTrace, answer |-> "NONE"]

DashInit ==
  /\ PipelineInit
  /\ trail = [c \in Cases |-> NoTrail]
  /\ page = NoPage
  /\ demo = NoDemo

----------------------------------------------------------------------------
(* The events a call appends, as the dashboard indexes them *)

\* POLICY_VERDICT, ACTION_RESULT, ACTION_UNCERTAIN or ACTION_REFUSED.
Appended(w) ==
  CASE pc[w] = "decide" -> {Decide(w)}
    [] pc[w] = "report" -> {IF job[w].outcome = "RETRYABLE" THEN "REFUSED"
                            ELSE job[w].outcome}
    [] OTHER -> {}

Traced(w) ==
  [trail EXCEPT ![job[w].case] =
     [verdict |-> IF pc[w] = "decide" THEN Decide(w) ELSE trail[job[w].case].verdict,
      told |-> trail[job[w].case].told \cup Appended(w)]]

\* DIAGNOSIS_RETURNED comes before the statements of process_case() that `pc' names.
Diagnosed(c) == [trail EXCEPT ![c].told = @ \cup {"DIAGNOSIS"}]

----------------------------------------------------------------------------
(* Demo scenarios *)

Busy == demo.step # "none"

DemoAt(step, answer) == demo' = [demo EXCEPT !.step = step, !.answer = answer]

\* A POST: a case of its own, treated because holdout_fraction is 0.
StartDemo(c, s) ==
  /\ ~Busy /\ page = NoPage
  /\ s = "duplicate_timeout_handled" => timeouts < MaxTimeouts
  /\ Ingest(Server, c, "TREATED")
  /\ demo' = [NoDemo EXCEPT !.name = s, !.case = c, !.step = "ingest"]
  /\ UNCHANGED <<trail, page>>

ForgedAttempts == 4

\* trigger_unsafe_ai_blocked makes up four failed attempts, in the log and, past
\* transition() and its version, in the row.
Forge ==
  /\ demo.name = "unsafe_ai_blocked" /\ demo.step = "ingest" /\ pc[Server] = "idle"
  /\ rows' = [rows EXCEPT ![demo.case].attempts = ForgedAttempts]
  /\ log' = [log EXCEPT ![demo.case].attempts = @ + ForgedAttempts]
  /\ trail' = [trail EXCEPT ![demo.case].told = @ \cup {"FAILED"}]
  /\ DemoAt("process", "NONE")
  /\ UNCHANGED <<pending, actions, charges, pc, job, timeouts, crashes, page>>

\* The reason is payment_failed, which is ambiguous, so the port of the scenario
\* is asked; whether there is a downtime is up to the database.
DemoProposal(name, downtime) ==
  LET input == [reason |-> "payment_failed", method |-> MethodOf[demo.case],
                downtime |-> downtime, recurring |-> FALSE,
                amount |-> AmountOf[demo.case]]
      answer == CASE name = "unsafe_ai_blocked" -> D!Adversarial
                  [] name = "invalid_ai_output" -> D!Unknown
                  [] OTHER -> D!Stub(input)
  IN  [class |-> answer.class, action |-> answer.action, confidence |-> answer.confidence]

\* process_case(), in whatever state the case is by now, with the kill switch that
\* load_rules() found.
DemoProcess ==
  /\ \/ demo.step = "process" /\ demo.name = "unsafe_ai_blocked"
     \/ demo.step = "ingest" /\ demo.name # "unsafe_ai_blocked"
  /\ \E downtime, halted \in BOOLEAN :
       Begin(Server, demo.case, DemoProposal(demo.name, downtime), halted)
  /\ DemoAt(IF demo.name = "duplicate_event" THEN "again" ELSE "reply", "NONE")
  /\ trail' = Diagnosed(demo.case)
  /\ UNCHANGED page

Again == demo.step = "again" /\ pc[Server] = "idle"

\* trigger_duplicate_event hands the executor the verdict of the trace a second time,
\* past the pipeline.
Redeliver ==
  /\ Again /\ demo.trace.decision = "ALLOW"
  /\ Goto(Server, "execute")
  /\ job' = [job EXCEPT ![Server] =
               [NewJob(demo.case, FALSE, NoProposal, "NONE") EXCEPT
                  !.seen = [NoView EXCEPT !.attempts = demo.trace.attempts]]]
  /\ DemoAt("reply", "RUNNING")
  /\ UNCHANGED <<rows, pending, actions, log, charges, timeouts, crashes, trail, page>>

\* build_retry_input() refuses a verdict that allows nothing: status 500.
RedeliverNothing ==
  /\ Again /\ demo.trace.decision # "ALLOW"
  /\ demo' = NoDemo
  /\ UNCHANGED <<vars, trail, page>>

\* The answer goes to the scenario, not into the log; a refusal ends it.
Redelivered ==
  /\ demo.answer = "RUNNING" /\ pc[Server] = "report"
  /\ Return(Server)
  /\ IF job[Server].outcome = "REFUSED" THEN demo' = NoDemo
     ELSE DemoAt("reply", job[Server].outcome)
  /\ UNCHANGED <<rows, pending, actions, log, charges, timeouts, crashes, trail, page>>

\* The outcome function and the timeout function given to the executor.
Scripted(name) ==
  CASE name \in {"successful_recovery", "duplicate_event"} -> "SUCCEEDED"
    [] name = "duplicate_timeout_handled"                  -> "UNCERTAIN"
    [] OTHER                                               -> "FAILED"

\* IllegalTransition: another writer has moved the case.
Raises(w) ==
  \/ pc[w] = "select" /\ ~Legal(w)
  \/ pc[w] = "update" /\ \E p \in pending : p.writer = w /\ ~Fresh(p)

\* What the trace will say.
Noted ==
  CASE pc[Server] = "decide" ->
         [demo.trace EXCEPT !.decision = Decide(Server),
                            !.attempts = job[Server].seen.attempts]
    [] pc[Server] = "report" -> [demo.trace EXCEPT !.outcome = job[Server].outcome]
    [] OTHER -> demo.trace

\* The statements of ingest(), process_case() and execute() in a scenario.  An
\* exception leaves it: the server answers with status 500 and no message.
DemoStep ==
  /\ Busy
  /\ ~(demo.answer = "RUNNING" /\ pc[Server] = "report")
  /\ Step(Server)
  /\ pc[Server] = "lookup" /\ Dispatchable(Server) =>
       /\ job'[Server].outcome = Scripted(demo.name)
       /\ Scripted(demo.name) = "UNCERTAIN" => charges' = charges
  /\ trail' = Traced(Server)
  /\ demo' = IF Raises(Server) THEN NoDemo ELSE [demo EXCEPT !.trace = Noted]
  /\ UNCHANGED page

Finished == demo.step = "reply" /\ pc[Server] = "idle"

\* The answer: a fixed message and the detail page of the case.
Reply ==
  /\ Finished
  /\ demo' = NoDemo
  /\ page' = [NoPage EXCEPT !.kind = "detail", !.case = demo.case]
  /\ UNCHANGED <<vars, trail>>

----------------------------------------------------------------------------
(* Pages: the SELECTs of each, in their order *)

\* A bug: the events are read before the row whose state they explain.
DetailReadsEventsFirst == <<"events", "row", "action">>

DetailReads == <<"row", "events", "action">>
TraceReads == <<"row", "events">>
SummaryReads == <<"row", "diagnosis", "verdict", "action">>

\* A bug: the executed actions are counted before the recovered cases.
MetricsReadsActionsFirst == <<"total", "executed", "recovered", "shares">>

MetricsReads == <<"total", "recovered", "executed", "shares">>

Reads(kind) ==
  CASE kind = "detail"  -> DetailReads
    [] kind = "trace"   -> TraceReads
    [] kind = "list"    -> SummaryReads
    [] kind = "metrics" -> MetricsReads

Existing == {c \in Cases : Exists(c)}
Recovered == {c \in Existing : rows[c].state = "RECOVERED"}
ActionRows == UNION {{c} \X actions[c] : c \in Cases}

ReadRow(c) ==
  [page EXCEPT !.state = rows[c].state,
               !.waiting = rows[c].state = "QUARANTINED" /\ log[c].uncertain # 0]

\* `events' is the timeline of the detail and the trace page, which has them all; the
\* list asks for the last diagnosis and the last verdict only.
ReadOfCase(what, c) ==
  CASE what = "row"       -> ReadRow(c)
    [] what = "events"    -> [page EXCEPT !.told = trail[c].told]
    [] what = "diagnosis" -> [page EXCEPT !.told = trail[c].told \cap {"DIAGNOSIS"}]
    [] what = "verdict"   -> [page EXCEPT !.verdict = trail[c].verdict]
    [] what = "action"    -> [page EXCEPT !.acted = actions[c] # {}]

\* `shares' stands for a breakdown at the end, by cohort, method or state: how many
\* cases it adds up to, and how many of these are recovered.
ReadFigure(what) ==
  CASE what = "total"     -> [page EXCEPT !.total = Cardinality(Existing)]
    [] what = "recovered" -> [page EXCEPT !.recovered = Cardinality(Recovered)]
    [] what = "executed"  -> [page EXCEPT !.executed = Cardinality(ActionRows)]
    [] what = "shares"    -> [page EXCEPT !.shares = <<Cardinality(Existing),
                                                        Cardinality(Recovered)>>]

ReadInto(what) ==
  IF page.kind = "metrics" THEN ReadFigure(what) ELSE ReadOfCase(what, page.case)

\* A GET.  An unknown case is answered with 404.
Open(kind, c) ==
  /\ page = NoPage /\ ~Busy
  /\ kind # "metrics" => Exists(c)
  /\ page' = [NoPage EXCEPT !.kind = kind, !.case = c]
  /\ UNCHANGED <<vars, trail, demo>>

Shown == page.kind # "none" /\ page.read = Len(Reads(page.kind))

ReadNext ==
  /\ page.kind # "none" /\ ~Shown
  /\ page' = [ReadInto(Reads(page.kind)[page.read + 1]) EXCEPT !.read = page.read + 1]
  /\ UNCHANGED <<vars, trail, demo>>

Close == Shown /\ page' = NoPage /\ UNCHANGED <<vars, trail, demo>>

\* The outcome phase of the detail page.
OutcomeStatus(state, told) ==
  CASE state = "RECOVERED"      -> "SUCCEEDED"
    [] state = "FAILED_ATTEMPT" -> "FAILED"
    [] state = "QUARANTINED"    ->
         IF "UNCERTAIN" \in told THEN "UNCERTAIN" ELSE "QUARANTINED_FOR_REVIEW"
    [] state \in {"ABANDONED", "HOLDOUT_CLOSED"} -> "BLOCKED_BY_POLICY"
    [] OTHER -> state

----------------------------------------------------------------------------
(* The other processes: nothing keeps them off the case of a scenario *)

Others == Writers \ {Server}

OtherStart(w, c) ==
  /\ \/ (\E k \in Cohorts : Ingest(w, c, k)) /\ UNCHANGED trail
     \/ (\E p \in Proposals, h \in BOOLEAN : Start(w, c, p, h)) /\ trail' = Diagnosed(c)
     \/ Find(w, c) /\ UNCHANGED trail
  /\ UNCHANGED <<page, demo>>

OtherStep(w) == Step(w) /\ trail' = Traced(w) /\ UNCHANGED <<page, demo>>

OtherDies(w) == Crash(w) /\ UNCHANGED <<trail, page, demo>>

\* The server is stopped in the middle of a scenario.
ServerDies == Crash(Server) /\ demo' = NoDemo /\ UNCHANGED <<trail, page>>

DashNext ==
  \/ \E c \in Cases, s \in Scenarios : StartDemo(c, s)
  \/ Forge \/ DemoProcess \/ DemoStep \/ Reply
  \/ Redeliver \/ RedeliverNothing \/ Redelivered
  \/ \E kind \in PageKinds \ {"none"}, c \in Cases : Open(kind, c)
  \/ ReadNext \/ Close
  \/ \E w \in Others, c \in Cases : OtherStart(w, c)
  \/ \E w \in Others : OtherStep(w) \/ OtherDies(w)
  \/ ServerDies

DashSpec == DashInit /\ [][DashNext]_dashVars

----------------------------------------------------------------------------
(* Properties *)

\* A page shows its row and its events as of different moments.  Still, the detail
\* page of a case that was waiting for reconcile() when its row was read says so, and
\* does not send the reader to a human review: the ACTION_UNCERTAIN was appended before
\* the case was quarantined, and the events are read after the row.
UncertainIsShown ==
  Shown /\ page.kind = "detail" /\ page.waiting =>
    OutcomeStatus(page.state, page.told) = "UNCERTAIN"

\* Detail and trace: whatever state the row was in, its reason is in the timeline, even
\* when calls that overlap write verdicts and results that did not decide the case.
TimelineExplains ==
  CASE page.state = "RECOVERED" -> page.told \cap {"SUCCEEDED", "UNCERTAIN"} # {}
    [] page.state = "FAILED_ATTEMPT" -> page.told \cap {"FAILED", "UNCERTAIN"} # {}
    [] page.state = "QUARANTINED" -> page.told \cap {"REVIEW", "REFUSED", "UNCERTAIN"} # {}
    [] page.state \in {"ABANDONED", "HOLDOUT_CLOSED"} -> "DENY" \in page.told
    [] page.state \in {"SCHEDULED", "EXECUTING"} -> "ALLOW" \in page.told
    [] page.state = "DIAGNOSED" -> "DIAGNOSIS" \in page.told
    [] OTHER -> TRUE

\* The list shows no results: a case beyond its diagnosis has a verdict there, and one
\* that was attempted has its action, unless the outcome was unknown at first.
ListExplains ==
  /\ page.state # "DETECTED" => "DIAGNOSIS" \in page.told
  /\ page.state \notin {"DETECTED", "DIAGNOSED"} => page.verdict # "NONE"
  /\ page.state \in {"RECOVERED", "FAILED_ATTEMPT"} =>
       page.acted \/ "UNCERTAIN" \in trail[page.case].told

\* The figures of the metrics page agree as far as their order allows: recoveries
\* are backed by executed or reconciled actions, and no breakdown below them has
\* fewer cases or recoveries.
FiguresAreBacked ==
  /\ page.recovered <=
       page.executed + Cardinality({c \in Cases : "UNCERTAIN" \in trail[c].told})
  /\ page.total <= page.shares[1] /\ page.recovered <= page.shares[2]

\* Every page that is shown is explained by what is on it, whatever other
\* processes write between its SELECTs, and however their calls overlap.
PagesAreCoherent ==
  Shown => CASE page.kind = "metrics" -> FiguresAreBacked
             [] page.kind = "list"    -> ListExplains
             [] OTHER                 -> TimelineExplains

\* A scenario that gives an answer left its case where its trace says, although other
\* processes work on the case too: a denial has closed it, as the two blocked
\* scenarios are always denied, a success has recovered it, and a timeout is on record.
ScenariosEndAsTraced ==
  Finished =>
    /\ demo.name \in {"unsafe_ai_blocked", "invalid_ai_output"} =>
         demo.trace.decision = "DENY"
    /\ demo.trace.decision = "DENY" => rows[demo.case].state = "ABANDONED"
    /\ demo.trace.outcome = "SUCCEEDED" => rows[demo.case].state = "RECOVERED"
    /\ demo.trace.outcome = "UNCERTAIN" => "UNCERTAIN" \in trail[demo.case].told

Ran == demo.trace.outcome \in {"SUCCEEDED", "FAILED"}

\* The blocked scenarios and the one that times out never charge anything, whoever else
\* moves the case, and a verdict that ran and is delivered again is answered from the
\* first execution: it is neither charged nor refused.
ScenariosSpendOnce ==
  [][ Busy /\ pc[Server] = "lookup" /\ pc'[Server] \notin {"lookup", "idle"} =>
        /\ charges' # charges => demo.name \in {"successful_recovery", "duplicate_event"}
        /\ demo.answer = "RUNNING" /\ Ran =>
             charges' = charges /\ job'[Server].outcome \in {"SUCCEEDED", "FAILED"}
    ]_dashVars
=============================================================================
