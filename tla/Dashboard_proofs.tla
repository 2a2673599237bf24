--------------------------- MODULE Dashboard_proofs ---------------------------
(***************************************************************************)
(* What holds of the dashboard for any cases, any start states and any      *)
(* number of other writers, whose calls may overlap on one case, also on     *)
(* that of a scenario.                                                      *)
(*                                                                         *)
(* Of the pages: the events of a case only grow, so the reason of whatever   *)
(* state its row was ever in, or a running call is about to write, stays in  *)
(* them; and what is counted only grows.                                    *)
(*                                                                         *)
(* Of the scenarios: no case leaves a terminal state and no key is forgotten, *)
(* so what a scenario's call has done still stands when it answers; and where *)
(* another writer is faster, the call raises and there is no answer.         *)
(***************************************************************************)
EXTENDS Dashboard, RecoveryPipeline_proofs, FiniteSetTheorems

\* A step of w, also of a call of process_case() that a scenario begins.
WriterAction(w) ==
  \/ StoreAction(w) \/ LogAction(w) \/ ControlAction(w) \/ ProviderAction(w) \/ Record(w)
  \/ \E c \in Cases, p \in Proposal, h \in BOOLEAN : Exists(c) /\ Begin(w, c, p, h)

\* The proposals that the scenarios' ports make are proposals.
LEMMA DemoProposalIs ==
  ASSUME NEW name, NEW downtime \in BOOLEAN
  PROVE  DemoProposal(name, downtime) \in Proposal
<1>1. ASSUME NEW i
      PROVE  /\ D!Stub(i).class \in Recoverability
             /\ D!Stub(i).action \in Actions /\ D!Stub(i).confidence \in Nat
  BY DEF D!Stub, D!Proposal, D!Clean, D!CLEAN, D!StopUnless, Recoverability, Actions,
     D!Recoverability
<1>2. QED
  BY <1>1 DEF DemoProposal, D!Adversarial, D!Unknown, D!Proposal, Proposal, Recoverability, Actions
\* The scenario that is played, and that its call works on its case.
Decisions == {"ALLOW", "REVIEW", "DENY"}

Demo == [name : Scenarios \cup {"none"}, case : Cases,
         step : {"none", "ingest", "process", "again", "reply"},
         trace : [decision : Decisions \cup {"NONE"}, attempts : Nat, outcome : Outcomes],
         answer : Outcomes \cup {"RUNNING"}]

DemoInv ==
  /\ demo \in Demo
  /\ Busy => /\ demo.name # "none" /\ Exists(demo.case)
             /\ pc[Server] # "idle" => job[Server].case = demo.case
  /\ demo.answer = "RUNNING" =>
       demo.step = "reply" /\ pc[Server] \in {"execute", "lookup", "insert", "report"}

\* A step that is none of a page's is a step of one writer, or the row that
\* a scenario forges, or the verdict that it hands over again or its answer.
LEMMA DashCases ==
  ASSUME [DashNext]_dashVars, DemoInv
  PROVE  \/ UNCHANGED vars
         \/ \E w \in Writers : WriterAction(w)
         \/ Forge \/ Redeliver \/ Redelivered
<1>1. Server \in Writers /\ Others \subseteq Writers /\ demo.case \in Cases
  BY DashboardAssumption DEF Others, DemoInv, Demo
<1>2. ASSUME NEW w \in Writers, Step(w)
      PROVE  WriterAction(w)
  BY <1>2 DEF Step, WriterAction, StoreAction, LogAction, ControlAction, ProviderAction
<1>3. ASSUME NEW w \in Writers, NEW c \in Cases,
             (\E k \in Cohorts : Ingest(w, c, k)) \/ Find(w, c)
             \/ \E p \in Proposals, h \in BOOLEAN : Start(w, c, p, h)
      PROVE  WriterAction(w)
  BY <1>3 DEF WriterAction, StoreAction, ControlAction
<1>4. ASSUME NEW w \in Writers, Crash(w)
      PROVE  WriterAction(w)
  BY <1>4 DEF WriterAction, StoreAction
<1>5. CASE DemoProcess
  <2>1. PICK downtime, halted \in BOOLEAN :
          Begin(Server, demo.case, DemoProposal(demo.name, downtime), halted)
    BY <1>5 DEF DemoProcess
  <2>2. DemoProposal(demo.name, downtime) \in Proposal
    BY DemoProposalIs
  <2>3. Exists(demo.case)
    BY <1>5 DEF DemoProcess, DemoInv, Busy
  <2>4. WriterAction(Server)
    BY <1>1, <2>1, <2>2, <2>3 DEF WriterAction
  <2>5. QED
    BY <1>1, <2>4
<1>6. CASE \E c \in Cases, s \in Scenarios : StartDemo(c, s)
  <2>1. PICK c \in Cases : Ingest(Server, c, "TREATED")
    BY <1>6 DEF StartDemo
  <2>2. "TREATED" \in Cohorts
    BY DEF Cohorts
  <2>3. QED
    BY <1>1, <1>3, <2>1, <2>2
<1>7. CASE \E w \in Others, c \in Cases : OtherStart(w, c)
  BY <1>1, <1>3, <1>7 DEF OtherStart
<1>8. CASE DemoStep \/ ServerDies \/ \E w \in Others : OtherStep(w) \/ OtherDies(w)
  BY <1>1, <1>2, <1>4, <1>8 DEF DemoStep, ServerDies, OtherStep, OtherDies
<1>9. CASE RedeliverNothing \/ Reply \/ ReadNext \/ Close
           \/ (\E kind \in PageKinds \ {"none"}, c \in Cases : Open(kind, c))
           \/ UNCHANGED dashVars
  BY <1>9 DEF RedeliverNothing, Reply, ReadNext, Close, Open, dashVars
<1>10. QED
  BY <1>5, <1>6, <1>7, <1>8, <1>9 DEF DashNext

----------------------------------------------------------------------------
(* Types *)

\* A step of w keeps the types of the pipeline's variables, and is a step of the store or
\* leaves the store alone.
LEMMA WriterTypes ==
  ASSUME TypesInductive, NEW w \in Writers, WriterAction(w)
  PROVE  TypesInductive' /\ [StoreNext]_storeVars
<1>0. PipelineTypeOK /\ OneCallPerWriter /\ StoreTypeOK
  BY DEF TypesInductive, PipelineTypeOK
<1>1. CASE StoreAction(w) \/ LogAction(w) \/ ControlAction(w) \/ ProviderAction(w) \/ Record(w)
  <2>1. [PipelineNext]_vars
    BY <1>1 DEF StoreAction, LogAction, ControlAction, ProviderAction, PipelineNext,
       Process, Step
  <2>2. QED
    BY <1>0, <2>1, TypesStep, StoreStep
<1>2. ASSUME NEW c \in Cases, NEW p \in Proposal, NEW h \in BOOLEAN, Begin(w, c, p, h)
      PROVE  TypesInductive' /\ [StoreNext]_storeVars
  <2>1. {"guard", "idle"} \subseteq Pcs /\ "NONE" \in Outcomes
    BY DEF Pcs, Outcomes
  <2>2. NewJob(c, h, p, "NONE") \in Job
    BY <2>1, NewJobIsJob
  <2>3. pc' \in [Writers -> Pcs] /\ job' \in [Writers -> Job]
    BY <1>0, <1>2, <2>1, <2>2, ControlTypes DEF Begin, PipelineTypeOK
  <2>4. UNCHANGED <<rows, pending, actions, log, charges, timeouts, crashes>>
    BY <1>2 DEF Begin
  <2>5. QED
    BY <1>0, <2>3, <2>4
       DEF TypesInductive, PipelineTypeOK, StoreTypeOK, OneCallPerWriter, storeVars
<1>3. QED
  BY <1>1, <1>2 DEF WriterAction

\* The verdict that is handed over again, in a call of its own.
RetryJob ==
  [NewJob(demo.case, FALSE, NoProposal, "NONE") EXCEPT
     !.seen = [NoView EXCEPT !.attempts = demo.trace.attempts]]

LEMMA RetryJobIsJob ==
  ASSUME demo \in Demo
  PROVE  /\ RetryJob \in Job /\ RetryJob.case = demo.case
         /\ RetryJob.seen.attempts = demo.trace.attempts
<1>1. demo.case \in Cases /\ demo.trace.attempts \in Nat
  BY DEF Demo
<1> DEFINE view == [NoView EXCEPT !.attempts = demo.trace.attempts]
           new == NewJob(demo.case, FALSE, NoProposal, "NONE")
<1>2. view \in View /\ view.attempts = demo.trace.attempts
  BY <1>1 DEF NoView, View, States, Cohorts
<1>3. new \in Job /\ new.case = demo.case
  <2>1. "NONE" \in Outcomes
    BY DEF Outcomes
  <2>2. new \in Job
    BY <1>1, <2>1, NewJobIsJob, NoJobIsJob
  <2>3. QED
    BY <2>2 DEF NewJob
<1> HIDE DEF view, new
<1>4. QED
  BY <1>2, <1>3 DEF RetryJob, Job, view, new

\* What Redeliver, Redelivered and Forge do to the pipeline's variables.
LEMMA SceneEffects ==
  ASSUME TypesInductive, demo \in Demo
  PROVE  /\ Redeliver =>
              /\ pc[Server] = "idle" /\ pc'[Server] = "execute" /\ job'[Server] = RetryJob
              /\ \A v \in Writers \ {Server} : pc'[v] = pc[v] /\ job'[v] = job[v]
         /\ Redelivered =>
              /\ pc[Server] = "report" /\ pc'[Server] = "idle"
              /\ \A v \in Writers \ {Server} : pc'[v] = pc[v] /\ job'[v] = job[v]
         /\ Redeliver \/ Redelivered =>
              /\ UNCHANGED <<rows, pending, actions, log, charges>>
              /\ TypesInductive'
         /\ Forge =>
              /\ \A c \in Cases :
                   /\ rows'[c].state = rows[c].state /\ rows'[c].cohort = rows[c].cohort
                   /\ rows'[c].version = rows[c].version
                   /\ log'[c].uncertain = log[c].uncertain
                   /\ c # demo.case => rows'[c] = rows[c]
              /\ rows'[demo.case].attempts = ForgedAttempts
              /\ UNCHANGED <<pending, actions, charges, pc, job>>
              /\ TypesInductive'
<1>0. /\ PipelineTypeOK /\ OneCallPerWriter /\ StoreTypeOK /\ Server \in Writers
      /\ rows \in [Cases -> Row] /\ log \in [Cases -> LogEntry] /\ demo.case \in Cases
      /\ pc \in [Writers -> Pcs] /\ job \in [Writers -> Job]
  BY DashboardAssumption DEF TypesInductive, PipelineTypeOK, StoreTypeOK, Demo
<1>1. {"execute", "idle"} \subseteq Pcs
  BY DEF Pcs
<1>2. ASSUME NEW l \in Pcs, NEW x \in Job, Goto(Server, l), job' = [job EXCEPT ![Server] = x],
             UNCHANGED <<rows, pending, actions, log, charges, timeouts, crashes>>
      PROVE  /\ pc'[Server] = l /\ job'[Server] = x
             /\ \A v \in Writers \ {Server} : pc'[v] = pc[v] /\ job'[v] = job[v]
             /\ TypesInductive'
  BY <1>0, <1>2 DEF Goto, TypesInductive, PipelineTypeOK, StoreTypeOK, OneCallPerWriter
<1>3. ASSUME Redeliver
      PROVE  /\ pc[Server] = "idle" /\ pc'[Server] = "execute" /\ job'[Server] = RetryJob
             /\ \A v \in Writers \ {Server} : pc'[v] = pc[v] /\ job'[v] = job[v]
             /\ UNCHANGED <<rows, pending, actions, log, charges>> /\ TypesInductive'
  <2>1. /\ Goto(Server, "execute") /\ job' = [job EXCEPT ![Server] = RetryJob]
        /\ UNCHANGED <<rows, pending, actions, log, charges, timeouts, crashes>>
    BY <1>3 DEF Redeliver, RetryJob
  <2>2. pc[Server] = "idle"
    BY <1>3 DEF Redeliver, Again
  <2>3. QED
    BY <1>1, <1>2, <2>1, <2>2, RetryJobIsJob
<1>4. ASSUME Redelivered
      PROVE  /\ pc[Server] = "report" /\ pc'[Server] = "idle"
             /\ \A v \in Writers \ {Server} : pc'[v] = pc[v] /\ job'[v] = job[v]
             /\ UNCHANGED <<rows, pending, actions, log, charges>> /\ TypesInductive'
  <2>1. /\ Goto(Server, "idle") /\ job' = [job EXCEPT ![Server] = NoJob]
        /\ UNCHANGED <<rows, pending, actions, log, charges, timeouts, crashes>>
        /\ pc[Server] = "report"
    BY <1>4 DEF Redelivered, Return
  <2>2. QED
    BY <1>1, <1>2, <2>1, NoJobIsJob
<1>5. ASSUME Forge
      PROVE  /\ \A c \in Cases :
                  /\ rows'[c].state = rows[c].state /\ rows'[c].cohort = rows[c].cohort
                  /\ rows'[c].version = rows[c].version
                  /\ log'[c].uncertain = log[c].uncertain
                  /\ c # demo.case => rows'[c] = rows[c]
             /\ rows'[demo.case].attempts = ForgedAttempts
             /\ UNCHANGED <<pending, actions, charges, pc, job>>
             /\ TypesInductive'
  <2> DEFINE c == demo.case
             row == [rows[c] EXCEPT !.attempts = ForgedAttempts]
             entry == [log[c] EXCEPT !.attempts = log[c].attempts + ForgedAttempts]
  <2>1. /\ rows' = [rows EXCEPT ![c] = row] /\ log' = [log EXCEPT ![c] = entry]
        /\ UNCHANGED <<pending, actions, charges, pc, job, timeouts, crashes>>
    BY <1>5 DEF Forge
  <2>2. /\ row \in Row /\ row.state = rows[c].state /\ row.cohort = rows[c].cohort
        /\ row.version = rows[c].version /\ row.attempts = ForgedAttempts
    BY <1>0 DEF Row, ForgedAttempts
  <2>3. entry \in LogEntry /\ entry.uncertain = log[c].uncertain
    BY <1>0 DEF LogEntry, ForgedAttempts
  <2> HIDE DEF row, entry
  <2>4. rows' \in [Cases -> Row] /\ log' \in [Cases -> LogEntry]
    BY <1>0, <2>1, <2>2, <2>3
  <2>5. TypesInductive'
    BY <1>0, <2>1, <2>4 DEF TypesInductive, PipelineTypeOK, StoreTypeOK, OneCallPerWriter
  <2>6. QED
    BY <1>0, <2>1, <2>2, <2>3, <2>5
<1>6. QED
  BY <1>3, <1>4, <1>5

\* The variables of the pipeline keep their types.
LEMMA DashTypesStep ==
  ASSUME TypesInductive, DemoInv, [DashNext]_dashVars
  PROVE  TypesInductive'
<1>1. CASE UNCHANGED vars
  BY <1>1, TypesStep
<1>2. QED
  BY <1>1, DashCases, WriterTypes, SceneEffects DEF DemoInv

----------------------------------------------------------------------------
(* Who works on what *)

\* A call works on a case that exists; nothing is known of a case that does not; and
\* an open call of transition() is that of its writer's call.
GroundInv ==
  /\ \A w \in Writers : pc[w] # "idle" => Exists(job[w].case)
  /\ \A c \in Cases : ~Exists(c) =>
       charges[c] = <<>> /\ actions[c] = {} /\ log[c].uncertain = 0
  /\ \A p \in pending :
       /\ pc[p.writer] = "update" /\ p.case = job[p.writer].case
       /\ p.to = job[p.writer].target /\ p.counts = Spent(p.to)

\* How a step of w goes on: with the same locals, with other locals of the same call,
\* with a call that begins, or with none.
LEMMA GoesOn ==
  ASSUME TypesInductive, NEW w \in Writers, WriterAction(w)
  PROVE  /\ \A v \in Writers \ {w} : pc'[v] = pc[v] /\ job'[v] = job[v]
         /\ pc[w] # "idle" =>
              \/ pc'[w] = "idle"
              \/ pc'[w] # "idle" /\ job'[w].case = job[w].case
         /\ pc'[w] = "update" => job' = job
<1>0. /\ PipelineTypeOK /\ pc \in [Writers -> Pcs] /\ job \in [Writers -> Job]
  BY DEF TypesInductive, PipelineTypeOK
<1> DEFINE Same == \A v \in Writers \ {w} : pc'[v] = pc[v] /\ job'[v] = job[v]
           Goal == /\ Same
                   /\ pc[w] # "idle" => pc'[w] = "idle" \/ job'[w].case = job[w].case
                   /\ pc'[w] = "update" => job' = job
<1>1. \A l : Goto(w, l) => pc'[w] = l /\ \A v \in Writers \ {w} : pc'[v] = pc[v]
  BY <1>0 DEF Goto
<1>2. \A x : job' = [job EXCEPT ![w] = x] =>
        job'[w] = x /\ \A v \in Writers \ {w} : job'[v] = job[v]
  BY <1>0
<1>3. \A l : Goto(w, l) /\ UNCHANGED job => Goal
  BY <1>1
<1>4. Return(w) => Goal
  BY <1>1, <1>2 DEF Return
<1>5. ASSUME NEW ph, NEW to, Move(w, ph, to)
      PROVE  Goal
  BY <1>0, <1>1, <1>2, <1>5, MoveEffect DEF Move
<1>6. ASSUME NEW l, NEW s, Goto(w, l), Saw(w, s), l # "update"
      PROVE  Goal
  <2>1. job'[w].case = job[w].case
    BY <1>0, <1>6, SawEffect
  <2>2. QED
    BY <1>1, <1>2, <1>6, <2>1 DEF Saw
<1>7. ASSUME NEW l, NEW o, Goto(w, l), Got(w, o), l # "update"
      PROVE  Goal
  <2>1. job'[w].case = job[w].case
    BY <1>0, <1>7, GotEffect
  <2>2. QED
    BY <1>1, <1>2, <1>7, <2>1 DEF Got
<1>8. ASSUME NEW l, NEW x, pc[w] = "idle", Goto(w, l), job' = [job EXCEPT ![w] = x],
             l # "update"
      PROVE  Goal
  BY <1>1, <1>2, <1>8
<1> SUFFICES Goal
  OBVIOUS
<1> HIDE DEF Goal
<1>9. CASE StoreAction(w)
  <2>1. CASE \E c \in Cases, k \in Cohorts : Ingest(w, c, k)
    BY <1>8, <2>1 DEF Ingest
  <2>2. QED
    BY <1>3, <1>4, <1>9, <2>1 DEF StoreAction, Select, Update, Conflict, Crash
<1>10. CASE LogAction(w)
  <2>1. CASE LogTransition(w)
    <3>1. (Goto(w, "view") /\ UNCHANGED job) \/ Move(w, "launch", "EXECUTING") \/ Return(w)
      BY <2>1 DEF LogTransition
    <3>2. QED
      BY <1>3, <1>4, <1>5, <3>1
  <2>2. QED
    BY <1>3, <1>4, <1>5, <1>10, <2>1 DEF LogAction, Announce, ReportOutcome, Resolve
<1>11. CASE ControlAction(w)
  <2>1. CASE (\E c \in Cases, p \in Proposals, h \in BOOLEAN : Start(w, c, p, h))
             \/ \E c \in Cases : Find(w, c)
    BY <1>8, <2>1 DEF Start, Begin, Find
  <2>2. CASE Guard(w) \/ Authorize(w) \/ Illegal(w) \/ CheckQuarantined(w)
             \/ CheckUncertain(w)
    BY <1>3, <1>4, <1>5, <2>2 DEF Guard, Authorize, Illegal, CheckQuarantined, CheckUncertain
  <2>3. CASE ReadCase(w) \/ ExecutorReads(w)
    BY <1>6, <2>3 DEF ReadCase, ExecutorReads
  <2>4. CASE Replay(w) \/ Refuse(w) \/ RefuseForNow(w)
    BY <1>7, <2>4 DEF Replay, Refuse, RefuseForNow
  <2>5. QED
    BY <1>11, <2>1, <2>2, <2>3, <2>4 DEF ControlAction
<1>12. CASE ProviderAction(w) \/ Record(w)
  BY <1>3, <1>7, <1>12 DEF ProviderAction, TimeOut, Perform, Record
<1>13. CASE \E c \in Cases, p \in Proposal, h \in BOOLEAN : Exists(c) /\ Begin(w, c, p, h)
  BY <1>8, <1>13 DEF Begin
<1>14. QED
  BY <1>9, <1>10, <1>11, <1>12, <1>13 DEF WriterAction

\* A step of w writes nothing of a case that w does not work on, before or after it, and
\* opens or closes no call of another writer; and rows stay.
LEMMA WritesOwnCase ==
  ASSUME TypesInductive, GroundInv, NEW w \in Writers, WriterAction(w)
  PROVE  /\ \A c \in Cases : ~WorksOn(w, c) /\ ~WorksOn(w, c)' =>
              /\ rows'[c] = rows[c] /\ charges'[c] = charges[c]
              /\ actions'[c] = actions[c] /\ log'[c] = log[c]
         /\ \A p : p.writer # w => (p \in pending' <=> p \in pending)
         /\ \A c \in Cases : Exists(c) => Exists(c)'
         /\ \A c \in Cases : ~Exists(c)' =>
              /\ ~Exists(c) /\ charges'[c] = charges[c]
              /\ actions'[c] = actions[c] /\ log'[c] = log[c]
<1> DEFINE d == job[w].case
           Goal == /\ \A c \in Cases : ~WorksOn(w, c) /\ ~WorksOn(w, c)' =>
                        /\ rows'[c] = rows[c] /\ charges'[c] = charges[c]
                        /\ actions'[c] = actions[c] /\ log'[c] = log[c]
                   /\ \A p : p.writer # w => (p \in pending' <=> p \in pending)
                   /\ \A c \in Cases : Exists(c) => Exists(c)'
                   /\ \A c \in Cases : ~Exists(c)' =>
                        /\ ~Exists(c) /\ charges'[c] = charges[c]
                        /\ actions'[c] = actions[c] /\ log'[c] = log[c]
<1> SUFFICES Goal
  OBVIOUS
<1>0. /\ PipelineTypeOK /\ rows \in [Cases -> Row] /\ charges \in [Cases -> Seq(Attempt)]
      /\ actions \in [Cases -> SUBSET Attempt] /\ log \in [Cases -> LogEntry]
      /\ pending \subseteq Call /\ d \in Cases
      /\ pc \in [Writers -> Pcs] /\ job \in [Writers -> Job]
  BY LocalTypes DEF TypesInductive, PipelineTypeOK, StoreTypeOK
<1>1. ASSUME pc[w] # "idle", UNCHANGED <<rows, pending>>,
             \A c \in Cases \ {d} : /\ charges'[c] = charges[c]
                                    /\ actions'[c] = actions[c] /\ log'[c] = log[c]
      PROVE  Goal
  <2>1. Exists(d)
    BY <1>1 DEF GroundInv
  <2>2. QED
    BY <1>0, <1>1, <2>1 DEF WorksOn, Exists
<1>2. ASSUME UNCHANGED <<rows, charges, actions, log>>,
             \A p : p.writer # w => (p \in pending' <=> p \in pending)
      PROVE  Goal
  BY <1>2 DEF Exists
<1>3. CASE \E c \in Cases, k \in Cohorts : Ingest(w, c, k)
  <2>1. PICK c \in Cases, k \in Cohorts : Ingest(w, c, k)
    BY <1>3
  <2>2. /\ pc'[w] = "announce" /\ job'[w] = NewJob(c, FALSE, NoProposal, "NONE")
        /\ UNCHANGED <<charges, actions, log, pending>> /\ ~Exists(c)
        /\ rows' = [rows EXCEPT ![c] = NewRow(k)]
    BY <1>0, <2>1, GotoEffect DEF Ingest, CreateCase
  <2>3. WorksOn(w, c)'
    BY <2>2 DEF WorksOn, NewJob
  <2>4. NewRow(k).state # "ABSENT"
    BY DEF NewRow
  <2>5. QED
    BY <1>0, <2>2, <2>3, <2>4 DEF Exists
<1>4. CASE Update(w)
  <2>1. PICK p \in pending : p.writer = w /\ UpdateRow(p)
    BY <1>4 DEF Update
  <2>2. pc[w] # "idle" /\ p.case = d /\ UNCHANGED <<charges, actions, log>>
    BY <1>4, <2>1 DEF Update, GroundInv
  <2>3. rows' = [rows EXCEPT ![d] = Written(p)] /\ pending' = pending \ {p}
    BY <2>1, <2>2 DEF UpdateRow
  <2>4. Written(p).state = p.to /\ p.to # "ABSENT"
    BY <1>0, <2>1 DEF Written, Call, States
  <2>5. Exists(d) /\ WorksOn(w, d)
    BY <2>2 DEF GroundInv, WorksOn
  <2>6. QED
    BY <1>0, <2>1, <2>2, <2>3, <2>4, <2>5 DEF Exists, WorksOn
<1>5. CASE Select(w)
  BY <1>2, <1>5 DEF Select, SelectRow
<1>6. CASE Conflict(w) \/ Crash(w)
  BY <1>2, <1>6 DEF Conflict, Crash, LoseRace
<1>7. CASE LogAction(w)
  BY <1>0, <1>1, <1>7 DEF LogAction, Announce, LogTransition, ReportOutcome, Resolve
<1>8. CASE ControlAction(w) \/ \E c \in Cases, p \in Proposal, h \in BOOLEAN : Exists(c) /\ Begin(w, c, p, h)
  <2>1. UNCHANGED <<rows, pending, charges, actions, log>>
    BY <1>8 DEF ControlAction, Start, Begin, Find, Guard, ReadCase, Authorize, Illegal,
       ExecutorReads, Replay, Refuse, RefuseForNow, CheckQuarantined, CheckUncertain
  <2>2. QED
    BY <1>2, <2>1
<1>9. CASE ProviderAction(w)
  BY <1>0, <1>1, <1>9 DEF ProviderAction, TimeOut, Perform, Charge, Dispatchable
<1>10. CASE Record(w)
  BY <1>0, <1>1, <1>10 DEF Record
<1>11. QED
  BY <1>3, <1>4, <1>5, <1>6, <1>7, <1>8, <1>9, <1>10 DEF WriterAction, StoreAction

\* After a step of w it has an open call only if the step was its SELECT.
LEMMA OpenCallOf ==
  ASSUME TypesInductive, GroundInv, NEW w \in Writers, WriterAction(w), ~Select(w)
  PROVE  \A p \in pending' : p.writer # w
<1>1. pc[w] # "update" => \A p \in pending : p.writer # w
  BY DEF GroundInv
<1>2. CASE Update(w) \/ Conflict(w)
  <2>1. PICK p \in pending : p.writer = w /\ pending' = pending \ {p}
    BY <1>2 DEF Update, Conflict, UpdateRow, LoseRace
  <2>2. QED
    BY <2>1 DEF TypesInductive, OneCallPerWriter
<1>3. CASE Crash(w)
  BY <1>3 DEF Crash
<1>4. CASE \E c \in Cases, k \in Cohorts : Ingest(w, c, k)
  BY <1>1, <1>4 DEF Ingest, CreateCase
<1>5. CASE LogAction(w) \/ ControlAction(w) \/ ProviderAction(w) \/ Record(w)
  <2>1. pending' = pending
    BY <1>5, StoreUntouched DEF storeVars
  <2>2. pc[w] # "update"
    <3>1. CASE LogAction(w)
      BY <3>1 DEF LogAction, Announce, LogTransition, ReportOutcome, Resolve
    <3>2. CASE ControlAction(w)
      BY <3>2 DEF ControlAction, Start, Begin, Find, Guard, ReadCase, Authorize, Illegal,
         ExecutorReads, Replay, Refuse, RefuseForNow, CheckQuarantined, CheckUncertain,
         Dispatchable
    <3>3. CASE ProviderAction(w) \/ Record(w)
      BY <3>3 DEF ProviderAction, TimeOut, Perform, Record, Dispatchable
    <3>4. QED
      BY <1>5, <3>1, <3>2, <3>3
  <2>3. QED
    BY <1>1, <2>1, <2>2
<1>6. CASE \E c \in Cases, p \in Proposal, h \in BOOLEAN : Exists(c) /\ Begin(w, c, p, h)
  BY <1>1, <1>6 DEF Begin
<1>7. QED
  BY <1>2, <1>3, <1>4, <1>5, <1>6 DEF WriterAction, StoreAction

\* What a SELECT leaves open.
LEMMA SelectOpens ==
  ASSUME TypesInductive, NEW w \in Writers, Select(w)
  PROVE  /\ pc'[w] = "update" /\ UNCHANGED <<rows, actions, log, charges, job>>
         /\ Legal(w)
         /\ \A p \in pending' : p.writer = w =>
              /\ p.case = job[w].case /\ p.to = job[w].target /\ p.counts = Spent(p.to)
              /\ p.version = rows[job[w].case].version
<1> DEFINE call == [writer |-> w, case |-> job[w].case, from |-> rows[job[w].case].state,
                    to |-> job[w].target, counts |-> Spent(job[w].target),
                    version |-> rows[job[w].case].version]
<1>1. /\ pending' = pending \cup {call} /\ \A p \in pending : p.writer # w
      /\ UNCHANGED <<rows, actions, log, charges, job>> /\ Legal(w)
  BY DEF Select, SelectRow, Idle, Legal
<1>2. /\ call.case = job[w].case /\ call.to = job[w].target
      /\ call.counts = Spent(job[w].target) /\ call.version = rows[job[w].case].version
  OBVIOUS
<1> HIDE DEF call
<1>3. pc'[w] = "update"
  BY GotoEffect DEF Select, TypesInductive
<1>4. QED
  BY <1>1, <1>2, <1>3

\* A call begins on a case that exists then.
LEMMA BeginsOnCase ==
  ASSUME TypesInductive, NEW w \in Writers, WriterAction(w), pc[w] = "idle",
         pc'[w] # "idle"
  PROVE  Exists(job[w].case)'
<1>0. /\ PipelineTypeOK /\ rows \in [Cases -> Row] /\ job \in [Writers -> Job]
  BY DEF TypesInductive, PipelineTypeOK, StoreTypeOK
<1>1. ASSUME NEW c \in Cases, NEW k \in Cohorts, Ingest(w, c, k)
      PROVE  Exists(job[w].case)'
  <2>1. job'[w] = NewJob(c, FALSE, NoProposal, "NONE") /\ rows'[c] = NewRow(k)
    BY <1>0, <1>1 DEF Ingest, CreateCase
  <2>2. job'[w].case = c /\ rows'[c].state = "DETECTED"
    BY <2>1 DEF NewJob, NewRow
  <2>3. QED
    BY <2>2 DEF Exists
<1>2. ASSUME NEW c \in Cases, NEW h, NEW p, NEW o, rows[c].state \in States,
             job' = [job EXCEPT ![w] = NewJob(c, h, p, o)], rows' = rows
      PROVE  Exists(job[w].case)'
  <2>1. job'[w] = NewJob(c, h, p, o)
    BY <1>0, <1>2
  <2>2. job'[w].case = c
    BY <2>1 DEF NewJob
  <2>3. QED
    BY <1>2, <2>2 DEF Exists, States
<1>3. ASSUME NEW c \in Cases, NEW p, NEW h, Start(w, c, p, h) \/ (Exists(c) /\ Begin(w, c, p, h))
      PROVE  Exists(job[w].case)'
  <2>1. rows[c].state \in States
    BY <1>0, <1>3, PipelineAssumption DEF Start, Exists, Row
  <2>2. job' = [job EXCEPT ![w] = NewJob(c, h, p, "NONE")] /\ rows' = rows
    BY <1>3 DEF Start, Begin
  <2>3. QED
    BY <1>2, <2>1, <2>2
<1>4. ASSUME NEW c \in Cases, Find(w, c)
      PROVE  Exists(job[w].case)'
  <2>1. rows[c].state \in States /\ rows' = rows
    BY <1>4 DEF Find, States
  <2>2. job' = [job EXCEPT ![w] = NewJob(c, FALSE, NoProposal, VerifiedOutcome(c))]
    BY <1>4 DEF Find
  <2>3. QED
    BY <1>2, <2>1, <2>2
<1>5. CASE LogAction(w)
  BY <1>5 DEF LogAction, Announce, LogTransition, ReportOutcome, Resolve
<1>6. CASE ControlAction(w)
  BY <1>3, <1>4, <1>6 DEF ControlAction, Guard, ReadCase, Authorize, Illegal,
       ExecutorReads, Replay, Refuse, RefuseForNow, CheckQuarantined, CheckUncertain,
       Dispatchable
<1>7. CASE ProviderAction(w) \/ Record(w)
  BY <1>7 DEF ProviderAction, TimeOut, Perform, Record, Dispatchable
<1>8. CASE StoreAction(w)
  BY <1>1, <1>8 DEF StoreAction, Select, Update, Conflict, Crash
<1>9. QED
  BY <1>3, <1>5, <1>6, <1>7, <1>8 DEF WriterAction

\* The invariant is preserved by a step of one writer.
LEMMA GroundWriterStep ==
  ASSUME TypesInductive, GroundInv, NEW w \in Writers, WriterAction(w), TypesInductive'
  PROVE  GroundInv'
<1>1. /\ \A v \in Writers \ {w} : pc'[v] = pc[v] /\ job'[v] = job[v]
      /\ pc[w] # "idle" => \/ pc'[w] = "idle"
                           \/ pc'[w] # "idle" /\ job'[w].case = job[w].case
  BY GoesOn
<1>2. /\ \A p : p.writer # w => (p \in pending' <=> p \in pending)
      /\ \A c \in Cases : Exists(c) => Exists(c)'
      /\ \A c \in Cases : ~Exists(c)' =>
           /\ ~Exists(c) /\ charges'[c] = charges[c]
           /\ actions'[c] = actions[c] /\ log'[c] = log[c]
  BY WritesOwnCase
<1>3. ASSUME NEW v \in Writers, pc'[v] # "idle"
      PROVE  Exists(job[v].case)'
  <2>1. job[v].case \in Cases
    BY LocalTypes DEF TypesInductive
  <2>2. CASE v = w /\ pc[w] = "idle"
    BY <1>3, <2>2, BeginsOnCase
  <2>3. CASE v # w \/ pc[v] # "idle"
    <3>1. pc[v] # "idle" /\ job'[v].case = job[v].case
      BY <1>1, <1>3, <2>3
    <3>2. Exists(job[v].case)
      BY <3>1 DEF GroundInv
    <3>3. \A c \in Cases : c = job[v].case /\ Exists(c) => Exists(c)'
      BY <1>2
    <3>4. QED
      BY <2>1, <3>1, <3>2, <3>3 DEF Exists
  <2>4. QED
    BY <2>2, <2>3
<1>4. ASSUME NEW c \in Cases, ~Exists(c)'
      PROVE  charges'[c] = <<>> /\ actions'[c] = {} /\ log'[c].uncertain = 0
  BY <1>2, <1>4 DEF GroundInv
<1>5. ASSUME NEW p \in pending'
      PROVE  /\ pc'[p.writer] = "update" /\ p.case = job'[p.writer].case
             /\ p.to = job'[p.writer].target /\ p.counts = Spent(p.to)
  <2>1. p.writer \in Writers
    BY DEF TypesInductive, PipelineTypeOK, StoreTypeOK, Call
  <2>2. CASE p.writer # w
    BY <1>1, <1>2, <2>1, <2>2 DEF GroundInv
  <2>3. CASE p.writer = w
    <3>1. Select(w)
      BY <2>3, OpenCallOf
    <3>2. QED
      BY <2>3, <3>1, SelectOpens
  <2>4. QED
    BY <2>2, <2>3
<1>6. QED
  BY <1>3, <1>4, <1>5 DEF GroundInv

\* The inductive invariant behind that.
DashGround == TypesInductive /\ GroundInv /\ SnapshotsHonest /\ DemoInv

LEMMA NoDemoIs == NoDemo \in Demo /\ NoDemo.step = "none" /\ NoDemo.answer = "NONE"
<1>1. (CHOOSE c \in Cases : TRUE) \in Cases
  BY PipelineAssumption
<1>2. "NONE" \in Outcomes
  BY DEF Outcomes
<1>3. NoTrace \in [decision : Decisions \cup {"NONE"}, attempts : Nat, outcome : Outcomes]
  BY <1>2 DEF NoTrace
<1>4. QED
  BY <1>1, <1>2, <1>3 DEF NoDemo, Demo

LEMMA DashGroundInit == DashInit => DashGround
<1> SUFFICES ASSUME DashInit PROVE DashGround
  OBVIOUS
<1>1. PipelineInit /\ demo = NoDemo
  BY DEF DashInit
<1>2. TypesInductive
  BY <1>1, TypesInit
<1>3. GroundInv /\ SnapshotsHonest
  BY <1>1 DEF PipelineInit, StoreInit, GroundInv, SnapshotsHonest, NoLog, NoRow, Exists
<1>4. DemoInv
  BY <1>1, NoDemoIs DEF DemoInv, Busy
<1>5. QED
  BY <1>2, <1>3, <1>4 DEF DashGround

\* The server's step in a scenario keeps the types of what the scenario notes.
LEMMA NotedIs ==
  ASSUME TypesInductive, demo \in Demo
  PROVE  [demo EXCEPT !.trace = Noted] \in Demo
<1> DEFINE T == [decision : Decisions \cup {"NONE"}, attempts : Nat, outcome : Outcomes]
<1>1. demo.trace \in T /\ Server \in Writers
  BY DashboardAssumption DEF Demo
<1>2. job[Server].seen.attempts \in Nat /\ job[Server].outcome \in Outcomes
  BY <1>1, LocalTypes DEF TypesInductive, View
<1>3. Decide(Server) \in Decisions
  BY DEF Decide, DecisionOf, Decisions
<1>4. CASE pc[Server] = "decide"
  BY <1>1, <1>2, <1>3, <1>4 DEF Noted, Demo
<1>5. CASE pc[Server] = "report"
  BY <1>1, <1>2, <1>5 DEF Noted, Demo
<1>6. CASE pc[Server] \notin {"decide", "report"}
  BY <1>6 DEF Noted, Demo
<1>7. QED
  BY <1>4, <1>5, <1>6

\* Where the control of w goes from the provider's side.
LEMMA PortGoesOn ==
  ASSUME PipelineTypeOK, NEW w \in Writers, Step(w)
  PROVE  /\ pc[w] = "execute" => pc'[w] = "lookup"
         /\ pc[w] = "lookup" => pc'[w] \in {"insert", "report"}
         /\ pc[w] = "insert" => pc'[w] = "report"
         /\ pc[w] = "announce" => pc'[w] = "idle"
<1>1. pc \in [Writers -> Pcs]
  BY DEF PipelineTypeOK
<1>2. CASE pc[w] \in {"execute", "lookup", "insert", "announce"}
  BY <1>1, <1>2, SMTT(30)
     DEF Step, Announce, Guard, ReadCase, Authorize, Select, Illegal, Update, Conflict,
         LogTransition, ExecutorReads, Replay, Refuse, RefuseForNow, TimeOut, Perform,
         Record, ReportOutcome, CheckQuarantined, CheckUncertain, Resolve, Dispatchable,
         Goto, Return
<1>3. QED
  BY <1>2

\* What DemoInv says stays true.
LEMMA DemoInvStep ==
  ASSUME DashGround, [DashNext]_dashVars, TypesInductive'
  PROVE  DemoInv'
<1>0. /\ TypesInductive /\ GroundInv /\ DemoInv /\ PipelineTypeOK /\ Server \in Writers
      /\ demo \in Demo /\ rows \in [Cases -> Row]
      /\ pc \in [Writers -> Pcs] /\ job \in [Writers -> Job] /\ demo.case \in Cases
  BY DashboardAssumption
     DEF DashGround, DemoInv, TypesInductive, PipelineTypeOK, StoreTypeOK, Demo
<1>1. \A c : Exists(c)' <=> rows'[c].state # "ABSENT"
  BY DEF Exists
<1>2. ASSUME NEW w \in Writers, WriterAction(w)
      PROVE  /\ \A v \in Writers \ {w} : pc'[v] = pc[v] /\ job'[v] = job[v]
             /\ pc[w] # "idle" => \/ pc'[w] = "idle"
                                  \/ pc'[w] # "idle" /\ job'[w].case = job[w].case
             /\ \A c \in Cases : Exists(c) => Exists(c)'
  BY <1>0, <1>2, GoesOn, WritesOwnCase
<1>3. ASSUME demo' = NoDemo
      PROVE  DemoInv'
  BY <1>3, NoDemoIs DEF DemoInv, Busy
<1>4. ASSUME demo' = demo, UNCHANGED <<rows, pc, job>>
      PROVE  DemoInv'
  BY <1>0, <1>4 DEF DemoInv, Busy, Exists
<1>5. ASSUME NEW step \in {"process", "again", "reply"},
             NEW answer \in Outcomes \cup {"RUNNING"}, DemoAt(step, answer)
      PROVE  /\ demo' \in Demo /\ demo'.step = step /\ demo'.answer = answer
             /\ demo'.case = demo.case /\ demo'.name = demo.name
  BY <1>0, <1>5 DEF DemoAt, Demo
<1>6. "NONE" \in Outcomes /\ "NONE" # "RUNNING"
  BY DEF Outcomes
<1>7. \A w \in Writers : Step(w) => WriterAction(w)
  BY DEF Step, WriterAction, StoreAction, LogAction, ControlAction, ProviderAction
<1>8. ASSUME NEW c \in Cases, NEW s \in Scenarios, StartDemo(c, s)
      PROVE  DemoInv'
  <2>1. /\ demo' = [NoDemo EXCEPT !.name = s, !.case = c, !.step = "ingest"]
        /\ Ingest(Server, c, "TREATED")
    BY <1>8 DEF StartDemo
  <2>2. /\ demo' \in Demo /\ demo'.case = c /\ demo'.name = s /\ demo'.step = "ingest"
        /\ demo'.answer = "NONE"
    BY <2>1, NoDemoIs DEF Demo
  <2>3. job'[Server] = NewJob(c, FALSE, NoProposal, "NONE") /\ rows'[c] = NewRow("TREATED")
    BY <1>0, <2>1 DEF Ingest, CreateCase
  <2>4. job'[Server].case = c /\ rows'[c].state = "DETECTED"
    BY <2>3 DEF NewJob, NewRow
  <2>5. s # "none"
    BY DEF Scenarios
  <2>6. QED
    BY <1>1, <2>2, <2>4, <2>5 DEF DemoInv, Busy
<1>9. CASE Forge
  <2>1. /\ pc[Server] = "idle" /\ Busy /\ rows'[demo.case].state = rows[demo.case].state
        /\ pc' = pc /\ DemoAt("process", "NONE")
    BY <1>0, <1>9, SceneEffects DEF Forge, Busy
  <2>2. QED
    BY <1>0, <1>1, <1>5, <1>6, <2>1 DEF DemoInv, Exists
<1>10. CASE DemoProcess
  <2>1. PICK downtime, halted \in BOOLEAN :
          Begin(Server, demo.case, DemoProposal(demo.name, downtime), halted)
    BY <1>10 DEF DemoProcess
  <2>2. /\ job'[Server] = NewJob(demo.case, halted, DemoProposal(demo.name, downtime), "NONE")
        /\ rows' = rows
    BY <1>0, <2>1 DEF Begin
  <2>3. job'[Server].case = demo.case
    BY <2>2 DEF NewJob
  <2>4. DemoAt("again", "NONE") \/ DemoAt("reply", "NONE")
    BY <1>10 DEF DemoProcess
  <2>5. Busy
    BY <1>10 DEF DemoProcess, Busy
  <2>6. QED
    BY <1>0, <1>1, <1>5, <1>6, <2>2, <2>3, <2>4, <2>5 DEF DemoInv, Exists
<1>11. CASE Redeliver
  <2>1. DemoAt("reply", "RUNNING") /\ Busy
    BY <1>11 DEF Redeliver, Again, Busy
  <2>2. pc'[Server] = "execute" /\ job'[Server].case = demo.case /\ rows' = rows
    BY <1>0, <1>11, SceneEffects, RetryJobIsJob
  <2>3. QED
    BY <1>0, <1>1, <1>5, <2>1, <2>2 DEF DemoInv, Exists
<1>12. CASE Redelivered
  <2>1. /\ demo.answer = "RUNNING"
        /\ demo' = NoDemo \/ DemoAt("reply", job[Server].outcome)
    BY <1>12 DEF Redelivered
  <2>2. pc'[Server] = "idle" /\ rows' = rows
    BY <1>0, <1>12, SceneEffects
  <2>3. Busy
    BY <1>0, <2>1 DEF DemoInv, Busy
  <2>4. job[Server].outcome \in Outcomes /\ job[Server].outcome # "RUNNING"
    BY <1>0, LocalTypes DEF Outcomes
  <2>5. QED
    BY <1>0, <1>1, <1>3, <1>5, <2>1, <2>2, <2>3, <2>4 DEF DemoInv, Exists
<1>13. CASE DemoStep
  <2>1. /\ Busy /\ Step(Server) /\ ~(demo.answer = "RUNNING" /\ pc[Server] = "report")
        /\ demo' = NoDemo \/ demo' = [demo EXCEPT !.trace = Noted]
    BY <1>13 DEF DemoStep
  <2>2. ASSUME demo' = [demo EXCEPT !.trace = Noted]
        PROVE  DemoInv'
    <3>1. /\ demo' \in Demo /\ demo'.case = demo.case /\ demo'.name = demo.name
          /\ demo'.step = demo.step /\ demo'.answer = demo.answer
      BY <1>0, <2>2, NotedIs DEF Demo
    <3>2. pc[Server] # "idle"
      BY <1>0, <2>1, SMTT(30)
         DEF Step, Announce, Guard, ReadCase, Authorize, Select, Illegal, Update, Conflict,
             LogTransition, ExecutorReads, Replay, Refuse, RefuseForNow, TimeOut, Perform,
             Record, ReportOutcome, CheckQuarantined, CheckUncertain, Resolve, Dispatchable
    <3>3. pc'[Server] # "idle" => job'[Server].case = demo.case
      BY <1>0, <1>2, <1>7, <2>1, <3>2 DEF DemoInv
    <3>4. demo.answer = "RUNNING" => pc'[Server] \in {"lookup", "insert", "report"}
      BY <1>0, <2>1, PortGoesOn DEF DemoInv
    <3>5. rows'[demo.case].state # "ABSENT"
      BY <1>0, <1>1, <1>2, <1>7, <2>1 DEF DemoInv
    <3>6. QED
      BY <1>0, <1>1, <2>1, <3>1, <3>3, <3>4, <3>5 DEF DemoInv, Busy
  <2>3. QED
    BY <1>3, <2>1, <2>2
<1>14. ASSUME NEW w \in Others, WriterAction(w), demo' = demo
       PROVE  DemoInv'
  <2>1. w \in Writers /\ w # Server
    BY DEF Others
  <2>2. pc'[Server] = pc[Server] /\ job'[Server] = job[Server]
    BY <1>0, <1>2, <1>14, <2>1
  <2>3. \A c \in Cases : Exists(c) => Exists(c)'
    BY <1>2, <1>14, <2>1
  <2>4. QED
    BY <1>0, <1>1, <1>14, <2>2, <2>3 DEF DemoInv, Busy
<1>15. CASE \/ \E w \in Others, c \in Cases : OtherStart(w, c)
            \/ \E w \in Others : OtherStep(w) \/ OtherDies(w)
  BY <1>7, <1>14, <1>15
     DEF OtherStart, OtherStep, OtherDies, WriterAction, StoreAction, ControlAction, Others
<1>16. CASE ServerDies \/ RedeliverNothing \/ Reply
  BY <1>3, <1>16 DEF ServerDies, RedeliverNothing, Reply
<1>17. CASE ReadNext \/ Close \/ (\E kind \in PageKinds \ {"none"}, c \in Cases : Open(kind, c))
            \/ UNCHANGED dashVars
  BY <1>4, <1>17 DEF ReadNext, Close, Open, dashVars, vars
<1>18. QED
  BY <1>8, <1>9, <1>10, <1>11, <1>12, <1>13, <1>15, <1>16, <1>17 DEF DashNext

LEMMA DashGroundStep ==
  ASSUME DashGround, [DashNext]_dashVars
  PROVE  DashGround'
<1>0. /\ TypesInductive /\ GroundInv /\ DemoInv /\ SnapshotsHonest /\ demo \in Demo
      /\ StoreTypeOK /\ Server \in Writers /\ pending \subseteq Call
  BY DashboardAssumption
     DEF DashGround, DemoInv, TypesInductive, PipelineTypeOK, StoreTypeOK
<1>1. TypesInductive' /\ DemoInv'
  BY <1>0, DashTypesStep, DemoInvStep
<1>2. ASSUME NEW w \in Writers, WriterAction(w)
      PROVE  GroundInv' /\ SnapshotsHonest'
  BY <1>0, <1>1, <1>2, GroundWriterStep, WriterTypes, HonestStep
<1>3. ASSUME UNCHANGED vars
      PROVE  GroundInv' /\ SnapshotsHonest'
  BY <1>0, <1>3 DEF vars, GroundInv, SnapshotsHonest, Exists
<1>4. \A p \in pending : p.writer \in Writers /\ p.case \in Cases
  BY <1>0 DEF Call
<1>5. ASSUME Redeliver \/ Redelivered
      PROVE  GroundInv' /\ SnapshotsHonest'
  <2>1. /\ UNCHANGED <<rows, pending, actions, log, charges>>
        /\ pc[Server] # "update"
        /\ \A v \in Writers \ {Server} : pc'[v] = pc[v] /\ job'[v] = job[v]
    BY <1>0, <1>5, SceneEffects
  <2>2. pc'[Server] # "idle" => Exists(job'[Server].case)
    <3>1. Redeliver => Busy
      BY DEF Redeliver, Again, Busy
    <3>2. QED
      BY <1>0, <1>5, <3>1, SceneEffects, RetryJobIsJob DEF DemoInv
  <2>3. \A p \in pending : p.writer # Server
    BY <1>0, <2>1 DEF GroundInv
  <2>4. GroundInv'
    BY <1>0, <1>4, <2>1, <2>2, <2>3 DEF GroundInv, Exists
  <2>5. SnapshotsHonest'
    BY <1>0, <2>1 DEF SnapshotsHonest, Exists
  <2>6. QED
    BY <2>4, <2>5
<1>6. ASSUME Forge
      PROVE  GroundInv' /\ SnapshotsHonest'
  <2>1. /\ \A c \in Cases : /\ rows'[c].state = rows[c].state
                            /\ rows'[c].version = rows[c].version
                            /\ log'[c].uncertain = log[c].uncertain
        /\ UNCHANGED <<pending, actions, charges, pc, job>>
    BY <1>0, <1>6, SceneEffects
  <2>2. \A w \in Writers : job[w].case \in Cases
    BY <1>0, LocalTypes DEF TypesInductive
  <2>3. GroundInv' /\ SnapshotsHonest'
    BY <1>0, <1>4, <2>1, <2>2 DEF GroundInv, SnapshotsHonest, Exists
  <2>4. QED
    BY <2>3
<1>7. QED
  BY <1>0, <1>1, <1>2, <1>3, <1>5, <1>6, DashCases DEF DashGround

----------------------------------------------------------------------------
(* What no step takes back *)

\* Only Record writes the actions table, and it adds its key.
LEMMA ActionsStep ==
  ASSUME PipelineTypeOK, NEW w \in Writers, WriterAction(w)
  PROVE  \/ actions' = actions
         \/ /\ Record(w)
            /\ \A c \in Cases \ {job[w].case} : actions'[c] = actions[c]
            /\ \A c \in Cases : c = job[w].case =>
                 /\ \E a : actions'[c] = {b \in actions[c] : b.attempt # AttemptOf(w)} \cup {a}
                 /\ AttemptOf(w) \in ExecutedKeys(c)'
                 /\ ExecutedKeys(c) \subseteq ExecutedKeys(c)'
<1>0. actions \in [Cases -> SUBSET Attempt] /\ job[w].case \in Cases
  BY LocalTypes DEF PipelineTypeOK
<1>1. CASE Record(w)
  <2> DEFINE c == job[w].case
             kept == {b \in actions[c] : b.attempt # AttemptOf(w)}
             done == [attempt |-> AttemptOf(w), ok |-> job[w].outcome = "SUCCEEDED"]
  <2>1. actions' = [actions EXCEPT ![c] = kept \cup {done}]
    BY <1>1 DEF Record
  <2>2. /\ actions'[c] = kept \cup {done}
        /\ \A d \in Cases \ {c} : actions'[d] = actions[d]
    BY <1>0, <2>1
  <2>3. done.attempt = AttemptOf(w)
    OBVIOUS
  <2> HIDE DEF done
  <2>4. \A n : n \in ExecutedKeys(c) => n = AttemptOf(w) \/ \E b \in kept : b.attempt = n
    BY DEF ExecutedKeys
  <2>6. \A d : d = c => {a.attempt : a \in actions'[d]} = {a.attempt : a \in kept \cup {done}}
    BY <2>2
  <2>7. ASSUME NEW d \in Cases, d = c
        PROVE  /\ \E a : actions'[d] = {b \in actions[d] : b.attempt # AttemptOf(w)} \cup {a}
               /\ AttemptOf(w) \in ExecutedKeys(d)'
               /\ ExecutedKeys(d) \subseteq ExecutedKeys(d)'
    <3>1. ExecutedKeys(d)' = {a.attempt : a \in kept \cup {done}}
      BY <2>6, <2>7 DEF ExecutedKeys
    <3>2. ExecutedKeys(d) = ExecutedKeys(c)
      BY <2>7
    <3>3. QED
      BY <2>2, <2>3, <2>4, <2>7, <3>1, <3>2
  <2>8. QED
    BY <1>1, <2>2, <2>7
<1>2. CASE ~Record(w)
  BY <1>2
     DEF WriterAction, StoreAction, Ingest, Select, Update, Conflict, Crash,
         LogAction, Announce, LogTransition, ReportOutcome, Resolve,
         ControlAction, Start, Begin, Find, Guard, ReadCase, Authorize, Illegal,
         ExecutorReads, Replay, Refuse, RefuseForNow, CheckQuarantined, CheckUncertain,
         ProviderAction, TimeOut, Perform
<1>3. QED
  BY <1>1, <1>2

\* A case does not go away, nor change its cohort, nor leave a terminal state; its
\* attempts do not get less, but by the scenario that makes them up; and what was
\* executed stays on record.
Lasts ==
  \A c \in Cases :
    /\ Exists(c) => Exists(c)' /\ rows'[c].cohort = rows[c].cohort
    /\ rows[c].state \in TERMINAL_STATES => rows'[c].state = rows[c].state
    /\ Exists(c) /\ ~Forge => rows[c].attempts <= rows'[c].attempts
    /\ actions[c] # {} => actions'[c] # {}
    /\ ExecutedKeys(c) \subseteq ExecutedKeys(c)'

LEMMA LastsStep ==
  ASSUME DashGround, [DashNext]_dashVars
  PROVE  Lasts
<1>0. /\ TypesInductive /\ PipelineTypeOK /\ StoreTypeOK /\ SnapshotsHonest /\ DemoInv
      /\ demo \in Demo /\ rows \in [Cases -> Row]
  BY DEF DashGround, DemoInv, TypesInductive, PipelineTypeOK, StoreTypeOK
<1>1. ASSUME NEW c \in Cases, UNCHANGED <<rows, actions>>
      PROVE  /\ Exists(c) => Exists(c)' /\ rows'[c].cohort = rows[c].cohort
             /\ rows'[c].state = rows[c].state /\ rows[c].attempts <= rows'[c].attempts
             /\ actions'[c] = actions[c] /\ ExecutedKeys(c) \subseteq ExecutedKeys(c)'
  <2>1. rows[c].attempts \in Nat
    BY <1>0 DEF Row
  <2>2. QED
    BY <1>1, <2>1 DEF Exists, ExecutedKeys
<1>2. ASSUME NEW w \in Writers, WriterAction(w), NEW c \in Cases
      PROVE  /\ Exists(c) => Exists(c)' /\ rows'[c].cohort = rows[c].cohort
             /\ rows[c].state \in TERMINAL_STATES => rows'[c].state = rows[c].state
             /\ Exists(c) => rows[c].attempts <= rows'[c].attempts
             /\ actions[c] # {} => actions'[c] # {}
             /\ ExecutedKeys(c) \subseteq ExecutedKeys(c)'
  <2>1. [StoreNext]_storeVars
    BY <1>0, <1>2, WriterTypes
  <2>2. Exists(c) => Exists(c)' /\ rows'[c].cohort = rows[c].cohort
    BY <1>0, <2>1, RowKept
  <2>3. /\ rows[c].state \in TERMINAL_STATES => rows'[c].state = rows[c].state
        /\ Exists(c) => rows[c].attempts <= rows'[c].attempts
    <3>1. rows[c].attempts \in Nat
      BY <1>0 DEF Row
    <3>2. CASE rows'[c] = rows[c]
      BY <3>1, <3>2
    <3>3. CASE rows'[c] # rows[c]
      <4>1. \/ ~Exists(c)
            \/ \E p \in pending :
                 /\ p.case = c /\ rows'[c] = Written(p)
                 /\ p.to \in VALID_TRANSITIONS[rows[c].state]
        BY <1>0, <2>1, <3>3, RowStep
      <4>2. ASSUME NEW p \in pending, p.case = c
            PROVE  rows[c].attempts <= Written(p).attempts
        BY <3>1, <4>2 DEF Written, Counted
      <4>3. rows[c].state \in TERMINAL_STATES =>
              Exists(c) /\ VALID_TRANSITIONS[rows[c].state] = {}
        BY DEF TERMINAL_STATES, Exists, States
      <4>4. QED
        BY <4>1, <4>2, <4>3
    <3>4. QED
      BY <3>2, <3>3
  <2>5. /\ actions[c] # {} => actions'[c] # {}
        /\ ExecutedKeys(c) \subseteq ExecutedKeys(c)'
    BY <1>0, <1>2, ActionsStep DEF ExecutedKeys
  <2>6. QED
    BY <2>2, <2>3, <2>5
<1>3. CASE Redeliver \/ Redelivered \/ UNCHANGED vars
  <2>1. UNCHANGED <<rows, actions>>
    BY <1>0, <1>3, SceneEffects DEF vars
  <2>2. QED
    BY <1>1, <2>1 DEF Lasts
<1>4. CASE Forge
  <2>1. /\ \A c \in Cases :
             rows'[c].state = rows[c].state /\ rows'[c].cohort = rows[c].cohort
        /\ actions' = actions
    BY <1>0, <1>4, SceneEffects
  <2>2. QED
    BY <1>4, <2>1 DEF Lasts, Exists, ExecutedKeys
<1>5. QED
  BY <1>0, <1>2, <1>3, <1>4, DashCases DEF Lasts

----------------------------------------------------------------------------
(* What the events of a case tell *)

Trail == [verdict : Decisions \cup {"NONE"}, told : SUBSET Marks]

\* e1 tells no less than e.
Tells(e, e1) == e.told \subseteq e1.told /\ (e.verdict # "NONE" => e1.verdict # "NONE")

\* An ALLOW is in the log.
Allowed(e) == {"DIAGNOSIS", "ALLOW"} \subseteq e.told /\ e.verdict # "NONE"

\* The events e of a case, and its actions, are a reason for this state, on any page.
Explains(state, e, acted) ==
  /\ state \notin {"ABSENT", "DETECTED"} => "DIAGNOSIS" \in e.told
  /\ state \notin {"ABSENT", "DETECTED", "DIAGNOSED"} => e.verdict # "NONE"
  /\ state = "RECOVERED" => "SUCCEEDED" \in e.told \/ "UNCERTAIN" \in e.told
  /\ state = "FAILED_ATTEMPT" => "FAILED" \in e.told \/ "UNCERTAIN" \in e.told
  /\ state = "QUARANTINED" =>
       "REVIEW" \in e.told \/ "REFUSED" \in e.told \/ "UNCERTAIN" \in e.told
  /\ state \in {"ABANDONED", "HOLDOUT_CLOSED"} => "DENY" \in e.told
  /\ state \in {"SCHEDULED", "EXECUTING"} => "ALLOW" \in e.told
  /\ state \in {"RECOVERED", "FAILED_ATTEMPT"} => acted \/ "UNCERTAIN" \in e.told

CaseKnows(state, uncertain, e, acted) ==
  /\ Explains(state, e, acted)
  /\ uncertain # 0 => "UNCERTAIN" \in e.told
  /\ "UNCERTAIN" \in e.told => "DIAGNOSIS" \in e.told /\ e.verdict # "NONE"

\* A call at l with the locals j has told the reason of the state it is about to write.
CallKnows(l, j, e, acted) ==
  /\ l \in {"guard", "view", "decide"} => "DIAGNOSIS" \in e.told
  /\ l \in {"execute", "lookup", "insert", "report"} => Allowed(e)
  /\ l = "insert" => j.outcome \in {"SUCCEEDED", "FAILED"}
  /\ l = "report" => j.outcome # "NONE"
  /\ l = "report" /\ j.outcome \in {"SUCCEEDED", "FAILED"} => acted
  /\ l \in {"select", "update", "log", "resolve"} =>
       /\ Explains(j.target, e, acted)
       /\ j.phase = "diagnose" => "DIAGNOSIS" \in e.told
       /\ j.phase \in {"schedule", "launch"} => Allowed(e)

Acted(c) == actions[c] # {}

CaseKnown(c) == CaseKnows(rows[c].state, log[c].uncertain, trail[c], Acted(c))

CallKnown(w) == CallKnows(pc[w], job[w], trail[job[w].case], Acted(job[w].case))

TrailInv ==
  /\ trail \in [Cases -> Trail]
  /\ \A c \in Cases : CaseKnown(c) /\ (trail[c].told # {} => Exists(c))
  /\ \A w \in Writers : pc[w] # "idle" => CallKnown(w)
  /\ Busy /\ demo.trace.decision = "ALLOW" => Allowed(trail[demo.case])

\* More events explain no less.
LEMMA MoreExplains ==
  ASSUME NEW e, NEW e1, Tells(e, e1), NEW acted \in BOOLEAN, NEW acted1 \in BOOLEAN,
         acted => acted1
  PROVE  /\ \A state : Explains(state, e, acted) => Explains(state, e1, acted1)
         /\ Allowed(e) => Allowed(e1)
         /\ \A l, j : CallKnows(l, j, e, acted) => CallKnows(l, j, e1, acted1)
<1>1. \A m : m \in e.told => m \in e1.told
  BY DEF Tells
<1>2. e.verdict # "NONE" => e1.verdict # "NONE"
  BY DEF Tells
<1>3. ASSUME NEW state, Explains(state, e, acted)
      PROVE  Explains(state, e1, acted1)
  BY <1>1, <1>2, <1>3 DEF Explains
<1>4. Allowed(e) => Allowed(e1)
  BY <1>1, <1>2 DEF Allowed
<1>5. ASSUME NEW l, NEW j, CallKnows(l, j, e, acted)
      PROVE  CallKnows(l, j, e1, acted1)
  BY <1>1, <1>3, <1>4, <1>5 DEF CallKnows
<1>6. QED
  BY <1>3, <1>4, <1>5

\* What a step of a running call appends.
LEMMA TracedIs ==
  ASSUME TypesInductive, TrailInv, NEW w \in Writers, pc[w] # "idle", trail' = Traced(w)
  PROVE  /\ trail' \in [Cases -> Trail]
         /\ \A c \in Cases \ {job[w].case} : trail'[c] = trail[c]
         /\ pc[w] \notin {"decide", "report"} => trail' = trail
         /\ trail'[job[w].case].told = trail[job[w].case].told \cup Appended(w)
         /\ pc[w] = "decide" => trail'[job[w].case].verdict = Decide(w)
         /\ pc[w] # "decide" => trail'[job[w].case].verdict = trail[job[w].case].verdict
         /\ \A c \in Cases : Tells(trail[c], trail'[c])
<1> DEFINE c == job[w].case
           e == [verdict |-> IF pc[w] = "decide" THEN Decide(w) ELSE trail[c].verdict,
                 told |-> trail[c].told \cup Appended(w)]
<1>0. /\ trail \in [Cases -> Trail] /\ c \in Cases /\ job[w].outcome \in Outcomes
      /\ CallKnown(w) /\ trail[c] \in Trail
  BY LocalTypes DEF TypesInductive, TrailInv
<1>1. Decide(w) \in Decisions
  BY DEF Decide, DecisionOf, Decisions
<1>2. Appended(w) \subseteq Marks
  <2>1. CASE pc[w] = "report"
    <3>1. job[w].outcome # "NONE"
      BY <1>0, <2>1 DEF CallKnown, CallKnows
    <3>2. QED
      BY <1>0, <2>1, <3>1 DEF Appended, Marks, Outcomes
  <2>2. CASE pc[w] # "report"
    BY <1>1, <2>2 DEF Appended, Marks, Decisions
  <2>3. QED
    BY <2>1, <2>2
<1>3. e \in Trail
  BY <1>0, <1>1, <1>2 DEF Trail
<1>4. /\ e.told = trail[c].told \cup Appended(w)
      /\ pc[w] = "decide" => e.verdict = Decide(w) /\ e.verdict # "NONE"
      /\ pc[w] # "decide" => e.verdict = trail[c].verdict
  BY <1>1 DEF Decisions
<1>5. trail' = [trail EXCEPT ![c] = e]
  BY DEF Traced
<1>6. pc[w] \notin {"decide", "report"} => e = trail[c]
  <2>1. ASSUME pc[w] \notin {"decide", "report"}
        PROVE  e = [verdict |-> trail[c].verdict, told |-> trail[c].told]
    <3>1. Appended(w) = {}
      BY <2>1 DEF Appended
    <3>2. QED
      BY <2>1, <3>1
  <2>2. trail[c] = [verdict |-> trail[c].verdict, told |-> trail[c].told]
    BY <1>0 DEF Trail
  <2> HIDE DEF e
  <2>3. QED
    BY <2>1, <2>2
<1> HIDE DEF e
<1>7. /\ trail' \in [Cases -> Trail] /\ trail'[c] = e
      /\ \A d \in Cases \ {c} : trail'[d] = trail[d]
  BY <1>0, <1>3, <1>5
<1>8. pc[w] \notin {"decide", "report"} => trail' = trail
  BY <1>0, <1>5, <1>6
<1>9. \A d \in Cases : Tells(trail[d], trail'[d])
  <2>1. Tells(trail[c], e)
    BY <1>4 DEF Tells
  <2>2. \A d \in Cases \ {c} : Tells(trail[d], trail'[d])
    BY <1>7 DEF Tells
  <2>3. QED
    BY <1>0, <1>7, <2>1, <2>2
<1>10. QED
  BY <1>4, <1>7, <1>8, <1>9

\* A call that goes on has told what it is about to write.
LEMMA CallGoesOn ==
  ASSUME TypesInductive, TrailInv, NEW w \in Writers, Step(w), pc[w] # "idle",
         trail' = Traced(w), pc'[w] # "idle"
  PROVE  /\ job'[w].case = job[w].case
         /\ CallKnows(pc'[w], job'[w], trail'[job[w].case], actions'[job[w].case] # {})
<1> DEFINE c == job[w].case
           e == trail'[c]
           acted == actions'[c] # {}
           Goal == job'[w].case = c /\ CallKnows(pc'[w], job'[w], e, acted)
<1>0. /\ PipelineTypeOK /\ c \in Cases /\ pc \in [Writers -> Pcs] /\ job \in [Writers -> Job]
      /\ actions \in [Cases -> SUBSET Attempt]
      /\ WriterAction(w) /\ CaseKnown(c) /\ acted \in BOOLEAN
  BY LocalTypes DEF TypesInductive, PipelineTypeOK, TrailInv, Step, WriterAction,
     StoreAction, LogAction, ControlAction, ProviderAction
<1>1. /\ Tells(trail[c], e)
      /\ e.told = trail[c].told \cup Appended(w)
      /\ pc[w] = "decide" => e.verdict = Decide(w)
  BY <1>0, TracedIs
<1>2. Acted(c) => acted
  BY <1>0, ActionsStep DEF Acted
<1>3. CallKnows(pc[w], job[w], e, acted)
  <2>1. CallKnows(pc[w], job[w], trail[c], Acted(c)) /\ Acted(c) \in BOOLEAN
    BY DEF TrailInv, CallKnown, Acted
  <2>2. \A l, j : CallKnows(l, j, trail[c], Acted(c)) => CallKnows(l, j, e, acted)
    <3> HIDE DEF e, acted
    <3>1. QED
      BY <1>0, <1>1, <1>2, <2>1, MoreExplains
  <2>3. QED
    BY <2>1, <2>2
<1>4. \A l : Goto(w, l) => pc'[w] = l
  BY <1>0, GotoEffect
<1>5. \A ph, to : Move(w, ph, to) =>
        pc'[w] = "select" /\ job'[w].case = c /\ job'[w].phase = ph /\ job'[w].target = to
  BY <1>0, MoveEffect
<1>6. \A s : Saw(w, s) => job'[w].case = c /\ job'[w].outcome = job[w].outcome
  BY <1>0, SawEffect
<1>7. \A o : Got(w, o) => job'[w].case = c /\ job'[w].outcome = o
  BY <1>0, GotEffect
<1>8. \A m : m \in Appended(w) => m \in e.told
  BY <1>1
<1>9. Return(w) => FALSE
  BY <1>4 DEF Return
<1> SUFFICES Goal
  OBVIOUS
<1> HIDE DEF c, e, acted
<1>10. CASE Announce(w) \/ Illegal(w) \/ Conflict(w)
  BY <1>9, <1>10 DEF Announce, Illegal, Conflict
<1>11. CASE Guard(w)
  <2>1. "DIAGNOSIS" \in e.told
    BY <1>3, <1>11 DEF Guard, CallKnows
  <2>2. CASE Goto(w, "view") /\ UNCHANGED job
    BY <1>4, <2>1, <2>2 DEF CallKnows, c
  <2>3. CASE Move(w, "diagnose", "DIAGNOSED")
    BY <1>5, <2>1, <2>3 DEF CallKnows, Explains
  <2>4. QED
    BY <1>11, <2>2, <2>3 DEF Guard
<1>12. CASE ReadCase(w)
  <2>1. "DIAGNOSIS" \in e.told
    BY <1>3, <1>12 DEF ReadCase, CallKnows
  <2>2. QED
    BY <1>4, <1>6, <1>12, <2>1 DEF ReadCase, CallKnows
<1>13. CASE Authorize(w)
  <2>1. /\ "DIAGNOSIS" \in e.told /\ Decide(w) \in e.told /\ e.verdict = Decide(w)
        /\ Decide(w) \in {"ALLOW", "REVIEW", "DENY"}
    BY <1>1, <1>3, <1>8, <1>13
       DEF Authorize, CallKnows, Appended, Decide, DecisionOf
  <2>2. CASE Decide(w) = "ALLOW"
    BY <1>5, <1>13, <2>1, <2>2 DEF Authorize, CallKnows, Explains, Allowed
  <2>3. CASE Decide(w) # "ALLOW"
    <3>1. /\ Landing(w) \in {"QUARANTINED", "HOLDOUT_CLOSED", "ABANDONED"}
          /\ Landing(w) = "QUARANTINED" => Decide(w) = "REVIEW"
          /\ Decide(w) = "REVIEW" => Landing(w) = "QUARANTINED"
      BY DEF Landing, Decide, DecisionOf
    <3>2. Explains(Landing(w), e, acted)
      BY <2>1, <2>3, <3>1 DEF Explains
    <3>3. QED
      BY <1>5, <1>13, <2>3, <3>2 DEF Authorize, CallKnows
  <2>4. QED
    BY <2>2, <2>3
<1>14. CASE Select(w)
  BY <1>3, <1>4, <1>14 DEF Select, CallKnows, c
<1>15. CASE Update(w)
  <2>1. job' = job /\ pc'[w] = AfterUpdate(w)
    BY <1>4, <1>15 DEF Update
  <2>2. CASE job[w].phase = "launch"
    BY <1>3, <1>15, <2>1, <2>2 DEF Update, AfterUpdate, CallKnows, c
  <2>3. CASE job[w].phase # "launch"
    <3>1. AfterUpdate(w) \in {"resolve", "log"}
      BY <2>3 DEF AfterUpdate
    <3>2. QED
      BY <1>3, <1>15, <2>1, <3>1 DEF Update, CallKnows, c
  <2>4. QED
    BY <2>2, <2>3
<1>16. CASE LogTransition(w)
  <2>1. CASE job[w].phase = "diagnose"
    BY <1>3, <1>4, <1>16, <2>1 DEF LogTransition, CallKnows, c
  <2>2. CASE job[w].phase = "schedule"
    <3>1. Allowed(e)
      BY <1>3, <1>16, <2>2 DEF LogTransition, CallKnows
    <3>2. QED
      BY <1>5, <1>16, <2>2, <3>1 DEF LogTransition, CallKnows, Explains, Allowed
  <2>3. QED
    BY <1>9, <1>16, <2>1, <2>2 DEF LogTransition
<1>17. CASE ExecutorReads(w)
  BY <1>3, <1>4, <1>6, <1>17 DEF ExecutorReads, CallKnows
<1>18. CASE Replay(w) \/ Refuse(w) \/ RefuseForNow(w) \/ TimeOut(w)
  <2>1. Allowed(e) /\ pc'[w] = "report"
    BY <1>3, <1>4, <1>18
       DEF Replay, Refuse, RefuseForNow, TimeOut, Dispatchable, CallKnows
  <2>2. CASE Replay(w)
    <3>1. PICK a \in actions[c] : Got(w, Result(a.ok))
      BY <2>2 DEF Replay, c
    <3>2. acted
      BY <1>2, <3>1 DEF Acted
    <3>3. QED
      BY <1>7, <2>1, <3>1, <3>2 DEF CallKnows, Result
  <2>3. CASE Refuse(w) \/ RefuseForNow(w) \/ TimeOut(w)
    <3>1. Got(w, "REFUSED") \/ Got(w, "RETRYABLE") \/ Got(w, "UNCERTAIN")
      BY <2>3 DEF Refuse, RefuseForNow, TimeOut
    <3>2. QED
      BY <1>7, <2>1, <3>1 DEF CallKnows
  <2>4. QED
    BY <1>18, <2>2, <2>3
<1>19. CASE \E ok \in BOOLEAN : Perform(w, ok)
  <2>1. PICK ok \in BOOLEAN : Perform(w, ok)
    BY <1>19
  <2>2. Allowed(e) /\ pc'[w] = "insert"
    BY <1>3, <1>4, <2>1 DEF Perform, Dispatchable, CallKnows
  <2>3. QED
    BY <1>7, <2>1, <2>2 DEF Perform, CallKnows, Result
<1>20. CASE Record(w)
  <2>1. Allowed(e) /\ job[w].outcome \in {"SUCCEEDED", "FAILED"} /\ pc'[w] = "report" /\ job' = job
    BY <1>3, <1>4, <1>20 DEF Record, CallKnows
  <2>2. acted
    <3>1. actions'[c] = {a \in actions[c] : a.attempt # AttemptOf(w)} \cup
                     {[attempt |-> AttemptOf(w), ok |-> job[w].outcome = "SUCCEEDED"]}
      BY <1>0, <1>20 DEF Record, c
    <3>2. QED
      BY <3>1 DEF acted
  <2>3. QED
    BY <2>1, <2>2 DEF CallKnows, c
<1>21. CASE ReportOutcome(w)
  <2> DEFINE o == job[w].outcome
  <2>1. /\ Allowed(e) /\ o \in Outcomes /\ o # "NONE"
        /\ o \in {"SUCCEEDED", "FAILED"} => acted
        /\ Move(w, "settle", Settled(o))
    BY <1>0, <1>3, <1>21, LocalTypes DEF ReportOutcome, CallKnows
  <2>2. /\ o = "RETRYABLE" \/ o \in e.told
    BY <1>8, <1>21 DEF ReportOutcome, Appended
  <2> HIDE DEF o
  <2>3. Explains(Settled(o), e, acted)
    BY <2>1, <2>2 DEF Outcomes, Settled, Explains, Allowed
  <2>4. QED
    BY <1>5, <2>1, <2>3 DEF CallKnows
<1>22. CASE CheckQuarantined(w)
  BY <1>4, <1>9, <1>22 DEF CheckQuarantined, CallKnows, c
<1>23. CASE CheckUncertain(w)
  <2>1. log[c].uncertain # 0 /\ Move(w, "reconcile", Reconciled(job[w].outcome))
    BY <1>9, <1>23 DEF CheckUncertain, c
  <2>2. "UNCERTAIN" \in e.told /\ "DIAGNOSIS" \in e.told /\ e.verdict # "NONE"
    BY <1>0, <1>1, <2>1 DEF CaseKnown, CaseKnows, Tells
  <2>3. Explains(Reconciled(job[w].outcome), e, acted)
    BY <2>2 DEF Reconciled, Explains
  <2>4. QED
    BY <1>5, <2>1, <2>3 DEF CallKnows
<1>24. CASE Resolve(w)
  BY <1>3, <1>4, <1>24 DEF Resolve, CallKnows, c
<1>25. QED
  BY <1>10, <1>11, <1>12, <1>13, <1>14, <1>15, <1>16, <1>17, <1>18, <1>19, <1>20, <1>21,
     <1>22, <1>23, <1>24 DEF Step

\* Only a report of a timeout makes the outcome of a case uncertain.
LEMMA UncertainStep ==
  ASSUME TypesInductive, NEW w \in Writers, WriterAction(w), NEW c \in Cases,
         log'[c].uncertain # 0, log'[c].uncertain # log[c].uncertain
  PROVE  pc[w] = "report" /\ job[w].case = c /\ job[w].outcome = "UNCERTAIN"
<1>0. log \in [Cases -> LogEntry]
  BY DEF TypesInductive, PipelineTypeOK
<1>1. CASE ReportOutcome(w)
  <2>1. CASE job[w].outcome = "UNCERTAIN"
    BY <1>0, <1>1, <2>1 DEF ReportOutcome
  <2>2. CASE job[w].outcome \in {"SUCCEEDED", "FAILED"}
    <3>1. log' = [log EXCEPT ![job[w].case].attempts = @ + 1]
      BY <1>1, <2>2 DEF ReportOutcome
    <3>2. log'[c].uncertain = log[c].uncertain
      BY <1>0, <3>1 DEF LogEntry
    <3>3. QED
      BY <3>2
  <2>3. CASE job[w].outcome \notin {"SUCCEEDED", "FAILED", "UNCERTAIN"}
    BY <1>1, <2>3 DEF ReportOutcome
  <2>4. QED
    BY <2>1, <2>2, <2>3
<1>2. CASE Announce(w)
  BY <1>0, <1>2 DEF Announce, LogEntry
<1>3. CASE LogTransition(w)
  BY <1>0, <1>3 DEF LogTransition, LogEntry
<1>4. CASE Resolve(w)
  <2>1. log' = [log EXCEPT ![job[w].case].uncertain = 0]
    BY <1>4 DEF Resolve
  <2>2. log'[c].uncertain = 0 \/ log'[c] = log[c]
    BY <1>0, <2>1 DEF LogEntry
  <2>3. QED
    BY <2>2
<1>5. CASE log' = log
  BY <1>5
<1>6. StoreAction(w) => log' = log
  BY DEF StoreAction, Ingest, Select, Update, Conflict, Crash
<1>7. ControlAction(w) => log' = log
  BY DEF ControlAction, Start, Begin, Find, Guard, ReadCase, Authorize, Illegal,
         ExecutorReads, Replay, Refuse, RefuseForNow, CheckQuarantined, CheckUncertain
<1>8. ProviderAction(w) \/ Record(w) => log' = log
  BY DEF ProviderAction, TimeOut, Perform, Record
<1>9. (\E d \in Cases, p \in Proposal, h \in BOOLEAN : Exists(d) /\ Begin(w, d, p, h))
        => log' = log
  BY DEF Begin
<1>10. QED
  BY <1>1, <1>2, <1>3, <1>4, <1>5, <1>6, <1>7, <1>8, <1>9 DEF WriterAction, LogAction

\* The events of a case explain its row after a step of a writer.
LEMMA CaseGoesOn ==
  ASSUME DashGround, TrailInv, NEW w \in Writers, WriterAction(w), NEW c \in Cases,
         Tells(trail[c], trail'[c]),
         pc[w] = "report" /\ job[w].case = c /\ job[w].outcome = "UNCERTAIN" =>
           "UNCERTAIN" \in trail'[c].told,
         "UNCERTAIN" \in trail'[c].told =>
           "UNCERTAIN" \in trail[c].told \/ Allowed(trail'[c])
  PROVE  CaseKnows(rows'[c].state, log'[c].uncertain, trail'[c], actions'[c] # {})
<1> DEFINE e1 == trail'[c]
           acted1 == actions'[c] # {}
<1>0. /\ TypesInductive /\ PipelineTypeOK /\ StoreTypeOK /\ SnapshotsHonest /\ GroundInv
      /\ CaseKnown(c) /\ Acted(c) \in BOOLEAN /\ acted1 \in BOOLEAN
      /\ Tells(trail[c], e1)
  BY DEF DashGround, TypesInductive, PipelineTypeOK, TrailInv, Acted
<1>1. Acted(c) => acted1
  BY <1>0, ActionsStep DEF Acted
<1> HIDE DEF e1, acted1
<1>2. \A s : Explains(s, trail[c], Acted(c)) => Explains(s, e1, acted1)
  BY <1>0, <1>1, MoreExplains
<1>3. Explains(rows'[c].state, e1, acted1)
  <2>1. CASE rows'[c] = rows[c]
    BY <1>0, <1>2, <2>1 DEF CaseKnown, CaseKnows
  <2>2. CASE rows'[c] # rows[c]
    <3>1. [StoreNext]_storeVars
      BY <1>0, WriterTypes
    <3>2. \/ rows'[c].state = "DETECTED"
          \/ \E p \in pending : p.case = c /\ rows'[c].state = p.to
      BY <1>0, <2>2, <3>1, RowStep
    <3>3. ASSUME NEW p \in pending, p.case = c
          PROVE  Explains(p.to, trail[c], Acted(c))
      <4>1. /\ p.writer \in Writers /\ pc[p.writer] = "update"
            /\ c = job[p.writer].case /\ p.to = job[p.writer].target
        BY <1>0, <3>3 DEF GroundInv, StoreTypeOK, Call
      <4>2. CallKnows("update", job[p.writer], trail[c], Acted(c))
        BY <4>1 DEF TrailInv, CallKnown
      <4>3. QED
        BY <4>1, <4>2 DEF CallKnows
    <3>4. Explains("DETECTED", e1, acted1)
      BY DEF Explains
    <3>5. QED
      BY <1>2, <3>2, <3>3, <3>4
  <2>3. QED
    BY <2>1, <2>2
<1>4. "UNCERTAIN" \in trail[c].told => "UNCERTAIN" \in e1.told
  BY <1>0 DEF Tells
<1>5. log'[c].uncertain # 0 => "UNCERTAIN" \in e1.told
  <2>1. log[c].uncertain # 0 => "UNCERTAIN" \in trail[c].told
    BY <1>0 DEF CaseKnown, CaseKnows
  <2>2. QED
    BY <1>0, <1>4, <2>1, UncertainStep DEF e1
<1>6. "UNCERTAIN" \in e1.told => "DIAGNOSIS" \in e1.told /\ e1.verdict # "NONE"
  BY <1>0 DEF CaseKnown, CaseKnows, Tells, Allowed, e1
<1>7. QED
  BY <1>3, <1>5, <1>6 DEF CaseKnows, e1, acted1

\* The first three parts of the invariant, after a step of a writer which leaves the
\* events of all cases no poorer, and tells what it has to.
LEMMA TrailWriterStep ==
  ASSUME DashGround, TrailInv, NEW w \in Writers, WriterAction(w),
         trail' \in [Cases -> Trail], \A c \in Cases : Tells(trail[c], trail'[c]),
         \A c \in Cases :
           /\ trail'[c].told # {} => Exists(c)'
           /\ pc[w] = "report" /\ job[w].case = c /\ job[w].outcome = "UNCERTAIN" =>
                "UNCERTAIN" \in trail'[c].told
           /\ "UNCERTAIN" \in trail'[c].told =>
                "UNCERTAIN" \in trail[c].told \/ Allowed(trail'[c]),
         pc'[w] # "idle" =>
           CallKnows(pc'[w], job'[w], trail'[job'[w].case], actions'[job'[w].case] # {})
  PROVE  /\ \A c \in Cases : CaseKnown(c)' /\ (trail'[c].told # {} => Exists(c)')
         /\ \A v \in Writers : pc'[v] # "idle" => CallKnown(v)'
<1>0. TypesInductive /\ PipelineTypeOK
  BY DEF DashGround, TypesInductive, PipelineTypeOK
<1>1. ASSUME NEW c \in Cases
      PROVE  CaseKnown(c)'
  <2>1. CaseKnows(rows'[c].state, log'[c].uncertain, trail'[c], actions'[c] # {})
    BY CaseGoesOn
  <2>2. QED
    BY <2>1 DEF CaseKnown, Acted
<1>2. ASSUME NEW v \in Writers \ {w}, pc'[v] # "idle"
      PROVE  CallKnows(pc'[v], job'[v], trail'[job'[v].case], actions'[job'[v].case] # {})
  <2> DEFINE c == job[v].case
             e1 == trail'[c]
             acted1 == actions'[c] # {}
  <2>1. pc'[v] = pc[v] /\ job'[v] = job[v] /\ c \in Cases
    BY <1>0, GoesOn, LocalTypes
  <2>2. CallKnows(pc[v], job[v], trail[c], Acted(c))
    BY <1>2, <2>1 DEF TrailInv, CallKnown
  <2>3. /\ Acted(c) \in BOOLEAN /\ acted1 \in BOOLEAN /\ Tells(trail[c], e1)
        /\ Acted(c) => acted1
    BY <1>0, <2>1, ActionsStep DEF Acted
  <2> HIDE DEF c, e1, acted1
  <2>4. CallKnows(pc[v], job[v], e1, acted1)
    BY <2>2, <2>3, MoreExplains
  <2>5. QED
    BY <2>1, <2>4 DEF e1, acted1, c
<1>3. \A v \in Writers : pc'[v] # "idle" => CallKnown(v)'
  <2>1. \A v \in Writers : pc'[v] # "idle" =>
          CallKnows(pc'[v], job'[v], trail'[job'[v].case], actions'[job'[v].case] # {})
    BY <1>2
  <2>2. QED
    BY <2>1 DEF CallKnown, Acted
<1>4. QED
  BY <1>1, <1>3

LEMMA TrailInit == DashInit => TrailInv
<1> SUFFICES ASSUME DashInit PROVE TrailInv
  OBVIOUS
<1>1. PipelineInit /\ demo = NoDemo /\ trail = [c \in Cases |-> NoTrail]
  BY DEF DashInit
<1>2. NoTrail \in Trail /\ NoTrail.told = {} /\ NoTrail.verdict = "NONE"
  BY DEF NoTrail, Trail
<1>3. ~Busy
  BY <1>1, NoDemoIs DEF Busy
<1>4. ASSUME NEW c \in Cases
      PROVE  CaseKnown(c) /\ trail[c].told = {}
  <2>1. rows[c].state = "ABSENT" /\ log[c].uncertain = 0 /\ trail[c] = NoTrail
    BY <1>1 DEF PipelineInit, StoreInit, NoRow, NoLog
  <2>2. QED
    BY <1>2, <2>1 DEF CaseKnown, CaseKnows, Explains
<1>5. \A w \in Writers : pc[w] = "idle"
  BY <1>1 DEF PipelineInit
<1>6. QED
  BY <1>1, <1>2, <1>3, <1>4, <1>5 DEF TrailInv

\* A call that begins has told its diagnosis, or looks for nothing.
LEMMA BeginsTold ==
  ASSUME TypesInductive, NEW w \in Writers, pc[w] = "idle", NEW c \in Cases,
         \/ \E k \in Cohorts : Ingest(w, c, k)
         \/ Find(w, c)
         \/ /\ \E p \in Proposal, h \in BOOLEAN : Begin(w, c, p, h)
            /\ "DIAGNOSIS" \in trail'[c].told
  PROVE  \A acted : CallKnows(pc'[w], job'[w], trail'[job'[w].case], acted)
<1>0. PipelineTypeOK /\ job \in [Writers -> Job]
  BY DEF TypesInductive, PipelineTypeOK
<1>1. \A l : Goto(w, l) => pc'[w] = l
  BY <1>0, GotoEffect
<1>2. CASE (\E k \in Cohorts : Ingest(w, c, k)) \/ Find(w, c)
  BY <1>1, <1>2 DEF Ingest, Find, CallKnows
<1>3. ASSUME NEW p \in Proposal, NEW h \in BOOLEAN, Begin(w, c, p, h),
             "DIAGNOSIS" \in trail'[c].told
      PROVE  \A acted : CallKnows(pc'[w], job'[w], trail'[job'[w].case], acted)
  <2>1. pc'[w] = "guard" /\ job'[w] = NewJob(c, h, p, "NONE")
    BY <1>0, <1>1, <1>3 DEF Begin
  <2>2. job'[w].case = c
    BY <2>1 DEF NewJob
  <2>3. QED
    BY <1>3, <2>1, <2>2 DEF CallKnows
<1>4. QED
  BY <1>2, <1>3

\* What DIAGNOSIS_RETURNED adds.
LEMMA DiagnosedIs ==
  ASSUME TrailInv, NEW c \in Cases, trail' = Diagnosed(c)
  PROVE  /\ trail' \in [Cases -> Trail] /\ "DIAGNOSIS" \in trail'[c].told
         /\ \A d \in Cases : /\ Tells(trail[d], trail'[d])
                             /\ "UNCERTAIN" \in trail'[d].told => "UNCERTAIN" \in trail[d].told
                             /\ d # c => trail'[d] = trail[d]
<1> DEFINE e == [trail[c] EXCEPT !.told = trail[c].told \cup {"DIAGNOSIS"}]
<1>1. trail \in [Cases -> Trail] /\ trail[c] \in Trail
  BY DEF TrailInv
<1>2. /\ e \in Trail /\ e.told = trail[c].told \cup {"DIAGNOSIS"}
      /\ e.verdict = trail[c].verdict
  BY <1>1 DEF Trail, Marks
<1>3. trail' = [trail EXCEPT ![c] = e]
  BY DEF Diagnosed
<1> HIDE DEF e
<1>4. trail' \in [Cases -> Trail] /\ trail'[c] = e /\ \A d \in Cases \ {c} : trail'[d] = trail[d]
  BY <1>1, <1>2, <1>3
<1>5. ASSUME NEW d \in Cases
      PROVE  /\ Tells(trail[d], trail'[d])
             /\ "UNCERTAIN" \in trail'[d].told => "UNCERTAIN" \in trail[d].told
  BY <1>2, <1>4 DEF Tells
<1>6. QED
  BY <1>2, <1>4, <1>5

\* The first three parts of the invariant, primed, and that no event is lost.
TrailGoesOn ==
  /\ trail' \in [Cases -> Trail]
  /\ \A c \in Cases : CaseKnown(c)' /\ (trail'[c].told # {} => Exists(c)')
  /\ \A v \in Writers : pc'[v] # "idle" => CallKnown(v)'
  /\ \A c \in Cases : Tells(trail[c], trail'[c])

\* No statement starts a call.
LEMMA StepIsOfCall ==
  ASSUME NEW w, Step(w)
  PROVE  pc[w] # "idle"
BY SMTT(30)
   DEF Step, Announce, Guard, ReadCase, Authorize, Select, Illegal, Update, Conflict,
       LogTransition, ExecutorReads, Replay, Refuse, RefuseForNow, TimeOut, Perform,
       Record, ReportOutcome, CheckQuarantined, CheckUncertain, Resolve, Dispatchable

LEMMA StepTold ==
  ASSUME DashGround, TrailInv, NEW w \in Writers, Step(w), trail' = Traced(w)
  PROVE  TrailGoesOn
<1> DEFINE c == job[w].case
<1>0. /\ TypesInductive /\ PipelineTypeOK /\ GroundInv /\ c \in Cases /\ pc[w] # "idle"
      /\ WriterAction(w)
  BY LocalTypes, StepIsOfCall
     DEF DashGround, TypesInductive, PipelineTypeOK, Step, WriterAction, StoreAction,
         LogAction, ControlAction, ProviderAction
<1>1. /\ trail' \in [Cases -> Trail] /\ trail'[c].told = trail[c].told \cup Appended(w)
      /\ \A d \in Cases : Tells(trail[d], trail'[d]) /\ (d # c => trail'[d] = trail[d])
  BY <1>0, TracedIs
<1>2. \A d \in Cases : Exists(d) => Exists(d)'
  BY <1>0, WritesOwnCase
<1>3. Exists(c)
  BY <1>0 DEF GroundInv
<1>4. "UNCERTAIN" \in Appended(w) <=> pc[w] = "report" /\ job[w].outcome = "UNCERTAIN"
  BY DEF Appended, Decide, DecisionOf
<1>5. pc[w] = "report" => Allowed(trail'[c])
  <2>1. pc[w] = "report" => Allowed(trail[c])
    BY <1>0 DEF TrailInv, CallKnown, CallKnows
  <2>2. QED
    BY <1>0, <1>1, <2>1 DEF Allowed, Tells
<1>6. ASSUME NEW d \in Cases
      PROVE  /\ trail'[d].told # {} => Exists(d)'
             /\ pc[w] = "report" /\ job[w].case = d /\ job[w].outcome = "UNCERTAIN" =>
                  "UNCERTAIN" \in trail'[d].told
             /\ "UNCERTAIN" \in trail'[d].told =>
                  "UNCERTAIN" \in trail[d].told \/ Allowed(trail'[d])
  <2>1. trail[d].told # {} => Exists(d)
    BY DEF TrailInv
  <2>2. QED
    BY <1>1, <1>2, <1>3, <1>4, <1>5, <2>1
<1>7. pc'[w] # "idle" =>
        CallKnows(pc'[w], job'[w], trail'[job'[w].case], actions'[job'[w].case] # {})
  BY <1>0, CallGoesOn
<1>8. QED
  BY <1>0, <1>1, <1>6, <1>7, TrailWriterStep DEF TrailGoesOn

LEMMA BeginTold ==
  ASSUME DashGround, TrailInv, NEW w \in Writers, NEW c \in Cases,
         \/ (\E k \in Cohorts : Ingest(w, c, k)) /\ trail' = trail
         \/ Find(w, c) /\ trail' = trail
         \/ /\ \E p \in Proposal, h \in BOOLEAN : Begin(w, c, p, h)
            /\ Exists(c) /\ trail' = Diagnosed(c)
  PROVE  TrailGoesOn
<1>0. TypesInductive /\ PipelineTypeOK /\ GroundInv /\ trail \in [Cases -> Trail]
  BY DEF DashGround, TypesInductive, PipelineTypeOK, TrailInv
<1>1. pc[w] = "idle" /\ WriterAction(w)
  BY DEF Ingest, Find, Begin, WriterAction, StoreAction, ControlAction
<1>2. /\ trail' \in [Cases -> Trail]
      /\ \A d \in Cases : /\ Tells(trail[d], trail'[d])
                          /\ "UNCERTAIN" \in trail'[d].told => "UNCERTAIN" \in trail[d].told
  <2>1. CASE trail' = trail
    BY <1>0, <2>1 DEF Tells
  <2>2. CASE trail' = Diagnosed(c)
    BY <2>2, DiagnosedIs
  <2>3. QED
    BY <2>1, <2>2
<1>3. \A d \in Cases : Exists(d) => Exists(d)'
  BY <1>0, <1>1, WritesOwnCase
<1>4. ASSUME NEW d \in Cases, trail'[d].told # {}
      PROVE  Exists(d)'
  <2>1. trail[d].told # {} => Exists(d)
    BY DEF TrailInv
  <2>2. CASE trail' = trail
    BY <1>3, <1>4, <2>1, <2>2
  <2>3. CASE trail' = Diagnosed(c) /\ Exists(c)
    <3>1. d # c => trail'[d] = trail[d]
      BY <2>3, DiagnosedIs
    <3>2. QED
      BY <1>3, <1>4, <2>1, <2>3, <3>1
  <2>4. QED
    BY <2>2, <2>3
<1>5. \A acted : CallKnows(pc'[w], job'[w], trail'[job'[w].case], acted)
  <2>1. trail' = Diagnosed(c) => "DIAGNOSIS" \in trail'[c].told
    BY DiagnosedIs
  <2>2. QED
    BY <1>0, <1>1, <2>1, BeginsTold
<1>6. QED
  BY <1>1, <1>2, <1>4, <1>5, TrailWriterStep DEF TrailGoesOn

\* The steps of a writer that append nothing and end its call.
LEMMA DeathTold ==
  ASSUME DashGround, TrailInv, NEW w \in Writers, Crash(w), trail' = trail
  PROVE  TrailGoesOn
<1>0. TypesInductive /\ PipelineTypeOK /\ trail \in [Cases -> Trail] /\ WriterAction(w)
  BY DEF DashGround, TypesInductive, PipelineTypeOK, TrailInv, WriterAction, StoreAction
<1>1. pc'[w] = "idle" /\ rows' = rows
  BY <1>0, GotoEffect DEF Crash, Return
<1>2. pc[w] = "report" => Allowed(trail[job[w].case])
  BY DEF TrailInv, CallKnown, CallKnows
<1>3. \A d \in Cases : Tells(trail[d], trail'[d]) /\ (trail'[d].told # {} => Exists(d)')
  BY <1>1 DEF Tells, TrailInv, Exists
<1>4. \A d \in Cases : UNCHANGED <<log, actions>> /\ CaseKnown(d) => CaseKnown(d)'
  BY <1>1 DEF CaseKnown, Acted
<1>5. \A d \in Cases : CaseKnown(d)'
  BY <1>4 DEF Crash, TrailInv
<1>6. ASSUME NEW v \in Writers, pc'[v] # "idle"
      PROVE  CallKnown(v)'
  <2>1. v # w /\ pc'[v] = pc[v] /\ job'[v] = job[v]
    BY <1>0, <1>1, <1>6, GoesOn
  <2>2. actions' = actions
    BY DEF Crash
  <2>3. CallKnown(v)
    BY <1>6, <2>1 DEF TrailInv
  <2>4. CallKnows(pc'[v], job'[v], trail'[job'[v].case], actions'[job'[v].case] # {})
    BY <2>1, <2>2, <2>3 DEF CallKnown, Acted
  <2>5. QED
    BY <2>4 DEF CallKnown, Acted
<1>7. QED
  BY <1>0, <1>3, <1>5, <1>6 DEF TrailGoesOn

\* The row and the events that a scenario makes up, and the verdict it hands over again.
LEMMA SceneTold ==
  ASSUME DashGround, TrailInv, Forge \/ Redeliver \/ Redelivered
  PROVE  TrailGoesOn
<1>0. /\ TypesInductive /\ PipelineTypeOK /\ demo \in Demo /\ demo.case \in Cases
      /\ trail \in [Cases -> Trail] /\ Server \in Writers
  BY DashboardAssumption DEF DashGround, TypesInductive, PipelineTypeOK, TrailInv, DemoInv, Demo
<1> DEFINE d == demo.case
<1>1. /\ trail' \in [Cases -> Trail] /\ \A c \in Cases : Tells(trail[c], trail'[c])
      /\ \A c \in Cases : (trail'[c].told # {} => Exists(c))
                          /\ ("UNCERTAIN" \in trail'[c].told => "UNCERTAIN" \in trail[c].told)
  <2>1. CASE trail' = trail
    BY <1>0, <2>1 DEF Tells, TrailInv
  <2>2. CASE Forge
    <3> DEFINE e == [trail[d] EXCEPT !.told = trail[d].told \cup {"FAILED"}]
    <3>1. trail[d] \in Trail
      BY <1>0
    <3>2. /\ e \in Trail /\ e.told = trail[d].told \cup {"FAILED"}
          /\ e.verdict = trail[d].verdict
      BY <3>1 DEF Trail, Marks
    <3>3. trail' = [trail EXCEPT ![d] = e]
      BY <2>2 DEF Forge
    <3> HIDE DEF e
    <3>4. /\ trail' \in [Cases -> Trail] /\ trail'[d] = e
          /\ \A c \in Cases \ {d} : trail'[c] = trail[c]
      BY <1>0, <3>2, <3>3
    <3>5. Exists(d)
      BY <2>2 DEF Forge, DashGround, DemoInv, Busy
    <3>6. \A c \in Cases : trail[c].told # {} => Exists(c)
      BY DEF TrailInv
    <3>7. QED
      BY <3>2, <3>4, <3>5, <3>6 DEF Tells
  <2>3. QED
    BY <2>1, <2>2 DEF Redeliver, Redelivered
<1>2. /\ \A c \in Cases : /\ rows'[c].state = rows[c].state
                          /\ log'[c].uncertain = log[c].uncertain
      /\ actions' = actions
      /\ \A v \in Writers \ {Server} : pc'[v] = pc[v] /\ job'[v] = job[v]
  <2>1. CASE Forge
    BY <1>0, <2>1, SceneEffects
  <2>2. CASE Redeliver \/ Redelivered
    BY <1>0, <2>2, SceneEffects
  <2>3. QED
    BY <2>1, <2>2
<1>3. ASSUME NEW c \in Cases
      PROVE  CaseKnown(c)' /\ (trail'[c].told # {} => Exists(c)')
  <2> DEFINE e1 == trail'[c]
             acted == Acted(c)
  <2>1. CaseKnows(rows[c].state, log[c].uncertain, trail[c], acted)
    BY DEF TrailInv, CaseKnown
  <2>2. /\ Tells(trail[c], e1) /\ acted \in BOOLEAN
        /\ "UNCERTAIN" \in e1.told => "UNCERTAIN" \in trail[c].told
    BY <1>1 DEF Acted
  <2>3. actions'[c] # {} <=> acted
    BY <1>2 DEF Acted
  <2> HIDE DEF e1, acted
  <2>4. \A s : Explains(s, trail[c], acted) => Explains(s, e1, acted)
    BY <2>2, MoreExplains
  <2>5. CaseKnows(rows[c].state, log[c].uncertain, e1, acted)
    BY <2>1, <2>2, <2>4 DEF CaseKnows, Tells
  <2>6. CaseKnows(rows'[c].state, log'[c].uncertain, trail'[c], acted)
    BY <1>2, <2>5 DEF e1
  <2>7. CaseKnown(c)'
    BY <2>3, <2>6 DEF CaseKnown, CaseKnows, Explains, Acted
  <2>8. trail'[c].told # {} => Exists(c)'
    BY <1>1, <1>2 DEF Exists
  <2>9. QED
    BY <2>7, <2>8
<1>4. ASSUME NEW v \in Writers, pc'[v] # "idle"
      PROVE  CallKnown(v)'
  <2>1. CASE v # Server \/ Forge
    <3> DEFINE c == job[v].case
               e1 == trail'[c]
    <3>1. pc'[v] = pc[v] /\ job'[v] = job[v] /\ c \in Cases
      BY <1>0, <1>2, <2>1, LocalTypes DEF Forge
    <3>2. CallKnows(pc[v], job[v], trail[c], Acted(c)) /\ Acted(c) \in BOOLEAN
      BY <1>4, <3>1 DEF TrailInv, CallKnown, Acted
    <3>3. Tells(trail[c], e1)
      BY <1>1, <3>1
    <3>4. actions'[c] = actions[c]
      BY <1>2
    <3> HIDE DEF c, e1
    <3>5. CallKnows(pc[v], job[v], e1, Acted(c))
      BY <3>2, <3>3, MoreExplains
    <3>6. CallKnows(pc'[v], job'[v], trail'[job'[v].case], Acted(c)) /\ c = job'[v].case
      BY <3>1, <3>5 DEF e1, c
    <3>7. actions'[job'[v].case] = actions[c]
      BY <3>4, <3>6
    <3>8. CallKnows(pc'[v], job'[v], trail'[job'[v].case], actions'[job'[v].case] # {})
      BY <3>6, <3>7 DEF Acted
    <3>9. QED
      BY <3>8 DEF CallKnown, Acted
  <2>2. CASE v = Server /\ Redelivered
    BY <1>0, <1>4, <2>2, SceneEffects
  <2>3. CASE v = Server /\ Redeliver
    <3>1. Allowed(trail[d])
      BY <2>3 DEF Redeliver, Again, TrailInv, Busy
    <3>2. trail' = trail
      BY <2>3 DEF Redeliver
    <3>3. pc'[v] = "execute" /\ job'[v].case = d
      BY <1>0, <2>3, SceneEffects, RetryJobIsJob
    <3>4. QED
      BY <3>1, <3>2, <3>3 DEF CallKnown, CallKnows
  <2>4. QED
    BY <2>1, <2>2, <2>3
<1>5. QED
  BY <1>1, <1>3, <1>4 DEF TrailGoesOn

\* A verdict that allowed the scenario's retry is in the log of its case.
LEMMA TraceTold ==
  ASSUME DashGround, TrailInv, [DashNext]_dashVars, TrailGoesOn
  PROVE  (Busy /\ demo.trace.decision = "ALLOW" => Allowed(trail[demo.case]))'
<1>0. /\ TypesInductive /\ PipelineTypeOK /\ demo \in Demo /\ Server \in Writers
      /\ demo.case \in Cases
  BY DashboardAssumption DEF DashGround, TypesInductive, DemoInv, Demo
<1>1. \A c \in Cases : Allowed(trail[c]) => Allowed(trail'[c])
  BY DEF TrailGoesOn, Allowed, Tells
<1>2. Busy' <=> demo'.step # "none"
  BY DEF Busy
<1>3. Allowed(trail[demo.case])' <=> Allowed(trail'[demo'.case])
  BY DEF Allowed
<1>4. ASSUME demo' = NoDemo
      PROVE  ~Busy'
  BY <1>2, <1>4, NoDemoIs
<1>5. ASSUME demo'.trace = demo.trace, demo'.case = demo.case, Busy
      PROVE  demo'.trace.decision = "ALLOW" => Allowed(trail'[demo'.case])
  BY <1>0, <1>1, <1>5 DEF TrailInv
<1>6. ASSUME NEW step, NEW answer, DemoAt(step, answer)
      PROVE  demo'.trace = demo.trace /\ demo'.case = demo.case
  BY <1>0, <1>6 DEF DemoAt, Demo
<1>7. CASE demo' = demo
  BY <1>2, <1>3, <1>5, <1>7 DEF Busy
<1>8. CASE Forge \/ DemoProcess \/ Redeliver
  BY <1>3, <1>5, <1>6, <1>8 DEF Forge, DemoProcess, Redeliver, Busy, Again
<1>9. CASE Redelivered
  <2>1. Busy
    BY <1>9 DEF Redelivered, DashGround, DemoInv, Busy
  <2>2. QED
    BY <1>3, <1>4, <1>5, <1>6, <1>9, <2>1 DEF Redelivered
<1>10. CASE RedeliverNothing \/ Reply \/ ServerDies
  BY <1>4, <1>10 DEF RedeliverNothing, Reply, ServerDies
<1>11. CASE \E c \in Cases, s \in Scenarios : StartDemo(c, s)
  <2>1. PICK c \in Cases, s \in Scenarios :
          demo' = [NoDemo EXCEPT !.name = s, !.case = c, !.step = "ingest"]
    BY <1>11 DEF StartDemo
  <2>2. demo'.trace = NoDemo.trace
    BY <2>1, NoDemoIs DEF Demo
  <2>3. demo'.trace.decision = "NONE"
    BY <2>2 DEF NoDemo, NoTrace
  <2>4. QED
    BY <2>3
<1>12. CASE DemoStep
  <2>1. /\ Busy /\ Step(Server) /\ trail' = Traced(Server)
        /\ demo' = NoDemo \/ demo' = [demo EXCEPT !.trace = Noted]
    BY <1>12 DEF DemoStep
  <2>2. ASSUME demo' = [demo EXCEPT !.trace = Noted]
        PROVE  demo'.trace = Noted /\ demo'.case = demo.case
    BY <1>0, <2>2 DEF Demo
  <2>3. CASE demo' = [demo EXCEPT !.trace = Noted] /\ pc[Server] = "decide"
    <3>1. pc[Server] # "idle" /\ job[Server].case = demo.case
      BY <2>1, <2>3 DEF DashGround, DemoInv
    <3>2. demo.trace \in [decision : Decisions \cup {"NONE"}, attempts : Nat,
                          outcome : Outcomes]
      BY <1>0 DEF Demo
    <3>3. Noted.decision = Decide(Server)
      BY <2>3, <3>2 DEF Noted
    <3>4. /\ trail'[demo.case].told = trail[demo.case].told \cup {Decide(Server)}
          /\ trail'[demo.case].verdict = Decide(Server)
      <4>1. Appended(Server) = {Decide(Server)}
        BY <2>3 DEF Appended
      <4>2. QED
        BY <1>0, <2>1, <2>3, <3>1, <4>1, TracedIs
    <3>5. "DIAGNOSIS" \in trail[demo.case].told
      BY <1>0, <2>3, <3>1 DEF TrailInv, CallKnown, CallKnows
    <3>6. Decide(Server) = "ALLOW" => Allowed(trail'[demo.case])
      BY <3>4, <3>5 DEF Allowed
    <3>7. QED
      BY <1>3, <2>2, <2>3, <3>3, <3>6
  <2>4. CASE demo' = [demo EXCEPT !.trace = Noted] /\ pc[Server] # "decide"
    <3>1. Noted.decision = demo.trace.decision
      <4>1. demo.trace \in [decision : Decisions \cup {"NONE"}, attempts : Nat,
                            outcome : Outcomes]
        BY <1>0 DEF Demo
      <4>2. QED
        BY <2>4, <4>1 DEF Noted
    <3>2. demo.trace.decision = "ALLOW" => Allowed(trail'[demo.case])
      BY <1>0, <1>1, <2>1 DEF TrailInv
    <3>3. QED
      BY <1>3, <2>2, <2>4, <3>1, <3>2
  <2>5. QED
    BY <1>4, <2>1, <2>3, <2>4
<1>13. CASE \/ \E w \in Others, c \in Cases : OtherStart(w, c)
            \/ \E w \in Others : OtherStep(w) \/ OtherDies(w)
            \/ ReadNext \/ Close
            \/ \E kind \in PageKinds \ {"none"}, c \in Cases : Open(kind, c)
            \/ UNCHANGED dashVars
  BY <1>7, <1>13 DEF OtherStart, OtherStep, OtherDies, ReadNext, Close, Open, dashVars
<1>14. QED
  BY <1>8, <1>9, <1>10, <1>11, <1>12, <1>13 DEF DashNext

LEMMA TrailStep ==
  ASSUME DashGround, TrailInv, [DashNext]_dashVars
  PROVE  TrailInv' /\ \A c \in Cases : Tells(trail[c], trail'[c])
<1>0. Server \in Writers /\ Others \subseteq Writers /\ demo.case \in Cases
  BY DashboardAssumption DEF Others, DashGround, DemoInv, Demo
<1>1. ASSUME UNCHANGED <<vars, trail>>
      PROVE  TrailGoesOn
  <2>1. trail \in [Cases -> Trail] /\ \A c \in Cases : Tells(trail[c], trail'[c])
    BY <1>1 DEF TrailInv, Tells
  <2>2. \A c \in Cases : CaseKnown(c)' /\ (trail'[c].told # {} => Exists(c)')
    BY <1>1 DEF TrailInv, CaseKnown, Acted, Exists, vars
  <2>3. \A v \in Writers : pc'[v] # "idle" => CallKnown(v)'
    BY <1>1 DEF TrailInv, CallKnown, Acted, vars
  <2>4. QED
    BY <1>1, <2>1, <2>2, <2>3 DEF TrailGoesOn
<1>2. CASE \E c \in Cases, s \in Scenarios : StartDemo(c, s)
  <2>1. PICK c \in Cases : Ingest(Server, c, "TREATED") /\ trail' = trail
    BY <1>2 DEF StartDemo
  <2>2. "TREATED" \in Cohorts
    BY DEF Cohorts
  <2>3. TrailGoesOn
    BY <1>0, <2>1, <2>2, BeginTold
  <2>4. QED
    BY <2>3, TraceTold DEF TrailInv, TrailGoesOn
<1>3. CASE Forge \/ Redeliver \/ Redelivered
  <2>1. TrailGoesOn
    BY <1>3, SceneTold
  <2>2. QED
    BY <2>1, TraceTold DEF TrailInv, TrailGoesOn
<1>4. CASE DemoProcess
  <2>1. PICK downtime, halted \in BOOLEAN :
          Begin(Server, demo.case, DemoProposal(demo.name, downtime), halted)
    BY <1>4 DEF DemoProcess
  <2>2. DemoProposal(demo.name, downtime) \in Proposal
    BY DemoProposalIs
  <2>3. trail' = Diagnosed(demo.case) /\ Exists(demo.case)
    BY <1>4 DEF DemoProcess, DashGround, DemoInv, Busy
  <2>4. TrailGoesOn
    BY <1>0, <2>1, <2>2, <2>3, BeginTold
  <2>5. QED
    BY <2>4, TraceTold DEF TrailInv, TrailGoesOn
<1>5. CASE DemoStep \/ \E w \in Others : OtherStep(w)
  <2>1. PICK w \in Writers : Step(w) /\ trail' = Traced(w)
    BY <1>0, <1>5 DEF DemoStep, OtherStep
  <2>2. TrailGoesOn
    BY <2>1, StepTold
  <2>3. QED
    BY <2>2, TraceTold DEF TrailInv, TrailGoesOn
<1>6. CASE ServerDies \/ \E w \in Others : OtherDies(w)
  <2>1. PICK w \in Writers : Crash(w) /\ trail' = trail
    BY <1>0, <1>6 DEF ServerDies, OtherDies
  <2>2. TrailGoesOn
    BY <2>1, DeathTold
  <2>3. QED
    BY <2>2, TraceTold DEF TrailInv, TrailGoesOn
<1>7. CASE \E w \in Others, c \in Cases : OtherStart(w, c)
  <2>1. PICK w \in Writers, c \in Cases : OtherStart(w, c)
    BY <1>0, <1>7
  <2>2. ASSUME NEW p \in Proposals, NEW h \in BOOLEAN, Start(w, c, p, h)
        PROVE  p \in Proposal /\ Begin(w, c, p, h) /\ Exists(c)
    BY <2>2, PipelineAssumption DEF Start, Exists, States
  <2>3. TrailGoesOn
    BY <2>1, <2>2, BeginTold DEF OtherStart
  <2>4. QED
    BY <2>3, TraceTold DEF TrailInv, TrailGoesOn
<1>8. CASE RedeliverNothing \/ Reply \/ ReadNext \/ Close
           \/ (\E kind \in PageKinds \ {"none"}, c \in Cases : Open(kind, c))
           \/ UNCHANGED dashVars
  <2>1. UNCHANGED <<vars, trail>>
    BY <1>8 DEF RedeliverNothing, Reply, ReadNext, Close, Open, dashVars
  <2>2. TrailGoesOn
    BY <1>1, <2>1
  <2>3. QED
    BY <2>2, TraceTold DEF TrailInv, TrailGoesOn
<1>9. QED
  BY <1>2, <1>3, <1>4, <1>5, <1>6, <1>7, <1>8 DEF DashNext

----------------------------------------------------------------------------
(* The figures *)

Uncertain == {c \in Cases : "UNCERTAIN" \in trail[c].told}

\* Finitely many cases exist, each with finitely many executed actions.
FewInv == IsFiniteSet(Existing) /\ \A c \in Cases : IsFiniteSet(actions[c])

\* What is counted stays finite.
LEMMA FewStep ==
  ASSUME DashGround, FewInv, [DashNext]_dashVars
  PROVE  FewInv'
<1>0. /\ TypesInductive /\ GroundInv /\ DemoInv /\ PipelineTypeOK /\ demo \in Demo
      /\ actions \in [Cases -> SUBSET Attempt]
  BY DEF DashGround, DemoInv, TypesInductive, PipelineTypeOK
<1>1. IsFiniteSet(Existing')
  <2>1. PICK c, d : Existing' \subseteq Existing \cup {c, d}
    <3>1. ASSUME NEW w \in Writers, WriterAction(w)
          PROVE  Existing' \subseteq Existing \cup {job[w].case, job'[w].case}
      <4>1. ASSUME NEW c \in Cases, Exists(c)', ~Exists(c)
            PROVE  c = job[w].case \/ c = job'[w].case
        <5>1. rows'[c] # rows[c]
          BY <4>1 DEF Exists
        <5>2. WorksOn(w, c) \/ WorksOn(w, c)'
          BY <1>0, <3>1, <5>1, WritesOwnCase
        <5>3. QED
          BY <5>2 DEF WorksOn
      <4>2. QED
        BY <4>1 DEF Existing
    <3>2. ASSUME \A c \in Cases : rows'[c].state = rows[c].state
          PROVE  Existing' \subseteq Existing \cup {0, 0}
      BY <3>2 DEF Existing, Exists
    <3>3. CASE UNCHANGED vars \/ Redeliver \/ Redelivered
      BY <3>2, <3>3 DEF vars, Redeliver, Redelivered
    <3>4. CASE Forge
      BY <1>0, <3>2, <3>4, SceneEffects
    <3>5. QED
      BY <1>0, <3>1, <3>3, <3>4, DashCases
  <2>2. IsFiniteSet(Existing \cup {c, d})
    <3>1. IsFiniteSet(Existing \cup {c})
      BY FS_AddElement DEF FewInv
    <3>2. IsFiniteSet((Existing \cup {c}) \cup {d})
      BY <3>1, FS_AddElement
    <3>3. (Existing \cup {c}) \cup {d} = Existing \cup {c, d}
      OBVIOUS
    <3>4. QED
      BY <3>2, <3>3
  <2>3. QED
    BY <2>1, <2>2, FS_Subset
<1>2. ASSUME NEW c \in Cases
      PROVE  IsFiniteSet(actions'[c])
  <2>1. CASE actions'[c] = actions[c]
    BY <2>1 DEF FewInv
  <2>2. ASSUME NEW w \in Writers, NEW a,
               actions'[c] = {b \in actions[c] : b.attempt # AttemptOf(w)} \cup {a}
        PROVE  IsFiniteSet(actions'[c])
    <3> DEFINE kept == {b \in actions[c] : b.attempt # AttemptOf(w)}
    <3>1. IsFiniteSet(actions[c]) /\ kept \in SUBSET actions[c]
      BY DEF FewInv
    <3>2. actions'[c] = kept \cup {a}
      BY <2>2
    <3> HIDE DEF kept
    <3>3. IsFiniteSet(kept)
      BY <3>1, FS_Subset
    <3>4. QED
      BY <3>2, <3>3, FS_AddElement
  <2>3. ASSUME NEW w \in Writers, WriterAction(w)
        PROVE  IsFiniteSet(actions'[c])
    <3>1. \/ actions'[c] = actions[c]
          \/ \E a : actions'[c] = {b \in actions[c] : b.attempt # AttemptOf(w)} \cup {a}
      BY <1>0, <2>3, ActionsStep
    <3>2. QED
      BY <2>1, <2>2, <3>1
  <2>4. CASE UNCHANGED vars \/ Forge \/ Redeliver \/ Redelivered
    BY <2>1, <2>4 DEF vars, Forge, Redeliver, Redelivered
  <2>5. QED
    BY <1>0, <2>3, <2>4, DashCases
<1>3. QED
  BY <1>1, <1>2 DEF FewInv

\* What the metrics page counts, and that each recovery is counted with an action or has
\* an uncertain one.
LEMMA Figures ==
  ASSUME DashGround, TrailInv, FewInv
  PROVE  /\ Cardinality(Existing) \in Nat /\ Cardinality(Recovered) \in Nat
         /\ Cardinality(ActionRows) \in Nat /\ Cardinality(Uncertain) \in Nat
         /\ IsFiniteSet(Recovered) /\ IsFiniteSet(Uncertain)
         /\ Cardinality(Recovered) <= Cardinality(ActionRows) + Cardinality(Uncertain)
<1> DEFINE Done == {c \in Cases : actions[c] # {}}
           first == [c \in Done |-> <<c, CHOOSE a \in actions[c] : TRUE>>]
           RowsOf == [c \in Existing |-> {c} \X actions[c]]
           Tables == {{c} \X actions[c] : c \in Existing}
<1>1. IsFiniteSet(Existing) /\ IsFiniteSet(Recovered) /\ IsFiniteSet(Uncertain)
  <2>1. \A c \in Cases : "UNCERTAIN" \in trail[c].told => Exists(c)
    BY DEF TrailInv
  <2>2. Recovered \subseteq Existing /\ Uncertain \subseteq Existing
    BY <2>1 DEF Recovered, Uncertain, Existing
  <2>3. QED
    BY <2>2, FS_Subset DEF FewInv
<1>2. IsFiniteSet(ActionRows)
  <2>1. \A c \in Cases : ~Exists(c) => actions[c] = {}
    BY DEF DashGround, GroundInv
  <2>2. ActionRows = UNION Tables
    BY <2>1 DEF ActionRows, Existing
  <2>3. RowsOf \in Surjection(Existing, Tables)
    BY DEF Surjection
  <2>4. IsFiniteSet(Tables)
    <3> HIDE DEF RowsOf, Tables
    <3>1. QED
      BY <1>1, <2>3, FS_Surjection
  <2>5. ASSUME NEW T \in Tables
        PROVE  IsFiniteSet(T)
    <3>1. PICK c \in Existing : T = {c} \X actions[c]
      OBVIOUS
    <3>2. IsFiniteSet({c})
      BY FS_Singleton
    <3>3. IsFiniteSet(actions[c])
      BY DEF FewInv, Existing
    <3>4. QED
      BY <3>1, <3>2, <3>3, FS_Product
  <2> HIDE DEF Tables
  <2>6. QED
    BY <2>2, <2>4, <2>5, FS_UNION
<1>3. first \in Injection(Done, ActionRows)
  <2>1. ASSUME NEW c \in Done
        PROVE  first[c] \in ActionRows /\ first[c][1] = c
    <3>1. (CHOOSE a \in actions[c] : TRUE) \in actions[c]
      OBVIOUS
    <3>2. QED
      BY <3>1 DEF ActionRows
  <2>2. first \in [Done -> ActionRows]
    BY <2>1
  <2>3. \A c, d \in Done : first[c] = first[d] => c = d
    BY <2>1
  <2> HIDE DEF first, Done
  <2>4. QED
    BY <2>2, <2>3 DEF Injection, IsInjective
<1>4. IsFiniteSet(Done) /\ Cardinality(Done) <= Cardinality(ActionRows)
  <2> HIDE DEF first, Done
  <2>1. QED
    BY <1>2, <1>3, FS_Injection
<1>5. Recovered \subseteq Done \cup Uncertain
  BY DEF Recovered, Existing, Uncertain, TrailInv, CaseKnown, CaseKnows, Explains, Acted
<1> HIDE DEF Done
<1>6. /\ Cardinality(Done) \in Nat /\ Cardinality(Uncertain) \in Nat
      /\ Cardinality(ActionRows) \in Nat /\ Cardinality(Existing) \in Nat
      /\ Cardinality(Recovered) \in Nat
  BY <1>1, <1>2, <1>4, FS_CardinalityType
<1>7. /\ IsFiniteSet(Done \cup Uncertain)
      /\ Cardinality(Done \cup Uncertain) =
           Cardinality(Done) + Cardinality(Uncertain) - Cardinality(Done \cap Uncertain)
  BY <1>1, <1>4, FS_Union
<1>8. Cardinality(Done \cap Uncertain) \in Nat
  BY <1>4, FS_Intersection, FS_CardinalityType
<1>9. Cardinality(Recovered) <= Cardinality(Done \cup Uncertain)
  BY <1>5, <1>7, FS_Subset
<1>10. QED
  BY <1>1, <1>4, <1>6, <1>7, <1>8, <1>9

\* What is counted does not get less.
LEMMA FiguresGrow ==
  ASSUME TrailInv', FewInv', Lasts, \A c \in Cases : Tells(trail[c], trail'[c])
  PROVE  /\ Cardinality(Existing) <= Cardinality(Existing)'
         /\ Cardinality(Recovered) <= Cardinality(Recovered)'
         /\ Cardinality(Uncertain) <= Cardinality(Uncertain)'
<1>1. Existing \subseteq Existing'
  BY DEF Lasts, Existing, Exists
<1>2. Recovered \subseteq Recovered'
  <2>1. "RECOVERED" \in TERMINAL_STATES
    BY DEF TERMINAL_STATES, States, VALID_TRANSITIONS
  <2>2. QED
    BY <1>1, <2>1 DEF Lasts, Recovered, Existing, Exists
<1>3. Uncertain \subseteq Uncertain'
  BY DEF Tells, Uncertain
<1>4. IsFiniteSet(Existing') /\ IsFiniteSet(Recovered') /\ IsFiniteSet(Uncertain')
  <2>1. \A c \in Cases : "UNCERTAIN" \in trail'[c].told => Exists(c)'
    BY DEF TrailInv
  <2>2. Recovered' \in SUBSET (Existing') /\ Uncertain' \in SUBSET (Existing')
    BY <2>1 DEF Recovered, Uncertain, Existing
  <2>3. IsFiniteSet(Existing')
    BY DEF FewInv
  <2>4. QED
    BY <2>2, <2>3, FS_Subset
<1>5. QED
  BY <1>1, <1>2, <1>3, <1>4, FS_Subset

----------------------------------------------------------------------------
(* The pages *)

Page == [kind : PageKinds, case : Cases, read : Nat, state : States \cup {"ABSENT"},
         waiting : BOOLEAN, verdict : Decisions \cup {"NONE"}, told : SUBSET Marks,
         acted : BOOLEAN, total : Nat, recovered : Nat, executed : Nat, shares : Nat \X Nat]

\* What the row of a page said has its reason in the events of the case by now.
RowExplained ==
  /\ page.state # "ABSENT"
  /\ Explains(page.state, trail[page.case], Acted(page.case))
  /\ page.waiting =>
       page.state = "QUARANTINED" /\ "UNCERTAIN" \in trail[page.case].told

\* What the page of a case has read so far.
CasePageInv ==
  /\ Exists(page.case)
  /\ page.read >= 1 => RowExplained
  /\ page.kind \in {"detail", "trace"} /\ page.read >= 2 =>
       TimelineExplains /\ (page.waiting => "UNCERTAIN" \in page.told)
  /\ page.kind = "list" =>
       /\ page.read >= 2 => (page.state # "DETECTED" => "DIAGNOSIS" \in page.told)
       /\ page.read >= 3 =>
            (page.state \notin {"DETECTED", "DIAGNOSED"} => page.verdict # "NONE")
       /\ page.read >= 4 => ListExplains

FiguresInv ==
  /\ page.read >= 1 => page.total <= Cardinality(Existing)
  /\ page.read >= 2 => page.recovered <= Cardinality(Recovered)
  /\ page.read >= 3 => page.recovered <= page.executed + Cardinality(Uncertain)
  /\ page.read >= 4 => page.total <= page.shares[1] /\ page.recovered <= page.shares[2]

PageInv ==
  /\ page \in Page
  /\ page.kind # "none" => page.read \in 0 .. Len(Reads(page.kind))
  /\ page.kind \in {"detail", "trace", "list"} => CasePageInv
  /\ page.kind = "metrics" => FiguresInv

\* How many SELECTs a page has, and which.
LEMMA ReadsAre ==
  /\ Len(Reads("detail")) = 3 /\ Len(Reads("trace")) = 2
  /\ Len(Reads("list")) = 4 /\ Len(Reads("metrics")) = 4
  /\ \A kind \in {"detail", "trace"} : Reads(kind)[1] = "row" /\ Reads(kind)[2] = "events"
  /\ Reads("detail")[3] = "action"
  /\ Reads("list")[1] = "row" /\ Reads("list")[2] = "diagnosis"
  /\ Reads("list")[3] = "verdict" /\ Reads("list")[4] = "action"
  /\ Reads("metrics")[1] = "total" /\ Reads("metrics")[2] = "recovered"
  /\ Reads("metrics")[3] = "executed" /\ Reads("metrics")[4] = "shares"
<1>1. Reads("detail") = <<"row", "events", "action">> /\ Reads("trace") = <<"row", "events">>
  BY DEF Reads, DetailReads, TraceReads
<1>2. /\ Reads("list") = <<"row", "diagnosis", "verdict", "action">>
      /\ Reads("metrics") = <<"total", "recovered", "executed", "shares">>
  BY DEF Reads, SummaryReads, MetricsReads
<1>3. QED
  BY <1>1, <1>2

\* What one SELECT of the page of a case puts on it.
LEMMA CaseRead ==
  ASSUME page \in Page, page.kind \notin {"none", "metrics"},
         rows \in [Cases -> Row], trail \in [Cases -> Trail],
         ReadNext, NEW what, what = Reads(page.kind)[page.read + 1],
         what \in {"row", "events", "diagnosis", "verdict", "action"}
  PROVE  /\ page' \in Page /\ page'.kind = page.kind /\ page'.case = page.case
         /\ page'.read = page.read + 1
         /\ what = "row" =>
              /\ page'.state = rows[page.case].state
              /\ page'.waiting <=> (rows[page.case].state = "QUARANTINED"
                                    /\ log[page.case].uncertain # 0)
         /\ what # "row" => page'.state = page.state /\ page'.waiting = page.waiting
         /\ page'.told = (CASE what = "events" -> trail[page.case].told
                            [] what = "diagnosis" -> trail[page.case].told \cap {"DIAGNOSIS"}
                            [] OTHER -> page.told)
         /\ page'.verdict = (IF what = "verdict" THEN trail[page.case].verdict
                             ELSE page.verdict)
         /\ page'.acted <=> (IF what = "action" THEN Acted(page.case) ELSE page.acted)
<1> DEFINE c == page.case
           p == ReadInto(what)
<1>0. /\ c \in Cases /\ page.read + 1 \in Nat /\ rows[c].state \in States \cup {"ABSENT"}
      /\ trail[c].told \subseteq Marks /\ trail[c].verdict \in Decisions \cup {"NONE"}
  BY DEF Page, Row, Trail
<1>1. page' = [p EXCEPT !.read = page.read + 1]
  BY DEF ReadNext
<1>2. p = ReadOfCase(what, c)
  BY DEF ReadInto
<1>3. /\ p \in Page /\ p.kind = page.kind /\ p.case = c
      /\ what = "row" =>
           /\ p.state = rows[c].state
           /\ p.waiting <=> (rows[c].state = "QUARANTINED" /\ log[c].uncertain # 0)
      /\ what # "row" => p.state = page.state /\ p.waiting = page.waiting
      /\ p.told = (CASE what = "events" -> trail[c].told
                     [] what = "diagnosis" -> trail[c].told \cap {"DIAGNOSIS"}
                     [] OTHER -> page.told)
      /\ p.verdict = (IF what = "verdict" THEN trail[c].verdict ELSE page.verdict)
      /\ p.acted <=> (IF what = "action" THEN Acted(c) ELSE page.acted)
  <2> HIDE DEF p, c
  <2>1. CASE what = "row"
    <3> DEFINE st == rows[c].state
               wt == rows[c].state = "QUARANTINED" /\ log[c].uncertain # 0
    <3>1. p = [page EXCEPT !.state = st, !.waiting = wt]
      BY <1>2, <2>1 DEF ReadOfCase, ReadRow
    <3>2. st \in States \cup {"ABSENT"} /\ wt \in BOOLEAN
      BY <1>0
    <3> HIDE DEF st, wt
    <3>3. /\ p \in Page /\ p.kind = page.kind /\ p.case = c /\ p.state = st
          /\ p.told = page.told /\ p.verdict = page.verdict /\ p.acted = page.acted
          /\ p.waiting <=> wt
      BY <3>1, <3>2 DEF Page, c
    <3>4. QED
      BY <2>1, <3>3 DEF st, wt
  <2>2. CASE what \in {"events", "diagnosis"}
    <3> DEFINE m == IF what = "events" THEN trail[c].told
                    ELSE trail[c].told \cap {"DIAGNOSIS"}
    <3>1. p = [page EXCEPT !.told = m]
      BY <1>2, <2>2 DEF ReadOfCase
    <3>2. m \subseteq Marks
      BY <1>0
    <3> HIDE DEF m
    <3>3. /\ p \in Page /\ p.kind = page.kind /\ p.case = c /\ p.state = page.state
          /\ p.told = m /\ p.verdict = page.verdict /\ p.acted = page.acted
          /\ p.waiting = page.waiting
      BY <3>1, <3>2 DEF Page, c
    <3>4. QED
      BY <2>2, <3>3 DEF m
  <2>3. CASE what = "verdict"
    <3> DEFINE v == trail[c].verdict
    <3>1. p = [page EXCEPT !.verdict = v] /\ v \in Decisions \cup {"NONE"}
      BY <1>0, <1>2, <2>3 DEF ReadOfCase
    <3> HIDE DEF v
    <3>2. /\ p \in Page /\ p.kind = page.kind /\ p.case = c /\ p.state = page.state
          /\ p.told = page.told /\ p.verdict = v /\ p.acted = page.acted
          /\ p.waiting = page.waiting
      BY <3>1 DEF Page, c
    <3>3. QED
      BY <2>3, <3>2 DEF v
  <2>4. CASE what = "action"
    <3> DEFINE a == Acted(c)
    <3>1. p = [page EXCEPT !.acted = a] /\ a \in BOOLEAN
      BY <1>2, <2>4 DEF ReadOfCase, Acted
    <3> HIDE DEF a
    <3>2. /\ p \in Page /\ p.kind = page.kind /\ p.case = c /\ p.state = page.state
          /\ p.told = page.told /\ p.verdict = page.verdict /\ p.acted = a
          /\ p.waiting = page.waiting
      BY <3>1 DEF Page, c
    <3>3. QED
      BY <2>4, <3>2 DEF a
  <2>5. QED
    BY <2>1, <2>2, <2>3, <2>4
<1> HIDE DEF p
<1>4. /\ page' \in Page /\ page'.kind = p.kind /\ page'.case = p.case
      /\ page'.read = page.read + 1 /\ page'.state = p.state /\ page'.waiting = p.waiting
      /\ page'.told = p.told /\ page'.verdict = p.verdict /\ page'.acted = p.acted
  BY <1>0, <1>1, <1>3 DEF Page
<1>5. QED
  BY <1>3, <1>4

\* What one of the metrics page's SELECTs puts on it.
LEMMA FigureRead ==
  ASSUME page \in Page, page.kind = "metrics", ReadNext,
         NEW what, what = Reads("metrics")[page.read + 1],
         what \in {"total", "recovered", "executed", "shares"},
         Cardinality(Existing) \in Nat, Cardinality(Recovered) \in Nat,
         Cardinality(ActionRows) \in Nat
  PROVE  /\ page' \in Page /\ page'.kind = "metrics" /\ page'.read = page.read + 1
         /\ page'.total = (IF what = "total" THEN Cardinality(Existing) ELSE page.total)
         /\ page'.recovered = (IF what = "recovered" THEN Cardinality(Recovered)
                               ELSE page.recovered)
         /\ page'.executed = (IF what = "executed" THEN Cardinality(ActionRows)
                              ELSE page.executed)
         /\ what = "shares" => /\ page'.shares[1] = Cardinality(Existing)
                               /\ page'.shares[2] = Cardinality(Recovered)
<1> DEFINE p == ReadInto(what)
           e == Cardinality(Existing)
           r == Cardinality(Recovered)
           x == Cardinality(ActionRows)
<1>1. page' = [p EXCEPT !.read = page.read + 1] /\ page.read + 1 \in Nat
  BY DEF ReadNext, Page
<1>2. /\ what = "total" => p = [page EXCEPT !.total = e]
      /\ what = "recovered" => p = [page EXCEPT !.recovered = r]
      /\ what = "executed" => p = [page EXCEPT !.executed = x]
      /\ what = "shares" => p = [page EXCEPT !.shares = <<e, r>>]
  BY DEF ReadInto, ReadFigure
<1>3. e \in Nat /\ r \in Nat /\ x \in Nat
  OBVIOUS
<1> HIDE DEF p, e, r, x
<1>4. /\ p \in Page /\ p.kind = "metrics"
      /\ p.total = (IF what = "total" THEN e ELSE page.total)
      /\ p.recovered = (IF what = "recovered" THEN r ELSE page.recovered)
      /\ p.executed = (IF what = "executed" THEN x ELSE page.executed)
      /\ what = "shares" => p.shares[1] = e /\ p.shares[2] = r
  <2>1. CASE what = "total"
    BY <1>2, <1>3, <2>1 DEF Page
  <2>2. CASE what = "recovered"
    BY <1>2, <1>3, <2>2 DEF Page
  <2>3. CASE what = "executed"
    BY <1>2, <1>3, <2>3 DEF Page
  <2>4. CASE what = "shares"
    BY <1>2, <1>3, <2>4 DEF Page
  <2>5. QED
    BY <2>1, <2>2, <2>3, <2>4
<1>5. /\ page' \in Page /\ page'.kind = p.kind /\ page'.read = page.read + 1
      /\ page'.total = p.total /\ page'.recovered = p.recovered
      /\ page'.executed = p.executed /\ page'.shares = p.shares
  BY <1>1, <1>4 DEF Page
<1>6. QED
  BY <1>4, <1>5 DEF e, r, x

\* What a page has read of a case keeps its reason while others write.
LEMMA PageKept ==
  ASSUME DashGround, TrailInv, TrailInv', FewInv', Lasts, PageInv, page' = page,
         DashGround', \A c \in Cases : Tells(trail[c], trail'[c]), FewInv
  PROVE  PageInv'
<1>0. page \in Page /\ page.case \in Cases
  BY DEF PageInv, Page
<1>1. page.kind \in {"detail", "trace", "list"} => CasePageInv'
  <2> DEFINE c == page.case
             e == trail[c]
             e1 == trail'[c]
  <2>1. SUFFICES ASSUME page.kind \in {"detail", "trace", "list"}
                 PROVE  CasePageInv'
    OBVIOUS
  <2>2. CasePageInv
    BY <2>1 DEF PageInv
  <2>3. rows'[c].state # "ABSENT"
    <3>1. Exists(c) /\ (Exists(c) => Exists(c)')
      BY <1>0, <2>2 DEF CasePageInv, Lasts
    <3>2. QED
      BY <3>1 DEF Exists
  <2>4. /\ Tells(e, e1) /\ Acted(c) \in BOOLEAN
        /\ Acted(c) => actions'[c] # {}
    <3>1. actions[c] # {} => actions'[c] # {}
      BY <1>0 DEF Lasts
    <3>2. QED
      BY <1>0, <3>1 DEF Acted
  <2>5. page.read >= 1 => RowExplained'
    <3> DEFINE b == Acted(c)
               b1 == actions'[c] # {}
    <3>1. SUFFICES ASSUME page.read >= 1
                   PROVE  RowExplained'
      OBVIOUS
    <3>2. /\ Explains(page.state, e, b) /\ page.state # "ABSENT"
          /\ page.waiting => page.state = "QUARANTINED" /\ "UNCERTAIN" \in e.told
      BY <2>2, <3>1 DEF CasePageInv, RowExplained
    <3>3. Explains(page.state, e1, b1)
      <4> HIDE DEF e, e1, b, b1
      <4>1. Tells(e, e1) /\ b \in BOOLEAN /\ b1 \in BOOLEAN /\ (b => b1)
        BY <2>4 DEF b, b1
      <4>2. QED
        BY <3>2, <4>1, MoreExplains
    <3>4. page.waiting => "UNCERTAIN" \in e1.told
      BY <2>4, <3>2 DEF Tells
    <3>5. QED
      BY <3>2, <3>3, <3>4 DEF RowExplained, Acted
  <2>6. (TimelineExplains => TimelineExplains') /\ (ListExplains => ListExplains')
    BY <2>4 DEF TimelineExplains, ListExplains, Tells
  <2>7. QED
    BY <2>2, <2>3, <2>5, <2>6 DEF CasePageInv, Exists
<1>2. page.kind = "metrics" => FiguresInv'
  <2> DEFINE counts(e, r, u) ==
               /\ page.read >= 1 => page.total <= e
               /\ page.read >= 2 => page.recovered <= r
               /\ page.read >= 3 => page.recovered <= page.executed + u
               /\ page.read >= 4 =>
                    page.total <= page.shares[1] /\ page.recovered <= page.shares[2]
  <2>1. page.total \in Nat /\ page.recovered \in Nat /\ page.executed \in Nat
    BY <1>0 DEF Page
  <2>2. \A e, r, u, e1, r1, u1 \in Nat :
          e <= e1 /\ r <= r1 /\ u <= u1 /\ counts(e, r, u) => counts(e1, r1, u1)
    BY <2>1
  <2>3. page.kind = "metrics" =>
          counts(Cardinality(Existing), Cardinality(Recovered), Cardinality(Uncertain))
    BY DEF PageInv, FiguresInv
  <2>4. /\ Cardinality(Existing) \in Nat /\ Cardinality(Recovered) \in Nat
        /\ Cardinality(Uncertain) \in Nat
    BY Figures
  <2>5. /\ Cardinality(Existing)' \in Nat /\ Cardinality(Recovered)' \in Nat
        /\ Cardinality(Uncertain)' \in Nat
    <3>1. \A c \in Cases : "UNCERTAIN" \in trail'[c].told => Exists(c)'
      BY DEF TrailInv
    <3>2. Recovered' \in SUBSET (Existing') /\ Uncertain' \in SUBSET (Existing')
      BY <3>1 DEF Recovered, Uncertain, Existing
    <3>3. IsFiniteSet(Existing')
      BY DEF FewInv
    <3>4. /\ Cardinality(Existing') \in Nat /\ Cardinality(Recovered') \in Nat
          /\ Cardinality(Uncertain') \in Nat
      BY <3>2, <3>3, FS_Subset, FS_CardinalityType
    <3>5. QED
      BY <3>4
  <2>6. /\ Cardinality(Existing) <= Cardinality(Existing)'
        /\ Cardinality(Recovered) <= Cardinality(Recovered)'
        /\ Cardinality(Uncertain) <= Cardinality(Uncertain)'
    BY FiguresGrow
  <2> HIDE DEF counts
  <2>7. page.kind = "metrics" =>
          counts(Cardinality(Existing)', Cardinality(Recovered)', Cardinality(Uncertain)')
    BY <2>2, <2>3, <2>4, <2>5, <2>6
  <2>8. QED
    BY <2>7 DEF counts, FiguresInv
<1>3. QED
  BY <1>0, <1>1, <1>2 DEF PageInv

\* A page that opens has read nothing, and its case exists.
LEMMA PageOpens ==
  ASSUME NEW kind \in PageKinds, NEW c \in Cases, kind \notin {"none", "metrics"} => Exists(c)',
         page' = [NoPage EXCEPT !.kind = kind, !.case = c] \/ page' = NoPage
  PROVE  PageInv'
<1>1. NoPage \in Page /\ NoPage.read = 0 /\ NoPage.kind = "none"
  <2>1. (CHOOSE d \in Cases : TRUE) \in Cases
    BY PipelineAssumption
  <2>2. QED
    BY <2>1 DEF NoPage, Page, PageKinds
<1>2. CASE page' = NoPage
  BY <1>1, <1>2 DEF PageInv
<1>3. CASE page' = [NoPage EXCEPT !.kind = kind, !.case = c]
  <2>1. page' \in Page /\ page'.read = 0 /\ page'.kind = kind /\ page'.case = c
    BY <1>1, <1>3 DEF Page
  <2>2. kind # "none" => Len(Reads(kind)) \in Nat
    BY ReadsAre DEF PageKinds
  <2>3. CasePageInv' <=> Exists(c)'
    BY <2>1 DEF CasePageInv, Exists
  <2>4. FiguresInv'
    BY <2>1 DEF FiguresInv
  <2>5. 0 \in 0 .. 0 /\ \A n \in Nat : 0 \in 0 .. n
    OBVIOUS
  <2>6. QED
    BY <2>1, <2>2, <2>3, <2>4, <2>5 DEF PageInv
<1>4. QED
  BY <1>2, <1>3

\* One more SELECT of a page.
LEMMA PageReads ==
  ASSUME DashGround, TrailInv, FewInv, PageInv, ReadNext
  PROVE  PageInv'
<1> DEFINE n == page.read
           k == page.kind
           what == Reads(k)[n + 1]
           c == page.case
<1>0. /\ page \in Page /\ c \in Cases /\ n \in Nat /\ rows \in [Cases -> Row]
      /\ trail \in [Cases -> Trail] /\ k \in {"detail", "trace", "list", "metrics"}
      /\ n \in 0 .. Len(Reads(k)) /\ n # Len(Reads(k))
      /\ UNCHANGED <<rows, log, actions, trail>>
  BY DEF PageInv, Page, PageKinds, TrailInv, DashGround, TypesInductive, PipelineTypeOK,
     StoreTypeOK, ReadNext, Shown, vars
<1>1. n \in {0, 1, 2, 3} /\ n + 1 \in 0 .. Len(Reads(k))
  <2>1. Len(Reads(k)) \in {2, 3, 4}
    BY <1>0, ReadsAre
  <2>2. \A l \in {2, 3, 4} : \A i \in 0 .. l : i # l => i \in {0, 1, 2, 3} /\ i + 1 \in 0 .. l
    OBVIOUS
  <2>3. QED
    BY <1>0, <2>1, <2>2
<1>2. CASE k = "metrics"
  <2>1. /\ n = 0 => what = "total"
        /\ n = 1 => what = "recovered"
        /\ n = 2 => what = "executed"
        /\ n = 3 => what = "shares"
    BY <1>2, ReadsAre
  <2>2. /\ Cardinality(Existing) \in Nat /\ Cardinality(Recovered) \in Nat
        /\ Cardinality(ActionRows) \in Nat /\ Cardinality(Uncertain) \in Nat
        /\ Cardinality(Recovered) <= Cardinality(ActionRows) + Cardinality(Uncertain)
    BY Figures
  <2>3. what \in {"total", "recovered", "executed", "shares"}
    BY <1>1, <2>1
  <2>4. /\ page' \in Page /\ page'.kind = "metrics" /\ page'.read = n + 1
        /\ page'.total = (IF what = "total" THEN Cardinality(Existing) ELSE page.total)
        /\ page'.recovered = (IF what = "recovered" THEN Cardinality(Recovered)
                              ELSE page.recovered)
        /\ page'.executed = (IF what = "executed" THEN Cardinality(ActionRows)
                             ELSE page.executed)
        /\ what = "shares" => /\ page'.shares[1] = Cardinality(Existing)
                              /\ page'.shares[2] = Cardinality(Recovered)
    BY <1>0, <1>2, <2>2, <2>3, FigureRead
  <2>5. FiguresInv /\ page.total \in Nat /\ page.recovered \in Nat /\ page.executed \in Nat
    BY <1>0, <1>2 DEF PageInv, Page
  <2>6. /\ Cardinality(Existing)' = Cardinality(Existing)
        /\ Cardinality(Recovered)' = Cardinality(Recovered)
        /\ Cardinality(Uncertain)' = Cardinality(Uncertain)
    <3>1. Existing' = Existing /\ Recovered' = Recovered /\ Uncertain' = Uncertain
      BY <1>0 DEF Existing, Exists, Recovered, Uncertain
    <3>2. QED
      BY <3>1
  <2> HIDE DEF what
  <2>7. /\ page'.read >= 1 => page'.total <= Cardinality(Existing)
        /\ page'.read >= 2 => page'.recovered <= Cardinality(Recovered)
        /\ page'.read >= 3 => page'.recovered <= page'.executed + Cardinality(Uncertain)
        /\ page'.read >= 4 =>
             page'.total <= page'.shares[1] /\ page'.recovered <= page'.shares[2]
    <3>1. CASE n = 0
      BY <2>1, <2>2, <2>4, <3>1
    <3>2. CASE n = 1
      BY <2>1, <2>2, <2>4, <2>5, <3>2 DEF FiguresInv
    <3>3. CASE n = 2
      BY <2>1, <2>2, <2>4, <2>5, <3>3 DEF FiguresInv
    <3>4. CASE n = 3
      BY <2>1, <2>2, <2>4, <2>5, <3>4 DEF FiguresInv
    <3>5. QED
      BY <1>1, <3>1, <3>2, <3>3, <3>4
  <2>8. QED
    BY <1>1, <1>2, <2>4, <2>6, <2>7 DEF PageInv, FiguresInv
<1>3. CASE k # "metrics"
  <2>1. /\ n = 0 => what = "row"
        /\ n = 1 => what = IF k = "list" THEN "diagnosis" ELSE "events"
        /\ n = 2 => what = IF k = "list" THEN "verdict" ELSE "action"
        /\ n = 3 => what = "action" /\ k = "list"
    <3>1. CASE k = "detail"
      <4>1. n \in {0, 1, 2}
        BY <1>0, <1>1, <3>1, ReadsAre
      <4>2. /\ Reads("detail")[1] = "row" /\ Reads("detail")[2] = "events"
            /\ Reads("detail")[3] = "action"
        BY ReadsAre
      <4>3. QED
        BY <3>1, <4>1, <4>2
    <3>2. CASE k = "trace"
      <4>1. n \in {0, 1}
        BY <1>0, <1>1, <3>2, ReadsAre
      <4>2. Reads("trace")[1] = "row" /\ Reads("trace")[2] = "events"
        BY ReadsAre
      <4>3. QED
        BY <3>2, <4>1, <4>2
    <3>3. CASE k = "list"
      BY <3>3, ReadsAre
    <3>4. QED
      BY <1>0, <1>3, <3>1, <3>2, <3>3
  <2>2. what \in {"row", "events", "diagnosis", "verdict", "action"}
    BY <1>1, <2>1
  <2>3. /\ page' \in Page /\ page'.kind = k /\ page'.case = c /\ page'.read = n + 1
        /\ what = "row" =>
             /\ page'.state = rows[c].state
             /\ page'.waiting <=> (rows[c].state = "QUARANTINED" /\ log[c].uncertain # 0)
        /\ what # "row" => page'.state = page.state /\ page'.waiting = page.waiting
        /\ page'.told = (CASE what = "events" -> trail[c].told
                           [] what = "diagnosis" -> trail[c].told \cap {"DIAGNOSIS"}
                           [] OTHER -> page.told)
        /\ page'.verdict = (IF what = "verdict" THEN trail[c].verdict ELSE page.verdict)
        /\ page'.acted <=> (IF what = "action" THEN Acted(c) ELSE page.acted)
    BY <1>0, <1>3, <2>2, CaseRead DEF PageKinds
  <2>4. CasePageInv /\ Exists(c) /\ CaseKnown(c)
    BY <1>0, <1>3 DEF PageInv, TrailInv, CasePageInv
  <2> HIDE DEF what
  <2>5. page.read >= 1 => RowExplained
    BY <2>4 DEF CasePageInv
  <2>6. RowExplained'
    <3>1. CASE n = 0
      <4>1. /\ page'.state = rows[c].state /\ page'.state # "ABSENT"
            /\ page'.waiting => page'.state = "QUARANTINED" /\ log[c].uncertain # 0
        BY <2>1, <2>3, <2>4, <3>1 DEF Exists
      <4>2. QED
        BY <1>0, <2>3, <2>4, <4>1 DEF RowExplained, CaseKnown, CaseKnows, Acted
    <3>2. CASE n # 0
      <4>1. n >= 1 /\ what # "row"
        BY <1>1, <2>1, <3>2
      <4>2. QED
        BY <1>0, <2>3, <2>5, <4>1 DEF RowExplained, Acted
    <3>3. QED
      BY <3>1, <3>2
  <2>7. ASSUME k \in {"detail", "trace"}, n >= 1
        PROVE  TimelineExplains' /\ (page'.waiting => "UNCERTAIN" \in page'.told)
    <3>1. page'.state = page.state /\ page'.waiting = page.waiting /\ RowExplained
      BY <1>0, <1>1, <2>1, <2>3, <2>5, <2>7
    <3>2. CASE n = 1
      <4>1. page'.told = trail[c].told
        BY <2>1, <2>3, <2>7, <3>2
      <4>2. QED
        BY <3>1, <4>1 DEF RowExplained, Explains, TimelineExplains
    <3>3. CASE n # 1
      <4>1. page'.told = page.told
        BY <1>1, <2>1, <2>3, <2>7, <3>3
      <4>2. TimelineExplains /\ (page.waiting => "UNCERTAIN" \in page.told)
        BY <1>1, <2>4, <2>7, <3>3 DEF CasePageInv
      <4>3. QED
        BY <3>1, <4>1, <4>2 DEF TimelineExplains
    <3>4. QED
      BY <3>2, <3>3
  <2>8. ASSUME k = "list", n >= 1
        PROVE  /\ page'.state # "DETECTED" => "DIAGNOSIS" \in page'.told
               /\ n >= 2 => (page'.state \notin {"DETECTED", "DIAGNOSED"} =>
                              page'.verdict # "NONE")
               /\ n >= 3 => ListExplains'
    <3>1. page'.state = page.state /\ RowExplained
      BY <1>0, <1>1, <2>1, <2>3, <2>5, <2>8
    <3>2. page.state # "ABSENT" /\ Explains(page.state, trail[c], Acted(c))
      BY <3>1 DEF RowExplained
    <3>3. page'.state # "DETECTED" => "DIAGNOSIS" \in page'.told
      <4>1. CASE n = 1
        BY <2>1, <2>3, <2>8, <3>1, <3>2, <4>1 DEF Explains
      <4>2. CASE n # 1
        BY <1>1, <2>1, <2>3, <2>4, <2>8, <3>1, <4>2 DEF CasePageInv
      <4>3. QED
        BY <4>1, <4>2
    <3>4. n >= 2 => (page'.state \notin {"DETECTED", "DIAGNOSED"} => page'.verdict # "NONE")
      <4>1. CASE n = 2
        BY <2>1, <2>3, <2>8, <3>1, <3>2, <4>1 DEF Explains
      <4>2. CASE n = 3
        BY <2>1, <2>3, <2>4, <2>8, <3>1, <4>2 DEF CasePageInv
      <4>3. QED
        BY <1>1, <2>8, <4>1, <4>2
    <3>5. n >= 3 => ListExplains'
      <4>1. SUFFICES ASSUME n = 3
                     PROVE  ListExplains'
        BY <1>1
      <4>2. page'.acted <=> Acted(c)
        BY <2>1, <2>3, <4>1
      <4>3. page'.state \in {"RECOVERED", "FAILED_ATTEMPT"} =>
              page'.acted \/ "UNCERTAIN" \in trail[c].told
        BY <3>1, <3>2, <4>2 DEF Explains
      <4>4. QED
        BY <1>0, <2>3, <3>3, <3>4, <4>1, <4>3 DEF ListExplains
    <3>6. QED
      BY <3>3, <3>4, <3>5
  <2>9. CasePageInv'
    <3>1. rows'[page'.case].state # "ABSENT"
      BY <1>0, <2>3, <2>4 DEF Exists
    <3>2. /\ n + 1 >= 2 <=> n >= 1
          /\ n + 1 >= 3 <=> n >= 2
          /\ n + 1 >= 4 <=> n >= 3
      BY <1>0
    <3>3. n >= 3 => n >= 2
      BY <1>0
    <3>4. n >= 2 => n >= 1
      BY <1>0
    <3>5. QED
      BY <2>3, <2>6, <2>7, <2>8, <3>1, <3>2, <3>3, <3>4 DEF CasePageInv, Exists
  <2>10. QED
    BY <1>0, <1>1, <1>3, <2>3, <2>9 DEF PageInv
<1>4. QED
  BY <1>2, <1>3

LEMMA PageStep ==
  ASSUME DashGround, DashGround', TrailInv, TrailInv', FewInv, FewInv', Lasts, PageInv,
         \A c \in Cases : Tells(trail[c], trail'[c]), [DashNext]_dashVars
  PROVE  PageInv'
<1>1. CASE page' = page
  BY <1>1, PageKept
<1>2. CASE Close
  <2>1. PICK c \in Cases : TRUE
    BY PipelineAssumption
  <2>2. page' = NoPage /\ "none" \in PageKinds
    BY <1>2 DEF Close, PageKinds
  <2>3. QED
    BY <2>1, <2>2, PageOpens
<1>3. CASE \E kind \in PageKinds \ {"none"}, c \in Cases : Open(kind, c)
  <2>1. PICK kind \in PageKinds \ {"none"}, c \in Cases : Open(kind, c)
    BY <1>3
  <2>2. kind \notin {"none", "metrics"} => Exists(c)'
    BY <2>1 DEF Open, Exists, vars
  <2>3. page' = [NoPage EXCEPT !.kind = kind, !.case = c]
    BY <2>1 DEF Open
  <2>4. QED
    BY <2>2, <2>3, PageOpens
<1>4. CASE Reply
  <2>1. /\ demo.case \in Cases /\ Exists(demo.case) /\ rows' = rows
        /\ page' = [NoPage EXCEPT !.kind = "detail", !.case = demo.case]
    BY <1>4 DEF Reply, Finished, DashGround, DemoInv, Demo, Busy, vars
  <2>2. Exists(demo.case) /\ rows' = rows => rows'[demo.case].state # "ABSENT"
    BY DEF Exists
  <2>3. "detail" \in PageKinds
    BY DEF PageKinds
  <2>4. \A c \in Cases : rows'[c].state # "ABSENT" => Exists(c)'
    BY DEF Exists
  <2>5. PICK c \in Cases : /\ page' = [NoPage EXCEPT !.kind = "detail", !.case = c]
                           /\ rows'[c].state # "ABSENT"
    BY <2>1, <2>2
  <2>6. QED
    BY <2>3, <2>4, <2>5, PageOpens
<1>5. CASE ReadNext
  BY <1>5, PageReads
<1>6. QED
  BY <1>1, <1>2, <1>3, <1>4, <1>5
     DEF DashNext, StartDemo, Forge, DemoProcess, Redeliver, RedeliverNothing, Redelivered,
         DemoStep, OtherStart, OtherStep, OtherDies, ServerDies, dashVars

\* The inductive invariant behind the pages.
PagesInv == DashGround /\ TrailInv /\ FewInv /\ PageInv

LEMMA PagesInvariant == DashSpec => []PagesInv
<1>1. ASSUME DashInit
      PROVE  PagesInv
  <2>1. DashGround /\ TrailInv
    BY <1>1, DashGroundInit, TrailInit
  <2>2. FewInv
    <3>1. PipelineInit
      BY <1>1 DEF DashInit
    <3>2. Existing = {} /\ \A c \in Cases : actions[c] = {}
      BY <3>1 DEF PipelineInit, StoreInit, NoRow, Existing, Exists
    <3>3. QED
      BY <3>2, FS_EmptySet DEF FewInv
  <2>3. PageInv
    <3>1. (CHOOSE c \in Cases : TRUE) \in Cases
      BY PipelineAssumption
    <3>2. NoPage \in Page /\ NoPage.kind = "none"
      BY <3>1 DEF NoPage, Page, PageKinds
    <3>3. QED
      BY <1>1, <3>2 DEF DashInit, PageInv
  <2>4. QED
    BY <2>1, <2>2, <2>3 DEF PagesInv
<1>2. ASSUME PagesInv, [DashNext]_dashVars
      PROVE  PagesInv'
  <2>1. DashGround /\ DashGround' /\ Lasts
    BY <1>2, DashGroundStep, LastsStep DEF PagesInv
  <2>2. TrailInv' /\ \A c \in Cases : Tells(trail[c], trail'[c])
    BY <1>2, <2>1, TrailStep DEF PagesInv
  <2>3. FewInv'
    BY <1>2, <2>1, FewStep DEF PagesInv
  <2>4. PageInv'
    BY <1>2, <2>1, <2>2, <2>3, PageStep DEF PagesInv
  <2>5. QED
    BY <2>1, <2>2, <2>3, <2>4 DEF PagesInv
<1>3. QED
  BY <1>1, <1>2, PTL DEF DashSpec

\* A page that is shown is explained by what is on it: the state of a case by its events,
\* on the list by its diagnosis, its last verdict and its action, and the figures of the
\* metrics page by each other.  This is so although a page is put together from
\* different moments, and any number of processes write meanwhile, whose calls may
\* overlap on its case, die between statements, or start from any state.
THEOREM PagesExplainThemselves == DashSpec => []PagesAreCoherent
<1>1. ASSUME PagesInv, Shown
      PROVE  CASE page.kind = "metrics" -> FiguresAreBacked
               [] page.kind = "list"    -> ListExplains
               [] OTHER                 -> TimelineExplains
  <2>1. /\ page.kind \in {"detail", "trace", "list", "metrics"}
        /\ page.read = Len(Reads(page.kind))
    BY <1>1 DEF PagesInv, PageInv, Page, PageKinds, Shown
  <2>2. CASE page.kind = "metrics"
    BY <1>1, <2>1, <2>2, ReadsAre
       DEF PagesInv, PageInv, FiguresInv, FiguresAreBacked, Uncertain
  <2>3. CASE page.kind = "list"
    BY <1>1, <2>1, <2>3, ReadsAre DEF PagesInv, PageInv, CasePageInv
  <2>4. CASE page.kind \in {"detail", "trace"}
    <3>1. page.read >= 2
      BY <2>1, <2>4, ReadsAre
    <3>2. QED
      BY <1>1, <2>4, <3>1 DEF PagesInv, PageInv, CasePageInv
  <2>5. QED
    BY <2>1, <2>2, <2>3, <2>4
<1>2. PagesInv => PagesAreCoherent
  BY <1>1 DEF PagesAreCoherent
<1>3. QED
  BY <1>2, PagesInvariant, PTL

\* The detail page of a case that was waiting for reconcile() when its row was read calls
\* it uncertain, and never sends the reader to a human review, whatever others write.
THEOREM UncertainCasesShow == DashSpec => []UncertainIsShown
<1>1. ASSUME PagesInv, Shown, page.kind = "detail", page.waiting
      PROVE  OutcomeStatus(page.state, page.told) = "UNCERTAIN"
  <2>1. page.read = 3
    BY <1>1, ReadsAre DEF Shown
  <2>2. CasePageInv
    BY <1>1 DEF PagesInv, PageInv
  <2>3. page.state = "QUARANTINED" /\ "UNCERTAIN" \in page.told
    BY <1>1, <2>1, <2>2 DEF CasePageInv, RowExplained
  <2>4. QED
    BY <2>3 DEF OutcomeStatus
<1>2. PagesInv => UncertainIsShown
  BY <1>1 DEF UncertainIsShown
<1>3. QED
  BY <1>2, PagesInvariant, PTL

----------------------------------------------------------------------------
(* The scenarios *)

Blocked(name) == name \in {"unsafe_ai_blocked", "invalid_ai_output"}

\* A call of process_case() in the scenario `name' is over: the case is where the trace t
\* says, what ran is on record, and a blocked scenario was denied.
Ended(name, t, state, keys, told) ==
  /\ t.decision \in Decisions
  /\ Blocked(name) => t.decision = "DENY"
  /\ t.decision = "DENY" => state = "ABANDONED"
  /\ t.outcome = "SUCCEEDED" => state = "RECOVERED"
  /\ t.outcome = "UNCERTAIN" => "UNCERTAIN" \in told
  /\ t.outcome \in {"SUCCEEDED", "FAILED"} => t.attempts + 1 \in keys

\* It has not decided yet, and will decide as a blocked scenario has to.
Undecided(name, l, j, t) ==
  /\ t.decision = "NONE" /\ t.outcome = "NONE"
  /\ name = "invalid_ai_output" => j.proposal.action = "STOP"
  /\ l = "decide" => /\ j.seen.cohort = "TREATED"
                     /\ name = "unsafe_ai_blocked" => j.seen.attempts >= ForgedAttempts

\* Its verdict allows the attempt that it makes.
Attempting(name, l, j, t, keys) ==
  /\ t.decision = "ALLOW" /\ t.attempts = j.seen.attempts /\ ~Blocked(name)
  /\ t.outcome = "NONE"
  /\ l = "insert" => j.outcome \in {"SUCCEEDED", "FAILED"}
  /\ l = "report" /\ j.outcome \in {"SUCCEEDED", "FAILED"} => t.attempts + 1 \in keys

\* It writes the state that its verdict asks for, or what came of the attempt.
Closing(name, j, t) ==
  /\ t.decision \in {"DENY", "REVIEW"} /\ t.outcome = "NONE"
  /\ Blocked(name) => t.decision = "DENY"
  /\ t.decision = "DENY" => j.target = "ABANDONED"

Settling(name, j, t, keys, told) ==
  /\ t.decision = "ALLOW" /\ ~Blocked(name)
  /\ t.outcome = "SUCCEEDED" => j.target = "RECOVERED"
  /\ t.outcome = "UNCERTAIN" => "UNCERTAIN" \in told
  /\ t.outcome \in {"SUCCEEDED", "FAILED"} => t.attempts + 1 \in keys

\* It is at l with the locals j.
Underway(name, l, j, t, state, keys, told) ==
  /\ l \in {"guard", "view", "decide", "select", "update", "log", "execute", "lookup",
            "insert", "report"}
  /\ l \in {"guard", "view", "decide"} => Undecided(name, l, j, t)
  /\ l \in {"execute", "lookup", "insert", "report"} => Attempting(name, l, j, t, keys)
  /\ l \in {"select", "update", "log"} =>
       /\ j.phase \in {"diagnose", "close", "schedule", "launch", "settle"}
       /\ j.phase = "diagnose" => Undecided(name, l, j, t)
       /\ j.phase \in {"schedule", "launch"} => Attempting(name, l, j, t, keys)
       /\ j.phase = "close" => Closing(name, j, t)
       /\ j.phase = "settle" => Settling(name, j, t, keys, told)
  /\ l = "log" => /\ j.phase # "launch"
                  /\ j.target \in {"ABANDONED", "RECOVERED"} => state = j.target

Scene(name, l, j, t, state, keys, told) ==
  \/ l = "idle" /\ Ended(name, t, state, keys, told)
  \/ Underway(name, l, j, t, state, keys, told)

\* The case of a scenario is treated, and has the attempts that were made up; and the
\* scenario is before its call, in it, or hands its verdict over again.
BeforeCall ==
  /\ pc[Server] \in {"idle", "announce"}
  /\ demo.trace.decision = "NONE" /\ demo.trace.outcome = "NONE"

InCall == Scene(demo.name, pc[Server], job[Server], demo.trace, rows[demo.case].state,
                ExecutedKeys(demo.case), trail[demo.case].told)

AgainInCall ==
  /\ demo.name = "duplicate_event" /\ demo.trace.decision = "ALLOW"
  /\ job[Server].seen.attempts = demo.trace.attempts
  /\ Ended(demo.name, demo.trace, rows[demo.case].state, ExecutedKeys(demo.case),
           trail[demo.case].told)

SceneInv ==
  Busy =>
    /\ rows[demo.case].cohort = "TREATED"
    /\ demo.name = "unsafe_ai_blocked" /\ demo.step # "ingest" =>
         rows[demo.case].attempts >= ForgedAttempts
    /\ demo.step = "again" => demo.name = "duplicate_event"
    /\ demo.step \in {"ingest", "process"} => BeforeCall
    /\ demo.step \in {"again", "reply"} /\ demo.answer # "RUNNING" => InCall
    /\ demo.answer = "RUNNING" => AgainInCall

\* What else other writers do takes nothing of that back.
LEMMA SceneLasts ==
  ASSUME NEW name, NEW l, NEW j, NEW t, NEW state, NEW keys, NEW told,
         NEW state1, NEW keys1, NEW told1,
         keys \subseteq keys1, told \subseteq told1,
         state \in {"ABANDONED", "RECOVERED"} => state1 = state
  PROVE  /\ Ended(name, t, state, keys, told) => Ended(name, t, state1, keys1, told1)
         /\ Scene(name, l, j, t, state, keys, told) =>
              Scene(name, l, j, t, state1, keys1, told1)
<1>1. Ended(name, t, state, keys, told) => Ended(name, t, state1, keys1, told1)
  BY DEF Ended
<1>2. /\ Attempting(name, l, j, t, keys) => Attempting(name, l, j, t, keys1)
      /\ Settling(name, j, t, keys, told) => Settling(name, j, t, keys1, told1)
  BY DEF Attempting, Settling
<1>3. Underway(name, l, j, t, state, keys, told) =>
        Underway(name, l, j, t, state1, keys1, told1)
  BY <1>2 DEF Underway
<1>4. QED
  BY <1>1, <1>3 DEF Scene

\* A call keeps the proposal it was given.
LEMMA ProposalStays ==
  ASSUME PipelineTypeOK, NEW w \in Writers
  PROVE  /\ \A ph, to : Move(w, ph, to) => job'[w].proposal = job[w].proposal
         /\ \A s : Saw(w, s) => job'[w].proposal = job[w].proposal
<1>1. job \in [Writers -> Job]
  BY DEF PipelineTypeOK
<1>2. \A ph, to, s, o : JobWith(w, ph, to, s, o).proposal = job[w].proposal
  BY DEF JobWith
<1>3. ASSUME NEW ph, NEW to, Move(w, ph, to)
      PROVE  job'[w] = JobWith(w, ph, to, job[w].seen, job[w].outcome)
  BY <1>1, <1>3 DEF Move
<1>4. ASSUME NEW s, Saw(w, s)
      PROVE  job'[w] = JobWith(w, job[w].phase, job[w].target, s, job[w].outcome)
  BY <1>1, <1>4 DEF Saw
<1>5. QED
  BY <1>2, <1>3, <1>4

\* A scenario notes its verdict, and the attempt that it is for, and later the outcome.
LEMMA NotedFields ==
  ASSUME demo \in Demo
  PROVE  /\ pc[Server] = "decide" =>
              /\ Noted.decision = Decide(Server)
              /\ Noted.attempts = job[Server].seen.attempts
              /\ Noted.outcome = demo.trace.outcome
         /\ pc[Server] = "report" =>
              /\ Noted.decision = demo.trace.decision
              /\ Noted.attempts = demo.trace.attempts
              /\ Noted.outcome = job[Server].outcome
         /\ pc[Server] \notin {"decide", "report"} => Noted = demo.trace
         /\ /\ [demo EXCEPT !.trace = Noted].trace = Noted
            /\ [demo EXCEPT !.trace = Noted].name = demo.name
            /\ [demo EXCEPT !.trace = Noted].case = demo.case
            /\ [demo EXCEPT !.trace = Noted].step = demo.step
            /\ [demo EXCEPT !.trace = Noted].answer = demo.answer
<1>1. demo.trace \in [decision : Decisions \cup {"NONE"}, attempts : Nat, outcome : Outcomes]
  BY DEF Demo
<1>2. CASE pc[Server] = "decide"
  BY <1>1, <1>2 DEF Noted, Demo
<1>3. CASE pc[Server] = "report"
  BY <1>1, <1>3 DEF Noted, Demo
<1>4. CASE pc[Server] \notin {"decide", "report"}
  BY <1>4 DEF Noted, Demo
<1>5. QED
  BY <1>2, <1>3, <1>4

\* The caps of rules.yaml are within the attempts that a scenario makes up.
CapsWithinForged == \A m \in Methods : CapByMethod[m] <= ForgedAttempts

\* The verdict of a scenario: a blocked one is denied, by the cap or by its proposal to
\* stop, and what is denied of a treated case is given up.
LEMMA SceneVerdict ==
  ASSUME CapsWithinForged, TypesInductive, NEW name, pc[Server] = "decide",
         NEW t, Undecided(name, "decide", job[Server], t)
  PROVE  /\ Decide(Server) \in Decisions
         /\ Blocked(name) => Decide(Server) = "DENY"
         /\ Decide(Server) = "DENY" => Landing(Server) = "ABANDONED"
<1> DEFINE p == job[Server].proposal
           v == CaseView(Server)
           h == job[Server].halted
<1>1. /\ job[Server].case \in Cases /\ job[Server].seen.attempts \in Nat
      /\ MethodOf[job[Server].case] \in Methods /\ Server \in Writers
  BY DashboardAssumption, LocalTypes, PipelineAssumption DEF TypesInductive, View
<1>2. /\ v.attempts = job[Server].seen.attempts /\ v.cohort = job[Server].seen.cohort
      /\ v.method = MethodOf[job[Server].case]
  BY DEF CaseView
<1>3. GateOrder[6] = "ATTEMPT_CAP" /\ GateOrder[8] = "STOP_PROPOSED"
  BY DEF GateOrder
<1>4. Decide(Server) = DecisionOf(p, v, h)
  BY DEF Decide
<1>5. v.cohort = "TREATED" => DecidingGate(p, v, h) # "HOLDOUT_GUARD"
  BY TreatedIsNotHeldOut
<1> HIDE DEF p, v, h
<1>6. CASE name = "unsafe_ai_blocked"
  <2>1. CapReached(v)
    <3>1. CapByMethod[v.method] <= ForgedAttempts /\ CapByMethod[v.method] \in Nat
      BY <1>1, <1>2, PolicyAssumption DEF CapsWithinForged
    <3>2. v.attempts >= ForgedAttempts /\ v.attempts \in Nat
      BY <1>1, <1>2, <1>6 DEF Undecided
    <3>3. QED
      BY <3>1, <3>2 DEF CapReached, ForgedAttempts
  <2>2. Fires(GateOrder[6], p, v, h)
    BY <1>3, <2>1 DEF Fires
  <2>3. QED
    BY <1>4, <2>2, BlockedIsDenied, <1>5, <1>2 DEF Undecided, Landing, Decisions, p, v, h
<1>7. CASE name = "invalid_ai_output"
  <2>1. Fires(GateOrder[8], p, v, h)
    BY <1>3, <1>7 DEF Fires, Undecided, p
  <2>2. QED
    BY <1>4, <2>1, BlockedIsDenied, <1>5, <1>2 DEF Undecided, Landing, Decisions, p, v, h
<1>8. CASE ~Blocked(name)
  BY <1>4, <1>5, <1>2, <1>8 DEF Undecided, Landing, Decisions, DecisionOf, p, v, h
<1>9. QED
  BY <1>6, <1>7, <1>8 DEF Blocked

\* Which statement a writer runs next.
LEMMA StepAt ==
  ASSUME NEW w, Step(w)
  PROVE  /\ pc[w] = "guard" => Guard(w)
         /\ pc[w] = "view" => ReadCase(w)
         /\ pc[w] = "decide" => Authorize(w)
         /\ pc[w] = "select" => Select(w) \/ Illegal(w)
         /\ pc[w] = "update" => Update(w) \/ Conflict(w)
         /\ pc[w] = "log" => LogTransition(w)
         /\ pc[w] = "execute" => ExecutorReads(w)
         /\ pc[w] = "lookup" => \/ Replay(w) \/ Refuse(w) \/ RefuseForNow(w) \/ TimeOut(w)
                                \/ \E ok \in BOOLEAN : Perform(w, ok)
         /\ pc[w] = "insert" => Record(w)
         /\ pc[w] = "report" => ReportOutcome(w)
<1>1. /\ Announce(w) => pc[w] = "announce"
      /\ Guard(w) => pc[w] = "guard"
      /\ ReadCase(w) => pc[w] = "view"
      /\ Authorize(w) => pc[w] = "decide"
      /\ Select(w) \/ Illegal(w) => pc[w] = "select"
      /\ Update(w) \/ Conflict(w) => pc[w] = "update"
      /\ LogTransition(w) => pc[w] = "log"
  BY DEF Announce, Guard, ReadCase, Authorize, Select, Illegal, Update, Conflict, LogTransition
<1>2. /\ ExecutorReads(w) => pc[w] = "execute"
      /\ Replay(w) \/ Refuse(w) \/ RefuseForNow(w) \/ TimeOut(w) => pc[w] = "lookup"
      /\ (\E ok \in BOOLEAN : Perform(w, ok)) => pc[w] = "lookup"
      /\ Record(w) => pc[w] = "insert"
      /\ ReportOutcome(w) => pc[w] = "report"
      /\ CheckQuarantined(w) => pc[w] = "find"
      /\ CheckUncertain(w) => pc[w] = "verify"
      /\ Resolve(w) => pc[w] = "resolve"
  BY DEF ExecutorReads, Replay, Refuse, RefuseForNow, TimeOut, Perform, Dispatchable, Record,
     ReportOutcome, CheckQuarantined, CheckUncertain, Resolve
<1>3. QED
  BY <1>1, <1>2 DEF Step

\* The call of the executor: what it answers, and what is on record then.
LEMMA PortAnswers ==
  ASSUME TypesInductive, NEW w \in Writers, Step(w), NEW c \in Cases, job[w].case = c
  PROVE  /\ pc[w] = "execute" =>
              pc'[w] = "lookup" /\ job'[w].seen.attempts = job[w].seen.attempts
         /\ pc[w] = "lookup" =>
              /\ pc'[w] \in {"insert", "report"} /\ job'[w].seen = job[w].seen
              /\ pc'[w] = "insert" => job'[w].outcome \in {"SUCCEEDED", "FAILED"}
              /\ pc'[w] = "report" /\ job'[w].outcome \in {"SUCCEEDED", "FAILED"} =>
                   AttemptOf(w) \in ExecutedKeys(c)
         /\ pc[w] = "insert" =>
              /\ pc'[w] = "report" /\ job' = job
              /\ AttemptOf(w) \in ExecutedKeys(c)'
<1>0. PipelineTypeOK
  BY DEF TypesInductive
<1>1. CASE pc[w] = "execute"
  <2> DEFINE s == [state |-> rows[job[w].case].state, cohort |-> job[w].seen.cohort,
                   attempts |-> job[w].seen.attempts]
  <2>1. Saw(w, s) /\ Goto(w, "lookup")
    BY <1>1, StepAt DEF ExecutorReads
  <2>2. s.attempts = job[w].seen.attempts
    OBVIOUS
  <2> HIDE DEF s
  <2>3. QED
    BY <1>0, <1>1, <2>1, <2>2, SawEffect, GotoEffect
<1>2. CASE pc[w] = "lookup"
  <2>1. \/ Replay(w) \/ Refuse(w) \/ RefuseForNow(w) \/ TimeOut(w)
        \/ \E ok \in BOOLEAN : Perform(w, ok)
    BY <1>2, StepAt
  <2>2. ASSUME NEW o, NEW l, Got(w, o), Goto(w, l)
        PROVE  pc'[w] = l /\ job'[w].seen = job[w].seen /\ job'[w].outcome = o
    BY <1>0, <2>2, GotEffect, GotoEffect
  <2>3. CASE Replay(w)
    <3>1. PICK a \in actions[c] : a.attempt = AttemptOf(w) /\ Got(w, Result(a.ok))
      BY <2>3 DEF Replay
    <3>2. Goto(w, "report") /\ AttemptOf(w) \in ExecutedKeys(c)
      BY <2>3 DEF Replay, Known
    <3>3. QED
      BY <1>2, <2>2, <3>1, <3>2
  <2>4. ASSUME NEW o \in {"REFUSED", "RETRYABLE", "UNCERTAIN"}, Got(w, o), Goto(w, "report")
        PROVE  /\ pc'[w] \in {"insert", "report"} /\ job'[w].seen = job[w].seen
               /\ pc'[w] = "report" /\ job'[w].outcome \notin {"SUCCEEDED", "FAILED"}
    BY <2>2, <2>4
  <2>5. CASE Refuse(w) \/ RefuseForNow(w) \/ TimeOut(w)
    BY <1>2, <2>4, <2>5 DEF Refuse, RefuseForNow, TimeOut
  <2>6. CASE \E ok \in BOOLEAN : Perform(w, ok)
    <3>1. PICK ok \in BOOLEAN : Got(w, Result(ok)) /\ Goto(w, "insert")
      BY <2>6 DEF Perform
    <3>2. Result(ok) \in {"SUCCEEDED", "FAILED"}
      BY DEF Result
    <3>3. QED
      BY <1>2, <2>2, <3>1, <3>2
  <2>7. QED
    BY <2>1, <2>3, <2>5, <2>6
<1>3. CASE pc[w] = "insert"
  <2>1. Record(w)
    BY <1>3, StepAt
  <2>2. pc'[w] = "report" /\ job' = job
    BY <1>0, <2>1, GotoEffect DEF Record
  <2>3. AttemptOf(w) \in ExecutedKeys(c)'
    <3> DEFINE done == [attempt |-> AttemptOf(w), ok |-> job[w].outcome = "SUCCEEDED"]
               kept == {a \in actions[c] : a.attempt # AttemptOf(w)}
    <3>1. actions' = [actions EXCEPT ![c] = kept \cup {done}] /\ done.attempt = AttemptOf(w)
      BY <2>1 DEF Record
    <3>2. done \in actions'[c]
      BY <1>0, <3>1 DEF PipelineTypeOK
    <3> HIDE DEF done
    <3>3. AttemptOf(w) \in {a.attempt : a \in actions'[c]}
      BY <3>1, <3>2
    <3>4. QED
      BY <3>3 DEF ExecutedKeys
  <2>4. QED
    BY <1>3, <2>2, <2>3
<1>4. QED
  BY <1>1, <1>2, <1>3

\* A statement of a scenario's call, which no other writer's call comes in between of,
\* brings the scene to its next one.
LEMMA SceneGoesOn ==
  ASSUME NEW c \in Cases, c = demo.case, CapsWithinForged, DashGround, TrailInv, Busy,
         Step(Server), ~Raises(Server), trail' = Traced(Server), Lasts, InCall,
         rows[c].cohort = "TREATED",
         demo.name = "unsafe_ai_blocked" => rows[c].attempts >= ForgedAttempts
  PROVE  Scene(demo.name, pc'[Server], job'[Server], Noted, rows'[c].state,
               ExecutedKeys(c)', trail'[c].told)
<1> DEFINE name == demo.name
           l == pc[Server]
           j == job[Server]
           t == demo.trace
           told == trail[c].told
           keys == ExecutedKeys(c)
           l1 == pc'[Server]
           j1 == job'[Server]
           state1 == rows'[c].state
           keys1 == ExecutedKeys(c)'
           told1 == trail'[c].told
<1>0. /\ TypesInductive /\ PipelineTypeOK /\ GroundInv /\ DemoInv /\ demo \in Demo
      /\ Server \in Writers /\ l # "idle" /\ j.case = c
      /\ rows \in [Cases -> Row]
  BY DashboardAssumption, StepIsOfCall
     DEF DashGround, TypesInductive, PipelineTypeOK, StoreTypeOK, DemoInv, Demo
<1>1. Underway(name, l, j, t, rows[c].state, keys, told)
  BY <1>0 DEF InCall, Scene
<1>2. keys \subseteq keys1 /\ told \subseteq told1
  <2>1. keys \subseteq keys1
    BY DEF Lasts
  <2>2. told \subseteq told1
    BY <1>0, TracedIs DEF Tells
  <2>3. QED
    BY <2>1, <2>2
<1>3. l \notin {"decide", "report"} => Noted = t
  BY <1>0, NotedFields
<1>4. /\ \A ph, to : Move(Server, ph, to) =>
              /\ l1 = "select" /\ j1.phase = ph /\ j1.target = to /\ j1.seen = j.seen
              /\ j1.outcome = j.outcome /\ j1.proposal = j.proposal
      /\ \A k : Goto(Server, k) => l1 = k
  BY <1>0, MoveEffect, ProposalStays, GotoEffect
<1>5. SUFFICES Scene(name, l1, j1, Noted, state1, keys1, told1)
  OBVIOUS
<1>6. Attempting(name, l, j, t, keys) => Attempting(name, "select", j, t, keys1)
  BY <1>2 DEF Attempting
<1> HIDE DEF name, l, j, t, told, keys, l1, j1, state1, keys1, told1
<1>7. CASE l = "guard"
  <2>1. Undecided(name, "select", j, t)
    BY <1>1, <1>7 DEF Underway, Undecided
  <2>2. \/ l1 = "view" /\ j1 = j
        \/ l1 = "select" /\ j1.phase = "diagnose" /\ j1.proposal = j.proposal
    <3>1. Guard(Server)
      BY <1>7, StepAt DEF l
    <3>2. (Goto(Server, "view") /\ UNCHANGED job) \/ Move(Server, "diagnose", "DIAGNOSED")
      BY <3>1 DEF Guard
    <3>3. QED
      BY <1>4, <3>2 DEF j, j1
  <2>3. QED
    BY <1>3, <1>7, <2>1, <2>2 DEF Scene, Underway, Undecided
<1>8. CASE l = "view"
  <2>1. Undecided(name, "view", j, t)
    BY <1>1, <1>8 DEF Underway
  <2>2. ReadCase(Server)
    BY <1>8, StepAt DEF l
  <2>3. Saw(Server, RowView(c)) /\ Goto(Server, "decide")
    BY <1>0, <2>2 DEF ReadCase, j
  <2>4. j1.seen = RowView(c) /\ j1.proposal = j.proposal /\ l1 = "decide"
    BY <1>0, <1>4, <2>3, SawEffect, ProposalStays DEF j, j1
  <2>5. RowView(c).cohort = rows[c].cohort /\ RowView(c).attempts = rows[c].attempts
    BY DEF RowView
  <2>6. /\ j1.seen.cohort = "TREATED"
        /\ name = "unsafe_ai_blocked" => j1.seen.attempts >= ForgedAttempts
    BY <2>4, <2>5 DEF name
  <2>7. QED
    BY <1>3, <1>8, <2>1, <2>4, <2>6 DEF Scene, Underway, Undecided
<1>9. CASE l = "decide"
  <2>1. Undecided(name, "decide", j, t)
    BY <1>1, <1>9 DEF Underway
  <2>2. Authorize(Server)
    BY <1>9, StepAt DEF l
  <2>3. /\ Decide(Server) \in Decisions
        /\ Blocked(name) => Decide(Server) = "DENY"
        /\ Decide(Server) = "DENY" => Landing(Server) = "ABANDONED"
    BY <1>0, <1>9, <2>1, SceneVerdict DEF l, j
  <2>4. /\ Noted.decision = Decide(Server) /\ Noted.attempts = j.seen.attempts
        /\ Noted.outcome = t.outcome
    BY <1>0, <1>9, NotedFields DEF l, j, t
  <2>5. CASE Decide(Server) = "ALLOW"
    <3>1. l1 = "select" /\ j1.phase = "schedule" /\ j1.seen = j.seen
      BY <1>4, <2>2, <2>5 DEF Authorize
    <3>2. Attempting(name, "select", j1, Noted, keys1)
      BY <2>1, <2>3, <2>4, <2>5, <3>1 DEF Attempting, Undecided
    <3>3. QED
      BY <3>1, <3>2 DEF Scene, Underway
  <2>6. CASE Decide(Server) # "ALLOW"
    <3>1. l1 = "select" /\ j1.phase = "close" /\ j1.target = Landing(Server)
      BY <1>4, <2>2, <2>6 DEF Authorize
    <3>2. Closing(name, j1, Noted)
      BY <2>1, <2>3, <2>4, <2>6, <3>1 DEF Closing, Undecided, Decisions
    <3>3. QED
      BY <3>1, <3>2 DEF Scene, Underway
  <2>7. QED
    BY <2>5, <2>6
<1>10. CASE l = "select"
  <2>1. Select(Server)
    BY <1>10, StepAt DEF l, Raises, Illegal
  <2>2. l1 = "update" /\ j1 = j
    BY <1>4, <2>1 DEF Select, j, j1
  <2>3. QED
    BY <1>1, <1>2, <1>3, <1>10, <2>2 DEF Scene, Underway, Undecided, Attempting, Settling
<1>11. CASE l = "update"
  <2>1. Update(Server)
    BY <1>11, StepAt DEF l, Raises, Conflict, LoseRace
  <2>2. PICK p \in pending : p.writer = Server /\ UpdateRow(p)
    BY <2>1 DEF Update
  <2>3. p.case = c /\ p.to = j.target
    BY <1>0, <2>2 DEF GroundInv, j
  <2>4. state1 = j.target
    <3>1. rows'[c] = Written(p)
      BY <1>0, <2>2, <2>3 DEF UpdateRow
    <3>2. QED
      BY <2>3, <3>1 DEF Written, state1
  <2>5. l1 = AfterUpdate(Server) /\ j1 = j
    BY <1>4, <2>1 DEF Update, j, j1
  <2>6. l1 = IF j.phase = "launch" THEN "execute" ELSE "log"
    <3>1. j.phase # "reconcile"
      BY <1>1, <1>11 DEF Underway
    <3>2. QED
      BY <2>5, <3>1 DEF AfterUpdate, j
  <2>7. QED
    BY <1>1, <1>2, <1>3, <1>11, <2>4, <2>5, <2>6
       DEF Scene, Underway, Undecided, Attempting, Settling
<1>12. CASE l = "log"
  <2>1. LogTransition(Server)
    BY <1>12, StepAt DEF l
  <2>2. /\ state1 = rows[c].state
        /\ \/ j.phase = "diagnose" /\ l1 = "view" /\ j1 = j
           \/ j.phase = "schedule" /\ l1 = "select" /\ j1.phase = "launch" /\ j1.seen = j.seen
           \/ j.phase \notin {"diagnose", "schedule"} /\ l1 = "idle"
    BY <1>4, <2>1 DEF LogTransition, Return, j, j1, state1
  <2>3. CASE j.phase = "diagnose"
    BY <1>1, <1>3, <1>12, <2>2, <2>3 DEF Scene, Underway, Undecided
  <2>4. CASE j.phase = "schedule"
    <3>1. Attempting(name, "select", j1, t, keys1)
      BY <1>1, <1>2, <1>12, <2>2, <2>4 DEF Underway, Attempting
    <3>2. QED
      BY <1>3, <1>12, <2>2, <2>4, <3>1 DEF Scene, Underway
  <2>5. CASE j.phase \in {"close", "settle"}
    <3>1. j.target \in {"ABANDONED", "RECOVERED"} => state1 = j.target
      BY <1>1, <1>12, <2>2 DEF Underway
    <3>2. Closing(name, j, t) \/ Settling(name, j, t, keys, told)
      BY <1>1, <1>12, <2>5 DEF Underway
    <3>3. Ended(name, t, state1, keys1, told1)
      BY <1>2, <3>1, <3>2 DEF Ended, Closing, Settling, Decisions
    <3>4. QED
      BY <1>3, <1>12, <2>2, <2>5, <3>3 DEF Scene
  <2>6. QED
    BY <1>1, <1>12, <2>3, <2>4, <2>5 DEF Underway
<1>13. CASE l \in {"execute", "lookup", "insert"}
  <2>1. Attempting(name, l, j, t, keys)
    BY <1>1, <1>13 DEF Underway
  <2>2. AttemptOf(Server) = t.attempts + 1
    BY <2>1 DEF Attempting, AttemptOf, j
  <2>3. /\ l1 \in {"lookup", "insert", "report"} /\ j1.seen.attempts = j.seen.attempts
        /\ l1 = "insert" => j1.outcome \in {"SUCCEEDED", "FAILED"}
        /\ l1 = "report" /\ j1.outcome \in {"SUCCEEDED", "FAILED"} =>
             t.attempts + 1 \in keys1
    BY <1>0, <1>2, <1>13, <2>2, PortAnswers DEF l, l1, j, j1, keys, keys1
  <2>4. Attempting(name, l1, j1, t, keys1)
    BY <2>1, <2>3 DEF Attempting
  <2>5. QED
    BY <1>3, <1>13, <2>3, <2>4 DEF Scene, Underway
<1>14. CASE l = "report"
  <2>1. Attempting(name, l, j, t, keys)
    BY <1>1, <1>14 DEF Underway
  <2>2. ReportOutcome(Server)
    BY <1>14, StepAt DEF l
  <2>3. l1 = "select" /\ j1.phase = "settle" /\ j1.target = Settled(j.outcome)
    BY <1>4, <2>2 DEF ReportOutcome, j
  <2>4. /\ Noted.decision = t.decision /\ Noted.attempts = t.attempts
        /\ Noted.outcome = j.outcome
    BY <1>0, <1>14, NotedFields DEF l, j, t
  <2>5. j.outcome = "UNCERTAIN" => "UNCERTAIN" \in told1
    <3>1. trail'[job[Server].case].told = trail[job[Server].case].told \cup Appended(Server)
      BY <1>0, TracedIs DEF l
    <3>2. j.outcome = "UNCERTAIN" => "UNCERTAIN" \in Appended(Server)
      BY <1>14 DEF Appended, l, j
    <3>3. QED
      BY <1>0, <3>1, <3>2 DEF j, told1
  <2>6. Settling(name, j1, Noted, keys1, told1)
    BY <1>2, <1>14, <2>1, <2>3, <2>4, <2>5 DEF Settling, Attempting, Settled
  <2>7. QED
    BY <2>3, <2>6 DEF Scene, Underway
<1>15. QED
  BY <1>1, <1>7, <1>8, <1>9, <1>10, <1>11, <1>12, <1>13, <1>14 DEF Underway

\* What others write takes nothing back of what a scenario has done.
LEMMA SceneKept ==
  ASSUME DashGround, DashGround', SceneInv, NEW c \in Cases, c = demo.case, Busy,
         Lasts, \A d \in Cases : Tells(trail[d], trail'[d]), ~Forge
  PROVE  /\ rows'[c].cohort = "TREATED"
         /\ demo.name = "unsafe_ai_blocked" /\ demo.step # "ingest" =>
              rows'[c].attempts >= ForgedAttempts
         /\ InCall => Scene(demo.name, pc[Server], job[Server], demo.trace,
                            rows'[c].state, ExecutedKeys(c)', trail'[c].told)
         /\ Ended(demo.name, demo.trace, rows[c].state, ExecutedKeys(c), trail[c].told) =>
              Ended(demo.name, demo.trace, rows'[c].state, ExecutedKeys(c)', trail'[c].told)
<1>1. Exists(c) /\ rows \in [Cases -> Row] /\ rows' \in [Cases -> Row]
  BY DEF DashGround, TypesInductive, PipelineTypeOK, StoreTypeOK, DemoInv
<1>2. /\ rows'[c].cohort = rows[c].cohort /\ rows[c].attempts <= rows'[c].attempts
      /\ rows[c].state \in TERMINAL_STATES => rows'[c].state = rows[c].state
      /\ ExecutedKeys(c) \subseteq ExecutedKeys(c)'
  BY <1>1 DEF Lasts
<1>3. /\ rows[c].cohort = "TREATED"
      /\ demo.name = "unsafe_ai_blocked" /\ demo.step # "ingest" =>
           rows[c].attempts >= ForgedAttempts
  BY DEF SceneInv
<1>4. rows[c].attempts \in Nat /\ rows'[c].attempts \in Nat
  BY <1>1 DEF Row
<1>5. rows[c].attempts >= ForgedAttempts => rows'[c].attempts >= ForgedAttempts
  BY <1>2, <1>4 DEF ForgedAttempts
<1>6. {"ABANDONED", "RECOVERED"} \subseteq TERMINAL_STATES
  BY DEF TERMINAL_STATES, States, VALID_TRANSITIONS
<1>7. trail[c].told \subseteq trail'[c].told
  BY DEF Tells
<1>8. rows[c].state \in {"ABANDONED", "RECOVERED"} => rows'[c].state = rows[c].state
  BY <1>2, <1>6
<1>9. InCall => Scene(demo.name, pc[Server], job[Server], demo.trace, rows[c].state,
                      ExecutedKeys(c), trail[c].told)
  BY DEF InCall
<1>10. \A name, l, j, t :
         /\ Scene(name, l, j, t, rows[c].state, ExecutedKeys(c), trail[c].told) =>
              Scene(name, l, j, t, rows'[c].state, ExecutedKeys(c)', trail'[c].told)
         /\ Ended(name, t, rows[c].state, ExecutedKeys(c), trail[c].told) =>
              Ended(name, t, rows'[c].state, ExecutedKeys(c)', trail'[c].told)
  <2> DEFINE state == rows[c].state
             keys == ExecutedKeys(c)
             told == trail[c].told
             state1 == rows'[c].state
             keys1 == ExecutedKeys(c)'
             told1 == trail'[c].told
  <2>1. /\ keys \subseteq keys1 /\ told \subseteq told1
        /\ state \in {"ABANDONED", "RECOVERED"} => state1 = state
    BY <1>2, <1>7, <1>8
  <2> HIDE DEF state, keys, told, state1, keys1, told1
  <2>2. \A name, l, j, t :
          /\ Scene(name, l, j, t, state, keys, told) =>
               Scene(name, l, j, t, state1, keys1, told1)
          /\ Ended(name, t, state, keys, told) => Ended(name, t, state1, keys1, told1)
    BY <2>1, SceneLasts, Zenon
  <2>3. QED
    BY <2>2 DEF state, keys, told, state1, keys1, told1
<1>11. QED
  BY <1>2, <1>3, <1>5, <1>9, <1>10

\* The scenes follow each other as they have to, whatever others do.
LEMMA SceneStep ==
  ASSUME CapsWithinForged, DashGround, DashGround', TrailInv, SceneInv, Lasts,
         [DashNext]_dashVars, \A d \in Cases : Tells(trail[d], trail'[d])
  PROVE  SceneInv'
<1>0. /\ TypesInductive /\ PipelineTypeOK /\ DemoInv /\ demo \in Demo /\ demo' \in Demo
      /\ Server \in Writers /\ pc \in [Writers -> Pcs] /\ job \in [Writers -> Job]
      /\ rows \in [Cases -> Row] /\ "RUNNING" \notin Outcomes /\ "NONE" \in Outcomes
  BY DashboardAssumption
     DEF DashGround, TypesInductive, PipelineTypeOK, StoreTypeOK, DemoInv, Outcomes
<1>1. /\ Busy' <=> demo'.step # "none"
      /\ BeforeCall' <=> /\ pc'[Server] \in {"idle", "announce"}
                         /\ demo'.trace.decision = "NONE" /\ demo'.trace.outcome = "NONE"
  BY DEF Busy, BeforeCall
<1>2. ASSUME NEW c \in Cases, demo'.case = c
      PROVE  /\ InCall' <=> Scene(demo'.name, pc'[Server], job'[Server], demo'.trace,
                                  rows'[c].state, ExecutedKeys(c)', trail'[c].told)
             /\ AgainInCall' <=>
                  /\ demo'.name = "duplicate_event" /\ demo'.trace.decision = "ALLOW"
                  /\ job'[Server].seen.attempts = demo'.trace.attempts
                  /\ Ended(demo'.name, demo'.trace, rows'[c].state, ExecutedKeys(c)',
                           trail'[c].told)
  BY <1>2 DEF InCall, AgainInCall, ExecutedKeys
<1>3. SceneInv' <=>
        (demo'.step # "none" =>
           /\ rows'[demo'.case].cohort = "TREATED"
           /\ demo'.name = "unsafe_ai_blocked" /\ demo'.step # "ingest" =>
                rows'[demo'.case].attempts >= ForgedAttempts
           /\ demo'.step = "again" => demo'.name = "duplicate_event"
           /\ demo'.step \in {"ingest", "process"} => BeforeCall'
           /\ demo'.step \in {"again", "reply"} /\ demo'.answer # "RUNNING" => InCall'
           /\ demo'.answer = "RUNNING" => AgainInCall')
  BY DEF SceneInv, Busy
<1>4. PICK c \in Cases : c = demo.case
  BY <1>0 DEF Demo
<1>5. ASSUME demo' = NoDemo
      PROVE  SceneInv'
  BY <1>3, <1>5, NoDemoIs
<1>6. ASSUME demo' = demo, pc'[Server] = pc[Server], job'[Server] = job[Server]
      PROVE  SceneInv'
  <2>1. ~Forge
    <3>1. Forge => /\ demo.step = "ingest"
                   /\ demo' = [demo EXCEPT !.step = "process", !.answer = "NONE"]
      BY DEF Forge, DemoAt
    <3>2. Forge => demo.step = "ingest" /\ demo'.step = "process"
      BY <1>0, <3>1 DEF Demo
    <3>3. QED
      BY <1>6, <3>2
  <2>2. CASE Busy
    <3>1. demo'.case = c
      BY <1>4, <1>6
    <3>2. /\ BeforeCall => BeforeCall'
          /\ InCall => InCall'
          /\ AgainInCall => AgainInCall'
      BY <1>1, <1>2, <1>4, <1>6, <2>1, <2>2, <3>1, SceneKept DEF BeforeCall, AgainInCall
    <3>3. QED
      BY <1>3, <1>4, <1>6, <2>1, <2>2, <3>2, SceneKept DEF SceneInv
  <2>3. CASE ~Busy
    BY <1>3, <1>6, <2>3 DEF Busy
  <2>4. QED
    BY <2>2, <2>3
<1>7. ASSUME NEW step, NEW answer, DemoAt(step, answer)
      PROVE  /\ demo'.step = step /\ demo'.answer = answer /\ demo'.name = demo.name
             /\ demo'.case = demo.case /\ demo'.trace = demo.trace
  BY <1>0, <1>7 DEF DemoAt, Demo
<1>8. CASE \E d \in Cases, s \in Scenarios : StartDemo(d, s)
  <2>1. PICK d \in Cases, s \in Scenarios : StartDemo(d, s)
    BY <1>8
  <2>2. /\ demo' = [NoDemo EXCEPT !.name = s, !.case = d, !.step = "ingest"]
        /\ Ingest(Server, d, "TREATED")
    BY <2>1 DEF StartDemo
  <2>3. /\ demo'.case = d /\ demo'.step = "ingest" /\ demo'.answer = NoDemo.answer
        /\ demo'.trace = NoDemo.trace
    BY <2>2, NoDemoIs DEF Demo
  <2>4. demo'.trace.decision = "NONE" /\ demo'.trace.outcome = "NONE"
    BY <2>3 DEF NoDemo, NoTrace
  <2>5. pc'[Server] = "announce" /\ rows'[d] = NewRow("TREATED")
    BY <1>0, <2>2, GotoEffect DEF Ingest, CreateCase
  <2>6. rows'[d].cohort = "TREATED"
    BY <2>5 DEF NewRow
  <2>7. QED
    BY <1>1, <1>3, <2>3, <2>4, <2>5, <2>6, NoDemoIs
<1>9. CASE Forge
  <2>1. /\ DemoAt("process", "NONE") /\ Busy /\ demo.step = "ingest" /\ pc[Server] = "idle"
    BY <1>9 DEF Forge, Busy
  <2>2. /\ rows'[c].cohort = rows[c].cohort /\ rows'[c].attempts = ForgedAttempts
        /\ pc' = pc
    BY <1>0, <1>4, <1>9, SceneEffects
  <2>3. rows[c].cohort = "TREATED" /\ BeforeCall
    BY <1>4, <2>1 DEF SceneInv
  <2>4. QED
    BY <1>1, <1>3, <1>4, <1>7, <2>1, <2>2, <2>3 DEF BeforeCall, ForgedAttempts
<1>10. CASE DemoProcess
  <2>1. PICK downtime, halted \in BOOLEAN :
          Begin(Server, demo.case, DemoProposal(demo.name, downtime), halted)
    BY <1>10 DEF DemoProcess
  <2> DEFINE p == DemoProposal(demo.name, downtime)
             j1 == job'[Server]
  <2>2. /\ j1 = NewJob(demo.case, halted, p, "NONE") /\ pc'[Server] = "guard"
        /\ rows' = rows
    BY <1>0, <2>1, GotoEffect DEF Begin
  <2>3. demo.name = "invalid_ai_output" => p.action = "STOP"
    BY DEF DemoProposal, D!Unknown, D!Proposal
  <2> HIDE DEF p
  <2>4. j1.proposal = p
    BY <2>2 DEF NewJob
  <2>5. /\ Busy /\ demo.step \in {"ingest", "process"}
        /\ demo.step = "ingest" => demo.name # "unsafe_ai_blocked"
        /\ DemoAt(IF demo.name = "duplicate_event" THEN "again" ELSE "reply", "NONE")
    BY <1>10 DEF DemoProcess, Busy
  <2>6. BeforeCall /\ rows[c].cohort = "TREATED"
        /\ (demo.name = "unsafe_ai_blocked" => rows[c].attempts >= ForgedAttempts)
    BY <1>4, <2>5 DEF SceneInv
  <2>7. Undecided(demo.name, "guard", j1, demo.trace)
    BY <2>3, <2>4, <2>6 DEF Undecided, BeforeCall
  <2> HIDE DEF j1
  <2>8. \A state, keys, told : Scene(demo.name, "guard", j1, demo.trace, state, keys, told)
    BY <2>7 DEF Scene, Underway
  <2>9. InCall'
    BY <1>2, <1>4, <1>7, <2>2, <2>5, <2>8 DEF j1
  <2>10. /\ demo'.step = IF demo.name = "duplicate_event" THEN "again" ELSE "reply"
         /\ demo'.answer = "NONE" /\ demo'.name = demo.name /\ demo'.case = c
    BY <1>4, <1>7, <2>5
  <2>11. QED
    BY <1>3, <2>2, <2>6, <2>9, <2>10
<1>11. CASE Redeliver
  <2>1. /\ Busy /\ demo.step = "again" /\ pc[Server] = "idle" /\ demo.trace.decision = "ALLOW"
        /\ DemoAt("reply", "RUNNING") /\ ~Forge /\ demo.answer # "RUNNING"
    BY <1>0, <1>11 DEF Redeliver, Again, Busy, Forge, DemoInv
  <2>2. demo.name = "duplicate_event" /\ InCall
    BY <1>4, <2>1 DEF SceneInv
  <2>3. Ended(demo.name, demo.trace, rows[c].state, ExecutedKeys(c), trail[c].told)
    BY <1>4, <2>1, <2>2 DEF InCall, Scene, Underway
  <2>4. job'[Server].seen.attempts = demo.trace.attempts
    BY <1>0, <1>11, SceneEffects, RetryJobIsJob
  <2>5. /\ demo'.step = "reply" /\ demo'.answer = "RUNNING" /\ demo'.name = demo.name
        /\ demo'.case = c /\ demo'.trace = demo.trace
    BY <1>4, <1>7, <2>1
  <2>6. AgainInCall'
    BY <1>2, <1>4, <2>1, <2>2, <2>3, <2>4, <2>5, SceneKept
  <2>7. QED
    BY <1>3, <1>4, <2>1, <2>2, <2>5, <2>6, SceneKept
<1>12. CASE Redelivered
  <2>1. /\ demo.answer = "RUNNING" /\ Busy /\ pc[Server] = "report"
        /\ demo' = NoDemo \/ DemoAt("reply", job[Server].outcome)
    BY <1>0, <1>12 DEF Redelivered, DemoInv, Busy
  <2>2. pc'[Server] = "idle" /\ ~Forge
    BY <1>0, <1>12, <2>1, SceneEffects DEF Forge
  <2>3. /\ demo.name = "duplicate_event"
        /\ Ended(demo.name, demo.trace, rows[c].state, ExecutedKeys(c), trail[c].told)
    BY <1>4, <2>1 DEF SceneInv, AgainInCall
  <2>4. ASSUME DemoAt("reply", job[Server].outcome)
        PROVE  SceneInv'
    <3>1. job[Server].outcome \in Outcomes
      BY <1>0, LocalTypes
    <3>2. /\ demo'.step = "reply" /\ demo'.answer # "RUNNING" /\ demo'.name = demo.name
          /\ demo'.case = c /\ demo'.trace = demo.trace
      BY <1>0, <1>4, <1>7, <2>4, <3>1
    <3>3. InCall'
      BY <1>2, <1>4, <2>1, <2>2, <2>3, <3>2, SceneKept DEF Scene
    <3>4. QED
      BY <1>3, <1>4, <2>1, <2>2, <2>3, <3>2, <3>3, SceneKept
  <2>5. QED
    BY <1>5, <2>1, <2>4
<1>13. CASE DemoStep
  <2>1. /\ Busy /\ Step(Server) /\ trail' = Traced(Server)
        /\ ~(demo.answer = "RUNNING" /\ pc[Server] = "report")
        /\ pc[Server] # "idle"
        /\ demo' = IF Raises(Server) THEN NoDemo ELSE [demo EXCEPT !.trace = Noted]
    BY <1>13, StepIsOfCall DEF DemoStep
  <2>2. CASE Raises(Server)
    BY <1>5, <2>1, <2>2
  <2>3. CASE ~Raises(Server)
    <3>1. /\ demo'.trace = Noted /\ demo'.name = demo.name /\ demo'.case = c
          /\ demo'.step = demo.step /\ demo'.answer = demo.answer
      BY <1>0, <1>4, <2>1, <2>3, NotedFields
    <3>2. ~Forge
      BY <2>1 DEF Forge
    <3>3. /\ rows'[c].cohort = "TREATED"
          /\ demo.name = "unsafe_ai_blocked" /\ demo.step # "ingest" =>
               rows'[c].attempts >= ForgedAttempts
          /\ demo.step = "again" => demo.name = "duplicate_event"
      BY <1>4, <2>1, <3>2, SceneKept DEF SceneInv
    <3>4. demo.step \in {"ingest", "process"} => BeforeCall'
      <4>1. SUFFICES ASSUME demo.step \in {"ingest", "process"} PROVE BeforeCall'
        OBVIOUS
      <4>2. BeforeCall
        BY <2>1, <4>1 DEF SceneInv
      <4>3. pc[Server] = "announce" /\ Noted = demo.trace
        BY <1>0, <2>1, <4>2, NotedFields DEF BeforeCall
      <4>4. pc'[Server] = "idle"
        BY <1>0, <2>1, <4>3, PortGoesOn
      <4>5. QED
        BY <1>1, <3>1, <4>2, <4>3, <4>4 DEF BeforeCall
    <3>5. demo.step \in {"again", "reply"} /\ demo.answer # "RUNNING" => InCall'
      <4>1. SUFFICES ASSUME demo.step \in {"again", "reply"}, demo.answer # "RUNNING"
                     PROVE  InCall'
        OBVIOUS
      <4>2. /\ InCall /\ rows[c].cohort = "TREATED"
            /\ demo.name = "unsafe_ai_blocked" => rows[c].attempts >= ForgedAttempts
        BY <1>4, <2>1, <4>1 DEF SceneInv
      <4>3. Scene(demo.name, pc'[Server], job'[Server], Noted, rows'[c].state,
                  ExecutedKeys(c)', trail'[c].told)
        BY <1>4, <2>1, <2>3, <4>2, SceneGoesOn
      <4>4. QED
        BY <1>2, <3>1, <4>3
    <3>6. demo.answer = "RUNNING" => AgainInCall'
      <4>1. SUFFICES ASSUME demo.answer = "RUNNING" PROVE AgainInCall'
        OBVIOUS
      <4>2. /\ demo.name = "duplicate_event" /\ demo.trace.decision = "ALLOW"
            /\ job[Server].seen.attempts = demo.trace.attempts
            /\ Ended(demo.name, demo.trace, rows[c].state, ExecutedKeys(c), trail[c].told)
        BY <1>4, <2>1, <4>1 DEF SceneInv, AgainInCall
      <4>3. pc[Server] \in {"execute", "lookup", "insert"} /\ job[Server].case \in Cases
        BY <1>0, <2>1, <4>1, LocalTypes DEF DemoInv
      <4>4. job'[Server].seen.attempts = job[Server].seen.attempts /\ Noted = demo.trace
        BY <1>0, <2>1, <4>3, PortAnswers, NotedFields
      <4>5. QED
        BY <1>2, <1>4, <2>1, <3>1, <3>2, <4>2, <4>4, SceneKept
    <3>7. QED
      BY <1>3, <3>1, <3>3, <3>4, <3>5, <3>6
  <2>4. QED
    BY <2>2, <2>3
<1>14. ASSUME NEW w \in Others, WriterAction(w), demo' = demo
       PROVE  SceneInv'
  <2>1. w \in Writers /\ w # Server
    BY DEF Others
  <2>2. pc'[Server] = pc[Server] /\ job'[Server] = job[Server]
    BY <1>0, <1>14, <2>1, GoesOn
  <2>3. QED
    BY <1>6, <1>14, <2>2
<1>15. CASE \/ \E w \in Others, d \in Cases : OtherStart(w, d)
            \/ \E w \in Others : OtherStep(w) \/ OtherDies(w)
  <2>1. \A w \in Writers : Step(w) => WriterAction(w)
    BY DEF Step, WriterAction, StoreAction, LogAction, ControlAction, ProviderAction
  <2>2. QED
    BY <1>14, <1>15, <2>1
       DEF OtherStart, OtherStep, OtherDies, WriterAction, StoreAction, ControlAction, Others
<1>16. CASE ServerDies \/ RedeliverNothing \/ Reply
  BY <1>5, <1>16 DEF ServerDies, RedeliverNothing, Reply
<1>17. CASE ReadNext \/ Close
            \/ (\E kind \in PageKinds \ {"none"}, d \in Cases : Open(kind, d))
            \/ UNCHANGED dashVars
  BY <1>6, <1>17 DEF ReadNext, Close, Open, dashVars, vars
<1>18. QED
  BY <1>8, <1>9, <1>10, <1>11, <1>12, <1>13, <1>15, <1>16, <1>17 DEF DashNext

\* The inductive invariant behind the scenarios.
ScenesInv == DashGround /\ TrailInv /\ SceneInv

LEMMA ScenesInvariant ==
  ASSUME CapsWithinForged
  PROVE  DashSpec => []ScenesInv
<1>1. ASSUME DashInit
      PROVE  ScenesInv
  <2>1. DashGround /\ TrailInv
    BY <1>1, DashGroundInit, TrailInit
  <2>2. ~Busy
    BY <1>1, NoDemoIs DEF DashInit, Busy
  <2>3. QED
    BY <2>1, <2>2 DEF ScenesInv, SceneInv
<1>2. ASSUME ScenesInv, [DashNext]_dashVars
      PROVE  ScenesInv'
  <2>1. DashGround /\ DashGround' /\ Lasts
    BY <1>2, DashGroundStep, LastsStep DEF ScenesInv
  <2>2. TrailInv' /\ \A c \in Cases : Tells(trail[c], trail'[c])
    BY <1>2, <2>1, TrailStep DEF ScenesInv
  <2>3. SceneInv'
    BY <1>2, <2>1, <2>2, SceneStep DEF ScenesInv
  <2>4. QED
    BY <2>1, <2>2, <2>3 DEF ScenesInv
<1>3. CapsWithinForged
  OBVIOUS
<1>4. QED
  BY <1>1, <1>2, PTL DEF DashSpec

\* A scenario that answers left its case where its trace says, however many other
\* processes work on the case meanwhile: each either loses the race for the row, or has
\* the scenario lose it, which then raises and gives no answer.  The two blocked
\* scenarios are denied whatever the row says by then, as long as no cap of rules.yaml is
\* above the attempts that the one of them makes up.
THEOREM ScenariosEndAsTheirTrace ==
  ASSUME CapsWithinForged
  PROVE  DashSpec => []ScenariosEndAsTraced
<1>1. ScenesInv => ScenariosEndAsTraced
  <2>1. SUFFICES ASSUME ScenesInv, Finished PROVE
          /\ demo.name \in {"unsafe_ai_blocked", "invalid_ai_output"} =>
               demo.trace.decision = "DENY"
          /\ demo.trace.decision = "DENY" => rows[demo.case].state = "ABANDONED"
          /\ demo.trace.outcome = "SUCCEEDED" => rows[demo.case].state = "RECOVERED"
          /\ demo.trace.outcome = "UNCERTAIN" => "UNCERTAIN" \in trail[demo.case].told
    BY DEF ScenariosEndAsTraced
  <2>2. Busy /\ demo.step = "reply" /\ pc[Server] = "idle" /\ demo.answer # "RUNNING"
    BY <2>1 DEF Finished, Busy, ScenesInv, DashGround, DemoInv
  <2>3. InCall
    BY <2>1, <2>2 DEF ScenesInv, SceneInv
  <2>4. Ended(demo.name, demo.trace, rows[demo.case].state, ExecutedKeys(demo.case),
              trail[demo.case].told)
    BY <2>2, <2>3 DEF InCall, Scene, Underway
  <2>5. QED
    BY <2>4 DEF Ended, Blocked
<1>2. QED
  BY <1>1, ScenesInvariant, PTL

\* Only the server's own statement takes its call from the SELECT of the actions to what
\* the executor answers.
LEMMA ServerAnswers ==
  ASSUME DashGround, [DashNext]_dashVars, pc[Server] = "lookup",
         pc'[Server] \notin {"lookup", "idle"}
  PROVE  DemoStep
<1>0. /\ TypesInductive /\ PipelineTypeOK /\ Server \in Writers /\ demo \in Demo
      /\ pc \in [Writers -> Pcs]
  BY DashboardAssumption DEF DashGround, TypesInductive, PipelineTypeOK, DemoInv
<1>1. ASSUME NEW w \in Others, WriterAction(w)
      PROVE  pc'[Server] = "lookup"
  BY <1>0, <1>1, GoesOn DEF Others
<1>2. CASE \/ \E w \in Others, c \in Cases : OtherStart(w, c)
           \/ \E w \in Others : OtherStep(w) \/ OtherDies(w)
  <2>1. \A w \in Writers : Step(w) => WriterAction(w)
    BY DEF Step, WriterAction, StoreAction, LogAction, ControlAction, ProviderAction
  <2>2. QED
    BY <1>1, <1>2, <2>1
       DEF OtherStart, OtherStep, OtherDies, WriterAction, StoreAction, ControlAction, Others
<1>3. CASE Forge \/ DemoProcess \/ Redeliver \/ Redelivered
           \/ \E c \in Cases, s \in Scenarios : StartDemo(c, s)
  BY <1>3 DEF Forge, DemoProcess, Begin, Redeliver, Again, Redelivered, StartDemo, Ingest
<1>4. CASE ServerDies
  BY <1>0, <1>4, GotoEffect DEF ServerDies, Crash, Return
<1>5. CASE RedeliverNothing \/ Reply \/ ReadNext \/ Close
           \/ (\E kind \in PageKinds \ {"none"}, c \in Cases : Open(kind, c))
           \/ UNCHANGED dashVars
  BY <1>5 DEF RedeliverNothing, Reply, ReadNext, Close, Open, dashVars, vars
<1>6. QED
  BY <1>2, <1>3, <1>4, <1>5 DEF DashNext

\* The scenarios that are blocked, and the one that times out, charge nothing, and a verdict
\* that ran is answered from its record when it is handed over again: the executor looks
\* the key up first, whatever state others have brought the case to by then.
THEOREM ScenariosNeverSpendTwice ==
  ASSUME CapsWithinForged
  PROVE  DashSpec => ScenariosSpendOnce
<1> DEFINE Goes == Busy /\ pc[Server] = "lookup" /\ pc'[Server] \notin {"lookup", "idle"}
           Once ==
             /\ charges' # charges => demo.name \in {"successful_recovery", "duplicate_event"}
             /\ demo.answer = "RUNNING" /\ Ran =>
                  charges' = charges /\ job'[Server].outcome \in {"SUCCEEDED", "FAILED"}
<1>1. ASSUME ScenesInv, [DashNext]_dashVars, Goes
      PROVE  Once
  <2>0. /\ TypesInductive /\ PipelineTypeOK /\ Server \in Writers /\ demo \in Demo
        /\ Busy /\ SceneInv /\ job[Server].case = demo.case
        /\ demo.name \in Scenarios
    BY <1>1, DashboardAssumption
       DEF ScenesInv, DashGround, TypesInductive, PipelineTypeOK, DemoInv, Demo
  <2>1. /\ Step(Server)
        /\ Dispatchable(Server) => /\ job'[Server].outcome = Scripted(demo.name)
                                   /\ Scripted(demo.name) = "UNCERTAIN" => charges' = charges
    BY <1>1, ServerAnswers DEF ScenesInv, DemoStep
  <2>2. \/ Replay(Server) \/ Refuse(Server) \/ RefuseForNow(Server) \/ TimeOut(Server)
        \/ \E ok \in BOOLEAN : Perform(Server, ok)
    BY <1>1, <2>1, StepAt
  <2>3. charges' # charges => Dispatchable(Server)
    BY <2>2 DEF Replay, Refuse, RefuseForNow, TimeOut, Perform
  <2>4. demo.step \in {"again", "reply"}
    <3>1. demo.step \in {"ingest", "process", "again", "reply"}
      BY <2>0 DEF Demo, Busy
    <3>2. demo.step \in {"ingest", "process"} => BeforeCall
      BY <2>0 DEF SceneInv
    <3>3. QED
      BY <1>1, <3>1, <3>2 DEF BeforeCall
  <2>5. ASSUME charges' # charges
        PROVE  demo.name \in {"successful_recovery", "duplicate_event"}
    <3>1. demo.name # "duplicate_timeout_handled"
      BY <2>1, <2>3, <2>5 DEF Scripted
    <3>2. CASE demo.answer = "RUNNING"
      BY <2>0, <3>2 DEF SceneInv, AgainInCall
    <3>3. CASE demo.answer # "RUNNING"
      <4>1. InCall
        BY <2>0, <2>4, <3>3 DEF SceneInv
      <4>2. ~Blocked(demo.name)
        BY <1>1, <4>1 DEF InCall, Scene, Underway, Attempting
      <4>3. QED
        BY <2>0, <3>1, <4>2 DEF Blocked, Scenarios
    <3>4. QED
      BY <3>2, <3>3
  <2>6. ASSUME demo.answer = "RUNNING", Ran
        PROVE  charges' = charges /\ job'[Server].outcome \in {"SUCCEEDED", "FAILED"}
    <3>1. AgainInCall
      BY <2>0, <2>6 DEF SceneInv
    <3>2. demo.trace.attempts + 1 \in ExecutedKeys(demo.case)
      BY <2>6, <3>1 DEF AgainInCall, Ended, Ran
    <3>3. Known(Server)
      BY <2>0, <3>1, <3>2 DEF AgainInCall, Known, AttemptOf
    <3>4. Replay(Server)
      BY <2>2, <3>3 DEF Refuse, RefuseForNow, TimeOut, Perform, Dispatchable
    <3>5. PICK a : Got(Server, Result(a.ok))
      BY <3>4 DEF Replay
    <3>6. job'[Server].outcome = Result(a.ok) /\ charges' = charges
      BY <2>0, <3>4, <3>5, GotEffect DEF Replay
    <3>7. QED
      BY <3>6 DEF Result
  <2>7. QED
    BY <2>5, <2>6
<1>2. ASSUME ScenesInv, [DashNext]_dashVars
      PROVE  [Goes => Once]_dashVars
  BY <1>1, <1>2
<1> HIDE DEF Goes, Once
<1>3. CapsWithinForged
  OBVIOUS
<1>4. DashSpec => [][Goes => Once]_dashVars
  BY <1>2, ScenesInvariant, PTL DEF DashSpec
<1>5. QED
  BY <1>4 DEF ScenariosSpendOnce, Goes, Once

=============================================================================
