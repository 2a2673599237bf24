----------------------- MODULE RecoveryPipeline_proofs -----------------------
(***************************************************************************)
(* What holds of the pipeline for any cases, writers, caps, proposals and   *)
(* bounds: types, that it implements the case store, and that the provider  *)
(* is called only for what the policy allowed, in particular never for a    *)
(* holdout case; that RECOVERED means collected.  And what one writer at a  *)
(* time adds, which several of them do not have: no key is charged twice,   *)
(* nobody is charged who has paid, counters and replay() agree with what    *)
(* was charged, and the executor port keeps its contract.                  *)
(***************************************************************************)
EXTENDS PipelineContract, CaseStore_proofs, Policy_proofs

----------------------------------------------------------------------------
(* Types *)

\* A new call starts with locals of their types.
LEMMA NewJobIsJob ==
  ASSUME NEW c \in Cases, NEW h \in BOOLEAN, NEW p \in Proposal, NEW o \in Outcomes
  PROVE  NewJob(c, h, p, o) \in Job
<1>1. NoView \in View
  BY DEF NoView, View, States, Cohorts
<1>2. QED
  BY <1>1 DEF NewJob, Job, Phases, States

\* The locals of a writer that runs no call.
LEMMA NoJobIsJob == NoJob \in Job /\ NoProposal \in Proposal
<1>1. (CHOOSE c \in Cases : TRUE) \in Cases
  BY PipelineAssumption
<1>2. NoProposal \in Proposal
  BY DEF NoProposal, Proposal, Recoverability, Actions
<1>3. "NONE" \in Outcomes /\ FALSE \in BOOLEAN
  BY DEF Outcomes
<1>4. QED
  BY <1>1, <1>2, <1>3, NewJobIsJob DEF NoJob

\* Changing the phase, the view or the outcome keeps the type of the locals.
LEMMA JobWithIsJob ==
  ASSUME PipelineTypeOK, NEW w \in Writers, NEW ph \in Phases, NEW to \in States,
         NEW s \in View, NEW o \in Outcomes
  PROVE  JobWith(w, ph, to, s, o) \in Job
BY DEF JobWith, Job, PipelineTypeOK

\* The helpers by which an action goes on keep the types of pc and job.
LEMMA ControlTypes ==
  ASSUME PipelineTypeOK, NEW w \in Writers
  PROVE  /\ \A l \in Pcs : Goto(w, l) => pc' \in [Writers -> Pcs]
         /\ Return(w) => pc' \in [Writers -> Pcs] /\ job' \in [Writers -> Job]
         /\ \A ph \in Phases, to \in States :
              Move(w, ph, to) => pc' \in [Writers -> Pcs] /\ job' \in [Writers -> Job]
         /\ \A s \in View : Saw(w, s) => job' \in [Writers -> Job]
         /\ \A o \in Outcomes : Got(w, o) => job' \in [Writers -> Job]
<1>1. job[w] \in Job
  BY DEF PipelineTypeOK
<1>2. /\ job[w].phase \in Phases /\ job[w].target \in States
      /\ job[w].seen \in View /\ job[w].outcome \in Outcomes
  BY <1>1 DEF Job
<1>3. \A l \in Pcs : Goto(w, l) => pc' \in [Writers -> Pcs]
  BY DEF Goto, PipelineTypeOK
<1>4. "idle" \in Pcs /\ "select" \in Pcs
  BY DEF Pcs
<1>5. Return(w) => pc' \in [Writers -> Pcs] /\ job' \in [Writers -> Job]
  BY <1>3, <1>4, NoJobIsJob DEF Return, PipelineTypeOK
<1>6. ASSUME NEW ph \in Phases, NEW to \in States, Move(w, ph, to)
      PROVE  pc' \in [Writers -> Pcs] /\ job' \in [Writers -> Job]
  <2>1. JobWith(w, ph, to, job[w].seen, job[w].outcome) \in Job
    BY <1>2, JobWithIsJob
  <2>2. QED
    BY <1>3, <1>4, <1>6, <2>1 DEF Move, PipelineTypeOK
<1>7. ASSUME NEW s \in View, Saw(w, s)
      PROVE  job' \in [Writers -> Job]
  <2>1. JobWith(w, job[w].phase, job[w].target, s, job[w].outcome) \in Job
    BY <1>2, JobWithIsJob
  <2>2. QED
    BY <1>7, <2>1 DEF Saw, PipelineTypeOK
<1>8. ASSUME NEW o \in Outcomes, Got(w, o)
      PROVE  job' \in [Writers -> Job]
  <2>1. JobWith(w, job[w].phase, job[w].target, job[w].seen, o) \in Job
    BY <1>2, JobWithIsJob
  <2>2. QED
    BY <1>8, <2>1 DEF Got, PipelineTypeOK
<1>9. QED
  BY <1>3, <1>5, <1>6, <1>7, <1>8

----------------------------------------------------------------------------
(* The pipeline only touches the cases table as the store does *)

\* Every step of the pipeline, in the groups in which the proofs below take
\* them: the statements that write the cases table, those that write another
\* table, and those that only move the control of one writer.
StoreAction(w) ==
  \/ \E c \in Cases, k \in Cohorts : Ingest(w, c, k)
  \/ Select(w) \/ Update(w) \/ Conflict(w) \/ Crash(w)

LogAction(w) == Announce(w) \/ LogTransition(w) \/ ReportOutcome(w) \/ Resolve(w)

ControlAction(w) ==
  \/ \E c \in Cases, p \in Proposals, h \in BOOLEAN : Start(w, c, p, h)
  \/ \E c \in Cases : Find(w, c)
  \/ Guard(w) \/ ReadCase(w) \/ Authorize(w) \/ Illegal(w)
  \/ ExecutorReads(w) \/ Replay(w) \/ Refuse(w) \/ RefuseForNow(w)
  \/ CheckQuarantined(w) \/ CheckUncertain(w)

ProviderAction(w) == TimeOut(w) \/ \E ok \in BOOLEAN : Perform(w, ok)

\* A step is one of these, of one writer.
LEMMA PipelineCases ==
  ASSUME [PipelineNext]_vars
  PROVE  \/ UNCHANGED vars
         \/ \E w \in Writers : \/ StoreAction(w) \/ LogAction(w) \/ ControlAction(w)
                              \/ ProviderAction(w) \/ Record(w)
BY DEF PipelineNext, Process, Step, StoreAction, LogAction, ControlAction,
       ProviderAction

\* Nothing but the store's own statements changes a row or an open call.
LEMMA StoreUntouched ==
  ASSUME NEW w \in Writers,
         LogAction(w) \/ ControlAction(w) \/ ProviderAction(w) \/ Record(w)
  PROVE  UNCHANGED storeVars
<1>1. CASE LogAction(w)
  BY <1>1 DEF LogAction, Announce, LogTransition, ReportOutcome, Resolve, storeVars
<1>2. CASE ControlAction(w)
  BY <1>2 DEF ControlAction, Start, Begin, Find, Guard, ReadCase, Authorize, Illegal,
       ExecutorReads, Replay, Refuse, RefuseForNow, CheckQuarantined, CheckUncertain,
       storeVars
<1>3. CASE ProviderAction(w)
  BY <1>3 DEF ProviderAction, TimeOut, Perform, storeVars
<1>4. CASE Record(w)
  BY <1>4 DEF Record, storeVars
<1>5. QED
  BY <1>1, <1>2, <1>3, <1>4

\* A step of the pipeline is a step of the store or leaves the store alone.  A
\* writer that dies takes its one open call with it, if it has one.
LEMMA StoreStep ==
  ASSUME PipelineTypeOK, OneCallPerWriter, [PipelineNext]_vars
  PROVE  [StoreNext]_storeVars
<1>1. ASSUME NEW w \in Writers, NEW c \in Cases, NEW k \in Cohorts, Ingest(w, c, k)
      PROVE  StoreNext
  BY <1>1 DEF Ingest, StoreNext
<1>2. ASSUME NEW w \in Writers, Select(w)
      PROVE  StoreNext
  <2>1. job[w].case \in Cases /\ job[w].target \in States
    BY DEF PipelineTypeOK, Job
  <2>2. Spent(job[w].target) \in BOOLEAN
    BY DEF Spent
  <2>3. SelectRow(w, job[w].case, job[w].target, Spent(job[w].target))
    BY <1>2 DEF Select
  <2>4. QED
    BY <2>1, <2>2, <2>3 DEF StoreNext
<1>3. ASSUME NEW w \in Writers, Update(w) \/ Conflict(w)
      PROVE  StoreNext
  BY <1>3 DEF Update, Conflict, StoreNext
<1>4. ASSUME NEW w \in Writers, Crash(w)
      PROVE  [StoreNext]_storeVars
  <2>1. rows' = rows /\ pending' = {p \in pending : p.writer # w}
    BY <1>4 DEF Crash
  <2>2. CASE \E p \in pending : p.writer = w
    <3>1. PICK p \in pending : p.writer = w
      BY <2>2
    <3>2. pending' = pending \ {p}
      BY <2>1, <3>1 DEF OneCallPerWriter
    <3>3. DropCall(p)
      BY <2>1, <3>2 DEF DropCall
    <3>4. QED
      BY <3>3 DEF StoreNext
  <2>3. CASE \A p \in pending : p.writer # w
    <3>1. pending' = pending
      BY <2>1, <2>3
    <3>2. QED
      BY <2>1, <3>1 DEF storeVars
  <2>4. QED
    BY <2>2, <2>3
<1>5. CASE UNCHANGED vars
  BY <1>5 DEF vars, storeVars
<1>6. QED
  BY <1>1, <1>2, <1>3, <1>4, <1>5, PipelineCases, StoreUntouched DEF StoreAction

----------------------------------------------------------------------------
(* Type correctness *)

\* The rest of PipelineTypeOK: the variables that the store does not have.
TablesOK ==
  /\ actions \in [Cases -> SUBSET Attempt]
  /\ log \in [Cases -> LogEntry]
  /\ charges \in [Cases -> Seq(Attempt)]
  /\ timeouts \in Nat /\ crashes \in Nat

ControlOK == pc \in [Writers -> Pcs] /\ job \in [Writers -> Job]

\* The types of what an action finds in the locals of its writer.
LEMMA LocalTypes ==
  ASSUME PipelineTypeOK, NEW w \in Writers
  PROVE  /\ job[w].case \in Cases /\ job[w].phase \in Phases
         /\ job[w].target \in States /\ job[w].halted \in BOOLEAN
         /\ job[w].proposal \in Proposal /\ job[w].seen \in View
         /\ job[w].outcome \in Outcomes
         /\ AttemptOf(w) \in Nat
         /\ rows[job[w].case] \in Row
         /\ RowView(job[w].case) \in View
         /\ log[job[w].case] \in LogEntry
<1>1. job[w] \in Job
  BY DEF PipelineTypeOK
<1>2. job[w].seen \in View
  BY <1>1 DEF Job
<1>3. AttemptOf(w) \in Nat
  BY <1>2 DEF AttemptOf, View
<1>4. rows[job[w].case] \in Row
  BY <1>1 DEF Job, PipelineTypeOK, StoreTypeOK
<1>5. RowView(job[w].case) \in View
  BY <1>4 DEF RowView, Row, View
<1>6. log[job[w].case] \in LogEntry
  BY <1>1 DEF Job, PipelineTypeOK
<1>7. QED
  BY <1>1, <1>3, <1>4, <1>5, <1>6 DEF Job

\* The targets the code names are states, and what the executor answers is one
\* of the outcomes.
LEMMA TargetTypes ==
  /\ \A o : Settled(o) \in States /\ Reconciled(o) \in States
  /\ \A w : Landing(w) \in States
  /\ \A ok : Result(ok) \in Outcomes
  /\ \A c : VerifiedOutcome(c) \in Outcomes
  /\ {"DIAGNOSED", "SCHEDULED", "EXECUTING"} \subseteq States
<1>1. \A o : Settled(o) \in States
  BY DEF Settled, States
<1>2. \A o : Reconciled(o) \in States
  BY DEF Reconciled, States
<1>3. \A w : Landing(w) \in States
  BY DEF Landing, States
<1>4. \A ok : Result(ok) \in Outcomes
  BY DEF Result, Outcomes
<1>5. \A c : VerifiedOutcome(c) \in Outcomes
  BY DEF VerifiedOutcome, Outcomes
<1>6. QED
  BY <1>1, <1>2, <1>3, <1>4, <1>5 DEF States

\* pc and the locals keep their types.
LEMMA ControlStep ==
  ASSUME PipelineTypeOK, [PipelineNext]_vars
  PROVE  ControlOK'
<1> USE DEF ControlOK
<1>1. /\ \A w \in Writers : AfterUpdate(w) \in Pcs
      /\ {"idle", "announce", "guard", "select", "update", "log", "view",
          "decide", "execute", "lookup", "insert", "report", "find", "verify",
          "resolve"} \subseteq Pcs
  BY DEF AfterUpdate, Pcs
<1>2. {"diagnose", "schedule", "launch", "close", "settle", "reconcile"} \subseteq Phases
  BY DEF Phases
<1>3. {"REFUSED", "RETRYABLE", "UNCERTAIN", "NONE"} \subseteq Outcomes
  BY DEF Outcomes
<1>4. ASSUME UNCHANGED job, UNCHANGED pc \/ \E w \in Writers, l \in Pcs : Goto(w, l)
      PROVE  ControlOK'
  BY <1>4, ControlTypes DEF PipelineTypeOK
<1>5. ASSUME NEW w \in Writers, StoreAction(w)
      PROVE  ControlOK'
  <2>1. ASSUME NEW c \in Cases, NEW k \in Cohorts, Ingest(w, c, k)
        PROVE  ControlOK'
    <3>1. NewJob(c, FALSE, NoProposal, "NONE") \in Job
      BY <1>3, NoJobIsJob, NewJobIsJob
    <3>2. QED
      BY <1>1, <2>1, <3>1, ControlTypes DEF Ingest, PipelineTypeOK
  <2>2. CASE Select(w)
    BY <1>1, <1>4, <2>2 DEF Select
  <2>3. CASE Update(w)
    BY <1>1, <1>4, <2>3 DEF Update
  <2>4. CASE Conflict(w) \/ Crash(w)
    BY <2>4, ControlTypes DEF Conflict, Crash
  <2>5. QED
    BY <1>5, <2>1, <2>2, <2>3, <2>4 DEF StoreAction
<1>6. ASSUME NEW w \in Writers, LogAction(w)
      PROVE  ControlOK'
  <2>1. CASE Announce(w)
    BY <2>1, ControlTypes DEF Announce
  <2>2. CASE LogTransition(w)
    <3>1. \/ Goto(w, "view") /\ UNCHANGED job
          \/ Move(w, "launch", "EXECUTING")
          \/ Return(w)
      BY <2>2 DEF LogTransition
    <3>2. QED
      BY <1>1, <1>2, <1>4, <3>1, ControlTypes, TargetTypes
  <2>3. CASE ReportOutcome(w)
    BY <1>2, <2>3, ControlTypes, TargetTypes DEF ReportOutcome
  <2>4. CASE Resolve(w)
    BY <1>1, <1>4, <2>4 DEF Resolve
  <2>5. QED
    BY <1>6, <2>1, <2>2, <2>3, <2>4 DEF LogAction
<1>7. ASSUME NEW w \in Writers, ControlAction(w)
      PROVE  ControlOK'
  <2>1. ASSUME NEW c \in Cases, NEW p \in Proposals, NEW h \in BOOLEAN,
               Start(w, c, p, h)
        PROVE  ControlOK'
    <3>1. NewJob(c, h, p, "NONE") \in Job
      BY <1>3, NewJobIsJob, PipelineAssumption
    <3>2. QED
      BY <1>1, <2>1, <3>1, ControlTypes DEF Start, Begin, PipelineTypeOK
  <2>2. ASSUME NEW c \in Cases, Find(w, c)
        PROVE  ControlOK'
    <3>1. NewJob(c, FALSE, NoProposal, VerifiedOutcome(c)) \in Job
      BY NoJobIsJob, NewJobIsJob, TargetTypes
    <3>2. QED
      BY <1>1, <2>2, <3>1, ControlTypes DEF Find, PipelineTypeOK
  <2>3. CASE Guard(w)
    <3>1. (Goto(w, "view") /\ UNCHANGED job) \/ Move(w, "diagnose", "DIAGNOSED")
      BY <2>3 DEF Guard
    <3>2. QED
      BY <1>1, <1>2, <1>4, <3>1, ControlTypes, TargetTypes
  <2>4. CASE ReadCase(w)
    BY <1>1, <2>4, ControlTypes, LocalTypes DEF ReadCase
  <2>5. CASE Authorize(w)
    <3>1. Move(w, "schedule", "SCHEDULED") \/ Move(w, "close", Landing(w))
      BY <2>5 DEF Authorize
    <3>2. QED
      BY <1>2, <3>1, ControlTypes, TargetTypes
  <2>6. CASE Illegal(w)
    BY <2>6, ControlTypes DEF Illegal
  <2>7. CASE ExecutorReads(w)
    <3>1. [state |-> rows[job[w].case].state, cohort |-> job[w].seen.cohort,
           attempts |-> job[w].seen.attempts] \in View
      BY LocalTypes DEF View, Row
    <3>2. QED
      BY <1>1, <2>7, <3>1, ControlTypes DEF ExecutorReads
  <2>8. CASE Replay(w)
    BY <1>1, <2>8, ControlTypes, TargetTypes DEF Replay
  <2>9. CASE Refuse(w) \/ RefuseForNow(w)
    BY <1>1, <1>3, <2>9, ControlTypes DEF Refuse, RefuseForNow
  <2>10. CASE CheckQuarantined(w)
    <3>1. (Goto(w, "verify") /\ UNCHANGED job) \/ Return(w)
      BY <2>10 DEF CheckQuarantined
    <3>2. QED
      BY <1>1, <1>4, <3>1, ControlTypes
  <2>11. CASE CheckUncertain(w)
    <3>1. Move(w, "reconcile", Reconciled(job[w].outcome)) \/ Return(w)
      BY <2>11 DEF CheckUncertain
    <3>2. QED
      BY <1>2, <3>1, ControlTypes, TargetTypes
  <2>12. QED
    BY <1>7, <2>1, <2>2, <2>3, <2>4, <2>5, <2>6, <2>7, <2>8, <2>9, <2>10, <2>11
       DEF ControlAction
<1>8. ASSUME NEW w \in Writers, ProviderAction(w) \/ Record(w)
      PROVE  ControlOK'
  <2>1. CASE TimeOut(w)
    BY <1>1, <1>3, <2>1, ControlTypes DEF TimeOut
  <2>2. ASSUME NEW ok \in BOOLEAN, Perform(w, ok)
        PROVE  ControlOK'
    BY <1>1, <2>2, ControlTypes, TargetTypes DEF Perform
  <2>3. CASE Record(w)
    BY <1>1, <1>4, <2>3 DEF Record
  <2>4. QED
    BY <1>8, <2>1, <2>2, <2>3 DEF ProviderAction
<1>9. CASE UNCHANGED vars
  BY <1>9 DEF vars, PipelineTypeOK
<1>10. QED
  BY <1>5, <1>6, <1>7, <1>8, <1>9, PipelineCases

\* What is charged is an attempt.
LEMMA ChargeTypes ==
  ASSUME PipelineTypeOK, NEW w \in Writers, NEW ok \in BOOLEAN, Charge(w, ok)
  PROVE  charges' \in [Cases -> Seq(Attempt)]
<1>1. [attempt |-> AttemptOf(w), ok |-> ok] \in Attempt
  BY LocalTypes DEF Attempt
<1>2. charges[job[w].case] \in Seq(Attempt)
  BY LocalTypes DEF PipelineTypeOK
<1>3. Append(charges[job[w].case], [attempt |-> AttemptOf(w), ok |-> ok])
        \in Seq(Attempt)
  BY <1>1, <1>2
<1>4. QED
  BY <1>3 DEF Charge, PipelineTypeOK

\* The tables and the audit log keep their types.
LEMMA TablesStep ==
  ASSUME PipelineTypeOK, [PipelineNext]_vars
  PROVE  TablesOK'
<1>0. TablesOK
  BY DEF TablesOK, PipelineTypeOK
<1>1. ASSUME NEW w \in Writers, StoreAction(w)
      PROVE  TablesOK'
  <2>1. /\ UNCHANGED <<actions, log, charges, timeouts>>
        /\ crashes' = crashes \/ crashes' = crashes + 1
    BY <1>1 DEF StoreAction, Ingest, Select, Update, Conflict, Crash
  <2>2. QED
    BY <1>0, <2>1 DEF TablesOK
<1>2. ASSUME NEW w \in Writers, LogAction(w)
      PROVE  TablesOK'
  <2> DEFINE c == job[w].case
  <2>1. log[c] \in LogEntry /\ rows[c] \in Row /\ c \in Cases
    BY LocalTypes
  <2>2. CASE Announce(w)
    <3>1. [log[c] EXCEPT !.cohort = rows[c].cohort] \in LogEntry
      BY <2>1 DEF LogEntry, Row
    <3>2. log' = [log EXCEPT ![c] = [log[c] EXCEPT !.cohort = rows[c].cohort]]
      BY <2>2 DEF Announce
    <3>3. QED
      BY <1>0, <2>1, <2>2, <3>1, <3>2 DEF Announce, TablesOK
  <2>3. CASE LogTransition(w)
    <3>1. [log[c] EXCEPT !.state = job[w].target] \in LogEntry
      BY <2>1, LocalTypes DEF LogEntry
    <3>2. log' = [log EXCEPT ![c] = [log[c] EXCEPT !.state = job[w].target]]
      BY <2>3 DEF LogTransition
    <3>3. QED
      BY <1>0, <2>1, <2>3, <3>1, <3>2 DEF LogTransition, TablesOK
  <2>4. CASE ReportOutcome(w)
    <3>1. log[c].attempts \in Nat /\ AttemptOf(w) \in Nat
      BY <2>1, LocalTypes DEF LogEntry
    <3>2. /\ [log[c] EXCEPT !.attempts = log[c].attempts + 1] \in LogEntry
          /\ [log[c] EXCEPT !.uncertain = AttemptOf(w)] \in LogEntry
      BY <2>1, <3>1 DEF LogEntry
    <3>3. \/ log' = [log EXCEPT ![c] = [log[c] EXCEPT !.attempts = log[c].attempts + 1]]
          \/ log' = [log EXCEPT ![c] = [log[c] EXCEPT !.uncertain = AttemptOf(w)]]
          \/ log' = log
      BY <2>4 DEF ReportOutcome
    <3>4. log' \in [Cases -> LogEntry]
      BY <1>0, <2>1, <3>2, <3>3 DEF TablesOK
    <3>5. QED
      BY <1>0, <2>4, <3>4 DEF ReportOutcome, TablesOK
  <2>5. CASE Resolve(w)
    <3>1. [log[c] EXCEPT !.uncertain = 0] \in LogEntry
      BY <2>1 DEF LogEntry
    <3>2. log' = [log EXCEPT ![c] = [log[c] EXCEPT !.uncertain = 0]]
      BY <2>5 DEF Resolve
    <3>3. QED
      BY <1>0, <2>1, <2>5, <3>1, <3>2 DEF Resolve, TablesOK
  <2>6. QED
    BY <1>2, <2>2, <2>3, <2>4, <2>5 DEF LogAction
<1>3. ASSUME NEW w \in Writers, ControlAction(w)
      PROVE  TablesOK'
  BY <1>0, <1>3 DEF ControlAction, Start, Begin, Find, Guard, ReadCase, Authorize, Illegal,
       ExecutorReads, Replay, Refuse, RefuseForNow, CheckQuarantined, CheckUncertain,
       TablesOK
<1>4. ASSUME NEW w \in Writers, ProviderAction(w)
      PROVE  TablesOK'
  <2>1. CASE TimeOut(w)
    BY <1>0, <2>1, ChargeTypes DEF TimeOut, TablesOK
  <2>2. ASSUME NEW ok \in BOOLEAN, Perform(w, ok)
        PROVE  TablesOK'
    BY <1>0, <2>2, ChargeTypes DEF Perform, TablesOK
  <2>3. QED
    BY <1>4, <2>1, <2>2 DEF ProviderAction
<1>5. ASSUME NEW w \in Writers, Record(w)
      PROVE  TablesOK'
  <2> DEFINE c == job[w].case
             kept == {a \in actions[c] : a.attempt # AttemptOf(w)}
             done == [attempt |-> AttemptOf(w), ok |-> job[w].outcome = "SUCCEEDED"]
  <2>1. actions' = [actions EXCEPT ![c] = kept \cup {done}]
    BY <1>5 DEF Record
  <2>2. c \in Cases /\ actions[c] \in SUBSET Attempt /\ AttemptOf(w) \in Nat
    BY <1>0, LocalTypes DEF TablesOK
  <2>3. done \in Attempt
    <3>1. (job[w].outcome = "SUCCEEDED") \in BOOLEAN
      OBVIOUS
    <3>2. QED
      BY <2>2, <3>1, Zenon DEF Attempt
  <2>4. kept \cup {done} \in SUBSET Attempt
    BY <2>2, <2>3
  <2>5. QED
    BY <1>0, <1>5, <2>1, <2>4 DEF Record, TablesOK
<1>6. CASE UNCHANGED vars
  BY <1>0, <1>6 DEF vars, TablesOK
<1>7. QED
  BY <1>1, <1>2, <1>3, <1>4, <1>5, <1>6, PipelineCases

\* The inductive invariant behind the type theorem: the types, and that no
\* writer has two open calls of transition().
TypesInductive == PipelineTypeOK /\ OneCallPerWriter

\* Every step of the pipeline preserves it.
LEMMA TypesStep ==
  ASSUME TypesInductive, [PipelineNext]_vars
  PROVE  TypesInductive'
<1>1. PipelineTypeOK /\ OneCallPerWriter
  BY DEF TypesInductive
<1>2. [StoreNext]_storeVars
  BY <1>1, StoreStep
<1>3. StoreTypeOK'
  BY <1>1, <1>2, StoreTypeStep DEF PipelineTypeOK
<1>4. OneCallPerWriter'
  BY <1>1, <1>2, OneCallStep
<1>5. TablesOK' /\ ControlOK'
  BY <1>1, TablesStep, ControlStep
<1>6. QED
  BY <1>3, <1>4, <1>5 DEF TypesInductive, PipelineTypeOK, TablesOK, ControlOK

\* A fresh database and idle writers have their types.
LEMMA TypesInit == PipelineInit => TypesInductive
<1> SUFFICES ASSUME PipelineInit PROVE TypesInductive
  OBVIOUS
<1>1. StoreTypeOK /\ OneCallPerWriter
  BY DEF PipelineInit, StoreInit, StoreTypeOK, NoRow, Row, Cohorts, OneCallPerWriter
<1>2. NoLog \in LogEntry
  BY DEF NoLog, LogEntry
<1>3. /\ actions \in [Cases -> SUBSET Attempt] /\ log \in [Cases -> LogEntry]
      /\ charges \in [Cases -> Seq(Attempt)]
  BY <1>2 DEF PipelineInit
<1>4. pc \in [Writers -> Pcs] /\ job \in [Writers -> Job]
  BY NoJobIsJob DEF PipelineInit, Pcs
<1>5. QED
  BY <1>1, <1>3, <1>4 DEF PipelineInit, TypesInductive, PipelineTypeOK

\* Whatever the callers do and whenever writers die, every table, every open call
\* and every local of a call has its type.
THEOREM PipelineTypeCorrect == PipelineSpec => []PipelineTypeOK
<1>1. TypesInductive => PipelineTypeOK
  BY DEF TypesInductive
<1>2. QED
  BY <1>1, TypesInit, TypesStep, PTL DEF PipelineSpec

\* The pipeline implements the case store: ingest(), process_case() and
\* reconcile(), interleaved statement by statement and with crashes, touch the
\* cases table only as the store allows.
THEOREM PipelineImplementsStore == PipelineSpec => StoreSpec
<1>1. PipelineInit => StoreInit
  BY DEF PipelineInit
<1>2. TypesInductive /\ [PipelineNext]_vars => [StoreNext]_storeVars
  BY StoreStep DEF TypesInductive
<1>3. QED
  BY <1>1, <1>2, TypesInit, TypesStep, PTL DEF PipelineSpec, StoreSpec

\* Hence a case of the pipeline only moves along VALID_TRANSITIONS, and a case
\* that reached a terminal state is never written again.
THEOREM PipelineRespectsStates == PipelineSpec => EdgesOnly /\ TerminalRowsFrozen
BY PipelineImplementsStore, RowsFollowEdges, TerminalIsFinal, PTL

----------------------------------------------------------------------------
(* What the provider is called for *)

\* w is on its way from an ALLOW to the provider.
Dispatching(w) ==
  \/ pc[w] \in {"execute", "lookup"}
  \/ /\ pc[w] \in {"select", "update", "resolve", "log"}
     /\ job[w].phase \in {"schedule", "launch"}

\* What the ALLOW depended on, of which the row's cohort is still true now.
Authorized(w) ==
  /\ ~job[w].halted
  /\ job[w].proposal.action = "RETRY"
  /\ job[w].proposal.class \notin DenyClasses
  /\ ~(job[w].proposal.confidence < MinConfidence)
  /\ job[w].seen.cohort = rows[job[w].case].cohort
  /\ job[w].seen.cohort # "HOLDOUT"
  /\ ~(3 * AmountOf[job[w].case] <= 10 * ActionCostPaise)
  /\ job[w].seen.attempts < CapOf(job[w].case)

\* A call works on a case that exists; the view the policy is given has the
\* cohort of the row; a writer between an ALLOW and the provider holds what the
\* ALLOW depended on.
WriterInv(w) ==
  /\ pc[w] # "idle" => Exists(job[w].case)
  /\ pc[w] = "decide" => job[w].seen.cohort = rows[job[w].case].cohort
  /\ Dispatching(w) => Authorized(w)

\* The inductive invariant: that of every writer, and that nothing was charged
\* for a case that does not exist or is held out.
AuthorityInv ==
  /\ \A w \in Writers : WriterInv(w)
  /\ \A c \in Cases :
       ~Exists(c) \/ rows[c].cohort = "HOLDOUT" => charges[c] = <<>>

OthersGoOn(w) == \A v \in Writers \ {w} : pc'[v] = pc[v] /\ job'[v] = job[v]

\* The parts of the locals on which WriterInv depends are what they were.
SameAuthority(w) ==
  /\ job'[w].case = job[w].case /\ job'[w].halted = job[w].halted
  /\ job'[w].proposal = job[w].proposal
  /\ job'[w].seen.cohort = job[w].seen.cohort
  /\ job'[w].seen.attempts = job[w].seen.attempts

\* What the helpers by which an action goes on do to pc and the locals.
LEMMA ControlEffects ==
  ASSUME PipelineTypeOK, NEW w \in Writers
  PROVE  /\ \A l : Goto(w, l) /\ UNCHANGED job
              => pc'[w] = l /\ SameAuthority(w) /\ OthersGoOn(w)
                 /\ job'[w].phase = job[w].phase
         /\ Return(w) => pc'[w] = "idle" /\ OthersGoOn(w)
         /\ \A ph, to : Move(w, ph, to)
              => pc'[w] = "select" /\ job'[w].phase = ph /\ SameAuthority(w)
                 /\ OthersGoOn(w)
         /\ \A l, s : Goto(w, l) /\ Saw(w, s)
              => /\ pc'[w] = l /\ job'[w].seen = s
                 /\ job'[w].case = job[w].case /\ job'[w].halted = job[w].halted
                 /\ job'[w].proposal = job[w].proposal
                 /\ OthersGoOn(w)
         /\ \A l, o : Goto(w, l) /\ Got(w, o)
              => pc'[w] = l /\ SameAuthority(w) /\ OthersGoOn(w)
<1> USE DEF PipelineTypeOK, OthersGoOn, SameAuthority
<1>1. \A l : Goto(w, l) =>
        pc'[w] = l /\ \A v \in Writers \ {w} : pc'[v] = pc[v]
  BY DEF Goto
<1>2. \A x : job' = [job EXCEPT ![w] = x] =>
        job'[w] = x /\ \A v \in Writers \ {w} : job'[v] = job[v]
  OBVIOUS
<1>3. \A ph, to, s, o :
        /\ JobWith(w, ph, to, s, o).case = job[w].case
        /\ JobWith(w, ph, to, s, o).phase = ph
        /\ JobWith(w, ph, to, s, o).halted = job[w].halted
        /\ JobWith(w, ph, to, s, o).proposal = job[w].proposal
        /\ JobWith(w, ph, to, s, o).seen = s
  BY DEF JobWith
<1>4. \A l : Goto(w, l) /\ UNCHANGED job
        => pc'[w] = l /\ SameAuthority(w) /\ OthersGoOn(w)
           /\ job'[w].phase = job[w].phase
  BY <1>1
<1>5. Return(w) => pc'[w] = "idle" /\ OthersGoOn(w)
  BY <1>1, <1>2 DEF Return
<1>6. ASSUME NEW ph, NEW to, Move(w, ph, to)
      PROVE  pc'[w] = "select" /\ job'[w].phase = ph /\ SameAuthority(w)
             /\ OthersGoOn(w)
  BY <1>1, <1>2, <1>3, <1>6 DEF Move
<1>7. ASSUME NEW l, NEW s, Goto(w, l), Saw(w, s)
      PROVE  /\ pc'[w] = l /\ job'[w].seen = s
             /\ job'[w].case = job[w].case /\ job'[w].halted = job[w].halted
             /\ job'[w].proposal = job[w].proposal
             /\ OthersGoOn(w)
  BY <1>1, <1>2, <1>3, <1>7 DEF Saw
<1>8. ASSUME NEW l, NEW o, Goto(w, l), Got(w, o)
      PROVE  pc'[w] = l /\ SameAuthority(w) /\ OthersGoOn(w)
  BY <1>1, <1>2, <1>3, <1>8 DEF Got
<1>9. QED
  BY <1>4, <1>5, <1>6, <1>7, <1>8

\* A writer keeps its invariant when it goes on without a new decision.
LEMMA KeepsAuthority ==
  ASSUME TypesInductive, [PipelineNext]_vars, NEW w \in Writers, WriterInv(w),
         pc[w] # "idle", SameAuthority(w), pc'[w] # "decide",
         Dispatching(w)' => Dispatching(w)
  PROVE  WriterInv(w)'
<1>1. StoreTypeOK /\ [StoreNext]_storeVars /\ job[w].case \in Cases
  BY StoreStep, LocalTypes DEF TypesInductive, PipelineTypeOK
<1>2. Exists(job[w].case)
  BY DEF WriterInv
<1>3. /\ Exists(job[w].case)'
      /\ rows'[job'[w].case].cohort = rows[job[w].case].cohort
  BY <1>1, <1>2, RowKept DEF SameAuthority, Exists
<1>4. Dispatching(w) => Authorized(w)'
  BY <1>3 DEF WriterInv, Authorized, SameAuthority, CapOf
<1>5. QED
  BY <1>3, <1>4 DEF WriterInv

\* So does a writer that does not move while another one does.
LEMMA OthersKeepAuthority ==
  ASSUME TypesInductive, [PipelineNext]_vars, NEW v \in Writers, WriterInv(v),
         pc'[v] = pc[v], job'[v] = job[v]
  PROVE  WriterInv(v)'
<1>1. SameAuthority(v) /\ (Dispatching(v)' => Dispatching(v))
  BY DEF SameAuthority, Dispatching
<1>2. CASE pc[v] # "idle" /\ pc[v] # "decide"
  BY <1>1, <1>2, KeepsAuthority
<1>3. CASE pc[v] = "decide"
  <2>1. StoreTypeOK /\ [StoreNext]_storeVars /\ job[v].case \in Cases
    BY StoreStep, LocalTypes DEF TypesInductive, PipelineTypeOK
  <2>2. /\ Exists(job[v].case)'
        /\ rows'[job[v].case].cohort = rows[job[v].case].cohort
    BY <1>3, <2>1, RowKept DEF WriterInv
  <2>3. QED
    BY <1>3, <2>2 DEF WriterInv, Dispatching
<1>4. CASE pc[v] = "idle"
  BY <1>4 DEF WriterInv, Dispatching
<1>5. QED
  BY <1>2, <1>3, <1>4

\* An ALLOW, taken on a view with the row's cohort, authorises the call.
LEMMA AllowAuthorizes ==
  ASSUME PipelineTypeOK, NEW w \in Writers, Decide(w) = "ALLOW",
         job[w].seen.cohort = rows[job[w].case].cohort
  PROVE  Authorized(w)
<1> DEFINE v == CaseView(w)
           c == job[w].case
<1>1. /\ v.cohort = job[w].seen.cohort /\ v.attempts = job[w].seen.attempts
      /\ v.method = MethodOf[c] /\ v.amount = AmountOf[c]
  BY DEF CaseView
<1>2. job[w].halted \in BOOLEAN
  BY LocalTypes
<1>3. /\ ~job[w].halted /\ v.cohort # "HOLDOUT"
      /\ job[w].proposal.class \notin DenyClasses
      /\ job[w].proposal.action = "RETRY"
      /\ ~CapReached(v) /\ ~EVNotPositive(v)
      /\ ~(job[w].proposal.confidence < MinConfidence)
  BY <1>2, AllowedMeansUngated DEF Decide
<1>4. job[w].seen.attempts \in Nat
  BY LocalTypes DEF View, Proposal
<1>5. CapOf(c) \in Nat /\ CapOf(c) = CapByMethod[MethodOf[c]]
  BY LocalTypes, PipelineAssumption, PolicyAssumption DEF CapOf
<1>6. job[w].seen.attempts < CapOf(c)
  BY <1>1, <1>3, <1>4, <1>5 DEF CapReached
<1>7. ~(3 * AmountOf[c] <= 10 * ActionCostPaise)
  BY <1>1, <1>3 DEF EVNotPositive
<1>8. QED
  BY <1>1, <1>3, <1>6, <1>7 DEF Authorized

\* A step of w leaves the other writers alone and keeps w's own invariant.
LEMMA WriterStep ==
  ASSUME TypesInductive, [PipelineNext]_vars, NEW w \in Writers, WriterInv(w),
         \/ StoreAction(w) \/ LogAction(w) \/ ControlAction(w)
         \/ ProviderAction(w) \/ Record(w)
  PROVE  OthersGoOn(w) /\ WriterInv(w)'
<1>0. PipelineTypeOK
  BY DEF TypesInductive
<1>1. pc'[w] = "idle" => WriterInv(w)'
  BY DEF WriterInv, Dispatching
<1>2. ASSUME Return(w)
      PROVE  OthersGoOn(w) /\ WriterInv(w)'
  BY <1>0, <1>1, <1>2, ControlEffects
<1>3. ASSUME NEW c \in Cases, NEW l \in {"announce", "guard", "find"},
             NEW h, NEW p, NEW o, Exists(c)', Goto(w, l),
             job' = [job EXCEPT ![w] = NewJob(c, h, p, o)]
      PROVE  OthersGoOn(w) /\ WriterInv(w)'
  <2>1. pc'[w] = l /\ job'[w].case = c /\ OthersGoOn(w)
    BY <1>0, <1>3 DEF Goto, NewJob, OthersGoOn, PipelineTypeOK
  <2>2. QED
    BY <1>3, <2>1 DEF WriterInv, Dispatching, Exists
<1>4. ASSUME StoreAction(w)
      PROVE  OthersGoOn(w) /\ WriterInv(w)'
  <2>1. ASSUME NEW c \in Cases, NEW k \in Cohorts, Ingest(w, c, k)
        PROVE  OthersGoOn(w) /\ WriterInv(w)'
    <3>1. Exists(c)'
      BY <1>0, <2>1 DEF Ingest, CreateCase, NewRow, Exists, PipelineTypeOK, StoreTypeOK
    <3>2. QED
      BY <1>3, <2>1, <3>1 DEF Ingest
  <2>2. CASE Select(w)
    <3>1. pc'[w] = "update" /\ pc[w] = "select" /\ SameAuthority(w) /\ OthersGoOn(w)
          /\ job'[w].phase = job[w].phase
      BY <1>0, <2>2, ControlEffects DEF Select
    <3>2. Dispatching(w)' => Dispatching(w)
      BY <3>1 DEF Dispatching
    <3>3. QED
      BY <3>1, <3>2, KeepsAuthority
  <2>3. CASE Update(w)
    <3>1. /\ pc'[w] = AfterUpdate(w) /\ pc[w] = "update" /\ SameAuthority(w)
          /\ OthersGoOn(w) /\ job'[w].phase = job[w].phase
      BY <1>0, <2>3, ControlEffects DEF Update
    <3>2. /\ AfterUpdate(w) = "execute" => job[w].phase = "launch"
          /\ AfterUpdate(w) \in {"execute", "resolve", "log"}
      BY DEF AfterUpdate
    <3>3. Dispatching(w)' => Dispatching(w)
      BY <3>1, <3>2 DEF Dispatching
    <3>4. QED
      BY <3>1, <3>2, <3>3, KeepsAuthority
  <2>4. CASE Conflict(w) \/ Crash(w)
    BY <1>2, <2>4 DEF Conflict, Crash
  <2>5. QED
    BY <1>4, <2>1, <2>2, <2>3, <2>4 DEF StoreAction
<1>5. ASSUME LogAction(w)
      PROVE  OthersGoOn(w) /\ WriterInv(w)'
  <2>1. CASE Announce(w)
    BY <1>2, <2>1 DEF Announce
  <2>2. CASE LogTransition(w)
    <3>1. \/ Goto(w, "view") /\ UNCHANGED job
          \/ job[w].phase = "schedule" /\ Move(w, "launch", "EXECUTING")
          \/ Return(w)
      BY <2>2 DEF LogTransition
    <3>2. CASE Goto(w, "view") /\ UNCHANGED job
      <4>1. pc'[w] = "view" /\ SameAuthority(w) /\ OthersGoOn(w) /\ pc[w] = "log"
        BY <1>0, <2>2, <3>2, ControlEffects DEF LogTransition
      <4>2. ~Dispatching(w)'
        BY <4>1 DEF Dispatching
      <4>3. QED
        BY <4>1, <4>2, KeepsAuthority
    <3>3. CASE job[w].phase = "schedule" /\ Move(w, "launch", "EXECUTING")
      <4>1. pc'[w] = "select" /\ SameAuthority(w) /\ OthersGoOn(w) /\ pc[w] = "log"
        BY <1>0, <2>2, <3>3, ControlEffects DEF LogTransition
      <4>2. Dispatching(w)
        BY <3>3, <4>1 DEF Dispatching
      <4>3. QED
        BY <4>1, <4>2, KeepsAuthority
    <3>4. QED
      BY <1>2, <3>1, <3>2, <3>3
  <2>3. CASE ReportOutcome(w)
    <3>1. /\ pc'[w] = "select" /\ job'[w].phase = "settle" /\ SameAuthority(w)
          /\ OthersGoOn(w) /\ pc[w] = "report"
      BY <1>0, <2>3, ControlEffects DEF ReportOutcome
    <3>2. ~Dispatching(w)'
      BY <3>1 DEF Dispatching
    <3>3. QED
      BY <3>1, <3>2, KeepsAuthority
  <2>4. CASE Resolve(w)
    <3>1. /\ pc'[w] = "log" /\ job'[w].phase = job[w].phase /\ SameAuthority(w)
          /\ OthersGoOn(w) /\ pc[w] = "resolve"
      BY <1>0, <2>4, ControlEffects DEF Resolve
    <3>2. Dispatching(w)' => Dispatching(w)
      BY <3>1 DEF Dispatching
    <3>3. QED
      BY <3>1, <3>2, KeepsAuthority
  <2>5. QED
    BY <1>5, <2>1, <2>2, <2>3, <2>4 DEF LogAction
<1>6. ASSUME ControlAction(w)
      PROVE  OthersGoOn(w) /\ WriterInv(w)'
  <2>1. ASSUME NEW c \in Cases, NEW p \in Proposals, NEW h \in BOOLEAN,
               Start(w, c, p, h)
        PROVE  OthersGoOn(w) /\ WriterInv(w)'
    <3>1. Exists(c)'
      BY <2>1, PipelineAssumption DEF Start, Begin, Exists, States
    <3>2. QED
      BY <1>3, <2>1, <3>1 DEF Start, Begin
  <2>2. ASSUME NEW c \in Cases, Find(w, c)
        PROVE  OthersGoOn(w) /\ WriterInv(w)'
    <3>1. Exists(c)'
      BY <2>2 DEF Find, Exists
    <3>2. QED
      BY <1>3, <2>2, <3>1 DEF Find
  <2>3. CASE Illegal(w)
    BY <1>2, <2>3 DEF Illegal
  <2>4. CASE Guard(w)
    <3>1. (Goto(w, "view") /\ UNCHANGED job) \/ Move(w, "diagnose", "DIAGNOSED")
      BY <2>4 DEF Guard
    <3>2. /\ pc[w] = "guard" /\ SameAuthority(w) /\ OthersGoOn(w)
          /\ \/ pc'[w] = "view"
             \/ pc'[w] = "select" /\ job'[w].phase = "diagnose"
      BY <1>0, <2>4, <3>1, ControlEffects DEF Guard
    <3>3. ~Dispatching(w)'
      BY <3>2 DEF Dispatching
    <3>4. QED
      BY <3>2, <3>3, KeepsAuthority
  <2>5. CASE ReadCase(w)
    <3>1. /\ pc'[w] = "decide" /\ job'[w].case = job[w].case /\ OthersGoOn(w)
          /\ job'[w].seen = RowView(job[w].case)
          /\ pc[w] = "view" /\ rows' = rows
      BY <1>0, <2>5, ControlEffects DEF ReadCase
    <3>2. job'[w].seen.cohort = rows'[job'[w].case].cohort
      BY <3>1 DEF RowView
    <3>3. QED
      BY <3>1, <3>2 DEF WriterInv, Dispatching, Exists
  <2>6. CASE Authorize(w)
    <3>1. pc[w] = "decide" /\ pc'[w] = "select" /\ SameAuthority(w) /\ OthersGoOn(w)
          /\ rows' = rows
      BY <1>0, <2>6, ControlEffects DEF Authorize
    <3>2. CASE Decide(w) = "ALLOW"
      <4>1. Authorized(w)
        BY <1>0, <3>1, <3>2, AllowAuthorizes DEF WriterInv
      <4>2. Authorized(w)' /\ Exists(job[w].case)'
        BY <3>1, <4>1 DEF Authorized, SameAuthority, CapOf, WriterInv, Exists
      <4>3. QED
        BY <3>1, <4>2 DEF WriterInv, SameAuthority
    <3>3. CASE Decide(w) # "ALLOW"
      <4>1. job'[w].phase = "close"
        BY <1>0, <2>6, <3>3, ControlEffects DEF Authorize
      <4>2. ~Dispatching(w)'
        BY <3>1, <4>1 DEF Dispatching
      <4>3. QED
        BY <3>1, <4>2, KeepsAuthority
    <3>4. QED
      BY <3>2, <3>3
  <2>7. CASE ExecutorReads(w)
    <3>1. /\ pc'[w] = "lookup" /\ pc[w] = "execute" /\ SameAuthority(w)
          /\ OthersGoOn(w)
      BY <1>0, <2>7, ControlEffects DEF ExecutorReads, SameAuthority
    <3>2. Dispatching(w)
      BY <3>1 DEF Dispatching
    <3>3. QED
      BY <3>1, <3>2, KeepsAuthority
  <2>8. CASE Replay(w) \/ Refuse(w) \/ RefuseForNow(w)
    <3>1. /\ pc'[w] = "report" /\ pc[w] = "lookup" /\ SameAuthority(w)
          /\ OthersGoOn(w)
      BY <1>0, <2>8, ControlEffects DEF Replay, Refuse, RefuseForNow, Dispatchable
    <3>2. ~Dispatching(w)'
      BY <3>1 DEF Dispatching
    <3>3. QED
      BY <3>1, <3>2, KeepsAuthority
  <2>9. CASE CheckQuarantined(w)
    <3>1. (Goto(w, "verify") /\ UNCHANGED job) \/ Return(w)
      BY <2>9 DEF CheckQuarantined
    <3>2. CASE Goto(w, "verify") /\ UNCHANGED job
      <4>1. pc'[w] = "verify" /\ pc[w] = "find" /\ SameAuthority(w) /\ OthersGoOn(w)
        BY <1>0, <2>9, <3>2, ControlEffects DEF CheckQuarantined
      <4>2. ~Dispatching(w)'
        BY <4>1 DEF Dispatching
      <4>3. QED
        BY <4>1, <4>2, KeepsAuthority
    <3>3. QED
      BY <1>2, <3>1, <3>2
  <2>10. CASE CheckUncertain(w)
    <3>1. Move(w, "reconcile", Reconciled(job[w].outcome)) \/ Return(w)
      BY <2>10 DEF CheckUncertain
    <3>2. CASE Move(w, "reconcile", Reconciled(job[w].outcome))
      <4>1. /\ pc'[w] = "select" /\ job'[w].phase = "reconcile" /\ pc[w] = "verify"
            /\ SameAuthority(w) /\ OthersGoOn(w)
        BY <1>0, <2>10, <3>2, ControlEffects DEF CheckUncertain
      <4>2. ~Dispatching(w)'
        BY <4>1 DEF Dispatching
      <4>3. QED
        BY <4>1, <4>2, KeepsAuthority
    <3>3. QED
      BY <1>2, <3>1, <3>2
  <2>11. QED
    BY <1>6, <2>1, <2>2, <2>3, <2>4, <2>5, <2>6, <2>7, <2>8, <2>9, <2>10
       DEF ControlAction
<1>7. ASSUME ProviderAction(w) \/ Record(w)
      PROVE  OthersGoOn(w) /\ WriterInv(w)'
  <2>1. /\ pc[w] \in {"lookup", "insert"} /\ pc'[w] \in {"report", "insert"}
        /\ SameAuthority(w) /\ OthersGoOn(w)
    BY <1>0, <1>7, ControlEffects
       DEF ProviderAction, TimeOut, Perform, Record, Dispatchable
  <2>2. ~Dispatching(w)'
    BY <2>1 DEF Dispatching
  <2>3. QED
    BY <2>1, <2>2, KeepsAuthority
<1>8. QED
  BY <1>4, <1>5, <1>6, <1>7

\* Only a writer that was allowed to calls the provider, for its own case and
\* for the attempt it was allowed.
LEMMA ChargeStep ==
  ASSUME TypesInductive, AuthorityInv, [PipelineNext]_vars
  PROVE  \/ UNCHANGED charges
         \/ \E w \in Writers, ok \in BOOLEAN :
              /\ Dispatchable(w) /\ Exists(job[w].case) /\ Authorized(w)
              /\ Charge(w, ok) /\ UNCHANGED rows
<1>1. ASSUME NEW w \in Writers,
             StoreAction(w) \/ LogAction(w) \/ ControlAction(w) \/ Record(w)
      PROVE  UNCHANGED charges
  <2>1. CASE StoreAction(w)
    BY <2>1 DEF StoreAction, Ingest, Select, Update, Conflict, Crash
  <2>2. CASE LogAction(w)
    BY <2>2 DEF LogAction, Announce, LogTransition, ReportOutcome, Resolve
  <2>3. CASE ControlAction(w)
    BY <2>3 DEF ControlAction, Start, Begin, Find, Guard, ReadCase, Authorize, Illegal,
         ExecutorReads, Replay, Refuse, RefuseForNow, CheckQuarantined, CheckUncertain
  <2>4. CASE Record(w)
    BY <2>4 DEF Record
  <2>5. QED
    BY <1>1, <2>1, <2>2, <2>3, <2>4
<1>2. ASSUME NEW w \in Writers, ProviderAction(w)
      PROVE  \/ UNCHANGED charges
             \/ \E ok \in BOOLEAN :
                  /\ Dispatchable(w) /\ Exists(job[w].case) /\ Authorized(w)
                  /\ Charge(w, ok) /\ UNCHANGED rows
  <2>1. Dispatchable(w) /\ UNCHANGED rows
    BY <1>2 DEF ProviderAction, TimeOut, Perform
  <2>2. Exists(job[w].case) /\ Authorized(w)
    BY <2>1 DEF Dispatchable, AuthorityInv, WriterInv, Dispatching
  <2>3. UNCHANGED charges \/ \E ok \in BOOLEAN : Charge(w, ok)
    BY <1>2 DEF ProviderAction, TimeOut, Perform
  <2>4. QED
    BY <2>1, <2>2, <2>3
<1>3. CASE UNCHANGED vars
  BY <1>3 DEF vars
<1>4. QED
  BY <1>1, <1>2, <1>3, PipelineCases

\* Every step preserves the authority invariant ...
LEMMA AuthorityStep ==
  ASSUME TypesInductive, AuthorityInv, [PipelineNext]_vars
  PROVE  AuthorityInv'
<1>1. ASSUME NEW v \in Writers
      PROVE  WriterInv(v)'
  <2>1. WriterInv(v)
    BY DEF AuthorityInv
  <2>2. ASSUME NEW w \in Writers,
               \/ StoreAction(w) \/ LogAction(w) \/ ControlAction(w)
               \/ ProviderAction(w) \/ Record(w)
        PROVE  WriterInv(v)'
    <3>1. OthersGoOn(w) /\ WriterInv(w)'
      BY <2>2, WriterStep DEF AuthorityInv
    <3>2. CASE v = w
      BY <3>1, <3>2
    <3>3. CASE v # w
      <4>1. pc'[v] = pc[v] /\ job'[v] = job[v]
        BY <3>1, <3>3 DEF OthersGoOn
      <4>2. QED
        BY <2>1, <4>1, OthersKeepAuthority
    <3>4. QED
      BY <3>2, <3>3
  <2>3. CASE UNCHANGED vars
    <3>1. pc'[v] = pc[v] /\ job'[v] = job[v]
      BY <2>3 DEF vars
    <3>2. QED
      BY <2>1, <3>1, OthersKeepAuthority
  <2>4. QED
    BY <2>2, <2>3, PipelineCases
<1>2. ASSUME NEW c \in Cases, ~Exists(c)' \/ rows'[c].cohort = "HOLDOUT"
      PROVE  charges'[c] = <<>>
  <2>1. StoreTypeOK /\ [StoreNext]_storeVars
    BY StoreStep DEF TypesInductive, PipelineTypeOK
  <2>2. ~Exists(c) \/ rows[c].cohort = "HOLDOUT"
    BY <1>2, <2>1, RowKept
  <2>3. charges[c] = <<>>
    BY <2>2 DEF AuthorityInv
  <2>4. ASSUME NEW w \in Writers, NEW ok \in BOOLEAN, Exists(job[w].case),
               Authorized(w), Charge(w, ok)
        PROVE  charges'[c] = charges[c]
    <3>1. job[w].case # c
      BY <2>2, <2>4 DEF Authorized
    <3>2. QED
      BY <2>4, <3>1 DEF Charge, TypesInductive, PipelineTypeOK
  <2>5. charges'[c] = charges[c]
    BY <2>4, ChargeStep
  <2>6. QED
    BY <2>3, <2>5
<1>3. QED
  BY <1>1, <1>2 DEF AuthorityInv, Exists

\* ... which holds when nothing has run yet.
LEMMA AuthorityInit == PipelineInit => AuthorityInv
BY DEF PipelineInit, StoreInit, AuthorityInv, WriterInv, Dispatching

\* For any cases, writers, proposals, timeouts and crashes: nothing is ever
\* charged for a holdout case.
THEOREM HoldoutIsControl == PipelineSpec => []HoldoutNeverCharged
<1>1. AuthorityInv => HoldoutNeverCharged
  BY DEF AuthorityInv, HoldoutNeverCharged
<1>2. QED
  BY <1>1, TypesInit, TypesStep, AuthorityInit, AuthorityStep, PTL DEF PipelineSpec

\* What an authorised writer holds still passes the gates at the provider call, also
\* with the keys that are in the actions table by then.
LEMMA StillAllowed ==
  ASSUME TypesInductive, NEW w \in Writers, Authorized(w), Dispatchable(w)
  PROVE  DecisionNow(w) = "ALLOW"
<1> DEFINE c == job[w].case
           v == [CaseView(w) EXCEPT !.state = "DIAGNOSED"]
<1>0. c \in Cases /\ job[w].seen.attempts \in Nat /\ job[w].halted \in BOOLEAN
  BY LocalTypes DEF TypesInductive, View
<1>1. /\ v.state = "DIAGNOSED" /\ v.cohort = job[w].seen.cohort
      /\ v.attempts = job[w].seen.attempts /\ v.keys = ExecutedKeys(c)
      /\ v.method = MethodOf[c] /\ v.amount = AmountOf[c]
  BY DEF CaseView
<1> HIDE DEF v
<1>2. v.state \in ActionableStates
  BY <1>1 DEF ActionableStates
<1>3. ~CapReached(v)
  <2>1. CapByMethod[MethodOf[c]] \in Nat /\ CapOf(c) = CapByMethod[MethodOf[c]]
    BY <1>0, PipelineAssumption, PolicyAssumption DEF CapOf
  <2>2. QED
    BY <1>0, <1>1, <2>1 DEF CapReached, Authorized
<1>4. v.attempts + 1 \notin v.keys
  BY <1>1 DEF Dispatchable, Known, AttemptOf
<1>5. ~EVNotPositive(v)
  BY <1>1 DEF EVNotPositive, Authorized
<1>6. /\ job[w].proposal.action = "RETRY" /\ job[w].proposal.class \notin DenyClasses
      /\ ~(job[w].proposal.confidence < MinConfidence) /\ v.cohort # "HOLDOUT"
      /\ job[w].halted = FALSE
  BY <1>0, <1>1 DEF Authorized
<1>7. DecisionOf(job[w].proposal, v, FALSE) = "ALLOW"
  BY <1>2, <1>3, <1>4, <1>5, <1>6, UngatedIsAllowed
<1>8. QED
  BY <1>6, <1>7 DEF DecisionNow, v

\* Every call of the provider is authorised when it is made: for a treated case, in an
\* executable state, by every other gate of the policy, and for the attempt that
\* is charged.
THEOREM EverySpendIsAuthorized == PipelineSpec => SpendIsAuthorized
<1> DEFINE Spends(c) ==
      charges'[c] # charges[c] =>
       \E w \in Writers :
         /\ WorksOn(w, c)
         /\ rows[c].cohort = "TREATED"
         /\ job[w].seen.state \in ExecutableCaseStates
         /\ DecisionNow(w) = "ALLOW"
         /\ charges'[c][Len(charges'[c])].attempt = AttemptOf(w)
<1>1. TypesInductive /\ AuthorityInv /\ [PipelineNext]_vars
        => [\A c \in Cases : Spends(c)]_vars
  <2> SUFFICES ASSUME TypesInductive, AuthorityInv, [PipelineNext]_vars,
                      NEW c \in Cases, charges'[c] # charges[c]
               PROVE  Spends(c)
    OBVIOUS
  <2>1. PICK w \in Writers, ok \in BOOLEAN :
          Dispatchable(w) /\ Exists(job[w].case) /\ Authorized(w) /\ Charge(w, ok)
    BY ChargeStep
  <2>2. job[w].case = c
    BY <2>1 DEF Charge, TypesInductive, PipelineTypeOK
  <2>3. charges[c] \in Seq(Attempt)
    BY DEF TypesInductive, PipelineTypeOK
  <2>4. charges'[c] = Append(charges[c], [attempt |-> AttemptOf(w), ok |-> ok])
    BY <2>1, <2>2 DEF Charge, TypesInductive, PipelineTypeOK
  <2>5. [attempt |-> AttemptOf(w), ok |-> ok] \in Attempt
    BY LocalTypes DEF Attempt, TypesInductive
  <2>6. charges'[c][Len(charges'[c])] = [attempt |-> AttemptOf(w), ok |-> ok]
    BY <2>3, <2>4, <2>5
  <2>7. charges'[c][Len(charges'[c])].attempt = AttemptOf(w)
    BY <2>6
  <2>8. rows[c].cohort \in Cohorts /\ rows[c].cohort # "HOLDOUT"
    BY <2>1, <2>2 DEF Authorized, TypesInductive, PipelineTypeOK, StoreTypeOK, Row
  <2>9. rows[c].cohort = "TREATED"
    BY <2>8 DEF Cohorts
  <2>10. job[w].seen.state \in ExecutableCaseStates /\ WorksOn(w, c)
    BY <2>1, <2>2 DEF Dispatchable, WorksOn
  <2>11. DecisionNow(w) = "ALLOW"
    BY <2>1, StillAllowed
  <2>12. QED
    BY <2>7, <2>9, <2>10, <2>11
<1>2. QED
  BY <1>1, TypesInit, TypesStep, AuthorityInit, AuthorityStep, PTL
     DEF PipelineSpec, SpendIsAuthorized

----------------------------------------------------------------------------
(* One writer *)

\* The states that process_case() is written to start from.  From QUARANTINED it
\* may charge an attempt of unknown outcome again.
OpenStates == {"DETECTED", "DIAGNOSED", "FAILED_ATTEMPT"}

\* The charges s of a case: of attempt n there is one, and one of them was paid.
HasAttempt(s, n) == \E i \in DOMAIN s : s[i].attempt = n

Paid(s) == \E i \in DOMAIN s : s[i].ok

\* The attempt that the row does not count yet was charged.
Uncounted(row, s) == HasAttempt(s, row.attempts + 1)

\* What relates the charges s of a case to its row, its executed actions, the
\* uncertain attempt u of the log, and its cap: attempt numbers increase, up to one
\* that the row does not count yet; that one is on its way to the row, or the log
\* has its number; success comes last; and nothing is in the actions table that was
\* not charged.
Balanced(row, s, acts, u, cap) ==
  /\ \A i \in DOMAIN s : s[i].attempt <= row.attempts + 1
  /\ \A i, j \in DOMAIN s : i < j => s[i].attempt < s[j].attempt
  /\ Len(s) <= row.attempts \/ (Uncounted(row, s) /\ Len(s) <= row.attempts + 1)
  /\ Len(s) <= cap
  /\ \A i \in DOMAIN s : s[i].ok =>
       i = Len(s) /\ (row.state = "RECOVERED" \/ s[i].attempt = row.attempts + 1)
  /\ Uncounted(row, s) => row.state \in {"EXECUTING", "QUARANTINED"}
  /\ Uncounted(row, s) /\ row.state = "QUARANTINED" => u = row.attempts + 1
  /\ \A a \in acts : HasAttempt(s, a.attempt)
  /\ row.state = "RECOVERED" => Paid(s)

LedgerInv ==
  \A c \in Cases :
    Balanced(rows[c], charges[c], actions[c], log[c].uncertain, CapOf(c))

\* The state that a call is about to write agrees with what was charged.
Fits(row, s, u, target) ==
  /\ target = "RECOVERED" => Paid(s)
  /\ target = "FAILED_ATTEMPT" => ~Paid(s)
  /\ target \notin {"RECOVERED", "FAILED_ATTEMPT", "QUARANTINED"} => ~Uncounted(row, s)
  /\ target = "QUARANTINED" /\ Uncounted(row, s) => u = row.attempts + 1

\* From which states the transitions of a call start, and where they lead.
Course(phase, from, target) ==
  \/ phase = "diagnose" /\ from \in OpenStates \ {"DIAGNOSED"} /\ target = "DIAGNOSED"
  \/ phase = "schedule" /\ from = "DIAGNOSED" /\ target = "SCHEDULED"
  \/ phase = "launch" /\ from = "SCHEDULED" /\ target = "EXECUTING"
  \/ /\ phase = "close" /\ from = "DIAGNOSED"
     /\ target \in {"QUARANTINED", "HOLDOUT_CLOSED", "ABANDONED"}
  \/ /\ phase = "settle" /\ from = "EXECUTING"
     /\ target \in {"RECOVERED", "FAILED_ATTEMPT", "SCHEDULED", "QUARANTINED"}
  \/ /\ phase = "reconcile" /\ from = "QUARANTINED"
     /\ target \in {"RECOVERED", "FAILED_ATTEMPT", "DIAGNOSED"}

\* What the only writer, at statement l with locals j, knows of the row, charges and
\* uncertain attempt of its case.
KnowsAt(l, j, row, s, u) ==
  /\ l = "guard" => row.state \in OpenStates
  /\ l \in {"view", "decide"} => row.state = "DIAGNOSED"
  /\ l \in {"select", "update"} =>
       Course(j.phase, row.state, j.target) /\ Fits(row, s, u, j.target)
  /\ l = "log" =>
       /\ j.phase # "launch"
       /\ j.phase = "diagnose" => row.state = "DIAGNOSED"
       /\ j.phase = "schedule" => row.state = "SCHEDULED"
  /\ \/ l \in {"decide", "execute", "lookup", "insert", "report"}
     \/ l \in {"select", "update", "log"} /\ j.phase \in {"schedule", "launch"}
     => j.seen.attempts = row.attempts
  /\ l \in {"execute", "lookup", "insert", "report"} => row.state = "EXECUTING"
  /\ l \in {"execute", "lookup"} => ~Uncounted(row, s)
  /\ l = "lookup" => j.seen.state = "EXECUTING"
  /\ l = "insert" => Uncounted(row, s)
  /\ l \in {"insert", "report"} =>
       /\ j.outcome \in {"SUCCEEDED", "FAILED", "RETRYABLE", "UNCERTAIN"}
       /\ j.outcome = "SUCCEEDED" => Paid(s)
       /\ j.outcome = "FAILED" => ~Paid(s)
       /\ j.outcome = "RETRYABLE" => ~Uncounted(row, s)
  /\ l \in {"find", "verify"} =>
       row.state = "QUARANTINED" /\ Fits(row, s, u, Reconciled(j.outcome))
  /\ l = "resolve" => j.phase = "reconcile" /\ row.state # "QUARANTINED"

Knows(w) ==
  KnowsAt(pc[w], job[w], rows[job[w].case], charges[job[w].case],
          log[job[w].case].uncertain)

\* The open call of transition() is that of the running call.
CallMatches(w) ==
  \A p \in pending :
    /\ p.writer = w /\ pc[w] = "update" /\ p.case = job[w].case /\ p.to = job[w].target
    /\ p.counts = Spent(p.to)

SoloInv(w) == LedgerInv /\ Knows(w) /\ CallMatches(w)

----------------------------------------------------------------------------
(* The books of one case *)

\* The charges of a case are attempts.
LEMMA ChargesAre ==
  ASSUME NEW s \in Seq(Attempt)
  PROVE  /\ DOMAIN s = 1 .. Len(s) /\ Len(s) \in Nat
         /\ \A i \in DOMAIN s : s[i] \in Attempt /\ s[i].attempt \in Nat
<1>1. DOMAIN s = 1 .. Len(s) /\ Len(s) \in Nat
  OBVIOUS
<1>2. \A i \in 1 .. Len(s) : s[i] \in Attempt
  OBVIOUS
<1>3. \A x \in Attempt : x.attempt \in Nat
  BY DEF Attempt
<1>4. QED
  BY <1>1, <1>2, <1>3

\* One more charge.
LEMMA AppendedCharge ==
  ASSUME NEW s \in Seq(Attempt), NEW last \in Attempt, NEW t, t = Append(s, last)
  PROVE  /\ HasAttempt(t, last.attempt)
         /\ \A n : HasAttempt(s, n) => HasAttempt(t, n)
         /\ Paid(t) => Paid(s) \/ last.ok
         /\ last.ok => Paid(t)
<1>1. /\ DOMAIN t = 1 .. Len(s) + 1 /\ DOMAIN s = 1 .. Len(s) /\ Len(s) \in Nat
      /\ \A i \in DOMAIN s : t[i] = s[i]
      /\ t[Len(s) + 1] = last
  OBVIOUS
<1>2. QED
  BY <1>1 DEF HasAttempt, Paid

\* An attempt that is charged when none is uncounted, and within the cap.
LEMMA ChargeBalances ==
  ASSUME NEW row \in Row, NEW s \in Seq(Attempt), NEW acts, NEW u, NEW cap \in Nat,
         Balanced(row, s, acts, u, cap), row.state = "EXECUTING", ~Uncounted(row, s),
         row.attempts < cap, NEW last \in Attempt, last.attempt = row.attempts + 1,
         NEW t, t = Append(s, last)
  PROVE  Balanced(row, t, acts, u, cap)
<1> DEFINE n == row.attempts
<1>1. n \in Nat /\ last \in Attempt
  BY DEF Row
<1>2. /\ t \in Seq(Attempt) /\ Len(t) = Len(s) + 1 /\ Len(s) \in Nat
      /\ DOMAIN t = 1 .. Len(s) + 1 /\ DOMAIN s = 1 .. Len(s)
      /\ \A i \in DOMAIN s : t[i] = s[i]
      /\ t[Len(s) + 1] = last
  BY <1>1
<1>3. last.attempt = n + 1
  OBVIOUS
<1>4. \A i \in DOMAIN s : s[i] \in Attempt /\ s[i].attempt \in Nat
  BY ChargesAre
<1>5. \A i \in DOMAIN s : s[i].attempt <= n /\ ~s[i].ok
  <2>1. TAKE i \in DOMAIN s
  <2>2. s[i].attempt <= n + 1 /\ s[i].attempt # n + 1
    BY DEF Balanced, Uncounted, HasAttempt
  <2>3. s[i].attempt <= n
    BY <1>1, <1>4, <2>2
  <2>4. ~s[i].ok
    BY <2>2 DEF Balanced
  <2>5. QED
    BY <2>3, <2>4
<1>6. Uncounted(row, t)
  BY <1>3, AppendedCharge DEF Uncounted
<1>7. \A k : HasAttempt(s, k) => HasAttempt(t, k)
  BY AppendedCharge
<1>8. \A i \in DOMAIN t : t[i].attempt <= n + 1
  BY <1>1, <1>2, <1>3, <1>4, <1>5
<1>9. \A i, j \in DOMAIN t : i < j => t[i].attempt < t[j].attempt
  <2>1. TAKE i, j \in DOMAIN t
  <2>2. HAVE i < j
  <2>3. i \in DOMAIN s /\ t[i] = s[i]
    BY <1>2, <2>2
  <2>4. CASE j \in DOMAIN s
    BY <1>2, <2>2, <2>3, <2>4 DEF Balanced
  <2>5. CASE j = Len(s) + 1
    BY <1>1, <1>2, <1>3, <1>4, <1>5, <2>3, <2>5
  <2>6. QED
    BY <1>2, <2>4, <2>5
<1>10. Len(t) <= n + 1 /\ Len(t) <= cap
  BY <1>1, <1>2 DEF Balanced
<1>11. \A i \in DOMAIN t : t[i].ok => i = Len(t) /\ t[i].attempt = n + 1
  BY <1>2, <1>3, <1>5
<1>12. QED
  BY <1>6, <1>7, <1>8, <1>9, <1>10, <1>11 DEF Balanced

\* A row is written that agrees with what was charged.
LEMMA WriteBalances ==
  ASSUME NEW row \in Row, NEW new \in Row, NEW s \in Seq(Attempt), NEW acts, NEW u,
         NEW cap \in Nat, Balanced(row, s, acts, u, cap), row.state # "RECOVERED",
         NEW target, new.state = target, Fits(row, s, u, target),
         new.attempts = row.attempts + (IF Spent(target) THEN 1 ELSE 0)
  PROVE  Balanced(new, s, acts, u, cap)
<1> DEFINE n == row.attempts
<1>1. n \in Nat /\ new.attempts \in Nat /\ Len(s) \in Nat
  BY DEF Row
<1>2. \A i \in DOMAIN s : s[i].attempt \in Nat
  BY ChargesAre
<1>3. CASE Spent(target)
  <2>1. new.attempts = n + 1 /\ target \in {"RECOVERED", "FAILED_ATTEMPT"}
    BY <1>3 DEF Spent
  <2>2. \A i \in DOMAIN s : s[i].attempt <= n + 1
    BY DEF Balanced
  <2>3. ~Uncounted(new, s)
    BY <1>1, <1>2, <2>1, <2>2 DEF Uncounted, HasAttempt
  <2>4. Len(s) <= new.attempts
    BY <1>1, <2>1 DEF Balanced
  <2>5. \A i \in DOMAIN s : s[i].ok => i = Len(s) /\ target = "RECOVERED"
    BY <2>1 DEF Balanced, Fits, Paid
  <2>6. \A i \in DOMAIN s : s[i].attempt <= new.attempts + 1
    BY <1>1, <1>2, <2>1, <2>2
  <2>7. QED
    BY <2>3, <2>4, <2>5, <2>6 DEF Balanced, Fits
<1>4. CASE ~Spent(target)
  <2>1. new.attempts = n /\ target \notin {"RECOVERED", "FAILED_ATTEMPT"}
    BY <1>1, <1>4 DEF Spent
  <2>2. Uncounted(new, s) <=> Uncounted(row, s)
    BY <2>1 DEF Uncounted
  <2>3. Uncounted(row, s) => target = "QUARANTINED" /\ u = n + 1
    BY <2>1 DEF Fits
  <2>4. QED
    BY <2>1, <2>2, <2>3 DEF Balanced
<1>5. QED
  BY <1>3, <1>4

\* What the provider tells about an uncertain attempt agrees with what was charged.
LEMMA VerifiedFits ==
  ASSUME PipelineTypeOK, LedgerInv, NEW c \in Cases, rows[c].state = "QUARANTINED"
  PROVE  Fits(rows[c], charges[c], log[c].uncertain, Reconciled(VerifiedOutcome(c)))
<1> DEFINE s == charges[c]
           u == log[c].uncertain
           done == {i \in DOMAIN s : s[i].attempt = u}
<1>1. Balanced(rows[c], s, actions[c], u, CapOf(c))
  BY DEF LedgerInv
<1>2. Uncounted(rows[c], s) => \E i \in done : s[i].attempt = rows[c].attempts + 1
  BY <1>1 DEF Balanced, Uncounted, HasAttempt
<1>3. \A i \in DOMAIN s : s[i].ok => i \in done
  <2>1. SUFFICES ASSUME NEW i \in DOMAIN s, s[i].ok PROVE i \in done
    OBVIOUS
  <2>2. s[i].attempt = rows[c].attempts + 1
    BY <1>1, <2>1 DEF Balanced
  <2>3. Uncounted(rows[c], s)
    BY <2>2 DEF Uncounted, HasAttempt
  <2>4. QED
    BY <1>1, <2>2, <2>3 DEF Balanced
<1>4. CASE done = {}
  <2>1. Reconciled(VerifiedOutcome(c)) = "DIAGNOSED"
    BY <1>4 DEF VerifiedOutcome, Reconciled
  <2>2. QED
    BY <1>2, <1>4, <2>1 DEF Fits
<1>5. CASE \E i \in done : s[i].ok
  <2>1. VerifiedOutcome(c) = "SUCCEEDED"
    BY <1>5 DEF VerifiedOutcome
  <2>2. Reconciled(VerifiedOutcome(c)) = "RECOVERED"
    BY <2>1 DEF Reconciled
  <2>3. Paid(s)
    BY <1>5 DEF Paid
  <2>4. QED
    BY <2>2, <2>3 DEF Fits
<1>6. CASE done # {} /\ ~\E i \in done : s[i].ok
  <2>1. VerifiedOutcome(c) = "FAILED"
    BY <1>6 DEF VerifiedOutcome
  <2>2. Reconciled(VerifiedOutcome(c)) = "FAILED_ATTEMPT"
    BY <2>1 DEF Reconciled
  <2>3. ~Paid(s)
    BY <1>3, <1>6 DEF Paid
  <2>4. QED
    BY <2>2, <2>3 DEF Fits
<1>7. QED
  BY <1>4, <1>5, <1>6

----------------------------------------------------------------------------
(* Every step of the only writer *)

\* What the only writer is assumed to be: alone, and calling process_case() for
\* open cases.
Alone(w) == Writers = {w} /\ StartStates \subseteq OpenStates

\* Goto sets the next statement.
LEMMA GotoEffect ==
  ASSUME PipelineTypeOK, NEW w \in Writers, NEW l, Goto(w, l)
  PROVE  pc'[w] = l
BY DEF Goto, PipelineTypeOK

\* The locals a call goes on with are those it is given.
LEMMA LocalsOf ==
  ASSUME NEW w, NEW ph, NEW to, NEW s, NEW o, NEW j, j = JobWith(w, ph, to, s, o)
  PROVE  j.case = job[w].case /\ j.phase = ph /\ j.target = to /\ j.seen = s /\ j.outcome = o
BY DEF JobWith

\* Move asks transition() for an edge and keeps what the call has read.
LEMMA MoveEffect ==
  ASSUME PipelineTypeOK, NEW w \in Writers, NEW ph, NEW to, Move(w, ph, to)
  PROVE  /\ pc'[w] = "select" /\ job'[w].case = job[w].case /\ job'[w].phase = ph
         /\ job'[w].target = to /\ job'[w].seen = job[w].seen
         /\ job'[w].outcome = job[w].outcome
<1>1. job'[w] = JobWith(w, ph, to, job[w].seen, job[w].outcome)
  BY DEF Move, PipelineTypeOK
<1>2. QED
  BY <1>1, GotoEffect, LocalsOf DEF Move

\* Saw changes what the call has read, and nothing else.
LEMMA SawEffect ==
  ASSUME PipelineTypeOK, NEW w \in Writers, NEW s, Saw(w, s)
  PROVE  /\ job'[w].case = job[w].case /\ job'[w].phase = job[w].phase
         /\ job'[w].target = job[w].target /\ job'[w].seen = s
         /\ job'[w].outcome = job[w].outcome
<1>1. job'[w] = JobWith(w, job[w].phase, job[w].target, s, job[w].outcome)
  BY DEF Saw, PipelineTypeOK
<1>2. QED
  BY <1>1, LocalsOf

\* Got changes the outcome the call reports, and nothing else.
LEMMA GotEffect ==
  ASSUME PipelineTypeOK, NEW w \in Writers, NEW o, Got(w, o)
  PROVE  /\ job'[w].case = job[w].case /\ job'[w].phase = job[w].phase
         /\ job'[w].target = job[w].target /\ job'[w].seen = job[w].seen
         /\ job'[w].outcome = o
<1>1. job'[w] = JobWith(w, job[w].phase, job[w].target, job[w].seen, o)
  BY DEF Got, PipelineTypeOK
<1>2. QED
  BY <1>1, LocalsOf

\* The call that an UPDATE closes is that of the running call.
LEMMA UpdateWrites ==
  ASSUME TypesInductive, NEW w \in Writers, SoloInv(w), Update(w)
  PROVE  LET c == job[w].case
             to == job[w].target
         IN  /\ rows' = [rows EXCEPT ![c] =
                    [state |-> to, cohort |-> rows[c].cohort,
                     attempts |-> rows[c].attempts + (IF Spent(to) THEN 1 ELSE 0),
                     version |-> rows[c].version + 1]]
             /\ pending' = {}
             /\ UNCHANGED <<actions, log, charges, job>>
             /\ pc'[w] = AfterUpdate(w)
<1>1. PICK p \in pending : p.writer = w /\ UpdateRow(p)
  BY DEF Update
<1>2. p.case = job[w].case /\ p.to = job[w].target /\ p.counts = Spent(job[w].target)
  BY DEF SoloInv, CallMatches
<1>3. \A q \in pending : q = p
  BY <1>1 DEF SoloInv, CallMatches, TypesInductive, OneCallPerWriter
<1>4. pc'[w] = AfterUpdate(w) /\ UNCHANGED <<actions, log, charges, job>>
  BY GotoEffect DEF Update, TypesInductive
<1>5. pending' = {}
  BY <1>1, <1>3 DEF UpdateRow
<1>6. QED
  BY <1>1, <1>2, <1>4, <1>5 DEF UpdateRow, Written, Counted

\* The books of every case stay balanced.
LEMMA LedgerStep ==
  ASSUME TypesInductive, AuthorityInv, NEW w \in Writers, SoloInv(w),
         \/ StoreAction(w) \/ LogAction(w) \/ ControlAction(w)
         \/ ProviderAction(w) \/ Record(w)
  PROVE  LedgerInv'
<1> DEFINE c == job[w].case
<1>0. /\ c \in Cases /\ rows[c] \in Row /\ charges[c] \in Seq(Attempt)
      /\ CapOf(c) \in Nat /\ PipelineTypeOK
      /\ rows \in [Cases -> Row] /\ charges \in [Cases -> Seq(Attempt)]
      /\ log \in [Cases -> LogEntry] /\ actions \in [Cases -> SUBSET Attempt]
  BY LocalTypes, PipelineAssumption, PolicyAssumption
     DEF TypesInductive, CapOf, PipelineTypeOK, StoreTypeOK
<1>1. \A d \in Cases :
        Balanced(rows[d], charges[d], actions[d], log[d].uncertain, CapOf(d))
  BY DEF SoloInv, LedgerInv
<1>2. KnowsAt(pc[w], job[w], rows[c], charges[c], log[c].uncertain)
  BY DEF SoloInv, Knows
<1>3. CASE UNCHANGED <<rows, charges, actions, log>>
  BY <1>1, <1>3 DEF LedgerInv, CapOf
<1>4. ASSUME \A d \in Cases \ {c} :
               /\ rows'[d] = rows[d] /\ charges'[d] = charges[d]
               /\ actions'[d] = actions[d] /\ log'[d].uncertain = log[d].uncertain,
             Balanced(rows'[c], charges'[c], actions'[c], log'[c].uncertain, CapOf(c))
      PROVE  LedgerInv'
  <2>1. ASSUME NEW d \in Cases
        PROVE  Balanced(rows'[d], charges'[d], actions'[d], log'[d].uncertain, CapOf(d))
    BY <1>1, <1>4
  <2>2. QED
    BY <2>1 DEF LedgerInv, CapOf
<1>5. ASSUME NEW d \in Cases, NEW k \in Cohorts, Ingest(w, d, k)
      PROVE  LedgerInv'
  <2>1. /\ ~Exists(d) /\ rows' = [rows EXCEPT ![d] = NewRow(k)]
        /\ UNCHANGED <<charges, actions, log>>
    BY <1>5 DEF Ingest, CreateCase
  <2>2. charges[d] = <<>>
    BY <2>1 DEF AuthorityInv
  <2>3. NewRow(k).state = "DETECTED" /\ NewRow(k).attempts = 0
    BY DEF NewRow
  <2>4. CapOf(d) \in Nat
    BY PipelineAssumption, PolicyAssumption DEF CapOf
  <2>5. Balanced(rows[d], <<>>, actions[d], log[d].uncertain, CapOf(d))
    BY <1>1, <2>2
  <2>6. Balanced(NewRow(k), <<>>, actions[d], log[d].uncertain, CapOf(d))
    <3>1. \A n : ~HasAttempt(<<>>, n)
      BY DEF HasAttempt
    <3>2. QED
      BY <2>3, <2>4, <2>5, <3>1 DEF Balanced, Uncounted
  <2>7. ASSUME NEW e \in Cases
        PROVE  Balanced(rows'[e], charges'[e], actions'[e], log'[e].uncertain, CapOf(e))
    BY <1>0, <1>1, <2>1, <2>2, <2>6
  <2>8. QED
    BY <2>7 DEF LedgerInv, CapOf
<1>6. CASE Update(w)
  <2> DEFINE to == job[w].target
             new == [state |-> to, cohort |-> rows[c].cohort,
                     attempts |-> rows[c].attempts + (IF Spent(to) THEN 1 ELSE 0),
                     version |-> rows[c].version + 1]
  <2>1. rows' = [rows EXCEPT ![c] = new] /\ UNCHANGED <<actions, log, charges>>
    BY <1>6, UpdateWrites
  <2>2. pc[w] = "update"
    BY <1>6 DEF Update
  <2>3. /\ Course(job[w].phase, rows[c].state, to)
        /\ Fits(rows[c], charges[c], log[c].uncertain, to)
    BY <1>2, <2>2 DEF KnowsAt
  <2>4. rows[c].state # "RECOVERED"
    BY <2>3 DEF Course, OpenStates
  <2>5. new \in Row
    BY <1>0, LocalTypes DEF Row
  <2>6. /\ new.state = to
        /\ new.attempts = rows[c].attempts + (IF Spent(to) THEN 1 ELSE 0)
    OBVIOUS
  <2> HIDE DEF new
  <2>7. Balanced(new, charges[c], actions[c], log[c].uncertain, CapOf(c))
    BY <1>0, <1>1, <2>3, <2>4, <2>5, <2>6, WriteBalances
  <2>8. QED
    BY <1>0, <1>4, <2>1, <2>7
<1>7. CASE StoreAction(w)
  <2>1. Select(w) \/ Conflict(w) \/ Crash(w) => UNCHANGED <<rows, charges, actions, log>>
    BY DEF Select, SelectRow, Conflict, LoseRace, Crash
  <2>2. QED
    BY <1>3, <1>5, <1>6, <1>7, <2>1 DEF StoreAction
<1>8. CASE LogAction(w)
  <2>0. UNCHANGED <<rows, charges, actions>>
    BY <1>8 DEF LogAction, Announce, LogTransition, ReportOutcome, Resolve
  <2>1. CASE Announce(w) \/ LogTransition(w)
    <3>1. log[c] \in LogEntry
      BY <1>0
    <3>2. \/ log' = [log EXCEPT ![c] = [log[c] EXCEPT !.cohort = rows[c].cohort]]
          \/ log' = [log EXCEPT ![c] = [log[c] EXCEPT !.state = job[w].target]]
      BY <2>1 DEF Announce, LogTransition
    <3>3. \A x : /\ [log[c] EXCEPT !.cohort = x].uncertain = log[c].uncertain
                 /\ [log[c] EXCEPT !.state = x].uncertain = log[c].uncertain
      BY <3>1 DEF LogEntry
    <3>4. \A d \in Cases : log'[d].uncertain = log[d].uncertain
      <4>1. log'[c].uncertain = log[c].uncertain
        <5>1. \/ log'[c] = [log[c] EXCEPT !.cohort = rows[c].cohort]
              \/ log'[c] = [log[c] EXCEPT !.state = job[w].target]
          BY <1>0, <3>2
        <5>2. QED
          BY <3>3, <5>1
      <4>2. \A d \in Cases \ {c} : log'[d] = log[d]
        BY <1>0, <3>2
      <4>3. QED
        BY <4>1, <4>2
    <3>5. QED
      BY <1>0, <1>1, <1>4, <2>0, <3>4
  <2>2. CASE ReportOutcome(w) \/ Resolve(w)
    <3>1. \A d \in Cases \ {c} : log'[d].uncertain = log[d].uncertain
      BY <1>0, <2>2 DEF ReportOutcome, Resolve, LogEntry
    <3>2. rows[c].state # "QUARANTINED"
      BY <1>2, <2>2 DEF ReportOutcome, Resolve, KnowsAt
    <3>3. Balanced(rows[c], charges[c], actions[c], log'[c].uncertain, CapOf(c))
      BY <1>0, <1>1, <3>2 DEF Balanced
    <3>4. QED
      BY <1>4, <2>0, <3>1, <3>3
  <2>3. QED
    BY <1>8, <2>1, <2>2 DEF LogAction
<1>9. CASE ControlAction(w)
  <2>1. UNCHANGED <<rows, charges, actions, log>>
    BY <1>9 DEF ControlAction, Start, Begin, Find, Guard, ReadCase, Authorize, Illegal,
         ExecutorReads, Replay, Refuse, RefuseForNow, CheckQuarantined, CheckUncertain
  <2>2. QED
    BY <1>3, <2>1
<1>10. CASE ProviderAction(w)
  <2>1. /\ UNCHANGED <<rows, actions, log>> /\ pc[w] = "lookup"
        /\ UNCHANGED charges \/ \E ok \in BOOLEAN : Charge(w, ok)
    BY <1>10 DEF ProviderAction, TimeOut, Perform, Dispatchable
  <2>2. ASSUME NEW ok \in BOOLEAN, Charge(w, ok)
        PROVE  LedgerInv'
    <3>1. charges' = [charges EXCEPT ![c] =
            Append(charges[c], [attempt |-> AttemptOf(w), ok |-> ok])]
      BY <2>2 DEF Charge
    <3>2. Authorized(w)
      BY <2>1 DEF AuthorityInv, WriterInv, Dispatching
    <3>3. /\ rows[c].state = "EXECUTING" /\ ~Uncounted(rows[c], charges[c])
          /\ job[w].seen.attempts = rows[c].attempts
      BY <1>2, <2>1 DEF KnowsAt
    <3>4. rows[c].attempts < CapOf(c) /\ AttemptOf(w) = rows[c].attempts + 1
      BY <3>2, <3>3 DEF Authorized, AttemptOf
    <3> DEFINE last == [attempt |-> AttemptOf(w), ok |-> ok]
               paid == Append(charges[c], last)
    <3>5. /\ charges' = [charges EXCEPT ![c] = paid]
          /\ last \in Attempt /\ last.attempt = rows[c].attempts + 1
      BY <1>0, <3>1, <3>4, LocalTypes DEF Attempt
    <3>6. paid = Append(charges[c], last)
      OBVIOUS
    <3> HIDE DEF last, paid
    <3>7. Balanced(rows[c], charges[c], actions[c], log[c].uncertain, CapOf(c))
      BY <1>0, <1>1
    <3>8. Balanced(rows[c], paid, actions[c], log[c].uncertain, CapOf(c))
      <4>1. /\ rows[c] \in Row /\ charges[c] \in Seq(Attempt) /\ CapOf(c) \in Nat
            /\ rows[c].state = "EXECUTING" /\ ~Uncounted(rows[c], charges[c])
            /\ rows[c].attempts < CapOf(c)
            /\ last \in Attempt /\ last.attempt = rows[c].attempts + 1
        BY <1>0, <3>3, <3>4, <3>5
      <4>2. QED
        BY <4>1, <3>6, <3>7, ChargeBalances
    <3>9. QED
      BY <1>0, <1>4, <2>1, <3>5, <3>8
  <2>3. QED
    BY <1>3, <2>1, <2>2
<1>11. CASE Record(w)
  <2> DEFINE kept == {a \in actions[c] : a.attempt # AttemptOf(w)}
             done == [attempt |-> AttemptOf(w), ok |-> job[w].outcome = "SUCCEEDED"]
  <2>1. /\ actions' = [actions EXCEPT ![c] = kept \cup {done}]
        /\ UNCHANGED <<rows, charges, log>> /\ pc[w] = "insert"
    BY <1>11 DEF Record
  <2>2. Uncounted(rows[c], charges[c]) /\ job[w].seen.attempts = rows[c].attempts
    BY <1>2, <2>1 DEF KnowsAt
  <2>3. HasAttempt(charges[c], AttemptOf(w))
    BY <2>2 DEF Uncounted, AttemptOf
  <2>4. \A a \in kept \cup {done} : HasAttempt(charges[c], a.attempt)
    BY <1>0, <1>1, <2>3 DEF Balanced
  <2>5. Balanced(rows[c], charges[c], kept \cup {done}, log[c].uncertain, CapOf(c))
    BY <1>0, <1>1, <2>4 DEF Balanced
  <2>6. QED
    BY <1>0, <1>4, <2>1, <2>5
<1>12. QED
  BY <1>7, <1>8, <1>9, <1>10, <1>11

\* The only open call is that of the only writer.
LEMMA CallStep ==
  ASSUME TypesInductive, NEW w \in Writers, SoloInv(w),
         \/ StoreAction(w) \/ LogAction(w) \/ ControlAction(w)
         \/ ProviderAction(w) \/ Record(w)
  PROVE  CallMatches(w)'
<1>1. pc[w] # "update" => pending = {}
  BY DEF SoloInv, CallMatches
<1>2. CASE pending' = {}
  BY <1>2 DEF CallMatches
<1>3. CASE LogAction(w) \/ ControlAction(w) \/ ProviderAction(w) \/ Record(w)
  <2>1. pending' = pending
    BY <1>3, StoreUntouched DEF storeVars
  <2>2. pc[w] # "update"
    <3>1. CASE LogAction(w)
      BY <3>1 DEF LogAction, Announce, LogTransition, ReportOutcome, Resolve
    <3>2. CASE ControlAction(w)
      BY <3>2 DEF ControlAction, Start, Begin, Find, Guard, ReadCase, Authorize, Illegal,
           ExecutorReads, Replay, Refuse, RefuseForNow, CheckQuarantined,
           CheckUncertain, Dispatchable
    <3>3. CASE ProviderAction(w) \/ Record(w)
      BY <3>3 DEF ProviderAction, TimeOut, Perform, Record, Dispatchable
    <3>4. QED
      BY <1>3, <3>1, <3>2, <3>3
  <2>3. QED
    BY <1>1, <1>2, <2>1, <2>2
<1>4. CASE Update(w)
  BY <1>2, <1>4, UpdateWrites
<1>5. CASE Select(w)
  <2>1. pending = {} /\ pc'[w] = "update" /\ job' = job
    BY <1>1, <1>5, GotoEffect DEF Select, TypesInductive
  <2>2. PICK v \in Nat : pending' = pending \cup
          {[writer |-> w, case |-> job[w].case, from |-> rows[job[w].case].state,
            to |-> job[w].target, counts |-> Spent(job[w].target), version |-> v]}
    <3>1. rows[job[w].case].version \in Nat
      BY LocalTypes DEF Row, TypesInductive
    <3>2. QED
      BY <1>5, <3>1 DEF Select, SelectRow
  <2>3. QED
    BY <2>1, <2>2 DEF CallMatches
<1>6. CASE Conflict(w) \/ Crash(w)
  <2>1. \A p \in pending : p.writer = w
    BY DEF SoloInv, CallMatches
  <2>2. CASE Crash(w)
    BY <1>2, <2>1, <2>2 DEF Crash
  <2>3. CASE Conflict(w)
    <3>1. PICK p \in pending : p.writer = w /\ pending' = pending \ {p}
      BY <2>3 DEF Conflict, LoseRace
    <3>2. pending' = {}
      BY <2>1, <3>1 DEF TypesInductive, OneCallPerWriter
    <3>3. QED
      BY <1>2, <3>2
  <2>4. QED
    BY <1>6, <2>2, <2>3
<1>7. CASE \E c \in Cases, k \in Cohorts : Ingest(w, c, k)
  <2>1. pc[w] = "idle" /\ pending' = pending
    BY <1>7 DEF Ingest, CreateCase
  <2>2. QED
    BY <1>1, <1>2, <2>1
<1>8. QED
  BY <1>3, <1>4, <1>5, <1>6, <1>7 DEF StoreAction

\* A call that is over knows nothing.
LEMMA IdleKnows ==
  ASSUME PipelineTypeOK, NEW w \in Writers, pc'[w] \in {"idle", "announce"}
  PROVE  Knows(w)'
<1>1. \A j, row, s, u : /\ KnowsAt("idle", j, row, s, u)
                        /\ KnowsAt("announce", j, row, s, u)
  BY DEF KnowsAt
<1>2. QED
  BY <1>1 DEF Knows

\* A transition that starts, with what was known before it.
LEMMA MoveKnows ==
  ASSUME PipelineTypeOK, NEW w \in Writers, NEW ph, NEW to, Move(w, ph, to),
         UNCHANGED <<rows, charges>>,
         NEW row, row = rows[job[w].case], NEW s, s = charges[job[w].case],
         NEW u, u = log'[job[w].case].uncertain,
         Course(ph, row.state, to), Fits(row, s, u, to),
         ph \in {"schedule", "launch"} => job[w].seen.attempts = row.attempts
  PROVE  Knows(w)'
<1>1. /\ pc'[w] = "select" /\ job'[w].case = job[w].case /\ job'[w].phase = ph
      /\ job'[w].target = to /\ job'[w].seen = job[w].seen
  BY MoveEffect
<1>2. KnowsAt("select", job'[w], row, s, u)
  BY <1>1 DEF KnowsAt
<1>3. QED
  BY <1>1, <1>2 DEF Knows

\* What the only writer knows stays true.
LEMMA KnowsStep ==
  ASSUME TypesInductive, AuthorityInv, NEW w \in Writers, Alone(w), SoloInv(w),
         \/ StoreAction(w) \/ LogAction(w) \/ ControlAction(w)
         \/ ProviderAction(w) \/ Record(w)
  PROVE  Knows(w)'
<1> DEFINE c == job[w].case
           row == rows[c]
           s == charges[c]
           u == log[c].uncertain
<1>0. /\ c \in Cases /\ row \in Row /\ s \in Seq(Attempt)
      /\ CapOf(c) \in Nat /\ PipelineTypeOK
      /\ rows \in [Cases -> Row] /\ charges \in [Cases -> Seq(Attempt)]
      /\ log \in [Cases -> LogEntry] /\ log[c] \in LogEntry
  BY LocalTypes, PipelineAssumption, PolicyAssumption
     DEF TypesInductive, CapOf, PipelineTypeOK, StoreTypeOK
<1>1. \A d \in Cases :
        Balanced(rows[d], charges[d], actions[d], log[d].uncertain, CapOf(d))
  BY DEF SoloInv, LedgerInv
<1>2. KnowsAt(pc[w], job[w], row, s, u)
  BY DEF SoloInv, Knows
<1>3. row.state \notin {"EXECUTING", "QUARANTINED"} => ~Uncounted(row, s)
  BY <1>0, <1>1 DEF Balanced
<1>4. CASE pc'[w] \in {"idle", "announce"}
  BY <1>0, <1>4, IdleKnows
<1>5. ASSUME NEW l, pc'[w] = l, job'[w].case = c, rows'[c] = row, charges'[c] = s,
             log'[c].uncertain = u, KnowsAt(l, job'[w], row, s, u)
      PROVE  Knows(w)'
  BY <1>5 DEF Knows
<1>6. ASSUME NEW d \in Cases, NEW h, NEW p, NEW o, NEW l \in {"guard", "find"},
             job' = [job EXCEPT ![w] = NewJob(d, h, p, o)], Goto(w, l),
             UNCHANGED <<rows, charges, log>>,
             l = "guard" => rows[d].state \in OpenStates,
             l = "find" => /\ rows[d].state = "QUARANTINED"
                           /\ Fits(rows[d], charges[d], log[d].uncertain, Reconciled(o))
      PROVE  Knows(w)'
  <2>1. pc'[w] = l
    BY <1>0, <1>6, GotoEffect
  <2>2. job'[w] = NewJob(d, h, p, o)
    BY <1>0, <1>6 DEF PipelineTypeOK
  <2>3. job'[w].case = d /\ job'[w].outcome = o
    BY <2>2 DEF NewJob
  <2>4. KnowsAt(l, job'[w], rows[d], charges[d], log[d].uncertain)
    BY <1>6, <2>3 DEF KnowsAt
  <2>5. QED
    BY <1>6, <2>1, <2>3, <2>4 DEF Knows
<1>7. CASE StoreAction(w)
  <2>1. CASE \E d \in Cases, k \in Cohorts : Ingest(w, d, k)
    <3>1. pc'[w] = "announce"
      BY <1>0, <2>1, GotoEffect DEF Ingest
    <3>2. QED
      BY <1>4, <3>1
  <2>2. CASE Select(w)
    <3>1. /\ pc[w] = "select" /\ pc'[w] = "update" /\ job' = job
          /\ UNCHANGED <<rows, charges, log>>
      BY <1>0, <2>2, GotoEffect DEF Select, SelectRow
    <3>2. KnowsAt("update", job'[w], row, s, u)
      BY <1>2, <3>1 DEF KnowsAt
    <3>3. QED
      BY <1>5, <3>1, <3>2
  <2>3. CASE Update(w)
    <3> DEFINE to == job[w].target
               new == [state |-> to, cohort |-> rows[c].cohort,
                       attempts |-> rows[c].attempts + (IF Spent(to) THEN 1 ELSE 0),
                       version |-> rows[c].version + 1]
    <3>1. /\ rows' = [rows EXCEPT ![c] = new] /\ UNCHANGED <<log, charges, job>>
          /\ pc'[w] = AfterUpdate(w)
      BY <2>3, UpdateWrites
    <3>2. new.state = to
      OBVIOUS
    <3>3. ~Spent(to) => new.attempts = row.attempts
      BY <1>0 DEF Row
    <3>4. rows'[c] = new
      BY <1>0, <3>1
    <3> HIDE DEF new
    <3>5. pc[w] = "update"
      BY <2>3 DEF Update
    <3>6. Course(job[w].phase, row.state, to) /\ Fits(row, s, u, to)
      BY <1>2, <3>5 DEF KnowsAt
    <3>7. job[w].phase \in {"schedule", "launch"} =>
            job[w].seen.attempts = row.attempts
      BY <1>2, <3>5 DEF KnowsAt
    <3>8. KnowsAt(AfterUpdate(w), job[w], new, s, u)
      <4>1. CASE job[w].phase = "launch"
        <5>1. to = "EXECUTING" /\ new.attempts = row.attempts
          BY <3>3, <3>6, <4>1 DEF Course, Spent
        <5>2. ~Uncounted(new, s)
          BY <3>6, <5>1 DEF Fits, Uncounted
        <5>3. AfterUpdate(w) = "execute"
          BY <4>1 DEF AfterUpdate
        <5>4. QED
          BY <3>2, <3>7, <4>1, <5>1, <5>2, <5>3 DEF KnowsAt
      <4>2. CASE job[w].phase = "reconcile"
        <5>1. to # "QUARANTINED"
          BY <3>6, <4>2 DEF Course
        <5>2. AfterUpdate(w) = "resolve"
          BY <4>2 DEF AfterUpdate
        <5>3. QED
          BY <3>2, <4>2, <5>1, <5>2 DEF KnowsAt
      <4>3. CASE job[w].phase \notin {"launch", "reconcile"}
        <5>1. /\ job[w].phase = "diagnose" => to = "DIAGNOSED"
              /\ job[w].phase = "schedule" => to = "SCHEDULED"
          BY <3>6 DEF Course
        <5>2. job[w].phase = "schedule" => new.attempts = row.attempts
          BY <3>3, <5>1 DEF Spent
        <5>3. AfterUpdate(w) = "log"
          BY <4>3 DEF AfterUpdate
        <5>4. QED
          BY <3>2, <3>7, <4>3, <5>1, <5>2, <5>3 DEF KnowsAt
      <4>4. QED
        BY <4>1, <4>2, <4>3
    <3>9. QED
      BY <3>1, <3>4, <3>8 DEF Knows
  <2>4. CASE Conflict(w) \/ Crash(w)
    <3>1. pc'[w] = "idle"
      BY <1>0, <2>4, GotoEffect DEF Conflict, Crash, Return
    <3>2. QED
      BY <1>4, <3>1
  <2>5. QED
    BY <1>7, <2>1, <2>2, <2>3, <2>4 DEF StoreAction
<1>8. CASE LogAction(w)
  <2>0. UNCHANGED <<rows, charges>>
    BY <1>8 DEF LogAction, Announce, LogTransition, ReportOutcome, Resolve
  <2>1. CASE Announce(w)
    <3>1. pc'[w] = "idle"
      BY <1>0, <2>1, GotoEffect DEF Announce, Return
    <3>2. QED
      BY <1>4, <3>1
  <2>2. CASE LogTransition(w)
    <3>1. log'[c].uncertain = u
      <4>1. log'[c] = [log[c] EXCEPT !.state = job[w].target]
        BY <1>0, <2>2 DEF LogTransition
      <4>2. QED
        BY <1>0, <4>1 DEF LogEntry
    <3>2. pc[w] = "log"
      BY <2>2 DEF LogTransition
    <3>3. CASE job[w].phase = "diagnose"
      <4>1. pc'[w] = "view" /\ job' = job
        BY <1>0, <2>2, <3>3, GotoEffect DEF LogTransition
      <4>2. KnowsAt("view", job'[w], row, s, u)
        BY <1>2, <3>2, <3>3 DEF KnowsAt
      <4>3. QED
        BY <1>5, <2>0, <3>1, <4>1, <4>2
    <3>4. CASE job[w].phase = "schedule"
      <4>1. Move(w, "launch", "EXECUTING")
        BY <2>2, <3>4 DEF LogTransition
      <4>2. row.state = "SCHEDULED" /\ job[w].seen.attempts = row.attempts
        BY <1>2, <3>2, <3>4 DEF KnowsAt
      <4>3. Course("launch", row.state, "EXECUTING") /\ Fits(row, s, u, "EXECUTING")
        BY <1>3, <4>2 DEF Course, Fits
      <4>4. QED
        BY <1>0, <2>0, <3>1, <4>1, <4>2, <4>3, MoveKnows
    <3>5. CASE job[w].phase \notin {"diagnose", "schedule"}
      <4>1. pc'[w] = "idle"
        BY <1>0, <2>2, <3>5, GotoEffect DEF LogTransition, Return
      <4>2. QED
        BY <1>4, <4>1
    <3>6. QED
      BY <3>3, <3>4, <3>5
  <2>3. CASE ReportOutcome(w)
    <3> DEFINE to == Settled(job[w].outcome)
               v == log'[c].uncertain
    <3>1. pc[w] = "report" /\ Move(w, "settle", to)
      BY <2>3 DEF ReportOutcome
    <3>2. /\ job[w].outcome \in {"SUCCEEDED", "FAILED", "RETRYABLE", "UNCERTAIN"}
          /\ job[w].outcome = "SUCCEEDED" => Paid(s)
          /\ job[w].outcome = "FAILED" => ~Paid(s)
          /\ job[w].outcome = "RETRYABLE" => ~Uncounted(row, s)
          /\ row.state = "EXECUTING" /\ job[w].seen.attempts = row.attempts
      BY <1>2, <3>1 DEF KnowsAt
    <3>3. Course("settle", row.state, to)
      BY <3>2 DEF Course, Settled
    <3>4. job[w].outcome = "UNCERTAIN" => v = row.attempts + 1
      <4>1. ASSUME job[w].outcome = "UNCERTAIN"
            PROVE  log'[c] = [log[c] EXCEPT !.uncertain = AttemptOf(w)]
        BY <1>0, <2>3, <4>1 DEF ReportOutcome
      <4>2. QED
        BY <1>0, <3>2, <4>1 DEF LogEntry, AttemptOf
    <3>5. Fits(row, s, v, to)
      BY <3>2, <3>4 DEF Fits, Settled
    <3> HIDE DEF to
    <3>6. QED
      BY <1>0, <2>0, <3>1, <3>3, <3>5, MoveKnows
  <2>4. CASE Resolve(w)
    <3>1. pc[w] = "resolve" /\ pc'[w] = "log" /\ job' = job
      BY <1>0, <2>4, GotoEffect DEF Resolve
    <3>2. job[w].phase = "reconcile"
      BY <1>2, <3>1 DEF KnowsAt
    <3>3. KnowsAt("log", job[w], row, s, log'[c].uncertain)
      BY <3>2 DEF KnowsAt
    <3>4. QED
      BY <2>0, <3>1, <3>3 DEF Knows
  <2>5. QED
    BY <1>8, <2>1, <2>2, <2>3, <2>4 DEF LogAction
<1>9. CASE ControlAction(w)
  <2>0. UNCHANGED <<rows, charges, log>>
    BY <1>9 DEF ControlAction, Start, Begin, Find, Guard, ReadCase, Authorize, Illegal,
         ExecutorReads, Replay, Refuse, RefuseForNow, CheckQuarantined, CheckUncertain
  <2>1. ASSUME NEW d \in Cases, NEW p \in Proposals, NEW h \in BOOLEAN,
               Start(w, d, p, h)
        PROVE  Knows(w)'
    BY <1>6, <2>0, <2>1 DEF Start, Begin, Alone
  <2>2. ASSUME NEW d \in Cases, Find(w, d)
        PROVE  Knows(w)'
    <3>1. Fits(rows[d], charges[d], log[d].uncertain, Reconciled(VerifiedOutcome(d)))
      BY <1>0, <2>2, VerifiedFits DEF Find, SoloInv
    <3>2. QED
      BY <1>6, <2>0, <2>2, <3>1 DEF Find
  <2>3. CASE Guard(w)
    <3>1. pc[w] = "guard" /\ row.state \in OpenStates
      BY <1>2, <2>3 DEF Guard, KnowsAt
    <3>2. CASE row.state = "DIAGNOSED"
      <4>1. pc'[w] = "view" /\ job' = job
        BY <1>0, <2>3, <3>2, GotoEffect DEF Guard
      <4>2. KnowsAt("view", job'[w], row, s, u)
        BY <3>2 DEF KnowsAt
      <4>3. QED
        BY <1>5, <2>0, <4>1, <4>2
    <3>3. CASE row.state # "DIAGNOSED"
      <4>1. Move(w, "diagnose", "DIAGNOSED")
        BY <2>3, <3>3 DEF Guard
      <4>2. Course("diagnose", row.state, "DIAGNOSED") /\ Fits(row, s, u, "DIAGNOSED")
        BY <1>3, <3>1, <3>3 DEF Course, Fits, OpenStates
      <4>3. QED
        BY <1>0, <2>0, <4>1, <4>2, MoveKnows
    <3>4. QED
      BY <3>2, <3>3
  <2>4. CASE ReadCase(w)
    <3>1. pc[w] = "view" /\ Saw(w, RowView(c)) /\ pc'[w] = "decide"
      BY <1>0, <2>4, GotoEffect DEF ReadCase
    <3>2. job'[w].case = c /\ job'[w].seen = RowView(c)
      BY <1>0, <3>1, SawEffect
    <3>3. row.state = "DIAGNOSED" /\ job'[w].seen.attempts = row.attempts
      BY <1>2, <3>1, <3>2 DEF KnowsAt, RowView
    <3>4. KnowsAt("decide", job'[w], row, s, u)
      BY <3>3 DEF KnowsAt
    <3>5. QED
      BY <1>5, <2>0, <3>1, <3>2, <3>4
  <2>5. CASE Authorize(w)
    <3>1. row.state = "DIAGNOSED" /\ job[w].seen.attempts = row.attempts
      BY <1>2, <2>5 DEF Authorize, KnowsAt
    <3>2. CASE Move(w, "schedule", "SCHEDULED")
      <4>1. /\ Course("schedule", row.state, "SCHEDULED")
            /\ Fits(row, s, u, "SCHEDULED")
        BY <1>3, <3>1 DEF Course, Fits
      <4>2. QED
        BY <1>0, <2>0, <3>1, <3>2, <4>1, MoveKnows
    <3>3. CASE Move(w, "close", Landing(w))
      <4>1. Landing(w) \in {"QUARANTINED", "HOLDOUT_CLOSED", "ABANDONED"}
        BY DEF Landing
      <4>2. /\ Course("close", row.state, Landing(w))
            /\ Fits(row, s, u, Landing(w))
        BY <1>3, <3>1, <4>1 DEF Course, Fits
      <4>3. QED
        BY <1>0, <2>0, <3>3, <4>2, MoveKnows
    <3>4. QED
      BY <2>5, <3>2, <3>3 DEF Authorize
  <2>6. CASE Illegal(w)
    <3>1. pc'[w] = "idle"
      BY <1>0, <2>6, GotoEffect DEF Illegal, Return
    <3>2. QED
      BY <1>4, <3>1
  <2>7. CASE ExecutorReads(w)
    <3> DEFINE view == [state |-> row.state, cohort |-> job[w].seen.cohort,
                        attempts |-> job[w].seen.attempts]
    <3>1. pc[w] = "execute" /\ Saw(w, view) /\ pc'[w] = "lookup"
      BY <1>0, <2>7, GotoEffect DEF ExecutorReads
    <3>2. view.state = row.state /\ view.attempts = job[w].seen.attempts
      OBVIOUS
    <3> HIDE DEF view
    <3>3. job'[w].case = c /\ job'[w].seen = view
      BY <1>0, <3>1, SawEffect
    <3>4. KnowsAt("lookup", job'[w], row, s, u)
      BY <1>2, <3>1, <3>2, <3>3 DEF KnowsAt
    <3>5. QED
      BY <1>5, <2>0, <3>1, <3>3, <3>4
  <2>8. CASE Replay(w) \/ Refuse(w)
    <3>1. pc[w] = "lookup"
      BY <2>8 DEF Replay, Refuse
    <3>2. /\ ~Uncounted(row, s) /\ job[w].seen.attempts = row.attempts
          /\ job[w].seen.state = "EXECUTING"
      BY <1>2, <3>1 DEF KnowsAt
    <3>3. \A a \in actions[c] : HasAttempt(s, a.attempt)
      BY <1>0, <1>1 DEF Balanced
    <3>4. ~Known(w)
      BY <3>2, <3>3 DEF Known, ExecutedKeys, AttemptOf, Uncounted
    <3>5. QED
      BY <2>8, <3>2, <3>4 DEF Replay, Refuse, ExecutableCaseStates
  <2>9. CASE RefuseForNow(w)
    <3>1. pc[w] = "lookup" /\ Got(w, "RETRYABLE") /\ pc'[w] = "report"
      BY <1>0, <2>9, GotoEffect DEF RefuseForNow, Dispatchable
    <3>2. job'[w].case = c /\ job'[w].seen = job[w].seen /\ job'[w].outcome = "RETRYABLE"
      BY <1>0, <3>1, GotEffect
    <3>3. KnowsAt("report", job'[w], row, s, u)
      BY <1>2, <3>1, <3>2 DEF KnowsAt
    <3>4. QED
      BY <1>5, <2>0, <3>1, <3>2, <3>3
  <2>10. CASE CheckQuarantined(w)
    <3>1. pc[w] = "find" /\ (pc'[w] = "idle" \/ (pc'[w] = "verify" /\ job' = job))
      BY <1>0, <2>10, GotoEffect DEF CheckQuarantined, Return
    <3>2. KnowsAt("verify", job[w], row, s, u)
      BY <1>2, <3>1 DEF KnowsAt
    <3>3. QED
      BY <1>4, <1>5, <2>0, <3>1, <3>2
  <2>11. CASE CheckUncertain(w)
    <3> DEFINE to == Reconciled(job[w].outcome)
    <3>1. pc[w] = "verify" /\ (Move(w, "reconcile", to) \/ Return(w))
      BY <2>11 DEF CheckUncertain
    <3>2. row.state = "QUARANTINED" /\ Fits(row, s, u, to)
      BY <1>2, <3>1 DEF KnowsAt
    <3>3. Course("reconcile", row.state, to)
      BY <3>2 DEF Course, Reconciled
    <3>4. CASE Return(w)
      BY <1>0, <1>4, <3>4, GotoEffect DEF Return
    <3>5. CASE Move(w, "reconcile", to)
      <4> HIDE DEF to
      <4>1. QED
        BY <1>0, <2>0, <3>2, <3>3, <3>5, MoveKnows
    <3>6. QED
      BY <3>1, <3>4, <3>5
  <2>12. QED
    BY <1>9, <2>1, <2>2, <2>3, <2>4, <2>5, <2>6, <2>7, <2>8, <2>9, <2>10, <2>11
       DEF ControlAction
<1>10. CASE ProviderAction(w)
  <2>1. /\ pc[w] = "lookup" /\ UNCHANGED <<rows, log>>
        /\ \/ UNCHANGED charges /\ TimeOut(w)
           \/ \E ok \in BOOLEAN : Charge(w, ok) /\ (TimeOut(w) \/ Perform(w, ok))
    BY <1>10 DEF ProviderAction, TimeOut, Perform, Dispatchable
  <2>2. /\ ~Uncounted(row, s) /\ job[w].seen.attempts = row.attempts
        /\ row.state = "EXECUTING"
    BY <1>2, <2>1 DEF KnowsAt
  <2>3. CASE TimeOut(w)
    <3>1. Got(w, "UNCERTAIN") /\ pc'[w] = "report"
      BY <1>0, <2>3, GotoEffect DEF TimeOut
    <3>2. job'[w].case = c /\ job'[w].seen = job[w].seen /\ job'[w].outcome = "UNCERTAIN"
      BY <1>0, <3>1, GotEffect
    <3>3. KnowsAt("report", job'[w], row, charges'[c], u)
      BY <2>2, <3>2 DEF KnowsAt
    <3>4. QED
      BY <2>1, <3>1, <3>2, <3>3 DEF Knows
  <2>4. ASSUME NEW ok \in BOOLEAN, Perform(w, ok)
        PROVE  Knows(w)'
    <3> DEFINE last == [attempt |-> AttemptOf(w), ok |-> ok]
               paid == Append(s, last)
    <3>1. /\ charges' = [charges EXCEPT ![c] = paid] /\ Got(w, Result(ok))
          /\ pc'[w] = "insert"
      BY <1>0, <2>4, GotoEffect DEF Perform, Charge
    <3>2. job'[w].case = c /\ job'[w].seen = job[w].seen /\ job'[w].outcome = Result(ok)
      BY <1>0, <3>1, GotEffect
    <3>3. last \in Attempt /\ last.attempt = row.attempts + 1 /\ last.ok = ok
      BY <1>0, <2>2, LocalTypes DEF Attempt, AttemptOf
    <3>4. paid = Append(s, last) /\ charges'[c] = paid
      BY <1>0, <3>1
    <3> HIDE DEF last, paid
    <3>5. ~Paid(s)
      <4>1. Balanced(row, s, actions[c], u, CapOf(c))
        BY <1>0, <1>1
      <4>2. QED
        BY <2>2, <4>1 DEF Balanced, Uncounted, HasAttempt, Paid
    <3>6. HasAttempt(paid, row.attempts + 1) /\ (Paid(paid) => ok) /\ (ok => Paid(paid))
      BY <1>0, <3>3, <3>4, <3>5, AppendedCharge
    <3>7. Uncounted(row, paid)
      BY <3>6 DEF Uncounted
    <3>8. /\ job'[w].outcome \in {"SUCCEEDED", "FAILED"}
          /\ job'[w].outcome = "SUCCEEDED" <=> ok
      BY <3>2 DEF Result
    <3>9. KnowsAt("insert", job'[w], row, paid, u)
      BY <2>2, <3>2, <3>6, <3>7, <3>8 DEF KnowsAt
    <3>10. QED
      BY <2>1, <3>1, <3>2, <3>4, <3>9 DEF Knows
  <2>5. QED
    BY <1>10, <2>3, <2>4 DEF ProviderAction
<1>11. CASE Record(w)
  <2>1. /\ pc[w] = "insert" /\ pc'[w] = "report" /\ job' = job
        /\ UNCHANGED <<rows, charges, log>>
    BY <1>0, <1>11, GotoEffect DEF Record
  <2>2. KnowsAt("report", job[w], row, s, u)
    BY <1>2, <2>1 DEF KnowsAt
  <2>3. QED
    BY <1>5, <2>1, <2>2
<1>12. QED
  BY <1>7, <1>8, <1>9, <1>10, <1>11

----------------------------------------------------------------------------
(* With one writer *)

SoloFacts(w) == TypesInductive /\ AuthorityInv /\ SoloInv(w)

\* It holds when nothing has run yet ...
LEMMA SoloInit ==
  ASSUME NEW w \in Writers, PipelineInit
  PROVE  SoloFacts(w)
<1>1. TypesInductive /\ AuthorityInv
  BY TypesInit, AuthorityInit
<1>2. Knows(w) /\ CallMatches(w)
  BY DEF PipelineInit, StoreInit, Knows, KnowsAt, CallMatches
<1>3. ASSUME NEW c \in Cases
      PROVE  Balanced(rows[c], charges[c], actions[c], log[c].uncertain, CapOf(c))
  <2>1. /\ rows[c] = NoRow /\ charges[c] = <<>> /\ actions[c] = {}
        /\ NoRow.state = "ABSENT" /\ NoRow.attempts = 0
    BY DEF PipelineInit, StoreInit, NoRow
  <2>2. CapOf(c) \in Nat
    BY PipelineAssumption, PolicyAssumption DEF CapOf
  <2>3. \A n : ~HasAttempt(<<>>, n)
    BY DEF HasAttempt
  <2>4. QED
    BY <2>1, <2>2, <2>3 DEF Balanced, Uncounted
<1>4. QED
  BY <1>1, <1>2, <1>3 DEF SoloFacts, SoloInv, LedgerInv

\* ... and every step preserves it.
LEMMA SoloStep ==
  ASSUME NEW w \in Writers, Alone(w), SoloFacts(w), [PipelineNext]_vars
  PROVE  SoloFacts(w)'
<1>1. TypesInductive /\ AuthorityInv /\ SoloInv(w)
  BY DEF SoloFacts
<1>2. TypesInductive' /\ AuthorityInv'
  BY <1>1, TypesStep, AuthorityStep
<1>3. CASE UNCHANGED vars
  <2>1. Knows(w)' /\ CallMatches(w)'
    BY <1>1, <1>3 DEF vars, SoloInv, Knows, CallMatches
  <2>2. LedgerInv'
    BY <1>1, <1>3 DEF vars, SoloInv, LedgerInv, CapOf
  <2>3. QED
    BY <1>2, <2>1, <2>2 DEF SoloFacts, SoloInv
<1>4. CASE \/ StoreAction(w) \/ LogAction(w) \/ ControlAction(w)
           \/ ProviderAction(w) \/ Record(w)
  BY <1>1, <1>2, <1>4, LedgerStep, KnowsStep, CallStep DEF SoloFacts, SoloInv
<1>5. QED
  BY <1>3, <1>4, PipelineCases DEF Alone

\* What balanced books say.
LEMMA BalancedMeans ==
  ASSUME PipelineTypeOK, LedgerInv
  PROVE  /\ NothingAfterSuccess /\ KeyChargedOnce /\ SpendWithinCap
         /\ SpendIsCounted /\ RecoveredMeansCollected
<1>1. ASSUME NEW c \in Cases
      PROVE  /\ Balanced(rows[c], charges[c], actions[c], log[c].uncertain, CapOf(c))
             /\ charges[c] \in Seq(Attempt) /\ rows[c].attempts \in Nat
  BY DEF LedgerInv, PipelineTypeOK, StoreTypeOK, Row
<1>2. NothingAfterSuccess /\ SpendWithinCap /\ RecoveredMeansCollected
  BY <1>1 DEF Balanced, NothingAfterSuccess, SpendWithinCap, RecoveredMeansCollected, Paid
<1>3. KeyChargedOnce
  <2>1. SUFFICES ASSUME NEW c \in Cases, NEW i \in DOMAIN charges[c],
                        NEW j \in DOMAIN charges[c],
                        charges[c][i].attempt = charges[c][j].attempt
                 PROVE  i = j
    BY DEF KeyChargedOnce
  <2>2. i \in Nat /\ j \in Nat /\ charges[c][i].attempt \in Nat
    BY <1>1, ChargesAre
  <2>3. ~(i < j) /\ ~(j < i)
    BY <1>1, <2>1, <2>2 DEF Balanced
  <2>4. QED
    BY <2>2, <2>3
<1>4. SpendIsCounted
  <2>1. SUFFICES ASSUME NEW c \in Cases
                 PROVE  Len(charges[c]) <= rows[c].attempts +
                          (IF rows[c].state \in {"EXECUTING", "QUARANTINED"} THEN 1 ELSE 0)
    BY DEF SpendIsCounted
  <2>2. Len(charges[c]) \in Nat
    BY <1>1
  <2>3. QED
    BY <1>1, <2>2 DEF Balanced
<1>5. QED
  BY <1>2, <1>3, <1>4

\* With one writer that calls process_case() for open cases, whatever the provider
\* answers, however often it times out and the writer dies, the invariant holds.
THEOREM OneWriterInvariant ==
  ASSUME NEW w \in Writers, Writers = {w}, StartStates \subseteq OpenStates
  PROVE  PipelineSpec => []SoloFacts(w)
<1>1. Alone(w)
  BY DEF Alone
<1>2. PipelineInit => SoloFacts(w)
  BY SoloInit
<1>3. SoloFacts(w) /\ [PipelineNext]_vars => SoloFacts(w)'
  BY <1>1, SoloStep
<1>4. QED
  BY <1>2, <1>3, PTL DEF PipelineSpec

\* What it says of the charges, in every state.
LEMMA SoloMeans ==
  ASSUME NEW w \in Writers, SoloFacts(w)
  PROVE  /\ NothingAfterSuccess /\ KeyChargedOnce /\ SpendWithinCap
         /\ SpendIsCounted /\ RecoveredMeansCollected
BY BalancedMeans DEF SoloFacts, TypesInductive, SoloInv

\* One writer never has an idempotency key charged twice.
THEOREM OneWriterChargesOnce ==
  ASSUME NEW w \in Writers, Writers = {w}, StartStates \subseteq OpenStates
  PROVE  PipelineSpec => []KeyChargedOnce
<1>1. PipelineSpec => []SoloFacts(w)
  BY OneWriterInvariant
<1>2. SoloFacts(w) => KeyChargedOnce
  BY SoloMeans
<1>3. QED
  BY <1>1, <1>2, PTL

\* One writer never has a customer charged who has paid.
THEOREM OneWriterStopsAtSuccess ==
  ASSUME NEW w \in Writers, Writers = {w}, StartStates \subseteq OpenStates
  PROVE  PipelineSpec => []NothingAfterSuccess
<1>1. PipelineSpec => []SoloFacts(w)
  BY OneWriterInvariant
<1>2. SoloFacts(w) => NothingAfterSuccess
  BY SoloMeans
<1>3. QED
  BY <1>1, <1>2, PTL

\* One writer calls the provider within the cap, timeouts included.
THEOREM OneWriterWithinCap ==
  ASSUME NEW w \in Writers, Writers = {w}, StartStates \subseteq OpenStates
  PROVE  PipelineSpec => []SpendWithinCap
<1>1. PipelineSpec => []SoloFacts(w)
  BY OneWriterInvariant
<1>2. SoloFacts(w) => SpendWithinCap
  BY SoloMeans
<1>3. QED
  BY <1>1, <1>2, PTL

\* With one writer the counter of the row misses at most the attempt that is on its
\* way to it or whose outcome is unknown.
THEOREM OneWriterCounts ==
  ASSUME NEW w \in Writers, Writers = {w}, StartStates \subseteq OpenStates
  PROVE  PipelineSpec => []SpendIsCounted
<1>1. PipelineSpec => []SoloFacts(w)
  BY OneWriterInvariant
<1>2. SoloFacts(w) => SpendIsCounted
  BY SoloMeans
<1>3. QED
  BY <1>1, <1>2, PTL

----------------------------------------------------------------------------
(* What one writer's log says *)

\* The log entry e says of a row what ReplayMatches asks.
Recorded(row, e) ==
  /\ e.cohort = row.cohort
  /\ e.state = IF row.state = "DETECTED" THEN "NONE" ELSE row.state
  /\ e.uncertain # 0 => row.state = "QUARANTINED"

\* ... and at statement l of a call with locals j: the event of a write follows it,
\* EXECUTING has none, and an uncertain action is announced before the row says so
\* and resolved after.
RecordedAt(l, j, row, e) ==
  /\ l = "announce" => row.state = "DETECTED" /\ e.state = "NONE" /\ e.uncertain = 0
  /\ l # "announce" => e.cohort = row.cohort
  /\ \/ l \in {"guard", "view", "decide", "find", "verify"}
     \/ l \in {"select", "update"} /\ j.phase # "settle"
     => e.state = IF row.state = "DETECTED" THEN "NONE" ELSE row.state
  /\ l \in {"log", "resolve"} => row.state = j.target /\ j.target # "DETECTED"
  /\ e.uncertain # 0 =>
       \/ row.state = "QUARANTINED"
       \/ l = "resolve"
       \/ l \in {"select", "update"} /\ j.phase = "settle" /\ j.target = "QUARANTINED"

\* No row has changed since the open call read it.
FreshCalls == \A p \in pending : Fresh(p)

\* Unless a writer died, the log of every case says what it should.
RecordInv(w) ==
  crashes = 0 => \A c \in Cases :
    /\ ~Exists(c) => log[c] = NoLog
    /\ Exists(c) /\ ~WorksOn(w, c) => Recorded(rows[c], log[c])
    /\ WorksOn(w, c) => RecordedAt(pc[w], job[w], rows[c], log[c])

\* A call goes on.
LEMMA GoesOnRecorded ==
  ASSUME NEW w \in Writers, RecordInv(w), crashes = 0, NEW c \in Cases, c = job[w].case,
         pc[w] # "idle", pc'[w] # "idle", job'[w].case = c, Exists(c)',
         \A d \in Cases \ {c} : rows'[d] = rows[d] /\ log'[d] = log[d],
         RecordedAt(pc'[w], job'[w], rows'[c], log'[c])
  PROVE  RecordInv(w)'
BY DEF RecordInv, WorksOn, Exists

\* A call is over.
LEMMA EndsRecorded ==
  ASSUME NEW w \in Writers, RecordInv(w), crashes = 0, NEW c \in Cases, c = job[w].case,
         pc[w] # "idle", pc'[w] = "idle", Exists(c)',
         \A d \in Cases \ {c} : rows'[d] = rows[d] /\ log'[d] = log[d],
         Recorded(rows'[c], log'[c])
  PROVE  RecordInv(w)'
BY DEF RecordInv, WorksOn, Exists

\* A call begins.
LEMMA BeginsRecorded ==
  ASSUME NEW w \in Writers, RecordInv(w), crashes = 0, NEW c \in Cases,
         pc[w] = "idle", pc'[w] # "idle", job'[w].case = c, Exists(c)',
         \A d \in Cases \ {c} : rows'[d] = rows[d], log' = log,
         RecordedAt(pc'[w], job'[w], rows'[c], log'[c])
  PROVE  RecordInv(w)'
BY DEF RecordInv, WorksOn, Exists

\* The only writer never loses a race.
LEMMA FreshStep ==
  ASSUME NEW w \in Writers, SoloFacts(w), FreshCalls,
         \/ StoreAction(w) \/ LogAction(w) \/ ControlAction(w)
         \/ ProviderAction(w) \/ Record(w)
  PROVE  FreshCalls' /\ ~Conflict(w)
<1>1. pc[w] # "update" => pending = {}
  BY DEF SoloFacts, SoloInv, CallMatches
<1>2. ~Conflict(w)
  BY DEF FreshCalls, Conflict, LoseRace
<1>3. ASSUME LogAction(w) \/ ControlAction(w) \/ ProviderAction(w) \/ Record(w)
      PROVE  FreshCalls'
  <2>1. UNCHANGED storeVars
    BY <1>3, StoreUntouched
  <2>2. QED
    BY <2>1 DEF storeVars, FreshCalls, Fresh
<1>4. ASSUME Select(w)
      PROVE  FreshCalls'
  <2>1. pending = {} /\ rows' = rows
    BY <1>1, <1>4 DEF Select, SelectRow
  <2>2. \A p \in pending' : p.version = rows[job[w].case].version /\ p.case = job[w].case
    BY <1>4, <2>1 DEF Select, SelectRow
  <2>3. QED
    BY <2>1, <2>2 DEF FreshCalls, Fresh
<1>5. ASSUME Update(w)
      PROVE  FreshCalls'
  <2>1. pending' = {}
    BY <1>5, UpdateWrites DEF SoloFacts
  <2>2. QED
    BY <2>1 DEF FreshCalls
<1>6. ASSUME Crash(w)
      PROVE  FreshCalls'
  <2>1. rows' = rows /\ \A p \in pending' : p \in pending
    BY <1>6 DEF Crash
  <2>2. QED
    BY <2>1 DEF FreshCalls, Fresh
<1>7. ASSUME NEW c \in Cases, NEW k \in Cohorts, Ingest(w, c, k)
      PROVE  FreshCalls'
  <2>1. pending' = {}
    BY <1>1, <1>7 DEF Ingest, CreateCase
  <2>2. QED
    BY <2>1 DEF FreshCalls
<1>8. QED
  BY <1>2, <1>3, <1>4, <1>5, <1>6, <1>7 DEF StoreAction

\* Nor does it ask for an edge that is not there.
LEMMA NeverIllegal ==
  ASSUME NEW w \in Writers, SoloFacts(w)
  PROVE  ~Illegal(w)
<1>1. SUFFICES ASSUME pc[w] = "select" PROVE Legal(w)
  BY DEF Illegal
<1>2. PipelineTypeOK
  BY DEF SoloFacts, TypesInductive
<1>3. rows[job[w].case].state \in States /\ Exists(job[w].case)
  <2>1. Exists(job[w].case) /\ rows[job[w].case] \in Row
    BY <1>1, <1>2, LocalTypes DEF SoloFacts, AuthorityInv, WriterInv
  <2>2. QED
    BY <2>1 DEF Exists, Row
<1>4. Course(job[w].phase, rows[job[w].case].state, job[w].target)
  BY <1>1 DEF SoloFacts, SoloInv, Knows, KnowsAt
<1>5. job[w].target \in VALID_TRANSITIONS[rows[job[w].case].state]
  BY <1>3, <1>4 DEF Course, OpenStates, VALID_TRANSITIONS, States
<1>6. QED
  BY <1>3, <1>5 DEF Legal

\* A transition that starts leaves the log as it is, or reports an outcome first.
LEMMA MoveRecorded ==
  ASSUME PipelineTypeOK, NEW w \in Writers, NEW ph, NEW to, Move(w, ph, to),
         NEW row, NEW e, Recorded(row, e)
  PROVE  RecordedAt(pc'[w], job'[w], row, e)
<1>1. pc'[w] = "select" /\ job'[w].phase = ph /\ job'[w].target = to
  BY MoveEffect
<1>2. QED
  BY <1>1 DEF Recorded, RecordedAt

\* The log keeps up with the rows.
LEMMA RecordStep ==
  ASSUME NEW w \in Writers, Alone(w), SoloFacts(w), FreshCalls, RecordInv(w),
         \/ StoreAction(w) \/ LogAction(w) \/ ControlAction(w)
         \/ ProviderAction(w) \/ Record(w)
  PROVE  RecordInv(w)'
<1> DEFINE c == job[w].case
           row == rows[c]
           e == log[c]
           j == job[w]
<1>0. /\ c \in Cases /\ row \in Row /\ e \in LogEntry /\ PipelineTypeOK
      /\ rows \in [Cases -> Row] /\ log \in [Cases -> LogEntry]
      /\ TypesInductive /\ AuthorityInv /\ SoloInv(w)
  BY LocalTypes DEF SoloFacts, TypesInductive, PipelineTypeOK, StoreTypeOK
<1>1. KnowsAt(pc[w], j, row, charges[c], e.uncertain)
  BY <1>0 DEF SoloInv, Knows
<1>2. pc[w] # "idle" => Exists(c)
  BY <1>0 DEF AuthorityInv, WriterInv
<1>3. CASE Crash(w)
  <2>1. crashes' = crashes + 1 /\ crashes \in Nat
    BY <1>0, <1>3 DEF Crash, PipelineTypeOK
  <2>2. crashes' # 0
    BY <2>1
  <2>3. QED
    BY <2>2 DEF RecordInv
<1>4. ASSUME ~Crash(w)
      PROVE  crashes' = crashes
  BY <1>4 DEF StoreAction, Ingest, Select, Update, Conflict, LogAction, Announce,
       LogTransition, ReportOutcome, Resolve, ControlAction, Start, Begin, Find, Guard,
       ReadCase, Authorize, Illegal, ExecutorReads, Replay, Refuse, RefuseForNow,
       CheckQuarantined, CheckUncertain, ProviderAction, TimeOut, Perform, Record
<1>5. CASE crashes # 0 /\ ~Crash(w)
  BY <1>4, <1>5 DEF RecordInv
<1> DEFINE AllFine == crashes = 0 /\ ~Crash(w)
<1>6. AllFine /\ pc[w] # "idle" => RecordedAt(pc[w], j, row, e)
  BY <1>0 DEF RecordInv, WorksOn
<1>7. ASSUME AllFine, pc[w] # "idle", pc'[w] # "idle", job'[w].case = c,
             \A d \in Cases \ {c} : rows'[d] = rows[d] /\ log'[d] = log[d],
             rows'[c].state # "ABSENT",
             RecordedAt(pc'[w], job'[w], rows'[c], log'[c])
      PROVE  RecordInv(w)'
  BY <1>0, <1>7, GoesOnRecorded DEF Exists
<1>8. ASSUME AllFine, pc[w] # "idle", pc'[w] = "idle", UNCHANGED rows,
             \A d \in Cases \ {c} : log'[d] = log[d], Recorded(row, log'[c])
      PROVE  RecordInv(w)'
  BY <1>0, <1>2, <1>8, EndsRecorded DEF Exists
<1>9. ASSUME AllFine, StoreAction(w)
      PROVE  RecordInv(w)'
  <2>1. ASSUME NEW d \in Cases, NEW k \in Cohorts, Ingest(w, d, k)
        PROVE  RecordInv(w)'
    <3>1. /\ pc[w] = "idle" /\ ~Exists(d) /\ rows' = [rows EXCEPT ![d] = NewRow(k)]
          /\ job' = [job EXCEPT ![w] = NewJob(d, FALSE, NoProposal, "NONE")]
          /\ log' = log /\ pc'[w] = "announce"
      BY <1>0, <2>1, GotoEffect DEF Ingest, CreateCase
    <3>2. job'[w].case = d
      BY <1>0, <3>1 DEF PipelineTypeOK, NewJob
    <3>3. log[d] = NoLog
      BY <1>9, <3>1 DEF RecordInv
    <3>4. rows'[d] = NewRow(k) /\ NewRow(k).state = "DETECTED"
      BY <1>0, <3>1 DEF NewRow
    <3>5. RecordedAt("announce", job'[w], rows'[d], log'[d])
      BY <3>1, <3>3, <3>4 DEF RecordedAt, NoLog
    <3>6. Exists(d)' /\ \A b \in Cases \ {d} : rows'[b] = rows[b]
      BY <1>0, <3>1, <3>4 DEF Exists
    <3>7. QED
      BY <1>9, <3>1, <3>2, <3>5, <3>6, BeginsRecorded
  <2>2. CASE Select(w)
    <3>1. /\ pc[w] = "select" /\ pc'[w] = "update" /\ UNCHANGED <<rows, log, job>>
      BY <1>0, <2>2, GotoEffect DEF Select, SelectRow
    <3>2. RecordedAt("update", j, row, e)
      BY <1>6, <1>9, <3>1 DEF RecordedAt
    <3>3. QED
      BY <1>2, <1>7, <1>9, <3>1, <3>2 DEF Exists
  <2>3. CASE Update(w)
    <3> DEFINE to == job[w].target
               new == [state |-> to, cohort |-> rows[c].cohort,
                       attempts |-> rows[c].attempts + (IF Spent(to) THEN 1 ELSE 0),
                       version |-> rows[c].version + 1]
    <3>1. /\ rows' = [rows EXCEPT ![c] = new] /\ UNCHANGED <<log, job>>
          /\ pc'[w] = AfterUpdate(w) /\ pc[w] = "update"
      BY <1>0, <2>3, UpdateWrites DEF Update
    <3>2. new.state = to /\ new.cohort = row.cohort /\ rows'[c] = new
      BY <1>0, <3>1
    <3> HIDE DEF new
    <3>3. Course(job[w].phase, row.state, to)
      BY <1>1, <3>1 DEF KnowsAt
    <3>4. RecordedAt("update", j, row, e)
      BY <1>6, <1>9, <3>1
    <3>5. AfterUpdate(w) \in {"execute", "resolve", "log"}
      BY DEF AfterUpdate
    <3>6. e.uncertain # 0 => to = "QUARANTINED" \/ AfterUpdate(w) = "resolve"
      <4>1. /\ AfterUpdate(w) = "execute" => job[w].phase = "launch"
            /\ AfterUpdate(w) = "log" => job[w].phase # "reconcile"
        BY DEF AfterUpdate
      <4>2. QED
        BY <3>3, <3>4, <3>5, <4>1 DEF Course, OpenStates, RecordedAt
    <3>7. to # "DETECTED" /\ to # "ABSENT"
      BY <3>3 DEF Course
    <3>8. RecordedAt(AfterUpdate(w), j, new, e)
      BY <3>2, <3>4, <3>5, <3>6, <3>7 DEF RecordedAt
    <3>9. \A d \in Cases \ {c} : rows'[d] = rows[d]
      BY <1>0, <3>1
    <3>10. QED
      BY <1>7, <1>9, <3>1, <3>2, <3>5, <3>7, <3>8, <3>9
  <2>4. QED
    BY <1>9, <2>1, <2>2, <2>3, FreshStep DEF StoreAction
<1>10. ASSUME AllFine, LogAction(w)
       PROVE  RecordInv(w)'
  <2>0. UNCHANGED rows
    BY <1>10 DEF LogAction, Announce, LogTransition, ReportOutcome, Resolve
  <2>1. CASE Announce(w)
    <3>1. /\ pc[w] = "announce" /\ pc'[w] = "idle"
          /\ log' = [log EXCEPT ![c] = [log[c] EXCEPT !.cohort = row.cohort]]
      BY <1>0, <2>1, GotoEffect DEF Announce, Return
    <3>2. RecordedAt("announce", j, row, e)
      BY <1>6, <1>10, <3>1
    <3>3. log'[c] = [e EXCEPT !.cohort = row.cohort]
      BY <1>0, <3>1
    <3>4. log'[c].cohort = row.cohort /\ log'[c].state = e.state
          /\ log'[c].uncertain = e.uncertain
      BY <1>0, <3>3 DEF LogEntry
    <3>5. Recorded(row, log'[c])
      BY <3>2, <3>4 DEF RecordedAt, Recorded
    <3>6. \A d \in Cases \ {c} : log'[d] = log[d]
      BY <1>0, <3>1
    <3>7. QED
      BY <1>8, <1>10, <2>0, <3>1, <3>5, <3>6
  <2>2. CASE LogTransition(w)
    <3>1. /\ pc[w] = "log"
          /\ log' = [log EXCEPT ![c] = [log[c] EXCEPT !.state = j.target]]
      BY <2>2 DEF LogTransition
    <3>2. RecordedAt("log", j, row, e)
      BY <1>6, <1>10, <3>1
    <3>3. log'[c] = [e EXCEPT !.state = j.target]
      BY <1>0, <3>1
    <3>4. log'[c].cohort = e.cohort /\ log'[c].state = j.target
          /\ log'[c].uncertain = e.uncertain
      BY <1>0, <3>3 DEF LogEntry
    <3>5. Recorded(row, log'[c])
      BY <3>2, <3>4 DEF RecordedAt, Recorded
    <3>6. \A d \in Cases \ {c} : log'[d] = log[d]
      BY <1>0, <3>1
    <3>7. CASE Goto(w, "view") /\ UNCHANGED job
      <4>1. pc'[w] = "view"
        BY <1>0, <3>7, GotoEffect
      <4>2. RecordedAt("view", j, row, log'[c])
        BY <3>5 DEF RecordedAt, Recorded
      <4>3. QED
        BY <1>2, <1>7, <1>10, <2>0, <3>1, <3>6, <3>7, <4>1, <4>2 DEF Exists
    <3>8. CASE Move(w, "launch", "EXECUTING")
      <4>1. RecordedAt(pc'[w], job'[w], row, log'[c])
        BY <1>0, <3>5, <3>8, MoveRecorded
      <4>2. pc'[w] = "select" /\ job'[w].case = c
        BY <1>0, <3>8, MoveEffect
      <4>3. QED
        BY <1>2, <1>7, <1>10, <2>0, <3>1, <3>6, <4>1, <4>2 DEF Exists
    <3>9. CASE Return(w)
      <4>1. pc'[w] = "idle"
        BY <1>0, <3>9, GotoEffect DEF Return
      <4>2. QED
        BY <1>8, <1>10, <2>0, <3>1, <3>5, <3>6, <4>1
    <3>10. QED
      BY <2>2, <3>7, <3>8, <3>9 DEF LogTransition
  <2>3. CASE ReportOutcome(w)
    <3> DEFINE to == Settled(job[w].outcome)
    <3>1. pc[w] = "report" /\ Move(w, "settle", to)
      BY <2>3 DEF ReportOutcome
    <3>2. RecordedAt("report", j, row, e) /\ row.state = "EXECUTING"
      BY <1>1, <1>6, <1>10, <3>1 DEF KnowsAt
    <3>3. e.uncertain = 0 /\ e.cohort = row.cohort
      BY <3>2 DEF RecordedAt
    <3>4. log'[c].cohort = row.cohort /\ (log'[c].uncertain # 0 => to = "QUARANTINED")
      <4>1. \/ log'[c] = [e EXCEPT !.attempts = e.attempts + 1]
            \/ log'[c] = e
            \/ job[w].outcome = "UNCERTAIN" /\ log'[c] = [e EXCEPT !.uncertain = AttemptOf(w)]
        BY <1>0, <2>3 DEF ReportOutcome
      <4>2. QED
        BY <1>0, <3>3, <4>1 DEF LogEntry, Settled
    <3>5. \A d \in Cases \ {c} : log'[d] = log[d]
      BY <1>0, <2>3 DEF ReportOutcome
    <3>6. /\ pc'[w] = "select" /\ job'[w].case = c /\ job'[w].phase = "settle"
          /\ job'[w].target = to
      BY <1>0, <3>1, MoveEffect
    <3>7. RecordedAt("select", job'[w], row, log'[c])
      BY <3>4, <3>6 DEF RecordedAt
    <3>8. QED
      BY <1>2, <1>7, <1>10, <2>0, <3>1, <3>5, <3>6, <3>7 DEF Exists
  <2>4. CASE Resolve(w)
    <3>1. /\ pc[w] = "resolve" /\ pc'[w] = "log" /\ job' = job
          /\ log' = [log EXCEPT ![c] = [log[c] EXCEPT !.uncertain = 0]]
      BY <1>0, <2>4, GotoEffect DEF Resolve
    <3>2. RecordedAt("resolve", j, row, e)
      BY <1>6, <1>10, <3>1
    <3>3. log'[c] = [e EXCEPT !.uncertain = 0]
      BY <1>0, <3>1
    <3>4. log'[c].cohort = e.cohort /\ log'[c].uncertain = 0
      BY <1>0, <3>3 DEF LogEntry
    <3>5. RecordedAt("log", j, row, log'[c])
      BY <3>2, <3>4 DEF RecordedAt
    <3>6. \A d \in Cases \ {c} : log'[d] = log[d]
      BY <1>0, <3>1
    <3>7. QED
      BY <1>2, <1>7, <1>10, <2>0, <3>1, <3>5, <3>6 DEF Exists
  <2>5. QED
    BY <1>10, <2>1, <2>2, <2>3, <2>4 DEF LogAction
<1>11. ASSUME AllFine, ControlAction(w)
       PROVE  RecordInv(w)'
  <2>0. UNCHANGED <<rows, log>>
    BY <1>11 DEF ControlAction, Start, Begin, Find, Guard, ReadCase, Authorize, Illegal,
         ExecutorReads, Replay, Refuse, RefuseForNow, CheckQuarantined, CheckUncertain
  <2>1. ASSUME NEW d \in Cases, NEW h, NEW p, NEW o, NEW l \in {"guard", "find"},
               pc[w] = "idle", Goto(w, l), job' = [job EXCEPT ![w] = NewJob(d, h, p, o)],
               Exists(d)
        PROVE  RecordInv(w)'
    <3>1. pc'[w] = l /\ job'[w].case = d
      BY <1>0, <2>1, GotoEffect DEF PipelineTypeOK, NewJob
    <3>2. Recorded(rows[d], log[d])
      BY <1>11, <2>1 DEF RecordInv, WorksOn
    <3>3. RecordedAt(l, job'[w], rows[d], log[d])
      BY <2>1, <3>2 DEF Recorded, RecordedAt
    <3>4. QED
      BY <1>11, <2>0, <2>1, <3>1, <3>3, BeginsRecorded DEF Exists
  <2>2. ASSUME pc[w] # "idle", Recorded(row, e), NEW ph, NEW to, Move(w, ph, to)
        PROVE  RecordInv(w)'
    <3>1. RecordedAt(pc'[w], job'[w], row, e)
      BY <1>0, <2>2, MoveRecorded
    <3>2. pc'[w] = "select" /\ job'[w].case = c
      BY <1>0, <2>2, MoveEffect
    <3>3. QED
      BY <1>2, <1>7, <1>11, <2>0, <2>2, <3>1, <3>2 DEF Exists
  <2>3. ASSUME pc[w] # "idle", NEW l, pc'[w] = l, job'[w].case = c, l # "idle",
               RecordedAt(l, job'[w], row, e)
        PROVE  RecordInv(w)'
    BY <1>2, <1>7, <1>11, <2>0, <2>3 DEF Exists
  <2>4. ASSUME pc[w] # "idle", Recorded(row, e), Return(w)
        PROVE  RecordInv(w)'
    <3>1. pc'[w] = "idle"
      BY <1>0, <2>4, GotoEffect DEF Return
    <3>2. QED
      BY <1>8, <1>11, <2>0, <2>4, <3>1
  <2>5. pc[w] \in {"guard", "view", "decide", "find", "verify"} => Recorded(row, e)
    <3>1. pc[w] \in {"guard", "view", "decide", "find", "verify"} =>
            RecordedAt(pc[w], j, row, e)
      BY <1>6, <1>11
    <3>2. QED
      BY <3>1 DEF RecordedAt, Recorded
  <2>6. ASSUME NEW d \in Cases, NEW p \in Proposals, NEW h \in BOOLEAN,
               Start(w, d, p, h)
        PROVE  RecordInv(w)'
    <3>1. Exists(d)
      BY <2>6, PipelineAssumption DEF Start, Begin, Exists, States
    <3>2. QED
      BY <2>1, <2>6, <3>1 DEF Start, Begin
  <2>7. ASSUME NEW d \in Cases, Find(w, d)
        PROVE  RecordInv(w)'
    <3>1. Exists(d)
      BY <2>7 DEF Find, Exists
    <3>2. QED
      BY <2>1, <2>7, <3>1 DEF Find
  <2>8. CASE Guard(w)
    <3>1. pc[w] = "guard" /\ Recorded(row, e)
      BY <2>5, <2>8 DEF Guard
    <3>2. CASE Goto(w, "view") /\ UNCHANGED job
      <4>1. pc'[w] = "view"
        BY <1>0, <3>2, GotoEffect
      <4>2. RecordedAt("view", j, row, e)
        BY <3>1 DEF Recorded, RecordedAt
      <4>3. QED
        BY <2>3, <3>1, <3>2, <4>1, <4>2
    <3>3. QED
      BY <2>2, <2>8, <3>1, <3>2 DEF Guard
  <2>9. CASE ReadCase(w)
    <3>1. pc[w] = "view" /\ pc'[w] = "decide" /\ Saw(w, RowView(c)) /\ Recorded(row, e)
      BY <1>0, <2>5, <2>9, GotoEffect DEF ReadCase
    <3>2. job'[w].case = c
      BY <1>0, <3>1, SawEffect
    <3>3. RecordedAt("decide", job'[w], row, e)
      BY <3>1 DEF Recorded, RecordedAt
    <3>4. QED
      BY <2>3, <3>1, <3>2, <3>3
  <2>10. CASE Authorize(w)
    <3>1. pc[w] = "decide" /\ Recorded(row, e)
      BY <2>5, <2>10 DEF Authorize
    <3>2. QED
      BY <2>2, <2>10, <3>1 DEF Authorize
  <2>11. CASE ExecutorReads(w)
    <3>1. /\ pc[w] = "execute" /\ pc'[w] = "lookup"
          /\ Saw(w, [state |-> rows[job[w].case].state, cohort |-> job[w].seen.cohort,
                     attempts |-> job[w].seen.attempts])
      BY <1>0, <2>11, GotoEffect DEF ExecutorReads
    <3>2. job'[w].case = c
      BY <1>0, <3>1, SawEffect
    <3>3. RecordedAt("lookup", job'[w], row, e)
      BY <1>6, <1>11, <3>1 DEF RecordedAt
    <3>4. QED
      BY <2>3, <3>1, <3>2, <3>3
  <2>12. CASE Replay(w) \/ Refuse(w) \/ RefuseForNow(w)
    <3>1. /\ pc[w] = "lookup" /\ pc'[w] = "report" /\ \E o : Got(w, o)
      BY <1>0, <2>12, GotoEffect DEF Replay, Refuse, RefuseForNow, Dispatchable
    <3>2. job'[w].case = c
      BY <1>0, <3>1, GotEffect
    <3>3. RecordedAt("report", job'[w], row, e)
      BY <1>6, <1>11, <3>1 DEF RecordedAt
    <3>4. QED
      BY <2>3, <3>1, <3>2, <3>3
  <2>13. CASE CheckQuarantined(w)
    <3>1. pc[w] = "find" /\ Recorded(row, e)
      BY <2>5, <2>13 DEF CheckQuarantined
    <3>2. CASE Goto(w, "verify") /\ UNCHANGED job
      <4>1. pc'[w] = "verify"
        BY <1>0, <3>2, GotoEffect
      <4>2. RecordedAt("verify", j, row, e)
        BY <3>1 DEF Recorded, RecordedAt
      <4>3. QED
        BY <2>3, <3>1, <3>2, <4>1, <4>2
    <3>3. QED
      BY <2>4, <2>13, <3>1, <3>2 DEF CheckQuarantined
  <2>14. CASE CheckUncertain(w)
    <3>1. pc[w] = "verify" /\ Recorded(row, e)
      BY <2>5, <2>14 DEF CheckUncertain
    <3>2. QED
      BY <2>2, <2>4, <2>14, <3>1 DEF CheckUncertain
  <2>15. QED
    BY <1>11, <2>6, <2>7, <2>8, <2>9, <2>10, <2>11, <2>12, <2>13, <2>14, NeverIllegal
       DEF ControlAction
<1>12. ASSUME AllFine, ProviderAction(w) \/ Record(w)
       PROVE  RecordInv(w)'
  <2>1. /\ pc[w] \in {"lookup", "insert"} /\ UNCHANGED <<rows, log>>
        /\ pc'[w] \in {"insert", "report"}
        /\ job' = job \/ \E o : Got(w, o)
    BY <1>0, <1>12, GotoEffect DEF ProviderAction, TimeOut, Perform, Record, Dispatchable
  <2>2. job'[w].case = c
    BY <1>0, <2>1, GotEffect
  <2>3. RecordedAt(pc'[w], job'[w], row, e)
    <3>1. RecordedAt(pc[w], j, row, e)
      BY <1>6, <1>12, <2>1
    <3>2. QED
      BY <2>1, <3>1 DEF RecordedAt
  <2>4. QED
    BY <1>2, <1>7, <1>12, <2>1, <2>2, <2>3 DEF Exists
<1>13. CASE AllFine
  BY <1>9, <1>10, <1>11, <1>12, <1>13
<1>14. QED
  BY <1>3, <1>5, <1>13

\* With one writer and no death, replay() gives the cohort, the state and the
\* pending uncertainty of every case that no call is working on.
THEOREM OneWriterReplays ==
  ASSUME NEW w \in Writers, Writers = {w}, StartStates \subseteq OpenStates
  PROVE  PipelineSpec => []ReplayAgrees
<1> DEFINE Inv == SoloFacts(w) /\ FreshCalls /\ RecordInv(w)
<1>1. Alone(w)
  BY DEF Alone
<1>2. ASSUME PipelineInit
      PROVE  Inv
  <2>1. SoloFacts(w)
    BY <1>2, SoloInit
  <2>2. FreshCalls
    BY <1>2 DEF PipelineInit, StoreInit, FreshCalls
  <2>3. \A c \in Cases : ~Exists(c) /\ log[c] = NoLog /\ pc[w] = "idle"
    BY <1>2 DEF PipelineInit, StoreInit, Exists, NoRow
  <2>4. QED
    BY <2>1, <2>2, <2>3 DEF RecordInv, WorksOn
<1>3. ASSUME Inv, [PipelineNext]_vars
      PROVE  Inv'
  <2>1. SoloFacts(w)'
    BY <1>1, <1>3, SoloStep
  <2>2. CASE UNCHANGED vars
    <3>1. FreshCalls' /\ RecordInv(w)'
      BY <1>3, <2>2 DEF vars, FreshCalls, Fresh, RecordInv, WorksOn, Exists
    <3>2. QED
      BY <2>1, <3>1
  <2>3. CASE \/ StoreAction(w) \/ LogAction(w) \/ ControlAction(w)
             \/ ProviderAction(w) \/ Record(w)
    BY <1>1, <1>3, <2>1, <2>3, FreshStep, RecordStep
  <2>4. QED
    BY <1>1, <1>3, <2>2, <2>3, PipelineCases DEF Alone
<1>4. ASSUME Inv
      PROVE  ReplayAgrees
  <2>1. SUFFICES ASSUME NEW c \in Cases, Exists(c), Quiet(c), crashes = 0
                 PROVE  ReplayMatches(c)
    BY DEF ReplayAgrees
  <2>2. Recorded(rows[c], log[c])
    BY <1>4, <2>1 DEF RecordInv, Quiet
  <2>3. QED
    BY <2>2 DEF Recorded, ReplayMatches
<1>5. QED
  BY <1>2, <1>3, <1>4, PTL DEF PipelineSpec

----------------------------------------------------------------------------
(* What one writer counts *)

\* The attempt that the log calls uncertain is known to the provider and can still be
\* counted: until RECONCILIATION_RESOLVED, and by then the row has left QUARANTINED, or
\* is yet to get there.
Owes(l, j, row, s, u) ==
  /\ u # 0 /\ l # "resolve"
  /\ \/ row.state = "QUARANTINED"
     \/ l \in {"select", "update"} /\ j.phase = "settle" /\ j.target = "QUARANTINED"
     => HasAttempt(s, u)

\* An attempt was charged and is on its way to the counter, or to the log.
UnderWay(l, j, s) ==
  \/ l = "insert"
  \/ l = "report" /\ j.outcome \in {"SUCCEEDED", "FAILED"}
  \/ l = "report" /\ j.outcome = "UNCERTAIN" /\ HasAttempt(s, j.seen.attempts + 1)
  \/ l \in {"select", "update"} /\ j.phase = "settle" /\ Spent(j.target)

One(b) == IF b THEN 1 ELSE 0

Backed(l, j, row, s, u, deaths) ==
  row.attempts + One(Owes(l, j, row, s, u)) + One(UnderWay(l, j, s)) <= Len(s) + deaths

\* reconcile() was given an outcome that counts only of an attempt that was charged.
Foretold(l, j, s, u) ==
  /\ l \in {"find", "verify"} /\ j.outcome \in {"SUCCEEDED", "FAILED"} =>
       u # 0 /\ HasAttempt(s, u)
  /\ l \in {"select", "update"} /\ j.phase = "reconcile" /\ Spent(j.target) =>
       u # 0 /\ HasAttempt(s, u)

\* No case counts, or may still count, more than was charged, but for the deaths.
CountInv(w) ==
  /\ \A c \in Cases :
       Backed(IF WorksOn(w, c) THEN pc[w] ELSE "idle", job[w], rows[c], charges[c],
              log[c].uncertain, crashes)
  /\ pc[w] # "idle" => Foretold(pc[w], job[w], charges[job[w].case],
                                log[job[w].case].uncertain)

\* A statement with nothing under way, of a call that does not resolve.
LEMMA PlainBacked ==
  ASSUME NEW j, NEW k, NEW row, NEW s, NEW u, NEW n, NEW l, NEW m,
         l \notin {"resolve", "insert", "report"}, m \notin {"resolve", "insert", "report"},
         l \in {"select", "update"} => j.phase # "settle",
         m \in {"select", "update"} => k.phase # "settle",
         Backed(l, j, row, s, u, n)
  PROVE  Backed(m, k, row, s, u, n)
<1>1. Owes(l, j, row, s, u) <=> Owes(m, k, row, s, u)
  BY DEF Owes
<1>2. ~UnderWay(l, j, s) /\ ~UnderWay(m, k, s)
  BY DEF UnderWay
<1>3. QED
  BY <1>1, <1>2 DEF Backed, One

\* The books of one case after a step, which counts what was under way or owed, charges,
\* or ends in a death; or after which no more is owed or under way.
LEMMA StaysBacked ==
  ASSUME NEW l, NEW j, NEW row, NEW s, NEW u, NEW n \in Nat,
         NEW m, NEW k, NEW row2, NEW s2, NEW u2, NEW n2 \in Nat,
         row.attempts \in Nat, row2.attempts \in Nat, Len(s) \in Nat, Len(s2) \in Nat,
         Backed(l, j, row, s, u, n),
         LET before == Owes(l, j, row, s, u)
             after  == Owes(m, k, row2, s2, u2)
             going  == UnderWay(l, j, s)
             goes   == UnderWay(m, k, s2)
             Same   == row2.attempts <= row.attempts
             Counts == row2.attempts = row.attempts + 1
             Spends == Len(s2) = Len(s) + 1
             Dies   == n2 = n + 1
         IN  \/ Same /\ Len(s2) = Len(s) /\ n2 = n /\ (after => before) /\ (goes => going)
             \/ Same /\ Len(s2) = Len(s) /\ n2 = n /\ (after => going) /\ ~goes
             \/ Counts /\ Len(s2) = Len(s) /\ n2 = n /\ going /\ ~goes /\ (after => before)
             \/ Counts /\ Len(s2) = Len(s) /\ n2 = n /\ before /\ ~after /\ ~goes
             \/ Same /\ Spends /\ n2 = n /\ (after => before)
             \/ Same /\ Len(s2) = Len(s) /\ Dies /\ ~goes
  PROVE  Backed(m, k, row2, s2, u2, n2)
<1> DEFINE o == One(Owes(l, j, row, s, u))
           p == One(UnderWay(l, j, s))
           o2 == One(Owes(m, k, row2, s2, u2))
           p2 == One(UnderWay(m, k, s2))
<1>1. o \in {0, 1} /\ p \in {0, 1} /\ o2 \in {0, 1} /\ p2 \in {0, 1}
  BY DEF One
<1>2. /\ Owes(l, j, row, s, u) <=> o = 1
      /\ UnderWay(l, j, s) <=> p = 1
      /\ Owes(m, k, row2, s2, u2) <=> o2 = 1
      /\ UnderWay(m, k, s2) <=> p2 = 1
  BY DEF One
<1>3. row.attempts + o + p <= Len(s) + n
  BY DEF Backed
<1> HIDE DEF o, p, o2, p2
<1>4. \A a, b, x, y \in Nat :
        /\ a + o + p <= x + n
        /\ \/ b <= a /\ y = x /\ n2 = n /\ (o2 = 1 => o = 1) /\ (p2 = 1 => p = 1)
           \/ b <= a /\ y = x /\ n2 = n /\ (o2 = 1 => p = 1) /\ p2 # 1
           \/ b = a + 1 /\ y = x /\ n2 = n /\ p = 1 /\ p2 # 1 /\ (o2 = 1 => o = 1)
           \/ b = a + 1 /\ y = x /\ n2 = n /\ o = 1 /\ o2 # 1 /\ p2 # 1
           \/ b <= a /\ y = x + 1 /\ n2 = n /\ (o2 = 1 => o = 1)
           \/ b <= a /\ y = x /\ n2 = n + 1 /\ p2 # 1
        => b + o2 + p2 <= y + n2
  BY <1>1
<1>5. row2.attempts + o2 + p2 <= Len(s2) + n2
  BY <1>2, <1>3, <1>4
<1>6. QED
  BY <1>5 DEF Backed, o2, p2

\* A case that the call does not work on is not touched, and may be idle.
LEMMA CountGoesOn ==
  ASSUME PipelineTypeOK, PipelineTypeOK', NEW w \in Writers, CountInv(w),
         pc[w] # "idle", NEW c \in Cases, c = job[w].case,
         \A d \in Cases \ {c} : /\ rows'[d] = rows[d] /\ charges'[d] = charges[d]
                                /\ log'[d].uncertain = log[d].uncertain,
         crashes' = crashes, pc'[w] # "idle" => job'[w].case = c,
         Backed(pc'[w], job'[w], rows'[c], charges'[c], log'[c].uncertain, crashes),
         Foretold(pc'[w], job'[w], charges'[c], log'[c].uncertain)
  PROVE  CountInv(w)'
<1>1. ASSUME NEW d \in Cases \ {c}
      PROVE  Backed("idle", job'[w], rows[d], charges[d], log[d].uncertain, crashes)
  <2>1. Backed("idle", job[w], rows[d], charges[d], log[d].uncertain, crashes)
    BY <1>1 DEF CountInv, WorksOn
  <2>2. QED
    BY <2>1, PlainBacked
<1>2. QED
  BY <1>1 DEF CountInv, WorksOn

\* A call begins.
LEMMA CountBegins ==
  ASSUME PipelineTypeOK, PipelineTypeOK', NEW w \in Writers, CountInv(w),
         pc[w] = "idle", pc'[w] \in {"guard", "find", "announce"}, NEW c \in Cases,
         c = job'[w].case, UNCHANGED <<charges, log, crashes>>,
         \A d \in Cases \ {c} : rows'[d] = rows[d],
         rows'[c].attempts <= rows[c].attempts,
         rows'[c].state = "QUARANTINED" <=> rows[c].state = "QUARANTINED",
         Foretold(pc'[w], job'[w], charges[c], log[c].uncertain)
  PROVE  CountInv(w)'
<1>1. \A d \in Cases :
        Backed("idle", job[w], rows[d], charges[d], log[d].uncertain, crashes)
  BY DEF CountInv, WorksOn
<1>2. \A d \in Cases : /\ rows[d].attempts \in Nat /\ rows'[d].attempts \in Nat
                       /\ Len(charges[d]) \in Nat /\ crashes \in Nat
  BY DEF PipelineTypeOK, StoreTypeOK, Row
<1>3. ASSUME NEW d \in Cases \ {c}
      PROVE  Backed("idle", job'[w], rows'[d], charges[d], log[d].uncertain, crashes)
  BY <1>1, <1>3, PlainBacked
<1>4. Backed(pc'[w], job'[w], rows'[c], charges[c], log[c].uncertain, crashes)
  <2>1. /\ Owes(pc'[w], job'[w], rows'[c], charges[c], log[c].uncertain)
             <=> Owes("idle", job[w], rows[c], charges[c], log[c].uncertain)
        /\ ~UnderWay(pc'[w], job'[w], charges[c]) /\ ~UnderWay("idle", job[w], charges[c])
    BY DEF Owes, UnderWay
  <2>2. Backed("idle", job[w], rows[c], charges[c], log[c].uncertain, crashes)
    BY <1>1
  <2>3. QED
    BY <1>2, <2>1, <2>2, StaysBacked
<1>5. QED
  BY <1>3, <1>4 DEF CountInv, WorksOn

\* The counter keeps to the charges.
LEMMA CountStep ==
  ASSUME NEW w \in Writers, Alone(w), SoloFacts(w), SoloFacts(w)', FreshCalls, CountInv(w),
         \/ StoreAction(w) \/ LogAction(w) \/ ControlAction(w)
         \/ ProviderAction(w) \/ Record(w)
  PROVE  CountInv(w)'
<1> DEFINE c == job[w].case
           row == rows[c]
           s == charges[c]
           u == log[c].uncertain
           j == job[w]
<1>0. /\ c \in Cases /\ row \in Row /\ s \in Seq(Attempt) /\ log[c] \in LogEntry
      /\ row.attempts \in Nat /\ Len(s) \in Nat /\ crashes \in Nat /\ u \in Nat
      /\ rows \in [Cases -> Row] /\ log \in [Cases -> LogEntry]
      /\ charges \in [Cases -> Seq(Attempt)]
      /\ PipelineTypeOK /\ PipelineTypeOK' /\ TypesInductive /\ AuthorityInv /\ SoloInv(w)
  <2>1. TypesInductive /\ AuthorityInv /\ SoloInv(w) /\ PipelineTypeOK /\ PipelineTypeOK'
    BY DEF SoloFacts, TypesInductive
  <2>2. /\ rows \in [Cases -> Row] /\ log \in [Cases -> LogEntry] /\ crashes \in Nat
        /\ charges \in [Cases -> Seq(Attempt)]
    BY <2>1 DEF PipelineTypeOK, StoreTypeOK
  <2>3. c \in Cases
    BY <2>1, LocalTypes
  <2>4. QED
    BY <2>1, <2>2, <2>3 DEF Row, LogEntry
<1>1. KnowsAt(pc[w], j, row, s, u)
  BY <1>0 DEF SoloInv, Knows
<1>2. pc[w] # "idle" => Backed(pc[w], j, row, s, u, crashes) /\ Foretold(pc[w], j, s, u)
  BY <1>0 DEF CountInv, WorksOn
\* A statement that changes neither the row, nor the charges, nor what is uncertain.
<1>3. ASSUME pc[w] # "idle", pc'[w] # "idle" => job'[w].case = c,
             UNCHANGED <<rows, charges, log, crashes>>,
             Owes(pc'[w], job'[w], row, s, u) => Owes(pc[w], j, row, s, u),
             UnderWay(pc'[w], job'[w], s) => UnderWay(pc[w], j, s),
             Foretold(pc'[w], job'[w], s, u)
      PROVE  CountInv(w)'
  <2>1. Backed(pc'[w], job'[w], row, s, u, crashes)
    BY <1>0, <1>2, <1>3, StaysBacked
  <2>2. QED
    BY <1>0, <1>3, <2>1, CountGoesOn
<1>4. CASE StoreAction(w)
  <2>1. ASSUME NEW d \in Cases, NEW k \in Cohorts, Ingest(w, d, k)
        PROVE  CountInv(w)'
    <3>1. /\ pc[w] = "idle" /\ ~Exists(d) /\ rows' = [rows EXCEPT ![d] = NewRow(k)]
          /\ job' = [job EXCEPT ![w] = NewJob(d, FALSE, NoProposal, "NONE")]
          /\ UNCHANGED <<charges, log, crashes>> /\ pc'[w] = "announce"
      BY <1>0, <2>1, GotoEffect DEF Ingest, CreateCase
    <3>2. job'[w].case = d
      BY <1>0, <3>1 DEF PipelineTypeOK, NewJob
    <3>3. /\ rows'[d].attempts = 0 /\ rows'[d].state = "DETECTED"
          /\ rows[d].state = "ABSENT" /\ rows[d].attempts \in Nat
      BY <1>0, <3>1 DEF NewRow, Exists, Row
    <3>4. Foretold("announce", job'[w], charges[d], log[d].uncertain)
      BY DEF Foretold
    <3>5. \A b \in Cases \ {d} : rows'[b] = rows[b]
      BY <1>0, <3>1
    <3>6. /\ rows'[d].attempts <= rows[d].attempts
          /\ rows'[d].state = "QUARANTINED" <=> rows[d].state = "QUARANTINED"
      BY <3>3
    <3>7. pc[w] = "idle" /\ pc'[w] = "announce" /\ UNCHANGED <<charges, log, crashes>>
      BY <3>1
    <3>8. QED
      BY <1>0, <3>2, <3>4, <3>5, <3>6, <3>7, CountBegins
  <2>2. CASE Select(w)
    <3>1. /\ pc[w] = "select" /\ pc'[w] = "update"
          /\ UNCHANGED <<rows, charges, log, crashes, job>>
      BY <1>0, <2>2, GotoEffect DEF Select, SelectRow
    <3>2. /\ Owes("update", j, row, s, u) => Owes("select", j, row, s, u)
          /\ UnderWay("update", j, s) => UnderWay("select", j, s)
          /\ Foretold("select", j, s, u) => Foretold("update", j, s, u)
      BY DEF Owes, UnderWay, Foretold
    <3>3. QED
      BY <1>2, <1>3, <3>1, <3>2
  <2>3. CASE Update(w)
    <3> DEFINE to == job[w].target
               new == [state |-> to, cohort |-> rows[c].cohort,
                       attempts |-> rows[c].attempts + (IF Spent(to) THEN 1 ELSE 0),
                       version |-> rows[c].version + 1]
    <3>1. /\ rows' = [rows EXCEPT ![c] = new] /\ UNCHANGED <<log, charges, job, crashes>>
          /\ pc'[w] = AfterUpdate(w) /\ pc[w] = "update"
      BY <1>0, <2>3, UpdateWrites DEF Update
    <3>2. /\ new.state = to /\ rows'[c] = new /\ new.attempts \in Nat
          /\ Spent(to) => new.attempts = row.attempts + 1
          /\ ~Spent(to) => new.attempts = row.attempts
      BY <1>0, <3>1
    <3> HIDE DEF new
    <3>3. Course(j.phase, row.state, to)
      BY <1>1, <3>1 DEF KnowsAt
    <3>4. /\ j.phase = "launch" => AfterUpdate(w) = "execute"
          /\ j.phase = "reconcile" => AfterUpdate(w) = "resolve"
          /\ j.phase \notin {"launch", "reconcile"} => AfterUpdate(w) = "log"
      BY DEF AfterUpdate
    <3>5. ~UnderWay(AfterUpdate(w), j, s) /\ Foretold(AfterUpdate(w), j, s, u)
      BY <3>4 DEF UnderWay, Foretold
    <3>6. ASSUME j.phase = "reconcile"
          PROVE  Backed(AfterUpdate(w), j, new, s, u, crashes)
      <4>1. ~Owes(AfterUpdate(w), j, new, s, u)
        BY <3>4, <3>6 DEF Owes
      <4>2. Spent(to) => Owes("update", j, row, s, u)
        <5>1. row.state = "QUARANTINED"
          BY <3>3, <3>6 DEF Course
        <5>2. Spent(to) => u # 0 /\ HasAttempt(s, u)
          BY <1>2, <3>1, <3>6 DEF Foretold
        <5>3. QED
          BY <5>1, <5>2 DEF Owes
      <4>3. QED
        BY <1>0, <1>2, <3>1, <3>2, <3>5, <4>1, <4>2, StaysBacked
    <3>7. ASSUME j.phase = "settle"
          PROVE  Backed(AfterUpdate(w), j, new, s, u, crashes)
      <4>1. Spent(to) => UnderWay("update", j, s)
        BY <3>7 DEF UnderWay
      <4>2. Owes(AfterUpdate(w), j, new, s, u) => Owes("update", j, row, s, u)
        <5>1. row.state = "EXECUTING"
          BY <3>3, <3>7 DEF Course
        <5>2. QED
          BY <3>2, <3>4, <3>7, <5>1 DEF Owes
      <4>3. QED
        BY <1>0, <1>2, <3>1, <3>2, <3>5, <4>1, <4>2, StaysBacked
    <3>8. ASSUME j.phase \notin {"reconcile", "settle"}
          PROVE  Backed(AfterUpdate(w), j, new, s, u, crashes)
      <4>1. ~Spent(to) /\ row.state # "QUARANTINED"
        BY <3>3, <3>8 DEF Course, Spent, OpenStates
      <4>2. Owes(AfterUpdate(w), j, new, s, u) => Owes("update", j, row, s, u)
        BY <3>8, <4>1 DEF Owes
      <4>3. QED
        BY <1>0, <1>2, <3>1, <3>2, <3>5, <4>1, <4>2, StaysBacked
    <3>9. Backed(AfterUpdate(w), j, new, s, u, crashes)
      BY <3>6, <3>7, <3>8
    <3>10. \A d \in Cases \ {c} : rows'[d] = rows[d]
      BY <1>0, <3>1
    <3>11. QED
      BY <1>0, <3>1, <3>2, <3>5, <3>9, <3>10, CountGoesOn
  <2>4. CASE Crash(w)
    <3>1. /\ pc[w] # "idle" /\ pc'[w] = "idle" /\ crashes' = crashes + 1
          /\ UNCHANGED <<rows, log, charges>>
      BY <1>0, <2>4, GotoEffect DEF Crash, Return
    <3>2. ASSUME NEW d \in Cases
          PROVE  Backed("idle", job'[w], rows[d], charges[d], log[d].uncertain, crashes + 1)
      <4>1. \E l : Backed(l, j, rows[d], charges[d], log[d].uncertain, crashes)
        BY DEF CountInv
      <4>2. ~UnderWay("idle", job'[w], charges[d])
        BY DEF UnderWay
      <4>3. rows[d].attempts \in Nat /\ Len(charges[d]) \in Nat /\ crashes + 1 \in Nat
        BY <1>0 DEF Row
      <4>4. QED
        BY <1>0, <4>1, <4>2, <4>3, StaysBacked
    <3>3. QED
      BY <3>1, <3>2 DEF CountInv, WorksOn
  <2>5. QED
    BY <1>4, <2>1, <2>2, <2>3, <2>4, FreshStep DEF StoreAction
<1>5. CASE LogAction(w)
  <2>1. CASE Announce(w)
    <3>1. /\ pc[w] = "announce" /\ pc'[w] = "idle" /\ UNCHANGED <<rows, charges, crashes>>
          /\ log' = [log EXCEPT ![c] = [log[c] EXCEPT !.cohort = row.cohort]]
      BY <1>0, <2>1, GotoEffect DEF Announce, Return
    <3>2. log'[c] = [log[c] EXCEPT !.cohort = row.cohort]
      BY <1>0, <3>1
    <3>3. log'[c].uncertain = u /\ \A d \in Cases \ {c} : log'[d] = log[d]
      BY <1>0, <3>1, <3>2 DEF LogEntry
    <3>4. Backed("idle", job'[w], row, s, u, crashes) /\ Foretold("idle", job'[w], s, u)
      BY <1>2, <3>1, PlainBacked DEF Foretold
    <3>5. QED
      BY <1>0, <3>1, <3>3, <3>4, CountGoesOn
  <2>2. CASE LogTransition(w)
    <3>1. /\ pc[w] = "log" /\ UNCHANGED <<rows, charges, crashes>>
          /\ log' = [log EXCEPT ![c] = [log[c] EXCEPT !.state = j.target]]
      BY <2>2 DEF LogTransition
    <3>2. log'[c] = [log[c] EXCEPT !.state = j.target]
      BY <1>0, <3>1
    <3>3. log'[c].uncertain = u /\ \A d \in Cases \ {c} : log'[d] = log[d]
      BY <1>0, <3>1, <3>2 DEF LogEntry
    <3>4. \/ pc'[w] = "view" /\ job' = job
          \/ pc'[w] = "select" /\ job'[w].phase = "launch" /\ job'[w].case = c
          \/ pc'[w] = "idle"
      BY <1>0, <2>2, GotoEffect, MoveEffect DEF LogTransition, Return
    <3>5. /\ Backed(pc'[w], job'[w], row, s, u, crashes)
          /\ Foretold(pc'[w], job'[w], s, u)
      BY <1>2, <3>1, <3>4, PlainBacked DEF Foretold
    <3>6. QED
      BY <1>0, <3>1, <3>3, <3>4, <3>5, CountGoesOn
  <2>3. CASE ReportOutcome(w)
    <3> DEFINE to == Settled(j.outcome)
               u2 == log'[c].uncertain
    <3>1. pc[w] = "report" /\ Move(w, "settle", to) /\ UNCHANGED <<rows, charges, crashes>>
      BY <2>3 DEF ReportOutcome
    <3>2. /\ pc'[w] = "select" /\ job'[w].case = c /\ job'[w].phase = "settle"
          /\ job'[w].target = to
      BY <1>0, <3>1, MoveEffect
    <3>3. row.state = "EXECUTING" /\ j.outcome \in {"SUCCEEDED", "FAILED", "RETRYABLE", "UNCERTAIN"}
      BY <1>1, <3>1 DEF KnowsAt
    <3>4. /\ j.outcome = "UNCERTAIN" => u2 = AttemptOf(w)
          /\ j.outcome # "UNCERTAIN" => u2 = u
          /\ \A d \in Cases \ {c} : log'[d] = log[d]
      <4>1. \/ /\ j.outcome # "UNCERTAIN"
               /\ \/ log'[c] = [log[c] EXCEPT !.attempts = log[c].attempts + 1]
                  \/ log'[c] = log[c]
            \/ /\ j.outcome = "UNCERTAIN"
               /\ log'[c] = [log[c] EXCEPT !.uncertain = AttemptOf(w)]
        BY <1>0, <2>3 DEF ReportOutcome
      <4>2. \A d \in Cases \ {c} : log'[d] = log[d]
        BY <1>0, <2>3 DEF ReportOutcome
      <4>3. QED
        BY <1>0, <4>1, <4>2 DEF LogEntry
    <3> HIDE DEF u2
    <3>5. Backed("select", job'[w], row, s, u2, crashes)
      <4>1. CASE j.outcome = "UNCERTAIN"
        <5>1. Owes("select", job'[w], row, s, u2) => UnderWay("report", j, s)
          BY <3>2, <3>4, <4>1 DEF Owes, UnderWay, Settled, AttemptOf
        <5>2. ~UnderWay("select", job'[w], s)
          BY <3>2, <4>1 DEF UnderWay, Settled, Spent
        <5>3. QED
          BY <1>0, <1>2, <3>1, <5>1, <5>2, StaysBacked
      <4>2. CASE j.outcome # "UNCERTAIN"
        <5>1. Owes("select", job'[w], row, s, u2) => Owes("report", j, row, s, u)
          BY <3>3, <3>4, <4>2 DEF Owes
        <5>2. UnderWay("select", job'[w], s) => UnderWay("report", j, s)
          BY <3>2, <3>3, <4>2 DEF UnderWay, Settled, Spent
        <5>3. QED
          BY <1>0, <1>2, <3>1, <5>1, <5>2, StaysBacked
      <4>3. QED
        BY <4>1, <4>2
    <3>6. Foretold("select", job'[w], s, u2)
      BY <3>2 DEF Foretold
    <3>7. QED
      BY <1>0, <3>1, <3>2, <3>4, <3>5, <3>6, CountGoesOn DEF u2
  <2>4. CASE Resolve(w)
    <3>1. /\ pc[w] = "resolve" /\ pc'[w] = "log" /\ job' = job
          /\ UNCHANGED <<rows, charges, crashes>>
          /\ log' = [log EXCEPT ![c] = [log[c] EXCEPT !.uncertain = 0]]
      BY <1>0, <2>4, GotoEffect DEF Resolve
    <3>2. log'[c] = [log[c] EXCEPT !.uncertain = 0]
      BY <1>0, <3>1
    <3>3. log'[c].uncertain = 0 /\ \A d \in Cases \ {c} : log'[d] = log[d]
      BY <1>0, <3>1, <3>2 DEF LogEntry
    <3>4. ~Owes("log", j, row, s, 0) /\ ~UnderWay("log", j, s) /\ Foretold("log", j, s, 0)
      BY DEF Owes, UnderWay, Foretold
    <3>5. Backed("log", j, row, s, 0, crashes)
      BY <1>0, <1>2, <3>1, <3>4, StaysBacked
    <3>6. QED
      BY <1>0, <3>1, <3>3, <3>4, <3>5, CountGoesOn
  <2>5. QED
    BY <1>5, <2>1, <2>2, <2>3, <2>4 DEF LogAction
<1>6. CASE ControlAction(w)
  <2>0. UNCHANGED <<rows, charges, log, crashes>>
    BY <1>6 DEF ControlAction, Start, Begin, Find, Guard, ReadCase, Authorize, Illegal,
         ExecutorReads, Replay, Refuse, RefuseForNow, CheckQuarantined, CheckUncertain
  <2>1. ASSUME NEW d \in Cases, NEW h, NEW p, NEW o, NEW l \in {"guard", "find"},
               pc[w] = "idle", Goto(w, l), job' = [job EXCEPT ![w] = NewJob(d, h, p, o)],
               Foretold(l, NewJob(d, h, p, o), charges[d], log[d].uncertain)
        PROVE  CountInv(w)'
    <3>1. pc'[w] = l /\ job'[w] = NewJob(d, h, p, o)
      BY <1>0, <2>1, GotoEffect DEF PipelineTypeOK
    <3>2. job'[w].case = d
      BY <3>1 DEF NewJob
    <3>3. rows[d].attempts \in Nat
      BY <1>0 DEF Row
    <3>4. /\ rows'[d].attempts <= rows[d].attempts
          /\ rows'[d].state = "QUARANTINED" <=> rows[d].state = "QUARANTINED"
          /\ Foretold(pc'[w], job'[w], charges[d], log[d].uncertain)
      BY <2>0, <2>1, <3>1, <3>3
    <3>5. QED
      BY <1>0, <2>0, <2>1, <3>1, <3>2, <3>4, CountBegins
  <2>2. ASSUME pc[w] \in {"guard", "view", "decide", "find", "verify", "execute", "lookup"},
               pc'[w] \notin {"resolve", "insert", "report"},
               pc'[w] \in {"select", "update"} => job'[w].phase # "settle",
               pc'[w] # "idle" => job'[w].case = c, Foretold(pc'[w], job'[w], s, u)
        PROVE  CountInv(w)'
    <3>1. Backed(pc'[w], job'[w], row, s, u, crashes)
      BY <1>2, <2>2, PlainBacked
    <3>2. QED
      BY <1>0, <2>0, <2>2, <3>1, CountGoesOn
  <2>3. ASSUME NEW d \in Cases, NEW p \in Proposals, NEW h \in BOOLEAN, Start(w, d, p, h)
        PROVE  CountInv(w)'
    <3>1. Foretold("guard", NewJob(d, h, p, "NONE"), charges[d], log[d].uncertain)
      BY DEF Foretold
    <3>2. QED
      BY <2>1, <2>3, <3>1 DEF Start, Begin
  <2>4. ASSUME NEW d \in Cases, Find(w, d)
        PROVE  CountInv(w)'
    <3> DEFINE o == VerifiedOutcome(d)
    <3>1. NewJob(d, FALSE, NoProposal, o).outcome = o
      BY DEF NewJob
    <3>2. o \in {"SUCCEEDED", "FAILED"} => HasAttempt(charges[d], log[d].uncertain)
      BY DEF VerifiedOutcome, HasAttempt
    <3>3. Foretold("find", NewJob(d, FALSE, NoProposal, o), charges[d], log[d].uncertain)
      BY <2>4, <3>1, <3>2 DEF Foretold, Find
    <3>4. QED
      BY <2>1, <2>4, <3>3 DEF Find
  <2>5. CASE Guard(w)
    <3>1. /\ pc[w] = "guard"
          /\ \/ pc'[w] = "view" /\ job' = job
             \/ pc'[w] = "select" /\ job'[w].phase = "diagnose" /\ job'[w].case = c
      BY <1>0, <2>5, GotoEffect, MoveEffect DEF Guard
    <3>2. QED
      BY <2>2, <3>1 DEF Foretold
  <2>6. CASE ReadCase(w) \/ ExecutorReads(w)
    <3>1. /\ pc[w] \in {"view", "execute"} /\ pc'[w] \in {"decide", "lookup"}
          /\ job'[w].case = c
      BY <1>0, <2>6, GotoEffect, SawEffect DEF ReadCase, ExecutorReads
    <3>2. QED
      BY <2>2, <3>1 DEF Foretold
  <2>7. CASE Authorize(w)
    <3>1. /\ pc[w] = "decide" /\ pc'[w] = "select" /\ job'[w].case = c
          /\ job'[w].phase \in {"schedule", "close"}
      BY <1>0, <2>7, MoveEffect DEF Authorize
    <3>2. QED
      BY <2>2, <3>1 DEF Foretold
  <2>8. CASE Replay(w)
    <3>1. pc[w] = "lookup" /\ HasAttempt(s, row.attempts + 1)
      <4>1. pc[w] = "lookup" /\ AttemptOf(w) \in ExecutedKeys(c)
        BY <2>8 DEF Replay, Known
      <4>2. AttemptOf(w) = row.attempts + 1
        BY <1>1, <4>1 DEF KnowsAt, AttemptOf
      <4>3. \A a \in actions[c] : HasAttempt(s, a.attempt)
        BY <1>0 DEF SoloInv, LedgerInv, Balanced
      <4>4. QED
        BY <4>1, <4>2, <4>3 DEF ExecutedKeys
    <3>2. QED
      BY <1>1, <3>1 DEF KnowsAt, Uncounted
  <2>9. CASE Refuse(w) \/ RefuseForNow(w)
    <3>1. /\ pc[w] = "lookup" /\ pc'[w] = "report" /\ job'[w].case = c
          /\ job'[w].outcome \in {"REFUSED", "RETRYABLE"}
      BY <1>0, <2>9, GotoEffect, GotEffect DEF Refuse, RefuseForNow, Dispatchable
    <3>2. /\ Owes("report", job'[w], row, s, u) => Owes("lookup", j, row, s, u)
          /\ ~UnderWay("report", job'[w], s) /\ Foretold("report", job'[w], s, u)
      BY <3>1 DEF Owes, UnderWay, Foretold
    <3>3. QED
      BY <1>3, <2>0, <3>1, <3>2
  <2>10. CASE CheckQuarantined(w)
    <3>1. pc[w] = "find" /\ ((pc'[w] = "verify" /\ job' = job) \/ pc'[w] = "idle")
      BY <1>0, <2>10, GotoEffect DEF CheckQuarantined, Return
    <3>2. Foretold(pc'[w], job'[w], s, u)
      BY <1>2, <3>1 DEF Foretold
    <3>3. QED
      BY <2>2, <3>1, <3>2
  <2>11. CASE CheckUncertain(w)
    <3>1. /\ pc[w] = "verify"
          /\ \/ pc'[w] = "idle"
             \/ /\ pc'[w] = "select" /\ job'[w].phase = "reconcile" /\ job'[w].case = c
                /\ job'[w].target = Reconciled(j.outcome)
      BY <1>0, <2>11, GotoEffect, MoveEffect DEF CheckUncertain, Return
    <3>2. Spent(Reconciled(j.outcome)) => j.outcome \in {"SUCCEEDED", "FAILED"}
      BY DEF Spent, Reconciled
    <3>3. Foretold(pc'[w], job'[w], s, u)
      BY <1>2, <3>1, <3>2 DEF Foretold
    <3>4. QED
      BY <2>2, <3>1, <3>3
  <2>12. QED
    BY <1>6, <2>3, <2>4, <2>5, <2>6, <2>7, <2>8, <2>9, <2>10, <2>11, NeverIllegal
       DEF ControlAction
<1>7. CASE ProviderAction(w)
  <2>1. /\ pc[w] = "lookup" /\ pc'[w] \in {"insert", "report"} /\ job'[w].case = c
        /\ UNCHANGED <<rows, log, crashes>>
        /\ charges' = charges => pc'[w] = "report" /\ job'[w].outcome = "UNCERTAIN"
        /\ charges' = charges \/ \E ok \in BOOLEAN : Charge(w, ok)
        /\ job'[w].seen = j.seen
    <3>1. ASSUME NEW ok \in BOOLEAN, Charge(w, ok)
          PROVE  charges' # charges
      <4>1. charges'[c] = Append(s, [attempt |-> AttemptOf(w), ok |-> ok])
        BY <1>0, <3>1 DEF Charge
      <4>2. Len(charges'[c]) = Len(s) + 1
        BY <1>0, <4>1
      <4>3. QED
        BY <1>0, <4>2
    <3>2. QED
      BY <1>0, <1>7, <3>1, GotoEffect, GotEffect
         DEF ProviderAction, TimeOut, Perform, Dispatchable
  <2>2. Owes(pc'[w], job'[w], row, charges'[c], u) => Owes("lookup", j, row, s, u)
    <3>1. row.state = "EXECUTING"
      BY <1>1, <2>1 DEF KnowsAt
    <3>2. QED
      BY <2>1, <3>1 DEF Owes
  <2>3. Foretold(pc'[w], job'[w], charges'[c], u)
    BY <2>1 DEF Foretold
  <2>4. CASE charges' = charges
    <3>1. ~HasAttempt(s, j.seen.attempts + 1)
      BY <1>1, <2>1 DEF KnowsAt, Uncounted
    <3>2. ~UnderWay(pc'[w], job'[w], s)
      BY <2>1, <2>4, <3>1 DEF UnderWay
    <3>3. QED
      BY <1>3, <2>1, <2>2, <2>3, <2>4, <3>2
  <2>5. ASSUME NEW ok \in BOOLEAN, Charge(w, ok)
        PROVE  CountInv(w)'
    <3>1. charges' = [charges EXCEPT ![c] = Append(s, [attempt |-> AttemptOf(w), ok |-> ok])]
      BY <1>0, <2>5 DEF Charge
    <3>2. /\ charges'[c] \in Seq(Attempt) /\ Len(charges'[c]) = Len(s) + 1
          /\ \A d \in Cases \ {c} : charges'[d] = charges[d]
      <4>1. charges'[c] = Append(s, [attempt |-> AttemptOf(w), ok |-> ok])
        BY <1>0, <3>1
      <4>2. charges'[c] \in Seq(Attempt)
        BY <1>0 DEF PipelineTypeOK
      <4>3. QED
        BY <1>0, <3>1, <4>1, <4>2
    <3>3. Backed(pc'[w], job'[w], row, charges'[c], u, crashes)
      BY <1>0, <1>2, <2>1, <2>2, <3>2, StaysBacked
    <3>4. QED
      BY <1>0, <2>1, <2>3, <3>2, <3>3, CountGoesOn
  <2>6. QED
    BY <2>1, <2>4, <2>5
<1>8. CASE Record(w)
  <2>1. /\ pc[w] = "insert" /\ pc'[w] = "report" /\ job' = job
        /\ UNCHANGED <<rows, charges, log, crashes>>
    BY <1>0, <1>8, GotoEffect DEF Record
  <2>2. /\ Owes("report", j, row, s, u) => Owes("insert", j, row, s, u)
        /\ UnderWay("insert", j, s) /\ Foretold("report", j, s, u)
    BY DEF Owes, UnderWay, Foretold
  <2>3. QED
    BY <1>3, <2>1, <2>2
<1>9. QED
  BY <1>4, <1>5, <1>6, <1>7, <1>8

\* With one writer the counter never counts more attempts than were charged, and one
\* more for each death.
THEOREM OneWriterCountsBacked ==
  ASSUME NEW w \in Writers, Writers = {w}, StartStates \subseteq OpenStates
  PROVE  PipelineSpec => []CountsAreBacked
<1> DEFINE Inv == SoloFacts(w) /\ FreshCalls /\ CountInv(w)
<1>1. Alone(w)
  BY DEF Alone
<1>2. ASSUME PipelineInit
      PROVE  Inv
  <2>1. SoloFacts(w) /\ FreshCalls
    BY <1>2, SoloInit DEF PipelineInit, StoreInit, FreshCalls
  <2>2. ASSUME NEW c \in Cases
        PROVE  Backed("idle", job[w], rows[c], charges[c], log[c].uncertain, crashes)
    <3>1. /\ rows[c].attempts = 0 /\ Len(charges[c]) = 0 /\ crashes = 0
          /\ log[c].uncertain = 0
      BY <1>2 DEF PipelineInit, StoreInit, NoRow, NoLog
    <3>2. /\ ~Owes("idle", job[w], rows[c], charges[c], log[c].uncertain)
          /\ ~UnderWay("idle", job[w], charges[c])
      BY <3>1 DEF Owes, UnderWay
    <3>3. QED
      BY <3>1, <3>2 DEF Backed, One
  <2>3. pc[w] = "idle"
    BY <1>2 DEF PipelineInit
  <2>4. QED
    BY <2>1, <2>2, <2>3 DEF CountInv, WorksOn
<1>3. ASSUME Inv, [PipelineNext]_vars
      PROVE  Inv'
  <2>1. SoloFacts(w)'
    BY <1>1, <1>3, SoloStep
  <2>2. CASE UNCHANGED vars
    <3>1. FreshCalls' /\ CountInv(w)'
      BY <1>3, <2>2 DEF vars, FreshCalls, Fresh, CountInv, WorksOn
    <3>2. QED
      BY <2>1, <3>1
  <2>3. CASE \/ StoreAction(w) \/ LogAction(w) \/ ControlAction(w)
             \/ ProviderAction(w) \/ Record(w)
    BY <1>1, <1>3, <2>1, <2>3, FreshStep, CountStep
  <2>4. QED
    BY <1>1, <1>3, <2>2, <2>3, PipelineCases DEF Alone
<1>4. ASSUME Inv
      PROVE  CountsAreBacked
  <2>1. SUFFICES ASSUME NEW c \in Cases
                 PROVE  rows[c].attempts <= Len(charges[c]) + crashes
    BY DEF CountsAreBacked
  <2>2. \E l : Backed(l, job[w], rows[c], charges[c], log[c].uncertain, crashes)
    BY <1>4 DEF CountInv
  <2>3. \A b : One(b) \in {0, 1}
    BY DEF One
  <2>4. rows[c].attempts \in Nat /\ Len(charges[c]) \in Nat /\ crashes \in Nat
    BY <1>4 DEF SoloFacts, TypesInductive, PipelineTypeOK, StoreTypeOK, Row
  <2>5. QED
    BY <2>2, <2>3, <2>4 DEF Backed
<1>5. QED
  BY <1>2, <1>3, <1>4, PTL DEF PipelineSpec

----------------------------------------------------------------------------
(* RECOVERED means collected, whoever else is writing *)

\* Every trace of a success, in a row, an open call, a recorded action or the
\* locals of a writer, is of a case of which something was collected.
Told(w) == job[w].outcome = "SUCCEEDED" \/ job[w].target = "RECOVERED"

CollectedInv ==
  /\ \A c \in Cases : rows[c].state = "RECOVERED" => Paid(charges[c])
  /\ \A p \in pending : p.to = "RECOVERED" => Paid(charges[p.case])
  /\ \A c \in Cases : \A a \in actions[c] : a.ok => Paid(charges[c])
  /\ \A w \in Writers : Told(w) => Paid(charges[job[w].case])

\* A history of charges that grows still says what it said.
LEMMA PaidStays ==
  ASSUME NEW s \in Seq(Attempt), NEW x \in Attempt
  PROVE  /\ Paid(s) => Paid(Append(s, x))
         /\ x.ok => Paid(Append(s, x))
<1>1. /\ DOMAIN s = 1 .. Len(s) /\ Len(s) \in Nat
      /\ DOMAIN Append(s, x) = 1 .. Len(s) + 1
      /\ \A i \in 1 .. Len(s) : Append(s, x)[i] = s[i]
      /\ Append(s, x)[Len(s) + 1] = x
  OBVIOUS
<1>2. ASSUME Paid(s)
      PROVE  Paid(Append(s, x))
  <2>1. PICK i \in 1 .. Len(s) : s[i].ok
    BY <1>1, <1>2 DEF Paid
  <2>2. i \in DOMAIN Append(s, x) /\ Append(s, x)[i].ok
    BY <1>1, <2>1
  <2>3. QED
    BY <2>2 DEF Paid
<1>3. ASSUME x.ok
      PROVE  Paid(Append(s, x))
  <2>1. Len(s) + 1 \in DOMAIN Append(s, x) /\ Append(s, x)[Len(s) + 1].ok
    BY <1>1, <1>3
  <2>2. QED
    BY <2>1 DEF Paid
<1>4. QED
  BY <1>2, <1>3

\* Nothing is ever uncharged.
LEMMA PaidForGood ==
  ASSUME TypesInductive, [PipelineNext]_vars, NEW c \in Cases, Paid(charges[c])
  PROVE  Paid(charges'[c])
<1>1. CASE UNCHANGED charges
  BY <1>1
<1>2. ASSUME NEW w \in Writers, NEW ok \in BOOLEAN, Charge(w, ok)
      PROVE  Paid(charges'[c])
  <2> DEFINE x == [attempt |-> AttemptOf(w), ok |-> ok]
  <2>1. x \in Attempt /\ charges \in [Cases -> Seq(Attempt)]
    BY LocalTypes DEF TypesInductive, PipelineTypeOK, Attempt
  <2>2. charges'[c] = charges[c] \/ charges'[c] = Append(charges[c], x)
    BY <1>2, <2>1 DEF Charge
  <2>3. QED
    BY <2>1, <2>2, PaidStays
<1>3. UNCHANGED charges \/ \E w \in Writers, ok \in BOOLEAN : Charge(w, ok)
  <2>1. ASSUME NEW w \in Writers, StoreAction(w) \/ LogAction(w) \/ Record(w)
        PROVE  UNCHANGED charges
    BY <2>1 DEF StoreAction, Ingest, Select, Update, Conflict, Crash, LogAction,
         Announce, LogTransition, ReportOutcome, Resolve, Record
  <2>2. ASSUME NEW w \in Writers, ControlAction(w)
        PROVE  UNCHANGED charges
    BY <2>2 DEF ControlAction, Start, Begin, Find, Guard, ReadCase, Authorize, Illegal,
         ExecutorReads, Replay, Refuse, RefuseForNow, CheckQuarantined, CheckUncertain
  <2>3. ASSUME NEW w \in Writers, ProviderAction(w)
        PROVE  UNCHANGED charges \/ \E ok \in BOOLEAN : Charge(w, ok)
    BY <2>3 DEF ProviderAction, TimeOut, Perform
  <2>4. CASE UNCHANGED vars
    BY <2>4 DEF vars
  <2>5. QED
    BY <2>1, <2>2, <2>3, <2>4, PipelineCases
<1>4. QED
  BY <1>1, <1>2, <1>3

\* What a writer is told of, in the next state, it was told before, or the case has
\* paid.
LEMMA ToldStep ==
  ASSUME TypesInductive, CollectedInv, NEW w \in Writers,
         \/ StoreAction(w) \/ LogAction(w) \/ ControlAction(w)
         \/ ProviderAction(w) \/ Record(w),
         Told(w)'
  PROVE  job'[w].case \in Cases /\ Paid(charges'[job'[w].case])
<1> DEFINE c == job[w].case
<1>0. /\ PipelineTypeOK /\ c \in Cases /\ [PipelineNext]_vars
      /\ job \in [Writers -> Job]
  <2>1. PipelineTypeOK
    BY DEF TypesInductive
  <2>2. [PipelineNext]_vars
    BY DEF StoreAction, LogAction, ControlAction, ProviderAction, PipelineNext, Process,
           Step
  <2>3. QED
    BY <2>1, <2>2, LocalTypes DEF PipelineTypeOK
<1>1. NoJob.outcome = "NONE" /\ NoJob.target = "DIAGNOSED"
  BY DEF NoJob, NewJob
<1>2. ~Return(w)
  <2>1. Return(w) => job'[w] = NoJob
    BY <1>0 DEF Return
  <2>2. QED
    BY <1>1, <2>1 DEF Told
<1>3. ASSUME Paid(charges[c]), job'[w].case = c
      PROVE  job'[w].case \in Cases /\ Paid(charges'[job'[w].case])
  BY <1>0, <1>3, PaidForGood
<1>4. ASSUME Told(w), job'[w].case = c
      PROVE  job'[w].case \in Cases /\ Paid(charges'[job'[w].case])
  BY <1>3, <1>4 DEF CollectedInv
<1>5. CASE UNCHANGED job
  BY <1>4, <1>5 DEF Told
<1>6. ASSUME NEW ph, NEW to, Move(w, ph, to), to = "RECOVERED" => Told(w)
      PROVE  job'[w].case \in Cases /\ Paid(charges'[job'[w].case])
  <2>1. /\ job'[w].case = c /\ job'[w].target = to
        /\ job'[w].outcome = job[w].outcome
    BY <1>0, <1>6, MoveEffect
  <2>2. Told(w)
    BY <1>6, <2>1 DEF Told
  <2>3. QED
    BY <1>4, <2>1, <2>2
<1>7. ASSUME NEW s, Saw(w, s)
      PROVE  job'[w].case \in Cases /\ Paid(charges'[job'[w].case])
  <2>1. /\ job'[w].case = c /\ job'[w].target = job[w].target
        /\ job'[w].outcome = job[w].outcome
    BY <1>0, <1>7, SawEffect
  <2>2. Told(w)
    BY <2>1 DEF Told
  <2>3. QED
    BY <1>4, <2>1, <2>2
<1>8. ASSUME NEW o, Got(w, o), o = "SUCCEEDED" => Paid(charges'[c])
      PROVE  job'[w].case \in Cases /\ Paid(charges'[job'[w].case])
  <2>1. /\ job'[w].case = c /\ job'[w].target = job[w].target
        /\ job'[w].outcome = o
    BY <1>0, <1>8, GotEffect
  <2>2. CASE o = "SUCCEEDED"
    BY <1>0, <1>8, <2>1, <2>2
  <2>3. CASE o # "SUCCEEDED"
    <3>1. Told(w)
      BY <2>1, <2>3 DEF Told
    <3>2. QED
      BY <1>4, <2>1, <3>1
  <2>4. QED
    BY <2>2, <2>3
<1>9. CASE StoreAction(w)
  <2>1. ASSUME NEW d \in Cases, NEW k \in Cohorts, Ingest(w, d, k)
        PROVE  job'[w].case \in Cases /\ Paid(charges'[job'[w].case])
    <3>1. job'[w] = NewJob(d, FALSE, NoProposal, "NONE")
      BY <1>0, <2>1 DEF Ingest
    <3>2. job'[w].outcome = "NONE" /\ job'[w].target = "DIAGNOSED"
      BY <3>1 DEF NewJob
    <3>3. QED
      BY <3>2 DEF Told
  <2>2. QED
    BY <1>2, <1>5, <1>9, <2>1 DEF StoreAction, Select, Update, Conflict, Crash
<1>10. CASE LogAction(w)
  <2>1. CASE LogTransition(w)
    <3>1. UNCHANGED job \/ Move(w, "launch", "EXECUTING") \/ Return(w)
      BY <2>1 DEF LogTransition
    <3>2. QED
      BY <1>2, <1>5, <1>6, <3>1
  <2>2. CASE ReportOutcome(w)
    <3>1. Settled(job[w].outcome) = "RECOVERED" => Told(w)
      BY DEF Settled, Told
    <3>2. QED
      BY <1>6, <2>2, <3>1 DEF ReportOutcome
  <2>3. QED
    BY <1>2, <1>5, <1>10, <2>1, <2>2 DEF LogAction, Announce, Resolve
<1>11. CASE ControlAction(w)
  <2>1. ASSUME NEW d \in Cases, NEW p \in Proposals, NEW h \in BOOLEAN,
               Start(w, d, p, h)
        PROVE  job'[w].case \in Cases /\ Paid(charges'[job'[w].case])
    <3>1. job'[w] = NewJob(d, h, p, "NONE")
      BY <1>0, <2>1 DEF Start, Begin
    <3>2. job'[w].outcome = "NONE" /\ job'[w].target = "DIAGNOSED"
      BY <3>1 DEF NewJob
    <3>3. QED
      BY <3>2 DEF Told
  <2>2. ASSUME NEW d \in Cases, Find(w, d)
        PROVE  job'[w].case \in Cases /\ Paid(charges'[job'[w].case])
    <3>1. VerifiedOutcome(d) = "SUCCEEDED" => Paid(charges[d])
      BY DEF VerifiedOutcome, Paid
    <3>2. UNCHANGED charges /\ job'[w] = NewJob(d, FALSE, NoProposal, VerifiedOutcome(d))
      BY <1>0, <2>2 DEF Find
    <3>3. /\ job'[w].case = d /\ job'[w].target = "DIAGNOSED"
          /\ job'[w].outcome = VerifiedOutcome(d)
      BY <3>2 DEF NewJob
    <3>4. QED
      BY <3>1, <3>2, <3>3 DEF Told
  <2>3. CASE Guard(w)
    <3>1. UNCHANGED job \/ Move(w, "diagnose", "DIAGNOSED")
      BY <2>3 DEF Guard
    <3>2. QED
      BY <1>5, <1>6, <3>1
  <2>4. CASE ReadCase(w) \/ ExecutorReads(w)
    BY <1>7, <2>4 DEF ReadCase, ExecutorReads
  <2>5. CASE Authorize(w)
    <3>1. Move(w, "schedule", "SCHEDULED") \/ Move(w, "close", Landing(w))
      BY <2>5 DEF Authorize
    <3>2. Landing(w) # "RECOVERED"
      BY DEF Landing
    <3>3. QED
      BY <1>6, <3>1, <3>2
  <2>6. CASE Replay(w)
    <3>1. PICK a \in actions[c] : Got(w, Result(a.ok))
      BY <2>6 DEF Replay
    <3>2. Result(a.ok) = "SUCCEEDED" => Paid(charges'[c])
      BY <1>0, <3>1, PaidForGood DEF Result, CollectedInv
    <3>3. QED
      BY <1>8, <3>1, <3>2
  <2>7. CASE Refuse(w) \/ RefuseForNow(w)
    BY <1>8, <2>7 DEF Refuse, RefuseForNow
  <2>8. CASE CheckQuarantined(w)
    BY <1>2, <1>5, <2>8 DEF CheckQuarantined
  <2>9. CASE CheckUncertain(w)
    <3>1. Reconciled(job[w].outcome) = "RECOVERED" => Told(w)
      BY DEF Reconciled, Told
    <3>2. QED
      BY <1>2, <1>6, <2>9, <3>1 DEF CheckUncertain
  <2>10. QED
    BY <1>2, <1>11, <2>1, <2>2, <2>3, <2>4, <2>5, <2>6, <2>7, <2>8, <2>9
       DEF ControlAction, Illegal
<1>12. CASE ProviderAction(w)
  <2>1. CASE TimeOut(w)
    BY <1>8, <2>1 DEF TimeOut
  <2>2. ASSUME NEW ok \in BOOLEAN, Perform(w, ok)
        PROVE  job'[w].case \in Cases /\ Paid(charges'[job'[w].case])
    <3> DEFINE x == [attempt |-> AttemptOf(w), ok |-> ok]
    <3>1. charges'[c] = Append(charges[c], x) /\ x \in Attempt /\ charges[c] \in Seq(Attempt)
      BY <1>0, <2>2, LocalTypes DEF Perform, Charge, PipelineTypeOK, Attempt
    <3>2. Result(ok) = "SUCCEEDED" => Paid(charges'[c])
      BY <3>1, PaidStays DEF Result
    <3>3. QED
      BY <1>8, <2>2, <3>2 DEF Perform
  <2>3. QED
    BY <1>12, <2>1, <2>2 DEF ProviderAction
<1>13. CASE Record(w)
  BY <1>5, <1>13 DEF Record
<1>14. QED
  BY <1>9, <1>10, <1>11, <1>12, <1>13

\* A step of one writer leaves the locals of the others alone.
LEMMA OthersKeep ==
  ASSUME TypesInductive, NEW w \in Writers, NEW v \in Writers, v # w,
         \/ StoreAction(w) \/ LogAction(w) \/ ControlAction(w)
         \/ ProviderAction(w) \/ Record(w)
  PROVE  job'[v] = job[v]
<1>1. job \in [Writers -> Job]
  BY DEF TypesInductive, PipelineTypeOK
<1>2. /\ Return(w) => job'[v] = job[v]
      /\ \A ph, to : Move(w, ph, to) => job'[v] = job[v]
      /\ \A s : Saw(w, s) => job'[v] = job[v]
      /\ \A o : Got(w, o) => job'[v] = job[v]
      /\ \A j : job' = [job EXCEPT ![w] = j] => job'[v] = job[v]
  BY <1>1 DEF Return, Move, Saw, Got
<1>3. CASE StoreAction(w)
  BY <1>2, <1>3 DEF StoreAction, Ingest, Select, Update, Conflict, Crash
<1>4. CASE LogAction(w)
  BY <1>2, <1>4 DEF LogAction, Announce, LogTransition, ReportOutcome, Resolve
<1>5. CASE ControlAction(w)
  BY <1>2, <1>5 DEF ControlAction, Start, Begin, Find, Guard, ReadCase, Authorize, Illegal,
       ExecutorReads, Replay, Refuse, RefuseForNow, CheckQuarantined, CheckUncertain
<1>6. CASE ProviderAction(w) \/ Record(w)
  BY <1>2, <1>6 DEF ProviderAction, TimeOut, Perform, Record
<1>7. QED
  BY <1>3, <1>4, <1>5, <1>6

\* The invariant is preserved.
LEMMA CollectedStep ==
  ASSUME TypesInductive, CollectedInv, NEW w \in Writers,
         \/ StoreAction(w) \/ LogAction(w) \/ ControlAction(w)
         \/ ProviderAction(w) \/ Record(w)
  PROVE  CollectedInv'
<1>0. /\ PipelineTypeOK /\ job[w].case \in Cases /\ [PipelineNext]_vars
      /\ job \in [Writers -> Job] /\ rows \in [Cases -> Row]
      /\ actions \in [Cases -> SUBSET Attempt]
      /\ \A p \in pending : p.case \in Cases
  <2>1. [PipelineNext]_vars
    BY DEF StoreAction, LogAction, ControlAction, ProviderAction, PipelineNext, Process,
           Step
  <2>2. PipelineTypeOK /\ StoreTypeOK
    BY DEF TypesInductive, PipelineTypeOK
  <2>3. \A p \in pending : p.case \in Cases
    BY <2>2 DEF StoreTypeOK, Call
  <2>4. QED
    BY <2>1, <2>2, <2>3, LocalTypes DEF PipelineTypeOK, StoreTypeOK
<1>1. \A c \in Cases : Paid(charges[c]) => Paid(charges'[c])
  BY <1>0, PaidForGood
<1>2. \A v \in Writers : Told(v)' => Paid(charges'[job'[v].case])
  <2>1. ASSUME NEW v \in Writers, Told(v)'
        PROVE  Paid(charges'[job'[v].case])
    <3>1. CASE v = w
      BY <2>1, <3>1, ToldStep
    <3>2. CASE v # w
      <4>1. job'[v] = job[v] /\ job[v].case \in Cases
        BY <1>0, <3>2, OthersKeep, LocalTypes
      <4>2. Told(v)
        BY <2>1, <4>1 DEF Told
      <4>3. QED
        BY <1>1, <4>1, <4>2 DEF CollectedInv
    <3>3. QED
      BY <3>1, <3>2
  <2>2. QED
    BY <2>1
<1>3. ASSUME NEW c \in Cases, rows'[c].state = "RECOVERED"
      PROVE  Paid(charges'[c])
  <2>1. CASE rows'[c] = rows[c]
    BY <1>1, <1>3, <2>1 DEF CollectedInv
  <2>2. ASSUME NEW p \in pending, UpdateRow(p), rows'[c] # rows[c]
        PROVE  Paid(charges'[c])
    <3>1. c = p.case /\ p.to = "RECOVERED"
      BY <1>0, <1>3, <2>2 DEF UpdateRow, Written
    <3>2. QED
      BY <1>1, <3>1 DEF CollectedInv
  <2>3. ASSUME NEW d \in Cases, NEW k \in Cohorts, Ingest(w, d, k), rows'[c] # rows[c]
        PROVE  Paid(charges'[c])
    <3>1. rows'[c] = NewRow(k)
      BY <1>0, <2>3 DEF Ingest, CreateCase
    <3>2. QED
      BY <1>3, <3>1 DEF NewRow
  <2>4. CASE StoreAction(w)
    BY <2>1, <2>2, <2>3, <2>4 DEF StoreAction, Select, SelectRow, Update, Conflict,
       LoseRace, Crash
  <2>5. CASE ~StoreAction(w)
    <3>1. UNCHANGED storeVars
      BY <2>5, StoreUntouched
    <3>2. QED
      BY <2>1, <3>1 DEF storeVars
  <2>6. QED
    BY <2>4, <2>5
<1>4. ASSUME NEW p \in pending', p.to = "RECOVERED"
      PROVE  Paid(charges'[p.case])
  <2>1. CASE p \in pending
    BY <1>0, <1>1, <1>4, <2>1 DEF CollectedInv
  <2>2. ASSUME Select(w), p \notin pending
        PROVE  Paid(charges'[p.case])
    <3>1. p.to = job[w].target /\ p.case = job[w].case
      BY <1>4, <2>2 DEF Select, SelectRow
    <3>2. Told(w)
      BY <1>4, <3>1 DEF Told
    <3>3. QED
      BY <1>0, <1>1, <3>1, <3>2 DEF CollectedInv
  <2>3. CASE StoreAction(w) /\ ~Select(w)
    <3>1. pending' \subseteq pending
      BY <2>3 DEF StoreAction, Ingest, CreateCase, Update, UpdateRow, Conflict, LoseRace,
         Crash
    <3>2. QED
      BY <1>4, <2>1, <3>1
  <2>4. CASE ~StoreAction(w)
    <3>1. UNCHANGED storeVars
      BY <2>4, StoreUntouched
    <3>2. QED
      BY <1>4, <2>1, <3>1 DEF storeVars
  <2>5. QED
    BY <2>1, <2>2, <2>3, <2>4 DEF StoreAction
<1>5. ASSUME NEW c \in Cases, NEW a \in actions'[c], a.ok
      PROVE  Paid(charges'[c])
  <2>1. CASE a \in actions[c]
    BY <1>1, <1>5, <2>1 DEF CollectedInv
  <2>2. ASSUME Record(w), a \notin actions[c]
        PROVE  Paid(charges'[c])
    <3>1. /\ c = job[w].case
          /\ a = [attempt |-> AttemptOf(w), ok |-> job[w].outcome = "SUCCEEDED"]
      BY <1>0, <1>5, <2>2 DEF Record
    <3>2. Told(w)
      BY <1>5, <3>1 DEF Told
    <3>3. QED
      BY <1>1, <3>1, <3>2 DEF CollectedInv
  <2>3. CASE ~Record(w)
    <3>1. actions' = actions
      BY <2>3 DEF StoreAction, Ingest, Select, Update, Conflict, Crash, LogAction,
         Announce, LogTransition, ReportOutcome, Resolve, ControlAction, Start, Begin, Find,
         Guard, ReadCase, Authorize, Illegal, ExecutorReads, Replay, Refuse,
         RefuseForNow, CheckQuarantined, CheckUncertain, ProviderAction, TimeOut, Perform
    <3>2. QED
      BY <1>5, <2>1, <3>1
  <2>4. QED
    BY <2>1, <2>2, <2>3
<1>6. QED
  BY <1>2, <1>3, <1>4, <1>5 DEF CollectedInv

\* A case is called RECOVERED, by a dispatch, a replayed result or a reconciliation,
\* only if something was collected of it: for any number of concurrent writers,
\* timeouts and deaths.
THEOREM RecoveredIsCollected == PipelineSpec => []RecoveredMeansCollected
<1>1. ASSUME PipelineInit
      PROVE  CollectedInv
  <2>1. /\ \A c \in Cases : rows[c].state = "ABSENT" /\ actions[c] = {}
        /\ pending = {}
    BY <1>1 DEF PipelineInit, StoreInit, NoRow
  <2>2. \A w \in Writers : job[w].outcome = "NONE" /\ job[w].target = "DIAGNOSED"
    BY <1>1 DEF PipelineInit, NoJob, NewJob
  <2>3. QED
    BY <2>1, <2>2 DEF CollectedInv, Told
<1>2. ASSUME TypesInductive, CollectedInv, [PipelineNext]_vars
      PROVE  CollectedInv'
  <2>1. CASE UNCHANGED vars
    BY <1>2, <2>1 DEF vars, CollectedInv, Told
  <2>2. QED
    BY <1>2, <2>1, CollectedStep, PipelineCases
<1>3. CollectedInv => RecoveredMeansCollected
  BY DEF CollectedInv, RecoveredMeansCollected, Paid
<1>4. QED
  BY <1>1, <1>2, <1>3, TypesInit, TypesStep, PTL DEF PipelineSpec

----------------------------------------------------------------------------
(* One writer keeps the promise of the executor port *)

\* A call is inside execute().
InPort(l) == l \in {"execute", "lookup", "insert", "report"}

CallOf(w) == [caller |-> w, key |-> KeyOf(w), stage |-> StageOf(w)]

\* The only open call of execute() is that of the only writer.
LEMMA OnlyCall ==
  ASSUME NEW w \in Writers, Alone(w)
  PROVE  /\ OpenCalls = IF InPort(pc[w]) THEN {CallOf(w)} ELSE {}
         /\ OpenCalls' = IF InPort(pc'[w]) THEN {CallOf(w)'} ELSE {}
<1>1. OpenCalls = IF InPort(pc[w]) THEN {CallOf(w)} ELSE {}
  <2>1. CASE InPort(pc[w])
    BY <2>1 DEF OpenCalls, InExecutor, InPort, CallOf, Alone
  <2>2. CASE ~InPort(pc[w])
    BY <2>2 DEF OpenCalls, InExecutor, InPort, Alone
  <2>3. QED
    BY <2>1, <2>2
<1>2. OpenCalls' = IF InPort(pc'[w]) THEN {CallOf(w)'} ELSE {}
  <2>1. CASE InPort(pc'[w])
    BY <2>1 DEF OpenCalls, InExecutor, InPort, CallOf, Alone
  <2>2. CASE ~InPort(pc'[w])
    BY <2>2 DEF OpenCalls, InExecutor, InPort, Alone
  <2>3. QED
    BY <2>1, <2>2
<1>3. QED
  BY <1>1, <1>2

\* A charge is one more run, of the key of its verdict.
LEMMA ChargeRuns ==
  ASSUME PipelineTypeOK, NEW w \in Writers, NEW ok \in BOOLEAN, Charge(w, ok)
  PROVE  \E r : r.key = KeyOf(w) /\ Runs' = Runs \cup {r}
<1> DEFINE c == job[w].case
           n == Len(charges[c])
           x == [attempt |-> AttemptOf(w), ok |-> ok]
           r == [key |-> <<c, AttemptOf(w)>>, at |-> n + 1]
           RunsOf(d, s) == {[key |-> <<d, s[i].attempt>>, at |-> i] : i \in DOMAIN s}
<1>1. /\ c \in Cases /\ charges \in [Cases -> Seq(Attempt)] /\ x \in Attempt
  BY LocalTypes DEF PipelineTypeOK, Attempt
<1>2. charges' = [charges EXCEPT ![c] = Append(charges[c], x)]
  BY <1>1 DEF Charge
<1>3. charges'[c] = Append(charges[c], x) /\ \A d \in Cases \ {c} : charges'[d] = charges[d]
  BY <1>1, <1>2
<1>4. /\ n \in Nat /\ DOMAIN charges[c] = 1 .. n
      /\ DOMAIN charges'[c] = (1 .. n) \cup {n + 1}
      /\ \A i \in 1 .. n : charges'[c][i] = charges[c][i]
      /\ charges'[c][n + 1] = x
  <2>1. charges[c] \in Seq(Attempt)
    BY <1>1
  <2>2. /\ n \in Nat /\ DOMAIN charges[c] = 1 .. n
        /\ DOMAIN Append(charges[c], x) = 1 .. n + 1
        /\ \A i \in 1 .. n : Append(charges[c], x)[i] = charges[c][i]
        /\ Append(charges[c], x)[n + 1] = x
    BY <1>1, <2>1
  <2>3. 1 .. n + 1 = (1 .. n) \cup {n + 1}
    BY <2>2
  <2>4. QED
    BY <1>3, <2>2, <2>3
<1>5. RunsOf(c, charges'[c]) = RunsOf(c, charges[c]) \cup {r}
  <2>1. {[key |-> <<c, charges'[c][i].attempt>>, at |-> i] : i \in 1 .. n}
          = RunsOf(c, charges[c])
    BY <1>4
  <2>2. [key |-> <<c, charges'[c][n + 1].attempt>>, at |-> n + 1] = r
    BY <1>4
  <2>3. RunsOf(c, charges'[c]) =
          {[key |-> <<c, charges'[c][i].attempt>>, at |-> i] : i \in 1 .. n}
          \cup {[key |-> <<c, charges'[c][n + 1].attempt>>, at |-> n + 1]}
    BY <1>4
  <2>4. QED
    BY <2>1, <2>2, <2>3
<1> HIDE DEF n, x, r
<1>6. Runs = UNION {RunsOf(d, charges[d]) : d \in Cases}
      /\ Runs' = UNION {RunsOf(d, charges'[d]) : d \in Cases}
  BY DEF Runs
<1> HIDE DEF RunsOf
<1>7. Runs' = Runs \cup {r}
  <2>1. ASSUME NEW q
        PROVE  q \in Runs' <=> q \in Runs \/ q = r
    <3>1. \A d \in Cases \ {c} : RunsOf(d, charges'[d]) = RunsOf(d, charges[d])
      BY <1>3
    <3>2. /\ q \in Runs <=> \E d \in Cases : q \in RunsOf(d, charges[d])
          /\ q \in Runs' <=> \E d \in Cases : q \in RunsOf(d, charges'[d])
      BY <1>6
    <3>3. q \in RunsOf(c, charges'[c]) <=> q \in RunsOf(c, charges[c]) \/ q = r
      BY <1>5
    <3>4. QED
      BY <1>1, <3>1, <3>2, <3>3
  <2>2. QED
    BY <2>1
<1>8. QED
  BY <1>7 DEF r, KeyOf

\* A key has run if and only if its attempt was charged.
LEMMA RanIsCharged ==
  ASSUME NEW c \in Cases, NEW k
  PROVE  (\E r \in Runs : r.key = <<c, k>>) <=> HasAttempt(charges[c], k)
<1>1. ASSUME NEW r \in Runs, r.key = <<c, k>>
      PROVE  HasAttempt(charges[c], k)
  BY <1>1 DEF Runs, HasAttempt
<1>2. ASSUME HasAttempt(charges[c], k)
      PROVE  \E r \in Runs : r.key = <<c, k>>
  <2>1. PICK i \in DOMAIN charges[c] : charges[c][i].attempt = k
    BY <1>2 DEF HasAttempt
  <2>2. [key |-> <<c, charges[c][i].attempt>>, at |-> i] \in Runs
    BY <2>1 DEF Runs
  <2>3. QED
    BY <2>1, <2>2
<1>3. QED
  BY <1>1, <1>2

\* Where no charge is added, nothing runs.
LEMMA RunsStay ==
  ASSUME UNCHANGED charges
  PROVE  UNCHANGED Runs
BY DEF Runs

\* A step outside of the executor.
LEMMA OutsideStep ==
  ASSUME NEW w \in Writers, Alone(w), UNCHANGED charges, ~InPort(pc[w]), ~InPort(pc'[w])
  PROVE  UNCHANGED <<Runs, OpenCalls>>
BY OnlyCall, RunsStay

\* A step inside of it that is no answer.
LEMMA InsideStep ==
  ASSUME NEW w \in Writers, Alone(w), UNCHANGED charges, InPort(pc[w]), InPort(pc'[w]),
         KeyOf(w)' = KeyOf(w), StageOf(w)' = StageOf(w)
  PROVE  UNCHANGED <<Runs, OpenCalls>>
BY OnlyCall, RunsStay DEF CallOf

\* A call that leaves the executor.
LEMMA LeavesPort ==
  ASSUME NEW w \in Writers, Alone(w), UNCHANGED charges, InPort(pc[w]), ~InPort(pc'[w])
  PROVE  Contract!ContractNext
<1>1. OpenCalls = {CallOf(w)} /\ OpenCalls' = {} /\ Runs' = Runs
  BY OnlyCall, RunsStay
<1>2. Contract!End(CallOf(w))
  BY <1>1 DEF Contract!End
<1>3. QED
  BY <1>1, <1>2 DEF Contract!ContractNext

\* The answer of a call.
LEMMA AnswersCall ==
  ASSUME NEW w \in Writers, Alone(w), pc[w] \in {"execute", "lookup"},
         pc'[w] \in {"insert", "report"}, KeyOf(w)' = KeyOf(w),
         job'[w].outcome \in Contract!Answers, Contract!MayRun(KeyOf(w)),
         job'[w].outcome \in {"REFUSED", "RETRYABLE"} => UNCHANGED Runs,
         job'[w].outcome \in {"SUCCEEDED", "FAILED"} => \E r \in Runs' : r.key = KeyOf(w)
  PROVE  Contract!ContractNext
<1> DEFINE a == job'[w].outcome
           c == CallOf(w)
<1>1. /\ OpenCalls = {c} /\ c.caller = w /\ c.key = KeyOf(w) /\ c.stage = "open"
      /\ OpenCalls' = {[caller |-> w, key |-> KeyOf(w), stage |-> a]}
  BY OnlyCall DEF InPort, CallOf, StageOf
<1> HIDE DEF c
<1>2. Contract!MoveTo(c, a)
  BY <1>1 DEF Contract!MoveTo
<1>3. Contract!Answer(c, a)
  BY <1>1, <1>2 DEF Contract!Answer
<1>4. QED
  BY <1>1, <1>3 DEF Contract!ContractNext

\* The attempt a running call is about has not been charged.
LEMMA NotRunYet ==
  ASSUME NEW w \in Writers, SoloFacts(w), pc[w] = "lookup"
  PROVE  ~Known(w) /\ \A r \in Runs : r.key # KeyOf(w)
<1> DEFINE c == job[w].case
<1>1. /\ c \in Cases /\ ~Uncounted(rows[c], charges[c])
      /\ job[w].seen.attempts = rows[c].attempts
      /\ Balanced(rows[c], charges[c], actions[c], log[c].uncertain, CapOf(c))
  BY LocalTypes DEF SoloFacts, TypesInductive, SoloInv, LedgerInv, Knows, KnowsAt
<1>2. ~HasAttempt(charges[c], AttemptOf(w))
  BY <1>1 DEF Uncounted, AttemptOf
<1>3. ~Known(w)
  BY <1>1, <1>2 DEF Known, ExecutedKeys, Balanced
<1>4. QED
  BY <1>1, <1>2, <1>3, RanIsCharged DEF KeyOf

\* The step maps to a step of the contract, or to none.
LEMMA PortStep ==
  ASSUME NEW w \in Writers, Alone(w), SoloFacts(w),
         \/ StoreAction(w) \/ LogAction(w) \/ ControlAction(w)
         \/ ProviderAction(w) \/ Record(w)
  PROVE  Contract!ContractNext \/ UNCHANGED <<Runs, OpenCalls>>
<1> DEFINE Maps == Contract!ContractNext \/ UNCHANGED <<Runs, OpenCalls>>
<1>0. /\ PipelineTypeOK /\ job \in [Writers -> Job] /\ WriterInv(w)
      /\ job[w].case \in Cases /\ AttemptOf(w) \in Nat /\ job[w].seen \in View
  BY LocalTypes DEF SoloFacts, TypesInductive, PipelineTypeOK, AuthorityInv
<1>1. ASSUME UNCHANGED charges, ~InPort(pc'[w])
      PROVE  Maps
  BY <1>1, OutsideStep, LeavesPort
<1>2. ASSUME NEW l, Goto(w, l), l \notin {"execute", "lookup", "insert", "report"},
             UNCHANGED charges
      PROVE  Maps
  <2>1. pc'[w] = l
    BY <1>0, <1>2, GotoEffect
  <2>2. QED
    BY <1>1, <1>2, <2>1 DEF InPort
<1>3. CASE StoreAction(w)
  <2>1. CASE Update(w)
    <3>1. pc'[w] = AfterUpdate(w) /\ UNCHANGED <<charges, job>> /\ pc[w] = "update"
      BY <1>0, <2>1, GotoEffect DEF Update
    <3>2. CASE AfterUpdate(w) = "execute"
      <4>1. OpenCalls = {} /\ OpenCalls' = {CallOf(w)'} /\ Runs' = Runs
        BY <3>1, <3>2, OnlyCall, RunsStay DEF InPort
      <4>2. CallOf(w)' = [caller |-> w, key |-> KeyOf(w), stage |-> "open"]
        BY <3>1, <3>2 DEF CallOf, KeyOf, AttemptOf, StageOf
      <4>3. Contract!Begin(w, KeyOf(w))
        BY <4>1, <4>2 DEF Contract!Begin
      <4>4. KeyOf(w) \in Keys
        <5>1. job[w].phase = "launch"
          BY <3>2 DEF AfterUpdate
        <5>2. job[w].seen.attempts < CapOf(job[w].case) /\ job[w].seen.attempts \in Nat
          BY <1>0, <3>1, <5>1 DEF WriterInv, Dispatching, Authorized, View
        <5>3. CapOf(job[w].case) \in Nat
          BY <1>0, PipelineAssumption, PolicyAssumption DEF CapOf
        <5>4. AttemptOf(w) \in 1 .. CapOf(job[w].case)
          BY <5>2, <5>3 DEF AttemptOf
        <5>5. QED
          BY <1>0, <5>4 DEF KeyOf, Keys
      <4>5. QED
        BY <4>3, <4>4 DEF Contract!ContractNext
    <3>3. CASE AfterUpdate(w) # "execute"
      BY <1>1, <3>1, <3>3 DEF AfterUpdate, InPort
    <3>4. QED
      BY <3>2, <3>3
  <2>2. CASE ~Update(w)
    <3>1. UNCHANGED charges /\ \E l \in {"announce", "update", "idle"} : Goto(w, l)
      BY <1>3, <2>2 DEF StoreAction, Ingest, Select, Conflict, Crash, Return
    <3>2. QED
      BY <1>2, <3>1
  <2>3. QED
    BY <2>1, <2>2
<1>4. CASE LogAction(w)
  <2>1. UNCHANGED charges /\ \E l \in {"idle", "view", "select", "log"} : Goto(w, l)
    BY <1>4 DEF LogAction, Announce, LogTransition, ReportOutcome, Resolve, Return, Move
  <2>2. QED
    BY <1>2, <2>1
<1>5. ASSUME pc'[w] = "report" \/ pc'[w] = "insert", pc[w] = "lookup",
             NEW o \in Contract!Answers, Got(w, o), Contract!MayRun(KeyOf(w)),
             o \in {"REFUSED", "RETRYABLE"} => UNCHANGED Runs,
             o \in {"SUCCEEDED", "FAILED"} => \E r \in Runs' : r.key = KeyOf(w)
      PROVE  Maps
  <2>1. job'[w].outcome = o /\ KeyOf(w)' = KeyOf(w)
    BY <1>0, <1>5, GotEffect DEF KeyOf, AttemptOf
  <2>2. QED
    BY <1>5, <2>1, AnswersCall
<1>6. UNCHANGED Runs => Contract!MayRun(KeyOf(w))
  BY DEF Contract!MayRun
<1>7. CASE ControlAction(w)
  <2>0. UNCHANGED <<charges, Runs>>
    <3>1. UNCHANGED charges
      BY <1>7 DEF ControlAction, Start, Begin, Find, Guard, ReadCase, Authorize, Illegal,
           ExecutorReads, Replay, Refuse, RefuseForNow, CheckQuarantined, CheckUncertain
    <3>2. QED
      BY <3>1, RunsStay
  <2>1. CASE ExecutorReads(w)
    <3>1. pc[w] = "execute" /\ pc'[w] = "lookup"
      BY <1>0, <2>1, GotoEffect DEF ExecutorReads
    <3>2. job'[w].case = job[w].case /\ job'[w].seen.attempts = job[w].seen.attempts
      BY <1>0, <2>1, SawEffect DEF ExecutorReads
    <3>3. QED
      BY <2>0, <3>1, <3>2, InsideStep DEF InPort, KeyOf, AttemptOf, StageOf
  <2>2. CASE Replay(w)
    BY <2>2, NotRunYet DEF Replay
  <2>3. ASSUME NEW o \in {"REFUSED", "RETRYABLE"}, Got(w, o), pc[w] = "lookup",
               Goto(w, "report")
        PROVE  Maps
    <3>1. pc'[w] = "report"
      BY <1>0, <2>3, GotoEffect
    <3>2. o \in Contract!Answers /\ o \notin {"SUCCEEDED", "FAILED"}
      BY DEF Contract!Answers
    <3>3. QED
      BY <1>5, <1>6, <2>0, <2>3, <3>1, <3>2
  <2>4. CASE Refuse(w) \/ RefuseForNow(w)
    BY <2>3, <2>4 DEF Refuse, RefuseForNow, Dispatchable
  <2>5. CASE ~(ExecutorReads(w) \/ Replay(w) \/ Refuse(w) \/ RefuseForNow(w))
    <3>1. \E l \in {"guard", "find", "view", "select", "decide", "idle", "verify"} :
            Goto(w, l)
      BY <1>7, <2>5 DEF ControlAction, Start, Begin, Find, Guard, ReadCase, Authorize, Illegal,
         CheckQuarantined, CheckUncertain, Return, Move
    <3>2. QED
      BY <1>2, <2>0, <3>1
  <2>6. QED
    BY <2>1, <2>2, <2>4, <2>5
<1>8. ASSUME NEW ok \in BOOLEAN, Charge(w, ok), pc[w] = "lookup"
      PROVE  Contract!MayRun(KeyOf(w)) /\ \E r \in Runs' : r.key = KeyOf(w)
  <2>1. PICK r : r.key = KeyOf(w) /\ Runs' = Runs \cup {r}
    BY <1>0, <1>8, ChargeRuns
  <2>2. \A q \in Runs : q.key # KeyOf(w)
    BY <1>8, NotRunYet
  <2>3. QED
    BY <2>1, <2>2 DEF Contract!MayRun, Contract!Run
<1>9. CASE ProviderAction(w)
  <2>1. CASE TimeOut(w)
    <3>1. pc[w] = "lookup" /\ pc'[w] = "report" /\ Got(w, "UNCERTAIN")
      BY <1>0, <2>1, GotoEffect DEF TimeOut, Dispatchable
    <3>2. Contract!MayRun(KeyOf(w))
      BY <1>6, <1>8, <2>1, <3>1, RunsStay DEF TimeOut
    <3>3. "UNCERTAIN" \in Contract!Answers
      BY DEF Contract!Answers
    <3>4. QED
      BY <1>5, <3>1, <3>2, <3>3
  <2>2. ASSUME NEW ok \in BOOLEAN, Perform(w, ok)
        PROVE  Maps
    <3>1. pc[w] = "lookup" /\ pc'[w] = "insert" /\ Got(w, Result(ok)) /\ Charge(w, ok)
      BY <1>0, <2>2, GotoEffect DEF Perform, Dispatchable
    <3>2. Result(ok) \in Contract!Answers /\ Result(ok) \in {"SUCCEEDED", "FAILED"}
      BY DEF Contract!Answers, Result
    <3>3. QED
      BY <1>5, <1>8, <3>1, <3>2
  <2>3. QED
    BY <1>9, <2>1, <2>2 DEF ProviderAction
<1>10. CASE Record(w)
  <2>1. pc[w] = "insert" /\ pc'[w] = "report" /\ UNCHANGED <<charges, job>>
    BY <1>0, <1>10, GotoEffect DEF Record
  <2>2. QED
    BY <2>1, InsideStep DEF InPort, KeyOf, AttemptOf, StageOf
<1>11. QED
  BY <1>3, <1>4, <1>7, <1>9, <1>10

\* One writer keeps the contract of the executor port: a key runs at most once, a
\* result is told only of a key that ran, and a refused call ran nothing.
THEOREM OneWriterKeepsContract ==
  ASSUME NEW w \in Writers, Writers = {w}, StartStates \subseteq OpenStates
  PROVE  PipelineSpec => PipelineKeepsContract
<1>1. Alone(w)
  BY DEF Alone
<1>2. PipelineInit => Contract!ContractInit
  <2>1. SUFFICES ASSUME PipelineInit
                 PROVE  Runs = {} /\ OpenCalls = {}
    BY DEF Contract!ContractInit
  <2>2. \A c \in Cases : DOMAIN charges[c] = {}
    BY <2>1 DEF PipelineInit
  <2>3. Runs = {}
    BY <2>2 DEF Runs
  <2>4. InExecutor = {}
    BY <2>1 DEF PipelineInit, InExecutor
  <2>5. QED
    BY <2>3, <2>4 DEF OpenCalls
<1>3. SoloFacts(w) /\ [PipelineNext]_vars =>
        [Contract!ContractNext]_<<Runs, OpenCalls, {}>>
  <2>1. SUFFICES ASSUME SoloFacts(w), [PipelineNext]_vars
                 PROVE  Contract!ContractNext \/ UNCHANGED <<Runs, OpenCalls>>
    OBVIOUS
  <2>2. CASE UNCHANGED vars
    BY <2>2 DEF vars, Runs, OpenCalls, InExecutor, KeyOf, AttemptOf, StageOf
  <2>3. QED
    BY <1>1, <2>1, <2>2, PortStep, PipelineCases DEF Alone
<1>4. PipelineSpec => []SoloFacts(w)
  BY OneWriterInvariant
<1>5. QED
  BY <1>2, <1>3, <1>4, PTL
     DEF PipelineSpec, PipelineKeepsContract, Contract!ContractSpec, Contract!contractVars
=============================================================================
