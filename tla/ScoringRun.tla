----------------------------- MODULE ScoringRun -----------------------------
(***************************************************************************)
(* The evaluation harness: a corpus is generated (scripts/gen.py,           *)
(* datagen/generate.py), replayed through process_case() and scored         *)
(* (evalharness/run.py, evalharness/metrics.py), over and over, by a        *)
(* process that may die at any point.                                      *)
(*                                                                         *)
(* A dataset has an operational database and a ground-truth file; all       *)
(* datasets of a corpus share one append-only scoring log, which is beside  *)
(* the ground truth: a corpus is one in a directory, and a copy elsewhere    *)
(* would be another.  A failure's number is its place in the order of        *)
(* created_at.  Probabilities and draws are in percent.                     *)
(***************************************************************************)
EXTENDS Diagnosis

CONSTANTS
  Datasets,     \* records [corpus, scenario]; scenario "s1" is the alias of "S1"
  GenSeeds,     \* seeds of the generator
  RunSeeds,     \* seeds of a scoring run
  Providers,    \* --provider
  ModelAnswers, \* what the adapter of a model may make of an ambiguous case
  CorpusOf,     \* <<dataset, generator seed>> -> the failures generated
  RetryDraw,    \* run seed -> the stream of random.Random(seed)
  OrganicDraw,  \* run seed -> failure -> the hash draw of that failure
  MaxScorings,  \* bound on the length of a scoring log
  MaxGenerations, MaxCrashes

VARIABLES
  db,           \* dataset -> the database: rows by number, and how they came about
  truth,        \* dataset -> the ground-truth file: seed, and the failures it lists
  scoringLog,   \* corpus -> <corpus>_scoring_log.jsonl
  proc,         \* the command that is running
  reports,      \* the reports written
  generations, crashes

scoringVars == <<db, truth, scoringLog, proc, reports, generations, crashes>>

Corpora == {d.corpus : d \in Datasets}

RealClasses == {"TRANSIENT_INFRA", "CUSTOMER_FIXABLE", "INSTRUMENT_INVALID", "TERMINAL"}

----------------------------------------------------------------------------
(* What generate() generates *)

\* A clean reason has the class of the taxonomy; of an ambiguous one any class has
\* a positive weight, whatever the other features.
TrueClasses(reason) == IF Clean(reason) THEN {CLEAN[reason]} ELSE RealClasses

\* _hidden_probs, the response model.
HiddenProbs(class, outage) ==
  CASE class = "TERMINAL" ->
         [pOrganic : {0}, pNow : {0}, pAfter : {0}]
    [] class = "TRANSIENT_INFRA" ->
         [pOrganic : 5 .. 15, pNow : {IF outage THEN 15 ELSE 55}, pAfter : 55 .. 75]
    [] class = "CUSTOMER_FIXABLE" ->
         [pOrganic : 15 .. 30, pNow : 30 .. 45, pAfter : 30 .. 45]
    [] class = "INSTRUMENT_INVALID" ->
         [pOrganic : 2 .. 8, pNow : 5 .. 15, pAfter : 5 .. 15]

\* A failure with its ground truth.  ctx is what DowntimeStore.context_at() says of
\* it when it was created, with the end in minutes from then; the generator's own
\* flag comes from the same windows.  The cohort is a hash of seed and case.
Generable(f) ==
  /\ f.reason \in DOMAIN CLEAN \cup AMBIGUOUS
  /\ f.method \in Methods /\ f.recurring \in BOOLEAN
  /\ f.amount \in 1000 .. 5000000
  /\ f.ctx.active \in BOOLEAN /\ f.ctx.end \in Nat \cup {NoTime}
  /\ f.cohort \in {"TREATED", "HOLDOUT"}
  /\ f.class \in TrueClasses(f.reason)
  /\ f.probs \in HiddenProbs(f.class, f.ctx.active)

\* The datasets that gen.py writes together with d.
Aliases(d) == {a \in Datasets : d.scenario = "S1" /\ a = [d EXCEPT !.scenario = "s1"]}

\* gen.py reads a seed of 0 as none.
ASSUME ScoringAssumption ==
  /\ 0 \notin GenSeeds
  /\ Providers \subseteq {"stub", "baseline", "claude", "groq"}
  /\ ModelAnswers \subseteq ProposalType
  /\ MaxScorings \in Nat
  /\ \A d \in Datasets, g \in GenSeeds :
       LET corpus == CorpusOf[<<d, g>>] IN
       /\ corpus \in Seq({corpus[i] : i \in DOMAIN corpus})
       /\ \A i \in DOMAIN corpus : Generable(corpus[i])
       /\ \A a \in Aliases(d) : CorpusOf[<<a, g>>] = corpus
  /\ \A s \in RunSeeds :
       /\ \A k \in DOMAIN RetryDraw[s] : RetryDraw[s][k] \in 0 .. 99
       /\ \A k \in DOMAIN OrganicDraw[s] : OrganicDraw[s][k] \in 0 .. 100

----------------------------------------------------------------------------
\* action: what the actions table has of the case.
Row(state, action) == [state |-> state, action |-> action]

\* seed 0: the file does not exist.  players: who processed rows of it, a ghost;
\* whole: no command that wrote to it died, and no run with a model did, a ghost.
\* torn: the file is empty or ends in the middle of a line.
NoDb == [seed |-> 0, rows |-> <<>>, players |-> {}, whole |-> TRUE]
NoTruth == [seed |-> 0, known |-> {}, torn |-> FALSE]

Idle == [phase |-> "idle", dataset |-> CHOOSE d \in Datasets : TRUE, seed |-> 0,
         provider |-> "stub", rescore |-> FALSE, times |-> 0, todo |-> {}, drawn |-> 0]

ScoringInit ==
  /\ db = [d \in Datasets |-> NoDb]
  /\ truth = [d \in Datasets |-> NoTruth]
  /\ scoringLog = [c \in Corpora |-> <<>>]
  /\ proc = Idle
  /\ reports = {}
  /\ generations = 0 /\ crashes = 0

Here == proc.dataset

----------------------------------------------------------------------------
(* generate_scenario() *)

\* db.reset: the old database is gone before a row of the new one is written.
EmptyDb(d, g) ==
  /\ proc' = [Idle EXCEPT !.phase = "ingest", !.dataset = d]
  /\ db' = [db EXCEPT ![d] =
              [seed |-> g, players |-> {}, whole |-> TRUE,
               rows |-> [i \in DOMAIN CorpusOf[<<d, g>>] |-> Row("ABSENT", "none")]]]

ResetDb(d, g) ==
  /\ proc.phase = "idle" /\ d.scenario # "s1"
  /\ generations < MaxGenerations
  /\ generations' = generations + 1
  /\ EmptyDb(d, g)
  /\ UNCHANGED <<truth, scoringLog, reports, crashes>>

\* write_operational_db: ingest() of one failure, in the order they were drawn.
IngestFailure(i) ==
  /\ proc.phase = "ingest"
  /\ db[Here].rows[i].state = "ABSENT"
  /\ db' = [db EXCEPT ![Here].rows[i] = Row("DETECTED", "none")]
  /\ UNCHANGED <<truth, scoringLog, proc, reports, generations, crashes>>

Ingested == \A i \in DOMAIN db[Here].rows : db[Here].rows[i].state # "ABSENT"

WriteTruth(known, torn) ==
  truth' = [truth EXCEPT ![Here] = [seed |-> db[Here].seed, known |-> known, torn |-> torn]]

\* write_ground_truth.  After S1 comes its alias.
FinishGeneration ==
  /\ proc.phase = "ingest" /\ Ingested
  /\ WriteTruth(DOMAIN db[Here].rows, FALSE)
  /\ proc' = IF Aliases(Here) = {} THEN Idle
             ELSE [Idle EXCEPT !.phase = "alias", !.dataset = Here]
  /\ UNCHANGED <<db, scoringLog, reports, generations, crashes>>

\* The records of S1 are written a second time, as dev_s1.db and its ground truth.
ResetAlias(a) ==
  /\ proc.phase = "alias" /\ a \in Aliases(Here)
  /\ EmptyDb(a, db[Here].seed)
  /\ UNCHANGED <<truth, scoringLog, reports, generations, crashes>>

----------------------------------------------------------------------------
(* run() *)

Sealed(d) == d.corpus = "test"

\* A bug: only scorings of the same scenario count.
MayScorePerScenario(d, rescore) ==
  Sealed(d) /\ ~rescore => \A i \in DOMAIN scoringLog[d.corpus] :
                             scoringLog[d.corpus][i].dataset # d

\* The anti-cherry-picking check.
MayScore(d, rescore) == Sealed(d) /\ ~rescore => scoringLog[d.corpus] = <<>>

\* A bug: the runs that were there before this one.
TimesBefore(log) == Len(log) - 1

\* record_scoring_run returns the number of lines after its own.
TimesScored(log) == Len(log)

\* The checks, and the line appended to the log before anything is scored.  A line
\* that cannot be parsed raises in read_ground_truth() before that.
Begin(d, seed, provider, rescore) ==
  /\ proc.phase = "idle"
  /\ db[d].seed # 0 /\ truth[d].seed # 0 /\ ~truth[d].torn
  /\ MayScore(d, rescore)
  /\ Len(scoringLog[d.corpus]) < MaxScorings
  /\ scoringLog' = [scoringLog EXCEPT ![d.corpus] =
                      Append(@, [dataset |-> d, seed |-> seed, provider |-> provider,
                                 rescore |-> rescore])]
  /\ proc' = [phase |-> "recorded", dataset |-> d, seed |-> seed, provider |-> provider,
              rescore |-> rescore, times |-> TimesScored(scoringLog'[d.corpus]),
              todo |-> {}, drawn |-> 0]
  /\ UNCHANGED <<db, truth, reports, generations, crashes>>

\* A model's key is looked for after the run was recorded; it may not be set.
MissKey ==
  /\ proc.phase = "recorded" /\ proc.provider \notin Fixtures
  /\ proc' = Idle
  /\ UNCHANGED <<db, truth, scoringLog, reports, generations, crashes>>

\* The rows whose case the ground truth knows; case ids contain the seed.
Scored(d) ==
  IF truth[d].seed = db[d].seed
    THEN {i \in truth[d].known : db[d].rows[i].state # "ABSENT"} ELSE {}

\* A bug: every row that is not closed is processed again.
PlayableAgain(d) ==
  {i \in Scored(d) : db[d].rows[i].state \in {"DETECTED", "FAILED_ATTEMPT"}}

Playable(d) == {i \in Scored(d) : db[d].rows[i].state = "DETECTED"}

\* The rows are read once, before the first is processed, in the order of
\* created_at; random.Random(seed) starts anew.
SelectRows ==
  /\ proc.phase = "recorded"
  /\ proc' = [proc EXCEPT !.phase = "play", !.todo = Playable(Here)]
  /\ UNCHANGED <<db, truth, scoringLog, reports, generations, crashes>>

FailureNo(d, i) == CorpusOf[<<d, db[d].seed>>][i]

\* The first part of process_case().
ProposalFor(f, provider) ==
  LET t == Triage(f.reason)
  IN  CASE t.matched = "ambiguous" ->
             FixtureAnswer(provider, [reason |-> f.reason, method |-> f.method,
               downtime |-> f.ctx.active, recurring |-> f.recurring, amount |-> f.amount])
        [] t.matched = "clean" -> CleanProposal(t.class)
        [] OTHER               -> UnseenProposal

\* A fixture answers the same every time, a model does not.
ProposalsFor(f, provider) ==
  IF provider \in Models /\ Triage(f.reason).matched = "ambiguous" THEN ModelAnswers
  ELSE {ProposalFor(f, provider)}

\* The verdict on a proposal for a failure that was never attempted.
VerdictOn(f, proposal) ==
  Evaluate(proposal,
           [state |-> "DIAGNOSED", cohort |-> f.cohort, attempts |-> 0, keys |-> {},
            method |-> f.method, amount |-> f.amount], FALSE, 0, f.ctx)

\* outcome_fn: the probability of success.
ChanceOf(f, v) == IF v.deferred THEN f.probs.pAfter ELSE f.probs.pNow

\* Where process_case() leaves a case it may not act on.
Closed(v) ==
  CASE v.decision = "REVIEW"       -> "QUARANTINED"
    [] v.gate = "HOLDOUT_GUARD"    -> "HOLDOUT_CLOSED"
    [] OTHER                       -> "ABANDONED"

\* The row after process_case(); the simulated provider succeeds on a low draw.
Played(f, v, draw) ==
  CASE v.decision # "ALLOW"    -> Row(Closed(v), "none")
    [] v.decision = "ALLOW" /\ draw < ChanceOf(f, v) -> Row("RECOVERED", "ok")
    [] OTHER                   -> Row("FAILED_ATTEMPT", "failed")

\* What a death in process_case() may leave of it: the row as far as it got.
HalfPlayed(f, v, draw) ==
  {Row("DIAGNOSED", "none")} \cup
  (IF v.decision = "ALLOW"
     THEN {Row("SCHEDULED", "none"), Row("EXECUTING", "none"),
           Row("EXECUTING", Played(f, v, draw).action)}
     ELSE {})

NextNo == CHOOSE i \in proc.todo : \A j \in proc.todo : i <= j

NextFailure == FailureNo(Here, NextNo)
NextVerdicts == {VerdictOn(NextFailure, p) : p \in ProposalsFor(NextFailure, proc.provider)}
NextDraw == RetryDraw[proc.seed][proc.drawn + 1]

PutRow(row) ==
  db' = [db EXCEPT ![Here].rows[NextNo] = row,
                   ![Here].players = @ \cup {[seed |-> proc.seed, provider |-> proc.provider]},
                   ![Here].whole = @ /\ proc.provider \in Fixtures]

\* The clock is set to the failure's created_at, and process_case() runs.
PlayRow ==
  /\ proc.phase = "play" /\ proc.todo # {}
  /\ \E v \in NextVerdicts :
       /\ PutRow(Played(NextFailure, v, NextDraw))
       /\ proc' = [proc EXCEPT !.todo = @ \ {NextNo},
                     !.drawn = IF v.decision = "ALLOW" THEN @ + 1 ELSE @]
  /\ UNCHANGED <<truth, scoringLog, reports, generations, crashes>>

----------------------------------------------------------------------------
(* The report *)

\* A bug: the organic draws are taken from a stream, in the order of the rows that
\* need one.
OrganicFromStream(d, seed, i) ==
  LET earlier == {j \in Scored(d) : j < i /\ db[d].rows[j].action = "none"}
  IN  OrganicDraw[seed][Cardinality(earlier) + 1] < FailureNo(d, i).probs.pOrganic

\* _organic_recovered: the draw is a hash of seed and case.
OrganicRecovered(d, seed, i) ==
  OrganicDraw[seed][i] < FailureNo(d, i).probs.pOrganic

\* compute_outcomes: an action decides, and without one the counterfactual.
Outcomes(d, seed) ==
  [i \in Scored(d) |->
     IF db[d].rows[i].action # "none"
       THEN [source |-> "attempt", recovered |-> db[d].rows[i].action = "ok"]
       ELSE [source |-> "organic", recovered |-> OrganicRecovered(d, seed, i)]]

Publish ==
  /\ proc.phase = "play" /\ proc.todo = {}
  /\ reports' = reports \cup
       {[dataset |-> Here, generator |-> db[Here].seed, seed |-> proc.seed,
         rescore |-> proc.rescore, times |-> proc.times,
         outcomes |-> Outcomes(Here, proc.seed),
         players |-> db[Here].players, whole |-> db[Here].whole]}
  /\ proc' = Idle
  /\ UNCHANGED <<db, truth, scoringLog, generations, crashes>>

----------------------------------------------------------------------------
\* Death between two rows, or in one; in generate_scenario() also while the
\* ground truth is being written, of which only some lines are then there.
Die ==
  /\ proc.phase # "idle"
  /\ crashes < MaxCrashes
  /\ crashes' = crashes + 1
  /\ proc' = Idle
  /\ \/ proc.phase \in {"recorded", "alias"} /\ UNCHANGED <<db, truth>>
     \/ proc.phase = "play" /\ proc.todo = {} /\ UNCHANGED <<db, truth>>
     \/ /\ proc.phase = "play" /\ proc.todo # {}
        /\ \E row \in {db[Here].rows[NextNo]} \cup
                      UNION {HalfPlayed(NextFailure, v, NextDraw) : v \in NextVerdicts} :
             db' = [db EXCEPT ![Here].rows[NextNo] = row,
                              ![Here].whole = FALSE]
        /\ UNCHANGED truth
     \/ /\ proc.phase = "ingest"
        /\ db' = [db EXCEPT ![Here].whole = FALSE]
        /\ \/ UNCHANGED truth
           \/ Ingested /\ \E known \in SUBSET DOMAIN db[Here].rows, torn \in BOOLEAN :
                             WriteTruth(known, torn)
  /\ UNCHANGED <<scoringLog, reports, generations>>

ScoringNext ==
  \/ \E d \in Datasets, g \in GenSeeds : ResetDb(d, g)
  \/ \E i \in DOMAIN db[Here].rows : IngestFailure(i)
  \/ FinishGeneration
  \/ \E a \in Datasets : ResetAlias(a)
  \/ \E d \in Datasets, s \in RunSeeds, p \in Providers, r \in BOOLEAN : Begin(d, s, p, r)
  \/ MissKey \/ SelectRows \/ PlayRow \/ Publish
  \/ Die

ScoringSpec == ScoringInit /\ [][ScoringNext]_scoringVars

----------------------------------------------------------------------------
(* Properties *)

RowType == [state : {"ABSENT", "DETECTED", "DIAGNOSED", "SCHEDULED", "EXECUTING",
                     "RECOVERED", "FAILED_ATTEMPT", "ABANDONED", "HOLDOUT_CLOSED",
                     "QUARANTINED"},
            action : {"none", "ok", "failed"}]

ScoringTypeOK ==
  /\ \A d \in Datasets :
       /\ db[d].seed \in GenSeeds \cup {0} /\ truth[d].seed \in GenSeeds \cup {0}
       /\ db[d].rows \in Seq(RowType)
       /\ truth[d].known \subseteq
            (IF truth[d].seed = 0 THEN {} ELSE DOMAIN CorpusOf[<<d, truth[d].seed>>])
  /\ \A c \in Corpora :
       scoringLog[c] \in Seq([dataset : Datasets, seed : RunSeeds,
                              provider : Providers, rescore : BOOLEAN])
  /\ proc.phase \in {"idle", "ingest", "alias", "recorded", "play"}
  /\ \A r \in reports : r.times \in 1 .. MaxScorings

\* The sealed corpus is scored once: over all its scenarios, regenerations, runs
\* that were refused, failed or died, at most one scoring of it was not declared
\* to be a rescoring.
SealedScoredOnce ==
  \A c \in Corpora : c = "test" =>
    \A i, j \in DOMAIN scoringLog[c] :
      ~scoringLog[c][i].rescore /\ ~scoringLog[c][j].rescore => i = j

\* The times_scored that a report publishes is the place in the log of the very
\* run that wrote it, with the runs counted that wrote none; so no two reports
\* of a corpus publish the same number, and none can be hidden.
TimesScoredIsHonest ==
  \A r \in reports :
    /\ r.times \in DOMAIN scoringLog[r.dataset.corpus]
    /\ LET line == scoringLog[r.dataset.corpus][r.times]
       IN  line.dataset = r.dataset /\ line.seed = r.seed /\ line.rescore = r.rescore
    /\ \A q \in reports :
         q.dataset.corpus = r.dataset.corpus /\ q.times = r.times => q = r

\* The same seeds give the same numbers on every rerun, also on a corpus that was
\* generated again, scored before, or has another one generated in between.  It
\* takes databases on which no command died and no run had a model, and which the
\* same run seed and provider played: a later run with others reports that play.
ReportsReproduce ==
  \A r, q \in reports :
    /\ r.dataset = q.dataset /\ r.generator = q.generator /\ r.seed = q.seed
    /\ r.players = q.players
    /\ r.whole /\ q.whole
    => r.outcomes = q.outcomes

\* What a failure does on its own is no matter of what is done about the others:
\* whatever the provider, and wherever a run died, a failure that two reports of
\* a run seed both score organically is scored alike.
CounterfactualIsFixed ==
  \A r, q \in reports :
    r.dataset = q.dataset /\ r.generator = q.generator /\ r.seed = q.seed =>
      \A i \in DOMAIN r.outcomes \cap DOMAIN q.outcomes :
        r.outcomes[i].source = "organic" /\ q.outcomes[i].source = "organic" =>
          r.outcomes[i] = q.outcomes[i]
=============================================================================
