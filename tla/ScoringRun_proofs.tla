------------------------- MODULE ScoringRun_proofs -------------------------
(***************************************************************************)
(* What the reports of the harness say about themselves, for any datasets,   *)
(* corpora, seeds and draws and any number of runs and crashes: the sealed   *)
(* corpus is scored once, the number of its scorings is counted honestly,    *)
(* and the counterfactual does not depend on what was done.                *)
(***************************************************************************)
EXTENDS ScoringRun, Policy_proofs, FiniteSetTheorems, WellFoundedInduction

Line == [dataset : Datasets, seed : RunSeeds, provider : Providers, rescore : BOOLEAN]

Running == proc.phase \in {"recorded", "play"}

\* The log of a corpus has types, and the sealed one has a first line at most that
\* was not declared a rescoring.
LogInv ==
  /\ scoringLog \in [Corpora -> Seq(Line)]
  /\ \A c \in Corpora : c = "test" =>
       \A i \in DOMAIN scoringLog[c] : ~scoringLog[c][i].rescore => i = 1

\* The run under way wrote the last line of its corpus, and no report has its number.
RunInv ==
  /\ proc = [phase |-> proc.phase, dataset |-> proc.dataset, seed |-> proc.seed,
             provider |-> proc.provider, rescore |-> proc.rescore, times |-> proc.times,
             todo |-> proc.todo, drawn |-> proc.drawn]
  /\ Running =>
       LET log == scoringLog[proc.dataset.corpus] IN
       /\ proc.dataset \in Datasets
       /\ proc.times = Len(log) /\ proc.times \in DOMAIN log
       /\ log[proc.times].dataset = proc.dataset /\ log[proc.times].seed = proc.seed
       /\ log[proc.times].rescore = proc.rescore
       /\ \A r \in reports : r.dataset.corpus = proc.dataset.corpus => r.times # proc.times

\* A report bears the number of the line of its run, and no other report does.
Numbered ==
  \A r \in reports :
    LET log == scoringLog[r.dataset.corpus] IN
    /\ r.dataset \in Datasets /\ r.times \in DOMAIN log
    /\ log[r.times].dataset = r.dataset /\ log[r.times].seed = r.seed
    /\ log[r.times].rescore = r.rescore
    /\ \A q \in reports : q.dataset.corpus = r.dataset.corpus /\ q.times = r.times => q = r

\* What a report scores organically is a function of seeds, dataset and failure.
Counterfactual(r) ==
  \A i \in DOMAIN r.outcomes :
    r.outcomes[i].source = "organic" =>
      r.outcomes[i] =
        [source |-> "organic",
         recovered |-> OrganicDraw[r.seed][i] <
                         CorpusOf[<<r.dataset, r.generator>>][i].probs.pOrganic]

----------------------------------------------------------------------------
(* The invariants about databases *)

Players == [seed : RunSeeds, provider : Providers]

Db == [seed : GenSeeds \cup {0}, rows : Seq(RowType), players : SUBSET Players,
       whole : BOOLEAN]

\* The failures of a dataset, by number.
Numbers(d, g) == IF g = 0 THEN {} ELSE DOMAIN CorpusOf[<<d, g>>]

\* A database has a row for each failure of its corpus, and the ground truth knows no
\* other failures.
DbTypes ==
  /\ db \in [Datasets -> Db]
  /\ truth \in [Datasets -> [seed : GenSeeds \cup {0}, known : SUBSET Nat, torn : BOOLEAN]]
  /\ \A d \in Datasets :
       /\ DOMAIN db[d].rows = Numbers(d, db[d].seed)
       /\ truth[d].known \subseteq Numbers(d, truth[d].seed)

\* A command works on a database that is there.
ProcTypes ==
  /\ proc.phase \in {"idle", "ingest", "alias", "recorded", "play"}
  /\ proc.phase # "idle" => proc.dataset \in Datasets /\ db[proc.dataset].seed \in GenSeeds
  /\ Running => proc.seed \in RunSeeds /\ proc.provider \in Providers
  /\ proc.phase = "recorded" => proc.drawn = 0
  /\ proc.phase = "play" => proc.todo \subseteq DOMAIN db[proc.dataset].rows

\* No log is longer than the bound.
LogBound ==
  /\ \A c \in Corpora : Len(scoringLog[c]) <= MaxScorings
  /\ \A r \in reports : r.times \in 1 .. MaxScorings

\* The verdict on what a fixture proposes.
VerdictFor(f, provider) == VerdictOn(f, ProposalFor(f, provider))

\* The failures of S that a provider attempts.
Attempted(d, g, provider, S) ==
  {j \in S : VerdictFor(CorpusOf[<<d, g>>][j], provider).decision = "ALLOW"}

\* The row of failure i when player pl played the corpus from the first failure to the
\* last: each attempt took one draw.
RowOf(d, g, pl, i) ==
  LET f == CorpusOf[<<d, g>>][i]
      earlier == Attempted(d, g, pl.provider, {j \in Numbers(d, g) : j < i})
  IN  Played(f, VerdictFor(f, pl.provider), RetryDraw[pl.seed][Cardinality(earlier) + 1])

Unplayed(d) ==
  /\ db[d].players = {}
  /\ \A i \in DOMAIN db[d].rows : db[d].rows[i] = Row("DETECTED", "none")

PlayedOut(d) ==
  \E pl \in Players :
    /\ db[d].players = {pl}
    /\ \A i \in DOMAIN db[d].rows : db[d].rows[i] = RowOf(d, db[d].seed, pl, i)

Me == [seed |-> proc.seed, provider |-> proc.provider]

\* The run under way has played the failures up to some number, and no other.
Midway(d) ==
  /\ \A i \in proc.todo, j \in DOMAIN db[d].rows : j > i => j \in proc.todo
  /\ db[d].players = IF proc.todo = DOMAIN db[d].rows THEN {} ELSE {Me}
  /\ \A i \in DOMAIN db[d].rows :
       db[d].rows[i] = IF i \in proc.todo THEN Row("DETECTED", "none")
                       ELSE RowOf(d, db[d].seed, Me, i)
  /\ proc.drawn = Cardinality(Attempted(d, db[d].seed, proc.provider,
                                        DOMAIN db[d].rows \ proc.todo))

TruthIsWhole(d) == truth[d].seed = db[d].seed /\ truth[d].known = DOMAIN db[d].rows

\* On a database on which no command died, the ground truth is that of its rows, and one
\* run at most has played them, in their order and all, unless it is under way.
WholeInv(d) ==
  db[d].whole /\ db[d].seed # 0 =>
    IF proc.phase = "ingest" /\ proc.dataset = d
      THEN /\ db[d].players = {}
           /\ \A i \in DOMAIN db[d].rows :
                db[d].rows[i] \in {Row("ABSENT", "none"), Row("DETECTED", "none")}
      ELSE /\ TruthIsWhole(d)
           /\ IF proc.phase = "play" /\ proc.dataset = d
                THEN Midway(d) \/ (PlayedOut(d) /\ proc.todo = {})
                ELSE Unplayed(d) \/ PlayedOut(d)

\* What a run with seed reports of a database that pl played.
OutcomesOf(d, g, seed, pl) ==
  [i \in Numbers(d, g) |->
     IF RowOf(d, g, pl, i).action # "none"
       THEN [source |-> "attempt", recovered |-> RowOf(d, g, pl, i).action = "ok"]
       ELSE [source |-> "organic",
             recovered |-> OrganicDraw[seed][i] < CorpusOf[<<d, g>>][i].probs.pOrganic]]

\* A report of such a database is a function of its seeds and of who played it.
Reproducible(r) ==
  r.whole =>
    \/ r.players = {} /\ r.outcomes = [i \in {} |-> i]
    \/ \E pl \in Players :
         /\ r.players = {pl}
         /\ r.outcomes = OutcomesOf(r.dataset, r.generator, r.seed, pl)

PlayInv ==
  /\ DbTypes /\ ProcTypes /\ LogBound
  /\ \A d \in Datasets : WholeInv(d)
  /\ \A r \in reports : Reproducible(r)

----------------------------------------------------------------------------

HarnessInv ==
  LogInv /\ RunInv /\ Numbered /\ \A r \in reports : Counterfactual(r)

\* The corpus a dataset is played from is one of the corpora.
LEMMA CorpusOfDataset ==
  ASSUME NEW d \in Datasets
  PROVE  d.corpus \in Corpora
BY DEF Corpora

\* No run has been recorded yet.
LEMMA HarnessInvInit ==
  ASSUME ScoringInit
  PROVE  HarnessInv
<1>1. LogInv
  <2>1. scoringLog = [c \in Corpora |-> <<>>] /\ <<>> \in Seq(Line)
    BY DEF ScoringInit
  <2>2. QED
    BY <2>1 DEF LogInv
<1>2. RunInv /\ reports = {}
  BY DEF ScoringInit, Idle, RunInv, Running
<1>3. QED
  BY <1>1, <1>2 DEF HarnessInv, Numbered

\* A run begins: its line is the last of a longer log.
LEMMA BeginAppends ==
  ASSUME HarnessInv, NEW d \in Datasets, NEW s \in RunSeeds, NEW p \in Providers,
         NEW r \in BOOLEAN, Begin(d, s, p, r)
  PROVE  LET old == scoringLog[d.corpus]
             new == scoringLog'[d.corpus]
             line == [dataset |-> d, seed |-> s, provider |-> p, rescore |-> r]
         IN  /\ d.corpus \in Corpora /\ old \in Seq(Line) /\ new = Append(old, line)
             /\ Len(new) = Len(old) + 1 /\ new[Len(new)] = line /\ new \in Seq(Line)
             /\ \A i \in DOMAIN old : i \in DOMAIN new /\ new[i] = old[i] /\ i # Len(new)
             /\ \A i \in DOMAIN new : i \in DOMAIN old \/ i = Len(new)
             /\ Len(new) \in DOMAIN new
             /\ \A c \in Corpora : c # d.corpus => scoringLog'[c] = scoringLog[c]
<1> DEFINE line == [dataset |-> d, seed |-> s, provider |-> p, rescore |-> r]
<1>1. d.corpus \in Corpora /\ scoringLog[d.corpus] \in Seq(Line) /\ line \in Line
  BY CorpusOfDataset DEF HarnessInv, LogInv, Line
<1>2. scoringLog' = [scoringLog EXCEPT ![d.corpus] = Append(scoringLog[d.corpus], line)]
  BY DEF Begin
<1>3. /\ scoringLog'[d.corpus] = Append(scoringLog[d.corpus], line)
      /\ \A c \in Corpora : c # d.corpus => scoringLog'[c] = scoringLog[c]
  BY <1>1, <1>2 DEF HarnessInv, LogInv
<1> DEFINE old == scoringLog[d.corpus]
           new == Append(old, line)
<1>4. /\ Len(new) = Len(old) + 1 /\ new[Len(new)] = line /\ new \in Seq(Line)
      /\ \A i \in DOMAIN old : i \in DOMAIN new /\ new[i] = old[i] /\ i # Len(new)
      /\ \A i \in DOMAIN new : i \in DOMAIN old \/ i = Len(new)
      /\ Len(new) \in DOMAIN new
  BY <1>1
<1>5. QED
  BY <1>1, <1>3, <1>4

\* A command that records its run numbers it after those before.
LEMMA BeginKeepsHarness ==
  ASSUME HarnessInv, NEW d \in Datasets, NEW s \in RunSeeds, NEW p \in Providers,
         NEW r \in BOOLEAN, Begin(d, s, p, r)
  PROVE  HarnessInv'
<1> DEFINE old == scoringLog[d.corpus]
           new == scoringLog'[d.corpus]
           line == [dataset |-> d, seed |-> s, provider |-> p, rescore |-> r]
<1>1. /\ d.corpus \in Corpora /\ old \in Seq(Line) /\ new = Append(old, line)
      /\ Len(new) = Len(old) + 1 /\ new[Len(new)] = line /\ new \in Seq(Line)
      /\ \A i \in DOMAIN old : i \in DOMAIN new /\ new[i] = old[i] /\ i # Len(new)
      /\ \A i \in DOMAIN new : i \in DOMAIN old \/ i = Len(new)
      /\ Len(new) \in DOMAIN new
      /\ \A c \in Corpora : c # d.corpus => scoringLog'[c] = scoringLog[c]
  BY BeginAppends
<1>2. reports' = reports /\ (d.corpus = "test" /\ ~r => old = <<>>)
  BY DEF Begin, MayScore, Sealed
<1>3. proc' = [phase |-> "recorded", dataset |-> d, seed |-> s, provider |-> p, rescore |-> r,
               times |-> Len(new), todo |-> {}, drawn |-> 0]
  BY DEF Begin, TimesScored
<1>4. LogInv'
  <2>1. scoringLog' \in [Corpora -> Seq(Line)]
    BY <1>1 DEF HarnessInv, LogInv, Begin
  <2>2. ASSUME d.corpus = "test", NEW i \in DOMAIN new, ~new[i].rescore
        PROVE  i = 1
    <3>1. CASE i \in DOMAIN old
      BY <1>1, <2>2, <3>1 DEF HarnessInv, LogInv
    <3>2. CASE i = Len(new)
      <4>1. ~r /\ old = <<>>
        BY <1>1, <1>2, <2>2, <3>2
      <4>2. QED
        BY <1>1, <3>2, <4>1
    <3>3. QED
      BY <1>1, <2>2, <3>1, <3>2
  <2>3. ASSUME NEW c \in Corpora, c = "test", NEW i \in DOMAIN scoringLog'[c],
               ~scoringLog'[c][i].rescore
        PROVE  i = 1
    BY <1>1, <2>2, <2>3 DEF HarnessInv, LogInv
  <2>4. QED
    BY <2>1, <2>3 DEF LogInv
<1>5. RunInv'
  <2>1. \A q \in reports : q.dataset.corpus = d.corpus => q.times # Len(new)
    BY <1>1 DEF HarnessInv, Numbered
  <2>2. QED
    BY <1>1, <1>2, <1>3, <2>1 DEF RunInv, Running
<1>6. Numbered'
  <2>1. ASSUME NEW q \in reports
        PROVE  LET log == scoringLog[q.dataset.corpus]
                   log2 == scoringLog'[q.dataset.corpus]
               IN  q.times \in DOMAIN log2 /\ log2[q.times] = log[q.times]
    <3>1. q.dataset \in Datasets /\ q.times \in DOMAIN scoringLog[q.dataset.corpus]
      BY DEF HarnessInv, Numbered
    <3>2. q.dataset.corpus \in Corpora
      BY <3>1, CorpusOfDataset
    <3>3. QED
      BY <1>1, <3>1, <3>2
  <2>2. QED
    BY <1>2, <2>1 DEF HarnessInv, Numbered
<1>7. \A q \in reports' : Counterfactual(q)'
  BY <1>2 DEF HarnessInv, Counterfactual
<1>8. QED
  BY <1>4, <1>5, <1>6, <1>7 DEF HarnessInv

\* A report carries the number and the draws of its run.
LEMMA PublishKeepsHarness ==
  ASSUME HarnessInv, Publish
  PROVE  HarnessInv'
<1> DEFINE q == [dataset |-> Here, generator |-> db[Here].seed, seed |-> proc.seed,
                 rescore |-> proc.rescore, times |-> proc.times,
                 outcomes |-> Outcomes(Here, proc.seed),
                 players |-> db[Here].players, whole |-> db[Here].whole]
<1>1. /\ Running /\ reports' = reports \cup {q} /\ proc' = Idle /\ scoringLog' = scoringLog
  BY DEF Publish, Running
<1>2. LogInv'
  BY <1>1 DEF HarnessInv, LogInv
<1>3. RunInv'
  BY <1>1 DEF RunInv, Running, Idle
<1>4. Numbered'
  <2>1. /\ q.dataset = proc.dataset /\ q.seed = proc.seed /\ q.rescore = proc.rescore
        /\ q.times = proc.times
    BY DEF Here
  <2>2. \A r \in reports : ~(r.dataset.corpus = q.dataset.corpus /\ r.times = q.times)
    BY <1>1, <2>1 DEF HarnessInv, RunInv
  <2> HIDE DEF q
  <2>3. ASSUME NEW r \in reports', NEW t \in reports',
               t.dataset.corpus = r.dataset.corpus, t.times = r.times
        PROVE  t = r
    BY <1>1, <2>2, <2>3 DEF HarnessInv, Numbered
  <2>4. ASSUME NEW r \in reports'
        PROVE  LET log == scoringLog[r.dataset.corpus] IN
               /\ r.dataset \in Datasets /\ r.times \in DOMAIN log
               /\ log[r.times].dataset = r.dataset /\ log[r.times].seed = r.seed
               /\ log[r.times].rescore = r.rescore
    BY <1>1, <2>1, <2>4 DEF HarnessInv, Numbered, RunInv
  <2>5. QED
    BY <1>1, <2>3, <2>4 DEF Numbered
<1>5. Counterfactual(q)
  <2>1. /\ q.outcomes = Outcomes(Here, proc.seed) /\ q.seed = proc.seed /\ q.dataset = Here
        /\ q.generator = db[Here].seed
    OBVIOUS
  <2> HIDE DEF q
  <2>2. ASSUME NEW i \in DOMAIN q.outcomes, q.outcomes[i].source = "organic"
        PROVE  q.outcomes[i] = [source |-> "organic", recovered |-> OrganicRecovered(Here, proc.seed, i)]
    BY <2>1, <2>2 DEF Outcomes
  <2>3. QED
    BY <2>1, <2>2 DEF Counterfactual, OrganicRecovered, FailureNo
<1>6. \A r \in reports' : Counterfactual(r)'
  <2> HIDE DEF q
  <2>1. \A r \in reports' : Counterfactual(r)
    BY <1>1, <1>5 DEF HarnessInv
  <2>2. QED
    BY <2>1 DEF Counterfactual
<1>7. QED
  BY <1>2, <1>3, <1>4, <1>6 DEF HarnessInv

\* The other steps of a command leave log and reports alone; the command goes on with
\* its line and number, or is over, or generates a corpus.
LEMMA OthersKeepHarness ==
  ASSUME HarnessInv, UNCHANGED <<scoringLog, reports>>,
         \/ proc' = proc \/ proc' = Idle \/ \E d \in Datasets \cup {Here}, phase \in {"ingest", "alias"} :
              proc' = [Idle EXCEPT !.phase = phase, !.dataset = d]
         \/ /\ Running
            /\ \E todo, drawn : proc' = [proc EXCEPT !.phase = "play", !.todo = todo,
                                                     !.drawn = drawn]
  PROVE  HarnessInv'
<1>1. LogInv' /\ Numbered' /\ \A r \in reports' : Counterfactual(r)'
  BY DEF HarnessInv, LogInv, Numbered, Counterfactual
<1>2. RunInv'
  <2>1. CASE proc' = proc
    BY <2>1 DEF HarnessInv, RunInv, Running
  <2>2. CASE proc' = Idle
    BY <2>2 DEF RunInv, Running, Idle
  <2>3. ASSUME NEW d, NEW phase \in {"ingest", "alias"},
               proc' = [Idle EXCEPT !.phase = phase, !.dataset = d]
        PROVE  RunInv'
    BY <2>3 DEF RunInv, Running, Idle
  <2>4. ASSUME NEW todo, NEW drawn, Running,
               proc' = [proc EXCEPT !.phase = "play", !.todo = todo, !.drawn = drawn]
        PROVE  RunInv'
    <3>1. proc' = [phase |-> "play", dataset |-> proc.dataset, seed |-> proc.seed,
                   provider |-> proc.provider, rescore |-> proc.rescore, times |-> proc.times,
                   todo |-> todo, drawn |-> drawn]
      BY <2>4 DEF HarnessInv, RunInv
    <3>2. QED
      BY <2>4, <3>1 DEF HarnessInv, RunInv, Running
  <2>5. QED
    BY <2>1, <2>2, <2>3, <2>4
<1>3. QED
  BY <1>1, <1>2 DEF HarnessInv
\* Every step of the harness preserves the invariant.
LEMMA HarnessInvStep ==
  ASSUME HarnessInv, [ScoringNext]_scoringVars
  PROVE  HarnessInv'
<1>0. proc = [phase |-> proc.phase, dataset |-> proc.dataset, seed |-> proc.seed,
              provider |-> proc.provider, rescore |-> proc.rescore, times |-> proc.times,
              todo |-> proc.todo, drawn |-> proc.drawn]
  BY DEF HarnessInv, RunInv
<1>1. ASSUME NEW d \in Datasets, NEW g \in GenSeeds, ResetDb(d, g)
      PROVE  HarnessInv'
  BY <1>1, OthersKeepHarness DEF ResetDb, EmptyDb
<1>2. ASSUME NEW i, IngestFailure(i)
      PROVE  HarnessInv'
  BY <1>2, OthersKeepHarness DEF IngestFailure
<1>3. CASE FinishGeneration
  BY <1>3, OthersKeepHarness DEF FinishGeneration
<1>3a. ASSUME NEW a \in Datasets, ResetAlias(a)
       PROVE  HarnessInv'
  BY <1>3a, OthersKeepHarness DEF ResetAlias, EmptyDb
<1>4. ASSUME NEW d \in Datasets, NEW s \in RunSeeds, NEW p \in Providers,
             NEW r \in BOOLEAN, Begin(d, s, p, r)
      PROVE  HarnessInv'
  BY <1>4, BeginKeepsHarness
<1>5. CASE MissKey
  BY <1>5, OthersKeepHarness DEF MissKey
<1>6. CASE SelectRows
  <2>1. Running /\ UNCHANGED <<scoringLog, reports>>
    BY <1>6 DEF SelectRows, Running
  <2>2. proc' = [proc EXCEPT !.phase = "play", !.todo = Playable(Here),
                             !.drawn = proc.drawn]
    BY <1>0, <1>6 DEF SelectRows
  <2>3. QED
    BY <2>1, <2>2, OthersKeepHarness
<1>7. CASE PlayRow
  <2>1. Running /\ proc.phase = "play" /\ UNCHANGED <<scoringLog, reports>>
    BY <1>7 DEF PlayRow, Running
  <2>2. PICK v \in NextVerdicts :
          proc' = [proc EXCEPT !.todo = @ \ {NextNo},
                     !.drawn = IF v.decision = "ALLOW" THEN @ + 1 ELSE @]
    BY <1>7 DEF PlayRow
  <2> DEFINE todo == proc.todo \ {NextNo}
             drawn == IF v.decision = "ALLOW" THEN proc.drawn + 1 ELSE proc.drawn
  <2>3. proc' = [proc EXCEPT !.todo = todo, !.drawn = drawn]
    BY <2>2
  <2> HIDE DEF todo, drawn
  <2>4. proc' = [proc EXCEPT !.phase = "play", !.todo = todo, !.drawn = drawn]
    BY <1>0, <2>1, <2>3
  <2>5. QED
    BY <2>1, <2>4, OthersKeepHarness
<1>8. CASE Publish
  BY <1>8, PublishKeepsHarness
<1>9. CASE Die
  BY <1>9, OthersKeepHarness DEF Die
<1>10. CASE UNCHANGED scoringVars
  BY <1>10, OthersKeepHarness DEF scoringVars
<1>11. QED
  BY <1>1, <1>2, <1>3, <1>3a, <1>4, <1>5, <1>6, <1>7, <1>8, <1>9, <1>10 DEF ScoringNext

----------------------------------------------------------------------------
(* Rows and corpora *)

\* The failures of a corpus are numbered from 1.
LEMMA CorpusNumbers ==
  ASSUME NEW d \in Datasets, NEW g \in GenSeeds
  PROVE  /\ Numbers(d, g) = DOMAIN CorpusOf[<<d, g>>]
         /\ Numbers(d, g) = 1 .. Len(CorpusOf[<<d, g>>])
         /\ Len(CorpusOf[<<d, g>>]) \in Nat
         /\ IsFiniteSet(Numbers(d, g))
<1> DEFINE corpus == CorpusOf[<<d, g>>]
           Failures == {corpus[i] : i \in DOMAIN corpus}
<1>1. corpus \in Seq(Failures) /\ g # 0
  BY ScoringAssumption
<1> HIDE DEF Failures
<1>2. Len(corpus) \in Nat /\ DOMAIN corpus = 1 .. Len(corpus)
  BY <1>1
<1>3. IsFiniteSet(1 .. Len(corpus))
  BY <1>2, FS_Interval
<1>4. QED
  BY <1>1, <1>2, <1>3 DEF Numbers

\* What process_case() leaves of a row, and what a death in it may leave, is a row; and
\* no row it has left is DETECTED.
LEMMA PlayedIsRow ==
  ASSUME NEW f, NEW v, NEW draw
  PROVE  /\ Played(f, v, draw) \in RowType
         /\ Played(f, v, draw).state \notin {"ABSENT", "DETECTED"}
         /\ HalfPlayed(f, v, draw) \subseteq RowType
<1>1. Closed(v) \in {"QUARANTINED", "HOLDOUT_CLOSED", "ABANDONED"}
  BY DEF Closed
<1>2. Played(f, v, draw) \in {Row(Closed(v), "none"), Row("RECOVERED", "ok"),
                              Row("FAILED_ATTEMPT", "failed")}
  BY DEF Played
<1>3. Played(f, v, draw) \in RowType /\ Played(f, v, draw).state \notin {"ABSENT", "DETECTED"}
  BY <1>1, <1>2 DEF Row, RowType
<1>4. HalfPlayed(f, v, draw) \subseteq
        {Row("DIAGNOSED", "none"), Row("SCHEDULED", "none"), Row("EXECUTING", "none"),
         Row("EXECUTING", Played(f, v, draw).action)}
  BY DEF HalfPlayed
<1>5. Played(f, v, draw).action \in {"none", "ok", "failed"}
  BY <1>3 DEF RowType
<1>6. HalfPlayed(f, v, draw) \subseteq RowType
  <2> HIDE DEF Played
  <2>1. QED
    BY <1>4, <1>5 DEF Row, RowType
<1>7. QED
  BY <1>3, <1>6

\* Writing one row.
LEMMA RowWritten ==
  ASSUME NEW rows \in Seq(RowType), NEW row \in RowType, NEW i
  PROVE  LET t == [rows EXCEPT ![i] = row]
         IN  /\ t \in Seq(RowType) /\ DOMAIN t = DOMAIN rows
             /\ \A j \in DOMAIN rows : t[j] = IF j = i THEN row ELSE rows[j]
<1>1. Len(rows) \in Nat /\ rows \in [1 .. Len(rows) -> RowType]
  OBVIOUS
<1>2. [rows EXCEPT ![i] = row] \in [1 .. Len(rows) -> RowType]
  BY <1>1
<1>3. QED
  BY <1>1, <1>2

\* A database is replaced by one that is well formed.
LEMMA DbReplaced ==
  ASSUME DbTypes, NEW d \in Datasets, NEW new \in Db, DOMAIN new.rows = Numbers(d, new.seed),
         db' = [db EXCEPT ![d] = new]
  PROVE  /\ db' \in [Datasets -> Db] /\ db'[d] = new
         /\ \A e \in Datasets : e # d => db'[e] = db[e]
         /\ \A e \in Datasets : DOMAIN db'[e].rows = Numbers(e, db'[e].seed)
<1>1. db \in [Datasets -> Db] /\ \A e \in Datasets : DOMAIN db[e].rows = Numbers(e, db[e].seed)
  BY DEF DbTypes
<1>2. /\ db' \in [Datasets -> Db] /\ db'[d] = new
      /\ \A e \in Datasets : e # d => db'[e] = db[e]
  BY <1>1
<1>3. ASSUME NEW e \in Datasets
      PROVE  DOMAIN db'[e].rows = Numbers(e, db'[e].seed)
  BY <1>1, <1>2
<1>4. QED
  BY <1>2, <1>3

\* The database at hand, taken apart.
LEMMA DbAtHand ==
  ASSUME DbTypes, NEW d \in Datasets
  PROVE  /\ db[d] = [seed |-> db[d].seed, rows |-> db[d].rows, players |-> db[d].players,
                     whole |-> db[d].whole]
         /\ db[d].seed \in GenSeeds \cup {0} /\ db[d].rows \in Seq(RowType)
         /\ db[d].players \in SUBSET Players /\ db[d].whole \in BOOLEAN
         /\ DOMAIN db[d].rows = Numbers(d, db[d].seed)
BY DEF DbTypes, Db

\* A row of a database is written, with a new account of who plays it and what died.
LEMMA DbRowWritten ==
  ASSUME DbTypes, NEW d \in Datasets, NEW row \in RowType, NEW i,
         NEW players \in SUBSET Players, NEW whole \in BOOLEAN,
         db' = [db EXCEPT ![d] = [seed |-> db[d].seed, rows |-> [db[d].rows EXCEPT ![i] = row],
                                  players |-> players, whole |-> whole]]
  PROVE  /\ db' \in [Datasets -> Db]
         /\ db'[d].seed = db[d].seed /\ db'[d].players = players /\ db'[d].whole = whole
         /\ DOMAIN db'[d].rows = DOMAIN db[d].rows
         /\ \A j \in DOMAIN db[d].rows : db'[d].rows[j] = IF j = i THEN row ELSE db[d].rows[j]
         /\ \A e \in Datasets : e # d => db'[e] = db[e]
         /\ \A e \in Datasets : DOMAIN db'[e].rows = Numbers(e, db'[e].seed)
<1> DEFINE rows == [db[d].rows EXCEPT ![i] = row]
           new == [seed |-> db[d].seed, rows |-> rows, players |-> players, whole |-> whole]
<1>1. /\ rows \in Seq(RowType) /\ DOMAIN rows = DOMAIN db[d].rows
      /\ \A j \in DOMAIN db[d].rows : rows[j] = IF j = i THEN row ELSE db[d].rows[j]
  BY DbAtHand, RowWritten
<1> HIDE DEF rows
<1>2. /\ new.seed = db[d].seed /\ new.rows = rows /\ new.players = players
      /\ new.whole = whole /\ new \in Db
  BY <1>1, DbAtHand DEF Db
<1>3. DOMAIN new.rows = Numbers(d, new.seed)
  BY <1>1, <1>2, DbAtHand
<1>4. db' = [db EXCEPT ![d] = new]
  BY DEF rows
<1> HIDE DEF new
<1>5. /\ db' \in [Datasets -> Db] /\ db'[d] = new
      /\ \A e \in Datasets : e # d => db'[e] = db[e]
      /\ \A e \in Datasets : DOMAIN db'[e].rows = Numbers(e, db'[e].seed)
  BY <1>2, <1>3, <1>4, DbReplaced
<1>6. QED
  BY <1>1, <1>2, <1>5

----------------------------------------------------------------------------
(* What a step leaves alone *)

\* A database on which no command writes.
Quiet(d) ==
  db[d].whole /\ db[d].seed # 0 => TruthIsWhole(d) /\ (Unplayed(d) \/ PlayedOut(d))

Writing(d) == proc.phase \in {"ingest", "play"} /\ proc.dataset = d

LEMMA QuietIsWhole ==
  ASSUME NEW d \in Datasets, ~Writing(d)
  PROVE  WholeInv(d) <=> Quiet(d)
BY DEF WholeInv, Quiet, Writing

LEMMA QuietIsWholeNext ==
  ASSUME NEW d \in Datasets, ~Writing(d)'
  PROVE  WholeInv(d)' <=> Quiet(d)'
BY DEF WholeInv, Quiet, Writing

\* Quiet(d) is about the database and the ground truth of d.
LEMMA QuietKept ==
  ASSUME NEW d \in Datasets, Quiet(d), db'[d] = db[d], truth'[d] = truth[d]
  PROVE  Quiet(d)'
BY DEF Quiet, TruthIsWhole, Unplayed, PlayedOut, RowOf

LEMMA ElsewhereKept ==
  ASSUME NEW d \in Datasets, WholeInv(d), db'[d] = db[d], truth'[d] = truth[d],
         ~Writing(d), ~Writing(d)'
  PROVE  WholeInv(d)'
BY QuietIsWhole, QuietIsWholeNext, QuietKept

\* A row is put into the database of d.
LEMMA RowPut ==
  ASSUME DbTypes, NEW d \in Datasets, NEW row, NEW i,
         db' = [db EXCEPT ![d].rows[i] = row]
  PROVE  db' = [db EXCEPT ![d] = [seed |-> db[d].seed, rows |-> [db[d].rows EXCEPT ![i] = row],
                                  players |-> db[d].players, whole |-> db[d].whole]]
<1>1. db[d] = [seed |-> db[d].seed, rows |-> db[d].rows, players |-> db[d].players,
               whole |-> db[d].whole]
  BY DbAtHand
<1>2. [db[d] EXCEPT !.rows[i] = row] =
        [seed |-> db[d].seed, rows |-> [db[d].rows EXCEPT ![i] = row],
         players |-> db[d].players, whole |-> db[d].whole]
  BY <1>1
<1>3. QED
  BY <1>2

\* A row is put by a run that plays it.
LEMMA PlayerPut ==
  ASSUME DbTypes, Here \in Datasets, NEW row, PutRow(row)
  PROVE  db' = [db EXCEPT ![Here] =
                  [seed |-> db[Here].seed, rows |-> [db[Here].rows EXCEPT ![NextNo] = row],
                   players |-> db[Here].players \cup {Me},
                   whole |-> db[Here].whole /\ proc.provider \in Fixtures]]
<1> DEFINE old == db[Here]
           put == [old EXCEPT !.rows[NextNo] = row]
           rows == [old.rows EXCEPT ![NextNo] = row]
           players == old.players \cup {[seed |-> proc.seed, provider |-> proc.provider]}
           whole == old.whole /\ proc.provider \in Fixtures
           signed == [put EXCEPT !.players = players]
           new == [signed EXCEPT !.whole = whole]
<1>1. old = [seed |-> old.seed, rows |-> old.rows, players |-> old.players, whole |-> old.whole]
  BY DbAtHand
<1>2. players = old.players \cup {Me}
  BY DEF Me
<1>3. db' = [db EXCEPT ![Here] = [put EXCEPT !.players = put.players \cup
                 {[seed |-> proc.seed, provider |-> proc.provider]},
               !.whole = put.whole /\ proc.provider \in Fixtures]]
  BY DEF DbTypes, PutRow
<1> HIDE DEF old
<1>4. put = [seed |-> old.seed, rows |-> rows, players |-> old.players, whole |-> old.whole]
  BY <1>1
<1>5. put.players = old.players /\ put.whole = old.whole
  BY <1>4
<1>6. db' = [db EXCEPT ![Here] = new]
  BY <1>3, <1>5
<1> HIDE DEF rows, put, players, whole
<1>7. signed = [seed |-> old.seed, rows |-> rows, players |-> players, whole |-> old.whole]
  BY <1>4
<1> HIDE DEF signed
<1>8. new = [seed |-> old.seed, rows |-> rows, players |-> players, whole |-> whole]
  <2>1. \A w : [signed EXCEPT !.whole = w] =
                 [seed |-> old.seed, rows |-> rows, players |-> players, whole |-> w]
    BY <1>7
  <2>2. QED
    BY <2>1, Zenon
<1> HIDE DEF new
<1>9. QED
  BY <1>2, <1>6, <1>8 DEF old, rows, whole

\* A row is put by a command that dies.
LEMMA DeathPut ==
  ASSUME DbTypes, NEW d \in Datasets, NEW row, NEW i,
         db' = [db EXCEPT ![d].rows[i] = row, ![d].whole = FALSE]
  PROVE  db' = [db EXCEPT ![d] = [seed |-> db[d].seed, rows |-> [db[d].rows EXCEPT ![i] = row],
                                  players |-> db[d].players, whole |-> FALSE]]
<1> DEFINE old == db[d]
           put == [old EXCEPT !.rows[i] = row]
           rows == [old.rows EXCEPT ![i] = row]
           new == [put EXCEPT !.whole = FALSE]
<1>1. db' = [db EXCEPT ![d] = new]
  BY DEF DbTypes
<1>2. old = [seed |-> old.seed, rows |-> old.rows, players |-> old.players, whole |-> old.whole]
  BY DbAtHand
<1> HIDE DEF old
<1>3. put = [seed |-> old.seed, rows |-> rows, players |-> old.players, whole |-> old.whole]
  BY <1>2
<1> HIDE DEF rows, put
<1>4. new = [seed |-> old.seed, rows |-> rows, players |-> old.players, whole |-> FALSE]
  <2>1. \A w : [put EXCEPT !.whole = w] =
                 [seed |-> old.seed, rows |-> rows, players |-> old.players, whole |-> w]
    BY <1>3
  <2>2. QED
    BY <2>1, Zenon
<1> HIDE DEF new
<1>5. QED
  BY <1>1, <1>4 DEF old, rows

----------------------------------------------------------------------------
(* The generator's steps *)

LEMMA PlayInvInit ==
  ASSUME ScoringInit
  PROVE  PlayInv
<1>1. NoDb \in Db /\ NoDb.seed = 0 /\ NoDb.rows = <<>>
  BY DEF NoDb, Db
<1>2. DbTypes
  <2>1. db \in [Datasets -> Db] /\ \A d \in Datasets : db[d].seed = 0 /\ db[d].rows = <<>>
    BY <1>1 DEF ScoringInit
  <2>2. /\ truth \in [Datasets -> [seed : GenSeeds \cup {0}, known : SUBSET Nat, torn : BOOLEAN]]
        /\ \A d \in Datasets : truth[d].seed = 0 /\ truth[d].known = {}
    BY DEF ScoringInit, NoTruth
  <2>3. QED
    BY <2>1, <2>2 DEF DbTypes, Numbers
<1>3. ProcTypes
  BY DEF ScoringInit, Idle, ProcTypes, Running
<1>4. LogBound /\ \A r \in reports : Reproducible(r)
  BY ScoringAssumption DEF ScoringInit, LogBound
<1>5. \A d \in Datasets : WholeInv(d)
  BY <1>1 DEF ScoringInit, WholeInv
<1>6. QED
  BY <1>2, <1>3, <1>4, <1>5 DEF PlayInv

\* A report once written is not touched.
LEMMA ReportsKept ==
  ASSUME PlayInv, reports' = reports
  PROVE  \A r \in reports' : Reproducible(r)'
BY DEF PlayInv, Reproducible

LEMMA LogBoundKept ==
  ASSUME PlayInv, reports' = reports, scoringLog' = scoringLog
  PROVE  LogBound'
BY DEF PlayInv, LogBound

LEMMA ResetKeepsPlay ==
  ASSUME PlayInv, NEW d \in Datasets, NEW g \in GenSeeds, EmptyDb(d, g),
         proc.phase \in {"idle", "alias"}, UNCHANGED <<truth, scoringLog, reports>>
  PROVE  PlayInv'
<1> DEFINE corpus == CorpusOf[<<d, g>>]
           rows == [i \in DOMAIN corpus |-> Row("ABSENT", "none")]
           new == [seed |-> g, players |-> {}, whole |-> TRUE, rows |-> rows]
<1>1. /\ rows \in Seq(RowType) /\ DOMAIN rows = Numbers(d, g)
      /\ \A i \in DOMAIN rows : rows[i] = Row("ABSENT", "none")
  <2>1. Len(corpus) \in Nat /\ DOMAIN corpus = 1 .. Len(corpus) /\ Numbers(d, g) = DOMAIN corpus
    BY CorpusNumbers
  <2>2. Row("ABSENT", "none") \in RowType
    BY DEF Row, RowType
  <2>3. QED
    BY <2>1, <2>2
<1>2. db' = [db EXCEPT ![d] = new]
  BY DEF EmptyDb
<1> HIDE DEF rows
<1>3. new \in Db /\ DOMAIN new.rows = Numbers(d, new.seed)
  BY <1>1 DEF Db
<1>4. /\ db' \in [Datasets -> Db] /\ db'[d] = new
      /\ \A e \in Datasets : e # d => db'[e] = db[e]
      /\ \A e \in Datasets : DOMAIN db'[e].rows = Numbers(e, db'[e].seed)
  <2> HIDE DEF new
  <2>1. QED
    BY <1>2, <1>3, DbReplaced DEF PlayInv
<1>5. /\ proc'.phase = "ingest" /\ proc'.dataset = d
      /\ UNCHANGED <<truth, scoringLog, reports>>
  BY DEF EmptyDb, Idle
<1>6. DbTypes' /\ ProcTypes'
  BY <1>4, <1>5 DEF PlayInv, DbTypes, ProcTypes, Running
<1>7. ASSUME NEW e \in Datasets
      PROVE  WholeInv(e)'
  <2>1. CASE e = d
    BY <1>1, <1>4, <1>5, <2>1 DEF WholeInv
  <2>2. CASE e # d
    BY <1>4, <1>5, <2>2, ElsewhereKept DEF Writing, PlayInv
  <2>3. QED
    BY <2>1, <2>2
<1>8. QED
  BY <1>5, <1>6, <1>7, ReportsKept, LogBoundKept DEF PlayInv

LEMMA IngestKeepsPlay ==
  ASSUME PlayInv, NEW i, IngestFailure(i)
  PROVE  PlayInv'
<1>1. /\ proc.phase = "ingest" /\ proc' = proc /\ UNCHANGED <<truth, scoringLog, reports>>
      /\ db' = [db EXCEPT ![Here].rows[i] = Row("DETECTED", "none")]
  BY DEF IngestFailure
<1>2. Here \in Datasets /\ DbTypes
  BY <1>1 DEF PlayInv, ProcTypes, Here
<1>3. Row("DETECTED", "none") \in RowType
  BY DEF Row, RowType
<1>4. db[Here].players \in SUBSET Players /\ db[Here].whole \in BOOLEAN
  BY <1>2, DbAtHand
<1>5. db' = [db EXCEPT ![Here] =
               [seed |-> db[Here].seed,
                rows |-> [db[Here].rows EXCEPT ![i] = Row("DETECTED", "none")],
                players |-> db[Here].players, whole |-> db[Here].whole]]
  BY <1>1, <1>2, RowPut, ZenonT(30)
<1>6. /\ db' \in [Datasets -> Db]
      /\ db'[Here].seed = db[Here].seed /\ db'[Here].players = db[Here].players
      /\ db'[Here].whole = db[Here].whole /\ DOMAIN db'[Here].rows = DOMAIN db[Here].rows
      /\ \A j \in DOMAIN db[Here].rows :
           db'[Here].rows[j] = IF j = i THEN Row("DETECTED", "none") ELSE db[Here].rows[j]
      /\ \A e \in Datasets : e # Here => db'[e] = db[e]
      /\ \A e \in Datasets : DOMAIN db'[e].rows = Numbers(e, db'[e].seed)
  BY <1>2, <1>3, <1>4, <1>5, DbRowWritten
<1>7. DbTypes' /\ ProcTypes'
  BY <1>1, <1>2, <1>6 DEF PlayInv, DbTypes, ProcTypes, Running, Here
<1>8. ASSUME NEW e \in Datasets
      PROVE  WholeInv(e)'
  <2>1. CASE e = Here
    <3>1. db[Here].whole /\ db[Here].seed # 0 =>
            /\ db[Here].players = {}
            /\ \A j \in DOMAIN db[Here].rows :
                 db[Here].rows[j] \in {Row("ABSENT", "none"), Row("DETECTED", "none")}
      BY <1>1, <1>2 DEF PlayInv, WholeInv, Here
    <3>2. db'[e].whole /\ db'[e].seed # 0 =>
            /\ db'[e].players = {}
            /\ \A j \in DOMAIN db'[e].rows :
                 db'[e].rows[j] \in {Row("ABSENT", "none"), Row("DETECTED", "none")}
      BY <1>6, <2>1, <3>1
    <3>3. proc'.phase = "ingest" /\ proc'.dataset = e
      BY <1>1, <2>1 DEF Here
    <3>4. QED
      BY <3>2, <3>3 DEF WholeInv
  <2>2. CASE e # Here
    BY <1>1, <1>6, <2>2, ElsewhereKept DEF Writing, PlayInv, Here
  <2>3. QED
    BY <2>1, <2>2
<1>9. QED
  BY <1>1, <1>7, <1>8, ReportsKept, LogBoundKept DEF PlayInv

\* The ground truth of the database at hand is written.
LEMMA TruthWritten ==
  ASSUME DbTypes, Here \in Datasets, NEW known \in SUBSET DOMAIN db[Here].rows,
         NEW torn \in BOOLEAN, WriteTruth(known, torn), db' \in [Datasets -> Db],
         \A e \in Datasets : DOMAIN db'[e].rows = Numbers(e, db'[e].seed)
  PROVE  /\ truth'[Here] = [seed |-> db[Here].seed, known |-> known, torn |-> torn]
         /\ \A e \in Datasets : e # Here => truth'[e] = truth[e]
         /\ DbTypes'
<1> DEFINE new == [seed |-> db[Here].seed, known |-> known, torn |-> torn]
<1>1. /\ db[Here].seed \in GenSeeds \cup {0} /\ db[Here].rows \in Seq(RowType)
      /\ DOMAIN db[Here].rows = Numbers(Here, db[Here].seed)
  BY DbAtHand
<1>2. new \in [seed : GenSeeds \cup {0}, known : SUBSET Nat, torn : BOOLEAN]
  <2>1. DOMAIN db[Here].rows \subseteq Nat
    BY <1>1
  <2>2. QED
    BY <1>1, <2>1
<1>3. truth' = [truth EXCEPT ![Here] = new]
  BY DEF WriteTruth
<1>4. new.seed = db[Here].seed /\ new.known = known
  OBVIOUS
<1> HIDE DEF new
<1>5. /\ truth' \in [Datasets -> [seed : GenSeeds \cup {0}, known : SUBSET Nat, torn : BOOLEAN]]
      /\ truth'[Here] = new /\ \A e \in Datasets : e # Here => truth'[e] = truth[e]
  BY <1>2, <1>3 DEF DbTypes
<1>6. ASSUME NEW e \in Datasets
      PROVE  truth'[e].known \subseteq Numbers(e, truth'[e].seed)
  <2>1. CASE e = Here
    BY <1>1, <1>4, <1>5, <2>1
  <2>2. CASE e # Here
    BY <1>5, <2>2 DEF DbTypes
  <2>3. QED
    BY <2>1, <2>2
<1>7. DbTypes'
  BY <1>5, <1>6 DEF DbTypes
<1>8. QED
  BY <1>5, <1>7 DEF new

LEMMA FinishKeepsPlay ==
  ASSUME PlayInv, FinishGeneration
  PROVE  PlayInv'
<1>1. /\ proc.phase = "ingest" /\ Ingested
      /\ proc'.phase = "idle" \/ (proc'.phase = "alias" /\ proc'.dataset = Here)
      /\ UNCHANGED <<db, scoringLog, reports>>
      /\ WriteTruth(DOMAIN db[Here].rows, FALSE)
  BY DEF FinishGeneration, Idle
<1>2. Here \in Datasets /\ DbTypes
  BY <1>1 DEF PlayInv, ProcTypes, Here
<1>3. /\ truth'[Here] = [seed |-> db[Here].seed, known |-> DOMAIN db[Here].rows, torn |-> FALSE]
      /\ \A e \in Datasets : e # Here => truth'[e] = truth[e]
      /\ DbTypes'
  BY <1>1, <1>2, TruthWritten DEF DbTypes
<1>4. ProcTypes'
  BY <1>1, <1>2 DEF PlayInv, ProcTypes, Running, Here
<1>5. ASSUME NEW e \in Datasets
      PROVE  WholeInv(e)'
  <2>1. CASE e = Here
    <3>1. TruthIsWhole(e)'
      BY <1>1, <1>3, <2>1 DEF TruthIsWhole
    <3>2. ASSUME db[e].whole, db[e].seed # 0
          PROVE  Unplayed(e)'
      <4>1. /\ db[e].players = {}
            /\ \A i \in DOMAIN db[e].rows :
                 db[e].rows[i] \in {Row("ABSENT", "none"), Row("DETECTED", "none")}
        BY <1>1, <1>2, <2>1, <3>2 DEF PlayInv, WholeInv, Here
      <4>2. \A i \in DOMAIN db[e].rows : db[e].rows[i] = Row("DETECTED", "none")
        BY <1>1, <2>1, <4>1 DEF Ingested, Row
      <4>3. QED
        BY <1>1, <4>1, <4>2 DEF Unplayed
    <3>3. Quiet(e)'
      BY <1>1, <3>1, <3>2 DEF Quiet
    <3>4. QED
      BY <1>1, <3>3, QuietIsWholeNext DEF Writing
  <2>2. CASE e # Here
    BY <1>1, <1>3, <2>2, ElsewhereKept DEF Writing, PlayInv, Here
  <2>3. QED
    BY <2>1, <2>2
<1>6. QED
  BY <1>1, <1>3, <1>4, <1>5, ReportsKept, LogBoundKept DEF PlayInv

----------------------------------------------------------------------------
(* A run's steps *)

LEMMA BeginKeepsPlay ==
  ASSUME PlayInv, HarnessInv, NEW d \in Datasets, NEW s \in RunSeeds, NEW p \in Providers,
         NEW r \in BOOLEAN, Begin(d, s, p, r)
  PROVE  PlayInv'
<1>1. /\ proc.phase = "idle" /\ UNCHANGED <<db, truth, reports>>
      /\ db[d].seed # 0 /\ Len(scoringLog[d.corpus]) < MaxScorings
      /\ proc'.phase = "recorded" /\ proc'.dataset = d /\ proc'.seed = s
      /\ proc'.provider = p /\ proc'.drawn = 0
  BY DEF Begin
<1>2. DbTypes' /\ db[d].seed \in GenSeeds
  BY <1>1, DbAtHand DEF PlayInv, DbTypes
<1>3. ProcTypes'
  BY <1>1, <1>2 DEF ProcTypes, Running
<1>4. LogBound'
  <2> DEFINE old == scoringLog[d.corpus]
             new == scoringLog'[d.corpus]
  <2>1. /\ old \in Seq(Line) /\ Len(new) = Len(old) + 1
        /\ \A c \in Corpora : c # d.corpus => scoringLog'[c] = scoringLog[c]
    BY BeginAppends
  <2>2. Len(old) \in Nat /\ Len(old) < MaxScorings
    BY <1>1, <2>1
  <2>3. Len(new) <= MaxScorings
    BY <2>1, <2>2, ScoringAssumption
  <2>4. QED
    BY <1>1, <2>1, <2>3 DEF LogBound, PlayInv
<1>5. \A e \in Datasets : WholeInv(e)'
  BY <1>1, ElsewhereKept DEF PlayInv, Writing
<1>6. QED
  BY <1>1, <1>2, <1>3, <1>4, <1>5, ReportsKept DEF PlayInv

LEMMA MissKeyKeepsPlay ==
  ASSUME PlayInv, MissKey
  PROVE  PlayInv'
<1>1. /\ proc.phase = "recorded" /\ proc'.phase = "idle"
      /\ UNCHANGED <<db, truth, scoringLog, reports>>
  BY DEF MissKey, Idle
<1>2. DbTypes' /\ ProcTypes'
  BY <1>1 DEF PlayInv, DbTypes, ProcTypes, Running
<1>3. \A e \in Datasets : WholeInv(e)'
  BY <1>1, ElsewhereKept DEF PlayInv, Writing
<1>4. QED
  BY <1>1, <1>2, <1>3, ReportsKept, LogBoundKept DEF PlayInv

\* Of a database that is whole every row is scored.
LEMMA AllScored ==
  ASSUME NEW d \in Datasets, TruthIsWhole(d),
         \A i \in DOMAIN db[d].rows : db[d].rows[i].state # "ABSENT"
  PROVE  Scored(d) = DOMAIN db[d].rows
BY DEF Scored, TruthIsWhole

\* A row that was played is neither absent nor played again.
LEMMA RowOfIsPlayed ==
  ASSUME NEW d, NEW g, NEW pl, NEW i
  PROVE  RowOf(d, g, pl, i).state \notin {"ABSENT", "DETECTED"} /\ RowOf(d, g, pl, i) \in RowType
BY PlayedIsRow DEF RowOf

LEMMA SelectKeepsPlay ==
  ASSUME PlayInv, HarnessInv, SelectRows
  PROVE  PlayInv'
<1>1. /\ proc.phase = "recorded" /\ proc'.phase = "play"
      /\ proc'.dataset = Here /\ proc'.seed = proc.seed /\ proc'.provider = proc.provider
      /\ proc'.drawn = proc.drawn /\ proc'.todo = Playable(Here)
      /\ UNCHANGED <<db, truth, scoringLog, reports>>
  BY DEF SelectRows, HarnessInv, RunInv, Here
<1>2. /\ Here \in Datasets /\ db[Here].seed \in GenSeeds
      /\ proc.seed \in RunSeeds /\ proc.provider \in Providers /\ proc.drawn = 0
  BY <1>1 DEF PlayInv, ProcTypes, Running, Here
<1>3. DbTypes' /\ ProcTypes'
  <2>1. Playable(Here) \subseteq DOMAIN db[Here].rows
    <3>1. /\ DOMAIN db[Here].rows = Numbers(Here, db[Here].seed)
          /\ truth[Here].known \subseteq Numbers(Here, truth[Here].seed)
      BY <1>2 DEF PlayInv, DbTypes
    <3>2. QED
      BY <3>1 DEF Playable, Scored
  <2>2. DbTypes'
    BY <1>1 DEF PlayInv, DbTypes
  <2>3. QED
    BY <1>1, <1>2, <2>1, <2>2 DEF ProcTypes, Running, Here
<1>4. ASSUME NEW e \in Datasets
      PROVE  WholeInv(e)'
  <2>1. CASE e = Here
    <3>1. Quiet(e)
      BY <1>1, QuietIsWhole DEF PlayInv, Writing
    <3>2. SUFFICES ASSUME db[e].whole, db[e].seed # 0
                   PROVE  /\ TruthIsWhole(e)'
                          /\ Midway(e)' \/ (PlayedOut(e)' /\ proc'.todo = {})
      BY <1>1, <2>1 DEF WholeInv
    <3>3. TruthIsWhole(e) /\ (Unplayed(e) \/ PlayedOut(e))
      BY <3>1, <3>2 DEF Quiet
    <3>4. TruthIsWhole(e)'
      BY <1>1, <3>3 DEF TruthIsWhole
    <3>5. CASE Unplayed(e)
      <4>1. \A i \in DOMAIN db[e].rows : db[e].rows[i].state = "DETECTED"
        BY <3>5 DEF Unplayed, Row
      <4>2. proc'.todo = DOMAIN db[e].rows
        BY <1>1, <2>1, <3>3, <4>1, AllScored DEF Playable
      <4>3. Attempted(e, db[e].seed, proc.provider, {}) = {}
        BY DEF Attempted
      <4>4. proc'.drawn =
              Cardinality(Attempted(e, db[e].seed, proc.provider,
                                    DOMAIN db[e].rows \ proc'.todo))
        BY <1>1, <1>2, <4>2, <4>3, FS_EmptySet
      <4>5. Midway(e)'
        BY <1>1, <3>5, <4>2, <4>4 DEF Midway, Unplayed, Attempted
      <4>6. QED
        BY <3>4, <4>5
    <3>6. CASE PlayedOut(e)
      <4>1. \A i \in DOMAIN db[e].rows : db[e].rows[i].state \notin {"ABSENT", "DETECTED"}
        BY <3>6, RowOfIsPlayed DEF PlayedOut
      <4>2. proc'.todo = {}
        BY <1>1, <2>1, <3>3, <4>1, AllScored DEF Playable
      <4>3. PlayedOut(e)'
        BY <1>1, <3>6 DEF PlayedOut, RowOf
      <4>4. QED
        BY <3>4, <4>2, <4>3
    <3>7. QED
      BY <3>3, <3>5, <3>6
  <2>2. CASE e # Here
    BY <1>1, <2>2, ElsewhereKept DEF Writing, PlayInv, Here
  <2>3. QED
    BY <2>1, <2>2
<1>5. QED
  BY <1>1, <1>3, <1>4, ReportsKept, LogBoundKept DEF PlayInv

\* The next failure is the first that has not been played.
LEMMA NextIsFirst ==
  ASSUME proc.todo \subseteq Nat, proc.todo # {}
  PROVE  NextNo \in proc.todo /\ \A j \in proc.todo : NextNo <= j
<1> DEFINE R == OpToRel(<, Nat)
<1>1. IsWellFoundedOn(R, Nat)
  BY NatLessThanWellFounded, Zenon
<1>2. \A x : x \in R <=> x \in Nat \X Nat /\ x[1] < x[2]
  BY DEF OpToRel
<1> HIDE DEF R
<1>3. PICK m \in proc.todo : \A k \in proc.todo : ~(<<k, m>> \in R)
  BY <1>1, WFMin
<1>4. ASSUME NEW k \in proc.todo
      PROVE  m <= k
  <2>1. m \in Nat /\ k \in Nat
    OBVIOUS
  <2>2. k < m => <<k, m>> \in R
    BY <1>2, <2>1
  <2>3. ~(k < m)
    BY <1>3, <2>2
  <2>4. QED
    BY <2>1, <2>3
<1>5. \E i \in proc.todo : \A j \in proc.todo : i <= j
  BY <1>4
<1>6. QED
  BY <1>5 DEF NextNo

\* Playing one more failure takes one more draw, if it is attempted.
LEMMA OneMoreDrawn ==
  ASSUME NEW d \in Datasets, NEW g \in GenSeeds, NEW provider, NEW todo, NEW n \in todo,
         todo \subseteq Numbers(d, g)
  PROVE  LET before == Attempted(d, g, provider, Numbers(d, g) \ todo)
             after  == Attempted(d, g, provider, Numbers(d, g) \ (todo \ {n}))
         IN  /\ Cardinality(before) \in Nat
             /\ Cardinality(after) =
                  IF VerdictFor(CorpusOf[<<d, g>>][n], provider).decision = "ALLOW"
                    THEN Cardinality(before) + 1 ELSE Cardinality(before)
<1> DEFINE before == Attempted(d, g, provider, Numbers(d, g) \ todo)
           after  == Attempted(d, g, provider, Numbers(d, g) \ (todo \ {n}))
           allowed == VerdictFor(CorpusOf[<<d, g>>][n], provider).decision = "ALLOW"
<1>1. after = IF allowed THEN before \cup {n} ELSE before
  BY DEF Attempted
<1>2. n \notin before /\ before \in SUBSET Numbers(d, g)
  BY DEF Attempted
<1> HIDE DEF before, after, allowed
<1>3. IsFiniteSet(before) /\ Cardinality(before) \in Nat
  BY <1>2, CorpusNumbers, FS_Subset, FS_CardinalityType
<1>4. Cardinality(after) = IF allowed THEN Cardinality(before) + 1 ELSE Cardinality(before)
  BY <1>1, <1>2, <1>3, FS_AddElement
<1>5. QED
  BY <1>3, <1>4 DEF before, after, allowed

\* A run that has nothing left to play leaves a database that it, or nobody, or the run
\* before it played whole.
LEMMA PlayDone ==
  ASSUME PlayInv, proc.phase = "play", proc.todo = {}
  PROVE  Here \in Datasets /\ Quiet(Here)
<1>1. /\ Here \in Datasets /\ Me \in Players /\ Me.provider = proc.provider
  BY DEF PlayInv, ProcTypes, Running, Here, Me, Players
<1>2. SUFFICES ASSUME db[Here].whole, db[Here].seed # 0
               PROVE  TruthIsWhole(Here) /\ (Unplayed(Here) \/ PlayedOut(Here))
  BY <1>1 DEF Quiet
<1>3. TruthIsWhole(Here) /\ (Midway(Here) \/ PlayedOut(Here))
  BY <1>1, <1>2 DEF PlayInv, WholeInv, Here
<1>4. ASSUME Midway(Here)
      PROVE  Unplayed(Here) \/ PlayedOut(Here)
  <2>1. CASE DOMAIN db[Here].rows = {}
    BY <1>4, <2>1 DEF Midway, Unplayed
  <2>2. CASE DOMAIN db[Here].rows # {}
    BY <1>1, <1>4, <2>2 DEF Midway, PlayedOut
  <2>3. QED
    BY <2>1, <2>2
<1>5. QED
  BY <1>1, <1>3, <1>4

\* A run plays one more failure.
LEMMA PlayKeepsMidway ==
  ASSUME PlayInv, PlayRow, Midway(Here), NEW v,
         v = VerdictFor(NextFailure, proc.provider),
         LET row == Played(NextFailure, v, NextDraw) IN
         /\ DOMAIN db'[Here].rows = DOMAIN db[Here].rows
         /\ db'[Here].seed = db[Here].seed
         /\ \A j \in DOMAIN db[Here].rows :
              db'[Here].rows[j] = IF j = NextNo THEN row ELSE db[Here].rows[j],
         db'[Here].players = db[Here].players \cup {Me},
         proc'.todo = proc.todo \ {NextNo},
         proc'.drawn = IF v.decision = "ALLOW" THEN proc.drawn + 1 ELSE proc.drawn,
         proc'.provider = proc.provider, Me' = Me, Here' = Here
  PROVE  Midway(Here)'
<1> DEFINE d == Here
           g == db[Here].seed
           n == NextNo
           todo == proc.todo
<1>1. /\ proc.phase = "play" /\ todo # {}
      /\ d \in Datasets /\ g \in GenSeeds /\ todo \subseteq DOMAIN db[d].rows
      /\ DOMAIN db[d].rows = Numbers(d, g)
  BY DEF PlayRow, PlayInv, DbTypes, ProcTypes, Here
<1>2. Numbers(d, g) \subseteq Nat
  <2> DEFINE N == Len(CorpusOf[<<d, g>>])
  <2>1. Numbers(d, g) = 1 .. N /\ N \in Nat
    BY <1>1, CorpusNumbers
  <2> HIDE DEF N
  <2>2. QED
    BY <2>1
<1>3. n \in todo /\ \A j \in todo : n <= j
  BY <1>1, <1>2, NextIsFirst
<1>4. Numbers(d, g) \ todo = {j \in Numbers(d, g) : j < n}
  BY <1>1, <1>2, <1>3 DEF Midway
<1>5. Played(NextFailure, v, NextDraw) = RowOf(d, g, Me, n)
  <2>1. proc.drawn = Cardinality(Attempted(d, g, proc.provider, {j \in Numbers(d, g) : j < n}))
    BY <1>1, <1>4 DEF Midway
  <2>2. Me.provider = proc.provider /\ Me.seed = proc.seed
    BY DEF Me
  <2>3. QED
    BY <2>1, <2>2 DEF RowOf, NextFailure, NextDraw, FailureNo
<1>6. \A i \in proc'.todo, j \in DOMAIN db'[d].rows : j > i => j \in proc'.todo
  BY <1>1, <1>2, <1>3 DEF Midway
<1>7. db'[d].players = IF proc'.todo = DOMAIN db'[d].rows THEN {} ELSE {Me}
  BY <1>1, <1>3 DEF Midway
<1>8. \A i \in DOMAIN db'[d].rows :
        db'[d].rows[i] = IF i \in proc'.todo THEN Row("DETECTED", "none")
                         ELSE RowOf(d, g, Me, i)
  BY <1>1, <1>3, <1>5 DEF Midway
<1>9. proc'.drawn = Cardinality(Attempted(d, g, proc.provider, Numbers(d, g) \ proc'.todo))
  <2>1. proc.drawn = Cardinality(Attempted(d, g, proc.provider, Numbers(d, g) \ todo))
    BY <1>1 DEF Midway
  <2>2. v = VerdictFor(CorpusOf[<<d, g>>][n], proc.provider)
    BY DEF NextFailure, FailureNo
  <2>3. QED
    BY <1>1, <1>3, <2>1, <2>2, OneMoreDrawn
<1>10. QED
  BY <1>1, <1>6, <1>7, <1>8, <1>9, ZenonT(30) DEF Midway

LEMMA PlayRowKeepsPlay ==
  ASSUME PlayInv, HarnessInv, PlayRow
  PROVE  PlayInv'
<1>0. PICK v \in NextVerdicts :
        /\ PutRow(Played(NextFailure, v, NextDraw))
        /\ proc' = [proc EXCEPT !.todo = @ \ {NextNo},
                      !.drawn = IF v.decision = "ALLOW" THEN @ + 1 ELSE @]
  BY DEF PlayRow
<1> DEFINE row == Played(NextFailure, v, NextDraw)
           rows == [db[Here].rows EXCEPT ![NextNo] = row]
           players == db[Here].players \cup {Me}
           whole == db[Here].whole /\ proc.provider \in Fixtures
<1>1. /\ proc.phase = "play" /\ proc.todo # {} /\ UNCHANGED <<truth, scoringLog, reports>>
      /\ proc'.phase = "play" /\ proc'.dataset = Here /\ proc'.seed = proc.seed
      /\ proc'.provider = proc.provider /\ proc'.todo = proc.todo \ {NextNo}
      /\ proc'.drawn = IF v.decision = "ALLOW" THEN proc.drawn + 1 ELSE proc.drawn
  BY <1>0 DEF PlayRow, HarnessInv, RunInv, Here
<1>2. /\ Here \in Datasets /\ Me \in Players /\ Me' = Me /\ Here' = Here /\ DbTypes
      /\ proc.todo \subseteq DOMAIN db[Here].rows /\ db[Here].seed \in GenSeeds
  BY <1>1 DEF PlayInv, ProcTypes, Running, Here, Me, Players
<1>3. db' = [db EXCEPT ![Here] = [seed |-> db[Here].seed, rows |-> rows, players |-> players,
                                  whole |-> whole]]
  <2>1. PutRow(row)
    BY <1>0
  <2> HIDE DEF row
  <2>2. QED
    BY <1>2, <2>1, PlayerPut
<1>4. row \in RowType /\ players \in SUBSET Players /\ whole \in BOOLEAN
  BY <1>2, PlayedIsRow, DbAtHand
<1> HIDE DEF row, players, whole
<1>5. /\ db' \in [Datasets -> Db]
      /\ db'[Here].seed = db[Here].seed /\ db'[Here].players = players
      /\ db'[Here].whole = whole /\ DOMAIN db'[Here].rows = DOMAIN db[Here].rows
      /\ \A j \in DOMAIN db[Here].rows :
           db'[Here].rows[j] = IF j = NextNo THEN row ELSE db[Here].rows[j]
      /\ \A e \in Datasets : e # Here => db'[e] = db[e]
      /\ \A e \in Datasets : DOMAIN db'[e].rows = Numbers(e, db'[e].seed)
  BY <1>2, <1>3, <1>4, DbRowWritten
<1>6. DbTypes' /\ ProcTypes'
  <2>1. DbTypes'
    BY <1>1, <1>5 DEF PlayInv, DbTypes
  <2>2. proc.seed \in RunSeeds /\ proc.provider \in Providers
    BY <1>1 DEF PlayInv, ProcTypes, Running
  <2>3. QED
    BY <1>1, <1>2, <1>5, <2>1, <2>2 DEF ProcTypes, Running
<1>7. ASSUME NEW e \in Datasets
      PROVE  WholeInv(e)'
  <2>1. CASE e = Here
    <3>1. SUFFICES ASSUME db[Here].whole, proc.provider \in Fixtures, db[Here].seed # 0
                   PROVE  TruthIsWhole(Here)' /\ Midway(Here)'
      BY <1>1, <1>2, <1>5, <2>1 DEF WholeInv, whole
    <3>2. TruthIsWhole(Here) /\ Midway(Here)
      BY <1>1, <1>2, <3>1 DEF PlayInv, WholeInv, Here
    <3>3. TruthIsWhole(Here)'
      BY <1>1, <1>2, <1>5, <3>2 DEF TruthIsWhole
    <3>4. Midway(Here)'
      <4>1. v = VerdictFor(NextFailure, proc.provider)
        BY <1>0, <3>1 DEF NextVerdicts, ProposalsFor, VerdictFor, Fixtures, Models
      <4>2. QED
        BY <1>1, <1>2, <1>5, <3>2, <4>1, PlayKeepsMidway DEF row, players
    <3>5. QED
      BY <3>3, <3>4
  <2>2. CASE e # Here
    BY <1>1, <1>2, <1>5, <2>2, ElsewhereKept DEF Writing, PlayInv, Here
  <2>3. QED
    BY <2>1, <2>2
<1>8. QED
  BY <1>1, <1>6, <1>7, ReportsKept, LogBoundKept DEF PlayInv

\* The report of a database that is whole is the one of its seeds and player.
LEMMA PublishIsReproducible ==
  ASSUME PlayInv, proc.phase = "play", proc.todo = {}, db[Here].whole
  PROVE  \/ db[Here].players = {} /\ Outcomes(Here, proc.seed) = [i \in {} |-> i]
         \/ \E pl \in Players :
              /\ db[Here].players = {pl}
              /\ Outcomes(Here, proc.seed) = OutcomesOf(Here, db[Here].seed, proc.seed, pl)
<1>1. /\ Here \in Datasets /\ db[Here].seed # 0 /\ Quiet(Here)
      /\ DOMAIN db[Here].rows = Numbers(Here, db[Here].seed)
  BY PlayDone, ScoringAssumption DEF PlayInv, ProcTypes, DbTypes, Here
<1>2. TruthIsWhole(Here) /\ (Unplayed(Here) \/ PlayedOut(Here))
  BY <1>1 DEF Quiet
<1>3. ASSUME NEW pl \in Players, db[Here].players = {pl},
             \A i \in DOMAIN db[Here].rows : db[Here].rows[i] = RowOf(Here, db[Here].seed, pl, i)
      PROVE  Outcomes(Here, proc.seed) = OutcomesOf(Here, db[Here].seed, proc.seed, pl)
  <2>1. Scored(Here) = Numbers(Here, db[Here].seed)
    BY <1>1, <1>2, <1>3, AllScored, RowOfIsPlayed
  <2>2. \A i \in Numbers(Here, db[Here].seed) :
          db[Here].rows[i] = RowOf(Here, db[Here].seed, pl, i)
    BY <1>1, <1>3
  <2>3. QED
    BY <2>1, <2>2 DEF Outcomes, OutcomesOf, OrganicRecovered, FailureNo
<1>4. CASE PlayedOut(Here)
  BY <1>3, <1>4 DEF PlayedOut
<1>5. CASE Unplayed(Here)
  <2>1. Scored(Here) = DOMAIN db[Here].rows
    BY <1>1, <1>2, <1>5, AllScored DEF Unplayed, Row
  <2>2. Midway(Here) \/ PlayedOut(Here)
    BY <1>1 DEF PlayInv, WholeInv, Here
  <2>3. ASSUME Midway(Here)
        PROVE  DOMAIN db[Here].rows = {}
    BY <1>5, <2>3, RowOfIsPlayed DEF Midway, Unplayed, Row
  <2>4. ASSUME Midway(Here)
        PROVE  Outcomes(Here, proc.seed) = [i \in {} |-> i]
    BY <2>1, <2>3, <2>4 DEF Outcomes
  <2>5. QED
    BY <1>4, <1>5, <2>2, <2>4 DEF Unplayed
<1>6. QED
  BY <1>2, <1>4, <1>5

LEMMA PublishKeepsPlay ==
  ASSUME PlayInv, HarnessInv, Publish
  PROVE  PlayInv'
<1> DEFINE q == [dataset |-> Here, generator |-> db[Here].seed, seed |-> proc.seed,
                 rescore |-> proc.rescore, times |-> proc.times,
                 outcomes |-> Outcomes(Here, proc.seed),
                 players |-> db[Here].players, whole |-> db[Here].whole]
<1>1. /\ proc.phase = "play" /\ proc.todo = {} /\ proc'.phase = "idle"
      /\ reports' = reports \cup {q} /\ UNCHANGED <<db, truth, scoringLog>>
  BY DEF Publish, Idle
<1>2. /\ q.dataset = Here /\ q.generator = db[Here].seed /\ q.seed = proc.seed
      /\ q.times = proc.times /\ q.outcomes = Outcomes(Here, proc.seed)
      /\ q.players = db[Here].players /\ q.whole = db[Here].whole
  OBVIOUS
<1> HIDE DEF q
<1>3. Reproducible(q)
  BY <1>1, <1>2, PublishIsReproducible DEF Reproducible
<1>4. \A r \in reports' : Reproducible(r)'
  <2>1. \A r \in reports' : Reproducible(r)
    BY <1>1, <1>3 DEF PlayInv
  <2>2. QED
    BY <2>1 DEF Reproducible
<1>5. LogBound'
  <2> DEFINE log == scoringLog[Here.corpus]
  <2>1. Here \in Datasets /\ proc.times = Len(log) /\ proc.times \in DOMAIN log
    BY <1>1 DEF HarnessInv, RunInv, Running, Here
  <2>2. log \in Seq(Line) /\ Len(log) <= MaxScorings
    BY <2>1, CorpusOfDataset DEF HarnessInv, LogInv, PlayInv, LogBound
  <2> HIDE DEF log
  <2>3. proc.times \in 1 .. MaxScorings
    BY <2>1, <2>2, ScoringAssumption
  <2>4. QED
    BY <1>1, <1>2, <2>3 DEF PlayInv, LogBound
<1>6. DbTypes' /\ ProcTypes'
  BY <1>1 DEF PlayInv, DbTypes, ProcTypes, Running
<1>7. ASSUME NEW e \in Datasets
      PROVE  WholeInv(e)'
  <2>1. Quiet(e)
    BY <1>1, PlayDone, QuietIsWhole DEF PlayInv, Writing, Here
  <2>2. QED
    BY <1>1, <2>1, QuietKept, QuietIsWholeNext DEF Writing
<1>8. QED
  BY <1>4, <1>5, <1>6, <1>7 DEF PlayInv

\* A command dies while it writes: the database it was writing is not whole any more.
LEMMA DeathLeavesPart ==
  ASSUME PlayInv, proc.phase \in {"ingest", "play"}, proc' = Idle,
         UNCHANGED <<scoringLog, reports>>, DbTypes', db'[Here].whole = FALSE,
         \A e \in Datasets : e # Here => db'[e] = db[e] /\ truth'[e] = truth[e]
  PROVE  PlayInv'
<1>1. proc'.phase = "idle"
  BY DEF Idle
<1>2. ProcTypes'
  BY <1>1 DEF ProcTypes, Running
<1>3. ASSUME NEW e \in Datasets
      PROVE  WholeInv(e)'
  <2>1. CASE e = Here
    BY <2>1 DEF WholeInv
  <2>2. CASE e # Here
    BY <1>1, <2>2, ElsewhereKept DEF Writing, PlayInv, Here
  <2>3. QED
    BY <2>1, <2>2
<1>4. QED
  BY <1>2, <1>3, ReportsKept, LogBoundKept DEF PlayInv

LEMMA DieKeepsPlay ==
  ASSUME PlayInv, Die
  PROVE  PlayInv'
<1>1. /\ proc' = Idle /\ proc'.phase = "idle" /\ UNCHANGED <<scoringLog, reports>>
      /\ proc.phase # "idle"
  BY DEF Die, Idle
<1>2. Here \in Datasets /\ DbTypes
  BY <1>1 DEF PlayInv, ProcTypes, Here
<1>3. CASE UNCHANGED <<db, truth>> /\ (proc.phase \in {"recorded", "alias"} \/ (proc.phase = "play" /\ proc.todo = {}))
  <2>1. DbTypes' /\ ProcTypes'
    BY <1>1, <1>3 DEF PlayInv, DbTypes, ProcTypes, Running
  <2>2. ASSUME NEW e \in Datasets
        PROVE  WholeInv(e)'
    <3>1. Quiet(e)
      BY <1>1, <1>3, PlayDone, QuietIsWhole DEF PlayInv, Writing, Here
    <3>2. QED
      BY <1>1, <1>3, <3>1, QuietKept, QuietIsWholeNext DEF Writing
  <2>3. QED
    BY <1>1, <2>1, <2>2, ReportsKept, LogBoundKept DEF PlayInv
<1>4. ASSUME proc.phase = "play", proc.todo # {}, UNCHANGED truth,
             NEW row \in {db[Here].rows[NextNo]} \cup
                         UNION {HalfPlayed(NextFailure, v, NextDraw) : v \in NextVerdicts},
             db' = [db EXCEPT ![Here].rows[NextNo] = row, ![Here].whole = FALSE]
      PROVE  PlayInv'
  <2>1. row \in RowType
    <3>1. /\ proc.todo \subseteq DOMAIN db[Here].rows /\ db[Here].rows \in Seq(RowType)
          /\ db[Here].seed \in GenSeeds /\ DOMAIN db[Here].rows = Numbers(Here, db[Here].seed)
      BY <1>2, <1>4, DbAtHand DEF PlayInv, ProcTypes, Here
    <3>2. proc.todo \subseteq Nat
      BY <3>1
    <3>3. db[Here].rows[NextNo] \in RowType
      BY <1>4, <3>1, <3>2, NextIsFirst
    <3>4. QED
      BY <3>3, PlayedIsRow
  <2>4. db' = [db EXCEPT ![Here] =
                 [seed |-> db[Here].seed, rows |-> [db[Here].rows EXCEPT ![NextNo] = row],
                  players |-> db[Here].players, whole |-> FALSE]]
    BY <1>2, <1>4, DeathPut, ZenonT(30)
  <2>5. /\ db' \in [Datasets -> Db] /\ db'[Here].whole = FALSE
        /\ \A e \in Datasets : e # Here => db'[e] = db[e]
        /\ \A e \in Datasets : DOMAIN db'[e].rows = Numbers(e, db'[e].seed)
    BY <1>2, <2>1, <2>4, DbAtHand, DbRowWritten
  <2>6. DbTypes'
    BY <1>2, <1>4, <2>5 DEF DbTypes
  <2>7. QED
    BY <1>1, <1>4, <2>5, <2>6, DeathLeavesPart
<1>5. ASSUME proc.phase = "ingest", db' = [db EXCEPT ![Here].whole = FALSE],
             \/ UNCHANGED truth
             \/ \E known \in SUBSET DOMAIN db[Here].rows, torn \in BOOLEAN :
                  WriteTruth(known, torn)
      PROVE  PlayInv'
  <2> DEFINE new == [seed |-> db[Here].seed, rows |-> db[Here].rows,
                     players |-> db[Here].players, whole |-> FALSE]
  <2>1. db[Here] = [seed |-> db[Here].seed, rows |-> db[Here].rows,
                    players |-> db[Here].players, whole |-> db[Here].whole]
    BY <1>2, DbAtHand
  <2>2. [db[Here] EXCEPT !.whole = FALSE] = new
    <3>1. \A w : [db[Here] EXCEPT !.whole = w] =
                   [seed |-> db[Here].seed, rows |-> db[Here].rows,
                    players |-> db[Here].players, whole |-> w]
      BY <2>1
    <3>2. QED
      BY <3>1, Zenon
  <2>3. /\ new \in Db /\ new.whole = FALSE /\ DOMAIN new.rows = Numbers(Here, new.seed)
    BY <1>2, DbAtHand DEF Db
  <2>4. db' = [db EXCEPT ![Here] = new]
    BY <1>2, <1>5, <2>2 DEF DbTypes
  <2> HIDE DEF new
  <2>5. /\ db' \in [Datasets -> Db] /\ db'[Here].whole = FALSE
        /\ \A e \in Datasets : e # Here => db'[e] = db[e]
        /\ \A e \in Datasets : DOMAIN db'[e].rows = Numbers(e, db'[e].seed)
    BY <1>2, <2>3, <2>4, DbReplaced
  <2>6. DbTypes' /\ \A e \in Datasets : e # Here => truth'[e] = truth[e]
    <3>1. CASE UNCHANGED truth
      BY <1>2, <2>5, <3>1 DEF DbTypes
    <3>2. CASE \E known \in SUBSET DOMAIN db[Here].rows, torn \in BOOLEAN :
                 WriteTruth(known, torn)
      BY <1>2, <2>5, <3>2, TruthWritten
    <3>3. QED
      BY <1>5, <3>1, <3>2
  <2>7. QED
    BY <1>1, <1>5, <2>5, <2>6, DeathLeavesPart
<1>6. QED
  BY <1>3, <1>4, <1>5 DEF Die

\* Every step of the harness preserves the invariant about databases and reports.
LEMMA PlayInvStep ==
  ASSUME PlayInv, HarnessInv, [ScoringNext]_scoringVars
  PROVE  PlayInv'
<1>1. CASE UNCHANGED scoringVars
  <2>1. UNCHANGED <<db, truth, scoringLog, proc, reports>>
    BY <1>1 DEF scoringVars
  <2>2. DbTypes' /\ ProcTypes'
    BY <2>1 DEF PlayInv, DbTypes, ProcTypes, Running
  <2>3. ASSUME NEW e \in Datasets
        PROVE  WholeInv(e)'
    <3>1. WholeInv(e) /\ Me' = Me
      BY <2>1 DEF PlayInv, Me
    <3>2. (Unplayed(e)' <=> Unplayed(e)) /\ (TruthIsWhole(e)' <=> TruthIsWhole(e))
      BY <2>1 DEF Unplayed, TruthIsWhole
    <3>3. PlayedOut(e)' <=> PlayedOut(e)
      BY <2>1 DEF PlayedOut
    <3>4. Midway(e)' <=> Midway(e)
      BY <2>1, <3>1 DEF Midway
    <3>5. QED
      BY <2>1, <3>1, <3>2, <3>3, <3>4 DEF WholeInv
  <2>4. QED
    BY <2>1, <2>2, <2>3, ReportsKept, LogBoundKept DEF PlayInv
<1>2. CASE ScoringNext
  <2>1. ASSUME NEW d \in Datasets, NEW g \in GenSeeds, ResetDb(d, g)
        PROVE  PlayInv'
    BY <2>1, ResetKeepsPlay DEF ResetDb
  <2>2. ASSUME NEW i, IngestFailure(i)
        PROVE  PlayInv'
    BY <2>2, IngestKeepsPlay
  <2>3. ASSUME NEW d \in Datasets, NEW s \in RunSeeds, NEW p \in Providers,
               NEW r \in BOOLEAN, Begin(d, s, p, r)
        PROVE  PlayInv'
    BY <2>3, BeginKeepsPlay
  <2>4. ASSUME NEW a \in Datasets, ResetAlias(a)
        PROVE  PlayInv'
    <3>1. /\ proc.phase = "alias" /\ EmptyDb(a, db[Here].seed)
          /\ UNCHANGED <<truth, scoringLog, reports>>
      BY <2>4 DEF ResetAlias
    <3>2. db[Here].seed \in GenSeeds
      BY <3>1 DEF PlayInv, ProcTypes, Here
    <3>3. QED
      BY <3>1, <3>2, ResetKeepsPlay
  <2>5. QED
    BY <1>2, <2>1, <2>2, <2>3, <2>4, FinishKeepsPlay, MissKeyKeepsPlay, SelectKeepsPlay,
       PlayRowKeepsPlay, PublishKeepsPlay, DieKeepsPlay DEF ScoringNext
<1>3. QED
  BY <1>1, <1>2

----------------------------------------------------------------------------
(* Theorems *)

\* The inductive invariant holds in every reachable state.
THEOREM HarnessInvariant == ScoringSpec => []HarnessInv
<1>1. ScoringInit => HarnessInv
  BY HarnessInvInit
<1>2. HarnessInv /\ [ScoringNext]_scoringVars => HarnessInv'
  BY HarnessInvStep
<1>3. QED
  BY <1>1, <1>2, PTL DEF ScoringSpec

\* At most one scoring of the sealed corpus was not declared a rescoring, however many
\* runs, generations and crashes there are.
THEOREM SealedOnce == ScoringSpec => []SealedScoredOnce
<1>1. HarnessInv => SealedScoredOnce
  BY DEF HarnessInv, LogInv, SealedScoredOnce
<1>2. QED
  BY <1>1, HarnessInvariant, PTL

\* The published number of scorings is the place of the report's own run in the log.
THEOREM HonestTimes == ScoringSpec => []TimesScoredIsHonest
<1>1. HarnessInv => TimesScoredIsHonest
  BY DEF HarnessInv, Numbered, TimesScoredIsHonest
<1>2. QED
  BY <1>1, HarnessInvariant, PTL

\* The counterfactual of a failure is the same in all reports with the same seeds,
\* whatever provider they are of and whatever they did to the other failures.
THEOREM FixedCounterfactual == ScoringSpec => []CounterfactualIsFixed
<1>1. HarnessInv => CounterfactualIsFixed
  <2>1. SUFFICES ASSUME HarnessInv, NEW r \in reports, NEW q \in reports,
                        r.dataset = q.dataset, r.generator = q.generator, r.seed = q.seed,
                        NEW i \in DOMAIN r.outcomes \cap DOMAIN q.outcomes,
                        r.outcomes[i].source = "organic", q.outcomes[i].source = "organic"
                 PROVE  r.outcomes[i] = q.outcomes[i]
    BY DEF CounterfactualIsFixed
  <2>2. Counterfactual(r) /\ Counterfactual(q)
    BY <2>1 DEF HarnessInv
  <2>3. QED
    BY <2>1, <2>2 DEF Counterfactual
<1>2. QED
  BY <1>1, HarnessInvariant, PTL

\* On a database that no command died on, at most one run has played the rows, in the
\* order of their numbers, and has left every row and taken every draw as that order
\* says; a report of it depends on its seeds and on who played it, on nothing else.
THEOREM PlayInvariant == ScoringSpec => [](HarnessInv /\ PlayInv)
<1>1. ScoringInit => HarnessInv /\ PlayInv
  BY HarnessInvInit, PlayInvInit
<1>2. HarnessInv /\ PlayInv /\ [ScoringNext]_scoringVars => (HarnessInv /\ PlayInv)'
  BY HarnessInvStep, PlayInvStep
<1>3. QED
  BY <1>1, <1>2, PTL DEF ScoringSpec

\* Databases, ground truths, logs and reports have their types: a ground truth knows
\* failures of its corpus only.
THEOREM ScoringTypes == ScoringSpec => []ScoringTypeOK
<1>1. HarnessInv /\ PlayInv => ScoringTypeOK
  <2>1. SUFFICES ASSUME HarnessInv, PlayInv
                 PROVE  ScoringTypeOK
    OBVIOUS
  <2>2. ASSUME NEW d \in Datasets
        PROVE  /\ db[d].seed \in GenSeeds \cup {0} /\ truth[d].seed \in GenSeeds \cup {0}
               /\ db[d].rows \in Seq(RowType)
               /\ truth[d].known \subseteq
                    (IF truth[d].seed = 0 THEN {} ELSE DOMAIN CorpusOf[<<d, truth[d].seed>>])
    BY <2>1, DbAtHand DEF PlayInv, DbTypes, Numbers
  <2>3. \A c \in Corpora :
          scoringLog[c] \in Seq([dataset : Datasets, seed : RunSeeds,
                                 provider : Providers, rescore : BOOLEAN])
    BY <2>1 DEF HarnessInv, LogInv, Line
  <2>4. QED
    BY <2>1, <2>2, <2>3 DEF ScoringTypeOK, PlayInv, ProcTypes, LogBound
<1>2. QED
  BY <1>1, PlayInvariant, PTL

\* The same seeds and player give the same numbers, however often the corpus was
\* generated, scored, and left by runs that died on other databases.
THEOREM RunsReproduce == ScoringSpec => []ReportsReproduce
<1>1. PlayInv => ReportsReproduce
  <2>1. SUFFICES ASSUME PlayInv, NEW r \in reports, NEW q \in reports,
                        r.dataset = q.dataset, r.generator = q.generator, r.seed = q.seed,
                        r.players = q.players, r.whole, q.whole
                 PROVE  r.outcomes = q.outcomes
    BY DEF ReportsReproduce
  <2>2. Reproducible(r) /\ Reproducible(q)
    BY <2>1 DEF PlayInv
  <2>3. CASE r.players = {}
    BY <2>1, <2>2, <2>3 DEF Reproducible
  <2>4. ASSUME NEW pl \in Players, r.players = {pl}
        PROVE  r.outcomes = q.outcomes
    BY <2>1, <2>2, <2>4 DEF Reproducible
  <2>5. QED
    BY <2>1, <2>2, <2>3, <2>4 DEF Reproducible
<1>2. QED
  BY <1>1, PlayInvariant, PTL
=============================================================================
