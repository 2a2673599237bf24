------------------------ MODULE DowntimeGate_proofs ------------------------
(***************************************************************************)
(* What the gate does with confidence and with downtime, for any windows,    *)
(* times, proposals, case views and caps.  The gates that deny are asked     *)
(* before the one that looks at confidence, and timing comes after them all. *)
(***************************************************************************)
EXTENDS DowntimeGate, Policy_proofs, SequenceTheorems, WellFoundedInduction

\* A set of natural numbers has a least element.
LEMMA LeastExists ==
  ASSUME NEW S \in SUBSET Nat, S # {}
  PROVE  \E m \in S : \A k \in S : m <= k
<1> DEFINE R == OpToRel(<, Nat)
<1>1. IsWellFoundedOn(R, Nat)
  BY NatLessThanWellFounded, Zenon
<1>2. \A x : x \in R <=> x \in Nat \X Nat /\ x[1] < x[2]
  BY DEF OpToRel
<1> HIDE DEF R
<1>3. PICK m \in S : \A k \in S : ~(<<k, m>> \in R)
  BY <1>1, WFMin
<1>4. \A k \in S : m <= k
  <2>1. ASSUME NEW k \in S
        PROVE  m <= k
    <3>1. ~(k < m)
      BY <1>2, <1>3
    <3>2. QED
      BY <3>1
  <2>2. QED
    BY <2>1
<1>5. QED
  BY <1>4

\* The decision in terms of the gates that fire: one of the first nine denies.
LEMMA DecisionIs ==
  ASSUME NEW p, NEW v, NEW h
  PROVE  LET denied == \E i \in 1 .. 9 : Fires(GateOrder[i], p, v, h)
             unsure == Fires("CONFIDENCE_FLOOR", p, v, h)
         IN  /\ DecisionOf(p, v, h) = "DENY" <=> denied
             /\ DecisionOf(p, v, h) = "REVIEW" <=> ~denied /\ unsure
             /\ DecisionOf(p, v, h) = "ALLOW" <=> ~denied /\ ~unsure
<1> DEFINE F == Firing(p, v, h)
<1>1. /\ F \subseteq 1 .. 10
      /\ \A i \in 1 .. 10 : i \in F <=> Fires(GateOrder[i], p, v, h)
  BY DEF Firing, GateOrder
<1>2. /\ GateOrder[10] = "CONFIDENCE_FLOOR"
      /\ \A i \in 1 .. 9 : GateOrder[i] # "CONFIDENCE_FLOOR"
  <2>1. ASSUME NEW i \in 1 .. 9
        PROVE  GateOrder[i] # "CONFIDENCE_FLOOR"
    BY DEF GateOrder
  <2>2. GateOrder[10] = "CONFIDENCE_FLOOR"
    BY DEF GateOrder
  <2>3. QED
    BY <2>1, <2>2
<1> HIDE DEF F
<1>3. CASE F = {}
  <2>1. DecisionOf(p, v, h) = "ALLOW"
    <3>1. Firing(p, v, h) = {}
      BY <1>3 DEF F
    <3>2. QED
      BY <3>1 DEF DecisionOf, DecidingGate
  <2>2. ~Fires(GateOrder[10], p, v, h) /\ \A i \in 1 .. 9 : ~Fires(GateOrder[i], p, v, h)
    BY <1>1, <1>3
  <2>3. QED
    BY <1>2, <2>1, <2>2
<1>4. CASE F # {}
  <2> DEFINE first == CHOOSE i \in F : \A j \in F : i <= j
  <2>1. first \in F /\ \A j \in F : first <= j
    <3>1. F \in SUBSET Nat
      BY <1>1
    <3>2. \E i \in F : \A j \in F : i <= j
      BY <1>4, <3>1, LeastExists
    <3>3. QED
      BY <3>2
  <2> HIDE DEF first
  <2>2. DecidingGate(p, v, h) = GateOrder[first]
    BY <1>4 DEF DecidingGate, F, first
  <2>3. first \in 1 .. 10 /\ (first = 10 <=> ~\E i \in 1 .. 9 : i \in F)
    BY <1>1, <2>1
  <2>4. GateOrder[first] = "CONFIDENCE_FLOOR" <=> first = 10
    BY <1>2, <2>3
  <2>5. DecisionOf(p, v, h) = IF first = 10 THEN "REVIEW" ELSE "DENY"
    BY <1>4, <2>2, <2>4 DEF DecisionOf, F
  <2>6. (\E i \in 1 .. 9 : Fires(GateOrder[i], p, v, h)) <=> first # 10
    BY <1>1, <2>3
  <2>7. first = 10 => Fires("CONFIDENCE_FLOOR", p, v, h)
    BY <1>1, <1>2, <2>1
  <2>8. QED
    BY <2>5, <2>6, <2>7
<1>5. QED
  BY <1>3, <1>4

\* No gate but the last looks at confidence.
LEMMA GatesAreBlind ==
  ASSUME NEW p \in Proposals, NEW k, NEW v, NEW h, NEW i \in 1 .. 9
  PROVE  Fires(GateOrder[i], p, v, h) <=> Fires(GateOrder[i], [p EXCEPT !.confidence = k], v, h)
<1> DEFINE q == [p EXCEPT !.confidence = k]
<1>1. q.class = p.class /\ q.action = p.action
  BY GateAssumption
<1>2. GateOrder[i] # "CONFIDENCE_FLOOR"
  BY DEF GateOrder
<1> HIDE DEF q
<1>3. Fires(GateOrder[i], p, v, h) <=> Fires(GateOrder[i], q, v, h)
  BY <1>1, <1>2 DEF Fires, GateOrder
<1>4. QED
  BY <1>3 DEF q

\* In every state, more confidence changes ALLOW into REVIEW or back, nothing else.
LEMMA ConfidenceFact == ConfidenceOnlyAsksAHuman
<1>1. SUFFICES ASSUME NEW p \in Proposals, NEW k \in {q.confidence : q \in Proposals}
               PROVE  LET d == VerdictOn(p).decision
                          e == VerdictOn([p EXCEPT !.confidence = k]).decision
                      IN  /\ d = "DENY" <=> e = "DENY"
                          /\ d # "DENY" => (e = "ALLOW" <=> k >= MinConfidence)
  BY DEF ConfidenceOnlyAsksAHuman
<1> DEFINE q == [p EXCEPT !.confidence = k]
           v == request.view
           h == request.halted
<1>2. k \in 0 .. 100 /\ q.confidence = k
  BY GateAssumption
<1>3. /\ VerdictOn(p).decision = DecisionOf(p, v, h)
      /\ VerdictOn(q).decision = DecisionOf(q, v, h)
  BY DEF VerdictOn, Evaluate
<1>4. \A i \in 1 .. 9 : Fires(GateOrder[i], p, v, h) <=> Fires(GateOrder[i], q, v, h)
  BY GatesAreBlind
<1>5. Fires("CONFIDENCE_FLOOR", q, v, h) <=> ~(k >= MinConfidence)
  BY <1>2 DEF Fires, MinConfidence
<1> HIDE DEF q, v, h
<1>6. /\ DecisionOf(p, v, h) = "DENY" <=> DecisionOf(q, v, h) = "DENY"
      /\ DecisionOf(p, v, h) # "DENY" => (DecisionOf(q, v, h) = "ALLOW" <=> k >= MinConfidence)
  BY <1>4, <1>5, DecisionIs
<1>7. QED
  BY <1>3, <1>6 DEF q

\* The delay that is asked for, clamped.
LEMMA DelayIsBounded ==
  ASSUME NEW p \in Proposals
  PROVE  DelayOf(p) \in Int /\ MinDelay <= DelayOf(p) /\ DelayOf(p) <= MaxDelay
<1>1. p.delay \in Int
  BY GateAssumption
<1>2. QED
  BY <1>1 DEF DelayOf, MinDelay, MaxDelay

\* When an allowed action runs, for any downtime whose end is a time or unknown.
LEMMA ScheduleOf ==
  ASSUME NEW p \in Proposals, NEW t \in Nat, NEW ctx, ctx.end \in Int
  PROVE  /\ ExecuteAt(p, t, ctx) >= t + MinDelay
         /\ ExecuteAt(p, t, ctx) <= t + MaxDelay \/ ExecuteAt(p, t, ctx) = Candidate(t, ctx)
         /\ ExecuteAt(p, t, ctx) >= t + DelayOf(p)
         /\ Defers(p, t, ctx) <=> ExecuteAt(p, t, ctx) > t + DelayOf(p)
         /\ ctx.active /\ ctx.end # NoTime => ExecuteAt(p, t, ctx) > ctx.end
<1>1. /\ DelayOf(p) \in Int /\ MinDelay <= DelayOf(p) /\ DelayOf(p) <= MaxDelay
      /\ Candidate(t, ctx) \in Int
  BY DelayIsBounded DEF Candidate, UnknownEndBackoff, Jitter, MinDelay, MaxDelay
<1>2. ctx.end # NoTime => Candidate(t, ctx) > ctx.end
  BY DEF Candidate, Jitter
<1>3. CASE Defers(p, t, ctx)
  <2>1. ExecuteAt(p, t, ctx) = Candidate(t, ctx) /\ Candidate(t, ctx) > t + DelayOf(p)
    BY <1>3 DEF ExecuteAt, Defers
  <2>2. QED
    BY <1>1, <1>2, <1>3, <2>1 DEF MinDelay
<1>4. CASE ~Defers(p, t, ctx)
  <2>1. ExecuteAt(p, t, ctx) = t + DelayOf(p)
    BY <1>4 DEF ExecuteAt
  <2>2. ctx.active => ~(Candidate(t, ctx) > t + DelayOf(p))
    BY <1>4 DEF Defers
  <2>3. t + DelayOf(p) >= t + MinDelay /\ t + DelayOf(p) <= t + MaxDelay
    BY <1>1 DEF MinDelay, MaxDelay
  <2>4. ctx.active /\ ctx.end # NoTime => t + DelayOf(p) > ctx.end
    <3>1. SUFFICES ASSUME ctx.active, ctx.end # NoTime
                   PROVE  t + DelayOf(p) > ctx.end
      OBVIOUS
    <3>2. ~(Candidate(t, ctx) > t + DelayOf(p)) /\ Candidate(t, ctx) > ctx.end
      BY <1>2, <2>2, <3>1
    <3>3. QED
      BY <1>1, <3>2
  <2>5. QED
    BY <1>1, <1>4, <2>1, <2>3, <2>4
<1>5. QED
  BY <1>3, <1>4
----------------------------------------------------------------------------
(* The table of windows *)

\* The rows are windows of the feed, each id has one, and the clock shows a time.
TableInv ==
  /\ windows \in Seq(WindowFeed)
  /\ now \in Times
  /\ \A i, j \in DOMAIN windows : windows[i].id = windows[j].id => i = j

\* A sequence without its i-th element.
LEMMA WithoutOne ==
  ASSUME NEW S, NEW s \in Seq(S), NEW i \in 1 .. Len(s)
  PROVE  LET t == SubSeq(s, 1, i - 1) \o SubSeq(s, i + 1, Len(s))
         IN  /\ t \in Seq(S) /\ Len(t) = Len(s) - 1
             /\ \A j \in 1 .. Len(s) - 1 : t[j] = s[IF j < i THEN j ELSE j + 1]
<1> DEFINE before == SubSeq(s, 1, i - 1)
           after == SubSeq(s, i + 1, Len(s))
           t == before \o after
<1>1. Len(s) \in Nat
  OBVIOUS
<1>2. /\ before \in Seq(S) /\ Len(before) = i - 1
      /\ \A j \in 1 .. i - 1 : before[j] = s[j]
  BY <1>1
<1>3. /\ after \in Seq(S) /\ Len(after) = Len(s) - i
      /\ \A j \in 1 .. Len(s) - i : after[j] = s[i + j]
  BY <1>1
<1> HIDE DEF before, after
<1>4. /\ t \in Seq(S) /\ Len(t) = Len(before) + Len(after)
      /\ \A k \in 1 .. Len(before) + Len(after) :
           t[k] = IF k <= Len(before) THEN before[k] ELSE after[k - Len(before)]
  BY <1>2, <1>3, ConcatProperties
<1> HIDE DEF t
<1>5. ASSUME NEW j \in 1 .. Len(s) - 1
      PROVE  t[j] = s[IF j < i THEN j ELSE j + 1]
  <2>1. t[j] = IF j <= i - 1 THEN before[j] ELSE after[j - (i - 1)]
    BY <1>1, <1>2, <1>3, <1>4
  <2>2. CASE j < i
    BY <1>1, <1>2, <2>1, <2>2
  <2>3. CASE ~(j < i)
    <3>1. j - (i - 1) \in 1 .. Len(s) - i /\ i + (j - (i - 1)) = j + 1 /\ ~(j <= i - 1)
      BY <1>1, <2>3
    <3>2. after[j - (i - 1)] = s[j + 1]
      BY <1>3, <3>1
    <3>3. QED
      BY <2>1, <2>3, <3>1, <3>2
  <2>4. QED
    BY <2>2, <2>3
<1>6. t \in Seq(S) /\ Len(t) = Len(s) - 1
  BY <1>1, <1>2, <1>3, <1>4
<1>7. QED
  BY <1>5, <1>6 DEF t, before, after

\* add() leaves one row of each id, and only drops a row with the id of the new one.
LEMMA AddedKeepsKeys ==
  ASSUME NEW s \in Seq(WindowFeed), NEW w \in WindowFeed,
         \A i, j \in DOMAIN s : s[i].id = s[j].id => i = j
  PROVE  LET t == Added(s, w)
         IN  /\ t \in Seq(WindowFeed) /\ Len(t) \in 1 .. Len(s) + 1 /\ t[Len(t)] = w
             /\ \A i, j \in DOMAIN t : t[i].id = t[j].id => i = j
             /\ (\A i \in DOMAIN s : s[i].id # w.id) => t = Append(s, w)
<1> DEFINE same == {j \in DOMAIN s : s[j].id = w.id}
           i == CHOOSE j \in same : TRUE
           rest == IF same = {} THEN s
                   ELSE SubSeq(s, 1, i - 1) \o SubSeq(s, i + 1, Len(s))
<1>1. Added(s, w) = Append(rest, w) /\ DOMAIN s = 1 .. Len(s) /\ Len(s) \in Nat
  BY DEF Added
<1>2. /\ rest \in Seq(WindowFeed) /\ Len(rest) \in 0 .. Len(s)
      /\ \A j \in 1 .. Len(rest) : rest[j].id # w.id
      /\ \A j, k \in 1 .. Len(rest) : rest[j].id = rest[k].id => j = k
  <2>1. CASE same = {}
    BY <1>1, <2>1
  <2>2. CASE same # {}
    <3>1. i \in 1 .. Len(s) /\ s[i].id = w.id
      BY <1>1, <2>2
    <3>2. rest = SubSeq(s, 1, i - 1) \o SubSeq(s, i + 1, Len(s))
      BY <2>2
    <3> HIDE DEF i, rest
    <3>3. /\ rest \in Seq(WindowFeed) /\ Len(rest) = Len(s) - 1
          /\ \A j \in 1 .. Len(s) - 1 : rest[j] = s[IF j < i THEN j ELSE j + 1]
      BY <3>1, <3>2, WithoutOne
    <3>4. ASSUME NEW j \in 1 .. Len(s) - 1
          PROVE  /\ (IF j < i THEN j ELSE j + 1) \in 1 .. Len(s)
                 /\ (IF j < i THEN j ELSE j + 1) # i
      BY <1>1, <3>1
    <3>5. \A j \in 1 .. Len(s) - 1 : rest[j].id # w.id
      BY <1>1, <3>1, <3>3, <3>4
    <3>6. ASSUME NEW j \in 1 .. Len(s) - 1, NEW k \in 1 .. Len(s) - 1,
                 rest[j].id = rest[k].id
          PROVE  j = k
      <4>1. (IF j < i THEN j ELSE j + 1) = (IF k < i THEN k ELSE k + 1)
        BY <1>1, <3>3, <3>4, <3>6, SMTT(30)
      <4>2. QED
        BY <1>1, <3>1, <4>1
    <3>7. QED
      BY <1>1, <3>1, <3>3, <3>5, <3>6
  <2>3. QED
    BY <2>1, <2>2
<1>3. (\A j \in DOMAIN s : s[j].id # w.id) => rest = s
  OBVIOUS
<1> HIDE DEF rest
<1> DEFINE t == Append(rest, w)
<1>4. /\ t \in Seq(WindowFeed) /\ Len(t) = Len(rest) + 1 /\ t[Len(t)] = w
      /\ DOMAIN t = 1 .. Len(rest) + 1
      /\ \A j \in 1 .. Len(rest) : t[j] = rest[j]
  BY <1>2
<1> HIDE DEF t
<1>5. \A j, k \in DOMAIN t : t[j].id = t[k].id => j = k
  BY <1>2, <1>4
<1>6. QED
  BY <1>1, <1>2, <1>3, <1>4, <1>5 DEF t

\* A set of positions whose ranks are 1, 2 or 3 has a first one of the highest rank.
LEMMA HighestExists ==
  ASSUME NEW C \in SUBSET Nat, C # {}, NEW rank \in [C -> 1 .. 3]
  PROVE  \E i \in C : \A j \in C : rank[j] < rank[i] \/ (rank[j] = rank[i] /\ i <= j)
<1> DEFINE Of(r) == {i \in C : rank[i] = r}
<1>1. \A r \in 1 .. 3 : Of(r) # {} => \E m \in Of(r) : \A k \in Of(r) : m <= k
  BY LeastExists
<1>2. PICK r \in 1 .. 3 : Of(r) # {} /\ \A q \in 1 .. 3 : Of(q) # {} => q <= r
  <2>1. PICK i \in C : TRUE
    OBVIOUS
  <2>2. rank[i] \in {1, 2, 3} /\ i \in Of(rank[i])
    BY <2>1
  <2> HIDE DEF Of
  <2>3. Of(1) # {} \/ Of(2) # {} \/ Of(3) # {}
    BY <2>2
  <2>4. CASE Of(3) # {}
    BY <2>4
  <2>5. CASE Of(3) = {} /\ Of(2) # {}
    <3>1. \A q \in 1 .. 3 : Of(q) # {} => q <= 2
      BY <2>5
    <3>2. QED
      BY <2>5, <3>1
  <2>6. CASE Of(3) = {} /\ Of(2) = {}
    <3>1. \A q \in 1 .. 3 : Of(q) # {} => q <= 1
      BY <2>6
    <3>2. QED
      BY <2>3, <2>6, <3>1
  <2>7. QED
    BY <2>4, <2>5, <2>6
<1>3. PICK m \in Of(r) : \A k \in Of(r) : m <= k
  BY <1>1, <1>2
<1>4. ASSUME NEW j \in C
      PROVE  rank[j] < rank[m] \/ (rank[j] = rank[m] /\ m <= j)
  <2>1. j \in Of(rank[j]) /\ rank[j] \in 1 .. 3 /\ rank[j] <= r /\ rank[m] = r
    BY <1>2, <1>3
  <2>2. QED
    BY <1>3, <2>1
<1>5. QED
  BY <1>3, <1>4

\* active_at() answers with a window that covers, one of the highest severity, exactly
\* when one covers.
LEMMA ActiveAtCovers ==
  ASSUME NEW s \in Seq(WindowFeed), NEW m, NEW x, NEW t
  PROVE  LET C == {i \in DOMAIN s : Covers(s[i], m, x, t)}
             a == ActiveAt(s, m, x, t)
         IN  /\ C = {} => a = 0
             /\ C # {} => /\ a \in C /\ a # 0
                          /\ \A j \in C :
                               SeverityRank[s[j].severity] <= SeverityRank[s[a].severity]
<1> DEFINE C == {i \in DOMAIN s : Covers(s[i], m, x, t)}
           rank == [i \in C |-> SeverityRank[s[i].severity]]
<1>1. C \in SUBSET Nat /\ \A i \in C : i # 0 /\ s[i] \in WindowFeed
  OBVIOUS
<1>2. rank \in [C -> 1 .. 3]
  <2>1. \A v \in DOMAIN SeverityRank : SeverityRank[v] \in 1 .. 3
    BY DEF SeverityRank
  <2>2. \A i \in C : s[i].severity \in DOMAIN SeverityRank
    BY <1>1, GateAssumption
  <2>3. QED
    BY <2>1, <2>2
<1> HIDE DEF C
<1>3. CASE C = {}
  BY <1>3 DEF ActiveAt, C
<1>4. CASE C # {}
  <2> DEFINE First(i) == \A j \in C : SeverityRank[s[j].severity] < SeverityRank[s[i].severity]
                            \/ /\ SeverityRank[s[j].severity] = SeverityRank[s[i].severity]
                               /\ i <= j
             a == CHOOSE i \in C : First(i)
  <2>1. \E i \in C : First(i)
    <3>1. PICK i \in C : \A j \in C : rank[j] < rank[i] \/ (rank[j] = rank[i] /\ i <= j)
      BY <1>1, <1>2, <1>4, HighestExists
    <3>2. QED
      BY <3>1
  <2>2. a \in C /\ First(a)
    <3> HIDE DEF First
    <3>1. QED
      BY <2>1
  <2>3. ActiveAt(s, m, x, t) = a
    BY <1>4 DEF ActiveAt, C
  <2> HIDE DEF a
  <2>4. \A j \in C : SeverityRank[s[j].severity] <= SeverityRank[s[a].severity]
    BY <1>2, <2>2
  <2>5. QED
    BY <1>1, <1>4, <2>2, <2>3, <2>4 DEF C
<1>5. QED
  BY <1>3, <1>4 DEF C

\* An outage ends at a time or at an unknown one, so that the context does.
LEMMA ContextEnds ==
  ASSUME NEW s \in Seq(WindowFeed), NEW m, NEW x, NEW t
  PROVE  LET ctx == ContextAt(s, m, x, t)
         IN  /\ ctx.end \in Int
             /\ ctx.active <=> \E i \in DOMAIN s : Covers(s[i], m, x, t)
<1> DEFINE C == {i \in DOMAIN s : Covers(s[i], m, x, t)}
           a == ActiveAt(s, m, x, t)
<1>1. /\ C = {} => a = 0
      /\ C # {} => a \in C /\ a # 0
  BY ActiveAtCovers
<1> HIDE DEF a
<1>2. CASE C = {}
  BY <1>1, <1>2 DEF ContextAt, NoDowntime, NoTime, a
<1>3. CASE C # {}
  <2>1. a \in DOMAIN s /\ s[a] \in WindowFeed
    BY <1>1, <1>3
  <2>2. s[a].end \in Int
    BY <2>1, GateAssumption DEF NoTime
  <2>3. ContextAt(s, m, x, t) = [active |-> TRUE, end |-> s[a].end]
    BY <1>1, <1>3 DEF ContextAt, a
  <2>4. QED
    BY <1>3, <2>2, <2>3
<1>4. QED
  BY <1>2, <1>3

----------------------------------------------------------------------------
(* Theorems *)

\* Confidence decides only between allowing and asking a human, for any proposals.
THEOREM ConfidenceIsNoLicence == GateSpec => []ConfidenceOnlyAsksAHuman
BY ConfidenceFact, PTL

\* Whatever the downtime store says, provided that an outage ends at a time or at an
\* unknown one: it changes no decision, moves an action only to a later time and says
\* so, keeps it within the bounds or puts it after the outage.
THEOREM AnyDowntimeOnlyPostpones ==
  ASSUME NEW p \in Proposals, NEW t \in Nat, NEW view, NEW halted,
         NEW ctx, ctx.end \in Int
  PROVE  LET v == Evaluate(p, view, halted, t, ctx)
             w == Evaluate(p, view, halted, t, NoDowntime)
         IN  /\ v.decision = w.decision
             /\ v.at >= w.at
             /\ v.deferred <=> v.at > w.at
             /\ v.decision = "ALLOW" =>
                  /\ v.at >= t + MinDelay
                  /\ v.at <= t + MaxDelay \/ v.at = Candidate(t, ctx)
                  /\ ctx.active /\ ctx.end # NoTime => v.at > ctx.end
<1> DEFINE v == Evaluate(p, view, halted, t, ctx)
           w == Evaluate(p, view, halted, t, NoDowntime)
           d == DecisionOf(p, view, halted)
<1>1. /\ v.decision = d /\ w.decision = d
      /\ v.at = IF d = "ALLOW" THEN ExecuteAt(p, t, ctx) ELSE NoTime
      /\ w.at = IF d = "ALLOW" THEN ExecuteAt(p, t, NoDowntime) ELSE NoTime
      /\ v.deferred <=> d = "ALLOW" /\ Defers(p, t, ctx)
  BY DEF Evaluate
<1>2. ExecuteAt(p, t, NoDowntime) = t + DelayOf(p)
  BY DEF ExecuteAt, Defers, NoDowntime
<1>3. /\ ExecuteAt(p, t, ctx) >= t + MinDelay
      /\ ExecuteAt(p, t, ctx) <= t + MaxDelay \/ ExecuteAt(p, t, ctx) = Candidate(t, ctx)
      /\ ExecuteAt(p, t, ctx) >= t + DelayOf(p)
      /\ Defers(p, t, ctx) <=> ExecuteAt(p, t, ctx) > t + DelayOf(p)
      /\ ctx.active /\ ctx.end # NoTime => ExecuteAt(p, t, ctx) > ctx.end
  BY ScheduleOf
<1> HIDE DEF v, w, d
<1>4. /\ v.decision = w.decision /\ v.at >= w.at /\ (v.deferred <=> v.at > w.at)
      /\ v.decision = "ALLOW" =>
           /\ v.at >= t + MinDelay
           /\ v.at <= t + MaxDelay \/ v.at = Candidate(t, ctx)
           /\ ctx.active /\ ctx.end # NoTime => v.at > ctx.end
  <2>1. CASE d = "ALLOW"
    BY <1>1, <1>2, <1>3, <2>1
  <2>2. CASE d # "ALLOW"
    <3>1. v.at = NoTime /\ w.at = NoTime /\ v.decision # "ALLOW" /\ ~v.deferred
      BY <1>1, <2>2
    <3>2. v.at >= w.at /\ ~(v.at > w.at)
      BY <3>1 DEF NoTime
    <3>3. QED
      BY <1>1, <3>1, <3>2
  <2>3. QED
    BY <2>1, <2>2
<1>5. QED
  BY <1>4 DEF v, w

\* The table keeps its types and its key, and the clock shows a time.
THEOREM TableInvariant == GateSpec => []TableInv
<1>1. GateInit => TableInv
  BY DEF GateInit, TableInv
<1>2. ASSUME TableInv, [GateNext]_gateVars
      PROVE  TableInv'
  <2>1. ASSUME NEW w \in WindowFeed, Report(w)
        PROVE  TableInv'
    <3>1. windows' = Added(windows, w) /\ now' = now
      BY <2>1 DEF Report
    <3>2. QED
      BY <1>2, <3>1, AddedKeepsKeys DEF TableInv
  <2>2. ASSUME NEW t \in Times, Advance(t)
        PROVE  TableInv'
    BY <1>2, <2>2 DEF Advance, TableInv
  <2>3. CASE UNCHANGED gateVars
    BY <1>2, <2>3 DEF gateVars, TableInv
  <2>4. QED
    BY <1>2, <2>1, <2>2, <2>3 DEF GateNext
<1>3. QED
  BY <1>1, <1>2, PTL DEF GateSpec

\* What the gate says of the request at hand, with the context that the table yields.
LEMMA VerdictsOfTable ==
  ASSUME TableInv
  PROVE  DowntimeOnlyPostpones /\ ScheduleIsBounded
<1>1. Context.end \in Int /\ now \in Nat
  BY ContextEnds, GateAssumption DEF TableInv, Context
<1>2. ASSUME NEW p \in Proposals
      PROVE  LET v == VerdictOn(p)
                 w == Evaluate(p, request.view, request.halted, now, NoDowntime)
             IN  /\ v.decision = w.decision
                 /\ v.at >= w.at
                 /\ v.deferred <=> v.at > w.at
                 /\ v.decision = "ALLOW" =>
                      /\ v.at >= now + MinDelay
                      /\ v.at <= now + MaxDelay \/ v.at = Candidate(now, Context)
                      /\ Context.active /\ Context.end # NoTime => v.at > Context.end
  BY <1>1, AnyDowntimeOnlyPostpones DEF VerdictOn
<1>3. QED
  BY <1>2 DEF DowntimeOnlyPostpones, ScheduleIsBounded

\* Whatever windows were reported and corrected, downtime moves an action of an allowed
\* request to a later time and changes nothing else.
THEOREM DowntimePostpones == GateSpec => []DowntimeOnlyPostpones
BY TableInvariant, VerdictsOfTable, PTL

\* An allowed action runs within the bounds, or when the outage of the table is over.
THEOREM BoundedSchedule == GateSpec => []ScheduleIsBounded
BY TableInvariant, VerdictsOfTable, PTL

\* No new window takes the outage of an instrument away: a row only leaves the table for
\* one with its own id.
THEOREM OutagesStayVisible == GateSpec => OutageHiddenOnlyByCorrection
<1> DEFINE Hides == /\ now' = now
                    /\ Context.active
                    => \/ Context'.active
                       \/ \E i \in DOMAIN windows :
                            windows[i].id = windows'[Len(windows')].id
<1>1. ASSUME TableInv, [GateNext]_gateVars
      PROVE  [Hides]_gateVars
  <2>1. ASSUME NEW w \in WindowFeed, Report(w), Context.active,
               \A i \in DOMAIN windows : windows[i].id # windows'[Len(windows')].id
        PROVE  Context'.active
    <3>1. /\ windows' \in Seq(WindowFeed) /\ now' = now
          /\ windows'[Len(windows')] = w
          /\ (\A i \in DOMAIN windows : windows[i].id # w.id) => windows' = Append(windows, w)
      BY <1>1, <2>1, AddedKeepsKeys, ZenonT(30) DEF TableInv, Report
    <3>2. windows' = Append(windows, w)
      BY <2>1, <3>1
    <3>3. PICK i \in DOMAIN windows : Covers(windows[i], Method, Instrument, now)
      BY <1>1, <2>1, ContextEnds DEF TableInv, Context
    <3>4. i \in DOMAIN windows' /\ windows'[i] = windows[i]
      BY <1>1, <3>2 DEF TableInv
    <3>5. Covers(windows'[i], Method, Instrument, now')
      BY <3>1, <3>3, <3>4
    <3>6. ContextAt(windows', Method, Instrument, now').active
      BY <3>1, <3>4, <3>5, ContextEnds
    <3>7. QED
      BY <3>6 DEF Context, Method, Instrument
  <2>2. ASSUME NEW t \in Times, Advance(t)
        PROVE  now' # now
    BY <1>1, <2>2, GateAssumption DEF Advance, TableInv
  <2>3. QED
    BY <1>1, <2>1, <2>2 DEF GateNext
<1>2. QED
  BY <1>1, TableInvariant, PTL DEF GateSpec, OutageHiddenOnlyByCorrection
=============================================================================
