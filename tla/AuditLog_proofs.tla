--------------------------- MODULE AuditLog_proofs ---------------------------
(***************************************************************************)
(* What the hash chain guarantees when one connection appends, for any      *)
(* number of events, cases and kinds of events.  With a second appender the *)
(* chain forks (AuditTwoAppenders.cfg shows it), so the assumption that     *)
(* there is only one is what the theorems are about.                       *)
(***************************************************************************)
EXTENDS AuditLog, SequenceTheorems, FiniteSetTheorems, WellFoundedInduction, TLAPS

\* Rows and drafts keep their types, however many connections append.
THEOREM AuditTypesHold == AuditSpec => []AuditTypeOK
<1>1. AuditInit => AuditTypeOK
  BY DEF AuditInit, AuditTypeOK
<1>2. ASSUME AuditTypeOK, [AuditNext]_auditVars
      PROVE  AuditTypeOK'
  <2>1. LastHash \in Seq(Body)
    <3>1. CASE events = <<>>
      BY <3>1 DEF LastHash, GENESIS
    <3>2. CASE events # <<>>
      <4>1. events[Len(events)] \in Row
        BY <1>2, <3>2 DEF AuditTypeOK
      <4>2. QED
        BY <3>2, <4>1 DEF LastHash, Row
    <3>3. QED
      BY <3>1, <3>2
  <2>2. ASSUME NEW a \in Appenders, NEW b \in Body, Draft(a, b)
        PROVE  AuditTypeOK'
    <3>1. RowFor(b) \in Row
      BY <2>1 DEF RowFor, Row, Digest
    <3>2. QED
      BY <1>2, <2>2, <3>1 DEF Draft, AuditTypeOK
  <2>3. ASSUME NEW d \in drafts, Insert(d)
        PROVE  AuditTypeOK'
    <3>1. d.row \in Row
      BY <1>2 DEF AuditTypeOK
    <3>2. QED
      BY <1>2, <2>3, <3>1 DEF Insert, AuditTypeOK
  <2>4. CASE UNCHANGED events /\ drafts' \subseteq drafts
    BY <1>2, <2>4 DEF AuditTypeOK
  <2>5. QED
    BY <1>2, <2>2, <2>3, <2>4 DEF AuditNext, Abandon, auditVars
<1>3. QED
  BY <1>1, <1>2, PTL DEF AuditSpec

\* The inductive invariant.  Besides the types and the chain itself: a hash is as
\* long as the chain it stands for, so that no two rows have the same; and the row
\* that waits for its INSERT, of which there is at most one, continues the chain.
ChainInv ==
  /\ AuditTypeOK
  /\ \A i \in 1 .. Len(events) :
       RowVerifies(events, i) /\ Len(events[i].hash) = i
  /\ \A d, e \in drafts : d = e
  /\ \A d \in drafts : /\ d.row.prev = LastHash
                       /\ d.row.hash = Digest(LastHash, d.row.body)

\* The hash a new row is chained to stands for all the rows there are.
LEMMA LastHashType ==
  ASSUME ChainInv
  PROVE  LastHash \in Seq(Body) /\ Len(LastHash) = Len(events)
<1>1. events \in Seq(Row)
  BY DEF ChainInv, AuditTypeOK
<1>2. CASE events = <<>>
  BY <1>2 DEF LastHash, GENESIS
<1>3. CASE events # <<>>
  <2>1. Len(events) \in 1 .. Len(events) /\ events[Len(events)] \in Row
    BY <1>1, <1>3
  <2>2. QED
    BY <1>3, <2>1 DEF LastHash, ChainInv, Row
<1>4. QED
  BY <1>2, <1>3

\* A row that append() builds has its type.
LEMMA RowForType ==
  ASSUME ChainInv, NEW b \in Body
  PROVE  RowFor(b) \in Row
BY LastHashType DEF RowFor, Row, Digest

\* The chain survives the INSERT of the one row that waits for it.
LEMMA InsertKeepsChain ==
  ASSUME ChainInv, NEW d \in drafts, Insert(d)
  PROVE  ChainInv'
<1>1. /\ events \in Seq(Row) /\ d.row \in Row /\ drafts = {d}
      /\ d.row.prev = LastHash /\ d.row.hash = Digest(LastHash, d.row.body)
  BY DEF ChainInv, AuditTypeOK
<1>2. events' = Append(events, d.row) /\ drafts' = {}
  BY <1>1 DEF Insert
<1>3. /\ events' \in Seq(Row) /\ Len(events') = Len(events) + 1
      /\ \A i \in 1 .. Len(events) : events'[i] = events[i]
      /\ events'[Len(events) + 1] = d.row
      /\ Len(events) \in Nat
  BY <1>1, <1>2
<1>4. AuditTypeOK'
  BY <1>2, <1>3 DEF AuditTypeOK
<1>5. ASSUME NEW i \in 1 .. Len(events')
      PROVE  RowVerifies(events', i) /\ Len(events'[i].hash) = i
  <2>1. CASE i \in 1 .. Len(events)
    <3>1. RowVerifies(events, i) /\ Len(events[i].hash) = i
      BY <2>1 DEF ChainInv
    <3>2. PrevOf(events', i) = PrevOf(events, i)
      <4>1. i # 1 => i - 1 \in 1 .. Len(events)
        BY <1>3, <2>1
      <4>2. QED
        BY <1>3, <4>1 DEF PrevOf
    <3>3. QED
      BY <1>3, <2>1, <3>1, <3>2 DEF RowVerifies
  <2>2. CASE i = Len(events) + 1
    <3>1. PrevOf(events', i) = LastHash
      <4>1. CASE events = <<>>
        BY <2>2, <4>1 DEF PrevOf, LastHash
      <4>2. CASE events # <<>>
        <5>1. Len(events) \in 1 .. Len(events) /\ i # 1 /\ i - 1 = Len(events)
          BY <1>1, <2>2, <4>2
        <5>2. QED
          BY <1>3, <4>2, <5>1 DEF PrevOf, LastHash
      <4>3. QED
        BY <4>1, <4>2
    <3>2. Len(Digest(LastHash, d.row.body)) = Len(events) + 1
      BY LastHashType DEF Digest
    <3>3. QED
      BY <1>1, <1>3, <2>2, <3>1, <3>2 DEF RowVerifies
  <2>3. QED
    BY <1>3, <2>1, <2>2
<1>6. QED
  BY <1>2, <1>4, <1>5 DEF ChainInv

\* Every step of the only appender keeps the invariant.
LEMMA ChainStep ==
  ASSUME NEW a, Appenders = {a}, ChainInv, [AuditNext]_auditVars
  PROVE  ChainInv'
<1>1. ASSUME NEW b \in Body, Draft(a, b)
      PROVE  ChainInv'
  <2>1. drafts = {}
    BY <1>1 DEF Draft, Waiting, ChainInv, AuditTypeOK
  <2>2. drafts' = {[by |-> a, row |-> RowFor(b)]} /\ events' = events
    BY <1>1, <2>1 DEF Draft
  <2>3. LastHash' = LastHash
    BY <2>2 DEF LastHash
  <2>4. \A d \in drafts' : /\ d \in [by : Appenders, row : Row]
                           /\ d.row.prev = LastHash
                           /\ d.row.hash = Digest(LastHash, d.row.body)
    <3>1. RowFor(b) \in Row
      BY RowForType
    <3>2. /\ RowFor(b).prev = LastHash
          /\ RowFor(b).hash = Digest(LastHash, RowFor(b).body)
      BY DEF RowFor
    <3>3. QED
      BY <2>2, <3>1, <3>2
  <2>5. QED
    BY <2>2, <2>3, <2>4 DEF ChainInv, AuditTypeOK, RowVerifies, PrevOf
<1>2. ASSUME NEW d \in drafts, Insert(d)
      PROVE  ChainInv'
  BY <1>2, InsertKeepsChain
<1>3. ASSUME events' = events, drafts' \subseteq drafts
      PROVE  ChainInv'
  <2>1. LastHash' = LastHash
    BY <1>3 DEF LastHash
  <2>2. QED
    BY <1>3, <2>1 DEF ChainInv, AuditTypeOK, RowVerifies, PrevOf
<1>4. QED
  BY <1>1, <1>2, <1>3 DEF AuditNext, Abandon, auditVars

\* The empty table is a chain.
LEMMA ChainInit == AuditInit => ChainInv
BY DEF AuditInit, ChainInv, AuditTypeOK

\* The chain is what verify_chain() asks for.
LEMMA ChainIsVerified == ChainInv => ChainVerifies
BY DEF ChainInv, ChainVerifies, Verifies, AuditTypeOK

\* What the chain says of each of its rows.
LEMMA ChainRow ==
  ASSUME ChainInv, NEW i \in 1 .. Len(events)
  PROVE  /\ events[i] \in Row /\ events[i].hash \in Seq(Body)
         /\ events[i].prev = PrevOf(events, i)
         /\ PrevOf(events, i) \in Seq(Body) /\ Len(PrevOf(events, i)) = i - 1
         /\ events[i].hash = Append(PrevOf(events, i), events[i].body)
         /\ Len(events[i].hash) = i
<1>1. \A k \in 1 .. Len(events) : events[k] \in Row /\ events[k].hash \in Seq(Body)
  <2>1. events \in Seq(Row)
    BY DEF ChainInv, AuditTypeOK
  <2>2. \A k \in 1 .. Len(events) : events[k] \in Row
    BY <2>1
  <2>3. QED
    BY <2>2 DEF Row
<1>2. PrevOf(events, i) \in Seq(Body) /\ Len(PrevOf(events, i)) = i - 1
  <2>1. CASE i = 1
    BY <2>1 DEF PrevOf, GENESIS
  <2>2. CASE i # 1
    <3>1. i - 1 \in 1 .. Len(events)
      BY <2>2
    <3>2. events[i - 1].hash \in Seq(Body) /\ Len(events[i - 1].hash) = i - 1
      BY <1>1, <3>1 DEF ChainInv
    <3>3. QED
      BY <2>2, <3>2 DEF PrevOf
  <2>3. QED
    BY <2>1, <2>2
<1>3. QED
  BY <1>1, <1>2 DEF ChainInv, RowVerifies, Digest

\* Rewriting what an event says changes what its hash should be.
LEMMA RewritingShows ==
  ASSUME ChainInv, NEW i \in 1 .. Len(events), NEW b \in Body, b # events[i].body
  PROVE  ~Verifies([events EXCEPT ![i].body = b])
<1> DEFINE table == [events EXCEPT ![i].body = b]
<1>1. events \in Seq(Row)
  BY DEF ChainInv, AuditTypeOK
<1>2. /\ DOMAIN table = 1 .. Len(events)
      /\ table[i].body = b /\ table[i].hash = events[i].hash
      /\ \A j \in 1 .. Len(events) : j # i => table[j] = events[j]
  BY <1>1, ChainRow DEF Row
<1>3. PrevOf(table, i) = PrevOf(events, i)
  <2>1. i # 1 => i - 1 \in 1 .. Len(events) /\ i - 1 # i
    OBVIOUS
  <2>2. QED
    BY <1>2, <2>1 DEF PrevOf
<1>4. Append(PrevOf(events, i), events[i].body) # Append(PrevOf(events, i), b)
  <2> DEFINE s == PrevOf(events, i)
  <2>1. s \in Seq(Body) /\ events[i].body \in Body
    BY ChainRow DEF Row
  <2>2. /\ Append(s, events[i].body)[Len(s) + 1] = events[i].body
        /\ Append(s, b)[Len(s) + 1] = b
    BY <2>1
  <2>3. QED
    BY <2>2
<1>5. ~RowVerifies(table, i)
  BY <1>2, <1>3, <1>4, ChainRow DEF RowVerifies, Digest
<1>6. QED
  BY <1>2, <1>5 DEF Verifies

\* The row after one that was taken out points to a hash that is gone.
LEMMA RemovalShows ==
  ASSUME ChainInv, NEW i \in 1 .. Len(events), i < Len(events)
  PROVE  ~Verifies(SubSeq(events, 1, i - 1) \o SubSeq(events, i + 1, Len(events)))
<1> DEFINE before == SubSeq(events, 1, i - 1)
           after == SubSeq(events, i + 1, Len(events))
           table == before \o after
<1>1. events \in Seq(Row) /\ Len(events) \in Nat
  BY DEF ChainInv, AuditTypeOK
<1>2. /\ before \in Seq(Row) /\ Len(before) = i - 1
      /\ \A j \in 1 .. i - 1 : before[j] = events[j]
  BY <1>1
<1>3. /\ after \in Seq(Row) /\ Len(after) = Len(events) - i
      /\ after[1] = events[i + 1]
  BY <1>1
<1>4. /\ Len(table) = Len(events) - 1 /\ DOMAIN table = 1 .. Len(table)
      /\ \A j \in 1 .. i - 1 : table[j] = events[j]
      /\ table[i] = events[i + 1]
  <2> HIDE DEF before, after
  <2>1. /\ table \in Seq(Row)
        /\ Len(table) = Len(before) + Len(after)
        /\ \A k \in 1 .. Len(before) + Len(after) :
             table[k] = IF k <= Len(before) THEN before[k]
                        ELSE after[k - Len(before)]
    BY <1>2, <1>3, ConcatProperties
  <2> HIDE DEF table
  <2>2. Len(before) + Len(after) = Len(events) - 1 /\ i \in 1 .. Len(events) - 1
    BY <1>1, <1>2, <1>3
  <2>3. \A j \in 1 .. i - 1 : table[j] = before[j]
    <3>1. SUFFICES ASSUME NEW j \in 1 .. i - 1
                   PROVE  table[j] = before[j]
      OBVIOUS
    <3>2. j \in 1 .. Len(before) + Len(after) /\ j <= Len(before)
      BY <1>1, <1>2, <2>2
    <3>3. QED
      BY <2>1, <3>2
  <2>4. table[i] = after[1]
    <3>1. /\ i \in 1 .. Len(before) + Len(after)
          /\ ~(i <= Len(before)) /\ i - Len(before) = 1
      BY <1>1, <1>2, <2>2
    <3>2. QED
      BY <2>1, <3>1
  <2>5. DOMAIN table = 1 .. Len(table)
    BY <2>1
  <2>6. QED
    BY <1>2, <1>3, <2>1, <2>2, <2>3, <2>4, <2>5
<1>5. PrevOf(table, i) = PrevOf(events, i)
  <2>1. i # 1 => i - 1 \in 1 .. i - 1
    OBVIOUS
  <2>2. QED
    BY <1>4, <2>1 DEF PrevOf
<1>6. events[i + 1].prev = events[i].hash
  BY <1>1, ChainRow DEF PrevOf
<1>7. events[i].hash # PrevOf(events, i)
  BY ChainRow
<1>8. ~RowVerifies(table, i)
  BY <1>4, <1>5, <1>6, <1>7 DEF RowVerifies
<1>9. i \in DOMAIN table
  BY <1>1, <1>4
<1>10. QED
  BY <1>8, <1>9 DEF Verifies

\* A row in the place of an earlier one is chained to too long a history.
LEMMA SwapShows ==
  ASSUME ChainInv, NEW i \in 1 .. Len(events), NEW j \in 1 .. Len(events), i # j
  PROVE  ~Verifies([events EXCEPT ![i] = events[j], ![j] = events[i]])
<1> DEFINE table == [events EXCEPT ![i] = events[j], ![j] = events[i]]
<1>1. events \in Seq(Row)
  BY DEF ChainInv, AuditTypeOK
<1>2. /\ DOMAIN table = 1 .. Len(events)
      /\ table[i] = events[j] /\ table[j] = events[i]
      /\ \A k \in 1 .. Len(events) : k # i /\ k # j => table[k] = events[k]
  BY <1>1
<1>3. ASSUME NEW lo \in 1 .. Len(events), NEW hi \in 1 .. Len(events), lo < hi,
             table[lo] = events[hi],
             \A k \in 1 .. Len(events) : k # lo /\ k # hi => table[k] = events[k]
      PROVE  ~RowVerifies(table, lo)
  <2>1. PrevOf(table, lo) = PrevOf(events, lo)
    <3>1. lo # 1 => lo - 1 \in 1 .. Len(events) /\ lo - 1 # lo /\ lo - 1 # hi
      BY <1>3
    <3>2. QED
      BY <1>3, <3>1 DEF PrevOf
  <2>2. /\ Len(PrevOf(events, lo)) = lo - 1
        /\ events[hi].prev = PrevOf(events, hi) /\ Len(PrevOf(events, hi)) = hi - 1
    BY ChainRow
  <2>3. events[hi].prev # PrevOf(events, lo)
    BY <1>3, <2>2
  <2>4. QED
    BY <1>3, <2>1, <2>3 DEF RowVerifies
<1>4. ~RowVerifies(table, i) \/ ~RowVerifies(table, j)
  <2> HIDE DEF table
  <2>1. CASE i < j
    BY <1>2, <1>3, <2>1
  <2>2. CASE j < i
    BY <1>2, <1>3, <2>2
  <2>3. QED
    BY <2>1, <2>2
<1>5. QED
  BY <1>2, <1>4 DEF Verifies

\* With one appender verify_chain() accepts the log, and whoever gets past the triggers to
\* rewrite an event, to take one out that is not the last, or to swap two, is found out.
THEOREM TamperingIsEvident ==
  ASSUME NEW a, Appenders = {a}
  PROVE  AuditSpec => []TamperingShows
<1>1. ChainInv => TamperingShows
  <2> SUFFICES ASSUME ChainInv, NEW i \in DOMAIN events
               PROVE  /\ \A b \in Body \ {events[i].body} :
                           ~Verifies([events EXCEPT ![i].body = b])
                      /\ i < Len(events) =>
                           ~Verifies(SubSeq(events, 1, i - 1)
                                       \o SubSeq(events, i + 1, Len(events)))
                      /\ \A j \in DOMAIN events : j # i =>
                           ~Verifies([events EXCEPT ![i] = events[j],
                                                    ![j] = events[i]])
    BY ChainIsVerified DEF TamperingShows
  <2>1. DOMAIN events = 1 .. Len(events)
    BY DEF ChainInv, AuditTypeOK
  <2>2. QED
    BY <2>1, RewritingShows, RemovalShows, SwapShows
<1>2. ChainInv /\ [AuditNext]_auditVars => ChainInv'
  BY ChainStep
<1>3. QED
  BY <1>1, <1>2, ChainInit, PTL DEF AuditSpec

----------------------------------------------------------------------------
(* Replay *)

\* Induction along a sequence: a set of positions that holds 0, and a position when it
\* holds the one before, holds them all.
LEMMA PrefixInduction ==
  ASSUME NEW N \in Nat, NEW P, 0 \in P, \A n \in 1 .. N : n - 1 \in P => n \in P
  PROVE  \A n \in 0 .. N : n \in P
<1> DEFINE R == OpToRel(<, Nat)
           Rest == (0 .. N) \ P
<1>1. SUFFICES ASSUME Rest # {}
               PROVE  FALSE
  OBVIOUS
<1>2. IsWellFoundedOn(R, Nat)
  BY NatLessThanWellFounded, Zenon
<1>3. \A x : x \in R <=> x \in Nat \X Nat /\ x[1] < x[2]
  BY DEF OpToRel
<1> HIDE DEF R
<1>4. PICK m \in Rest : \A k \in Rest : ~(<<k, m>> \in R)
  <2>1. Rest \subseteq Nat
    OBVIOUS
  <2>2. QED
    BY <1>1, <1>2, <2>1, WFMin
<1>5. m \in 1 .. N /\ m - 1 \notin Rest
  <2>1. m \in 0 .. N /\ m # 0
    BY <1>4
  <2>2. <<m - 1, m>> \in R
    BY <1>3, <2>1
  <2>3. QED
    BY <1>4, <2>1, <2>2
<1>6. QED
  BY <1>4, <1>5

\* One event of a table, as replay() for c sees it.
Applied(table, c, n, r) ==
  IF table[n].body.case = c THEN Apply(r, table[n].body.step) ELSE r

\* The recursive function in Replay is defined for all events.
LEMMA ReplaySteps ==
  ASSUME NEW table \in Seq(Row), NEW c
  PROVE  \E after : /\ after[0] = NoReplay
                    /\ \A n \in 1 .. Len(table) : after[n] = Applied(table, c, n, after[n - 1])
                    /\ Replay(table, c) = after[Len(table)]
<1> DEFINE Fold(N, h) ==
             h = [n \in 0 .. N |->
                    IF n = 0 THEN NoReplay
                    ELSE IF table[n].body.case = c THEN Apply(h[n - 1], table[n].body.step)
                         ELSE h[n - 1]]
           Folds == {N \in Nat : \E h : Fold(N, h)}
<1>1. Len(table) \in Nat
  OBVIOUS
<1>2. 0 \in Folds
  <2>1. Fold(0, [n \in 0 .. 0 |-> NoReplay])
    OBVIOUS
  <2>2. QED
    BY <2>1
<1>3. ASSUME NEW N \in 1 .. Len(table), N - 1 \in Folds
      PROVE  N \in Folds
  <2>1. PICK h : Fold(N - 1, h)
    BY <1>3
  <2> DEFINE g == [n \in 0 .. N |-> IF n = N THEN Applied(table, c, N, h[N - 1]) ELSE h[n]]
  <2>2. ASSUME NEW n \in 0 .. N
        PROVE  g[n] = IF n = 0 THEN NoReplay
                      ELSE IF table[n].body.case = c THEN Apply(g[n - 1], table[n].body.step)
                           ELSE g[n - 1]
    <3>1. CASE n = N
      <4>1. n # 0 /\ g[n] = Applied(table, c, N, h[N - 1]) /\ g[n - 1] = h[N - 1]
        BY <3>1
      <4>2. QED
        BY <3>1, <4>1 DEF Applied
    <3>2. CASE n # N
      <4>1. n \in 0 .. N - 1 /\ g[n] = h[n]
        BY <3>2
      <4>2. n # 0 => g[n - 1] = h[n - 1]
        BY <3>2
      <4> HIDE DEF g
      <4>3. QED
        BY <2>1, <4>1, <4>2
    <3>3. QED
      BY <3>1, <3>2
  <2>3. Fold(N, g)
    BY <2>2
  <2> HIDE DEF g, Fold
  <2>4. QED
    BY <2>3
<1>4. Len(table) \in Folds
  <2> HIDE DEF Folds
  <2> DEFINE N == Len(table)
  <2>1. N \in Nat
    BY <1>1
  <2>2. \A n \in 1 .. N : n - 1 \in Folds => n \in Folds
    BY <1>3
  <2> HIDE DEF N
  <2>3. \A n \in 0 .. N : n \in Folds
    BY <1>2, <2>1, <2>2, PrefixInduction
  <2>4. N \in 0 .. N
    BY <2>1
  <2>5. N \in Folds
    BY <2>3, <2>4
  <2>6. QED
    BY <2>5 DEF N
<1> DEFINE after == CHOOSE h : Fold(Len(table), h)
<1>5. Fold(Len(table), after)
  <2>1. \E h : Fold(Len(table), h)
    BY <1>4
  <2> HIDE DEF Fold
  <2>2. QED
    BY <2>1
<1>6. Replay(table, c) = after[Len(table)]
  BY DEF Replay
<1> HIDE DEF after
<1>7. after[0] = NoReplay
  BY <1>1, <1>5
<1>8. \A n \in 1 .. Len(table) : after[n] = Applied(table, c, n, after[n - 1])
  BY <1>1, <1>5 DEF Applied
<1>9. QED
  BY <1>6, <1>7, <1>8

\* The events of a type that c has among the first n.
Seen(c, type, n) ==
  {i \in 1 .. n : events[i].body.case = c /\ events[i].body.step.type = type}

\* Of these, the ones that give a reason for an abandonment, and the ones with the flag.
Closed(c, n) == {i \in Seen(c, "STATE_TRANSITION", n) : Reasoned(events[i].body.step)}
Flagged(c, n) == {i \in Seen(c, "ACTION_RESULT", n) : events[i].body.step.detail = "TRUE"}

\* A later event is the last one.
LEMMA LaterIsLast ==
  ASSUME NEW n \in Nat \ {0}, NEW before, before \subseteq 1 .. n - 1
  PROVE  Last(before \cup {n}) = n
<1> DEFINE after == before \cup {n}
<1>1. n \in after /\ \A j \in after : j <= n
  OBVIOUS
<1>2. \A i \in after : (\A j \in after : j <= i) => i = n
  <2>1. after \subseteq 1 .. n
    OBVIOUS
  <2>2. QED
    BY <1>1, <2>1
<1> HIDE DEF after
<1>3. Last(after) = n
  BY <1>1, <1>2 DEF Last
<1>4. QED
  BY <1>3 DEF after

\* One more event is the last of its type, and counts for no other type or case.
LEMMA OneMoreSeen ==
  ASSUME NEW c, NEW type, NEW n \in Nat \ {0}
  PROVE  LET before == Seen(c, type, n - 1)
             after == Seen(c, type, n)
         IN  /\ IsFiniteSet(before)
             /\ events[n].body.case = c /\ events[n].body.step.type = type =>
                  /\ LastValue(after) = events[n].body.step.value
                  /\ Cardinality(after) = Cardinality(before) + 1
             /\ ~(events[n].body.case = c /\ events[n].body.step.type = type) => after = before
<1> DEFINE before == Seen(c, type, n - 1)
           after == Seen(c, type, n)
           here == events[n].body.case = c /\ events[n].body.step.type = type
<1>1. /\ before \subseteq 1 .. n - 1
      /\ here => after = before \cup {n}
      /\ ~here => after = before
  BY DEF Seen
<1>2. IsFiniteSet(before) /\ n \notin before
  <2>1. IsFiniteSet(1 .. n - 1)
    BY FS_Interval
  <2>2. QED
    BY <1>1, <2>1, FS_Subset
<1> HIDE DEF before, after
<1>3. ASSUME here
      PROVE  /\ LastValue(after) = events[n].body.step.value
             /\ Cardinality(after) = Cardinality(before) + 1
  <2>1. after = before \cup {n}
    BY <1>1, <1>3
  <2>2. Last(after) = n
    BY <1>1, <2>1, LaterIsLast
  <2>3. QED
    BY <1>2, <2>1, <2>2, FS_AddElement DEF LastValue
<1>4. QED
  BY <1>1, <1>2, <1>3 DEF before, after

\* The same for reasons and flags.
LEMMA OneMoreDetail ==
  ASSUME NEW c, NEW n \in Nat \ {0}
  PROVE  LET here(type) == events[n].body.case = c /\ events[n].body.step.type = type
             step == events[n].body.step
         IN  /\ LastDetail(Closed(c, n)) =
                   IF here("STATE_TRANSITION") /\ Reasoned(step) THEN step.detail
                   ELSE LastDetail(Closed(c, n - 1))
             /\ Flagged(c, n) # {} <=>
                   \/ Flagged(c, n - 1) # {}
                   \/ here("ACTION_RESULT") /\ step.detail = "TRUE"
<1> DEFINE moved == /\ events[n].body.case = c
                    /\ events[n].body.step.type = "STATE_TRANSITION"
                    /\ Reasoned(events[n].body.step)
           ended == /\ events[n].body.case = c
                    /\ events[n].body.step.type = "ACTION_RESULT"
                    /\ events[n].body.step.detail = "TRUE"
<1>1. /\ Closed(c, n - 1) \subseteq 1 .. n - 1
      /\ moved => Closed(c, n) = Closed(c, n - 1) \cup {n}
      /\ ~moved => Closed(c, n) = Closed(c, n - 1)
  BY DEF Closed, Seen
<1>2. moved => LastDetail(Closed(c, n)) = events[n].body.step.detail
  <2>1. moved => Last(Closed(c, n)) = n /\ Closed(c, n) # {}
    BY <1>1, LaterIsLast
  <2>2. QED
    BY <2>1 DEF LastDetail
<1>3. Flagged(c, n) = IF ended THEN Flagged(c, n - 1) \cup {n} ELSE Flagged(c, n - 1)
  BY DEF Flagged, Seen
<1>4. QED
  BY <1>1, <1>2, <1>3

\* What replay() rebuilds from any table of events is what the table says as a whole.
LEMMA ReplayIsSummary ==
  ASSUME events \in Seq(Row)
  PROVE  ReplayReadsTheLog
<1> DEFINE Summary(c, n) == [cohort        |-> LastValue(Seen(c, "COHORT_ASSIGNED", n)),
                             state         |-> LastValue(Seen(c, "STATE_TRANSITION", n)),
                             attempts      |-> Cardinality(Seen(c, "ACTION_RESULT", n)),
                             recovered     |-> Flagged(c, n) # {},
                             abandonReason |-> LastDetail(Closed(c, n))]
<1>0. Len(events) \in Nat /\ DOMAIN events = 1 .. Len(events)
  OBVIOUS
<1>1. SUFFICES ASSUME NEW c \in Cases
               PROVE  Replay(events, c) = Summary(c, Len(events))
  BY <1>0 DEF ReplayReadsTheLog, OfType, Seen, Closed, Flagged
<1>2. PICK after : /\ after[0] = NoReplay
                   /\ \A n \in 1 .. Len(events) :
                        after[n] = Applied(events, c, n, after[n - 1])
                   /\ Replay(events, c) = after[Len(events)]
  BY ReplaySteps
<1> DEFINE Good == {n \in Nat : after[n] = Summary(c, n)}
<1>3. 0 \in Good
  <2>1. (\A type : Seen(c, type, 0) = {}) /\ Closed(c, 0) = {} /\ Flagged(c, 0) = {}
    BY DEF Seen, Closed, Flagged
  <2>2. LastValue({}) = "NONE" /\ LastDetail({}) = "NONE" /\ Cardinality({}) = 0
    BY FS_EmptySet DEF LastValue, LastDetail
  <2>3. QED
    BY <1>2, <2>1, <2>2 DEF NoReplay
<1>4. ASSUME NEW n \in 1 .. Len(events), n - 1 \in Good
      PROVE  n \in Good
  <2> DEFINE step == events[n].body.step
             here(t) == events[n].body.case = c /\ step.type = t
  <2>0. SUFFICES after[n] = Summary(c, n)
    OBVIOUS
  <2>1. /\ after[n - 1] = Summary(c, n - 1)
        /\ after[n] = Applied(events, c, n, after[n - 1])
    BY <1>2, <1>4
  <2>2. ASSUME NEW t
        PROVE  /\ here(t) => /\ LastValue(Seen(c, t, n)) = step.value
                             /\ Cardinality(Seen(c, t, n)) = Cardinality(Seen(c, t, n - 1)) + 1
               /\ ~here(t) => Seen(c, t, n) = Seen(c, t, n - 1)
    BY OneMoreSeen
  <2>3. LastDetail(Closed(c, n)) =
          IF here("STATE_TRANSITION") /\ Reasoned(step) THEN step.detail
          ELSE LastDetail(Closed(c, n - 1))
    BY OneMoreDetail
  <2>4. (Flagged(c, n) # {}) =
          ((Flagged(c, n - 1) # {}) \/ (here("ACTION_RESULT") /\ step.detail = "TRUE"))
    BY OneMoreDetail
  <2> HIDE DEF step
  <2>5. CASE events[n].body.case # c
    <3>1. after[n] = Summary(c, n - 1)
      BY <2>1, <2>5 DEF Applied
    <3>2. QED
      BY <2>2, <2>3, <2>4, <2>5, <3>1
  <2>6. CASE events[n].body.case = c
    <3> DEFINE cohort    == LastValue(Seen(c, "COHORT_ASSIGNED", n - 1))
               state     == LastValue(Seen(c, "STATE_TRANSITION", n - 1))
               attempts  == Cardinality(Seen(c, "ACTION_RESULT", n - 1))
               recovered == Flagged(c, n - 1) # {}
               reason    == LastDetail(Closed(c, n - 1))
    <3>1. after[n] = Apply([cohort |-> cohort, state |-> state, attempts |-> attempts,
                            recovered |-> recovered, abandonReason |-> reason], step)
      BY <2>1, <2>6 DEF Applied, step
    <3>2. CASE step.type = "COHORT_ASSIGNED"
      <4>1. /\ LastValue(Seen(c, "COHORT_ASSIGNED", n)) = step.value
            /\ LastValue(Seen(c, "STATE_TRANSITION", n)) = state
            /\ Cardinality(Seen(c, "ACTION_RESULT", n)) = attempts
            /\ LastDetail(Closed(c, n)) = reason
        BY <2>2, <2>3, <2>6, <3>2
      <4>2. (Flagged(c, n) # {}) = recovered
        BY <2>4, <2>6, <3>2
      <4> HIDE DEF cohort, state, attempts, recovered, reason
      <4>3. after[n] = [cohort |-> step.value, state |-> state, attempts |-> attempts,
                        recovered |-> recovered, abandonReason |-> reason]
        BY <3>1, <3>2 DEF Apply
      <4>4. QED
        BY <4>1, <4>2, <4>3, Zenon
    <3>3. CASE step.type = "STATE_TRANSITION"
      <4> DEFINE why == IF Reasoned(step) THEN step.detail ELSE reason
      <4>1. /\ LastValue(Seen(c, "COHORT_ASSIGNED", n)) = cohort
            /\ LastValue(Seen(c, "STATE_TRANSITION", n)) = step.value
            /\ Cardinality(Seen(c, "ACTION_RESULT", n)) = attempts
            /\ LastDetail(Closed(c, n)) = why
        BY <2>2, <2>3, <2>6, <3>3
      <4>2. (Flagged(c, n) # {}) = recovered
        BY <2>4, <2>6, <3>3
      <4> HIDE DEF cohort, state, attempts, recovered, reason
      <4>3. after[n] = [cohort |-> cohort, state |-> step.value, attempts |-> attempts,
                        recovered |-> recovered, abandonReason |-> why]
        BY <3>1, <3>3 DEF Apply
      <4> HIDE DEF why
      <4>4. QED
        BY <4>1, <4>2, <4>3, Zenon
    <3>4. CASE step.type = "ACTION_RESULT"
      <4> DEFINE more == recovered \/ step.detail = "TRUE"
      <4>1. /\ LastValue(Seen(c, "COHORT_ASSIGNED", n)) = cohort
            /\ LastValue(Seen(c, "STATE_TRANSITION", n)) = state
            /\ Cardinality(Seen(c, "ACTION_RESULT", n)) = attempts + 1
            /\ LastDetail(Closed(c, n)) = reason
        BY <2>2, <2>3, <2>6, <3>4
      <4>2. (Flagged(c, n) # {}) = more
        BY <2>4, <2>6, <3>4
      <4> HIDE DEF cohort, state, attempts, recovered, reason
      <4>3. after[n] = [cohort |-> cohort, state |-> state, attempts |-> attempts + 1,
                        recovered |-> more, abandonReason |-> reason]
        BY <3>1, <3>4 DEF Apply
      <4> HIDE DEF more
      <4>4. QED
        BY <4>1, <4>2, <4>3, Zenon
    <3>5. CASE step.type \notin {"COHORT_ASSIGNED", "STATE_TRANSITION", "ACTION_RESULT"}
      BY <2>2, <2>3, <2>4, <2>6, <3>1, <3>5 DEF Apply
    <3>6. QED
      BY <3>2, <3>3, <3>4, <3>5
  <2>7. QED
    BY <2>5, <2>6
<1>5. Len(events) \in Good
  <2> DEFINE N == Len(events)
  <2>1. N \in Nat /\ \A n \in 1 .. N : n - 1 \in Good => n \in Good
    BY <1>0, <1>4
  <2> HIDE DEF Good, N
  <2>2. \A n \in 0 .. N : n \in Good
    BY <1>3, <2>1, PrefixInduction
  <2>3. QED
    BY <2>1, <2>2 DEF N
<1>6. QED
  BY <1>2, <1>5

\* However many connections append, and die between their statements: replay() finds
\* the last cohort and state of a case, as many attempts as it has results, a recovery if
\* a result is flagged, and the last reason for an abandonment, in logs of any length and
\* any mix of cases and kinds of events.
THEOREM ReplayIsFaithful == AuditSpec => []ReplayReadsTheLog
<1>1. AuditTypeOK => ReplayReadsTheLog
  BY ReplayIsSummary DEF AuditTypeOK
<1>2. QED
  BY <1>1, AuditTypesHold, PTL
=============================================================================
