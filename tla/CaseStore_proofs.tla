-------------------------- MODULE CaseStore_proofs --------------------------
(***************************************************************************)
(* What optimistic concurrency guarantees about the `cases' table, for any *)
(* number of cases and of connections.  The argument is one inductive       *)
(* invariant, SnapshotsHonest: a call of transition() whose version is      *)
(* still the row's sees the row in the state it checked the edge against.   *)
(***************************************************************************)
EXTENDS CaseStore, TLAPS

\* Every step of the store, with UPDATE's three outcomes told apart: used to
\* split the step in each proof below.
LEMMA StepCases ==
  ASSUME [StoreNext]_storeVars
  PROVE  \/ \E c \in Cases, k \in Cohorts : CreateCase(c, k)
         \/ \E w \in Writers, c \in Cases, to \in States, b \in BOOLEAN :
              SelectRow(w, c, to, b)
         \/ \E p \in pending : UpdateRow(p)
         \/ \E p \in pending : LoseRace(p) \/ DropCall(p)
         \/ UNCHANGED storeVars
  BY DEF StoreNext

\* The row an UPDATE writes is a row of the table.
LEMMA WrittenIsRow ==
  ASSUME StoreTypeOK, NEW p \in pending
  PROVE  /\ Written(p) \in Row
         /\ Written(p).state = p.to
         /\ Written(p).version = rows[p.case].version + 1
         /\ Written(p).cohort = rows[p.case].cohort
<1>1. p \in Call /\ rows[p.case] \in Row
  BY DEF StoreTypeOK, Call
<1>2. Counted(p) \in Nat
  BY <1>1 DEF Counted, Row
<1>3. QED
  BY <1>1, <1>2 DEF Written, Row, Call

\* Every statement of the store keeps the types of rows and calls.
LEMMA StoreTypeStep ==
  ASSUME StoreTypeOK, [StoreNext]_storeVars
  PROVE  StoreTypeOK'
<1>1. ASSUME NEW c \in Cases, NEW k \in Cohorts, CreateCase(c, k)
      PROVE  StoreTypeOK'
  <2>1. NewRow(k) \in Row
    BY DEF NewRow, Row, States
  <2>2. QED
    BY <1>1, <2>1 DEF CreateCase, StoreTypeOK
<1>2. ASSUME NEW w \in Writers, NEW c \in Cases, NEW to \in States,
             NEW b \in BOOLEAN, SelectRow(w, c, to, b)
      PROVE  StoreTypeOK'
  <2>1. rows[c] \in Row /\ rows[c].state # "ABSENT"
    BY <1>2 DEF StoreTypeOK, SelectRow, Exists
  <2>2. [writer |-> w, case |-> c, from |-> rows[c].state, to |-> to,
         counts |-> b, version |-> rows[c].version] \in Call
    BY <2>1 DEF Call, Row
  <2>3. QED
    BY <1>2, <2>2 DEF SelectRow, StoreTypeOK
<1>3. ASSUME NEW p \in pending, UpdateRow(p)
      PROVE  StoreTypeOK'
  <2>1. Written(p) \in Row
    BY WrittenIsRow
  <2>2. QED
    BY <1>3, <2>1 DEF UpdateRow, StoreTypeOK
<1>4. ASSUME NEW p \in pending, LoseRace(p) \/ DropCall(p)
      PROVE  StoreTypeOK'
  BY <1>4 DEF LoseRace, DropCall, StoreTypeOK
<1>5. CASE UNCHANGED storeVars
  BY <1>5 DEF storeVars, StoreTypeOK
<1>6. QED
  BY <1>1, <1>2, <1>3, <1>4, <1>5, StepCases

\* A connection that is in a call of transition() does not begin another.
LEMMA OneCallStep ==
  ASSUME OneCallPerWriter, [StoreNext]_storeVars
  PROVE  OneCallPerWriter'
<1>1. ASSUME NEW w \in Writers, NEW c \in Cases, NEW to \in States,
             NEW b \in BOOLEAN, SelectRow(w, c, to, b)
      PROVE  OneCallPerWriter'
  BY <1>1 DEF SelectRow, Idle, OneCallPerWriter
<1>2. ASSUME pending' \subseteq pending
      PROVE  OneCallPerWriter'
  BY <1>2 DEF OneCallPerWriter
<1>3. QED
  BY <1>1, <1>2, StepCases
     DEF CreateCase, UpdateRow, LoseRace, DropCall, storeVars

\* A row is never deleted and never changes its cohort.
LEMMA RowKept ==
  ASSUME StoreTypeOK, [StoreNext]_storeVars, NEW c \in Cases, Exists(c)
  PROVE  Exists(c)' /\ rows'[c].cohort = rows[c].cohort
<1>1. ASSUME NEW d \in Cases, NEW k \in Cohorts, CreateCase(d, k)
      PROVE  rows'[c] = rows[c]
  BY <1>1 DEF CreateCase, StoreTypeOK
<1>2. ASSUME NEW p \in pending, UpdateRow(p)
      PROVE  Exists(c)' /\ rows'[c].cohort = rows[c].cohort
  <2>1. CASE p.case = c
    <3>1. rows'[c] = Written(p)
      BY <1>2, <2>1 DEF UpdateRow, StoreTypeOK
    <3>2. p.to \in States /\ Written(p).state = p.to
          /\ Written(p).cohort = rows[c].cohort
      BY <2>1, WrittenIsRow DEF StoreTypeOK, Call
    <3>3. QED
      BY <3>1, <3>2 DEF Exists, States
  <2>2. CASE p.case # c
    BY <1>2, <2>2 DEF UpdateRow, StoreTypeOK, Exists
  <2>3. QED
    BY <2>1, <2>2
<1>3. QED
  BY <1>1, <1>2, StepCases DEF SelectRow, LoseRace, DropCall, storeVars, Exists

\* Rows and open calls keep their types.
THEOREM StoreTypeCorrect == StoreSpec => []StoreTypeOK
<1>1. StoreInit => StoreTypeOK
  BY DEF StoreInit, StoreTypeOK, NoRow, Row, Cohorts
<1>2. QED
  BY <1>1, StoreTypeStep, PTL DEF StoreSpec

\* Every statement of the store keeps the snapshots honest.
LEMMA HonestStep ==
  ASSUME StoreTypeOK, SnapshotsHonest, [StoreNext]_storeVars
  PROVE  SnapshotsHonest'
<1> USE DEF SnapshotsHonest
<1>1. ASSUME NEW c \in Cases, NEW k \in Cohorts, CreateCase(c, k)
      PROVE  SnapshotsHonest'
  <2>1. \A p \in pending : p.case # c
    BY <1>1 DEF CreateCase
  <2>2. \A p \in pending : rows'[p.case] = rows[p.case]
    BY <1>1, <2>1 DEF CreateCase, StoreTypeOK, Call
  <2>3. QED
    BY <1>1, <2>2 DEF CreateCase, Exists
<1>2. ASSUME NEW w \in Writers, NEW c \in Cases, NEW to \in States,
             NEW b \in BOOLEAN, SelectRow(w, c, to, b)
      PROVE  SnapshotsHonest'
  <2> DEFINE new == [writer |-> w, case |-> c, from |-> rows[c].state,
                     to |-> to, counts |-> b, version |-> rows[c].version]
  <2>1. rows[c].version \in Nat
    BY DEF StoreTypeOK, Row
  <2>2. pending' = pending \cup {new} /\ rows' = rows
    BY <1>2 DEF SelectRow
  <2>3. /\ Exists(new.case)
        /\ new.version <= rows[new.case].version
        /\ rows[new.case].state = new.from
        /\ new.to \in VALID_TRANSITIONS[new.from]
    BY <1>2, <2>1 DEF SelectRow
  <2>4. QED
    BY <2>2, <2>3 DEF Exists
<1>3. ASSUME NEW q \in pending, UpdateRow(q)
      PROVE  SnapshotsHonest'
  <2> SUFFICES ASSUME NEW p \in pending'
               PROVE  (/\ Exists(p.case)
                       /\ p.version <= rows[p.case].version
                       /\ p.version = rows[p.case].version
                            => rows[p.case].state = p.from)'
                      /\ p.to \in VALID_TRANSITIONS[p.from]
    OBVIOUS
  <2>1. p \in pending /\ p \in Call /\ q \in Call
    BY <1>3 DEF UpdateRow, StoreTypeOK
  <2>2. CASE p.case # q.case
    <3>1. rows'[p.case] = rows[p.case]
      BY <1>3, <2>1, <2>2 DEF UpdateRow, StoreTypeOK
    <3>2. QED
      BY <2>1, <3>1 DEF Exists
  <2>3. CASE p.case = q.case
    <3>1. rows'[p.case] = Written(q)
      BY <1>3, <2>1, <2>3 DEF UpdateRow, StoreTypeOK, Call
    <3>2. /\ Written(q).state = q.to
          /\ Written(q).version = rows[p.case].version + 1
      BY <2>3, WrittenIsRow
    <3>3. /\ p.version <= rows[p.case].version
          /\ rows[p.case].version \in Nat /\ p.version \in Nat
      BY <2>1 DEF StoreTypeOK, Row, Call
    <3>4. q.to # "ABSENT"
      BY <2>1 DEF Call, States
    <3>5. QED
      BY <2>1, <3>1, <3>2, <3>3, <3>4 DEF Exists
  <2>4. QED
    BY <2>2, <2>3
<1>4. ASSUME NEW p \in pending, LoseRace(p) \/ DropCall(p)
      PROVE  SnapshotsHonest'
  BY <1>4 DEF LoseRace, DropCall, Exists
<1>5. CASE UNCHANGED storeVars
  BY <1>5 DEF storeVars, Exists
<1>6. QED
  BY <1>1, <1>2, <1>3, <1>4, <1>5, StepCases

\* A call that would still win its UPDATE checked its edge against the state
\* the row is in now.
THEOREM SnapshotsStayHonest == StoreSpec => []SnapshotsHonest
<1>1. StoreInit => SnapshotsHonest
  BY DEF StoreInit, SnapshotsHonest
<1>2. QED
  BY <1>1, HonestStep, StoreTypeCorrect, PTL DEF StoreSpec

\* What one step does to one row: nothing, or the INSERT, or the UPDATE of a
\* call whose snapshot was current.
LEMMA RowStep ==
  ASSUME StoreTypeOK, SnapshotsHonest, [StoreNext]_storeVars,
         NEW c \in Cases, rows'[c] # rows[c]
  PROVE  \/ ~Exists(c) /\ rows'[c].state = "DETECTED"
         \/ \E p \in pending :
              /\ p.case = c /\ UpdateRow(p) /\ Exists(c)
              /\ rows'[c] = Written(p) /\ rows'[c].state = p.to
              /\ p.to \in VALID_TRANSITIONS[rows[c].state]
<1>1. ASSUME NEW d \in Cases, NEW k \in Cohorts, CreateCase(d, k)
      PROVE  ~Exists(c) /\ rows'[c].state = "DETECTED"
  <2>1. d = c
    BY <1>1 DEF CreateCase, StoreTypeOK
  <2>2. rows'[c] = NewRow(k)
    BY <1>1, <2>1 DEF CreateCase, StoreTypeOK
  <2>3. QED
    BY <1>1, <2>1, <2>2 DEF CreateCase, NewRow
<1>2. ASSUME NEW p \in pending, UpdateRow(p)
      PROVE  /\ p.case = c /\ UpdateRow(p) /\ Exists(c)
             /\ rows'[c] = Written(p) /\ rows'[c].state = p.to
             /\ p.to \in VALID_TRANSITIONS[rows[c].state]
  <2>1. p.case = c
    BY <1>2 DEF UpdateRow, StoreTypeOK
  <2>2. rows'[c] = Written(p)
    BY <1>2, <2>1 DEF UpdateRow, StoreTypeOK
  <2>3. Exists(c) /\ p.to \in VALID_TRANSITIONS[rows[c].state]
    BY <1>2, <2>1 DEF SnapshotsHonest, UpdateRow, Fresh
  <2>4. Written(p).state = p.to
    BY <2>1, <2>3, WrittenIsRow
  <2>5. QED
    BY <1>2, <2>1, <2>2, <2>3, <2>4
<1>3. QED
  BY <1>1, <1>2, StepCases DEF SelectRow, LoseRace, DropCall, storeVars

\* A row only moves along an edge of VALID_TRANSITIONS.
THEOREM RowsFollowEdges == StoreSpec => EdgesOnly
<1> DEFINE Edge(c) ==
      rows'[c].state # rows[c].state =>
        \/ ~Exists(c) /\ rows'[c].state = "DETECTED"
        \/ Exists(c) /\ rows'[c].state \in VALID_TRANSITIONS[rows[c].state]
<1>1. StoreTypeOK /\ SnapshotsHonest /\ [StoreNext]_storeVars
        => [\A c \in Cases : Edge(c)]_storeVars
  <2> SUFFICES ASSUME StoreTypeOK, SnapshotsHonest, [StoreNext]_storeVars,
                      NEW c \in Cases, rows'[c].state # rows[c].state
               PROVE  \/ ~Exists(c) /\ rows'[c].state = "DETECTED"
                      \/ /\ Exists(c)
                         /\ rows'[c].state \in VALID_TRANSITIONS[rows[c].state]
    OBVIOUS
  <2>1. rows'[c] # rows[c]
    OBVIOUS
  <2>2. QED
    BY <2>1, RowStep
<1>2. QED
  BY <1>1, StoreTypeCorrect, SnapshotsStayHonest, PTL DEF StoreSpec, EdgesOnly

\* A terminal row is never written again.
THEOREM TerminalIsFinal == StoreSpec => TerminalRowsFrozen
<1>1. StoreTypeOK /\ SnapshotsHonest /\ [StoreNext]_storeVars
        => [\A c \in Cases :
              rows[c].state \in TERMINAL_STATES => rows'[c] = rows[c]]_storeVars
  <2> SUFFICES ASSUME StoreTypeOK, SnapshotsHonest, [StoreNext]_storeVars,
                      NEW c \in Cases, rows[c].state \in TERMINAL_STATES,
                      rows'[c] # rows[c]
               PROVE  FALSE
    OBVIOUS
  <2>1. Exists(c) /\ VALID_TRANSITIONS[rows[c].state] = {}
    BY DEF TERMINAL_STATES, Exists, States
  <2>2. QED
    BY <2>1, RowStep
<1>2. QED
  BY <1>1, StoreTypeCorrect, SnapshotsStayHonest, PTL
     DEF StoreSpec, TerminalRowsFrozen

\* Of the calls that read one version of a row at most one writes it.
THEOREM OneWriteWins == StoreSpec => OneWinnerPerVersion
<1>1. StoreTypeOK /\ SnapshotsHonest /\ [StoreNext]_storeVars
        => [\A c \in Cases :
              Exists(c) /\ rows'[c] # rows[c] =>
                \A p \in pending' : p.case = c =>
                   p.version < rows'[c].version]_storeVars
  <2> SUFFICES ASSUME StoreTypeOK, SnapshotsHonest, [StoreNext]_storeVars,
                      NEW c \in Cases, Exists(c), rows'[c] # rows[c],
                      NEW p \in pending', p.case = c
               PROVE  p.version < rows'[c].version
    OBVIOUS
  <2>1. PICK q \in pending : /\ q.case = c /\ UpdateRow(q)
                             /\ rows'[c] = Written(q)
    BY RowStep
  <2>2. rows'[c].version = rows[c].version + 1
    BY <2>1, WrittenIsRow
  <2>3. p \in pending
    BY <2>1 DEF UpdateRow
  <2>4. p.version <= rows[c].version /\ p.version \in Nat /\ rows[c].version \in Nat
    BY <2>3 DEF SnapshotsHonest, StoreTypeOK, Call, Row
  <2>5. QED
    BY <2>2, <2>4
<1>2. QED
  BY <1>1, StoreTypeCorrect, SnapshotsStayHonest, PTL
     DEF StoreSpec, OneWinnerPerVersion
=============================================================================
