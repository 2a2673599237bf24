----------------------------- MODULE CaseStore -----------------------------
(***************************************************************************)
(* The `cases' table and the recovery state machine (agent/state.py).      *)
(*                                                                         *)
(* A connection moves a case with two SQL statements that are not in one   *)
(* transaction: `transition' first SELECTs the row and checks the edge,    *)
(* then UPDATEs it WHERE version = the version it saw.  Between the two,   *)
(* any other connection may write the row.  `pending' holds the calls of   *)
(* `transition' that have read and not yet written.                        *)
(***************************************************************************)
EXTENDS Naturals, FiniteSets

CONSTANTS Cases,    \* case ids
          Writers   \* database connections that call transition()

VARIABLES rows,     \* the cases table: case id -> row ("ABSENT": no such row)
          pending   \* calls of transition() between their SELECT and UPDATE

storeVars == <<rows, pending>>

States == {"DETECTED", "DIAGNOSED", "SCHEDULED", "EXECUTING", "FAILED_ATTEMPT",
           "RECOVERED", "ABANDONED", "HOLDOUT_CLOSED", "QUARANTINED"}

Cohorts == {"TREATED", "HOLDOUT"}

VALID_TRANSITIONS ==
  [s \in States |->
     CASE s = "DETECTED"       -> {"DIAGNOSED", "ABANDONED", "QUARANTINED"}
       [] s = "DIAGNOSED"      -> {"SCHEDULED", "ABANDONED", "HOLDOUT_CLOSED",
                                   "QUARANTINED"}
       [] s = "SCHEDULED"      -> {"EXECUTING", "ABANDONED"}
       [] s = "EXECUTING"      -> {"RECOVERED", "FAILED_ATTEMPT", "ABANDONED",
                                   "SCHEDULED", "QUARANTINED"}
       [] s = "FAILED_ATTEMPT" -> {"DIAGNOSED", "SCHEDULED", "ABANDONED"}
       [] s = "QUARANTINED"    -> {"RECOVERED", "FAILED_ATTEMPT", "DIAGNOSED",
                                   "ABANDONED"}
       [] OTHER                -> {}]

\* Derived, as in the code: terminal means that no edge leaves the state.
TERMINAL_STATES == {s \in States : VALID_TRANSITIONS[s] = {}}

Exists(c) == rows[c].state # "ABSENT"

NoRow == [state |-> "ABSENT", cohort |-> "TREATED", attempts |-> 0, version |-> 0]

Row == [state : States \cup {"ABSENT"}, cohort : Cohorts,
        attempts : Nat, version : Nat]

\* `from' and `version' are what the SELECT of the call returned.
Call == [writer : Writers, case : Cases, from : States, to : States,
         counts : BOOLEAN, version : Nat]

----------------------------------------------------------------------------
StoreInit ==
  /\ rows = [c \in Cases |-> NoRow]
  /\ pending = {}

\* A bug: the row is inserted with a state that is no CaseState.
NewRowMistyped(cohort) ==
  [state |-> "NEW", cohort |-> cohort, attempts |-> 0, version |-> 0]

NewRow(cohort) ==
  [state |-> "DETECTED", cohort |-> cohort, attempts |-> 0, version |-> 0]

\* create_case: one INSERT.  On an existing case_id the primary key refuses it
\* (IntegrityError) and nothing changes.
CreateCase(c, cohort) ==
  /\ ~Exists(c)
  /\ rows' = [rows EXCEPT ![c] = NewRow(cohort)]
  /\ UNCHANGED pending

Idle(w) == \A p \in pending : p.writer # w

\* transition, up to its UPDATE: the SELECT and the check of the edge.  When the
\* row is missing or the edge is not in the table the call raises instead.
SelectRow(w, c, to, counts) ==
  /\ Idle(w)
  /\ Exists(c)
  /\ to \in VALID_TRANSITIONS[rows[c].state]
  /\ pending' = pending \cup
       {[writer |-> w, case |-> c, from |-> rows[c].state, to |-> to,
         counts |-> counts, version |-> rows[c].version]}
  /\ UNCHANGED rows

\* A bug: the UPDATE without its "AND version = ?".
FreshIgnored(p) == TRUE

\* The UPDATE's WHERE clause.
Fresh(p) == rows[p.case].version = p.version

Counted(p) == rows[p.case].attempts + (IF p.counts THEN 1 ELSE 0)

\* A bug: the UPDATE without its "version = version + 1".
WrittenSameVersion(p) ==
  [state |-> p.to, cohort |-> rows[p.case].cohort,
   attempts |-> Counted(p), version |-> rows[p.case].version]

\* The row after the SET list of the UPDATE.
Written(p) ==
  [state |-> p.to, cohort |-> rows[p.case].cohort,
   attempts |-> Counted(p), version |-> rows[p.case].version + 1]

\* The UPDATE matches one row ...
UpdateRow(p) ==
  /\ Fresh(p)
  /\ rows' = [rows EXCEPT ![p.case] = Written(p)]
  /\ pending' = pending \ {p}

\* ... or none: IllegalTransition("concurrent modification").
LoseRace(p) ==
  /\ ~Fresh(p)
  /\ pending' = pending \ {p}
  /\ UNCHANGED rows

\* The process dies between the SELECT and the UPDATE.
DropCall(p) ==
  /\ pending' = pending \ {p}
  /\ UNCHANGED rows

StoreNext ==
  \/ \E c \in Cases, k \in Cohorts : CreateCase(c, k)
  \/ \E w \in Writers, c \in Cases, to \in States, b \in BOOLEAN :
       SelectRow(w, c, to, b)
  \/ \E p \in pending : UpdateRow(p) \/ LoseRace(p) \/ DropCall(p)

StoreSpec == StoreInit /\ [][StoreNext]_storeVars

----------------------------------------------------------------------------
(* Properties *)

\* Every row and every open call has its type.
StoreTypeOK ==
  /\ rows \in [Cases -> Row]
  /\ pending \subseteq Call

\* What makes the version check work: an open call never carries a version
\* newer than the row's, and when the two are equal the row is still in the
\* state in which the call checked its edge.
SnapshotsHonest ==
  \A p \in pending :
     /\ Exists(p.case)
     /\ p.version <= rows[p.case].version
     /\ p.version = rows[p.case].version => rows[p.case].state = p.from
     /\ p.to \in VALID_TRANSITIONS[p.from]

\* A connection runs one call of transition() at a time.
OneCallPerWriter == \A p, q \in pending : p.writer = q.writer => p = q

\* A row only ever moves along an edge of VALID_TRANSITIONS, although the edge
\* was checked against a row read in an earlier statement.
EdgesOnly ==
  [][\A c \in Cases :
        rows'[c].state # rows[c].state =>
          \/ ~Exists(c) /\ rows'[c].state = "DETECTED"
          \/ Exists(c) /\ rows'[c].state \in VALID_TRANSITIONS[rows[c].state]]_storeVars

\* A case in a terminal state is never written again: neither its state nor its
\* attempt counter, by any connection, however old its read of the row.
TerminalRowsFrozen ==
  [][\A c \in Cases :
        rows[c].state \in TERMINAL_STATES => rows'[c] = rows[c]]_storeVars

\* Of all the calls that read the same version of a row at most one writes: a
\* write leaves every other open call of the case with a stale version.
OneWinnerPerVersion ==
  [][\A c \in Cases :
        Exists(c) /\ rows'[c] # rows[c] =>
          \A p \in pending' : p.case = c => p.version < rows'[c].version]_storeVars
=============================================================================
