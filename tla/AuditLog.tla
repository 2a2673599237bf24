------------------------------ MODULE AuditLog ------------------------------
(***************************************************************************)
(* The hash-chained event table (agent/audit.py): append, verify_chain and  *)
(* replay.                                                                 *)
(*                                                                         *)
(* append() is two SQL statements outside a transaction: it SELECTs the    *)
(* hash of the last row, then INSERTs its own row.  `drafts' holds the     *)
(* calls between the two.  The triggers audit_no_update and audit_no_delete *)
(* leave no other way to write the table.                                  *)
(*                                                                         *)
(* SHA-256 is taken to have no collisions: the hash of a row stands for    *)
(* what was hashed to get it, the bodies of the rows of the chain up to it. *)
(***************************************************************************)
EXTENDS Naturals, Sequences, FiniteSets

CONSTANTS Appenders,  \* connections that call append()
          Cases,      \* case ids
          Steps       \* what an event says: a set of [type, value, detail]; detail is
                      \* the reason of a transition, or the flag "succeeded" of a
                      \* result, and "none" where the payload has no such key

VARIABLES events,     \* the rows of audit_events, in the order of seq
          drafts      \* the rows about to be INSERTed, with who will do it

auditVars == <<events, drafts>>

Body == [case : Cases, step : Steps]

EVENTS == {"SIGNAL_RECEIVED", "COHORT_ASSIGNED", "TRIAGE_RESULT", "DIAGNOSIS_RETURNED",
           "POLICY_VERDICT", "ACTION_DISPATCHED", "ACTION_RESULT", "ACTION_REFUSED",
           "ACTION_UNCERTAIN", "RECONCILIATION_RESOLVED", "STATE_TRANSITION",
           "DECISION_RECORDED"}

GENESIS == <<>>

Digest(prev, body) == Append(prev, body)

LastHash == IF events = <<>> THEN GENESIS ELSE events[Len(events)].hash

AuditInit ==
  /\ events = <<>>
  /\ drafts = {}

Waiting(a) == \E d \in drafts : d.by = a

\* A bug: what was hashed is kept in the place of its hash.
RowUnhashed(body) == [body |-> body, prev |-> LastHash, hash |-> <<LastHash, body>>]

RowFor(body) == [body |-> body, prev |-> LastHash, hash |-> Digest(LastHash, body)]

\* The SELECT of append(), and the digest.  An unknown type raises before it.
Draft(a, body) ==
  /\ ~Waiting(a) /\ body.step.type \in EVENTS
  /\ drafts' = drafts \cup {[by |-> a, row |-> RowFor(body)]}
  /\ UNCHANGED events

\* Its INSERT: seq is AUTOINCREMENT, so the row comes last.
Insert(d) ==
  /\ events' = Append(events, d.row)
  /\ drafts' = drafts \ {d}

\* The appender dies between the two.
Abandon(d) ==
  /\ drafts' = drafts \ {d}
  /\ UNCHANGED events

AuditNext ==
  \/ \E a \in Appenders, b \in Body : Draft(a, b)
  \/ \E d \in drafts : Insert(d) \/ Abandon(d)

AuditSpec == AuditInit /\ [][AuditNext]_auditVars

----------------------------------------------------------------------------
(* Reading the table *)

PrevOf(table, i) == IF i = 1 THEN GENESIS ELSE table[i - 1].hash

\* A bug: a row is checked against itself, not against the row before it.
RowVerifiesAlone(table, i) == table[i].hash = Digest(table[i].prev, table[i].body)

RowVerifies(table, i) ==
  /\ table[i].prev = PrevOf(table, i)
  /\ table[i].hash = Digest(PrevOf(table, i), table[i].body)

\* verify_chain.
Verifies(table) == \A i \in DOMAIN table : RowVerifies(table, i)

NoReplay == [cohort |-> "NONE", state |-> "NONE", attempts |-> 0, recovered |-> FALSE,
             abandonReason |-> "NONE"]

\* The reason that a closed case goes by.
Reasoned(step) == step.value = "ABANDONED" /\ step.detail # "none"

\* A bug: a refusal is counted like a result.
ApplyRefused(r, step) ==
  CASE step.type = "COHORT_ASSIGNED"  -> [r EXCEPT !.cohort = step.value]
    [] step.type = "STATE_TRANSITION" -> [r EXCEPT !.state = step.value]
    [] step.type \in {"ACTION_RESULT", "ACTION_REFUSED"} ->
         [r EXCEPT !.attempts = @ + 1]
    [] OTHER -> r

\* What one event changes of the state that replay() rebuilds.
Apply(r, step) ==
  CASE step.type = "COHORT_ASSIGNED"  -> [r EXCEPT !.cohort = step.value]
    [] step.type = "STATE_TRANSITION" ->
         [r EXCEPT !.state = step.value,
                   !.abandonReason = IF Reasoned(step) THEN step.detail ELSE @]
    [] step.type = "ACTION_RESULT"    ->
         [r EXCEPT !.attempts = @ + 1, !.recovered = @ \/ step.detail = "TRUE"]
    [] OTHER -> r

\* replay(): the events that events_for() selects, folded in the order of seq.
Replay(table, c) ==
  LET after[n \in 0 .. Len(table)] ==
        IF n = 0 THEN NoReplay
        ELSE IF table[n].body.case = c THEN Apply(after[n - 1], table[n].body.step)
             ELSE after[n - 1]
  IN  after[Len(table)]

\* The ACTION_RESULT of process_case(): model_dump() of an ActionResult.  It has
\* `outcome', and as `succeeded' is a property of the class and no field, not that.
ResultStep(outcome) == [type |-> "ACTION_RESULT", value |-> outcome, detail |-> "none"]

\* The one that trigger_unsafe_ai_blocked() makes up.
ForgedStep == [type |-> "ACTION_RESULT", value |-> "FAILED", detail |-> "FALSE"]

----------------------------------------------------------------------------
(* Properties *)

Row == [body : Body, prev : Seq(Body), hash : Seq(Body)]

AuditTypeOK ==
  /\ events \in Seq(Row)
  /\ drafts \subseteq [by : Appenders, row : Row]

\* The chain of a table that only append() wrote verifies.
ChainVerifies == Verifies(events)

\* A change behind the triggers' back shows, and nothing else does: the table as append()
\* wrote it verifies, and no row can be altered, taken out of the middle, or swapped with
\* another one without breaking the chain.
TamperingShows ==
  /\ ChainVerifies
  /\ \A i \in DOMAIN events :
       /\ \A b \in Body \ {events[i].body} :
            ~Verifies([events EXCEPT ![i].body = b])
       /\ i < Len(events) =>
            ~Verifies(SubSeq(events, 1, i - 1) \o SubSeq(events, i + 1, Len(events)))
       /\ \A j \in DOMAIN events : j # i =>
            ~Verifies([events EXCEPT ![i] = events[j], ![j] = events[i]])

OfType(c, type) ==
  {i \in DOMAIN events : events[i].body.case = c /\ events[i].body.step.type = type}

Last(S) == CHOOSE i \in S : \A j \in S : j <= i

LastValue(S) == IF S = {} THEN "NONE" ELSE events[Last(S)].body.step.value

LastDetail(S) == IF S = {} THEN "NONE" ELSE events[Last(S)].body.step.detail

\* What replay() rebuilds by going through the events of a case is what the table says
\* of it as a whole: the last cohort, the last state, one attempt for each result, a
\* recovery if a result has the flag (that of process_case() never has), and the last reason
\* it was abandoned for.  Other cases, refusals and uncertain outcomes change nothing.
ReplayReadsTheLog ==
  \A c \in Cases :
    LET closed == {i \in OfType(c, "STATE_TRANSITION") : Reasoned(events[i].body.step)}
        flagged == {i \in OfType(c, "ACTION_RESULT") : events[i].body.step.detail = "TRUE"}
    IN  Replay(events, c) =
          [cohort        |-> LastValue(OfType(c, "COHORT_ASSIGNED")),
           state         |-> LastValue(OfType(c, "STATE_TRANSITION")),
           attempts      |-> Cardinality(OfType(c, "ACTION_RESULT")),
           recovered     |-> flagged # {},
           abandonReason |-> LastDetail(closed)]
=============================================================================
