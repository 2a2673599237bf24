---------------------------- MODULE DowntimeGate ----------------------------
(***************************************************************************)
(* The gate in its surroundings: a table of downtime windows that grows and *)
(* is corrected (DowntimeStore.add), a clock that only moves forward        *)
(* (VirtualClock.set), and a stream of requests for evaluate().             *)
(***************************************************************************)
EXTENDS Policy

CONSTANTS WindowFeed,  \* windows the feed may report; two may share an id
          Times,       \* minutes at which a request may be evaluated
          Proposals,   \* what the diagnosis layer may propose
          Views,       \* case views that may be evaluated
          MaxWindows   \* bound on the rows of downtime_windows

VARIABLES windows,     \* the rows of downtime_windows, in scan order
          now,         \* the clock
          request      \* the view being evaluated and the kill switch

\* A proposal has the fields of Proposal that the gate reads; times are minutes.  A
\* window ends at a time or at an unknown one, and has a severity that has a rank.
ASSUME GateAssumption ==
  /\ Proposals \subseteq [class : Recoverability, action : Actions,
                          confidence : 0 .. 100, delay : Int]
  /\ Times \subseteq Nat
  /\ \A w \in WindowFeed :
       w.end \in Nat \cup {NoTime} /\ w.severity \in DOMAIN SeverityRank

gateVars == <<windows, now, request>>

\* The instrument and the method of every request of this module.
Instrument == "hdfc"
Method == "card"

GateInit ==
  /\ windows = <<>>
  /\ now \in Times
  /\ request \in [view : Views, halted : BOOLEAN]

Report(w) ==
  /\ windows' = Added(windows, w)
  /\ Len(windows') <= MaxWindows
  /\ UNCHANGED <<now, request>>

\* VirtualClock.set raises on a time before the present one.
Advance(t) ==
  /\ t > now
  /\ now' = t
  /\ UNCHANGED <<windows, request>>

GateNext ==
  \/ \E w \in WindowFeed : Report(w)
  \/ \E t \in Times : Advance(t)

GateSpec == GateInit /\ [][GateNext]_gateVars

----------------------------------------------------------------------------
(* Properties *)

Context == ContextAt(windows, Method, Instrument, now)

VerdictOn(p) == Evaluate(p, request.view, request.halted, now, Context)

\* Confidence has one use, to send a case that no rule denies to a human: a
\* proposal that is denied stays denied however sure the model is, and of those
\* that are not denied exactly the ones at the floor are allowed.
ConfidenceOnlyAsksAHuman ==
  \A p \in Proposals, k \in {q.confidence : q \in Proposals} :
    LET d == VerdictOn(p).decision
        e == VerdictOn([p EXCEPT !.confidence = k]).decision
    IN  /\ d = "DENY" <=> e = "DENY"
        /\ d # "DENY" => (e = "ALLOW" <=> k >= MinConfidence)

\* Downtime moves an action and only to a later time, and the verdict says that
\* it was deferred exactly when it was.
DowntimeOnlyPostpones ==
  \A p \in Proposals :
    LET v == VerdictOn(p)
        w == Evaluate(p, request.view, request.halted, now, NoDowntime)
    IN  /\ v.decision = w.decision
        /\ v.at >= w.at
        /\ v.deferred <=> v.at > w.at

\* An allowed action runs between 15 minutes and 7 days from now, whatever delay
\* the model asks for, or else when the outage that defers it is over.
ScheduleIsBounded ==
  \A p \in Proposals :
    LET v == VerdictOn(p)
    IN  v.decision = "ALLOW" =>
          /\ v.at >= now + MinDelay
          /\ v.at <= now + MaxDelay \/ v.at = Candidate(now, Context)
          /\ Context.active /\ Context.end # NoTime => v.at > Context.end

\* A new window never hides an outage: while the clock stands, an instrument that
\* is degraded stays so unless the feed reports a window it had reported before.
OutageHiddenOnlyByCorrection ==
  [][ /\ now' = now
      /\ Context.active
      => \/ Context'.active
         \/ \E i \in DOMAIN windows :
              windows[i].id = windows'[Len(windows')].id]_gateVars
=============================================================================
