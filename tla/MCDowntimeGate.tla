--------------------------- MODULE MCDowntimeGate ---------------------------
(***************************************************************************)
(* DowntimeGate for TLC: both sides of every threshold of rules.yaml.      *)
(***************************************************************************)
EXTENDS DowntimeGate

\* The caps rules.yaml has.
MCCapByMethod == [m \in Methods |->
                    IF m \in {"card", "netbanking"} THEN 4 ELSE 3]

Window(id, status, begin, end, severity, scope) ==
  [id |-> id, method |-> "card", status |-> status, begin |-> begin,
   end |-> end, severity |-> severity, scope |-> scope]

\* An outage of the bank, a longer and milder one of the whole method, one whose
\* end is unknown, one of another bank, and the first one reported resolved.
MCWindowFeed ==
  { Window("a", "started", 0, 30, "high", {"hdfc"}),
    Window("b", "updated", 0, 600, "low", {}),
    Window("c", "scheduled", 10, NoTime, "medium", {"hdfc"}),
    Window("d", "started", 0, 60, "high", {"icici"}),
    Window("a", "resolved", 0, 30, "high", {"hdfc"}) }

MCTimes == {0, 20, 590}

MCProposals ==
  [class : {"TRANSIENT_INFRA", "UNKNOWN"}, action : Actions,
   confidence : {0, 39, 40, 100}, delay : {0, 40, 20000}]

View(state, cohort, attempts, keys, method, amount) ==
  [state |-> state, cohort |-> cohort, attempts |-> attempts, keys |-> keys,
   method |-> method, amount |-> amount]

\* An actionable view, and one changed in each respect a gate looks at.
MCViews ==
  { View("DIAGNOSED", "TREATED", 0, {}, "card", 1667),
    View("RECOVERED", "TREATED", 0, {}, "card", 1667),
    View("DIAGNOSED", "HOLDOUT", 0, {}, "card", 1667),
    View("DIAGNOSED", "TREATED", 3, {1, 2, 3}, "card", 1667),
    View("DIAGNOSED", "TREATED", 4, {1, 2, 3}, "card", 1667),
    View("DIAGNOSED", "TREATED", 3, {1, 2}, "upi", 1667),
    View("DIAGNOSED", "TREATED", 0, {1}, "card", 1667),
    View("DIAGNOSED", "TREATED", 0, {}, "card", 1666) }
=============================================================================
