---------------------------- MODULE MCScoringRun ----------------------------
(***************************************************************************)
(* ScoringRun for TLC: the sealed corpus, with S1, its alias, and S2.  S1    *)
(* has an ambiguous case that only the baseline, and a model at times,       *)
(* attempts, one that every provider attempts, and a holdout case.          *)
(***************************************************************************)
EXTENDS ScoringRun

MCCapByMethod == [m \in Methods |-> 3]

MCDatasets == {[corpus |-> "test", scenario |-> s] : s \in {"S1", "s1", "S2"}}

Failure(reason, method, recurring, active, cohort, class, organic, now, after) ==
  [reason |-> reason, method |-> method, recurring |-> recurring, amount |-> 249900,
   ctx |-> [active |-> active, end |-> IF active THEN 600 ELSE NoTime],
   cohort |-> cohort, class |-> class,
   probs |-> [pOrganic |-> organic, pNow |-> now, pAfter |-> after]]

MCFailures(active) ==
  << Failure("payment_failed", "emandate", TRUE, FALSE, "TREATED",
             "CUSTOMER_FIXABLE", 25, 40, 40),
     Failure("issuer_down", "card", FALSE, active, "TREATED",
             "TRANSIENT_INFRA", 10, IF active THEN 15 ELSE 55, 60),
     Failure("insufficient_funds", "upi", FALSE, FALSE, "HOLDOUT",
             "CUSTOMER_FIXABLE", 20, 35, 35) >>

MCModelAnswers == {Unknown, Proposal("CUSTOMER_FIXABLE", 80, "fields", "RETRY", 60, 1)}

MCCorpusOf ==
  [x \in MCDatasets \X {42, 43} |->
     CASE x[1].scenario = "S2" -> SubSeq(MCFailures(TRUE), 2, 2)
       [] x[1].scenario # "S2" /\ x[2] = 42 -> MCFailures(FALSE)
       [] OTHER -> SubSeq(MCFailures(FALSE), 1, 1)]

MCRetryDraw == [s \in {1, 2} |-> IF s = 1 THEN <<50, 30, 90>> ELSE <<30, 90, 50>>]
MCOrganicDraw == [s \in {1, 2} |-> IF s = 1 THEN <<22, 4, 21>> ELSE <<4, 22, 18>>]
=============================================================================
