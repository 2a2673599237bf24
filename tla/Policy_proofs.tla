--------------------------- MODULE Policy_proofs ---------------------------
(***************************************************************************)
(* What the decision of evaluate() means, for any proposal, case and caps:  *)
(* facts that the proofs about its callers cite.                           *)
(***************************************************************************)
EXTENDS Policy, TLAPS

\* A request is allowed only if none of the gates of evaluate() fires.
LEMMA AllowedMeansUngated ==
  ASSUME NEW p, NEW v, NEW h \in BOOLEAN, DecisionOf(p, v, h) = "ALLOW"
  PROVE  /\ ~h
         /\ v.cohort # "HOLDOUT"
         /\ p.class \notin DenyClasses
         /\ p.action = "RETRY"
         /\ ~CapReached(v)
         /\ ~EVNotPositive(v)
         /\ ~(p.confidence < MinConfidence)
<1>1. Firing(p, v, h) = {}
  BY DEF DecisionOf
<1>2. \A i \in 1 .. 10 : ~Fires(GateOrder[i], p, v, h)
  BY <1>1 DEF Firing, GateOrder
<1>3. /\ ~Fires("SUPPORTED_ACTION", p, v, h)
      /\ ~Fires("KILL_SWITCH", p, v, h)
      /\ ~Fires("HOLDOUT_GUARD", p, v, h)
      /\ ~Fires("TERMINAL_CLASS", p, v, h)
      /\ ~Fires("ATTEMPT_CAP", p, v, h)
      /\ ~Fires("STOP_PROPOSED", p, v, h)
      /\ ~Fires("EV_FLOOR", p, v, h)
      /\ ~Fires("CONFIDENCE_FLOOR", p, v, h)
  <2>1. /\ GateOrder[2] = "SUPPORTED_ACTION"
        /\ GateOrder[3] = "KILL_SWITCH"
        /\ GateOrder[4] = "HOLDOUT_GUARD"
        /\ GateOrder[5] = "TERMINAL_CLASS"
        /\ GateOrder[6] = "ATTEMPT_CAP"
        /\ GateOrder[8] = "STOP_PROPOSED"
        /\ GateOrder[9] = "EV_FLOOR"
        /\ GateOrder[10] = "CONFIDENCE_FLOOR"
    BY DEF GateOrder
  <2>2. 2 \in 1..10 /\ 3 \in 1..10 /\ 4 \in 1..10 /\ 5 \in 1..10 /\ 6 \in 1..10
        /\ 8 \in 1..10 /\ 9 \in 1..10 /\ 10 \in 1..10
    OBVIOUS
  <2>3. QED
    BY <1>2, <2>1, <2>2
<1>4. /\ ~h
      /\ v.cohort # "HOLDOUT"
      /\ p.class \notin DenyClasses
      /\ ~CapReached(v)
      /\ ~EVNotPositive(v)
      /\ ~(p.confidence < MinConfidence)
  BY <1>3 DEF Fires
<1>5. p.action \in SupportedActions /\ p.action # "STOP"
  BY <1>3 DEF Fires
<1>6. QED
  BY <1>4, <1>5 DEF SupportedActions

\* The gate that decides is the first of those that fire.
LEMMA DecidingGateFires ==
  ASSUME NEW p, NEW v, NEW h, Firing(p, v, h) # {}
  PROVE  \E i \in 1 .. 10 : /\ DecidingGate(p, v, h) = GateOrder[i]
                            /\ Fires(GateOrder[i], p, v, h)
                            /\ \A j \in 1 .. 10 : Fires(GateOrder[j], p, v, h) => i <= j
<1> DEFINE F == Firing(p, v, h)
<1>1. /\ F \subseteq 1 .. 10
      /\ \A j \in 1 .. 10 : j \in F <=> Fires(GateOrder[j], p, v, h)
  <2>1. DOMAIN GateOrder = 1 .. 10
    BY DEF GateOrder
  <2>2. QED
    BY <2>1 DEF Firing
<1> HIDE DEF F
<1>2. \E i \in F : \A j \in F : i <= j
  <2>1. SUFFICES ASSUME \A i \in F : \E j \in F : j < i
                 PROVE  FALSE
    BY <1>1
  <2>2. PICK i \in F : TRUE
    BY DEF F
  <2>3. \A n \in 1 .. 10 : (\A j \in F : n <= j) => n \notin F
    BY <1>1, <2>1
  <2>4. \A n \in 1 .. 10 : (\A j \in F : n <= j) => \A j \in F : n + 1 <= j
    BY <1>1, <2>3
  <2>5. \A j \in F : 1 <= j
    BY <1>1
  <2>6. \A j \in F : 6 <= j
    BY <2>4, <2>5
  <2>7. \A j \in F : 11 <= j
    BY <2>4, <2>6
  <2>8. QED
    BY <1>1, <2>2, <2>7
<1> DEFINE first == CHOOSE i \in F : \A j \in F : i <= j
<1>3. first \in F /\ \A j \in F : first <= j
  BY <1>2
<1>4. DecidingGate(p, v, h) = GateOrder[first]
  BY DEF DecidingGate, F
<1> HIDE DEF first
<1>5. QED
  BY <1>1, <1>3, <1>4

\* A request that fires one of the nine gates before the last is denied.
LEMMA BlockedIsDenied ==
  ASSUME NEW p, NEW v, NEW h, NEW i \in 1 .. 9, Fires(GateOrder[i], p, v, h)
  PROVE  DecisionOf(p, v, h) = "DENY"
<1>1. Firing(p, v, h) # {}
  <2>1. DOMAIN GateOrder = 1 .. 10
    BY DEF GateOrder
  <2>2. i \in Firing(p, v, h)
    BY <2>1 DEF Firing
  <2>3. QED
    BY <2>2
<1>2. PICK k \in 1 .. 10 : DecidingGate(p, v, h) = GateOrder[k] /\ k <= i
  BY <1>1, DecidingGateFires
<1>3. GateOrder[k] # "CONFIDENCE_FLOOR"
  BY <1>2 DEF GateOrder
<1>4. QED
  BY <1>1, <1>2, <1>3 DEF DecisionOf

\* The holdout gate decides nothing of a treated case.
LEMMA TreatedIsNotHeldOut ==
  ASSUME NEW p, NEW v, NEW h, v.cohort = "TREATED"
  PROVE  DecidingGate(p, v, h) # "HOLDOUT_GUARD"
<1>1. ~Fires("HOLDOUT_GUARD", p, v, h)
  BY DEF Fires
<1>2. CASE Firing(p, v, h) = {}
  BY <1>2 DEF DecidingGate
<1>3. CASE Firing(p, v, h) # {}
  BY <1>1, <1>3, DecidingGateFires
<1>4. QED
  BY <1>2, <1>3

\* A request of which no gate fires is allowed.
LEMMA UngatedIsAllowed ==
  ASSUME NEW p, NEW v, v.state \in ActionableStates, p.action = "RETRY",
         v.cohort # "HOLDOUT", p.class \notin DenyClasses, ~CapReached(v),
         v.attempts + 1 \notin v.keys, ~EVNotPositive(v), ~(p.confidence < MinConfidence)
  PROVE  DecisionOf(p, v, FALSE) = "ALLOW"
<1>1. ASSUME NEW i \in 1 .. 10
      PROVE  ~Fires(GateOrder[i], p, v, FALSE)
  <2>1. GateOrder[i] \in {"REQUIRED_STATE", "SUPPORTED_ACTION", "KILL_SWITCH",
                          "HOLDOUT_GUARD", "TERMINAL_CLASS", "ATTEMPT_CAP",
                          "DUPLICATE_ACTION", "STOP_PROPOSED", "EV_FLOOR",
                          "CONFIDENCE_FLOOR"}
    BY DEF GateOrder
  <2>2. QED
    BY <2>1 DEF Fires, SupportedActions
<1>2. Firing(p, v, FALSE) = {}
  <2>1. DOMAIN GateOrder = 1 .. 10
    BY DEF GateOrder
  <2>2. QED
    BY <1>1, <2>1 DEF Firing
<1>3. DecidingGate(p, v, FALSE) = "NONE"
  BY <1>2 DEF DecidingGate
<1>4. QED
  BY <1>2, <1>3 DEF DecisionOf
=============================================================================
