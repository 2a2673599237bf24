------------------------ MODULE LiveRecovery_proofs ------------------------
(***************************************************************************)
(* What holds in live mode.  The executor keeps the contract of its port,    *)
(* for any cases and attempts, however often verdicts are delivered,         *)
(* requests repeated and answers lost.  A case around it keeps its types,    *)
(* for any inputs, caps and models that may answer anything with the schema; *)
(* nothing is allowed which nobody vouched for; and the links at the service *)
(* belong to what the cases did.                                           *)
(***************************************************************************)
EXTENDS LiveRecovery, Policy_proofs, FiniteSetTheorems

----------------------------------------------------------------------------
(* The executor on its own.  It rests on the reference_id: it is a function *)
(* of the key, so that a service that takes a reference once runs a key once. *)

HasRun(k) == \E l \in links : l.key = k

Acknowledged == exec.stage = "read" /\ exec.response \in {"created", "exists"}

\* The inductive invariant: types; a loop that goes on is not over; the reference
\* of a link is that of its key, also of one that may still appear; and a call that
\* was told of a link, or says SUCCEEDED, is about a key that has one.
ExecInv ==
  /\ ExecTypeOK
  /\ exec.stage = "post" => exec.posts < MaxPosts
  /\ exec.stage = "done" => exec.answer \in Contract!Answers
  /\ exec.stage = "done" /\ exec.answer = "SUCCEEDED" => HasRun(KeyOf(exec.verdict))
  /\ Acknowledged => HasRun(KeyOf(exec.verdict))
  /\ exec.stage = "read" => exec.response \in Responses
  /\ \A l \in links \cup inflight : l.ref = <<l.key[1], l.key[2], 0>>

\* A link is the only one with its key, and with its reference.
LEMMA LinkIsItsKey ==
  ASSUME ExecInv, NEW l \in links \cup inflight, NEW m \in links \cup inflight
  PROVE  (l.key = m.key <=> l = m) /\ (l.ref = m.ref <=> l = m)
<1>1. /\ l \in Links /\ l.ref = <<l.key[1], l.key[2], 0>>
      /\ m \in Links /\ m.ref = <<m.key[1], m.key[2], 0>>
  BY DEF ExecInv, ExecTypeOK
<1>2. /\ l = [key |-> l.key, ref |-> l.ref] /\ l.key = <<l.key[1], l.key[2]>>
      /\ m = [key |-> m.key, ref |-> m.ref] /\ m.key = <<m.key[1], m.key[2]>>
  BY <1>1 DEF Links
<1>3. QED
  BY <1>1, <1>2

\* The link a call asks for is well formed, and known to the service just when its
\* key has run.
LEMMA LinkOfCall ==
  ASSUME ExecInv
  PROVE  /\ LinkOf(exec) \in Links
         /\ LinkOf(exec).key = KeyOf(exec.verdict)
         /\ LinkOf(exec).ref = <<LinkOf(exec).key[1], LinkOf(exec).key[2], 0>>
         /\ Known(LinkOf(exec)) <=> HasRun(KeyOf(exec.verdict))
<1>1. exec.verdict \in Verdict
  BY DEF ExecInv, ExecTypeOK, Execs
<1>2. /\ LinkOf(exec) \in Links /\ LinkOf(exec).key = KeyOf(exec.verdict)
      /\ LinkOf(exec).ref = <<LinkOf(exec).key[1], LinkOf(exec).key[2], 0>>
  BY <1>1 DEF LinkOf, KeyOf, Reference, Verdict, Links, MaxPosts
<1>3. \A l \in links : l.ref = LinkOf(exec).ref <=> l.key = LinkOf(exec).key
  <2>1. TAKE l \in links
  <2>2. l \in Links /\ l.ref = <<l.key[1], l.key[2], 0>>
    BY DEF ExecInv, ExecTypeOK
  <2>3. QED
    BY <1>2, <2>2 DEF Links
<1>4. QED
  BY <1>2, <1>3 DEF Known, HasRun

\* The invariant once the parts of a step are known.
LEMMA ExecIs ==
  ASSUME NEW st \in ExecStages, NEW v \in Verdict, NEW n \in 0 .. MaxPosts,
         NEW r \in Responses \cup {"none"}, NEW a \in Contract!Answers \cup {"none"}
  PROVE  /\ At(st, v, n, r, a) \in Execs
         /\ At(st, v, n, r, a).stage = st /\ At(st, v, n, r, a).verdict = v
         /\ At(st, v, n, r, a).posts = n /\ At(st, v, n, r, a).response = r
         /\ At(st, v, n, r, a).answer = a
BY DEF At, Execs

\* The executor at rest.
LEMMA NoExecIs == NoExec \in Execs /\ NoExec.stage = "idle"
<1>1. NoVerdict \in Verdict
  BY ExecAssumption DEF NoVerdict, Verdict
<1>2. QED
  BY <1>1, ExecIs DEF NoExec, ExecStages, MaxPosts

\* The executor starts at rest, with no link and nothing in flight.
LEMMA ExecInvInit ==
  ASSUME ExecInit
  PROVE  ExecInv
BY NoExecIs DEF ExecInit, ExecInv, ExecTypeOK, Acknowledged

\* What one POST does at the service.
LEMMA PostKeepsLinks ==
  ASSUME ExecInv, NEW r \in Responses, Post(r)
  PROVE  /\ links' \in {links, links \cup {LinkOf(exec)}}
         /\ inflight' \in {inflight, inflight \cup {LinkOf(exec)}}
         /\ links' # links => ~HasRun(KeyOf(exec.verdict))
         /\ r \in {"created", "exists"} => \E l \in links' : l.key = KeyOf(exec.verdict)
         /\ exec'.stage = "read" /\ exec'.verdict = exec.verdict /\ exec'.response = r
<1>1. Serve(LinkOf(exec), r)
  BY DEF Post
<1>2. exec'.stage = "read" /\ exec'.verdict = exec.verdict /\ exec'.response = r
  BY DEF Post, At
<1>3. CASE r = "created" /\ Create(LinkOf(exec))
  BY <1>2, <1>3, LinkOfCall DEF Create
<1>4. CASE r = "exists" /\ Known(LinkOf(exec)) /\ UNCHANGED <<links, inflight>>
  BY <1>2, <1>4, LinkOfCall DEF HasRun
<1>5. CASE r \in {"bad", "limited"} /\ UNCHANGED <<links, inflight>>
  BY <1>2, <1>5
<1>6. CASE /\ r \in {"error", "lost"}
           /\ Create(LinkOf(exec)) \/ Delay(LinkOf(exec)) \/ UNCHANGED <<links, inflight>>
  BY <1>2, <1>6, LinkOfCall DEF Create, Delay
<1>7. QED
  BY <1>1, <1>3, <1>4, <1>5, <1>6 DEF Serve

\* Every step of the executor, and of the network, preserves its invariant.
LEMMA ExecInvStep ==
  ASSUME ExecInv, [ExecNext]_execVars
  PROVE  ExecInv'
<1> USE DEF ExecStages, MaxPosts
<1>0. /\ exec \in Execs /\ exec.verdict \in Verdict /\ exec.posts \in 0 .. MaxPosts
      /\ links \subseteq Links /\ inflight \subseteq Links
  BY DEF ExecInv, ExecTypeOK, Execs
<1>1. ASSUME NEW v \in Verdict, Deliver(v)
      PROVE  ExecInv'
  <2>1. /\ exec' \in Execs /\ exec'.stage = "check" /\ UNCHANGED <<links, inflight>>
    BY <1>1, ExecIs DEF Deliver
  <2>2. QED
    BY <1>0, <2>1 DEF ExecInv, ExecTypeOK, Acknowledged
<1>2. CASE CheckVerdict
  <2>1. /\ exec' \in Execs /\ UNCHANGED <<links, inflight>>
        /\ \/ exec'.stage = "post" /\ exec'.posts = 0
           \/ exec'.stage = "done" /\ exec'.answer = "REFUSED"
    <3>1. "REFUSED" \in Contract!Answers
      BY DEF Contract!Answers
    <3>2. CASE Valid(exec.verdict)
      <4>1. exec' = At("post", exec.verdict, 0, "none", "none") /\ UNCHANGED <<links, inflight>>
        BY <1>2, <3>2 DEF CheckVerdict
      <4>2. QED
        BY <1>0, <4>1 DEF At, Execs
    <3>3. CASE ~Valid(exec.verdict)
      <4>1. exec' = At("done", exec.verdict, 0, "none", "REFUSED") /\ UNCHANGED <<links, inflight>>
        BY <1>2, <3>3 DEF CheckVerdict
      <4>2. QED
        BY <1>0, <3>1, <4>1 DEF At, Execs
    <3>4. QED
      BY <3>2, <3>3
  <2>2. QED
    BY <1>0, <2>1 DEF ExecInv, ExecTypeOK, Acknowledged, Contract!Answers
<1>3. ASSUME NEW r \in Responses, Post(r)
      PROVE  ExecInv'
  <2>1. /\ links' \in {links, links \cup {LinkOf(exec)}}
        /\ inflight' \in {inflight, inflight \cup {LinkOf(exec)}}
        /\ r \in {"created", "exists"} => \E l \in links' : l.key = KeyOf(exec.verdict)
        /\ exec'.stage = "read" /\ exec'.verdict = exec.verdict /\ exec'.response = r
    BY <1>3, PostKeepsLinks
  <2>2. /\ \A l \in (links \cup inflight)' : l.ref = <<l.key[1], l.key[2], 0>>
        /\ links' \subseteq Links /\ inflight' \subseteq Links
    BY <1>0, <2>1, LinkOfCall DEF ExecInv
  <2>3. KeyOf(exec.verdict)' = KeyOf(exec.verdict)
    BY <2>1 DEF KeyOf
  <2>4. exec' \in Execs
    <3>1. exec.posts + 1 \in 0 .. MaxPosts
      BY <1>0, <1>3 DEF Post, ExecInv
    <3>2. QED
      BY <1>0, <1>3, <3>1, ExecIs DEF Post
  <2>5. QED
    BY <2>1, <2>2, <2>3, <2>4 DEF ExecInv, ExecTypeOK, HasRun, Acknowledged
<1>4. CASE ReadResponse
  <2>1. exec.stage = "read" /\ exec.response \in Responses /\ UNCHANGED <<links, inflight>>
    BY <1>4 DEF ReadResponse, ExecInv
  <2>2. CASE Again(exec)
    <3>1. exec' \in Execs /\ exec'.stage = "post" /\ exec'.posts < MaxPosts
      BY <1>0, <1>4, <2>2, ExecIs DEF ReadResponse, Again
    <3>2. QED
      BY <1>0, <2>1, <3>1 DEF ExecInv, ExecTypeOK, Acknowledged
  <2>3. CASE ~Again(exec)
    <3>1. exec' = At("done", exec.verdict, 0, "none", ReadAs(exec.response))
      BY <1>4, <2>3 DEF ReadResponse
    <3>2. /\ ReadAs(exec.response) \in Contract!Answers
          /\ ReadAs(exec.response) = "SUCCEEDED" => exec.response \in {"created", "exists"}
      BY <2>1 DEF ReadAs, Responses, Contract!Answers
    <3>3. /\ exec' \in Execs /\ exec'.stage = "done" /\ exec'.verdict = exec.verdict
          /\ exec'.answer = ReadAs(exec.response)
      BY <1>0, <3>1, <3>2, ExecIs
    <3>4. exec'.answer = "SUCCEEDED" => HasRun(KeyOf(exec.verdict))
      BY <2>1, <3>2, <3>3 DEF ExecInv, Acknowledged
    <3>5. HasRun(KeyOf(exec.verdict))' <=> HasRun(KeyOf(exec.verdict))
      BY <2>1, <3>3 DEF HasRun, KeyOf
    <3>6. QED
      BY <1>0, <2>1, <3>2, <3>3, <3>4, <3>5 DEF ExecInv, ExecTypeOK, Acknowledged
  <2>4. QED
    BY <2>2, <2>3
<1>5. CASE Release
  BY <1>0, <1>5, NoExecIs DEF ExecInv, ExecTypeOK, Release, Acknowledged
<1>6. ASSUME NEW l \in inflight, Land(l)
      PROVE  ExecInv'
  <2>1. links \subseteq links' /\ (links \cup inflight)' \subseteq links \cup inflight
        /\ exec' = exec
    BY <1>6 DEF Land
  <2>2. QED
    BY <1>0, <2>1 DEF ExecInv, ExecTypeOK, HasRun, Acknowledged
<1>7. CASE UNCHANGED execVars
  BY <1>7 DEF execVars, ExecInv, ExecTypeOK, HasRun, Acknowledged
<1>8. QED
  BY <1>1, <1>2, <1>3, <1>4, <1>5, <1>6, <1>7 DEF ExecNext, ExecStep

----------------------------------------------------------------------------
(* Every step of the executor or of the service is one of the contract *)

\* It starts as the contract does.
LEMMA ContractStart ==
  ASSUME ExecInit
  PROVE  Contract!ContractInit
<1>1. exec.stage = "idle" /\ links = {} /\ inflight = {}
  BY DEF ExecInit, NoExec, At
<1>2. QED
  BY <1>1 DEF Contract!ContractInit, OpenCalls, LooseKeys

\* A POST is an exchange of a call that has turned to the provider.
LEMMA PostIsExchange ==
  ASSUME ExecInv, NEW r \in Responses, Post(r)
  PROVE  \E c \in OpenCalls : Contract!Exchange(c)
<1> DEFINE k == KeyOf(exec.verdict)
<1>1. /\ links' \in {links, links \cup {LinkOf(exec)}}
      /\ inflight' \in {inflight, inflight \cup {LinkOf(exec)}}
      /\ links' # links => ~HasRun(k)
      /\ exec'.stage = "read" /\ exec'.verdict = exec.verdict
  BY PostKeepsLinks
<1>2. LinkOf(exec).key = k
  BY LinkOfCall
<1>3. exec.stage = "post"
  BY DEF Post
<1>4. /\ OpenCalls = {Call} /\ Call = [caller |-> "live", key |-> k, stage |-> "trying"]
      /\ OpenCalls' = OpenCalls
  BY <1>1, <1>3 DEF OpenCalls, Call, KeyOf
<1>5. Contract!MayRun(k)
  <2>1. CASE links' = links
    BY <2>1 DEF Contract!MayRun
  <2>2. CASE links' # links
    <3>1. \A l \in links : l.key # k
      BY <1>1, <2>2 DEF HasRun
    <3>2. LinkOf(exec) \in links' /\ links' = links \cup {LinkOf(exec)}
      BY <1>1, <2>2
    <3>3. QED
      BY <1>2, <3>1, <3>2 DEF Contract!MayRun, Contract!Run
  <2>3. QED
    BY <2>1, <2>2
<1>6. LooseKeys' \in {LooseKeys, LooseKeys \cup {k}}
  BY <1>1, <1>2 DEF LooseKeys
<1>7. Contract!Exchange(Call)
  BY <1>4, <1>5, <1>6 DEF Contract!Exchange
<1>8. QED
  BY <1>4, <1>7

\* A delayed request that takes effect is a late run of its key.
LEMMA LandIsLate ==
  ASSUME ExecInv, NEW l \in inflight, Land(l)
  PROVE  \E k \in LooseKeys : Contract!Late(k)
<1>1. exec' = exec /\ inflight' = inflight \ {l}
      /\ links' = IF Known(l) THEN links ELSE links \cup {l}
  BY DEF Land
<1>2. OpenCalls' = OpenCalls
  BY <1>1 DEF OpenCalls, Call, KeyOf
<1>3. LooseKeys' = LooseKeys \ {l.key} /\ l.key \in LooseKeys
  <2>1. \A m \in inflight : m.key = l.key => m = l
    BY LinkIsItsKey
  <2>2. QED
    BY <1>1, <2>1 DEF LooseKeys
<1>4. Contract!MayRun(l.key)
  <2>1. CASE Known(l)
    BY <1>1, <2>1 DEF Contract!MayRun
  <2>2. CASE ~Known(l)
    <3>1. \A m \in links : m.key # l.key
      <4>1. \A m \in links : (m.key = l.key <=> m = l) /\ (m.ref = l.ref <=> m = l)
        BY LinkIsItsKey
      <4>2. QED
        BY <2>2, <4>1 DEF Known
    <3>2. l \in links' /\ links' = links \cup {l}
      BY <1>1, <2>2
    <3>3. QED
      BY <3>1, <3>2 DEF Contract!MayRun, Contract!Run
  <2>3. QED
    BY <2>1, <2>2
<1>5. QED
  BY <1>2, <1>3, <1>4 DEF Contract!Late

\* The answer of a call, which nothing but the call itself changes.
LEMMA SettleIsAnswer ==
  ASSUME ExecInv, exec.stage \in {"check", "read"}, UNCHANGED <<links, inflight>>,
         NEW a \in Contract!Answers,
         exec' = At("done", exec.verdict, 0, "none", a),
         a = "REFUSED" => exec.stage = "check",
         a = "SUCCEEDED" => HasRun(KeyOf(exec.verdict))
  PROVE  \E c \in OpenCalls, b \in Contract!Answers : Contract!Answer(c, b)
<1> DEFINE k == KeyOf(exec.verdict)
<1>1. exec'.stage = "done" /\ exec'.verdict = exec.verdict /\ exec'.answer = a
  BY DEF At
<1>2. /\ OpenCalls = {Call} /\ Call.caller = "live" /\ Call.key = k
      /\ Call.stage = IF exec.stage = "check" THEN "open" ELSE "trying"
  BY DEF OpenCalls, Call
<1>3. OpenCalls' = {[caller |-> "live", key |-> k, stage |-> a]}
  BY <1>1 DEF OpenCalls, Call, KeyOf
<1>4. Contract!MoveTo(Call, a)
  BY <1>2, <1>3 DEF Contract!MoveTo
<1>5. LooseKeys' = LooseKeys
  BY DEF LooseKeys
<1>6. /\ a \in {"REFUSED"} => Call.stage = "open" /\ UNCHANGED links
      /\ a \in {"SUCCEEDED"} => \E l \in links' : l.key = Call.key
  BY <1>2 DEF HasRun
<1>7. Contract!Answer(Call, a)
  BY <1>2, <1>4, <1>5, <1>6 DEF Contract!Answer, Contract!MayRun
<1>8. QED
  BY <1>2, <1>7

\* Every step of the executor is a step of the contract, or none of its business.
LEMMA StepKeepsContract ==
  ASSUME ExecInv, [ExecNext]_execVars
  PROVE  [Contract!ContractNext]_<<links, OpenCalls, LooseKeys>>
<1> USE DEF ExecStages
<1>1. ASSUME NEW v \in Verdict, Deliver(v)
      PROVE  Contract!ContractNext
  <2>1. /\ OpenCalls = {} /\ links' = links /\ LooseKeys' = LooseKeys
        /\ OpenCalls' = {[caller |-> "live", key |-> KeyOf(v), stage |-> "open"]}
    BY <1>1 DEF Deliver, OpenCalls, Call, At, LooseKeys, KeyOf
  <2>2. KeyOf(v) \in LiveCases \X LiveAttempts
    BY DEF KeyOf, Verdict
  <2>3. Contract!Begin("live", KeyOf(v))
    BY <2>1 DEF Contract!Begin
  <2>4. QED
    BY <2>2, <2>3 DEF Contract!ContractNext
<1>2. CASE CheckVerdict
  <2>1. exec.stage = "check" /\ UNCHANGED <<links, inflight>>
    BY <1>2 DEF CheckVerdict
  <2>2. CASE Valid(exec.verdict)
    <3>1. /\ OpenCalls = {Call} /\ Call.stage = "open"
          /\ Call.caller = "live" /\ Call.key = KeyOf(exec.verdict)
      BY <2>1 DEF OpenCalls, Call
    <3>2. exec'.stage = "post" /\ exec'.verdict = exec.verdict
      BY <1>2, <2>2 DEF CheckVerdict, At
    <3>3. OpenCalls' = {[caller |-> "live", key |-> KeyOf(exec.verdict), stage |-> "trying"]}
      BY <3>2 DEF OpenCalls, Call, KeyOf
    <3>4. LooseKeys' = LooseKeys
      BY <2>1 DEF LooseKeys
    <3>5. Contract!Try(Call)
      BY <2>1, <3>1, <3>3, <3>4 DEF Contract!Try, Contract!MoveTo
    <3>6. QED
      BY <3>1, <3>5 DEF Contract!ContractNext
  <2>3. CASE ~Valid(exec.verdict)
    <3>1. exec' = At("done", exec.verdict, 0, "none", "REFUSED")
      BY <1>2, <2>3 DEF CheckVerdict
    <3>2. "REFUSED" \in Contract!Answers
      BY DEF Contract!Answers
    <3>3. QED
      BY <2>1, <3>1, <3>2, SettleIsAnswer DEF Contract!ContractNext
  <2>4. QED
    BY <2>2, <2>3
<1>3. ASSUME NEW r \in Responses, Post(r)
      PROVE  Contract!ContractNext
  BY <1>3, PostIsExchange DEF Contract!ContractNext
<1>4. CASE ReadResponse
  <2>1. exec.stage = "read" /\ exec.response \in Responses /\ UNCHANGED <<links, inflight>>
    BY <1>4 DEF ReadResponse, ExecInv
  <2>2. CASE Again(exec)
    <3>1. exec'.stage = "post" /\ exec'.verdict = exec.verdict
      BY <1>4, <2>2 DEF ReadResponse, At
    <3>2. OpenCalls' = OpenCalls /\ LooseKeys' = LooseKeys
      BY <2>1, <3>1 DEF OpenCalls, Call, KeyOf, LooseKeys
    <3>3. QED
      BY <2>1, <3>2
  <2>3. CASE ~Again(exec)
    <3>1. exec' = At("done", exec.verdict, 0, "none", ReadAs(exec.response))
      BY <1>4, <2>3 DEF ReadResponse
    <3>2. /\ ReadAs(exec.response) \in Contract!Answers \ {"REFUSED"}
          /\ ReadAs(exec.response) = "SUCCEEDED" => exec.response \in {"created", "exists"}
      BY <2>1 DEF ReadAs, Responses, Contract!Answers
    <3>3. ReadAs(exec.response) = "SUCCEEDED" => HasRun(KeyOf(exec.verdict))
      BY <2>1, <3>2 DEF ExecInv, Acknowledged
    <3>4. QED
      BY <2>1, <3>1, <3>2, <3>3, SettleIsAnswer DEF Contract!ContractNext
  <2>4. QED
    BY <2>2, <2>3
<1>5. CASE exec.stage = "done" /\ Release
  <2>1. OpenCalls = {Call} /\ OpenCalls' = {} /\ links' = links /\ LooseKeys' = LooseKeys
    BY <1>5 DEF Release, NoExec, At, OpenCalls, LooseKeys
  <2>2. Contract!End(Call)
    BY <2>1 DEF Contract!End
  <2>3. QED
    BY <2>1, <2>2 DEF Contract!ContractNext
<1>6. ASSUME NEW l \in inflight, Land(l)
      PROVE  Contract!ContractNext
  BY <1>6, LandIsLate DEF Contract!ContractNext
<1>7. CASE UNCHANGED execVars
  BY <1>7 DEF execVars, OpenCalls, Call, KeyOf, LooseKeys
<1>8. QED
  BY <1>1, <1>2, <1>3, <1>4, <1>5, <1>6, <1>7 DEF ExecNext, ExecStep

\* The executor on its own keeps the contract, whoever calls it and with whatever
\* verdicts.
THEOREM LiveExecutorKeepsContract == ExecSpec => KeepsContract
<1>1. ExecInit => ExecInv
  BY ExecInvInit
<1>2. ExecInv /\ [ExecNext]_execVars => ExecInv'
  BY ExecInvStep
<1>3. ExecInit => Contract!ContractInit
  BY ContractStart
<1>4. ExecInv /\ [ExecNext]_execVars =>
        [Contract!ContractNext]_<<links, OpenCalls, LooseKeys>>
  BY StepKeepsContract
<1>5. QED
  BY <1>1, <1>2, <1>3, <1>4, PTL
     DEF ExecSpec, KeepsContract, Contract!ContractSpec, Contract!contractVars

----------------------------------------------------------------------------
(* Proposals *)

\* No reason is both clean and ambiguous.
LEMMA ReasonsApart ==
  ASSUME NEW r, Clean(r)
  PROVE  r \notin AMBIGUOUS /\ CLEAN[r] \in Recoverability
BY DEF Clean, CLEAN, AMBIGUOUS, Recoverability

\* What the client says instead of a model has the schema, and is not sure of itself.
LEMMA FallbackIsUnsure ==
  /\ \A r : Clean(r) => Tier2(r) \in ProposalType /\ Tier2(r).confidence < MinConfidence
  /\ Unknown \in ProposalType /\ Unknown.confidence < MinConfidence
<1>1. ASSUME NEW r, Clean(r)
      PROVE  Tier2(r) \in ProposalType /\ Tier2(r).confidence < MinConfidence
  BY <1>1, ReasonsApart
     DEF Tier2, Proposal, ProposalType, StopUnless, Actions, Evidence, MinConfidence
<1>2. Unknown \in ProposalType /\ Unknown.confidence < MinConfidence
  BY DEF Unknown, Proposal, ProposalType, Recoverability, Actions, Evidence, NoTime, MinConfidence
<1>3. QED
  BY <1>1, <1>2

\* What process_case() proposes itself.
LEMMA OwnProposals ==
  /\ \A r : Clean(r) => /\ CleanProposal(CLEAN[r]) \in ProposalType
                        /\ CleanProposal(CLEAN[r]).class = CLEAN[r]
  /\ UnseenProposal \in ProposalType /\ UnseenProposal.class \in DenyClasses
<1>1. ASSUME NEW r, Clean(r)
      PROVE  /\ CleanProposal(CLEAN[r]) \in ProposalType
             /\ CleanProposal(CLEAN[r]).class = CLEAN[r]
  BY <1>1, ReasonsApart DEF CleanProposal, Proposal, ProposalType, StopUnless, Actions, Evidence
<1>2. UnseenProposal \in ProposalType /\ UnseenProposal.class \in DenyClasses
  BY DEF UnseenProposal, Proposal, ProposalType, Recoverability, Actions, Evidence, DenyClasses
<1>3. QED
  BY <1>1, <1>2

\* What the fixture adapters answer are proposals.
LEMMA FixtureTypes ==
  ASSUME NEW p \in Fixtures, NEW i \in Inputs
  PROVE  FixtureAnswer(p, i) \in ProposalType
<1>1. Baseline \in ProposalType /\ Adversarial \in ProposalType
  BY DEF Baseline, Adversarial, Proposal, ProposalType, Recoverability, Actions, Evidence
<1>2. Stub(i) \in ProposalType
  BY ReasonsApart
     DEF Stub, Proposal, ProposalType, StopUnless, Recoverability, Actions, Evidence
<1>3. QED
  BY <1>1, <1>2, FallbackIsUnsure DEF FixtureAnswer, Fixtures

----------------------------------------------------------------------------
(* The ladder *)

\* A model's client is past its last attempt.
GaveUp == stage = "answered" /\ port \in Models /\ tries = MaxTries

\* Types; only a model is listened to, in one of its attempts; and a client that
\* gave up is not sure of what it says.
LadderInv ==
  /\ DiagnosisTypeOK
  /\ stage \in {"secondModel", "check"} => port \in Models /\ tries < MaxTries
  /\ stage = "ask" => tries \in 0 .. MaxTries
  /\ GaveUp => proposal.confidence < MinConfidence

\* An idle ladder satisfies its invariant.
LEMMA LadderInit ==
  ASSUME DiagnosisInit
  PROVE  LadderInv
<1>1. input \in Inputs
  BY DiagnosisAssumption DEF DiagnosisInit, NoInput
<1>2. QED
  BY <1>1, FallbackIsUnsure
     DEF DiagnosisInit, LadderInv, DiagnosisTypeOK, GaveUp, Ports, Models, Fixtures, MaxTries

\* A diagnosis that begins, with an answer or a question, starts the tries anew.
LEMMA EnterKeepsLadder ==
  ASSUME NEW i \in Inputs, NEW p \in Ports, NEW st \in {"ask", "answered"},
         NEW a \in ProposalType, Enter(i, p, st, a)
  PROVE  LadderInv'
BY FallbackIsUnsure DEF Enter, LadderInv, DiagnosisTypeOK, GaveUp, MaxTries

\* A new diagnosis, with triage: the three ways it can begin.
LEMMA TriageCases ==
  ASSUME NEW i \in Inputs, NEW p \in Ports, TriageFirst(i, p)
  PROVE  \/ i.reason \in AMBIGUOUS /\ Enter(i, p, "ask", Unknown)
         \/ Clean(i.reason) /\ Enter(i, p, "answered", CleanProposal(CLEAN[i.reason]))
         \/ /\ ~Clean(i.reason) /\ i.reason \notin AMBIGUOUS
            /\ Enter(i, p, "answered", UnseenProposal)
<1>1. CASE Clean(i.reason)
  <2>1. Triage(i.reason) = [class |-> CLEAN[i.reason], matched |-> "clean"]
    BY <1>1, ReasonsApart DEF Triage
  <2>2. /\ Triage(i.reason).matched = "clean"
        /\ Triage(i.reason).class = CLEAN[i.reason]
    BY <2>1
  <2>3. Enter(i, p, "answered", CleanProposal(CLEAN[i.reason]))
    BY <2>2 DEF TriageFirst
  <2>4. QED
    BY <1>1, <2>3
<1>2. CASE ~Clean(i.reason) /\ i.reason \in AMBIGUOUS
  <2>1. Triage(i.reason) = [class |-> "UNKNOWN", matched |-> "ambiguous"]
    BY <1>2 DEF Triage
  <2>2. QED
    BY <1>2, <2>1 DEF TriageFirst
<1>3. CASE ~Clean(i.reason) /\ i.reason \notin AMBIGUOUS
  <2>1. Triage(i.reason) = [class |-> "UNKNOWN", matched |-> "unseen"]
    BY <1>3 DEF Triage
  <2>2. QED
    BY <1>3, <2>1 DEF TriageFirst
<1>4. QED
  BY <1>1, <1>2, <1>3

\* Triage keeps the invariant of the ladder.
LEMMA TriageKeepsLadder ==
  ASSUME NEW i \in Inputs, NEW p \in Ports, TriageFirst(i, p)
  PROVE  LadderInv'
BY TriageCases, EnterKeepsLadder, OwnProposals, FallbackIsUnsure

\* So does every other step of diagnosis, an answer of the model included.
LEMMA DiagnosisStepKeepsLadder ==
  ASSUME LadderInv, DiagnosisStep
  PROVE  LadderInv' /\ input' = input /\ port' = port
<1> USE DEF MaxTries, Models, Fixtures
<1>0. /\ input \in Inputs /\ port \in Ports /\ tries \in 0 .. MaxTries
      /\ reply \in ProposalType /\ proposal \in ProposalType
  BY DEF LadderInv, DiagnosisTypeOK
<1>1. CASE AskFixture
  <2>1. FixtureAnswer(port, input) \in ProposalType
    BY <1>0, <1>1, FixtureTypes DEF AskFixture
  <2>2. QED
    BY <1>0, <1>1, <2>1 DEF AskFixture, Answered, LadderInv, DiagnosisTypeOK, GaveUp
<1>2. CASE Miss
  BY <1>0, <1>2 DEF Miss, Asking, Retry, LadderInv, DiagnosisTypeOK, GaveUp
<1>3. CASE RateLimited
  BY <1>0, <1>3 DEF RateLimited, Asking, LadderInv, DiagnosisTypeOK, GaveUp
<1>4. CASE Validate
  BY <1>0, <1>4 DEF Validate, Answered, Retry, LadderInv, DiagnosisTypeOK, GaveUp
<1>5. CASE FallBack
  <2>1. /\ stage' = "answered" /\ proposal' \in ProposalType
        /\ proposal'.confidence < MinConfidence
        /\ UNCHANGED <<input, port, tries, reply>>
    <3>1. CASE Clean(input.reason)
      BY <1>5, <3>1, FallbackIsUnsure DEF FallBack, Answered
    <3>2. CASE ~Clean(input.reason)
      BY <1>5, <3>2, FallbackIsUnsure DEF FallBack, Answered
    <3>3. QED
      BY <3>1, <3>2
  <2>2. QED
    BY <1>0, <2>1 DEF LadderInv, DiagnosisTypeOK, GaveUp
<1>6. ASSUME NEW a \in ModelAnswers, Hear(a)
      PROVE  LadderInv' /\ input' = input /\ port' = port
  <2>1. a \in ProposalType
    BY DiagnosisAssumption
  <2>2. QED
    BY <1>0, <1>6, <2>1 DEF Hear, Asking, LadderInv, DiagnosisTypeOK, GaveUp
<1>7. QED
  BY <1>1, <1>2, <1>3, <1>4, <1>5, <1>6 DEF DiagnosisStep

\* So does handing the proposal to the pipeline.
LEMMA TakeKeepsLadder ==
  ASSUME LadderInv, Take
  PROVE  LadderInv'
<1>1. NoInput \in Inputs
  BY DiagnosisAssumption DEF NoInput
<1>2. QED
  BY <1>1, FallbackIsUnsure
     DEF Take, LadderInv, DiagnosisTypeOK, GaveUp, Ports, Fixtures, MaxTries

----------------------------------------------------------------------------
(* The invariant of a case in live mode *)

LiveRow == [state : RowStates, cohort : {"TREATED", "HOLDOUT"},
            attempts : Nat, uncertain : Nat]

CaseTypes ==
  /\ rows \in [LiveCases -> LiveRow] /\ inputOf \in [LiveCases -> Inputs]
  /\ round \in LiveCases \cup {"none", "delivery", "probe"}
  /\ issued \subseteq Verdict

\* Where an answer under triage comes from.
Explained ==
  \/ Clean(input.reason) /\ proposal = CleanProposal(CLEAN[input.reason])
  \/ ~Clean(input.reason) /\ input.reason \notin AMBIGUOUS /\ proposal = UnseenProposal
  \/ /\ input.reason \in AMBIGUOUS
     /\ port \in Models /\ tries < MaxTries => proposal = reply /\ Accepted(reply)

\* The diagnosis of a round is about its case, and the port is asked about an
\* ambiguous reason only.
RoundInv ==
  round \in LiveCases =>
    /\ stage # "idle" => input = inputOf[round]
    /\ stage \in {"ask", "secondModel", "check"} => input.reason \in AMBIGUOUS
    /\ stage = "answered" => Explained

CapOn(c) == CapByMethod[inputOf[c].method]

MayIssue(v) ==
  /\ Valid(v) /\ rows[v.case].cohort = "TREATED"
  /\ v.attempt \in 1 .. CapOn(v.case)

\* What was issued was allowed; the executor carries out nothing else, and its
\* call belongs to the running round; a recovered case has a link.
IssuedInv ==
  /\ \A v \in issued : MayIssue(v)
  /\ exec.stage \in {"post", "read"} => exec.verdict \in issued
  /\ exec.stage = "check" /\ Valid(exec.verdict) => exec.verdict \in issued
  /\ \A l \in links \cup inflight : \E v \in issued : KeyOf(v) = l.key
  /\ round \in LiveCases /\ exec.stage # "idle" => exec.verdict.case = round
  /\ \A c \in LiveCases : rows[c].state = "RECOVERED" => \E l \in links : l.key[1] = c

LiveInv == CaseTypes /\ LadderInv /\ ExecInv /\ RoundInv /\ IssuedInv

\* The invariant of the composition holds when nothing has run yet.
LEMMA LiveInvInit ==
  ASSUME LiveInit
  PROVE  LiveInv
<1>1. LadderInv /\ ExecInv /\ exec.stage = "idle"
  BY LadderInit, ExecInvInit, NoExecIs DEF LiveInit, ExecInit
<1>2. rows \in [LiveCases -> LiveRow] /\ \A c \in LiveCases : rows[c].state = "DETECTED"
  <2>1. \A k \in {"TREATED", "HOLDOUT"} :
          NewRow(k) \in LiveRow /\ NewRow(k).state = "DETECTED"
    BY DEF NewRow, LiveRow, RowStates
  <2>2. rows \in [LiveCases -> {NewRow(k) : k \in {"TREATED", "HOLDOUT"}}]
    BY DEF LiveInit
  <2>3. \A c \in LiveCases : \E k \in {"TREATED", "HOLDOUT"} : rows[c] = NewRow(k)
    BY <2>2
  <2>4. \A c \in LiveCases : rows[c] \in LiveRow /\ rows[c].state = "DETECTED"
    BY <2>1, <2>3
  <2>5. QED
    BY <2>2, <2>4
<1>3. links = {} /\ inflight = {} /\ issued = {} /\ round = "none"
  BY DEF LiveInit, ExecInit
<1>4. round \notin LiveCases
  BY <1>3, LiveAssumption
<1>5. QED
  BY <1>1, <1>2, <1>3, <1>4 DEF LiveInit, LiveInv, CaseTypes, RoundInv, IssuedInv

\* The verdict that a round issues: the gate allowed it, within the cap, and
\* somebody vouched for it.
LEMMA AllowedIsVouchedFor ==
  ASSUME LiveInv, NEW c \in LiveCases, Allow(c)
  PROVE  /\ VerdictOn(c) \in Verdict /\ MayIssue(VerdictOn(c))
         /\ Clean(inputOf[c].reason) => CLEAN[inputOf[c].reason] # "TERMINAL"
         /\ Clean(inputOf[c].reason) \/ inputOf[c].reason \in AMBIGUOUS
         /\ inputOf[c].reason \in AMBIGUOUS /\ port \in Models =>
              tries < MaxTries /\ proposal = reply /\ reply.evidence # "other"
<1>1. /\ round = c /\ stage = "answered" /\ DecisionOf(proposal, View(c), FALSE) = "ALLOW"
      /\ input = inputOf[c]
  BY DEF Allow, DecisionOn, Take, LiveInv, RoundInv
<1>2. /\ View(c).cohort # "HOLDOUT" /\ proposal.class \notin DenyClasses
      /\ ~CapReached(View(c)) /\ ~(proposal.confidence < MinConfidence)
  BY <1>1, AllowedMeansUngated
<1>3. rows[c] \in LiveRow /\ inputOf[c] \in Inputs /\ tries \in 0 .. MaxTries
  BY DEF LiveInv, CaseTypes, LadderInv, DiagnosisTypeOK
<1>4. /\ rows[c].attempts \in Nat /\ CapOn(c) \in Nat /\ rows[c].attempts < CapOn(c)
      /\ rows[c].cohort = "TREATED"
  <2>1. inputOf[c].method \in Methods /\ CapByMethod \in [Methods -> Nat]
    BY <1>3, DiagnosisAssumption, PolicyAssumption
  <2>2. rows[c].attempts \in Nat /\ rows[c].cohort \in {"TREATED", "HOLDOUT"}
    BY <1>3 DEF LiveRow
  <2>3. ~(rows[c].attempts >= CapByMethod[inputOf[c].method]) /\ rows[c].cohort # "HOLDOUT"
    BY <1>2 DEF CapReached, View
  <2>4. QED
    BY <2>1, <2>2, <2>3 DEF CapOn
<1>5. rows[c].attempts + 1 \in 1 .. CapOn(c) /\ 1 .. CapOn(c) \subseteq LiveAttempts
  BY <1>3, <1>4, LiveAssumption, DiagnosisAssumption DEF CapOn
<1>6. VerdictOn(c) \in Verdict
  BY <1>5 DEF VerdictOn, Verdict
<1>7. MayIssue(VerdictOn(c))
  BY <1>4, <1>5 DEF VerdictOn, MayIssue, Valid
<1>8. Explained
  BY <1>1 DEF LiveInv, RoundInv
<1>9. Clean(inputOf[c].reason) => CLEAN[inputOf[c].reason] # "TERMINAL"
  <2>1. SUFFICES ASSUME Clean(inputOf[c].reason)
                 PROVE  CLEAN[inputOf[c].reason] # "TERMINAL"
    OBVIOUS
  <2>2. proposal = CleanProposal(CLEAN[input.reason])
    BY <1>1, <1>8, <2>1, ReasonsApart DEF Explained
  <2>3. QED
    BY <1>1, <1>2, <2>1, <2>2, OwnProposals DEF DenyClasses
<1>10. Clean(inputOf[c].reason) \/ inputOf[c].reason \in AMBIGUOUS
  BY <1>1, <1>2, <1>8, OwnProposals DEF Explained
<1>11. ASSUME inputOf[c].reason \in AMBIGUOUS, port \in Models
       PROVE  tries < MaxTries /\ proposal = reply /\ reply.evidence # "other"
  <2>1. tries # MaxTries
    BY <1>1, <1>2, <1>11 DEF LiveInv, LadderInv, GaveUp
  <2>2. tries < MaxTries
    BY <1>3, <2>1 DEF MaxTries
  <2>3. ~Clean(input.reason)
    BY <1>1, <1>11, ReasonsApart
  <2>4. QED
    BY <1>1, <1>8, <1>11, <2>2, <2>3 DEF Explained, Accepted
<1>12. QED
  BY <1>6, <1>7, <1>9, <1>10, <1>11

\* Every step is one of the executor's own specification, or leaves it alone.
LEMMA StepsOfExecutor ==
  ASSUME LiveInv, [LiveNext]_liveVars
  PROVE  [ExecNext]_execVars
<1>1. ASSUME NEW c \in LiveCases, Allow(c)
      PROVE  ExecNext
  BY <1>1, AllowedIsVouchedFor DEF Allow, ExecNext
<1>2. CASE RoundStep
  BY <1>1, <1>2 DEF RoundStep, Close, Settle, Discard, ExecNext
<1>3. ASSUME NEW v \in Verdict, Redeliver(v)
      PROVE  ExecNext
  BY <1>3 DEF Redeliver, ExecNext
<1>4. CASE \E c \in LiveCases, p \in Ports : StartRound(c, p)
  BY <1>4 DEF StartRound
<1>5. CASE \E c \in LiveCases : Reconcile(c)
  BY <1>5 DEF Reconcile
<1>6. CASE \E i \in Inputs, p \in Ports : Probe(i, p)
  BY <1>6 DEF Probe
<1>7. CASE \E l \in inflight : Land(l) /\ UNCHANGED <<diagnosisVars, caseVars>>
  BY <1>7 DEF ExecNext
<1>8. CASE UNCHANGED liveVars
  BY <1>8 DEF liveVars
<1>9. QED
  BY <1>2, <1>3, <1>4, <1>5, <1>6, <1>7, <1>8 DEF LiveNext
\* What a step of execute() changes, as far as its callers are concerned.
LEMMA ExecStepFacts ==
  ASSUME ExecInv, ExecStep
  PROVE  /\ exec.stage # "idle" /\ exec'.verdict = exec.verdict /\ exec'.stage # "check"
         /\ exec'.stage \in {"post", "read"} =>
              exec.stage \in {"post", "read"} \/ (exec.stage = "check" /\ Valid(exec.verdict))
         /\ links \subseteq links'
         /\ \A l \in links' \cup inflight' :
              l \in links \cup inflight \/ (exec.stage = "post" /\ l.key = KeyOf(exec.verdict))
<1>1. CASE CheckVerdict
  BY <1>1 DEF CheckVerdict, At
<1>2. ASSUME NEW r \in Responses, Post(r)
      PROVE  /\ exec.stage = "post" /\ exec'.verdict = exec.verdict /\ exec'.stage = "read"
             /\ links \subseteq links'
             /\ \A l \in links' \cup inflight' :
                  l \in links \cup inflight \/ l.key = KeyOf(exec.verdict)
  BY <1>2, PostKeepsLinks, LinkOfCall DEF Post
<1>3. CASE ReadResponse
  BY <1>3 DEF ReadResponse, At
<1>4. QED
  BY <1>1, <1>2, <1>3 DEF ExecStep

\* The row of a case under a step of its own: the answers of an executor and of
\* the customer.
LEMMA AnsweringKeepsRow ==
  ASSUME NEW row \in LiveRow, NEW a \in Contract!Answers
  PROVE  /\ Answering(a, row) \in LiveRow
         /\ Answering(a, row).cohort = row.cohort
         /\ Answering(a, row).state = "RECOVERED" => a = "SUCCEEDED"
<1>1. row.attempts \in Nat /\ row.attempts + 1 \in Nat
  BY DEF LiveRow
<1>2. CASE a = "SUCCEEDED"
  BY <1>1, <1>2 DEF Answering, LiveRow, RowStates
<1>3. CASE a = "FAILED"
  BY <1>1, <1>3 DEF Answering, LiveRow, RowStates
<1>4. CASE a = "RETRYABLE"
  BY <1>4 DEF Answering, LiveRow, RowStates
<1>5. CASE a = "REFUSED"
  BY <1>5 DEF Answering, LiveRow, RowStates
<1>6. CASE a = "UNCERTAIN"
  <2>1. Answering(a, row) =
          [row EXCEPT !.state = "QUARANTINED", !.uncertain = row.attempts + 1]
    BY <1>6 DEF Answering
  <2>2. Answering(a, row) =
          [state |-> "QUARANTINED", cohort |-> row.cohort, attempts |-> row.attempts,
           uncertain |-> row.attempts + 1]
    BY <2>1 DEF LiveRow
  <2> HIDE DEF Answering
  <2>3. QED
    BY <1>1, <2>2 DEF LiveRow, RowStates
<1>7. QED
  BY <1>2, <1>3, <1>4, <1>5, <1>6 DEF Contract!Answers

\* No step moves a case to another cohort or gives it another input, and a case
\* recovers only by an answer or a reconciliation that has a link for it.
LEMMA RowsOfStep ==
  ASSUME LiveInv, [LiveNext]_liveVars
  PROVE  /\ rows' \in [LiveCases -> LiveRow] /\ inputOf' = inputOf
         /\ \A c \in LiveCases :
              /\ rows'[c].cohort = rows[c].cohort
              /\ rows'[c].state = "RECOVERED" =>
                   rows[c].state = "RECOVERED" \/ \E l \in links : l.key[1] = c
<1>0. rows \in [LiveCases -> LiveRow] /\ \A c \in LiveCases : rows[c] \in LiveRow
  BY DEF LiveInv, CaseTypes
<1>a. ASSUME NEW c \in LiveCases, NEW r \in LiveRow, rows' = [rows EXCEPT ![c] = r],
             r.cohort = rows[c].cohort, inputOf' = inputOf,
             r.state = "RECOVERED" => \E l \in links : l.key[1] = c
      PROVE  /\ rows' \in [LiveCases -> LiveRow] /\ inputOf' = inputOf
             /\ \A d \in LiveCases :
                  /\ rows'[d].cohort = rows[d].cohort
                  /\ rows'[d].state = "RECOVERED" =>
                       rows[d].state = "RECOVERED" \/ \E l \in links : l.key[1] = d
  <2>1. \A d \in LiveCases : rows'[d] = IF d = c THEN r ELSE rows[d]
    BY <1>0, <1>a
  <2>2. rows' \in [LiveCases -> LiveRow]
    BY <1>0, <1>a
  <2>3. QED
    BY <1>a, <2>1, <2>2
<1>1. ASSUME NEW c \in LiveCases, Allow(c)
      PROVE  \E r \in LiveRow : /\ rows' = [rows EXCEPT ![c] = r] /\ inputOf' = inputOf
                                /\ r.cohort = rows[c].cohort /\ r.state # "RECOVERED"
  <2>1. [rows[c] EXCEPT !.state = "EXECUTING"] \in LiveRow
    BY <1>0 DEF LiveRow, RowStates
  <2>2. rows' = [rows EXCEPT ![c] = [rows[c] EXCEPT !.state = "EXECUTING"]]
    BY <1>0, <1>1 DEF Allow
  <2>3. QED
    BY <1>0, <1>1, <2>1, <2>2 DEF Allow, LiveRow
<1>2. ASSUME NEW c \in LiveCases, Close(c)
      PROVE  \E r \in LiveRow : /\ rows' = [rows EXCEPT ![c] = r] /\ inputOf' = inputOf
                                /\ r.cohort = rows[c].cohort /\ r.state # "RECOVERED"
  <2> DEFINE r == [rows[c] EXCEPT !.state = Landing(c)]
  <2>1. Landing(c) \in {"QUARANTINED", "HOLDOUT_CLOSED", "ABANDONED"}
    BY DEF Landing
  <2>2. r \in LiveRow /\ r.cohort = rows[c].cohort /\ r.state # "RECOVERED"
    BY <1>0, <2>1 DEF LiveRow, RowStates
  <2>3. rows' = [rows EXCEPT ![c] = r] /\ inputOf' = inputOf
    BY <1>0, <1>2 DEF Close
  <2>4. QED
    BY <2>2, <2>3
<1>3. ASSUME NEW c \in LiveCases, Settle(c)
      PROVE  \E r \in LiveRow : /\ rows' = [rows EXCEPT ![c] = r] /\ inputOf' = inputOf
                                /\ r.cohort = rows[c].cohort
                                /\ r.state = "RECOVERED" => \E l \in links : l.key[1] = c
  <2>1. /\ exec.answer \in Contract!Answers /\ exec.verdict.case = c
        /\ exec.answer = "SUCCEEDED" => HasRun(KeyOf(exec.verdict))
    BY <1>3 DEF Settle, LiveInv, ExecInv, IssuedInv
  <2>2. exec.answer = "SUCCEEDED" => \E l \in links : l.key[1] = c
    BY <2>1 DEF HasRun, KeyOf
  <2>3. rows' = [rows EXCEPT ![c] = Answering(exec.answer, rows[c])] /\ inputOf' = inputOf
    BY <1>0, <1>3 DEF Settle
  <2>4. QED
    BY <1>0, <2>1, <2>2, <2>3, AnsweringKeepsRow
<1>4. ASSUME NEW c \in LiveCases, Reconcile(c)
      PROVE  \E r \in LiveRow : /\ rows' = [rows EXCEPT ![c] = r] /\ inputOf' = inputOf
                                /\ r.cohort = rows[c].cohort
                                /\ r.state = "RECOVERED" => \E l \in links : l.key[1] = c
  <2> DEFINE link == \E l \in links : l.key = <<c, rows[c].uncertain>>
             r(state, spent) ==
               [rows[c] EXCEPT !.state = state, !.uncertain = 0, !.attempts = @ + spent]
  <2>1. /\ inputOf' = inputOf
        /\ \/ link /\ rows' = [rows EXCEPT ![c] = r("RECOVERED", 1)]
           \/ rows' = [rows EXCEPT ![c] = r("FAILED_ATTEMPT", 1)]
           \/ rows' = [rows EXCEPT ![c] = r("DIAGNOSED", 0)]
    BY <1>4 DEF Reconcile
  <2>2. link => \E l \in links : l.key[1] = c
    OBVIOUS
  <2>3. ASSUME NEW st \in RowStates, NEW n \in {0, 1}
        PROVE  /\ r(st, n) \in LiveRow /\ r(st, n).cohort = rows[c].cohort
               /\ r(st, n).state = st
    <3>1. rows[c].attempts + n \in Nat
      BY <1>0 DEF LiveRow
    <3>2. QED
      BY <1>0, <3>1 DEF LiveRow
  <2>4. {"RECOVERED", "FAILED_ATTEMPT", "DIAGNOSED"} \subseteq RowStates
    BY DEF RowStates
  <2>5. QED
    BY <2>1, <2>2, <2>3, <2>4
<1>5. CASE UNCHANGED <<rows, inputOf>>
  BY <1>0, <1>5
<1>6. ASSUME [LiveNext]_liveVars,
             ~ \E c \in LiveCases : Allow(c) \/ Close(c) \/ Settle(c) \/ Reconcile(c)
      PROVE  UNCHANGED <<rows, inputOf>>
  BY <1>6 DEF LiveNext, RoundStep, Discard, StartRound, Redeliver, Probe, liveVars, caseVars
<1>7. QED
  BY <1>a, <1>1, <1>2, <1>3, <1>4, <1>5, <1>6
\* The diagnosis: a step of the ladder, or a call that begins or ends one.
LEMMA LadderOfStep ==
  ASSUME LiveInv, [LiveNext]_liveVars
  PROVE  LadderInv' /\ RoundInv'
<1>0. /\ LadderInv /\ RoundInv /\ inputOf' = inputOf /\ inputOf \in [LiveCases -> Inputs]
      /\ \A c \in LiveCases : inputOf[c] \in Inputs
      /\ LiveCases \cap {"none", "delivery", "probe"} = {}
  BY RowsOfStep, LiveAssumption DEF LiveInv, CaseTypes
<1>1. ASSUME NEW c \in LiveCases, NEW p \in Ports, StartRound(c, p)
      PROVE  LadderInv' /\ RoundInv'
  <2>1. TriageFirst(inputOf[c], p) /\ round' = c
    BY <1>1 DEF StartRound
  <2>2. LadderInv'
    BY <1>0, <2>1, TriageKeepsLadder
  <2>3. input' = inputOf[c]
    BY <1>0, <2>1, TriageCases DEF Enter
  <2>4. stage' \in {"ask", "secondModel", "check"} => input'.reason \in AMBIGUOUS
    BY <1>0, <2>1, TriageCases DEF Enter
  <2>5. stage' = "answered" => Explained'
    <3>1. CASE Enter(inputOf[c], p, "ask", Unknown)
      BY <3>1 DEF Enter
    <3>2. CASE /\ Clean(inputOf[c].reason)
               /\ Enter(inputOf[c], p, "answered", CleanProposal(CLEAN[inputOf[c].reason]))
      BY <3>2 DEF Enter, Explained
    <3>3. CASE /\ ~Clean(inputOf[c].reason) /\ inputOf[c].reason \notin AMBIGUOUS
               /\ Enter(inputOf[c], p, "answered", UnseenProposal)
      BY <3>3 DEF Enter, Explained
    <3>4. QED
      BY <1>0, <2>1, <3>1, <3>2, <3>3, TriageCases
  <2>6. QED
    BY <1>0, <2>1, <2>2, <2>3, <2>4, <2>5 DEF RoundInv
<1>2. CASE DiagnosisStep /\ UNCHANGED <<execVars, caseVars>>
  <2>1. LadderInv' /\ input' = input /\ port' = port /\ round' = round
    BY <1>0, <1>2, DiagnosisStepKeepsLadder DEF caseVars
  <2>2. stage \in {"ask", "secondModel", "check"}
    BY <1>2 DEF DiagnosisStep, AskFixture, Miss, RateLimited, Validate, FallBack, Hear, Asking
  <2>3. ASSUME round \in LiveCases, stage' = "answered"
        PROVE  port \in Models /\ tries' < MaxTries => proposal' = reply' /\ Accepted(reply')
    <3>1. CASE AskFixture
      BY <3>1 DEF AskFixture, Models, Fixtures
    <3>2. CASE Validate
      BY <2>3, <3>2 DEF Validate, Answered, Retry
    <3>3. CASE FallBack
      BY <3>3 DEF FallBack, MaxTries
    <3>4. CASE Miss \/ RateLimited \/ \E a \in ModelAnswers : Hear(a)
      BY <2>3, <3>4 DEF Miss, Retry, RateLimited, Hear
    <3>5. QED
      BY <1>2, <3>1, <3>2, <3>3, <3>4 DEF DiagnosisStep
  <2>4. QED
    BY <1>0, <2>1, <2>2, <2>3 DEF RoundInv, Explained
<1>3. ASSUME Take
      PROVE  LadderInv' /\ RoundInv'
  <2>1. LadderInv' /\ stage' = "idle"
    BY <1>0, <1>3, TakeKeepsLadder DEF Take
  <2>2. QED
    BY <2>1 DEF RoundInv
<1>4. ASSUME NEW i \in Inputs, NEW p \in Ports, Probe(i, p)
      PROVE  LadderInv' /\ RoundInv'
  <2>1. Enter(i, p, "ask", Unknown) /\ round' = "probe"
    BY <1>4 DEF Probe, Diagnose
  <2>2. LadderInv'
    BY <2>1, EnterKeepsLadder, FallbackIsUnsure
  <2>3. QED
    BY <1>0, <2>1, <2>2 DEF RoundInv
<1>5. ASSUME UNCHANGED diagnosisVars, round' = round \/ round' \in {"none", "delivery", "probe"}
      PROVE  LadderInv' /\ RoundInv'
  <2>1. LadderInv'
    BY <1>0, <1>5 DEF diagnosisVars, LadderInv, DiagnosisTypeOK, GaveUp
  <2>2. QED
    BY <1>0, <1>5, <2>1 DEF diagnosisVars, RoundInv, Explained
<1>6. CASE ExecStep /\ UNCHANGED <<diagnosisVars, caseVars>>
  BY <1>5, <1>6 DEF caseVars
<1>7. ASSUME NEW c \in LiveCases, Allow(c) \/ Close(c) \/ Settle(c)
      PROVE  LadderInv' /\ RoundInv'
  BY <1>3, <1>5, <1>7 DEF Allow, Close, Settle
<1>8. CASE Discard
  BY <1>3, <1>5, <1>8 DEF Discard
<1>9. ASSUME NEW c \in LiveCases, Reconcile(c)
      PROVE  LadderInv' /\ RoundInv'
  BY <1>5, <1>9 DEF Reconcile
<1>10. ASSUME NEW v \in Verdict, Redeliver(v)
       PROVE  LadderInv' /\ RoundInv'
  BY <1>5, <1>10 DEF Redeliver
<1>11. CASE \E l \in inflight : Land(l) /\ UNCHANGED <<diagnosisVars, caseVars>>
  BY <1>5, <1>11 DEF caseVars
<1>12. CASE UNCHANGED liveVars
  BY <1>5, <1>12 DEF liveVars, caseVars
<1>13. QED
  BY <1>1, <1>2, <1>4, <1>6, <1>7, <1>8, <1>9, <1>10, <1>11, <1>12 DEF LiveNext, RoundStep

\* The verdicts: only Allow issues one.
LEMMA IssuedByAllow ==
  ASSUME LiveInv, [LiveNext]_liveVars
  PROVE  issued' = issued
         \/ \E c \in LiveCases : Allow(c) /\ issued' = issued \cup {VerdictOn(c)}
<1>1. ASSUME NEW c \in LiveCases, Allow(c)
      PROVE  issued' = issued \cup {VerdictOn(c)}
  BY <1>1 DEF Allow
<1>2. ASSUME [LiveNext]_liveVars, ~ \E c \in LiveCases : Allow(c)
      PROVE  issued' = issued
  BY <1>2 DEF LiveNext, RoundStep, Close, Settle, Discard, StartRound, Reconcile,
              Redeliver, Probe, liveVars, caseVars
<1>3. QED
  BY <1>1, <1>2

\* MayIssue is about what no step changes.
LEMMA MayIssueIsStable ==
  ASSUME LiveInv, [LiveNext]_liveVars, NEW v \in Verdict, MayIssue(v)
  PROVE  MayIssue(v)'
<1>1. v.case \in LiveCases
  BY DEF Verdict
<1>2. inputOf' = inputOf /\ rows'[v.case].cohort = rows[v.case].cohort
  BY <1>1, RowsOfStep
<1>3. QED
  BY <1>2 DEF MayIssue, CapOn
\* What was issued stays allowed, and what is issued now is.
LEMMA IssuedMayIssue ==
  ASSUME LiveInv, [LiveNext]_liveVars
  PROVE  issued' \subseteq Verdict /\ issued \subseteq issued' /\ \A v \in issued' : MayIssue(v)'
<1>1. issued \subseteq Verdict /\ \A v \in issued : MayIssue(v)
  BY DEF LiveInv, CaseTypes, IssuedInv
<1>2. \A v \in issued : MayIssue(v)'
  BY <1>1, MayIssueIsStable
<1>3. ASSUME NEW c \in LiveCases, Allow(c), issued' = issued \cup {VerdictOn(c)}
      PROVE  issued' \subseteq Verdict /\ \A v \in issued' : MayIssue(v)'
  <2>1. VerdictOn(c) \in Verdict /\ MayIssue(VerdictOn(c))
    BY <1>3, AllowedIsVouchedFor
  <2>2. \A v \in Verdict : MayIssue(v) => MayIssue(v)'
    BY MayIssueIsStable
  <2>3. \A v \in issued' : v \in Verdict /\ MayIssue(v)
    BY <1>1, <1>3, <2>1
  <2>4. QED
    BY <2>2, <2>3
<1>4. QED
  BY <1>1, <1>2, <1>3, IssuedByAllow

\* How a step treats the executor's call and what there is at the service.
LEMMA CallOfStep ==
  ASSUME LiveInv, [LiveNext]_liveVars
  PROVE  /\ links \subseteq links'
         /\ \A l \in links' \cup inflight' : \E v \in issued' : KeyOf(v) = l.key
         /\ exec'.stage \in {"post", "read"} => exec'.verdict \in issued'
         /\ exec'.stage = "check" /\ Valid(exec'.verdict) => exec'.verdict \in issued'
         /\ round' \in LiveCases /\ exec'.stage # "idle" => exec'.verdict.case = round'
<1> DEFINE Goal == /\ links \subseteq links'
                   /\ \A l \in links' \cup inflight' : \E v \in issued' : KeyOf(v) = l.key
                   /\ exec'.stage \in {"post", "read"} => exec'.verdict \in issued'
                   /\ exec'.stage = "check" /\ Valid(exec'.verdict) => exec'.verdict \in issued'
                   /\ round' \in LiveCases /\ exec'.stage # "idle" => exec'.verdict.case = round'
<1>0. /\ issued \subseteq issued' /\ ExecInv
      /\ \A l \in links \cup inflight : \E v \in issued : KeyOf(v) = l.key
      /\ exec.stage \in {"post", "read"} => exec.verdict \in issued
      /\ exec.stage = "check" /\ Valid(exec.verdict) => exec.verdict \in issued
      /\ round \in LiveCases /\ exec.stage # "idle" => exec.verdict.case = round
      /\ LiveCases \cap {"none", "delivery", "probe"} = {}
  BY IssuedMayIssue, LiveAssumption DEF LiveInv, IssuedInv
<1>1. ASSUME UNCHANGED execVars,
             round' = round \/ round' \in {"none", "delivery", "probe"} \/ exec.stage = "idle"
      PROVE  Goal
  BY <1>0, <1>1 DEF execVars
<1>2. CASE ExecStep /\ UNCHANGED <<diagnosisVars, caseVars>>
  <2>1. round' = round /\ issued' = issued
    BY <1>2 DEF caseVars
  <2>2. /\ exec.stage # "idle" /\ exec'.verdict = exec.verdict /\ exec'.stage # "check"
        /\ exec'.stage \in {"post", "read"} =>
             exec.stage \in {"post", "read"} \/ (exec.stage = "check" /\ Valid(exec.verdict))
        /\ links \subseteq links'
        /\ \A l \in links' \cup inflight' :
             l \in links \cup inflight \/ (exec.stage = "post" /\ l.key = KeyOf(exec.verdict))
    BY <1>0, <1>2, ExecStepFacts
  <2>3. \A l \in links' \cup inflight' : \E v \in issued' : KeyOf(v) = l.key
    BY <1>0, <2>1, <2>2
  <2>4. QED
    BY <1>0, <2>1, <2>2, <2>3
<1>3. ASSUME NEW c \in LiveCases, Allow(c)
      PROVE  Goal
  <2>1. /\ exec'.stage = "check" /\ exec'.verdict = VerdictOn(c)
        /\ links' = links /\ inflight' = inflight /\ round' = c /\ VerdictOn(c) \in issued'
    BY <1>3 DEF Allow, Deliver, At
  <2>2. VerdictOn(c).case = c
    BY DEF VerdictOn
  <2>3. QED
    BY <1>0, <2>1, <2>2
<1>4. ASSUME Release, round' = "none"
      PROVE  Goal
  BY <1>0, <1>4, NoExecIs DEF Release
<1>5. ASSUME NEW v \in Verdict, Redeliver(v)
      PROVE  Goal
  <2>1. /\ exec'.stage = "check" /\ exec'.verdict = v /\ round' = "delivery"
        /\ links' = links /\ inflight' = inflight
        /\ v \in issued \/ ~Valid(v)
    BY <1>5 DEF Redeliver, Deliver, At, Valid
  <2>2. QED
    BY <1>0, <2>1
<1>6. ASSUME NEW l \in inflight, Land(l), UNCHANGED <<diagnosisVars, caseVars>>
      PROVE  Goal
  <2>1. /\ links \subseteq links' /\ links' \cup inflight' \subseteq links \cup inflight
        /\ exec' = exec /\ round' = round
    BY <1>6 DEF Land, caseVars
  <2>2. QED
    BY <1>0, <2>1
<1>7. ASSUME NEW c \in LiveCases, Close(c) \/ Settle(c) \/ Reconcile(c)
      PROVE  Goal
  BY <1>1, <1>4, <1>7 DEF Close, Settle, Reconcile
<1>8. CASE Discard
  BY <1>1, <1>4, <1>8 DEF Discard
<1>9. ASSUME NEW c \in LiveCases, NEW p \in Ports, StartRound(c, p)
      PROVE  Goal
  BY <1>1, <1>9 DEF StartRound, Free
<1>10. ASSUME NEW i \in Inputs, NEW p \in Ports, Probe(i, p)
       PROVE  Goal
  BY <1>1, <1>10 DEF Probe
<1>11. CASE DiagnosisStep /\ UNCHANGED <<execVars, caseVars>>
  BY <1>1, <1>11 DEF caseVars
<1>12. CASE UNCHANGED liveVars
  BY <1>1, <1>12 DEF liveVars, caseVars
<1>13. Goal
  BY <1>2, <1>3, <1>5, <1>6, <1>7, <1>8, <1>9, <1>10, <1>11, <1>12 DEF LiveNext, RoundStep
<1>14. QED
  BY <1>13

\* Every step of the composition preserves it.
LEMMA LiveInvStep ==
  ASSUME LiveInv, [LiveNext]_liveVars
  PROVE  LiveInv'
<1>1. ExecInv'
  BY StepsOfExecutor, ExecInvStep DEF LiveInv
<1>2. LadderInv' /\ RoundInv'
  BY LadderOfStep
<1>3. CaseTypes'
  <2>1. round' \in LiveCases \cup {"none", "delivery", "probe"}
    BY DEF LiveInv, CaseTypes, LiveNext, RoundStep, StartRound, Allow, Close, Settle, Discard,
           Reconcile, Redeliver, Probe, liveVars, caseVars
  <2>2. QED
    BY <2>1, RowsOfStep, IssuedMayIssue DEF LiveInv, CaseTypes
<1>4. IssuedInv'
  <2>1. \A c \in LiveCases : rows'[c].state = "RECOVERED" => \E l \in links' : l.key[1] = c
    BY RowsOfStep, CallOfStep DEF LiveInv, IssuedInv
  <2>2. \A v \in issued' : MayIssue(v)'
    BY IssuedMayIssue
  <2>3. Valid(exec.verdict)' <=> Valid(exec'.verdict)
    BY DEF Valid
  <2>4. (\A l \in links \cup inflight : \E v \in issued : KeyOf(v) = l.key)'
    BY CallOfStep DEF KeyOf
  <2>5. QED
    BY <2>1, <2>2, <2>3, <2>4, CallOfStep DEF IssuedInv
<1>5. QED
  BY <1>1, <1>2, <1>3, <1>4 DEF LiveInv
----------------------------------------------------------------------------
(* What the invariant gives *)

\* What it says of a ladder that has given up.
LEMMA InvGivingUp == LiveInv => GivingUpSpendsNothing
<1>1. SUFFICES ASSUME LiveInv, GaveUp, DecisionOf(proposal, OpenView(input), FALSE) = "ALLOW"
               PROVE  FALSE
  BY DEF GivingUpSpendsNothing, GaveUp
<1>2. proposal.confidence < MinConfidence
  BY <1>1 DEF LiveInv, LadderInv
<1>3. QED
  BY <1>1, <1>2, AllowedMeansUngated

\* What it says of the verdict behind every link.
LEMMA InvAuthorized == LiveInv => LinksWereAuthorized
<1>1. SUFFICES ASSUME LiveInv, NEW l \in links \cup inflight
               PROVE  /\ rows[l.key[1]].cohort = "TREATED"
                      /\ \E v \in issued : KeyOf(v) = l.key
  BY DEF LinksWereAuthorized
<1>2. PICK v \in issued : KeyOf(v) = l.key
  BY <1>1 DEF LiveInv, IssuedInv
<1>3. rows[v.case].cohort = "TREATED" /\ v.case = l.key[1]
  BY <1>1, <1>2 DEF LiveInv, IssuedInv, MayIssue, KeyOf
<1>4. QED
  BY <1>2, <1>3

\* What it says of a recovered case.
LEMMA InvRecovered == LiveInv => RecoveredHasLink
BY DEF LiveInv, IssuedInv, RecoveredHasLink, LinksOf

\* The links of a case differ in their attempt numbers, which the cap bounds.
LEMMA InvCap == LiveInv => LinksWithinCap
<1>1. SUFFICES ASSUME LiveInv, NEW c \in LiveCases
               PROVE  Cardinality(LinksOf(c)) <= CapOn(c)
  BY DEF LinksWithinCap, CapOn
<1> DEFINE attempt == [l \in LinksOf(c) |-> l.key[2]]
<1>2. CapOn(c) \in Nat
  <2>1. inputOf[c].method \in Methods
    BY <1>1, DiagnosisAssumption DEF LiveInv, CaseTypes
  <2>2. QED
    BY <2>1, PolicyAssumption DEF CapOn
<1>3. ASSUME NEW l \in LinksOf(c)
      PROVE  l \in links /\ l.key = <<c, l.key[2]>> /\ l.key[2] \in 1 .. CapOn(c)
  <2>1. l \in links /\ l.key[1] = c
    BY <1>3 DEF LinksOf
  <2>2. PICK v \in issued : KeyOf(v) = l.key
    BY <1>1, <2>1 DEF LiveInv, IssuedInv
  <2>3. MayIssue(v)
    BY <1>1 DEF LiveInv, IssuedInv
  <2>4. QED
    BY <2>1, <2>2, <2>3 DEF KeyOf, MayIssue
<1>4. attempt \in [LinksOf(c) -> 1 .. CapOn(c)]
  BY <1>3
<1>5. ASSUME NEW l \in LinksOf(c), NEW m \in LinksOf(c), attempt[l] = attempt[m]
      PROVE  l = m
  <2>1. l.key = m.key
    BY <1>3, <1>5
  <2>2. QED
    BY <1>1, <1>3, <2>1, LinkIsItsKey DEF LiveInv
<1>6. attempt \in Injection(LinksOf(c), 1 .. CapOn(c))
  BY <1>4, <1>5 DEF Injection, IsInjective
<1>7. IsFiniteSet(1 .. CapOn(c)) /\ Cardinality(1 .. CapOn(c)) = CapOn(c)
  BY <1>2, FS_Interval
<1>8. QED
  BY <1>6, <1>7, FS_Injection

\* What it says of the types.
LEMMA InvTypes == LiveInv => LiveTypeOK
BY DEF LiveInv, LadderInv, ExecInv, CaseTypes, LiveTypeOK, LiveRow

\* A verdict that a step brings about rests on a proposal that passed.
LEMMA StepIsVouchedFor ==
  ASSUME LiveInv, [LiveNext]_liveVars, issued' # issued
  PROVE  \E c \in LiveCases :
           LET reason == inputOf[c].reason IN
           /\ round = c
           /\ Clean(reason) => CLEAN[reason] # "TERMINAL"
           /\ Clean(reason) \/ reason \in AMBIGUOUS
           /\ reason \in AMBIGUOUS /\ port \in Models =>
                tries < MaxTries /\ proposal = reply /\ reply.evidence # "other"
<1>1. PICK c \in LiveCases : Allow(c)
  BY IssuedByAllow
<1>2. round = c
  BY <1>1 DEF Allow
<1>3. QED
  BY <1>1, <1>2, AllowedIsVouchedFor

----------------------------------------------------------------------------
(* Theorems *)

\* The inductive invariant holds in every reachable state.
THEOREM LiveInvariant == LiveSpec => []LiveInv
<1>1. LiveInit => LiveInv
  BY LiveInvInit
<1>2. LiveInv /\ [LiveNext]_liveVars => LiveInv'
  BY LiveInvStep
<1>3. QED
  BY <1>1, <1>2, PTL DEF LiveSpec

\* Every variable keeps its type, for any number of cases.
THEOREM LiveTypesHold == LiveSpec => []LiveTypeOK
BY LiveInvariant, InvTypes, PTL

\* A model client that has given up says nothing that the gate would allow, for any
\* caps and inputs, whatever the model had answered before.
THEOREM NoSpendAfterGivingUp == LiveSpec => []GivingUpSpendsNothing
BY LiveInvariant, InvGivingUp, PTL

\* No request reaches the service, and none is on its way there, without a verdict
\* for its key, and none for a holdout case.
THEOREM OnlyAuthorizedLinks == LiveSpec => []LinksWereAuthorized
BY LiveInvariant, InvAuthorized, PTL

\* RECOVERED is never said of a case without a link.
THEOREM NoRecoveryWithoutLink == LiveSpec => []RecoveredHasLink
BY LiveInvariant, InvRecovered, PTL

\* The links of a case never outnumber its cap, for any caps.
THEOREM CapBoundsLinks == LiveSpec => []LinksWithinCap
BY LiveInvariant, InvCap, PTL

\* A verdict is issued only where the taxonomy or an accepted answer vouches for it,
\* for any model answers that have the schema.
THEOREM OnlyVouchedVerdicts == LiveSpec => VerdictIsVouchedFor
<1>1. LiveInv /\ [LiveNext]_liveVars =>
        [ issued' # issued =>
            \E c \in LiveCases :
              LET reason == inputOf[c].reason IN
              /\ round = c
              /\ Clean(reason) => CLEAN[reason] # "TERMINAL"
              /\ Clean(reason) \/ reason \in AMBIGUOUS
              /\ reason \in AMBIGUOUS /\ port \in Models =>
                   tries < MaxTries /\ proposal = reply /\ reply.evidence # "other" ]_liveVars
  BY StepIsVouchedFor
<1>2. QED
  BY <1>1, LiveInvariant, PTL DEF LiveSpec, VerdictIsVouchedFor

\* The executor keeps its contract towards the callers that the project has: rounds,
\* redelivered verdicts and late requests.
THEOREM LiveRecoveryKeepsContract == LiveSpec => KeepsContract
<1>1. LiveInit => Contract!ContractInit
  BY ContractStart DEF LiveInit
<1>2. LiveInv /\ [LiveNext]_liveVars =>
        [Contract!ContractNext]_<<links, OpenCalls, LooseKeys>>
  BY StepsOfExecutor, StepKeepsContract DEF LiveInv
<1>3. QED
  BY <1>1, <1>2, LiveInvariant, PTL
     DEF LiveSpec, KeepsContract, Contract!ContractSpec, Contract!contractVars
=============================================================================
