---------------------------- MODULE LiveExecutor ----------------------------
(***************************************************************************)
(* LiveRazorpayExecutor.execute() (agent/executors/live.py) and the payment *)
(* link service behind it.                                                 *)
(*                                                                         *)
(* A call validates the verdict, POSTs a payment link up to three times     *)
(* and turns what came back, or did not, into a result or an exception.     *)
(* The service refuses a reference_id it knows; a request whose answer was  *)
(* lost, or was an error, may have created the link, may still create it    *)
(* later, or may never.                                                    *)
(***************************************************************************)
EXTENDS Naturals

CONSTANTS LiveCases,    \* cases for which verdicts are delivered
          LiveAttempts  \* attempt numbers of those verdicts

VARIABLES exec,     \* the call of execute() under way, or its answer
          links,    \* the payment links that exist
          inflight  \* requests that were given up on and may still take effect

execVars == <<exec, links, inflight>>

ASSUME ExecAssumption == LiveCases # {} /\ LiveAttempts # {}

MaxPosts == 3

Verdict == [case : LiveCases, attempt : LiveAttempts, allowed : BOOLEAN,
            action : {"RETRY", "STOP", "RECOVERY_LINK"}]

\* What comes back from a POST: a created link, "reference_id already exists",
\* another 400, a 429, any other status, and no answer that can be read.
Responses == {"created", "exists", "bad", "limited", "error", "lost"}

ExecStages == {"idle", "check", "post", "read", "done"}

NoVerdict == [case |-> CHOOSE c \in LiveCases : TRUE,
              attempt |-> CHOOSE k \in LiveAttempts : TRUE,
              allowed |-> FALSE, action |-> "STOP"]

At(stage, verdict, posts, response, answer) ==
  [stage |-> stage, verdict |-> verdict, posts |-> posts,
   response |-> response, answer |-> answer]

NoExec == At("idle", NoVerdict, 0, "none", "none")

ExecInit == exec = NoExec /\ links = {} /\ inflight = {}

----------------------------------------------------------------------------
(* The payment link service *)

\* A bug: every POST has a reference of its own.
ReferencePerPost(verdict, posts) == <<verdict.case, verdict.attempt, posts>>

\* reference_id: the first 40 digits of the idempotency key, taken to be as good
\* as the key; the same for every POST of every call with that key.
Reference(verdict, posts) == <<verdict.case, verdict.attempt, 0>>

KeyOf(verdict) == <<verdict.case, verdict.attempt>>

LinkOf(e) == [key |-> KeyOf(e.verdict), ref |-> Reference(e.verdict, e.posts)]

Known(link) == \E l \in links : l.ref = link.ref

Create(link) == ~Known(link) /\ links' = links \cup {link} /\ UNCHANGED inflight

Delay(link) == inflight' = inflight \cup {link} /\ UNCHANGED links

Serve(link, response) ==
  \/ response = "created" /\ Create(link)
  \/ response = "exists" /\ Known(link) /\ UNCHANGED <<links, inflight>>
  \/ response \in {"bad", "limited"} /\ UNCHANGED <<links, inflight>>
  \/ /\ response \in {"error", "lost"}
     /\ Create(link) \/ Delay(link) \/ UNCHANGED <<links, inflight>>

\* A delayed request is served, without anyone listening.
Land(link) ==
  /\ inflight' = inflight \ {link}
  /\ links' = IF Known(link) THEN links ELSE links \cup {link}
  /\ UNCHANGED exec

----------------------------------------------------------------------------
(* execute() *)

Deliver(verdict) ==
  /\ exec.stage = "idle"
  /\ exec' = At("check", verdict, 0, "none", "none")
  /\ UNCHANGED <<links, inflight>>

\* A bug: only the decision is looked at, not the action.
ValidWhenAllowed(verdict) == verdict.allowed

\* Verdict.is_executable, and the action.
Valid(verdict) == verdict.allowed /\ verdict.action = "RETRY"

\* NOT_AUTHORIZED and ACTION_MISMATCH: no request is made.
CheckVerdict ==
  /\ exec.stage = "check"
  /\ exec' = IF Valid(exec.verdict)
               THEN At("post", exec.verdict, 0, "none", "none")
               ELSE At("done", exec.verdict, 0, "none", "REFUSED")
  /\ UNCHANGED <<links, inflight>>

Post(response) ==
  /\ exec.stage = "post"
  /\ Serve(LinkOf(exec), response)
  /\ exec' = At("read", exec.verdict, exec.posts + 1, response, "none")

\* A bug: a rate limit is retried for as long as it lasts.
AgainWhileLimited(e) == e.response = "limited"

\* The loop goes on after a 429, at most MaxPosts times.
Again(e) == e.response = "limited" /\ e.posts < MaxPosts

\* A bug: an answer that did not come is taken for a success.
ReadOptimistically(response) ==
  CASE response \in {"created", "exists", "lost"} -> "SUCCEEDED"
    [] response = "bad"                           -> "FAILED"
    [] OTHER                                      -> "RETRYABLE"

\* What a response makes of the call.  A 429 that outlasts the loop and every
\* other status are PROVIDER_ERROR, which is retryable.
ReadAs(response) ==
  CASE response \in {"created", "exists"} -> "SUCCEEDED"
    [] response = "bad"                   -> "FAILED"
    [] response = "lost"                  -> "UNCERTAIN"
    [] OTHER                              -> "RETRYABLE"

ReadResponse ==
  /\ exec.stage = "read"
  /\ exec' = IF Again(exec)
               THEN At("post", exec.verdict, exec.posts, "none", "none")
               ELSE At("done", exec.verdict, 0, "none", ReadAs(exec.response))
  /\ UNCHANGED <<links, inflight>>

\* The caller takes the answer.
Release == exec' = NoExec /\ UNCHANGED <<links, inflight>>

ExecStep ==
  CheckVerdict \/ (\E r \in Responses : Post(r)) \/ ReadResponse

ExecNext ==
  \/ \E v \in Verdict : Deliver(v)
  \/ ExecStep
  \/ exec.stage = "done" /\ Release
  \/ \E l \in inflight : Land(l)

ExecSpec == ExecInit /\ [][ExecNext]_execVars

----------------------------------------------------------------------------
(* The contract this executor keeps.  It is weaker than the one of the      *)
(* simulated executor: a 400 is reported as FAILED although nothing ran,    *)
(* and an error status as a refusal although something may have.           *)

Call ==
  [caller |-> "live", key |-> KeyOf(exec.verdict),
   stage |-> CASE exec.stage = "check" -> "open"
               [] exec.stage = "done"  -> exec.answer
               [] OTHER                -> "trying"]

OpenCalls == IF exec.stage = "idle" THEN {} ELSE {Call}

LooseKeys == {l.key : l \in inflight}

Contract == INSTANCE ExecutorContract WITH
  Callers <- {"live"}, Keys <- LiveCases \X LiveAttempts,
  ProvesRun <- {"SUCCEEDED"}, ProvesNoRun <- {"REFUSED"},
  runs <- links, calls <- OpenCalls, loose <- LooseKeys

\* An action runs once per idempotency key over all calls, POSTs and late
\* arrivals; SUCCEEDED is said only of a key that ran, and a terminal refusal
\* only by a call that made no request.
KeepsContract == Contract!ContractSpec

Execs == [stage : ExecStages, verdict : Verdict, posts : 0 .. MaxPosts,
          response : Responses \cup {"none"}, answer : Contract!Answers \cup {"none"}]

Links == [key : LiveCases \X LiveAttempts,
          ref : LiveCases \X LiveAttempts \X (0 .. MaxPosts)]

ExecTypeOK == exec \in Execs /\ links \subseteq Links /\ inflight \subseteq Links
=============================================================================
