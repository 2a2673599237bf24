-------------------------- MODULE PipelineContract --------------------------
(***************************************************************************)
(* The simulated executor, as the pipeline calls it, seen as an             *)
(* ExecutorContract of the strict kind: a result, SUCCEEDED or FAILED,      *)
(* means that the action of the key ran, and a refusal, retryable or not,   *)
(* that the call ran nothing.                                              *)
(***************************************************************************)
EXTENDS RecoveryPipeline

KeyOf(w) == <<job[w].case, AttemptOf(w)>>

\* The keys a verdict can carry: the cap bounds the attempt.
Keys == UNION {{<<c, n>> : n \in 1 .. CapOf(c)} : c \in Cases}

\* Each charge is an action that ran; its place in the history tells it from
\* another of the same key.
Runs ==
  UNION {{[key |-> <<c, charges[c][i].attempt>>, at |-> i] : i \in DOMAIN charges[c]} :
         c \in Cases}

InExecutor == {w \in Writers : pc[w] \in {"execute", "lookup", "insert", "report"}}

\* A call is open until the provider was asked; its answer is settled then.
StageOf(w) == IF pc[w] \in {"insert", "report"} THEN job[w].outcome ELSE "open"

OpenCalls == {[caller |-> w, key |-> KeyOf(w), stage |-> StageOf(w)] : w \in InExecutor}

Contract == INSTANCE ExecutorContract WITH
  Callers <- Writers,
  ProvesRun <- {"SUCCEEDED", "FAILED"}, ProvesNoRun <- {"REFUSED", "RETRYABLE"},
  runs <- Runs, calls <- OpenCalls, loose <- {}

\* The statements of process_case() around the executor, its lookups, replays,
\* refusals and timeouts, and the deaths in it, keep the promise of the port.
PipelineKeepsContract == Contract!ContractSpec
=============================================================================
