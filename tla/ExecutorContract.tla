-------------------------- MODULE ExecutorContract --------------------------
(***************************************************************************)
(* What an executor promises to whoever hands it a verdict                  *)
(* (agent/executors/port.py and the exceptions of contracts.py), whatever   *)
(* it does to keep the promise.                                            *)
(*                                                                         *)
(* A key stands for Verdict.idempotency_key.  `runs' is what happened       *)
(* outside: one element per action that really ran.                        *)
(***************************************************************************)

CONSTANTS Callers,     \* who calls execute()
          Keys,        \* idempotency keys
          ProvesRun,   \* answers after which the action of the key has run
          ProvesNoRun  \* answers after which the call has run nothing

VARIABLES runs,   \* the actions that ran: records with the field `key'
          calls,  \* the calls of execute() under way
          loose   \* keys a call gave up on, whose action may still run

contractVars == <<runs, calls, loose>>

Answers == {"SUCCEEDED", "FAILED", "REFUSED", "RETRYABLE", "UNCERTAIN"}

ContractInit == runs = {} /\ calls = {} /\ loose = {}

\* The action of k runs, for the first time.
Run(k) ==
  /\ \A r \in runs : r.key # k
  /\ \E r \in runs' : r.key = k /\ runs' = runs \cup {r}

MayRun(k) == UNCHANGED runs \/ Run(k)

Begin(w, k) ==
  /\ \A c \in calls : c.caller # w
  /\ calls' = calls \cup {[caller |-> w, key |-> k, stage |-> "open"]}
  /\ UNCHANGED <<runs, loose>>

MoveTo(c, stage) ==
  calls' = (calls \ {c}) \cup {[caller |-> c.caller, key |-> c.key, stage |-> stage]}

\* The executor turns to the provider: from here on it can no longer say that
\* nothing ran.
Try(c) ==
  /\ c.stage = "open"
  /\ MoveTo(c, "trying")
  /\ UNCHANGED <<runs, loose>>

\* One exchange with the provider.
Exchange(c) ==
  /\ c.stage = "trying"
  /\ MayRun(c.key)
  /\ loose' \in {loose, loose \cup {c.key}}
  /\ UNCHANGED calls

Answer(c, answer) ==
  /\ c.stage \in {"open", "trying"}
  /\ MayRun(c.key)
  /\ answer \in ProvesNoRun => c.stage = "open" /\ UNCHANGED runs
  /\ answer \in ProvesRun => \E r \in runs' : r.key = c.key
  /\ MoveTo(c, answer)
  /\ UNCHANGED loose

\* The caller has the answer, or has died.
End(c) == calls' = calls \ {c} /\ UNCHANGED <<runs, loose>>

\* An action that was given up on runs after all, or never will.
Late(k) ==
  /\ MayRun(k)
  /\ loose' = loose \ {k}
  /\ UNCHANGED calls

ContractNext ==
  \/ \E w \in Callers, k \in Keys : Begin(w, k)
  \/ \E c \in calls :
       Try(c) \/ Exchange(c) \/ End(c) \/ \E a \in Answers : Answer(c, a)
  \/ \E k \in loose : Late(k)

ContractSpec == ContractInit /\ [][ContractNext]_contractVars
=============================================================================
