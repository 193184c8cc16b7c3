--------------------------- MODULE TaskLifecycle ---------------------------
(***************************************************************************)
(* What the library promises about an invocation of a task, whatever       *)
(* happens to queues, workers and databases: it makes attempts, one at a   *)
(* time and each at most once; an attempt takes effect at most once and    *)
(* before its outcome is known; another one follows only a retried one,    *)
(* and an outcome is final.  Deleting a record is the only thing that      *)
(* takes the promise back.                                                 *)
(***************************************************************************)
EXTENDS Naturals

CONSTANTS
    Invocations,   \* calls of execute_on_commit and replays
    MaxRetries,    \* LAMBDA_TASKS_MAX_RETRIES
    StartRetries   \* the values callers pass as the _n_retries override

VARIABLES
    phase,    \* where each invocation is
    attempt,  \* the number of its latest attempt
    effects   \* how often the latest attempt committed its writes

vars == <<phase, attempt, effects>>

\* "skipped" is the success of a singleton that gave up on its lock.
Outcomes == {"succeeded", "skipped", "failed"}

Init ==
    /\ phase = [i \in Invocations |-> "none"]
    /\ attempt = [i \in Invocations |-> 0]
    /\ effects = [i \in Invocations |-> 0]

Move(i, from, to) ==
    /\ phase[i] = from
    /\ phase' = [phase EXCEPT ![i] = to]

Call(i, n) ==
    /\ Move(i, "none", "waiting")
    /\ attempt' = [attempt EXCEPT ![i] = n]
    /\ UNCHANGED effects

Start(i) == Move(i, "waiting", "running") /\ UNCHANGED <<attempt, effects>>

Commit(i) ==
    /\ phase[i] = "running"
    /\ effects[i] = 0
    /\ effects' = [effects EXCEPT ![i] = 1]
    /\ UNCHANGED <<phase, attempt>>

End(i, outcome) ==
    /\ outcome = "succeeded" => effects[i] = 1
    /\ Move(i, "running", outcome)
    /\ UNCHANGED <<attempt, effects>>

Retry(i) ==
    /\ attempt[i] < MaxRetries
    /\ Move(i, "running", "retrying")
    /\ UNCHANGED <<attempt, effects>>

Resend(i) ==
    /\ Move(i, "retrying", "waiting")
    /\ attempt' = [attempt EXCEPT ![i] = @ + 1]
    /\ effects' = [effects EXCEPT ![i] = 0]

Forget(S) ==
    /\ \A i \in S : phase[i] # "none"
    /\ phase' = [i \in Invocations |-> IF i \in S THEN "forgotten" ELSE phase[i]]
    /\ attempt' = [i \in Invocations |-> IF i \in S THEN 0 ELSE attempt[i]]
    /\ effects' = [i \in Invocations |-> IF i \in S THEN 0 ELSE effects[i]]

Next ==
    \/ \E i \in Invocations :
          \/ \E n \in StartRetries \cup {0} : Call(i, n)
          \/ Start(i) \/ Commit(i) \/ Retry(i) \/ Resend(i)
          \/ \E outcome \in Outcomes : End(i, outcome)
    \/ \E S \in SUBSET Invocations : Forget(S)

Spec == Init /\ [][Next]_vars
=============================================================================
