--------------------------- MODULE TaskRefinement ---------------------------
(***************************************************************************)
(* TaskExecution implements TaskLifecycle: an invocation is the message    *)
(* that was sent first, its attempts are the messages of its retry chain,  *)
(* and its phase is read off the TaskRecord of the latest one.             *)
(***************************************************************************)
EXTENDS TaskExecution

Chain(i) == {m \in MsgIds : Sent(m) /\ root[m] = i}

Latest(i) == CHOOSE m \in Chain(i) : \A k \in Chain(i) : n_retries[k] <= n_retries[m]

Forgotten(i) == Chain(i) \cap pruned # {}

PhaseOf(m) ==
    CASE status[m] = "NONE"      -> "waiting"
      [] status[m] = "RUNNING"   -> "running"
      [] status[m] = "RETRIED"   -> "retrying"
      [] status[m] = "SUCCEEDED" -> IF traceback[m] THEN "skipped" ELSE "succeeded"
      [] status[m] = "FAILED"    -> "failed"

phaseBar ==
    [i \in MsgIds |-> IF Chain(i) = {} THEN "none"
                      ELSE IF Forgotten(i) THEN "forgotten" ELSE PhaseOf(Latest(i))]
attemptBar ==
    [i \in MsgIds |-> IF Chain(i) = {} \/ Forgotten(i) THEN 0 ELSE n_retries[Latest(i)]]
effectsBar ==
    [i \in MsgIds |-> IF Chain(i) = {} \/ Forgotten(i) THEN 0 ELSE commits[Latest(i)]]

Lifecycle == INSTANCE TaskLifecycle WITH
    Invocations <- MsgIds, phase <- phaseBar, attempt <- attemptBar, effects <- effectsBar

\* Seen from outside, duplicate deliveries, crashes, failed calls and concurrent
\* workers add up to the simple life of TaskLifecycle: one attempt at a time, each run
\* and committed at most once, the next one only after a retry was recorded, and no
\* outcome without the effects it stands for.
ImplementsLifecycle == Lifecycle!Spec
=============================================================================
