-------------------------- MODULE MCTaskExecution --------------------------
(* Instances of TaskExecution for TLC. *)
EXTENDS TaskRefinement, TLC

CONSTANTS plain, single, optional

\* plain retries transient errors; single retries when its lock is held, optional
\* gives up.
MCWrapper ==
    [t \in Tasks |->
        [singleton |-> t \in {single, optional},
         retry_singleton |-> t # optional,
         retry_on |-> IF t = plain THEN {"Transient"} ELSE {}]]

Symmetric == Permutations(MsgIds) \cup Permutations(Workers)
=============================================================================
