-------------------------- MODULE SingletonTimeout --------------------------
(***************************************************************************)
(* A task under its singleton lock and its time limits: the lock is a key  *)
(* with a time to live of hard_timeout seconds, set before the transaction *)
(* begins and before TimeoutContext arms its first alarm, and released     *)
(* after both have ended.  Composes TimeoutContext with the clock of the   *)
(* lock and with the outcome execute_immediately() records.  The task has  *)
(* an empty retry_on and retries left.                                     *)
(***************************************************************************)
EXTENDS TimeoutContext

VARIABLES
    singleton,  \* "none", or what retry_singleton makes of a LockError
    stage,      \* where execute_immediately() is
    ttl,        \* seconds until our key expires, 0 when there is none
    other,      \* another worker holds the lock
    lead,       \* history: seconds from taking the lock to arming the soft timeout
    err,        \* what leaves the with statements
    status      \* TaskRecord.status

lockVars == <<singleton, stage, ttl, other, err, status>>
allVars == <<vars, lockVars, lead>>

SingletonTypeOK ==
    /\ TypeOK
    /\ singleton \in {"none", "retry", "ignore"}
    /\ stage \in {"lock", "inside", "release", "outcome", "recorded", "escaped"}
    /\ ttl \in 0..hard
    /\ other \in BOOLEAN
    /\ lead \in 0..MaxElapsed
    /\ err \in {"none", "task", "soft", "hard", "LockError"}
    /\ status \in {"RUNNING", "SUCCEEDED", "FAILED", "RETRIED"}

SingletonInit ==
    /\ Init
    /\ singleton \in {"none", "retry", "ignore"}
    /\ stage = "lock"
    /\ ttl = 0
    /\ other \in BOOLEAN
    /\ singleton = "none" => ~other
    /\ lead = 0
    /\ err = "none"
    /\ status = "RUNNING"

\* mutant: the lock outlives the soft timeout only
LockTimeoutSoft == soft
\* timeout= of cache.lock()
LockTimeout == hard

Acquire ==
    /\ stage = "lock"
    /\ ~other
    /\ stage' = "inside"
    /\ ttl' = IF singleton = "none" THEN 0 ELSE LockTimeout
    /\ UNCHANGED <<vars, singleton, other, lead, err, status>>

\* blocking_timeout=0
AcquireFails ==
    /\ stage = "lock"
    /\ other
    /\ stage' = "outcome"
    /\ err' = "LockError"
    /\ UNCHANGED <<vars, singleton, ttl, other, lead, status>>

\* time runs for the alarm and for the key
Second ==
    /\ Tick
    /\ ttl' = IF ttl > 0 THEN ttl - 1 ELSE 0
    /\ lead' = IF stage = "inside" /\ pc \in {"before", "enter"} /\ lead < MaxElapsed
               THEN lead + 1 ELSE lead
    /\ UNCHANGED <<singleton, stage, other, err, status>>

InContext ==
    /\ stage = "inside"
    /\ Enter \/ Exit \/ \E e \in {"none", "task"} : BodyEnds(e)
    /\ UNCHANGED <<lockVars, lead>>

\* A limit whose handler was left installed may strike after the context: in
\* release() it leaves the key behind, in the code that saves the outcome it escapes.
Interrupted ==
    /\ Handler
    /\ \/ /\ stage = "release" /\ exc' # exc
          /\ stage' = "outcome" /\ err' = exc'
       \/ /\ stage = "outcome" /\ exc' # exc
          /\ stage' = "escaped" /\ UNCHANGED err
       \/ /\ stage \notin {"release", "outcome"} \/ exc' = exc
          /\ UNCHANGED <<stage, err>>
    /\ UNCHANGED <<singleton, ttl, other, status, lead>>

\* commit or rollback, on-commit callbacks included
LeaveAtomic ==
    /\ stage = "inside" /\ pc = "done"
    /\ stage' = IF singleton = "none" THEN "outcome" ELSE "release"
    /\ err' = exc
    /\ UNCHANGED <<vars, singleton, ttl, other, status, lead>>

\* a key that expired is not ours any more: LockNotOwnedError, whatever was raised
Release ==
    /\ stage = "release"
    /\ stage' = "outcome"
    /\ err' = IF ttl > 0 THEN err ELSE "LockError"
    /\ ttl' = 0
    /\ UNCHANGED <<vars, singleton, other, status, lead>>

Record ==
    /\ stage = "outcome"
    /\ stage' = "recorded"
    /\ status' = CASE err = "none"                              -> "SUCCEEDED"
                   [] err = "LockError" /\ singleton = "ignore" -> "SUCCEEDED"
                   [] err = "LockError" /\ singleton = "retry"  -> "RETRIED"
                   [] OTHER                                     -> "FAILED"
    /\ UNCHANGED <<vars, singleton, ttl, other, err, lead>>

\* another worker finds no key, runs the same singleton, and leaves
OtherWorker ==
    /\ singleton # "none" /\ stage # "lock"
    /\ other \/ ttl = 0
    /\ other' = ~other
    /\ UNCHANGED <<vars, singleton, stage, ttl, err, status, lead>>

SingletonNext ==
    \/ Acquire \/ AcquireFails \/ Second \/ InContext \/ Interrupted
    \/ LeaveAtomic \/ Release \/ Record \/ OtherWorker

\* The worker takes its steps; the other worker and the task do as they like.
SingletonSpec ==
    /\ SingletonInit /\ [][SingletonNext]_allVars
    /\ WF_allVars(Second)
    /\ WF_allVars(Interrupted)
    /\ WF_allVars(stage = "inside" /\ (Enter \/ Exit) /\ UNCHANGED <<lockVars, lead>>)
    /\ WF_allVars(Acquire \/ AcquireFails \/ LeaveAtomic \/ Release \/ Record)

\* Two workers are in a singleton at once for no longer than its holder needed from
\* taking the lock to starting its clock: as long as its signals are handled when due
\* and it lets its limits through, that is all it has left once its key has expired.
\* (Eager mode has no limits.)
OverlapBounded ==
    pc = "body" /\ other /\ ~eager /\ Undisturbed /\ ~swallowed /\ ~pending
    /\ softAt \in {-1, soft}
        => (IF inHardPhase THEN alarm ELSE alarm + HardWindow) <= lead

(***************************************************************************)
(* What the documentation says.                                            *)
(***************************************************************************)
\* README: "if the task is still running after the hard timeout, it is forcibly
\* terminated and the `TaskRecord` is marked `FAILED`".
HardTimeoutFails ==
    exc = "hard" /\ ~window /\ stage = "recorded" => status = "FAILED"
=============================================================================
