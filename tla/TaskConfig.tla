----------------------------- MODULE TaskConfig -----------------------------
(***************************************************************************)
(* Configuration of a task and where its messages go: what the decorator   *)
(* checks when a task is declared, what resolved_timeouts checks against   *)
(* the settings when a message is executed, and how SQSLambdaTask._execute *)
(* picks a route for an invocation and for a retry.                        *)
(***************************************************************************)
EXTENDS Integers

CONSTANTS
    Seconds,       \* timeouts a declaration or the settings may name
    Delays,        \* delays a declaration or a caller may name
    WorkerCounts,  \* values of LAMBDA_TASKS_LOCAL_WORKERS
    None

ASSUME TaskConfigAssumption ==
    /\ Seconds \subseteq Int
    /\ Delays \subseteq Int
    /\ WorkerCounts \subseteq Int
    /\ None \notin Int

MAX_DELAY == 900
MAX_TIMEOUT == 900
MAX_BATCH_TIMEOUT == 3600
Jitter == 1..5   \* round(random.uniform(1, 5))

QueueNames == {"default", "other"}

\* LAMBDA_TASKS_*; a queue is "invalid" if its entry is neither kind of queue
Settings ==
    [queues : [QueueNames -> {"sqs", "batch", "invalid", "absent"}],
     soft : Seconds, hard : Seconds,
     noop : BOOLEAN, eager : BOOLEAN, local_workers : WorkerCounts]

\* The arguments of @lambda_task.  wellFormed: the signature and the exception types
\* pass _validate_func and _validate_retry_on; retries: retry_on is not empty.
Declarations ==
    [soft : Seconds \cup {None}, hard : Seconds \cup {None}, retry_delay : Delays,
     queue : QueueNames, retries : BOOLEAN, singleton : BOOLEAN,
     retriesLockError : BOOLEAN, wellFormed : BOOLEAN]

(***************************************************************************)
(* LambdaTaskWrapper.__init__                                              *)
(***************************************************************************)
\* mutant: zero and negative timeouts pass
TimeoutsOrdered(w) == w.soft # None /\ w.hard # None => w.soft < w.hard
ValidTimeouts(w) ==
    /\ w.soft # None => w.soft > 0
    /\ w.hard # None => w.hard > 0
    /\ w.soft # None /\ w.hard # None => w.soft < w.hard

ValidDelay(d) == 0 <= d /\ d <= MAX_DELAY

ValidRetryDelay(w) ==
    /\ ValidDelay(w.retry_delay)
    /\ w.retry_delay # 0 => w.retries

ValidSingleton(w) == w.singleton => ~w.retriesLockError

ValidDeclaration(w) ==
    w.wellFormed /\ ValidTimeouts(w) /\ ValidRetryDelay(w) /\ ValidSingleton(w)

(***************************************************************************)
(* LambdaTasksSettings                                                     *)
(***************************************************************************)
\* mutant: the default queue may be a Batch queue
DefaultPresent(c) ==
    /\ c.queues["default"] # "absent"
    /\ \A q \in QueueNames : c.queues[q] # "invalid"
\* QUEUES does not raise ImproperlyConfigured
QueuesValid(c) ==
    /\ c.queues["default"] = "sqs"
    /\ \A q \in QueueNames : c.queues[q] # "invalid"

queue_max_timeout(c, q) == IF c.queues[q] = "batch" THEN MAX_BATCH_TIMEOUT ELSE MAX_TIMEOUT

\* NOOP_EXECUTION does not raise
NoopValid(c) == c.noop => ~c.eager /\ c.local_workers <= 0

(***************************************************************************)
(* resolved_timeouts                                                       *)
(***************************************************************************)
Soft(c, w) == IF w.soft # None THEN w.soft ELSE c.soft
Hard(c, w) == IF w.hard # None THEN w.hard ELSE c.hard

TimeoutsResolve(c, w) ==
    /\ QueuesValid(c)
    /\ c.queues[w.queue] # "absent"
    /\ w.soft = None => Soft(c, w) > 0
    /\ w.hard = None => Hard(c, w) > 0
    /\ Soft(c, w) <= queue_max_timeout(c, w.queue)
    /\ Hard(c, w) <= queue_max_timeout(c, w.queue)
    /\ Soft(c, w) < Hard(c, w)

(***************************************************************************)
(* SQSLambdaTask._execute                                                  *)
(***************************************************************************)
Route(c, q) ==
    CASE ~NoopValid(c)                                       -> "ImproperlyConfigured"
      [] NoopValid(c) /\ c.noop                              -> "dropped"
      [] ~c.noop /\ c.eager                                  -> "eager"
      [] ~c.noop /\ ~c.eager /\ c.local_workers > 0          -> "local"
      [] ~c.noop /\ ~c.eager /\ c.local_workers < 0          -> "ImproperlyConfigured"
      [] ~c.noop /\ ~c.eager /\ c.local_workers = 0          ->
            IF QueuesValid(c) /\ c.queues[q] # "absent"
            THEN c.queues[q] ELSE "ImproperlyConfigured"

\* mutant: the jitter is added to a delay that is already capped
RetryDelayUncapped(w, j) == w.retry_delay + j
\* the delay of a retry
RetryDelay(w, j) ==
    IF w.retry_delay + j <= MAX_DELAY THEN w.retry_delay + j ELSE MAX_DELAY

Routes == {"ImproperlyConfigured", "dropped", "eager", "local", "sqs", "batch"}

VARIABLES
    conf,      \* the settings
    wrapper,   \* the declaration of the task
    pc,        \* "declared", "rejected", "registered", "running", "misconfigured",
               \* "refused" (a bad delay), "job" (a Batch job started) or a route
    timeouts,  \* what resolved_timeouts returned
    delay,     \* the delay of the message being routed
    hops       \* times the message was handed to submit_batch_job

vars == <<conf, wrapper, pc, timeouts, delay, hops>>

TypeOK ==
    /\ conf \in Settings
    /\ wrapper \in Declarations
    /\ pc \in {"declared", "rejected", "registered", "running", "misconfigured",
               "refused", "job"} \cup Routes
    /\ timeouts \in Int \X Int
    /\ delay \in Int
    /\ hops \in 0..1

Init ==
    /\ conf \in Settings
    /\ wrapper \in Declarations
    /\ pc = "declared"
    /\ timeouts = <<0, 0>>
    /\ delay = 0
    /\ hops = 0

\* the module of the task is imported
Decorate ==
    /\ pc = "declared"
    /\ pc' = IF ValidDeclaration(wrapper) THEN "registered" ELSE "rejected"
    /\ UNCHANGED <<conf, wrapper, timeouts, delay, hops>>

\* wrapper.execute_on_commit(_delay=d), and _execute once the transaction commits
ExecuteOnCommit(d) ==
    /\ pc = "registered"
    /\ pc' = IF ValidDelay(d) THEN Route(conf, wrapper.queue) ELSE "refused"
    /\ delay' = d
    /\ UNCHANGED <<conf, wrapper, timeouts, hops>>

\* the Batch route: submit_batch_job.execute_on_commit(_delay=delay), a task of the
\* default queue
SubmitBatchJob ==
    /\ pc = "batch"
    /\ hops = 0
    /\ pc' = IF ValidDelay(delay) THEN Route(conf, "default") ELSE "refused"
    /\ hops' = hops + 1
    /\ UNCHANGED <<conf, wrapper, timeouts, delay>>

\* submit_batch_job is itself a task, declared with no arguments: its timeouts
\* resolve, its own checks of the queue pass, and the Batch job runs the message
SubmitWrapper ==
    [soft |-> None, hard |-> None, retry_delay |-> 0, queue |-> "default", retries |-> FALSE,
     singleton |-> FALSE, retriesLockError |-> FALSE, wellFormed |-> TRUE]

RunSubmitBatchJob ==
    /\ pc = "sqs" /\ hops = 1
    /\ pc' = IF TimeoutsResolve(conf, SubmitWrapper) /\ conf.queues[wrapper.queue] = "batch"
             THEN "job" ELSE "misconfigured"
    /\ UNCHANGED <<conf, wrapper, timeouts, delay, hops>>

\* execute_immediately() up to the TaskRecord, in a Lambda worker, a local process
\* or the container of a Batch job
ResolveTimeouts ==
    /\ pc \in {"eager", "local", "job"} \/ (pc = "sqs" /\ hops = 0)
    /\ pc' = IF TimeoutsResolve(conf, wrapper) THEN "running" ELSE "misconfigured"
    /\ timeouts' = IF TimeoutsResolve(conf, wrapper)
                   THEN <<Soft(conf, wrapper), Hard(conf, wrapper)>> ELSE timeouts
    /\ UNCHANGED <<conf, wrapper, delay, hops>>

\* a retryable error: the retry goes through _execute, with no check of its delay
RetryTask(j) ==
    /\ pc = "running"
    /\ wrapper.retries \/ wrapper.singleton
    /\ delay' = RetryDelay(wrapper, j)
    /\ pc' = Route(conf, wrapper.queue)
    /\ hops' = 0
    /\ UNCHANGED <<conf, wrapper, timeouts>>

\* Nothing follows an error, a dropped message or a task that does not retry.
Stopped ==
    /\ pc \in {"rejected", "misconfigured", "refused", "ImproperlyConfigured", "dropped",
               "running"}
    /\ UNCHANGED vars

Next ==
    \/ Decorate
    \/ \E d \in Delays : ExecuteOnCommit(d)
    \/ SubmitBatchJob
    \/ RunSubmitBatchJob
    \/ ResolveTimeouts
    \/ \E j \in Jitter : RetryTask(j)
    \/ Stopped

Spec == Init /\ [][Next]_vars

(***************************************************************************)
(* Properties.                                                             *)
(***************************************************************************)
\* A task that runs has timeouts the rest of the system can live with, wherever they
\* came from: 0 < soft < hard, and hard within what the queue's platform allows.
\* The checks are spread over the decorator and resolved_timeouts.
TimeoutsSound ==
    pc = "running" =>
        /\ 0 < timeouts[1]
        /\ timeouts[1] < timeouts[2]
        /\ timeouts[2] <= (IF conf.queues[wrapper.queue] = "batch" THEN 3600 ELSE 900)

\* What reaches send_message or submit_batch_job has a delay SQS accepts: the retry
\* of a task declared with any delay included, which nobody checks again once the
\* record says RETRIED.
DelaysDeliverable ==
    pc \in {"sqs", "batch"} => 0 <= delay /\ delay <= 900

\* Handing a message to submit_batch_job works and ends: its own message goes to SQS
\* and never through another hop, and what runs it starts a Batch job or stops.
BatchHopEnds == hops = 1 => pc \in {"sqs", "job", "running", "misconfigured"}
=============================================================================
