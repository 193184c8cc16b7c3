----------------------------- MODULE Container -----------------------------
(***************************************************************************)
(* The two kinds of container around ColdStart.  A Lambda container        *)
(* imports the handler module and serves many invocations.  A Batch        *)
(* container runs main() once, for the job that submit_batch_job           *)
(* submitted: it delegates to handler(), flushes the traces and exits, and *)
(* Batch starts a fresh container with the same AWS_BATCH_JOB_ID when an   *)
(* attempt fails.  The attempts share nothing but the database.  What      *)
(* execute_immediately() does inside is TaskExecution; here it is reduced  *)
(* to its stages, the row it leaves and whether it raises.                 *)
(***************************************************************************)
EXTENDS ColdStart

CONSTANTS
    MaxAttempts  \* attempts of the Batch job definition's retry strategy

ASSUME ContainerAssumption == MaxAttempts \in Nat

VARIABLES
    kind,        \* "lambda" or "batch"
    tracing,     \* "broken": it is enabled and flush_tracing() raises, for example because
                 \* its packages are not installed; "ok": it is off, or on and working, or
                 \* the process is Lambda's, which never flushes
    submission,  \* the TaskRecord of submit_batch_job, "abandoned" if it stays RUNNING
                 \* for good, or "manual": no message
    job,         \* Batch accepted the job
    stage,       \* of the process
    attempts,    \* containers started for the job
    failures,    \* batchItemFailures is not empty
    exit,        \* exit code of the last attempt, -1 before, 137 if it was killed
    rows,        \* the TaskRecords of the message: [id -> status]
    executions,  \* history: times the task's code was entered
    cut,         \* history: an attempt ended between the insert and the outcome, or without
                 \* an answer to the save of SUCCEEDED
    quit,        \* history: the task ended with SystemExit or KeyboardInterrupt
    locked       \* history: the lock around the task could not be entered

jobVars == <<submission, job, attempts, exit, rows, executions, cut, quit, locked>>
containerVars == <<kind, tracing, stage, failures, jobVars>>
allVars == <<vars, containerVars>>

\* The job's own id, and the ids that only a fresh uuid4 per attempt would give.
Ids == {0} \cup 1..MaxAttempts
Stages == {"none", "import", "main", "runtime", "handler", "created", "task", "flush", "exited"}

ContainerTypeOK ==
    /\ TypeOK
    /\ kind \in {"lambda", "batch"}
    /\ tracing \in {"ok", "broken"}
    /\ job \in BOOLEAN /\ failures \in BOOLEAN
    /\ cut \in BOOLEAN /\ quit \in BOOLEAN /\ locked \in BOOLEAN
    /\ submission \in {"none", "RUNNING", "SUCCEEDED", "FAILED", "abandoned", "manual"}
    /\ stage \in Stages
    /\ attempts \in 0..MaxAttempts
    /\ exit \in {-1, 0, 1, 137}
    /\ rows \in [Ids -> {"none", "RUNNING", "SUCCEEDED", "FAILED", "RETRIED"}]
    /\ executions \in Nat

ContainerInit ==
    /\ Init
    /\ kind \in {"lambda", "batch"}
    /\ tracing \in {"ok", "broken"}
    /\ \/ kind = "lambda" /\ submission = "none" /\ job = FALSE /\ stage = "import"
          /\ tracing = "ok"
       \/ kind = "batch" /\ submission = "RUNNING" /\ job = FALSE /\ stage = "none"
       \/ kind = "batch" /\ submission = "manual" /\ job = TRUE /\ stage = "none"
    /\ failures = FALSE /\ cut = FALSE /\ quit = FALSE /\ locked = FALSE
    /\ attempts = 0 /\ executions = 0
    /\ exit = -1
    /\ rows = [i \in Ids |-> "none"]

(* submit_batch_job, a task of its own without retry_on, whose record is RUNNING; the
   job may start before the record is settled *)
SubmitJob ==
    /\ submission = "RUNNING"
    /\ ~job
    /\ job' = TRUE
    /\ UNCHANGED <<vars, kind, tracing, stage, failures, submission, attempts, exit, rows,
                   executions, cut, quit, locked>>

SubmissionEnds(status) ==
    /\ submission = "RUNNING"
    /\ submission' = status
    /\ UNCHANGED <<vars, kind, tracing, stage, failures, job, attempts, exit, rows, executions,
                   cut, quit, locked>>

SubmitReturns == job /\ SubmissionEnds("SUCCEEDED")

\* mutant: the error of submit_job is swallowed
SubmitSwallowed == SubmissionEnds("SUCCEEDED")
\* The queue is unknown or no Batch queue, the message does not parse, or submit_job
\* raises, before or after Batch accepted the job: the record says FAILED.
SubmitRaises == SubmissionEnds("FAILED")

\* The worker dies in submit_batch_job, or cannot save the outcome: the message is
\* delivered again and skipped as a duplicate, and nothing settles the record.
SubmitterDies == SubmissionEnds("abandoned")

(* The process *)
\* Batch starts an attempt: nothing of an earlier process is left.
StartAttempt ==
    /\ job
    /\ stage = "none" \/ (stage = "exited" /\ exit # 0)
    /\ attempts < MaxAttempts
    /\ attempts' = attempts + 1
    /\ stage' = "import"
    /\ environ' = [n \in Names |-> IF n \in config.direct THEN "direct" ELSE "unset"]
    /\ refs' = config.references
    /\ envLoaded' = FALSE /\ secLoaded' = FALSE /\ done' = FALSE
    /\ cache' = {} /\ django' = "new" /\ handlers' = 0 /\ pc' = "idle"
    /\ pending' = {} /\ conflicts' = {}
    /\ invocations' = 0
    /\ failures' = FALSE
    /\ UNCHANGED <<config, kind, tracing, submission, job, exit, rows, executions, cut, quit,
                   locked>>

\* The handler module is imported, by the Lambda runtime or as __main__;
\* configure_tracing() and instrument_lambda_handler() log what goes wrong and go on.
ImportHandler ==
    /\ stage = "import"
    /\ stage' = IF kind = "lambda" THEN "runtime" ELSE "main"
    /\ UNCHANGED <<vars, kind, tracing, failures, jobVars>>

\* the process ends with an exit code; Batch looks at nothing else
Exit(code) ==
    /\ stage' = "exited"
    /\ exit' = code
    /\ UNCHANGED <<vars, kind, tracing, failures, submission, job, attempts, rows, executions,
                   locked>>

\* main() without LAMBDA_TASKS_MESSAGE
NoMessage ==
    /\ stage = "main"
    /\ submission = "manual"
    /\ Exit(1)
    /\ UNCHANGED <<cut, quit>>

\* the Lambda runtime, or main(), calls handler()
CallHandler ==
    /\ \/ stage = "runtime"
       \/ stage = "main" /\ submission # "manual"
    /\ Invoke
    /\ stage' = "handler"
    /\ UNCHANGED <<kind, tracing, failures, jobVars>>

ColdStartStep ==
    \/ SetMemoryLimit
    \/ SkipEnvironment \/ LoadEnvironment \/ EnvironmentRaises
    \/ SkipSecrets \/ ScanRaises \/ ScanReferences \/ SecretsLoaded
    \/ \E n \in Names : ResolveSecret(n) \/ FetchRaises(n) \/ DecodeRaises(n) \/ MissingKeyRaises(n)
    \/ SetupRaises \/ Setup \/ ImportModels

\* The Lambda runtime reports an exception of handler() and keeps the process; main()
\* does not catch it, nor does it flush the traces then.
RunHandler ==
    /\ stage = "handler"
    /\ ColdStartStep
    /\ \/ pc' # "idle" /\ UNCHANGED <<stage, exit>>
       \/ pc' = "idle" /\ kind = "lambda" /\ stage' = "runtime" /\ UNCHANGED exit
       \/ pc' = "idle" /\ kind = "batch" /\ stage' = "exited" /\ exit' = 1
    /\ UNCHANGED <<kind, tracing, failures, submission, job, attempts, rows, executions, cut,
                   quit, locked>>

\* A Lambda invocation processes its records (TaskExecution) and returns.
ProcessBatch ==
    /\ stage = "handler" /\ kind = "lambda"
    /\ Return
    /\ stage' = "runtime"
    /\ UNCHANGED <<kind, tracing, failures, jobVars>>

(* The record of the job, in handler() as called by main() *)
\* mutant: a fresh id for every attempt
FreshId == attempts
\* message_id = AWS_BATCH_JOB_ID, the same for every attempt
MessageId == 0

\* handler() returns with the record on the failure list or not
HandlerReturns(raised) ==
    /\ failures' = raised
    /\ stage' = "flush"
    /\ Return
    /\ UNCHANGED <<kind, tracing, submission, job, attempts, exit, executions, quit>>

\* close_old_connections(), the message, the wrapper or its timeouts raise, or
\* get_or_create() does, also after its row was committed
RecordRaises ==
    /\ stage = "handler" /\ kind = "batch" /\ pc = "serving"
    /\ \/ UNCHANGED <<rows, cut>>
       \/ /\ rows[MessageId] = "none"
          /\ rows' = [rows EXCEPT ![MessageId] = "RUNNING"]
          /\ cut' = TRUE
    /\ HandlerReturns(TRUE)
    /\ UNCHANGED locked

\* an earlier attempt created the row
SkipDuplicate ==
    /\ stage = "handler" /\ kind = "batch" /\ pc = "serving"
    /\ rows[MessageId] # "none"
    /\ HandlerReturns(FALSE)
    /\ UNCHANGED <<rows, cut, locked>>

CreateRecord ==
    /\ stage = "handler" /\ kind = "batch" /\ pc = "serving"
    /\ rows[MessageId] = "none"
    /\ rows' = [rows EXCEPT ![MessageId] = "RUNNING"]
    /\ stage' = "created"
    /\ UNCHANGED <<vars, kind, tracing, failures, submission, job, attempts, exit, executions,
                   cut, quit, locked>>

\* the settings or the cache of the singleton lock raise, outside the try
LockSetupRaises ==
    /\ stage = "created"
    /\ HandlerReturns(TRUE)
    /\ cut' = TRUE
    /\ UNCHANGED <<rows, locked>>

\* An exception, or the result, is recorded.  MaxRetriesExceededError, a retry that cannot
\* be enqueued, or a save that fails, puts the record on the failure list; such a save
\* leaves the row RUNNING, or only its answer is lost.
SaveOutcome ==
    \E status \in {"RUNNING", "SUCCEEDED", "FAILED", "RETRIED"}, raises \in BOOLEAN :
        /\ status = "RUNNING" => raises
        /\ rows' = [rows EXCEPT ![MessageId] = status]
        /\ cut' = (cut \/ status = "RUNNING" \/ (status = "SUCCEEDED" /\ raises))
        /\ HandlerReturns(raises)

\* The lock is taken, or its cache or the transaction raises: the outcome, SUCCEEDED for a
\* LockError that is ignored, is recorded and the task is not run.
LockRaises ==
    /\ stage = "created"
    /\ SaveOutcome
    /\ locked' = TRUE

EnterTask ==
    /\ stage = "created"
    /\ executions' = executions + 1
    /\ stage' = "task"
    /\ UNCHANGED <<vars, kind, tracing, failures, submission, job, attempts, exit, rows, cut,
                   quit, locked>>

EndTask ==
    /\ stage = "task"
    /\ SaveOutcome
    /\ UNCHANGED locked

\* SystemExit or KeyboardInterrupt, with whatever exit code, passes execute_immediately(),
\* handler() and main(): no outcome is saved and no traces are flushed.
TaskExits ==
    /\ stage = "task"
    /\ \E code \in {0, 1} : Exit(code)
    /\ cut' = TRUE /\ quit' = TRUE

(* flush_tracing() and the exit code *)
\* mutant: the result of handler() is ignored
ExitSuccess == 0
ExitCode == IF failures THEN 1 ELSE 0

Finish ==
    /\ stage = "flush"
    /\ tracing = "ok"
    /\ Exit(ExitCode)
    /\ UNCHANGED <<cut, quit>>

\* mutant: the flush is not gated on tracing_is_enabled()
FlushUngated ==
    /\ stage = "flush"
    /\ Exit(1)
    /\ UNCHANGED <<cut, quit>>
\* flush_tracing() raises, whatever became of the task
FlushRaises ==
    /\ stage = "flush"
    /\ tracing = "broken"
    /\ Exit(1)
    /\ UNCHANGED <<cut, quit>>

\* the container is stopped: a job timeout, a reclaimed host, lack of memory
Kill ==
    /\ kind = "batch"
    /\ stage \notin {"none", "exited"}
    /\ Exit(137)
    /\ cut' = (cut \/ stage \in {"created", "task"})
    /\ UNCHANGED quit

\* Nothing more happens: no invocation, no job, no further attempt.
Ended ==
    \/ stage = "runtime" /\ invocations = MaxInvocations
    \/ stage = "none" /\ submission # "RUNNING" /\ (~job \/ MaxAttempts = 0)
    \/ stage = "exited" /\ submission # "RUNNING" /\ (exit = 0 \/ attempts = MaxAttempts)

Over == Ended /\ UNCHANGED allVars

ContainerNext ==
    \/ SubmitJob \/ SubmitReturns \/ SubmitRaises \/ SubmitterDies
    \/ StartAttempt \/ ImportHandler \/ NoMessage \/ CallHandler \/ RunHandler \/ ProcessBatch
    \/ RecordRaises \/ SkipDuplicate \/ CreateRecord \/ LockSetupRaises \/ LockRaises
    \/ EnterTask \/ EndTask \/ TaskExits
    \/ Finish \/ FlushRaises \/ Kill \/ Over

ContainerSpec == ContainerInit /\ [][ContainerNext]_allVars

(***************************************************************************)
(* Safety.                                                                 *)
(***************************************************************************)
\* However often Batch restarts the job, and wherever an attempt was killed, the task
\* runs at most once: the attempts share the id of the row.
JobRunsOnce == executions <= 1

\* What exit code 0, on which Batch stops retrying, is worth.  The job has a row.  In
\* the first attempt the row is settled, unless the task called sys.exit(0).  In a
\* later one it may say RUNNING for good, and the task may not have been run, when an
\* earlier attempt was cut off after the insert: the row makes the later one a duplicate.
SuccessMeansRun ==
    stage = "exited" /\ exit = 0 =>
        /\ rows[MessageId] # "none"
        /\ rows[MessageId] = "RUNNING" => cut /\ (attempts > 1 \/ quit)
        /\ executions = 0 => locked \/ (cut /\ rows[MessageId] = "RUNNING")

\* A task handed to Batch is not lost without a trace: when nothing more happens and it
\* was not run, the record of submit_batch_job has FAILED or stays RUNNING, the last
\* attempt of the job has failed, its own record stays RUNNING, or it met its lock.
LossIsReported ==
    Ended /\ kind = "batch" /\ executions = 0 /\ MaxAttempts > 0 =>
        \/ submission \in {"FAILED", "abandoned"}
        \/ exit \in {1, 137}
        \/ rows[MessageId] = "RUNNING"
        \/ locked

\* An attempt that recorded the task as SUCCEEDED does not tell Batch that it failed,
\* unless it is killed on its way out, flush_tracing() raises, or it never had the
\* answer to its save.
SuccessIsReported ==
    stage = "exited" /\ attempts = 1 /\ rows[MessageId] = "SUCCEEDED" =>
        exit \in {0, 137} \/ tracing = "broken" \/ cut
=============================================================================
