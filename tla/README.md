# A TLA+ verification of django-lambda-tasks

`django-lambda-tasks` runs the background tasks of a Django application on AWS
Lambda. Callers enqueue a task when their transaction commits, SQS delivers the
message, and a Lambda worker executes it, records the outcome in the database
and enqueues a retry if the error asks for one. This directory holds TLA+ models
of the parts of the library with state, the TLC runs that check them on small
instances, and TLAPS proofs for all instances.

Paths in this document are relative to the repository; line numbers of every
modelled definition are in `PROJECT.json` under `map`.

## 1. Inventory

| Part | Code | State | Operations | Talks to |
|---|---|---|---|---|
| Declaration | `decorators.py` | the wrapper of a task: timeouts, retry policy, singleton, queue | declare, `execute_on_commit`, `resolved_timeouts` | settings, dispatch |
| Settings | `settings.py` | none of its own (Django settings) | `QUEUES`, `queue_max_timeout`, execution modes | everything |
| Dispatch | `SQSLambdaTask` in `models.py` | on-commit hooks of the caller's transaction | `_execute`: drop, run eagerly, local pool, SQS, Batch | SQS, local pool, Batch |
| Worker | `handler.py` | a batch of records and its failures | `handler` loop | SQS, executor |
| Batch container | `main` in `handler.py` | a job id, an exit code | `main`, flush, exit | Batch, executor, tracing |
| Executor | `SQSLambdaTaskMessage` in `models.py` | `TaskRecord` rows, singleton locks, the task's transaction | `execute_immediately` | database, cache, dispatch |
| Timeouts | `timeouts.py` | the process's alarm and SIGALRM handler | enter, exit, the signal handler | executor |
| Cold start | `handler.py`, `environment_loader.py`, `secret_loader.py` | `os.environ`, sentinels, secret cache, Django's registry, log handlers | memory limit, two loaders, `django.setup` | Secrets Manager |
| Maintenance | `tasks.py`, `admin.py` | `TaskRecord` rows | `cleanup_task_records`, `replay_tasks`, `submit_batch_job` | database, dispatch, Batch |
| Local pool | `local_executor.py` | one process pool per process, signal handlers | create, submit, shut down | executor |
| Tracing | `tracing.py` | tracer provider, buffered spans | configure, flush | worker |
| Task logger | `logging.py` | one message id per process | set, clear | executor |
| Checks, migrations, example | `checks.py`, `migrations/`, `example/` | none | | |

What is hard about it:

* **Delivery.** SQS delivers at least once, possibly to two workers at once, and
  decides from the response of a batch which messages it keeps. The only guard
  against running a task twice is the primary key of `TaskRecord`.
* **No transaction spans two of the services.** The row, the lock, the task's
  transaction, the outcome and the retry are separate calls, and a worker may die,
  or a call may fail with or without effect, between any two of them.
* **Time.** Locks expire under their holder; SIGALRM arrives wherever the main
  thread is, inside `__enter__` and `__exit__` too.
* **Reused processes.** A container whose cold start failed is invoked again with
  everything the failed attempt left behind.
* **Nesting.** In eager mode a task that enqueues tasks, and every retry, runs on the
  stack of the code that caused it, inside on-commit hooks of which one that raises
  drops the rest.
* **Unlocked globals.** The process pool and the logger's message id are module
  globals that threads and signal handlers read and write without a lock.
* **Split validation.** Timeouts and delays are checked partly at declaration,
  partly against settings at execution, partly not at all (retries). Arguments are
  checked strictly at both ends of a conversion to JSON.

For each part the properties that make it correct are those of section 4; the
hazards they answer are listed, with their lines, in `PROJECT.json`.

## 2. Modules

| Module | What it models |
|---|---|
| `TaskExecution` | SQS, `handler()`, `execute_immediately()`, retries, the singleton lock, replay and cleanup |
| `TaskLifecycle` | abstract: what an invocation may go through |
| `TaskRefinement` | the mapping under which `TaskExecution` implements `TaskLifecycle` |
| `TaskExecutionProofs`, `RetryChainProofs` | theorems of `TaskExecution`: one message; one chain of retries |
| `RefinementProofs` | the theorem that `TaskExecution` implements `TaskLifecycle` |
| `MCTaskExecution` | three kinds of task for TLC |
| `ColdStart` | one process over several invocations: memory limit, loaders, `django.setup` |
| `Container` | extends `ColdStart`: a Lambda container, or a Batch job with `main()` and its attempts; the flush of the traces |
| `ColdStartProofs`, `ContainerProofs`, `MCColdStart`, `MCContainer` | theorems of `ColdStart`, and of `Container` by way of them; instances |
| `TimeoutContext` | SIGALRM, `__enter__`, `__exit__` and the two phases of the handler |
| `SingletonTimeout` | extends `TimeoutContext` with the lock's time to live and the recorded outcome |
| `TimeoutProofs`, `MCSingletonTimeout` | theorems of both; the limits and alarms of the instance |
| `TaskConfig` | validation of a declaration, `resolved_timeouts`, routing |
| `TaskKwargs` | extends `TaskConfig` with the arguments' way through the strict models and JSON, and the deployment check |
| `TaskConfigProofs`, `MCTaskConfig` | theorems of `TaskConfig` and `TaskKwargs`; boundary cases |
| `LocalPool` | the process pool of a development server: creation, submission, workers, signals, exit |
| `Dispatch` | extends `LocalPool`: `execute_on_commit`, on-commit hooks, `_execute`, nested eager tasks, the task logger |
| `DispatchProofs`, `MCDispatch` | theorems of both; the instance |

`TaskExecution` starts where `Dispatch` and `TaskConfig` end: a message is in the queue.
Conversely `Container` and `Dispatch` reduce `execute_immediately()` to what their
properties see of it: its stages, its row, whether it raises and, in eager mode, its hooks.

### TaskExecution

A worker `w` is a process that runs `handler()`. `pc[w]` is its place in it:

```
idle -Receive-> loop -BeginRecord-> get -GetRecord-> create -CreateRecord-> [lock -AcquireLock->]
  body -BodyCommits | BodyRaises | CallbackRaises-> [release -ReleaseLock->] outcome
  outcome -SaveAndReturn-> loop          SUCCEEDED, FAILED, ignored LockError
          -SaveExhausted-> loop          FAILED, MaxRetriesExceededError is raised
          -SaveRetried-> enqueue -EnqueueRetry-> loop
  loop -Respond-> idle                   {"batchItemFailures": ...}
```

Between two of these places lies one call to the database, the cache or SQS, or
the whole of the task's transaction; the code between them is local to the worker.
Each call has its failing variant, with and without effect where the caller cannot
tell (`GetOrCreateFails`, `LockSetupFails`, `AcquireRaises`, `ReleaseRaises`,
`SaveRaises`, `SaveUnacknowledged`, `EnqueueRaises`), and the worker may die
anywhere (`Crash`). `get_or_create` is two steps, because another worker may insert
between the SELECT and the INSERT. An error carries its class (`LockError`,
`Transient`, `Other`, or `SystemExit` for what `except Exception` does not catch);
arguments, results and log text are left out. A task's writes are counted by their
COMMIT. `receives` is what SQS knows; `VisibilityTimeout` makes a message visible
again, also while a worker is busy with it, until `MaxReceives`.

The second group of variables is history. No guard reads it; it exists to say
*why* something happened: `orphaned` (the row's owner died or could not write),
`lateError` (an error after the COMMIT), `lostRetry` (RETRIED saved, send not known
to have worked), `lapsed` (a lock that expired under its holder), `pruned` (the row
was deleted by the cleanup).

External behaviour, modelled from its use: SQS (delivery, visibility timeout,
redrive), the redis lock (non-blocking acquire, a token compared on release, a time
to live), the death of an execution environment.

### TaskLifecycle and TaskRefinement

`TaskLifecycle` has three variables per invocation: its phase (`none`, `waiting`,
`running`, `retrying`, an outcome, or `forgotten`), the number of its latest attempt and
how often that attempt committed. The mapping takes an invocation to be the first
message of a retry chain (`root`) and reads all three off the latest message of that
chain. Deliveries, receives, crashes, failed calls and locks all become stuttering;
cleanup becomes `Forget`. The mapping uses no history variable but `root`, `commits`
and `pruned`.

### ColdStart

`config` is a deployment: which variables are set directly, which have a
`LAMBDA_TASKS_SECRET_*` reference, which references are malformed or name a missing
key, which secrets are no JSON (`garbled`), what the environment secret contributes, whether the memory limit can be set
and whether Django settings are named. The parsers of references and of secrets are
abstracted to whether they accept; an environment secret whose keys the operating
system refuses is not distinguished from other invalid content. `environ` says who
set a variable. Everything but the program counter survives a failed attempt. A
`django.setup()` that raises may leave a registry that refuses to be populated again, or
not, when it failed in the settings (`SetupRaises`).

### TimeoutContext

The alarm counts down in whole seconds (`Tick`); reaching zero makes SIGALRM
pending; the handler then runs as a step of its own, as late as it likes: CPython
runs it between two bytecodes, and a blocking call may defer it. `signal.signal`
runs pending handlers first, so `InstallHandler` and `RestoreHandler` require that
none is pending. `Surface` says where the exception comes out: in the task, which
may catch it, in `__enter__` or `__exit__`, of which the rest is then skipped, or
after the context if its handler was left installed. `outer` is an alarm armed by
somebody else before. In eager mode the context does nothing.

`SingletonTimeout` puts it inside the `with` statements of `execute_immediately()`: the
lock is taken first, with a time to live of `hard` seconds, then the transaction begins
and the context is entered; on the way out the lock is released last. One clock (`Second`)
runs for the alarm and for the key. `other` is a second worker, which enters when it finds
no key. A key that has expired turns the release into a `LockError`, which replaces
whatever the task raised, and the recorded status follows from that. A limit whose handler
was left installed may strike in `release()` or while the outcome is saved
(`Interrupted`). `lead` is history: the seconds between taking the lock and arming the
alarm.

### Container

A Lambda container imports the handler module and is invoked again and again in the
same process. A Batch job is submitted by `submit_batch_job`, itself a task, which may
fail (`SubmitRaises`), or whose worker may die (`SubmitterDies`), before or after Batch has
accepted the job (`SubmitJob`). It is then run by `main()` in one fresh process
per attempt (`StartAttempt` resets everything `ColdStart` has). All that attempts share
is the database, where the row is keyed by `AWS_BATCH_JOB_ID`; `rows` has a key for each
attempt only so that the mistake of using a fresh id can be expressed. An attempt goes through
the stages of `execute_immediately()` one by one, and may be killed between any two:

```
handler -CreateRecord-> created -EnterTask-> task -EndTask-> flush -Finish | FlushRaises-> exited
        -SkipDuplicate | RecordRaises-> flush
created -LockSetupRaises-> flush      outside the try: the row stays RUNNING
        -LockRaises-> flush           inside it: an outcome is recorded, the task is not run
task    -TaskExits-> exited           SystemExit: no outcome, no flush, the task's exit code
```

`SaveOutcome` summarises what `TaskExecution` has in detail between the task and the response:
the outcome that is saved, and whether the record ends on the failure list. The retry strategy
of the job definition, kills included, is external. Of tracing only the flush is modelled,
which raises or does not (`tracing`): spans that are not exported change nothing a task or Batch
sees. History: `cut` (an attempt ended after the insert and before its outcome was known to be
saved), `quit` (the task raised SystemExit), `locked` (the lock could not be entered).

### TaskConfig and TaskKwargs

The life of one task under one set of settings: declared, called or retried, routed,
and, if its timeouts resolve, running. Numbers are integers; the signature check and
the exception types are one flag (`wellFormed`). A Batch message takes the hop over
`submit_batch_job`, itself a task of the default queue.

`TaskKwargs` follows one argument. What the strict models and JSON do to a value depends
on its kind alone: JSON keeps numbers and text, turns datetimes (and UUIDs, ...) into
text, and has no form for the rest; a strict model accepts the kind of the annotation,
or anything if there is none.

### LocalPool and Dispatch

`get_pool()` tests the global, assigns it and reads it again in the `return` statement;
each is a step, since other threads and the signal handler may run between them. A pool
is named after the call whose submission created it. The handler of SIGINT and SIGTERM
takes the pool, terminates the workers, shuts the pool down and chains to the handler
that was installed before (a callable, `SIG_DFL` or `SIG_IGN`); a second signal may
interrupt it. When `ready()` ran off the main thread the handlers are not installed
(`installed`), and the earlier handler gets the signal alone (`UnhandledSignal`). `concurrent.futures` (a dead worker breaks the pool, exit waits for all
pools) is external. `orphans` is history: pools that no variable refers to any more.

In `Dispatch` each thread has a stack of frames: runs of on-commit hooks with what is
left to do, and eager tasks that are in their code (`body`), in the hooks of their own
transaction (`commit`) or waiting for a retry that runs inside them (`retry`). An
exception (`raising`) unwinds the frames. An eager task that fails is recorded (`TaskFails`),
retried in place (`TaskRetries`), or its error leaves `execute_immediately()`: before the task
is called (`DeliverEagerlyRaises`: import, wrapper, timeouts, `get_or_create`, lock set-up), when
an outcome cannot be saved (`TaskUnsaved`, `TaskEscapes`), with SystemExit (`TaskEscapes`), or when
its retries are used up (`TaskRaises`). Django's hooks are external: they run in
order, one that raises drops the ones after it, and outside `atomic()` a hook runs at
once. `logId` is the logger's message id. History: `settled` (the caller's transaction
committed), `escaped` (threads in which an error left an eager `execute_immediately()`),
`overlapped` (two threads were in tasks at once). The specification has no fairness: an eager
task is under no timeout (`timeouts.py:61`) and may never end.

## 3. Bounds and fairness

`MaxInvocations` and `MaxCleanups` bound how often the outside world acts, and appear
only in the guards of those actions. Two workers are what a race needs; three messages
are an invocation and two retries, or two invocations of singletons and a retry.
`MaxReceives = 2` gives every message a redelivery. `MsgIds` bounds the retries that
can be sent: `EnqueueRetry` waits for an unused id, and the instances have as many ids
as `MaxRetries` and `MaxInvocations` can use (`exec_singleton` is the exception: a
second retry there finds no id, which no safety property needs). Messages and workers
are symmetric; so are names and secrets. The liveness runs use no symmetry. The
refinement is checked in `exec_live`, whose instance (one invocation, one retry) has every
action of the abstract specification except `Forget`: with a cleanup the liveness check of that
instance takes too long. `ImplementsLifecycle` alone, under `Spec`, with `MaxCleanups = 1` and the
symmetry of the other runs, takes under a minute (346,314 states) and holds.

`Container`: two variables whose references may share a secret, three invocations (a
failed one, its repetition, a warm one), two attempts of a job. `SingletonTimeout`: limits
of one to three seconds with windows of one and two, an outer alarm that is absent, due
before or after the limits, and `MaxElapsed = 4` as the cap of the elapsed-time counters,
one second past the largest limit. `TaskConfig`: the boundary values of the SQS and Batch
limits; full products would be too many, so `MCTaskConfig` takes the union of three cases
(all timeouts on queues; all delays and modes with default timeouts; all kinds of
argument on all routes). `Dispatch`: two threads and three calls, which is a race for the
pool, a task nested in another with one waiting after it, or two jobs in one pool and one in
another, with threads and calls symmetric; two retries, so that retries nest in retries; one
local worker, so that a job waits for another.

Fairness of `TaskExecution`: a worker that was started keeps running (Lambda does not
suspend it inside an invocation, and a task body is ended by `TimeoutContext`), the
event source polls, visibility timeouts run out. Nobody has to invoke, crash, replay
or clean up, and no call has to succeed. Fairness of `SingletonTimeout`: time passes, the
interpreter runs pending handlers, `__enter__`, `__exit__` and the code around them go on.
The task itself is not fair (it may hang), nor is the other worker. No other specification
states fairness.

## 4. Runs

| Run | Instance | Shows |
|---|---|---|
| `exec_retry` | one invocation of a task that retries transient errors, starting with 0 or 2 retries, limit 2; two workers | `OutcomeMatchesEffects`, `RetryChainLinear`, `RetriesBounded`, `ChainCommitsOnce`, `RetriedIsContinued`, `TerminalRecordsFinal`, `TypeOK` |
| `exec_records` | two invocations or replays, batches of two, a cleanup, no retries | `AtMostOnceExecution`, `AckedHasRecord`, `RunningIsAttended` |
| `exec_singleton` | two singletons, one that retries on a held lock and one that gives up | `SingletonExclusion`, `OutcomeMatchesEffects` |
| `exec_live` | one invocation, one retry, fairness | `InvocationsResolve`, `ImplementsLifecycle` |
| `container` | every deployment of two variables and two secrets; three invocations of a Lambda container, or two attempts of a Batch job | `ServingIsConfigured`, `BootHandlerConfined`, `SecretsNeverOverride`, `JobRunsOnce`, `SuccessMeansRun`, `LossIsReported`, `SuccessIsReported`, `ContainerTypeOK` |
| `timeout` | three pairs of limits, three outer alarms, with and without a lock, fairness | `LimitsNotEarly`, `HardLimitArmed`, `ExitRestores`, `StrayLimitIsLast`, `OverlapBounded`, `HungTaskIsStopped`, `OuterAlarmComes` |
| `config` | timeouts at 0, 1, 900, 901, 3601; delays at -1, 0, 1, 896, 900, 901; all modes; all kinds of argument | `TimeoutsSound`, `DelaysDeliverable`, `BatchHopEnds`, `KwargsArrive`, `DeployCheckComplete` |
| `dispatch` | two threads, three calls, every route, every earlier signal handler, the handlers installed or not | `OnlyAfterCommit`, `EagerFailuresContained`, `EagerDepthBounded`, `LogIdOwn`, `PoolsReleased`, `CommittedIsKept` |

Every property is stated in words above its definition. Each has a mutant in
`PROJECT.json`: a plausible mistake in the code (no unique key, no transaction, the
retry not sent, the token not compared, the cap forgotten...) under which TLC finds the
property violated in the same instance. The mutated operators stand next to the
originals in the modules, marked `mutant:`.

What the properties allow is as informative as what they forbid. A task is executed
at most once per message, not exactly once: a crash after the row was created leaves
it RUNNING for ever (`orphaned`), and redeliveries are skipped. A singleton is
exclusive only while its lock has not expired. A chain commits twice only if a task
raised after its COMMIT (an on-commit callback, or the release of an expired lock). Two
holders of a singleton overlap for no longer than the first one took from its lock to its
alarm, provided its signals are handled when due. A limit that strikes inside `__enter__` or
`__exit__` leaves the context's handler behind, and one more limit may come of it, but no third
(`StrayLimitIsLast`).

A Batch job runs its task at most once, and its exit code says less than it seems to.
`SuccessMeansRun` lists what may hide behind a 0: a task that called `sys.exit(0)` and left its
row RUNNING; an attempt that found the row of an earlier one, which was killed, or failed in the
lock set-up, between the insert and the task, so that the task was never run; a task that met its
lock. `LossIsReported` says that a task which was never run still leaves a trace, if only a row
that is RUNNING for good: its own or, when the worker of `submit_batch_job` died, that one's.
`SuccessIsReported` says when a first attempt that recorded SUCCEEDED may still fail.

In eager mode only what is recorded as FAILED or RETRIED stays inside the task. Every error that
leaves `execute_immediately()` (see section 2) reaches the code that enqueued the task, whose
transaction has already committed, and drops the hooks after it (`escaped` in
`EagerFailuresContained`). `CommittedIsKept` does not say that a committed call is run: a hook may
be dropped with an exception, a broken or shut pool loses its jobs, and an eager task may hang.
It says that none is forgotten without one of these.

### Disagreements between code and documentation

Four runs are expected to end in a violation; the counterexample is the point.

* `exec_doc_retried` (`RetriedHasSuccessor`). A record is saved as RETRIED before the
  retry is sent; a crash or a failing `send_message` in between loses the retry, and
  the redelivered message is skipped.
* `coldstart_doc_conflicts` (`ConflictsAreConfigured`). A cold start that fails half way
  through the references makes every later invocation of that container fail with a
  conflict between a variable and its own reference.
* `timeout_doc_hard` (`HardTimeoutFails`). The lock's time to live ends before the hard
  limit strikes, so that releasing it raises `LockError` in place of the limit: a singleton
  that was stopped is recorded as RETRIED, or as SUCCEEDED without `retry_singleton`, and
  not as FAILED.
* `config_doc_roundtrip` (`KwargsRoundTrip`). A `datetime` accepted when the task is enqueued
  comes out of JSON as text; the strict model in the worker rejects it.

Others were met and are not runs; where a property excepts one, the name of the condition
is given:

* `MaxRetriesExceededError` makes `handler()` report a failure of the task itself
  (`README.md:529` says only pre-execution failures are reported;
  `.kiro/specs/task-retry/design.md:259` describes what the code does).
* A memory limit that cannot be set leaves the boot handler attached
  (`config.memoryValid` in `BootHandlerConfined`).
* A limit raised inside `__exit__` leaves the handler of the finished context installed
  (`window` in `ExitRestores`, and `StrayLimitIsLast`).
* A secret that is no JSON is not cached, so that it is fetched again by every later cold start
  of the container (`DecodeRaises`); `secret_loader.py:24` promises one `GetSecretValue` call for each
  secret and version.
* An attempt of a Batch job after one that was cut off exits with 0 although its task was not run
  (`SuccessMeansRun`); `handler.py:161` says "Returns 0 on success, 1 on failure".
* The hard limit is an ordinary exception, raised once: a task that catches it is not
  stopped (`swallowed` in `HungTaskIsStopped`).
* With tracing enabled and its packages missing, `flush_tracing()` raises and the Batch job
  fails although its task is settled (`tracing` in `SuccessIsReported`); `tracing.py:306` says that
  the imports "are never reached when [...] the packages are not installed".
* After the death of a worker the local pool stays broken: every later submission raises
  until the server is restarted or signalled (`WorkerDies`, `SubmitRaises`).
* A second signal inside the handler skips the shutdown of the pool (`SignalAgain`), two
  threads may each create a pool where `local_executor.py:123` speaks of "the shared" one (`orphans`
  in `PoolsReleased`), and a `ready()` off the main thread leaves every pool to `SIG_DFL`
  (`installed` there).
* After a nested eager task, the outer task logs without its id (the `None` in `LogIdOwn`),
  and two threads that run eager tasks at once log each other's (`overlapped`).

## 5. Proofs

Every invariant and every action property that a run checks, and the refinement, is also a
theorem. The theorems hold for all values of the constants under the assumptions named in
the modules (`ConstantsAssumption`, `NoneAssumption`, `ColdStartAssumption`,
`ContainerAssumption`, `TimeoutAssumption`, `TaskConfigAssumption`, `LocalPoolAssumption`, `DispatchAssumption`): any
sets of messages, workers, tasks, variables, secrets, threads and calls, any limits, any
integer settings; `MaxElapsed` is any cap that is no smaller than the hard limits. Each inductive invariant below was checked with TLC on a small instance before it was
proved. `PROJECT.json` lists the theorems with the properties they state.

* **TaskExecution** (`TaskExecutionProofs`). `TypeCorrect` first. `ExecutionInv` then adds to
  `OutcomeMatchesEffects` what makes it inductive: a message without a row was never
  run (`RowInv`); a worker between creating a row and writing its outcome owns a row
  that is RUNNING, has run as often and committed as often as its place says, and an
  error it carries after a commit is in `lateError` (`OwnerInv`); no two workers own the
  same row (`SoleOwner`). All three except messages whose row was deleted, which is
  exactly the exception `AtMostOnceExecution` makes. `CoordinationInv` carries the rest:
  a worker inside a singleton holds its lock or is in `lapsed` (`LockInv`), a worker about
  to enqueue has retries left (`RetryInv`), and every record of a batch that was
  processed and not reported has a row (`DeliveryInv`). From these:
  `AtMostOnce`, `OutcomesMatchEffects`, `SingletonSafe`, `RetriesAreBounded`,
  `AckedMessagesHaveRecords` and the action property `TerminalFinal`.
* **Retry chains** (`RetryChainProofs`). That a message is retried once depends on all
  workers at once: two of them may carry the same message, and only the owner of its row may
  send. `StepKinds` sorts the steps by what they do to a chain (nothing, a new invocation, a
  cleanup, a new row, a commit, a saved outcome, a sent retry). `ChainInv` is about chains of which
  cleanup deleted no row: every message has the root of its chain (`RootInv`), at most one
  worker is about to send for a row, and that row is RETRIED (`SenderInv`), an earlier message of a chain
  is RETRIED and nobody is about to send for it any more (`LineInv`), and the chain has a latest message
  (`LatestInv`). From it, with `ExecutionInv`: `ChainsAreLinear` and `ChainsCommitOnce`.
  `RunningRowsAttended` and `RetriedRowsContinued` follow from an invariant of who answers for
  a row: `KeepsAttended` says that a worker leaves its row, or its retry, only by writing the
  outcome, by sending, or through one of the failures that `orphaned` and `lostRetry` name.
* **Refinement** (`RefinementProofs`). `ExecutionImplementsLifecycle`. The mapping chooses the
  latest message of a chain; by `ChainInv` a clean chain has exactly one (`LatestIsUnique`), and
  `ViewInv` states the three abstract variables in terms of it. One lemma for each kind of step then
  shows that an abstract action, or none, is taken by one invocation and that the others
  keep their values.
* **ColdStart and Container** (`ColdStartProofs`, `ContainerProofs`). `ColdStartInv`: while
  references are being resolved, a pending one has no variable and a resolved one has the
  secret's value; a sentinel is set only when everything it stands for is in place.
  From it: `ServesConfigured`, `BootHandlerIsConfined`, `NoOverride`. `Container` either takes a step of
  `ColdStart`, or leaves it alone, or starts an attempt; `AttemptIsFresh` shows that an attempt
  begins in an initial state of `ColdStart`, so all of this holds in containers too
  (`ContainersAreConfigured`, `ContainersOverrideNothing`). `ContainerInv` adds what
  the row shared by the attempts tells (`JobInv`): without it nothing has happened; while it is
  RUNNING the process is between the insert and the outcome, or an attempt was cut off there;
  settled, the task was run or met its lock. `ExitInv` says what a process makes of that row on
  its way out, and `SubmissionInv` what a submission has left behind: `JobsRunOnce`,
  `SuccessIsEarned`, `LossesAreReported`, `SuccessesAreReported`.
* **Timeouts** (`TimeoutProofs`). `ContextInv`: whose handler is installed at each place of
  the main thread (`HandlerInv`), and that in each phase an armed alarm ends with that phase and
  a pending signal is not early (`ClockInv`). From it: `LimitsInTime`, `HardLimitKept`,
  `ContextRestores`, `StrayLimits`. `CompositionIsContext` is the implication from `SingletonSpec` to the context's own
  specification, by which all four hold under the lock (`LimitsUnderLock`). `LockInv` relates
  the two clocks (the lead, the elapsed seconds and the key's time to live add up to the hard
  limit), from which `OverlapIsBounded`.
* **TaskConfig and TaskKwargs** (`TaskConfigProofs`). `ConfigInv`: past declaration the
  declaration is valid, and a message on the Batch route has a default queue on SQS. From it:
  `TimeoutsAreSound`, `DelaysAreDeliverable`, `BatchHopsEnd`. `KwargsFollowConfig` carries them over to
  invocations with arguments (`KwargsConfigSound`). `KwargsInv` (the message holds the value
  or its JSON form, and the latter never in eager mode) and `ModeInv` give
  `ArgumentsArrive` and `DeployChecksComplete`.
* **Dispatch and LocalPool** (`DispatchProofs`). The state of a thread is a stack, so the
  invariants are about sequences of frames. `Stacked`: runs of hooks and tasks
  alternate, only the innermost task is in its code, a message inside a task of the same call is
  a later retry, and all messages are of settled calls. Lemmas show that pushing, replacing
  and popping a frame keep it (`NestFacts`, `PopFacts`, `AdvanceFacts`), and `StackSteps` that a step does
  one of these to one thread. With it `HookInv` (calls waiting in hooks are not settled, and wait
  in one thread) and `RouteInv` give `NothingBeforeCommit` and `EagerFailuresAreContained`;
  `EagerDepthIsBounded` maps the frames of a call to their retry counts, which is an injection
  into `0..MAX_RETRIES`. `LogInv` follows the logger's id through a run of hooks inside a task
  (`LogIdsAreOwn`). `SubmitInv` (a call is submitted once, by one thread, and before
  `get_pool()` no pool has its name) makes creation fresh; `PoolInv` then accounts for every open
  pool (`_pool`, the one the signal handler took, or an orphan, as long as the handlers are
  installed): `PoolsAreReleased`. `CommittedCallsAreKept` needs two invariants more. `HeldInv`: a settled
  call that is still `hooked` is in what some frame has left to do or is being submitted, so
  that a frame is dropped only with its calls marked. `JobInv`: a call that was
  handed to a pool has a job there; an unfinished job is in a pool that is open, a lost one in
  a pool that is broken or shut, and pools never reopen.

Only model-checked: the three liveness properties (`InvocationsResolve`, `HungTaskIsStopped`,
`OuterAlarmComes`), since fairness and `ENABLED` are out of the prover's
reach, and the four runs that end in a violation.

## 6. Not modelled, and the plan

Not modelled:

* migrations, the admin's list pages and the example project: declarations and presentation;
* of tracing, everything but the flush that ends a Batch job: setting up the provider, wrapping
  the Lambda handler, signing requests and whether a span arrives, which no task observes; of the checks, the one that reads `INSTALLED_APPS`;
* a cleanup that deletes the row of a Batch job between two of its attempts: it has the effect
  that `AtMostOnceExecution` excepts for messages of SQS;
* savepoints: Django drops the hooks of a rolled-back savepoint, the library has no part in it;
* the pools that workers of the local pool create for tasks they enqueue themselves;
* the retries that botocore makes inside `send_message` and `submit_job`, beyond their outcome
  (with effect, without, or unknown);
* the parsers of secret references and of secrets, beyond whether they accept.

What is left for proofs is what would make them more useful rather than more numerous:

1. the safety halves of the liveness properties, such as that a worker inside `handler()` always
   has a step it can take (no deadlock of `TaskExecution`), stated without `ENABLED` through the guards;
2. `TaskLifecycle` on its own: that its invocations commit at most once and end in one outcome,
   from which the same of `TaskExecution` follows by the refinement;
3. shorter proofs for the stacks of `Dispatch`, whose sequence lemmas are the longest part.
