--------------------------- MODULE TaskExecution ---------------------------
(***************************************************************************)
(* Execution of background tasks on AWS Lambda: SQS delivers messages in   *)
(* batches to worker processes, handler() runs the records of a batch one  *)
(* by one, and execute_immediately() creates the TaskRecord, takes the     *)
(* singleton lock, runs the task in a transaction, records its outcome and *)
(* enqueues a retry.  The unit of atomicity is one call to the database,   *)
(* the cache or SQS, or one transaction; everything else is local to a     *)
(* worker.  Workers may die between any two such calls.                    *)
(***************************************************************************)
EXTENDS Integers, FiniteSets

CONSTANTS
    MsgIds,          \* SQS message ids, also the primary keys of TaskRecord
    Workers,         \* Lambda execution environments
    Tasks,           \* task names
    Wrapper,         \* the LambdaTaskWrapper registered under each task name
    MaxRetries,      \* LAMBDA_TASKS_MAX_RETRIES
    StartRetries,    \* the values callers pass as the _n_retries override
    MaxReceives,     \* maxReceiveCount of the queue's redrive policy
    BatchSize,       \* batch size of the Lambda trigger
    MaxInvocations,  \* bound: invocations and replays made in a behaviour
    MaxCleanups,     \* bound: runs of cleanup_task_records
    None

\* What a step may raise.  "LockError" is redis' LockError, raised by the lock
\* or by the task itself; "Transient" and "Other" are subclasses of Exception;
\* "SystemExit" stands for the BaseExceptions that are not Exceptions.
Errors == {"LockError", "Transient", "Other", "SystemExit"}
BackendErrors == {"Transient", "Other"}

\* decorators.py _validate_singleton: retry_on of a singleton has no LockError.
LambdaTaskWrappers ==
    {r \in [singleton : BOOLEAN, retry_singleton : BOOLEAN, retry_on : SUBSET Errors] :
        r.singleton => "LockError" \notin r.retry_on}

ASSUME ConstantsAssumption ==
    /\ Wrapper \in [Tasks -> LambdaTaskWrappers]
    /\ MaxRetries \in Nat
    /\ StartRetries \subseteq Nat
    /\ MaxReceives \in Nat \ {0}
    /\ BatchSize \in Nat \ {0}
    /\ MaxInvocations \in Nat
    /\ MaxCleanups \in Nat

ASSUME NoneAssumption ==
    /\ None \notin MsgIds
    /\ None \notin Workers
    /\ None \notin Tasks

VARIABLES
    sqs,        \* where each message is
    receives,   \* how often SQS delivered it
    task_name,  \* the body of the message
    n_retries,
    root,       \* the message that started its retry chain
    status,     \* TaskRecord.status, "NONE" when there is no row
    traceback,  \* TaskRecord.traceback is set
    lock,       \* who holds the singleton lock of a task, in the cache
    pc,         \* where each worker is
    cur,        \* the message it is processing
    err,        \* the exception being propagated
    batch,      \* event["Records"]
    todo,       \* the records the loop has not reached
    failed      \* batch_item_failures

VARIABLES  \* history and bounds; no guard of the system reads them
    runs,       \* times the task body of a message was started
    commits,    \* times its transaction committed
    pruned,     \* messages whose row cleanup_task_records deleted
    orphaned,   \* messages whose row was left RUNNING with nobody to finish it
    lateError,  \* messages that raised after their transaction committed
    lostRetry,  \* messages RETRIED whose retry may not have been sent
    lapsed,     \* workers whose singleton lock expired while they held it
    invocations,
    cleanups

queueVars   == <<sqs, receives, task_name, n_retries, root>>
recordVars  == <<status, traceback>>
handlerVars == <<batch, todo, failed>>
localVars   == <<pc, cur, err>>
histVars    == <<runs, commits, pruned, orphaned, lateError, lostRetry, lapsed>>
boundVars   == <<invocations, cleanups>>
vars == <<queueVars, recordVars, lock, localVars, handlerVars, histVars, boundVars>>

Terminal == {"SUCCEEDED", "FAILED", "RETRIED"}
Statuses == {"NONE", "RUNNING"} \cup Terminal
SqsStates == {"unsent", "visible", "inflight", "deleted", "dead"}
PCs == {"idle", "loop", "get", "create", "lock", "body", "release", "outcome", "enqueue"}

\* The worker created the row of cur[w] and has not written its outcome yet.
Owns(w) == pc[w] \in {"lock", "body", "release", "outcome"}
Sent(m) == sqs[m] # "unsent"

TypeOK ==
    /\ sqs \in [MsgIds -> SqsStates]
    /\ receives \in [MsgIds -> Nat]
    /\ task_name \in [MsgIds -> Tasks \cup {None}]
    /\ n_retries \in [MsgIds -> Nat]
    /\ root \in [MsgIds -> MsgIds \cup {None}]
    /\ status \in [MsgIds -> Statuses]
    /\ traceback \in [MsgIds -> BOOLEAN]
    /\ lock \in [Tasks -> Workers \cup {None}]
    /\ pc \in [Workers -> PCs]
    /\ cur \in [Workers -> MsgIds \cup {None}]
    /\ err \in [Workers -> Errors \cup {"none"}]
    /\ batch \in [Workers -> SUBSET MsgIds]
    /\ todo \in [Workers -> SUBSET MsgIds]
    /\ failed \in [Workers -> SUBSET MsgIds]
    /\ runs \in [MsgIds -> Nat]
    /\ commits \in [MsgIds -> Nat]
    /\ pruned \subseteq MsgIds
    /\ orphaned \subseteq MsgIds
    /\ lateError \subseteq MsgIds
    /\ lostRetry \subseteq MsgIds
    /\ lapsed \subseteq Workers
    /\ invocations \in 0..MaxInvocations
    /\ cleanups \in 0..MaxCleanups
    \* a sent message has a body, a row belongs to a message that was sent, and a
    \* worker past the loop has a message
    /\ \A m \in MsgIds : Sent(m) => task_name[m] \in Tasks /\ root[m] \in MsgIds
    /\ \A m \in MsgIds : status[m] # "NONE" => Sent(m)
    /\ \A w \in Workers : pc[w] \notin {"idle", "loop"} =>
           cur[w] \in MsgIds /\ Sent(cur[w])
    /\ \A w \in Workers : \A m \in batch[w] \cup todo[w] : Sent(m)

Init ==
    /\ sqs = [m \in MsgIds |-> "unsent"]
    /\ receives = [m \in MsgIds |-> 0]
    /\ task_name = [m \in MsgIds |-> None]
    /\ n_retries = [m \in MsgIds |-> 0]
    /\ root = [m \in MsgIds |-> None]
    /\ status = [m \in MsgIds |-> "NONE"]
    /\ traceback = [m \in MsgIds |-> FALSE]
    /\ lock = [t \in Tasks |-> None]
    /\ pc = [w \in Workers |-> "idle"]
    /\ cur = [w \in Workers |-> None]
    /\ err = [w \in Workers |-> "none"]
    /\ batch = [w \in Workers |-> {}]
    /\ todo = [w \in Workers |-> {}]
    /\ failed = [w \in Workers |-> {}]
    /\ runs = [m \in MsgIds |-> 0]
    /\ commits = [m \in MsgIds |-> 0]
    /\ pruned = {} /\ orphaned = {} /\ lateError = {} /\ lostRetry = {}
    /\ lapsed = {}
    /\ invocations = 0
    /\ cleanups = 0

(***************************************************************************)
(* SQS and the callers.  Send is SQSLambdaTask._execute on the SQS route:  *)
(* one send_message, for which SQS picks a message id never used before.   *)
(***************************************************************************)
Send(m, t, n, r) ==
    /\ ~Sent(m)
    /\ sqs' = [sqs EXCEPT ![m] = "visible"]
    /\ task_name' = [task_name EXCEPT ![m] = t]
    /\ n_retries' = [n_retries EXCEPT ![m] = n]
    /\ root' = [root EXCEPT ![m] = r]
    /\ UNCHANGED receives

Invoke ==
    /\ invocations < MaxInvocations
    /\ invocations' = invocations + 1
    /\ UNCHANGED <<recordVars, lock, localVars, handlerVars, histVars, cleanups>>

\* wrapper.execute_on_commit(**kwargs), called by the application
ExecuteOnCommit(t, n) ==
    /\ Invoke
    /\ \E m \in MsgIds : Send(m, t, n, m)

\* the admin action: the replay is a new invocation with n_retries = 0
ReplayTask(m) ==
    /\ status[m] # "NONE"
    /\ Invoke
    /\ \E r \in MsgIds : Send(r, task_name[m], 0, r)

\* The trigger hands a batch to an idle worker, which enters handler().
Receive(w) ==
    /\ pc[w] = "idle"
    /\ \E b \in SUBSET {m \in MsgIds : sqs[m] = "visible"} :
          /\ b # {}
          /\ Cardinality(b) <= BatchSize
          /\ sqs' = [m \in MsgIds |-> IF m \in b THEN "inflight" ELSE sqs[m]]
          /\ receives' = [m \in MsgIds |-> IF m \in b THEN receives[m] + 1 ELSE receives[m]]
          /\ batch' = [batch EXCEPT ![w] = b]
          /\ todo' = [todo EXCEPT ![w] = b]
    /\ pc' = [pc EXCEPT ![w] = "loop"]
    /\ UNCHANGED <<task_name, n_retries, root, recordVars, lock, cur, err, failed,
                   histVars, boundVars>>

\* A message that was not deleted in time is delivered again, whether or not a
\* worker is still busy with it, until the redrive policy gives up on it.
VisibilityTimeout(m) ==
    /\ sqs[m] = "inflight"
    /\ sqs' = [sqs EXCEPT ![m] = IF receives[m] < MaxReceives THEN "visible" ELSE "dead"]
    /\ UNCHANGED <<receives, task_name, n_retries, root, recordVars, lock, localVars,
                   handlerVars, histVars, boundVars>>

(***************************************************************************)
(* handler(): the loop over event["Records"].  Return ends the processing  *)
(* of a record normally, Raise with an Exception, which the loop turns     *)
(* into an entry of batchItemFailures.                                     *)
(***************************************************************************)
Finish(w) ==
    /\ pc' = [pc EXCEPT ![w] = "loop"]
    /\ cur' = [cur EXCEPT ![w] = None]
    /\ err' = [err EXCEPT ![w] = "none"]
    /\ UNCHANGED <<batch, todo>>

Return(w) == Finish(w) /\ UNCHANGED failed

\* mutant: the except clause of the loop does not report the record
RaiseUnreported(w) == Finish(w) /\ UNCHANGED failed
Raise(w) == Finish(w) /\ failed' = [failed EXCEPT ![w] = @ \cup {cur[w]}]

\* The record parses, its task imports and its timeouts resolve.
BeginRecord(w, m) ==
    /\ pc[w] = "loop"
    /\ m \in todo[w]
    /\ pc' = [pc EXCEPT ![w] = "get"]
    /\ cur' = [cur EXCEPT ![w] = m]
    /\ todo' = [todo EXCEPT ![w] = @ \ {m}]
    /\ UNCHANGED <<queueVars, recordVars, lock, err, batch, failed, histVars, boundVars>>

\* One of those steps raises: reported before any TaskRecord is written.
RejectRecord(w, m) ==
    /\ pc[w] = "loop"
    /\ m \in todo[w]
    /\ todo' = [todo EXCEPT ![w] = @ \ {m}]
    /\ failed' = [failed EXCEPT ![w] = @ \cup {m}]
    /\ UNCHANGED <<queueVars, recordVars, lock, localVars, batch, histVars, boundVars>>

\* The batch is done: the messages not reported are deleted, as far as the
\* deletions get through (an expired receipt handle may still work or not).
Respond(w) ==
    /\ pc[w] = "loop"
    /\ todo[w] = {}
    /\ \E acked \in SUBSET (batch[w] \ failed[w]) :
          sqs' = [m \in MsgIds |-> IF m \in acked /\ sqs[m] \in {"visible", "inflight"}
                                   THEN "deleted" ELSE sqs[m]]
    /\ pc' = [pc EXCEPT ![w] = "idle"]
    /\ batch' = [batch EXCEPT ![w] = {}]
    /\ failed' = [failed EXCEPT ![w] = {}]
    /\ UNCHANGED <<receives, task_name, n_retries, root, recordVars, lock, cur, err, todo,
                   histVars, boundVars>>

\* The process dies: its batch is never answered, its lock stays until it
\* expires, and the row it was working on keeps its status.
Die(w) ==
    /\ pc' = [pc EXCEPT ![w] = "idle"]
    /\ cur' = [cur EXCEPT ![w] = None]
    /\ err' = [err EXCEPT ![w] = "none"]
    /\ batch' = [batch EXCEPT ![w] = {}]
    /\ todo' = [todo EXCEPT ![w] = {}]
    /\ failed' = [failed EXCEPT ![w] = {}]
    /\ orphaned' = IF Owns(w) THEN orphaned \cup {cur[w]} ELSE orphaned
    /\ lostRetry' = IF pc[w] = "enqueue" THEN lostRetry \cup {cur[w]} ELSE lostRetry
    /\ UNCHANGED <<queueVars, recordVars, lock, runs, commits, pruned, lateError, lapsed,
                   boundVars>>

Crash(w) ==
    /\ pc[w] # "idle"
    /\ Die(w)

(***************************************************************************)
(* execute_immediately(): get_or_create, a SELECT and then an INSERT that  *)
(* the primary key makes exclusive.                                        *)
(***************************************************************************)
WrapperOf(w) == Wrapper[task_name[cur[w]]]

RowMissing(m) == status[m] = "NONE"
\* mutant: no unique key, as with update_or_create
InsertAlways(m) == TRUE
InsertAllowed(m) == status[m] = "NONE"

GetRecord(w) ==
    /\ pc[w] = "get"
    /\ RowMissing(cur[w])
    /\ pc' = [pc EXCEPT ![w] = "create"]
    /\ UNCHANGED <<queueVars, recordVars, lock, cur, err, handlerVars, histVars, boundVars>>

\* not created: the row exists, from the SELECT or from the failed INSERT
SkipDuplicate(w) ==
    /\ \/ pc[w] = "get" /\ ~RowMissing(cur[w])
       \/ pc[w] = "create" /\ ~InsertAllowed(cur[w])
    /\ Return(w)
    /\ UNCHANGED <<queueVars, recordVars, lock, histVars, boundVars>>

Insert(w) ==
    /\ pc[w] = "create"
    /\ InsertAllowed(cur[w])
    /\ status' = [status EXCEPT ![cur[w]] = "RUNNING"]
    /\ UNCHANGED traceback

StartBody(w) ==
    /\ pc' = [pc EXCEPT ![w] = "body"]
    /\ runs' = [runs EXCEPT ![cur[w]] = @ + 1]
    /\ UNCHANGED <<commits, pruned, orphaned, lateError, lostRetry>>

\* created: a task that is no singleton runs under a nullcontext
CreateRecord(w) ==
    /\ Insert(w)
    /\ \/ WrapperOf(w).singleton
          /\ pc' = [pc EXCEPT ![w] = "lock"] /\ UNCHANGED histVars
       \/ ~WrapperOf(w).singleton
          /\ StartBody(w) /\ UNCHANGED lapsed
    /\ UNCHANGED <<queueVars, lock, cur, err, handlerVars, boundVars>>

\* The database fails; the INSERT may have reached it all the same.
GetOrCreateFails(w) ==
    /\ pc[w] \in {"get", "create"}
    /\ Raise(w)
    /\ \/ UNCHANGED <<recordVars, orphaned>>
       \/ Insert(w) /\ orphaned' = orphaned \cup {cur[w]}
    /\ UNCHANGED <<queueVars, lock, runs, commits, pruned, lateError, lostRetry, lapsed,
                   boundVars>>

(***************************************************************************)
(* The singleton lock: a redis lock with a non-blocking acquire, a random  *)
(* token checked on release, and a time to live.                           *)
(***************************************************************************)
\* caches[SINGLETON_CACHE] or cache.lock raises, outside the inner try
LockSetupFails(w) ==
    /\ pc[w] = "lock"
    /\ Raise(w)
    /\ orphaned' = orphaned \cup {cur[w]}
    /\ UNCHANGED <<queueVars, recordVars, lock, runs, commits, pruned, lateError, lostRetry,
                   lapsed, boundVars>>

AcquireLock(w) ==
    LET t == task_name[cur[w]] IN
    /\ pc[w] = "lock"
    /\ lock[t] = None
    /\ lock' = [lock EXCEPT ![t] = w]
    /\ lapsed' = lapsed \ {w}
    /\ StartBody(w)
    /\ UNCHANGED <<queueVars, recordVars, cur, err, handlerVars, boundVars>>

\* The lock is held (LockError), or the cache fails; when only the reply of redis is lost,
\* the lock is taken with a token that nobody has, until it expires.
AcquireRaises(w, e) ==
    LET t == task_name[cur[w]] IN
    /\ pc[w] = "lock"
    /\ \/ e = "LockError" /\ lock[t] # None /\ UNCHANGED lock
       \/ e \in BackendErrors /\ UNCHANGED lock
       \/ e \in BackendErrors /\ lock[t] = None /\ lock' = [lock EXCEPT ![t] = w]
    /\ pc' = [pc EXCEPT ![w] = "outcome"]
    /\ err' = [err EXCEPT ![w] = e]
    /\ UNCHANGED <<queueVars, recordVars, cur, handlerVars, histVars, boundVars>>

\* mutant: release deletes the key without comparing the token
OwnsAnyToken(w, t) == TRUE
OwnsToken(w, t) == lock[t] = w

\* __exit__ of the lock: released if it is still ours, otherwise LockNotOwnedError,
\* a LockError, which takes the place of whatever the body raised
ReleaseLock(w) ==
    LET t == task_name[cur[w]] IN
    /\ pc[w] = "release"
    /\ pc' = [pc EXCEPT ![w] = "outcome"]
    /\ \/ /\ OwnsToken(w, t)
          /\ lock' = [lock EXCEPT ![t] = None]
          /\ UNCHANGED <<err, lateError>>
       \/ /\ ~OwnsToken(w, t)
          /\ err' = [err EXCEPT ![w] = "LockError"]
          /\ lateError' = IF err[w] = "none" THEN lateError \cup {cur[w]} ELSE lateError
          /\ UNCHANGED lock
    /\ UNCHANGED <<queueVars, recordVars, cur, handlerVars, runs, commits, pruned, orphaned,
                   lostRetry, lapsed, boundVars>>

\* the cache fails on release; the lock stays until it expires
ReleaseRaises(w, e) ==
    /\ pc[w] = "release"
    /\ pc' = [pc EXCEPT ![w] = "outcome"]
    /\ err' = [err EXCEPT ![w] = e]
    /\ lateError' = IF err[w] = "none" THEN lateError \cup {cur[w]} ELSE lateError
    /\ UNCHANGED <<queueVars, recordVars, lock, cur, handlerVars, runs, commits, pruned,
                   orphaned, lostRetry, lapsed, boundVars>>

\* Worker w is between acquiring and releasing the singleton lock of t.
Inside(w, t) ==
    /\ pc[w] \in {"body", "release"}
    /\ task_name[cur[w]] = t
    /\ Wrapper[t].singleton

ExpireLock(t) ==
    /\ lock[t] # None
    /\ lock' = [lock EXCEPT ![t] = None]
    /\ lapsed' = IF Inside(lock[t], t) THEN lapsed \cup {lock[t]} ELSE lapsed
    /\ UNCHANGED <<queueVars, recordVars, localVars, handlerVars, runs, commits, pruned,
                   orphaned, lateError, lostRetry, boundVars>>

(***************************************************************************)
(* The task body, inside transaction.atomic() and TimeoutContext.          *)
(***************************************************************************)
LeaveAtomic(w, e) ==
    /\ pc[w] = "body"
    /\ pc' = [pc EXCEPT ![w] = IF WrapperOf(w).singleton THEN "release" ELSE "outcome"]
    /\ err' = [err EXCEPT ![w] = e]
    /\ UNCHANGED <<queueVars, recordVars, lock, cur, handlerVars, runs, pruned, orphaned,
                   lostRetry, lapsed, boundVars>>

BodyCommits(w) ==
    /\ LeaveAtomic(w, "none")
    /\ commits' = [commits EXCEPT ![cur[w]] = @ + 1]
    /\ UNCHANGED lateError

\* mutant: no transaction.atomic(), the writes stay
BodyRaisesUnwrapped(w, e) ==
    /\ LeaveAtomic(w, e)
    /\ commits' = [commits EXCEPT ![cur[w]] = @ + 1]
    /\ UNCHANGED lateError

\* the task raises, a time limit included: rollback
BodyRaises(w, e) ==
    /\ LeaveAtomic(w, e)
    /\ UNCHANGED <<commits, lateError>>

\* an on_commit callback of the task raises, after the COMMIT
CallbackRaises(w, e) ==
    /\ LeaveAtomic(w, e)
    /\ commits' = [commits EXCEPT ![cur[w]] = @ + 1]
    /\ lateError' = lateError \cup {cur[w]}

(***************************************************************************)
(* The outcome.  save(update_fields) needs the row to be there.            *)
(***************************************************************************)
IgnoredLockError(w) ==
    /\ WrapperOf(w).singleton
    /\ ~WrapperOf(w).retry_singleton
    /\ err[w] = "LockError"

EffectiveRetryOn(w) ==
    IF WrapperOf(w).singleton /\ WrapperOf(w).retry_singleton
    THEN {"LockError"} \cup WrapperOf(w).retry_on
    ELSE WrapperOf(w).retry_on

\* except Exception: a BaseException is not handled here
CaughtError(w) == err[w] \in Errors \ {"SystemExit"}
Retryable(w) == CaughtError(w) /\ ~IgnoredLockError(w) /\ err[w] \in EffectiveRetryOn(w)

\* mutant: one retry too many
RetriesExceeded(m) == n_retries[m] > MaxRetries
RetriesExhausted(m) == n_retries[m] >= MaxRetries

\* mutant: the status name of the documentation, not one of TaskStatus
OutcomeRetrying(w) ==
    CASE err[w] = "none" \/ IgnoredLockError(w)     -> "SUCCEEDED"
      [] Retryable(w) /\ ~RetriesExhausted(cur[w])  -> "RETRYING"
      [] OTHER                                      -> "FAILED"
Outcome(w) ==
    CASE err[w] = "none" \/ IgnoredLockError(w)     -> "SUCCEEDED"
      [] Retryable(w) /\ ~RetriesExhausted(cur[w])  -> "RETRIED"
      [] OTHER                                      -> "FAILED"

SaveRow(w) ==
    /\ pc[w] = "outcome"
    /\ err[w] = "none" \/ CaughtError(w)
    /\ status[cur[w]] # "NONE"
    /\ status' = [status EXCEPT ![cur[w]] = Outcome(w)]
    /\ traceback' = [traceback EXCEPT ![cur[w]] = @ \/ err[w] # "none"]
    /\ UNCHANGED <<lock, boundVars>>

\* SUCCEEDED, or FAILED by an error that is not to be retried
SaveAndReturn(w) ==
    /\ ~Retryable(w)
    /\ SaveRow(w)
    /\ Return(w)
    /\ UNCHANGED <<queueVars, histVars>>

\* mutant: MaxRetriesExceededError is raised before the save
RaiseExhausted(w) ==
    /\ pc[w] = "outcome"
    /\ Retryable(w)
    /\ RetriesExhausted(cur[w])
    /\ Raise(w)
    /\ UNCHANGED <<queueVars, recordVars, lock, histVars, boundVars>>

\* FAILED, and MaxRetriesExceededError is raised after the save
SaveExhausted(w) ==
    /\ Retryable(w)
    /\ RetriesExhausted(cur[w])
    /\ SaveRow(w)
    /\ Raise(w)
    /\ UNCHANGED <<queueVars, histVars>>

SaveRetried(w) ==
    /\ Retryable(w)
    /\ ~RetriesExhausted(cur[w])
    /\ SaveRow(w)
    /\ pc' = [pc EXCEPT ![w] = "enqueue"]
    /\ err' = [err EXCEPT ![w] = "none"]
    /\ UNCHANGED <<queueVars, cur, handlerVars, histVars>>

\* The database fails although the UPDATE reached it.
SaveUnacknowledged(w) ==
    /\ SaveRow(w)
    /\ Raise(w)
    /\ lostRetry' = IF Outcome(w) = "RETRIED" THEN lostRetry \cup {cur[w]} ELSE lostRetry
    /\ UNCHANGED <<queueVars, runs, commits, pruned, orphaned, lateError, lapsed>>

\* Nothing is written: the database fails, the result is not serializable, or
\* the row is gone.
SaveRaises(w) ==
    /\ pc[w] = "outcome"
    /\ err[w] = "none" \/ CaughtError(w)
    /\ Raise(w)
    /\ orphaned' = orphaned \cup {cur[w]}
    /\ UNCHANGED <<queueVars, recordVars, lock, runs, commits, pruned, lateError, lostRetry,
                   lapsed, boundVars>>

\* neither execute_immediately() nor handler() catches a BaseException
Uncaught(w) ==
    /\ pc[w] = "outcome"
    /\ err[w] = "SystemExit"
    /\ Die(w)

\* mutant: the retry is never sent
SkipRetry(w) ==
    /\ pc[w] = "enqueue"
    /\ Return(w)
    /\ UNCHANGED <<queueVars, recordVars, lock, histVars, boundVars>>

\* mutant: the retry keeps the count of the message it retries
EnqueueSameCount(w) ==
    /\ pc[w] = "enqueue"
    /\ \E m \in MsgIds : Send(m, task_name[cur[w]], n_retries[cur[w]], root[cur[w]])
    /\ Return(w)
    /\ UNCHANGED <<recordVars, lock, histVars, boundVars>>

\* retry_task.execute_on_commit(), in autocommit mode: sent at once
EnqueueRetry(w) ==
    /\ pc[w] = "enqueue"
    /\ \E m \in MsgIds :
          Send(m, task_name[cur[w]], n_retries[cur[w]] + 1, root[cur[w]])
    /\ Return(w)
    /\ UNCHANGED <<recordVars, lock, histVars, boundVars>>

\* send_message raises; the retry may have been sent all the same
EnqueueRaises(w) ==
    /\ pc[w] = "enqueue"
    /\ Raise(w)
    /\ \/ /\ lostRetry' = lostRetry \cup {cur[w]}
          /\ UNCHANGED queueVars
       \/ /\ \E m \in MsgIds :
                Send(m, task_name[cur[w]], n_retries[cur[w]] + 1, root[cur[w]])
          /\ UNCHANGED lostRetry
    /\ UNCHANGED <<recordVars, lock, runs, commits, pruned, orphaned, lateError, lapsed,
                   boundVars>>

\* cleanup_task_records: rows are chosen by start_time alone, whatever their
\* status; start_time is read from the worker's clock, so any set may be old
CleanupTaskRecords ==
    /\ cleanups < MaxCleanups
    /\ \E old \in SUBSET {m \in MsgIds : status[m] # "NONE"} :
          /\ old # {}
          /\ status' = [m \in MsgIds |-> IF m \in old THEN "NONE" ELSE status[m]]
          /\ traceback' = [m \in MsgIds |-> IF m \in old THEN FALSE ELSE traceback[m]]
          /\ pruned' = pruned \cup old
    /\ cleanups' = cleanups + 1
    /\ UNCHANGED <<queueVars, lock, localVars, handlerVars, runs, commits, orphaned,
                   lateError, lostRetry, lapsed, invocations>>

(***************************************************************************)
(* The specification.                                                      *)
(***************************************************************************)
\* A step that the worker's own code takes.
WorkerStep(w) ==
    \/ \E m \in MsgIds : BeginRecord(w, m) \/ RejectRecord(w, m)
    \/ Respond(w)
    \/ GetRecord(w) \/ SkipDuplicate(w) \/ CreateRecord(w) \/ GetOrCreateFails(w)
    \/ LockSetupFails(w) \/ AcquireLock(w) \/ ReleaseLock(w)
    \/ \E e \in Errors : AcquireRaises(w, e) \/ BodyRaises(w, e) \/ CallbackRaises(w, e)
    \/ \E e \in BackendErrors : ReleaseRaises(w, e)
    \/ BodyCommits(w)
    \/ SaveAndReturn(w) \/ SaveExhausted(w) \/ SaveRetried(w)
    \/ SaveUnacknowledged(w) \/ SaveRaises(w) \/ Uncaught(w)
    \/ EnqueueRetry(w) \/ EnqueueRaises(w)

\* Nothing is left to do until somebody invokes a task.
Quiescent ==
    /\ \A w \in Workers : pc[w] = "idle"
    /\ \A m \in MsgIds : sqs[m] \notin {"visible", "inflight"}
    /\ UNCHANGED vars

Next ==
    \/ \E t \in Tasks, n \in StartRetries : ExecuteOnCommit(t, n)
    \/ \E m \in MsgIds : ReplayTask(m) \/ VisibilityTimeout(m)
    \/ \E w \in Workers : Receive(w) \/ WorkerStep(w) \/ Crash(w)
    \/ \E t \in Tasks : ExpireLock(t)
    \/ CleanupTaskRecords
    \/ Quiescent

Spec == Init /\ [][Next]_vars

\* Lambda keeps running a worker it started (a body ends: TimeoutContext), the
\* trigger polls, and visibility timeouts run out.  Nobody has to invoke a task,
\* crash, or run the cleanup.
Fairness ==
    /\ \A w \in Workers : WF_vars(WorkerStep(w))
    /\ WF_vars(\E w \in Workers : Receive(w))
    /\ \A m \in MsgIds : WF_vars(VisibilityTimeout(m))

FairSpec == Spec /\ Fairness

(***************************************************************************)
(* Safety.                                                                 *)
(***************************************************************************)
\* Duplicate deliveries, visibility timeouts, crashes and failed calls never run
\* a task twice for one message: get_or_create on the message id lets one
\* delivery through.  Only deleting the row while SQS may still deliver the
\* message (cleanup_task_records) undoes that.
AtMostOnceExecution ==
    \A m \in MsgIds : runs[m] > 1 => m \in pruned

\* A message leaves the queue for good only if it left a TaskRecord behind: an
\* acknowledged message was executed, is being executed or was taken over by a
\* row that exists.  (batchItemFailures holds every record that left none.)
AckedHasRecord ==
    \A m \in MsgIds : sqs[m] = "deleted" => status[m] # "NONE" \/ m \in pruned

\* The status tells what happened to the task's writes: SUCCEEDED without a
\* traceback means they were committed; FAILED, RETRIED and an ignored LockError
\* (a singleton with retry_singleton=False only) mean they were rolled back,
\* unless the error came after the commit.
OutcomeMatchesEffects ==
    \A m \in MsgIds \ pruned :
        /\ status[m] = "SUCCEEDED" /\ ~traceback[m] => commits[m] = 1
        /\ status[m] \in Terminal /\ traceback[m] /\ commits[m] > 0 => m \in lateError
        /\ status[m] = "SUCCEEDED" /\ traceback[m] =>
               Wrapper[task_name[m]].singleton /\ ~Wrapper[task_name[m]].retry_singleton

\* A row is RUNNING only while a worker is on its way to writing its outcome, or
\* after that worker died or could not write it.
RunningIsAttended ==
    \A m \in MsgIds : status[m] = "RUNNING" =>
        m \in orphaned \/ \E w \in Workers : Owns(w) /\ cur[w] = m

\* Two workers are inside a singleton at the same time only if the lock of one of
\* them expired under it; in particular the late release of an expired lock never
\* frees the lock of the worker that took over.
SingletonExclusion ==
    \A t \in Tasks : \A v, w \in Workers :
        v # w /\ Inside(v, t) /\ Inside(w, t) => v \in lapsed \/ w \in lapsed

\* A retry chain is a line: the messages that descend from one invocation have
\* different retry counts, so no failure is retried twice.
RetryChainLinear ==
    \A m1, m2 \in MsgIds :
        Sent(m1) /\ Sent(m2) /\ m1 # m2 /\ root[m1] = root[m2] /\ n_retries[m1] = n_retries[m2]
            => \E p \in pruned : root[p] = root[m1]

\* The executor sends no message with more than MAX_RETRIES retries.
RetriesBounded ==
    \A m \in MsgIds : Sent(m) /\ root[m] # m => n_retries[m] <= MaxRetries

\* The writes of one invocation are committed by two messages of its chain only
\* if the earlier one raised after its commit, or its row was deleted.
ChainCommitsOnce ==
    \A m1, m2 \in MsgIds :
        (/\ Sent(m1) /\ Sent(m2) /\ root[m1] = root[m2] /\ n_retries[m1] < n_retries[m2]
         /\ commits[m1] > 0 /\ commits[m2] > 0)
            => m1 \in lateError \/ \E p \in pruned : root[p] = root[m1]

\* A RETRIED record has its retry in the queue, is about to send it, or is one
\* whose send failed: nothing else loses a retry.
RetriedIsContinued ==
    \A m \in MsgIds : status[m] = "RETRIED" =>
        \/ m \in lostRetry
        \/ \E w \in Workers : pc[w] = "enqueue" /\ cur[w] = m
        \/ \E r \in MsgIds : Sent(r) /\ root[r] = root[m] /\ n_retries[r] = n_retries[m] + 1

\* A terminal TaskRecord is never rewritten by a later or a duplicate delivery.
TerminalStep ==
    \A m \in MsgIds \ pruned' :
        status[m] \in Terminal => status'[m] = status[m] /\ traceback'[m] = traceback[m]
TerminalRecordsFinal == [][TerminalStep]_vars

(***************************************************************************)
(* Liveness.                                                               *)
(***************************************************************************)
\* The chain that message r started came to an end: a final record, a message in
\* the dead letter queue, or one of the failures that leave a record behind.
Resolved(r) ==
    \E m \in MsgIds :
        /\ root[m] = r
        /\ \/ status[m] \in {"SUCCEEDED", "FAILED"}
           \/ sqs[m] = "dead"
           \/ m \in orphaned \cup lostRetry \cup pruned

\* Every invocation comes to an end.
InvocationsResolve == \A m \in MsgIds : (Sent(m) /\ root[m] = m) ~> Resolved(m)

(***************************************************************************)
(* What the documentation says.                                            *)
(***************************************************************************)
\* .kiro/steering/product.md: RETRYING means "a new invocation has been enqueued;
\* this record is terminal".
RetriedHasSuccessor ==
    \A m \in MsgIds :
        status[m] = "RETRIED" /\ (\A w \in Workers : cur[w] # m)
            => \E r \in MsgIds : Sent(r) /\ root[r] = root[m] /\ n_retries[r] = n_retries[m] + 1
=============================================================================
