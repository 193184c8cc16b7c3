------------------------------ MODULE Dispatch ------------------------------
(***************************************************************************)
(* From execute_on_commit() to the route: the threads of a Django process  *)
(* enqueue tasks inside and outside transactions, and _execute runs when   *)
(* the transaction has committed.  On the eager route it runs the task     *)
(* there and then, so that tasks that enqueue tasks, and retries, nest on  *)
(* the stack of the thread.  The on_commit hooks of Django are external:   *)
(* they run in order, one that raises drops the ones after it, and the     *)
(* exception leaves the atomic block although it has committed.            *)
(***************************************************************************)
EXTENDS LocalPool, Sequences, SequencesExt

CONSTANTS MAX_RETRIES

ASSUME DispatchAssumption == MAX_RETRIES \in Nat

VARIABLES
    route,      \* what the settings make of _execute (TaskConfig)
    atomic,     \* [Threads -> the thread's own code is inside atomic()]
    hooks,      \* [Threads -> the on_commit hooks registered so far]
    stack,      \* [Threads -> frames, the innermost last]
    raising,    \* [Threads -> an exception is on its way through the frames]
    logId,      \* task_logger.message_id, one for all threads
    fate,       \* [Calls -> what became of the invocation]
    settled,    \* history: calls whose transaction committed
    escaped,    \* history: threads in which an error left an eager execute_immediately()
    overlapped  \* history: two threads had task frames at once

dispatchVars == <<route, atomic, hooks, stack, raising, logId, fate, settled, escaped,
                  overlapped>>
allVars == <<poolVars, dispatchVars>>

Fates == {"new", "hooked", "discarded", "handed", "failed", "skipped"}
Message == [call : Calls, n : 0..MAX_RETRIES]

\* A frame is a run of on_commit hooks with the messages still to do, or an eager
\* execute_immediately(); its message tells it apart from any other, as its uuid4 does.
HookFrames == [kind : {"hooks"}, todo : Seq(Message)]
TaskFrames == [kind : {"body", "commit", "retry"}, msg : Message]

DispatchTypeOK ==
    /\ PoolTypeOK
    /\ route \in {"noop", "eager", "local", "sqs"}
    /\ atomic \in [Threads -> BOOLEAN] /\ raising \in [Threads -> BOOLEAN]
    /\ hooks \in [Threads -> Seq(Message)]
    /\ \A t \in Threads : \A i \in 1..Len(stack[t]) : stack[t][i] \in HookFrames \cup TaskFrames
    /\ logId \in Message \cup {None}
    /\ fate \in [Calls -> Fates]
    /\ settled \subseteq Calls
    /\ escaped \subseteq Threads
    /\ overlapped \in BOOLEAN

DispatchInit ==
    /\ PoolInit
    /\ route \in {"noop", "eager", "local", "sqs"}
    /\ route # "local" => previous = "default" /\ installed
    /\ atomic = [t \in Threads |-> FALSE]
    /\ hooks = [t \in Threads |-> <<>>]
    /\ stack = [t \in Threads |-> <<>>]
    /\ raising = [t \in Threads |-> FALSE]
    /\ logId = None
    /\ fate = [c \in Calls |-> "new"]
    /\ settled = {}
    /\ escaped = {}
    /\ overlapped = FALSE

Top(t) == Last(stack[t])
InFrame(t, kind) == stack[t] # <<>> /\ Top(t).kind = kind
Push(t, frame) == stack' = [stack EXCEPT ![t] = Append(@, frame)]
Replace(t, frame) == stack' = [stack EXCEPT ![t] = Append(Front(@), frame)]
Pop(t) == stack' = [stack EXCEPT ![t] = Front(@)]
HookFrame(todo) == [kind |-> "hooks", todo |-> todo]
CallsOf(todo) == {todo[i].call : i \in 1..Len(todo)}
SetFates(cs, f) == fate' = [c \in Calls |-> IF c \in cs THEN f ELSE fate[c]]

\* the thread runs code: its own, or the body of an eager task, which is in atomic()
Coding(t) == ~raising[t] /\ step[t] = "out" /\ (stack[t] = <<>> \/ InFrame(t, "body"))
InAtomic(t) == IF stack[t] = <<>> THEN atomic[t] ELSE TRUE

(* The thread's own code *)
Begin(t) ==
    /\ Coding(t) /\ stack[t] = <<>> /\ ~atomic[t]
    /\ \E c \in Calls : fate[c] = "new"
    /\ atomic' = [atomic EXCEPT ![t] = TRUE]
    /\ UNCHANGED <<poolVars, route, hooks, stack, raising, logId, fate, settled, escaped,
                   overlapped>>

\* mutant: the task is executed without waiting for the commit
ExecuteAtOnce(t, c) ==
    /\ Coding(t)
    /\ fate[c] = "new"
    /\ SetFates({c}, "hooked")
    /\ Push(t, HookFrame(<<[call |-> c, n |-> 0]>>))
    /\ settled' = IF InAtomic(t) THEN settled ELSE settled \cup {c}
    /\ UNCHANGED <<poolVars, route, atomic, hooks, raising, logId, escaped, overlapped>>
\* wrapper.execute_on_commit(): outside atomic() the hook runs at once
ExecuteOnCommit(t, c) ==
    /\ Coding(t)
    /\ fate[c] = "new"
    /\ SetFates({c}, "hooked")
    /\ IF InAtomic(t)
       THEN /\ hooks' = [hooks EXCEPT ![t] = Append(@, [call |-> c, n |-> 0])]
            /\ UNCHANGED <<stack, settled>>
       ELSE /\ Push(t, HookFrame(<<[call |-> c, n |-> 0]>>))
            /\ settled' = settled \cup {c}
            /\ UNCHANGED hooks
    /\ UNCHANGED <<poolVars, route, atomic, raising, logId, escaped, overlapped>>

Rollback(t) ==
    /\ Coding(t) /\ stack[t] = <<>> /\ atomic[t]
    /\ atomic' = [atomic EXCEPT ![t] = FALSE]
    /\ SetFates(CallsOf(hooks[t]), "discarded")
    /\ hooks' = [hooks EXCEPT ![t] = <<>>]
    /\ UNCHANGED <<poolVars, route, stack, raising, logId, settled, escaped, overlapped>>

Commit(t) ==
    /\ Coding(t) /\ stack[t] = <<>> /\ atomic[t]
    /\ atomic' = [atomic EXCEPT ![t] = FALSE]
    /\ Push(t, HookFrame(hooks[t]))
    /\ settled' = settled \cup CallsOf(hooks[t])
    /\ hooks' = [hooks EXCEPT ![t] = <<>>]
    /\ UNCHANGED <<poolVars, route, raising, logId, fate, escaped, overlapped>>

(* run_and_clear_commit_hooks() and _execute *)
Running(t) == ~raising[t] /\ step[t] = "out" /\ InFrame(t, "hooks")
Todo(t) == Top(t).todo
NextMessage(t) == Head(Todo(t))
Advance(t) == Replace(t, HookFrame(Tail(Todo(t))))

\* noop: dropped with a warning; SQS: send_message, or submit_batch_job on its way there
Deliver(t) ==
    /\ Running(t) /\ Todo(t) # <<>>
    /\ route \in {"noop", "sqs"}
    /\ Advance(t)
    /\ SetFates({NextMessage(t).call}, "handed")
    /\ UNCHANGED <<poolVars, route, atomic, hooks, raising, logId, settled, escaped, overlapped>>

\* send_message, or the look-up of the queue, raises
DeliverRaises(t) ==
    /\ Running(t) /\ Todo(t) # <<>>
    /\ route = "sqs"
    /\ Advance(t)
    /\ SetFates({NextMessage(t).call}, "failed")
    /\ raising' = [raising EXCEPT ![t] = TRUE]
    /\ UNCHANGED <<poolVars, route, atomic, hooks, logId, settled, escaped, overlapped>>

DeliverLocally(t) ==
    /\ Running(t) /\ Todo(t) # <<>>
    /\ route = "local"
    /\ Advance(t)
    /\ BeginSubmit(t, NextMessage(t).call)
    /\ UNCHANGED <<route, atomic, hooks, raising, logId, fate, settled, escaped, overlapped>>

SubmitLocally(t) ==
    /\ Submit(t)
    /\ SetFates({current[t]}, "handed")
    /\ UNCHANGED <<route, atomic, hooks, stack, raising, logId, settled, escaped, overlapped>>

\* mutant: the error of submit_task() is swallowed
SubmitSwallowed(t) ==
    /\ SubmitRaises(t)
    /\ UNCHANGED dispatchVars
SubmitLocallyRaises(t) ==
    /\ SubmitRaises(t)
    /\ SetFates({current[t]}, "failed")
    /\ raising' = [raising EXCEPT ![t] = TRUE]
    /\ UNCHANGED <<route, atomic, hooks, stack, logId, settled, escaped, overlapped>>

Inside(t) == \E i \in 1..Len(stack[t]) : stack[t][i].kind # "hooks"

\* execute_immediately() on the stack, up to the call of the task
DeliverEagerly(t) ==
    /\ Running(t) /\ Todo(t) # <<>>
    /\ route = "eager"
    /\ stack' = [stack EXCEPT ![t] = Front(@) \o
                    <<HookFrame(Tail(Todo(t))), [kind |-> "body", msg |-> NextMessage(t)]>>]
    /\ logId' = NextMessage(t)
    /\ SetFates({NextMessage(t).call}, "handed")
    /\ overlapped' = (overlapped \/ \E u \in Threads \ {t} : Inside(u))
    /\ UNCHANGED <<poolVars, route, atomic, hooks, raising, settled, escaped>>

\* execute_immediately() raises before the task's try: the import, the wrapper, its
\* timeouts, get_or_create() or the set-up of the lock
DeliverEagerlyRaises(t) ==
    /\ Running(t) /\ Todo(t) # <<>>
    /\ route = "eager"
    /\ Advance(t)
    /\ SetFates({NextMessage(t).call}, "failed")
    /\ raising' = [raising EXCEPT ![t] = TRUE]
    /\ escaped' = escaped \cup {t}
    /\ logId' = None
    /\ overlapped' = (overlapped \/ \E u \in Threads \ {t} : Inside(u))
    /\ UNCHANGED <<poolVars, route, atomic, hooks, settled>>

HooksDone(t) ==
    /\ Running(t) /\ Todo(t) = <<>>
    /\ Pop(t)
    /\ UNCHANGED <<poolVars, route, atomic, hooks, raising, logId, fate, settled, escaped,
                   overlapped>>

\* The exception drops the remaining hooks.  The thread's own code gets it in the end,
\* or the task whose atomic() these hooks ended, or whose retry they are.
HooksRaise(t) ==
    /\ raising[t] /\ InFrame(t, "hooks")
    /\ SetFates(CallsOf(Todo(t)), "skipped")
    /\ raising' = [raising EXCEPT ![t] = Len(stack[t]) > 1]
    /\ Pop(t)
    /\ UNCHANGED <<poolVars, route, atomic, hooks, logId, settled, escaped, overlapped>>

(* The eager task, once its code is running *)
\* mutant: the finally clause is missing
ForgetNothing == UNCHANGED logId
\* the finally of execute_immediately()
Forget == logId' = None

\* the code returns and the task's transaction commits: its hooks run inside the with
BodyCommits(t) ==
    /\ Coding(t) /\ InFrame(t, "body")
    /\ stack' = [stack EXCEPT ![t] = Front(@) \o
                    <<[Top(t) EXCEPT !.kind = "commit"], HookFrame(hooks[t])>>]
    /\ settled' = settled \cup CallsOf(hooks[t])
    /\ hooks' = [hooks EXCEPT ![t] = <<>>]
    /\ UNCHANGED <<poolVars, route, atomic, raising, logId, fate, escaped, overlapped>>

\* SUCCEEDED after the hooks, or RETRIED once the retry has run to its end
TaskReturns(t) ==
    /\ ~raising[t] /\ (InFrame(t, "commit") \/ InFrame(t, "retry"))
    /\ Pop(t)
    /\ Forget
    /\ UNCHANGED <<poolVars, route, atomic, hooks, raising, fate, settled, escaped, overlapped>>

\* the save of SUCCEEDED raises, for example on a result that is no JSON
TaskUnsaved(t) ==
    /\ ~raising[t] /\ InFrame(t, "commit")
    /\ raising' = [raising EXCEPT ![t] = TRUE]
    /\ Pop(t)
    /\ Forget
    /\ escaped' = escaped \cup {t}
    /\ UNCHANGED <<poolVars, route, atomic, hooks, fate, settled, overlapped>>

\* the code raises and the transaction is rolled back, or a hook has raised
Fails(t) ==
    \/ Coding(t) /\ InFrame(t, "body")
    \/ raising[t] /\ InFrame(t, "commit")

\* mutant: the error is raised again once it is recorded
TaskFailsLoudly(t) ==
    /\ Fails(t)
    /\ SetFates(CallsOf(hooks[t]), "discarded")
    /\ hooks' = [hooks EXCEPT ![t] = <<>>]
    /\ raising' = [raising EXCEPT ![t] = TRUE]
    /\ Pop(t)
    /\ Forget
    /\ UNCHANGED <<poolVars, route, atomic, settled, escaped, overlapped>>
\* an error that is not in retry_on: FAILED, and execute_immediately() returns
TaskFails(t) ==
    /\ Fails(t)
    /\ SetFates(CallsOf(hooks[t]), "discarded")
    /\ hooks' = [hooks EXCEPT ![t] = <<>>]
    /\ raising' = [raising EXCEPT ![t] = FALSE]
    /\ Pop(t)
    /\ Forget
    /\ UNCHANGED <<poolVars, route, atomic, settled, escaped, overlapped>>

MayRetry(t) == Top(t).msg.n < MAX_RETRIES

\* mutant: a retry keeps its count
RetrySameCount(t) == Top(t).msg
\* an error in retry_on: RETRIED, and the retry is executed inside this call
RetryMessage(t) == [Top(t).msg EXCEPT !.n = @ + 1]

TaskRetries(t) ==
    /\ Fails(t)
    /\ MayRetry(t)
    /\ SetFates(CallsOf(hooks[t]), "discarded")
    /\ hooks' = [hooks EXCEPT ![t] = <<>>]
    /\ raising' = [raising EXCEPT ![t] = FALSE]
    /\ stack' = [stack EXCEPT ![t] = Front(@) \o
                    <<[Top(t) EXCEPT !.kind = "retry"], HookFrame(<<RetryMessage(t)>>)>>]
    /\ UNCHANGED <<poolVars, route, atomic, logId, settled, escaped, overlapped>>

\* the error leaves execute_immediately(), and every RETRIED task around it
Escapes(t) ==
    /\ SetFates(CallsOf(hooks[t]), "discarded")
    /\ hooks' = [hooks EXCEPT ![t] = <<>>]
    /\ raising' = [raising EXCEPT ![t] = TRUE]
    /\ Pop(t)
    /\ Forget
    /\ escaped' = escaped \cup {t}
    /\ UNCHANGED <<poolVars, route, atomic, settled, overlapped>>

\* MaxRetriesExceededError
TaskRaises(t) ==
    /\ \/ Fails(t) /\ ~MayRetry(t)
       \/ raising[t] /\ InFrame(t, "retry")
    /\ Escapes(t)

\* the save of FAILED or RETRIED raises, or the error is no Exception, as SystemExit,
\* and nothing catches it
TaskEscapes(t) == Fails(t) /\ Escapes(t)

ThreadStep(t) ==
    \/ Begin(t) \/ Rollback(t) \/ Commit(t)
    \/ \E c \in Calls : ExecuteOnCommit(t, c)
    \/ Deliver(t) \/ DeliverRaises(t) \/ DeliverLocally(t) \/ DeliverEagerly(t)
    \/ DeliverEagerlyRaises(t)
    \/ SubmitLocally(t) \/ SubmitLocallyRaises(t)
    \/ (CheckPool(t) \/ CreatePool(t) \/ ReturnPool(t)) /\ UNCHANGED dispatchVars
    \/ HooksDone(t) \/ HooksRaise(t)
    \/ BodyCommits(t) \/ TaskReturns(t) \/ TaskUnsaved(t)
    \/ TaskFails(t) \/ TaskRetries(t) \/ TaskRaises(t) \/ TaskEscapes(t)

Gone ==
    /\ process = "gone" \/ (route # "local" /\ \A c \in Calls : fate[c] # "new"
                            /\ \A t \in Threads : stack[t] = <<>> /\ ~atomic[t])
    /\ UNCHANGED allVars

DispatchNext ==
    \/ process # "gone" /\ \E t \in Threads : ThreadStep(t)
    \/ route = "local" /\ PoolStep /\ UNCHANGED dispatchVars
    \/ Gone

DispatchSpec == DispatchInit /\ [][DispatchNext]_allVars

(***************************************************************************)
(* Properties.                                                             *)
(***************************************************************************)
\* Nothing leaves the process, and no task runs, for a transaction that has not
\* committed; the tasks that an eager task enqueues wait for that task's own.
OnlyAfterCommit ==
    \A c \in Calls : fate[c] \in {"handed", "failed", "skipped"} => c \in settled

\* An error of an eager task that is recorded as FAILED or RETRIED goes no further: it
\* neither reaches the code that enqueued the task nor drops the tasks enqueued after
\* it.  What does both is an error that leaves execute_immediately(): of its set-up or
\* of a save, retries that are used up, or one that is no Exception.
EagerFailuresContained ==
    route = "eager" =>
        /\ \A t \in Threads : raising[t] => t \in escaped
        /\ (\E c \in Calls : fate[c] = "skipped") => escaped # {}

TaskFramesOf(t, c) ==
    {i \in 1..Len(stack[t]) : stack[t][i].kind # "hooks" /\ stack[t][i].msg.call = c}

\* Eager retries nest, each inside the call it retries, and no deeper than MAX_RETRIES.
EagerDepthBounded ==
    \A t \in Threads, c \in Calls : Cardinality(TaskFramesOf(t, c)) <= MAX_RETRIES + 1

\* What a task logs carries its own id while its code runs; after tasks nested in it the
\* id may be missing, but is never another's, unless two threads run tasks at once.  When
\* no task is left the id is cleared.
LogIdOwn ==
    /\ (\A t \in Threads : ~Inside(t)) => logId = None
    /\ ~overlapped => \A t \in Threads :
        /\ InFrame(t, "body") => logId = Top(t).msg
        /\ InFrame(t, "commit") \/ InFrame(t, "retry") => logId \in {Top(t).msg, None}

\* the hooks still to run, or a submission under way, hold the invocation
Held(c) == \E t \in Threads :
    \/ current[t] = c
    \/ \E i \in 1..Len(stack[t]) : stack[t][i].kind = "hooks" /\ c \in CallsOf(stack[t][i].todo)

\* the pool that accepted the invocation runs it, or ran it, or was lost with it
InPool(c) ==
    /\ jobs[c].state # "none"
    /\ jobs[c].state \in {"pending", "running"} => pools[jobs[c].pool] = "open"
    /\ jobs[c].state = "lost" => pools[jobs[c].pool] \in {"broken", "shut"}

\* An invocation whose transaction has committed is not forgotten: until its turn comes
\* it is in a list of hooks that somebody will run or drop with an exception, and once a
\* pool has accepted it, that pool stays open for it, also when _pool has lost it to
\* another thread's, unless a worker died or a signal shut it down.
CommittedIsKept ==
    \A c \in settled :
        /\ fate[c] \notin {"new", "discarded"}
        /\ fate[c] = "hooked" => Held(c)
        /\ route = "local" /\ fate[c] = "handed" => InPool(c)
=============================================================================
