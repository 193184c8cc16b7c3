----------------------------- MODULE LocalPool -----------------------------
(***************************************************************************)
(* Async local execution in a development server: the process pool that    *)
(* get_pool() creates on first use, submissions from several threads, the  *)
(* workers, and the shutdown from the SIGINT and SIGTERM handlers that     *)
(* ready() installs.  get_pool() takes no lock: its test, its assignment   *)
(* and the read of its return statement are steps of their own.  A pool is *)
(* named after the call whose submission created it.                       *)
(***************************************************************************)
EXTENDS Naturals, FiniteSets

CONSTANTS
    Threads,      \* threads of the server that enqueue tasks
    Calls,        \* invocations of tasks
    LocalWorkers, \* LAMBDA_TASKS_LOCAL_WORKERS, also when another route is taken
    None

ASSUME LocalPoolAssumption == LocalWorkers \in Nat \ {0} /\ None \notin Calls

VARIABLES
    pool,      \* local_executor._pool
    pools,     \* [Calls -> state]; "shut": terminated, its semaphores released
    jobs,      \* [Calls -> the future's state and its pool]
    step,      \* [Threads -> where the thread is in submit_task]
    current,   \* [Threads -> the call being submitted]
    mine,      \* [Threads -> what get_pool() returned]
    process,   \* "running", "exiting" (the interpreter unwinds) or "gone"
    previous,  \* the handler the signals had before ready()
    installed, \* ready() ran in the main thread and could install its own handlers
    signal,    \* where the signal handler is: "idle", "shutdown" or "chain"
    taken,     \* the pool _shutdown_pool() took
    orphans    \* history: pools that _pool lost to another thread, that were made after
               \* the handler had looked, or whose shutdown a second signal cut off

poolVars == <<pool, pools, jobs, step, current, mine, process, previous, installed, signal, taken,
              orphans>>

NoJob == [state |-> "none", pool |-> None]

PoolTypeOK ==
    /\ pool \in Calls \cup {None} /\ taken \in Calls \cup {None}
    /\ pools \in [Calls -> {"none", "open", "broken", "shut"}]
    /\ jobs \in [Calls -> [state : {"none", "pending", "running", "done", "lost"},
                           pool : Calls \cup {None}]]
    /\ step \in [Threads -> {"out", "check", "create", "return", "submit"}]
    /\ current \in [Threads -> Calls \cup {None}]
    /\ mine \in [Threads -> Calls \cup {None}]
    /\ process \in {"running", "exiting", "gone"}
    /\ previous \in {"callable", "default", "ignore"} /\ installed \in BOOLEAN
    /\ signal \in {"idle", "shutdown", "chain"}
    /\ orphans \subseteq Calls

PoolInit ==
    /\ pool = None /\ taken = None
    /\ pools = [c \in Calls |-> "none"]
    /\ jobs = [c \in Calls |-> NoJob]
    /\ step = [t \in Threads |-> "out"]
    /\ current = [t \in Threads |-> None]
    /\ mine = [t \in Threads |-> None]
    /\ process = "running"
    /\ previous \in {"callable", "default", "ignore"} /\ installed \in BOOLEAN
    /\ signal = "idle"
    /\ orphans = {}

(* submit_task() and get_pool() *)
\* submit_task(message_json) is called for c
BeginSubmit(t, c) ==
    /\ step' = [step EXCEPT ![t] = "check"]
    /\ current' = [current EXCEPT ![t] = c]
    /\ UNCHANGED <<pool, pools, jobs, mine, process, previous, installed, signal, taken, orphans>>

\* if _pool is None
CheckPool(t) ==
    /\ step[t] = "check"
    /\ step' = [step EXCEPT ![t] = IF pool = None THEN "create" ELSE "return"]
    /\ UNCHANGED <<pool, pools, jobs, current, mine, process, previous, installed, signal,
                   taken, orphans>>

CreatePool(t) ==
    /\ step[t] = "create"
    /\ pools' = [pools EXCEPT ![current[t]] = "open"]
    /\ pool' = current[t]
    /\ orphans' = orphans \cup ({pool} \ {None})
                          \cup (IF signal = "idle" THEN {} ELSE {current[t]})
    /\ step' = [step EXCEPT ![t] = "return"]
    /\ UNCHANGED <<jobs, current, mine, process, previous, installed, signal, taken>>

\* return _pool reads the global once more: the handler may have cleared it
ReturnPool(t) ==
    /\ step[t] = "return"
    /\ mine' = [mine EXCEPT ![t] = pool]
    /\ step' = [step EXCEPT ![t] = "submit"]
    /\ UNCHANGED <<pool, pools, jobs, current, process, previous, installed, signal, taken,
                   orphans>>

Accepts(t) == mine[t] # None /\ pools[mine[t]] = "open" /\ process = "running"

LeaveSubmit(t) ==
    /\ step' = [step EXCEPT ![t] = "out"]
    /\ current' = [current EXCEPT ![t] = None]
    /\ mine' = [mine EXCEPT ![t] = None]

\* pool.submit() and add_done_callback()
Submit(t) ==
    /\ step[t] = "submit"
    /\ Accepts(t)
    /\ jobs' = [jobs EXCEPT ![current[t]] = [state |-> "pending", pool |-> mine[t]]]
    /\ LeaveSubmit(t)
    /\ UNCHANGED <<pool, pools, process, previous, installed, signal, taken, orphans>>

\* AttributeError on None, BrokenProcessPool, or RuntimeError after the shutdown
SubmitRaises(t) ==
    /\ step[t] = "submit"
    /\ ~Accepts(t)
    /\ LeaveSubmit(t)
    /\ UNCHANGED <<pool, pools, jobs, process, previous, installed, signal, taken, orphans>>

(* The workers, children of the server *)
JobsOf(p, states) == {c \in Calls : jobs[c].pool = p /\ jobs[c].state \in states}
Lose(p) == [c \in Calls |-> IF c \in JobsOf(p, {"pending", "running"})
                            THEN [jobs[c] EXCEPT !.state = "lost"] ELSE jobs[c]]

\* max_workers of the executor
MaxWorkers == LocalWorkers

WorkerStarts(c) ==
    /\ jobs[c].state = "pending"
    /\ pools[jobs[c].pool] = "open"
    /\ Cardinality(JobsOf(jobs[c].pool, {"running"})) < MaxWorkers
    /\ jobs' = [jobs EXCEPT ![c].state = "running"]
    /\ UNCHANGED <<pool, pools, step, current, mine, process, previous, installed, signal,
                   taken, orphans>>

\* execute_immediately() returns, or its exception is logged by the callback
WorkerEnds(c) ==
    /\ jobs[c].state = "running"
    /\ jobs' = [jobs EXCEPT ![c].state = "done"]
    /\ UNCHANGED <<pool, pools, step, current, mine, process, previous, installed, signal,
                   taken, orphans>>

\* A worker dies, or its initializer raises: the executor fails every future, and
\* nothing replaces it in _pool.
WorkerDies(p) ==
    /\ pools[p] = "open" /\ JobsOf(p, {"pending", "running"}) # {}
    /\ pools' = [pools EXCEPT ![p] = "broken"]
    /\ jobs' = Lose(p)
    /\ UNCHANGED <<pool, step, current, mine, process, previous, installed, signal, taken,
                   orphans>>

(* SIGINT or SIGTERM, handled by the main thread while the others go on *)
\* what previous(signum, frame) does: a callable unwinds the main thread, SIG_DFL ends
\* the process on the spot, SIG_IGN lets it go on
AfterSignal == CASE previous = "callable" -> "exiting"
                 [] previous = "default"  -> "gone"
                 [] previous = "ignore"   -> process

\* off the main thread ready() installed nothing
UnhandledSignal ==
    /\ ~installed
    /\ process = "running"
    /\ process' = AfterSignal
    /\ UNCHANGED <<pool, pools, jobs, step, current, mine, previous, installed, signal, taken,
                   orphans>>

\* the first half of _shutdown_pool()
HandleSignal ==
    /\ installed
    /\ process = "running" /\ signal = "idle"
    /\ taken' = pool
    /\ pool' = None
    /\ signal' = "shutdown"
    /\ UNCHANGED <<pools, jobs, step, current, mine, process, previous, installed, orphans>>

\* mutant: the handler that was there before is called first
ChainFirst ==
    /\ signal = "shutdown"
    /\ signal' = "chain"
    /\ UNCHANGED <<pool, pools, jobs, step, current, mine, process, previous, installed, taken,
                   orphans>>
\* the workers are terminated and the pool is shut down without waiting
ShutdownPool ==
    /\ signal = "shutdown"
    /\ IF taken = None THEN UNCHANGED <<pools, jobs>>
       ELSE pools' = [pools EXCEPT ![taken] = "shut"] /\ jobs' = Lose(taken)
    /\ taken' = None
    /\ signal' = "chain"
    /\ UNCHANGED <<pool, step, current, mine, process, previous, installed, orphans>>

\* a second signal in the midst of the first: its handler finds no pool and chains, and
\* the first one never gets to the shutdown
SignalAgain ==
    /\ signal = "shutdown" /\ previous # "ignore"
    /\ orphans' = orphans \cup ({taken} \ {None})
    /\ taken' = None
    /\ signal' = "chain"
    /\ UNCHANGED <<pool, pools, jobs, step, current, mine, process, previous, installed>>

Chain ==
    /\ signal = "chain"
    /\ signal' = "idle"
    /\ process' = AfterSignal
    /\ UNCHANGED <<pool, pools, jobs, step, current, mine, previous, installed, taken, orphans>>

(* The end of the interpreter *)
\* the main thread ends without a signal
Finish ==
    /\ process = "running" /\ signal = "idle"
    /\ process' = "exiting"
    /\ UNCHANGED <<pool, pools, jobs, step, current, mine, previous, installed, signal, taken,
                   orphans>>

\* concurrent.futures waits at exit for every executor, also those nobody refers to;
\* _shutdown_pool() of atexit finds nothing left to do
Exit ==
    /\ process = "exiting" /\ signal = "idle"
    /\ \A c \in Calls : jobs[c].state \notin {"pending", "running"}
    /\ process' = "gone"
    /\ pools' = [c \in Calls |-> IF pools[c] = "none" THEN "none" ELSE "shut"]
    /\ pool' = None
    /\ UNCHANGED <<jobs, step, current, mine, previous, installed, signal, taken, orphans>>

PoolStep ==
    /\ process # "gone"
    /\ \/ \E c \in Calls : WorkerStarts(c) \/ WorkerEnds(c) \/ WorkerDies(c)
       \/ UnhandledSignal \/ HandleSignal \/ ShutdownPool \/ SignalAgain \/ Chain \/ Finish \/ Exit

(***************************************************************************)
(* Properties of the pool.                                                 *)
(***************************************************************************)
\* A pool whose semaphores are not released when the process ends is one that SIG_DFL
\* ended on the spot, with the handlers not installed, or one that the handler could
\* not know of: _pool lost it to a racing thread, it was made while the handler ran, or
\* a second signal cut off its shutdown.  When the interpreter unwinds, none is left.
\* Nor does get_pool() find a pool that was shut down: after a signal that the process
\* survives, the next submission makes a new one.
PoolsReleased ==
    /\ process = "gone" => \A p \in Calls :
          pools[p] = "open" => previous = "default" /\ (p \in orphans \/ ~installed)
    /\ pool # None => pools[pool] # "shut"
=============================================================================
