----------------------- MODULE TaskExecutionProofs -----------------------
(***************************************************************************)
(* Proofs about TaskExecution, for any number of messages, workers, tasks, *)
(* retries, deliveries and cleanups.  Two inductive invariants carry the   *)
(* results: ExecutionInv (who owns a row and what its writes did) and      *)
(* CoordinationInv (locks, retry counts and acknowledgements).             *)
(***************************************************************************)
EXTENDS TaskExecution, TLAPS

\* Every save of the executor writes a terminal status.
LEMMA OutcomeType == ASSUME NEW w PROVE Outcome(w) \in Terminal
BY DEF Outcome, Terminal

\* Every reachable state is well typed: messages that were sent have a body, rows
\* belong to messages that were sent, and a busy worker has a message.
THEOREM TypeCorrect == Spec => []TypeOK
<1>1. Init => TypeOK
  BY ConstantsAssumption, SMTT(30) DEF Init, TypeOK, SqsStates, Statuses, PCs, Sent, Errors
<1>2. TypeOK /\ [Next]_vars => TypeOK'
  <2> SUFFICES ASSUME TypeOK, [Next]_vars PROVE TypeOK'
    OBVIOUS
  <2> USE DEF TypeOK, Sent, SqsStates, Statuses, Terminal, PCs, Errors, BackendErrors,
              queueVars, recordVars, handlerVars, localVars, histVars, boundVars
  <2>1. ASSUME NEW t \in Tasks, NEW n \in StartRetries, ExecuteOnCommit(t, n) PROVE TypeOK'
    BY <2>1, ConstantsAssumption DEF ExecuteOnCommit, Invoke, Send
  <2>2. ASSUME NEW m \in MsgIds, ReplayTask(m) PROVE TypeOK'
    BY <2>2, ConstantsAssumption DEF ReplayTask, Invoke, Send
  <2>3. ASSUME NEW m \in MsgIds, VisibilityTimeout(m) PROVE TypeOK'
    BY <2>3 DEF VisibilityTimeout
  <2>4. ASSUME NEW w \in Workers, Receive(w) PROVE TypeOK'
    BY <2>4 DEF Receive
  <2>5. ASSUME NEW w \in Workers, Crash(w) PROVE TypeOK'
    BY <2>5 DEF Crash, Die, Owns
  <2>6. ASSUME NEW w \in Workers, NEW m \in MsgIds, BeginRecord(w, m) PROVE TypeOK'
    BY <2>6 DEF BeginRecord
  <2>7. ASSUME NEW w \in Workers, NEW m \in MsgIds, RejectRecord(w, m) PROVE TypeOK'
    BY <2>7 DEF RejectRecord
  <2>8. ASSUME NEW w \in Workers, Respond(w) PROVE TypeOK'
    BY <2>8 DEF Respond
  <2>9. ASSUME NEW w \in Workers, GetRecord(w) PROVE TypeOK'
    BY <2>9 DEF GetRecord, RowMissing
  <2>10. ASSUME NEW w \in Workers, SkipDuplicate(w) PROVE TypeOK'
    BY <2>10 DEF SkipDuplicate, RowMissing, InsertAllowed, Return, Finish
  <2>11. ASSUME NEW w \in Workers, CreateRecord(w) PROVE TypeOK'
    BY <2>11, SMTT(30) DEF CreateRecord, Insert, InsertAllowed, StartBody, WrapperOf
  <2>12. ASSUME NEW w \in Workers, GetOrCreateFails(w) PROVE TypeOK'
    <3>1. cur[w] \in MsgIds /\ Sent(cur[w])
      BY <2>12 DEF GetOrCreateFails
    <3>2. CASE UNCHANGED <<recordVars, orphaned>>
      BY <2>12, <3>1, <3>2 DEF GetOrCreateFails, Raise, Finish
    <3>3. CASE Insert(w) /\ orphaned' = orphaned \cup {cur[w]}
      <4>1. /\ status' \in [MsgIds -> Statuses]
            /\ \A m \in MsgIds : status'[m] # "NONE" => Sent(m)
        BY <3>1, <3>3 DEF Insert
      <4> QED
        BY <2>12, <3>1, <3>3, <4>1 DEF GetOrCreateFails, Insert, Raise, Finish
    <3> QED
      BY <2>12, <3>2, <3>3 DEF GetOrCreateFails
  <2>13. ASSUME NEW w \in Workers, LockSetupFails(w) PROVE TypeOK'
    BY <2>13, SMTT(30) DEF LockSetupFails, Raise, Finish
  <2>14. ASSUME NEW w \in Workers, AcquireLock(w) PROVE TypeOK'
    BY <2>14, SMTT(30) DEF AcquireLock, StartBody
  <2>15. ASSUME NEW w \in Workers, ReleaseLock(w) PROVE TypeOK'
    BY <2>15 DEF ReleaseLock, OwnsToken
  <2>16. ASSUME NEW w \in Workers, NEW e \in Errors, AcquireRaises(w, e) PROVE TypeOK'
    BY <2>16 DEF AcquireRaises
  <2>17. ASSUME NEW w \in Workers, NEW e \in Errors, BodyRaises(w, e) PROVE TypeOK'
    BY <2>17 DEF BodyRaises, LeaveAtomic, WrapperOf
  <2>18. ASSUME NEW w \in Workers, NEW e \in Errors, CallbackRaises(w, e) PROVE TypeOK'
    BY <2>18 DEF CallbackRaises, LeaveAtomic, WrapperOf
  <2>19. ASSUME NEW w \in Workers, NEW e \in BackendErrors, ReleaseRaises(w, e) PROVE TypeOK'
    BY <2>19 DEF ReleaseRaises
  <2>20. ASSUME NEW w \in Workers, BodyCommits(w) PROVE TypeOK'
    BY <2>20 DEF BodyCommits, LeaveAtomic, WrapperOf
  <2>21. ASSUME NEW w \in Workers, SaveAndReturn(w) PROVE TypeOK'
    BY <2>21, OutcomeType DEF SaveAndReturn, SaveRow, Return, Finish
  <2>22. ASSUME NEW w \in Workers, SaveExhausted(w) PROVE TypeOK'
    BY <2>22, OutcomeType, SMTT(30) DEF SaveExhausted, SaveRow, Raise, Finish
  <2>23. ASSUME NEW w \in Workers, SaveRetried(w) PROVE TypeOK'
    BY <2>23, OutcomeType DEF SaveRetried, SaveRow
  <2>24. ASSUME NEW w \in Workers, SaveUnacknowledged(w) PROVE TypeOK'
    BY <2>24, OutcomeType DEF SaveUnacknowledged, SaveRow, Raise, Finish
  <2>25. ASSUME NEW w \in Workers, SaveRaises(w) PROVE TypeOK'
    BY <2>25 DEF SaveRaises, Raise, Finish
  <2>26. ASSUME NEW w \in Workers, Uncaught(w) PROVE TypeOK'
    BY <2>26 DEF Uncaught, Die, Owns
  <2>27. ASSUME NEW w \in Workers, EnqueueRetry(w) PROVE TypeOK'
    BY <2>27 DEF EnqueueRetry, Send, Return, Finish
  <2>28. ASSUME NEW w \in Workers, EnqueueRaises(w) PROVE TypeOK'
    <3>1. cur[w] \in MsgIds /\ Sent(cur[w])
      BY <2>28 DEF EnqueueRaises
    <3>4. /\ Raise(w)
          /\ UNCHANGED <<recordVars, lock, runs, commits, pruned, orphaned, lateError,
                         lapsed, boundVars>>
      BY <2>28 DEF EnqueueRaises
    <3>2. CASE UNCHANGED queueVars
      BY <2>28, <3>1, <3>2 DEF EnqueueRaises, Raise, Finish
    <3>3. ASSUME NEW m \in MsgIds, UNCHANGED lostRetry,
                 Send(m, task_name[cur[w]], n_retries[cur[w]] + 1, root[cur[w]])
          PROVE  TypeOK'
      BY <3>1, <3>3, <3>4 DEF Send, Raise, Finish
    <3> QED
      BY <2>28, <3>2, <3>3 DEF EnqueueRaises
  <2>29. ASSUME NEW t \in Tasks, ExpireLock(t) PROVE TypeOK'
    BY <2>29 DEF ExpireLock, Inside
  <2>30. ASSUME CleanupTaskRecords PROVE TypeOK'
    <3>1. PICK old \in SUBSET MsgIds :
            /\ status' = [m \in MsgIds |-> IF m \in old THEN "NONE" ELSE status[m]]
            /\ traceback' = [m \in MsgIds |-> IF m \in old THEN FALSE ELSE traceback[m]]
            /\ pruned' = pruned \cup old
      BY <2>30 DEF CleanupTaskRecords
    <3>2. traceback' \in [MsgIds -> BOOLEAN]
      BY <3>1
    <3>3. /\ status' \in [MsgIds -> Statuses]
          /\ \A m \in MsgIds : status'[m] # "NONE" => Sent(m)
      BY <3>1
    <3>4. cleanups' \in 0..MaxCleanups
      BY <2>30, ConstantsAssumption DEF CleanupTaskRecords
    <3>5. UNCHANGED <<queueVars, lock, localVars, handlerVars, runs, commits, orphaned,
                      lateError, lostRetry, lapsed, invocations>>
      BY <2>30 DEF CleanupTaskRecords
    <3> QED
      BY <3>1, <3>2, <3>3, <3>4, <3>5
  <2>31. ASSUME Quiescent PROVE TypeOK'
    BY <2>31 DEF Quiescent, vars
  <2>32. CASE UNCHANGED vars
    BY <2>32 DEF vars
  <2> QED
    BY <2>1, <2>2, <2>3, <2>4, <2>5, <2>6, <2>7, <2>8, <2>9, <2>10, <2>11, <2>12,
       <2>13, <2>14, <2>15, <2>16, <2>17, <2>18, <2>19, <2>20, <2>21, <2>22, <2>23,
       <2>24, <2>25, <2>26, <2>27, <2>28, <2>29, <2>30, <2>31, <2>32 DEF Next, WorkerStep
<1> QED
  BY <1>1, <1>2, PTL DEF Spec

(***************************************************************************)
(* ExecutionInv.  A row that cleanup_task_records has not deleted is       *)
(* evidence of everything that happened to its message: without a row      *)
(* nothing ran (RowInv), the worker that created it is its only owner      *)
(* (SoleOwner), and while it has an owner it is RUNNING and its effects    *)
(* are those of the owner's program counter (OwnerInv).                    *)
(***************************************************************************)
RowInv ==
    \A m \in MsgIds : m \notin pruned =>
        /\ runs[m] \in {0, 1}
        /\ status[m] = "NONE" => runs[m] = 0 /\ commits[m] = 0 /\ traceback[m] = FALSE

OwnerInv ==
    \A w \in Workers : Owns(w) /\ cur[w] \notin pruned =>
        /\ status[cur[w]] = "RUNNING"
        /\ traceback[cur[w]] = FALSE
        /\ pc[w] = "lock" => runs[cur[w]] = 0
        /\ pc[w] \in {"lock", "body"} => commits[cur[w]] = 0
        /\ pc[w] \in {"release", "outcome"} =>
              IF err[w] = "none" THEN commits[cur[w]] = 1
              ELSE commits[cur[w]] > 0 => cur[w] \in lateError

SoleOwner ==
    \A v, w \in Workers : v # w /\ Owns(v) /\ Owns(w) /\ cur[v] = cur[w] => cur[w] \in pruned

ExecutionInv == RowInv /\ OwnerInv /\ SoleOwner /\ OutcomeMatchesEffects

\* Writing the outcome preserves ExecutionInv: the row is the owner's alone, and
\* the outcome is computed from the error the owner carries.
LEMMA SavePreserves ==
    ASSUME TypeOK, TypeOK', ExecutionInv, NEW w \in Workers, SaveRow(w),
           UNCHANGED <<runs, commits, pruned, lateError, task_name>>,
           pc'[w] \in {"loop", "enqueue"},
           \A v \in Workers \ {w} : pc'[v] = pc[v] /\ cur'[v] = cur[v] /\ err'[v] = err[v]
    PROVE  ExecutionInv'
<1> DEFINE m == cur[w]
<1>1. m \in MsgIds /\ pc[w] = "outcome" /\ Owns(w)
  BY DEF SaveRow, Owns, TypeOK
<1>2. /\ status'[m] = Outcome(w)
      /\ \A n \in MsgIds \ {m} : status'[n] = status[n]
  BY <1>1 DEF SaveRow, TypeOK
<1>3. /\ traceback'[m] = (traceback[m] \/ err[w] # "none")
      /\ \A n \in MsgIds \ {m} : traceback'[n] = traceback[n]
  BY <1>1 DEF SaveRow, TypeOK
<1>4. Outcome(w) = "SUCCEEDED" /\ err[w] # "none" =>
          WrapperOf(w).singleton /\ ~WrapperOf(w).retry_singleton
  BY DEF Outcome, IgnoredLockError
<1>5. \A v \in Workers : Owns(v)' => v # w /\ Owns(v)
  BY DEF Owns
<1>6. RowInv' /\ SoleOwner'
  <2>1. Outcome(w) # "NONE"
    BY OutcomeType DEF Terminal
  <2>2. RowInv'
    BY <1>1, <1>2, <1>3, <2>1 DEF ExecutionInv, RowInv
  <2>3. SoleOwner'
    BY <1>5 DEF ExecutionInv, SoleOwner
  <2> QED
    BY <2>2, <2>3
<1>7. OwnerInv'
  <2> SUFFICES ASSUME NEW v \in Workers, Owns(v)', cur'[v] \notin pruned
               PROVE  (/\ status[cur[v]] = "RUNNING"
                       /\ traceback[cur[v]] = FALSE
                       /\ pc[v] = "lock" => runs[cur[v]] = 0
                       /\ pc[v] \in {"lock", "body"} => commits[cur[v]] = 0
                       /\ pc[v] \in {"release", "outcome"} =>
                            IF err[v] = "none" THEN commits[cur[v]] = 1
                            ELSE commits[cur[v]] > 0 => cur[v] \in lateError)'
    BY DEF OwnerInv
  <2>1. v # w /\ Owns(v) /\ cur[v] \in MsgIds /\ cur'[v] = cur[v] /\ cur[v] \notin pruned
    BY <1>5 DEF Owns, TypeOK
  <2>2. cur[v] # m
    BY <1>1, <2>1 DEF ExecutionInv, SoleOwner
  <2>3. status'[cur[v]] = status[cur[v]] /\ traceback'[cur[v]] = traceback[cur[v]]
    BY <1>2, <1>3, <2>1, <2>2
  <2> QED
    BY <2>1, <2>3 DEF ExecutionInv, OwnerInv
<1>8. OutcomeMatchesEffects'
  <2> SUFFICES ASSUME NEW n \in MsgIds, n \notin pruned'
               PROVE  /\ status'[n] = "SUCCEEDED" /\ ~traceback'[n] => commits[n] = 1
                      /\ status'[n] \in Terminal /\ traceback'[n] /\ commits[n] > 0 => n \in lateError
                      /\ status'[n] = "SUCCEEDED" /\ traceback'[n] =>
                            Wrapper[task_name[n]].singleton /\ ~Wrapper[task_name[n]].retry_singleton
    BY DEF OutcomeMatchesEffects
  <2>1. CASE n # m
    BY <1>2, <1>3, <2>1 DEF ExecutionInv, OutcomeMatchesEffects
  <2>2. CASE n = m
    <3>1. traceback'[m] = (err[w] # "none")
      BY <1>1, <1>3, <2>2 DEF ExecutionInv, OwnerInv
    <3>2. /\ err[w] = "none" => commits[m] = 1
          /\ err[w] # "none" /\ commits[m] > 0 => m \in lateError
      BY <1>1, <2>2 DEF ExecutionInv, OwnerInv
    <3> QED
      BY <1>2, <1>4, <2>2, <3>1, <3>2 DEF WrapperOf
  <2> QED
    BY <2>1, <2>2
<1> QED
  BY <1>6, <1>7, <1>8 DEF ExecutionInv

\* ExecutionInv is an invariant of execute_immediately() under every interleaving.
THEOREM Executions == Spec => []ExecutionInv
<1>1. Init => ExecutionInv
  BY DEF Init, ExecutionInv, RowInv, OwnerInv, SoleOwner, OutcomeMatchesEffects, Owns, Terminal
<1>2. TypeOK /\ TypeOK' /\ ExecutionInv /\ [Next]_vars => ExecutionInv'
  <2> SUFFICES ASSUME TypeOK, TypeOK', ExecutionInv, [Next]_vars PROVE ExecutionInv'
    OBVIOUS
  <2> USE DEF ExecutionInv, RowInv, OwnerInv, SoleOwner, OutcomeMatchesEffects, Owns,
              TypeOK, Sent, SqsStates, Statuses, Terminal, PCs, Errors, BackendErrors,
              queueVars, recordVars, handlerVars, localVars, histVars, boundVars
  <2>1. ASSUME NEW t \in Tasks, NEW n \in StartRetries, ExecuteOnCommit(t, n) PROVE ExecutionInv'
    BY <2>1 DEF ExecuteOnCommit, Invoke, Send
  <2>2. ASSUME NEW m \in MsgIds, ReplayTask(m) PROVE ExecutionInv'
    BY <2>2 DEF ReplayTask, Invoke, Send
  <2>3. ASSUME NEW m \in MsgIds, VisibilityTimeout(m) PROVE ExecutionInv'
    BY <2>3 DEF VisibilityTimeout
  <2>4. ASSUME NEW w \in Workers, Receive(w) PROVE ExecutionInv'
    BY <2>4 DEF Receive
  <2>5. ASSUME NEW w \in Workers, Crash(w) PROVE ExecutionInv'
    BY <2>5 DEF Crash, Die, Owns
  <2>6. ASSUME NEW w \in Workers, NEW m \in MsgIds, BeginRecord(w, m) PROVE ExecutionInv'
    BY <2>6 DEF BeginRecord
  <2>7. ASSUME NEW w \in Workers, NEW m \in MsgIds, RejectRecord(w, m) PROVE ExecutionInv'
    BY <2>7 DEF RejectRecord
  <2>8. ASSUME NEW w \in Workers, Respond(w) PROVE ExecutionInv'
    BY <2>8 DEF Respond
  <2>9. ASSUME NEW w \in Workers, GetRecord(w) PROVE ExecutionInv'
    BY <2>9 DEF GetRecord, RowMissing
  <2>10. ASSUME NEW w \in Workers, SkipDuplicate(w) PROVE ExecutionInv'
    BY <2>10 DEF SkipDuplicate, RowMissing, InsertAllowed, Return, Finish
  <2>11. ASSUME NEW w \in Workers, CreateRecord(w) PROVE ExecutionInv'
    <3>1. RowInv' /\ OutcomeMatchesEffects'
      BY <2>11 DEF CreateRecord, Insert, InsertAllowed, StartBody, WrapperOf
    <3>2. OwnerInv'
      BY <2>11, SMTT(30) DEF CreateRecord, Insert, InsertAllowed, StartBody, WrapperOf
    <3>3. SoleOwner'
      BY <2>11 DEF CreateRecord, Insert, InsertAllowed, StartBody, WrapperOf
    <3> QED
      BY <3>1, <3>2, <3>3
  <2>12. ASSUME NEW w \in Workers, GetOrCreateFails(w) PROVE ExecutionInv'
    BY <2>12 DEF GetOrCreateFails, Insert, InsertAllowed, Raise, Finish
  <2>13. ASSUME NEW w \in Workers, LockSetupFails(w) PROVE ExecutionInv'
    BY <2>13 DEF LockSetupFails, Raise, Finish
  <2>14. ASSUME NEW w \in Workers, AcquireLock(w) PROVE ExecutionInv'
    BY <2>14 DEF AcquireLock, StartBody
  <2>15. ASSUME NEW w \in Workers, ReleaseLock(w) PROVE ExecutionInv'
    BY <2>15 DEF ReleaseLock, OwnsToken
  <2>16. ASSUME NEW w \in Workers, NEW e \in Errors, AcquireRaises(w, e) PROVE ExecutionInv'
    BY <2>16 DEF AcquireRaises
  <2>17. ASSUME NEW w \in Workers, NEW e \in Errors, BodyRaises(w, e) PROVE ExecutionInv'
    BY <2>17 DEF BodyRaises, LeaveAtomic, WrapperOf
  <2>18. ASSUME NEW w \in Workers, NEW e \in Errors, CallbackRaises(w, e) PROVE ExecutionInv'
    BY <2>18 DEF CallbackRaises, LeaveAtomic, WrapperOf
  <2>19. ASSUME NEW w \in Workers, NEW e \in BackendErrors, ReleaseRaises(w, e) PROVE ExecutionInv'
    BY <2>19 DEF ReleaseRaises
  <2>20. ASSUME NEW w \in Workers, BodyCommits(w) PROVE ExecutionInv'
    BY <2>20 DEF BodyCommits, LeaveAtomic, WrapperOf
  <2>21. ASSUME NEW w \in Workers, SaveAndReturn(w) PROVE ExecutionInv'
    <3>1. /\ SaveRow(w) /\ pc'[w] \in {"loop", "enqueue"}
          /\ UNCHANGED <<runs, commits, pruned, lateError, task_name>>
          /\ \A v \in Workers \ {w} : pc'[v] = pc[v] /\ cur'[v] = cur[v] /\ err'[v] = err[v]
      BY <2>21 DEF SaveAndReturn, Return, Finish
    <3> HIDE DEF ExecutionInv, TypeOK
    <3> QED
      BY <3>1, SavePreserves
  <2>22. ASSUME NEW w \in Workers, SaveExhausted(w) PROVE ExecutionInv'
    <3>1. /\ SaveRow(w) /\ pc'[w] \in {"loop", "enqueue"}
          /\ UNCHANGED <<runs, commits, pruned, lateError, task_name>>
          /\ \A v \in Workers \ {w} : pc'[v] = pc[v] /\ cur'[v] = cur[v] /\ err'[v] = err[v]
      BY <2>22 DEF SaveExhausted, Raise, Finish
    <3> HIDE DEF ExecutionInv, TypeOK
    <3> QED
      BY <3>1, SavePreserves
  <2>23. ASSUME NEW w \in Workers, SaveRetried(w) PROVE ExecutionInv'
    <3>1. /\ SaveRow(w) /\ pc'[w] \in {"loop", "enqueue"}
          /\ UNCHANGED <<runs, commits, pruned, lateError, task_name>>
          /\ \A v \in Workers \ {w} : pc'[v] = pc[v] /\ cur'[v] = cur[v] /\ err'[v] = err[v]
      BY <2>23 DEF SaveRetried
    <3> HIDE DEF ExecutionInv, TypeOK
    <3> QED
      BY <3>1, SavePreserves
  <2>24. ASSUME NEW w \in Workers, SaveUnacknowledged(w) PROVE ExecutionInv'
    <3>1. /\ SaveRow(w) /\ pc'[w] \in {"loop", "enqueue"}
          /\ UNCHANGED <<runs, commits, pruned, lateError, task_name>>
          /\ \A v \in Workers \ {w} : pc'[v] = pc[v] /\ cur'[v] = cur[v] /\ err'[v] = err[v]
      BY <2>24 DEF SaveUnacknowledged, Raise, Finish
    <3> HIDE DEF ExecutionInv, TypeOK
    <3> QED
      BY <3>1, SavePreserves
  <2>25. ASSUME NEW w \in Workers, SaveRaises(w) PROVE ExecutionInv'
    BY <2>25 DEF SaveRaises, Raise, Finish
  <2>26. ASSUME NEW w \in Workers, Uncaught(w) PROVE ExecutionInv'
    BY <2>26 DEF Uncaught, Die, Owns
  <2>27. ASSUME NEW w \in Workers, EnqueueRetry(w) PROVE ExecutionInv'
    BY <2>27 DEF EnqueueRetry, Send, Return, Finish
  <2>28. ASSUME NEW w \in Workers, EnqueueRaises(w) PROVE ExecutionInv'
    BY <2>28 DEF EnqueueRaises, Send, Raise, Finish
  <2>29. ASSUME NEW t \in Tasks, ExpireLock(t) PROVE ExecutionInv'
    BY <2>29 DEF ExpireLock, Inside
  <2>30. ASSUME CleanupTaskRecords PROVE ExecutionInv'
    <3>1. PICK old \in SUBSET MsgIds :
            /\ status' = [m \in MsgIds |-> IF m \in old THEN "NONE" ELSE status[m]]
            /\ traceback' = [m \in MsgIds |-> IF m \in old THEN FALSE ELSE traceback[m]]
            /\ pruned' = pruned \cup old
      BY <2>30 DEF CleanupTaskRecords
    <3>2. UNCHANGED <<queueVars, lock, localVars, handlerVars, runs, commits, orphaned,
                      lateError, lostRetry, lapsed, invocations>>
      BY <2>30 DEF CleanupTaskRecords
    <3> QED
      BY <3>1, <3>2
  <2>31. ASSUME Quiescent PROVE ExecutionInv'
    BY <2>31 DEF Quiescent, vars
  <2>32. CASE UNCHANGED vars
    BY <2>32 DEF vars
  <2> HIDE DEF ExecutionInv, TypeOK
  <2> QED
    BY <2>1, <2>2, <2>3, <2>4, <2>5, <2>6, <2>7, <2>8, <2>9, <2>10, <2>11, <2>12,
       <2>13, <2>14, <2>15, <2>16, <2>17, <2>18, <2>19, <2>20, <2>21, <2>22, <2>23,
       <2>24, <2>25, <2>26, <2>27, <2>28, <2>29, <2>30, <2>31, <2>32 DEF Next, WorkerStep
<1> QED
  BY <1>1, <1>2, TypeCorrect, PTL DEF Spec

\* One message starts the task body at most once, unless its row was deleted.
THEOREM AtMostOnce == Spec => []AtMostOnceExecution
<1>1. TypeOK /\ ExecutionInv => AtMostOnceExecution
  BY DEF TypeOK, ExecutionInv, RowInv, AtMostOnceExecution
<1> QED
  BY <1>1, TypeCorrect, Executions, PTL

\* The status and the traceback of a row tell whether the task's writes are there.
THEOREM OutcomesMatchEffects == Spec => []OutcomeMatchesEffects
<1>1. ExecutionInv => OutcomeMatchesEffects
  BY DEF ExecutionInv
<1> QED
  BY <1>1, Executions, PTL

(***************************************************************************)
(* CoordinationInv.  LockInv: whoever is inside a singleton with a lock    *)
(* that did not expire holds it.  RetryInv: a worker about to send a retry *)
(* has one left.  DeliveryInv: what a worker finished and did not report   *)
(* has a row, so deleting it from the queue is safe.                       *)
(***************************************************************************)
LockInv ==
    \A w \in Workers, t \in Tasks : Inside(w, t) /\ w \notin lapsed => lock[t] = w

RetryInv ==
    /\ RetriesBounded
    /\ \A w \in Workers : pc[w] = "enqueue" => n_retries[cur[w]] < MaxRetries

DeliveryInv ==
    /\ AckedHasRecord
    /\ \A w \in Workers : \A m \in batch[w] \ (todo[w] \cup failed[w]) :
          \/ cur[w] = m /\ pc[w] \in {"get", "create"}
          \/ status[m] # "NONE" \/ m \in pruned

CoordinationInv == LockInv /\ RetryInv /\ DeliveryInv

\* Sending a retry under a fresh message id disturbs no lock and no retry count.
LEMMA RetrySent ==
    ASSUME TypeOK, CoordinationInv, NEW w \in Workers, pc[w] = "enqueue",
           pc' = [pc EXCEPT ![w] = "loop"],
           cur' = [cur EXCEPT ![w] = None],
           UNCHANGED <<lock, lapsed>>,
           \A m \in MsgIds : Sent(m) =>
               task_name'[m] = task_name[m] /\ n_retries'[m] = n_retries[m] /\ root'[m] = root[m],
           \A m \in MsgIds : Sent(m)' => Sent(m) \/ n_retries'[m] = n_retries[cur[w]] + 1
    PROVE  LockInv' /\ RetryInv'
<1>1. LockInv'
  <2> SUFFICES ASSUME NEW v \in Workers, NEW t \in Tasks, Inside(v, t)', v \notin lapsed'
               PROVE  lock'[t] = v
    BY DEF LockInv
  <2>1. pc'[v] \in {"body", "release"} /\ task_name'[cur'[v]] = t /\ Wrapper[t].singleton
    BY DEF Inside
  <2>2. pc[v] = pc'[v] /\ cur'[v] = cur[v] /\ cur[v] \in MsgIds /\ Sent(cur[v])
    BY <2>1 DEF TypeOK
  <2>3. task_name[cur[v]] = t
    BY <2>1, <2>2
  <2> QED
    BY <2>1, <2>2, <2>3 DEF CoordinationInv, LockInv, Inside
<1>2. n_retries[cur[w]] + 1 <= MaxRetries
  BY ConstantsAssumption DEF CoordinationInv, RetryInv, TypeOK
<1>3. RetriesBounded'
  BY <1>2 DEF CoordinationInv, RetryInv, RetriesBounded
<1>4. ASSUME NEW v \in Workers, pc'[v] = "enqueue" PROVE n_retries'[cur'[v]] < MaxRetries
  <2>1. v # w /\ pc[v] = "enqueue" /\ cur'[v] = cur[v] /\ cur[v] \in MsgIds /\ Sent(cur[v])
    BY <1>4 DEF TypeOK
  <2> QED
    BY <2>1 DEF CoordinationInv, RetryInv
<1> QED
  BY <1>1, <1>3, <1>4 DEF RetryInv

\* CoordinationInv is an invariant of the handler, the executor and the queue.
THEOREM Coordination == Spec => []CoordinationInv
<1>1. Init => CoordinationInv
  BY DEF Init, CoordinationInv, LockInv, RetryInv, RetriesBounded, DeliveryInv,
         AckedHasRecord, Inside, Sent
<1>2. TypeOK /\ TypeOK' /\ ExecutionInv /\ CoordinationInv /\ [Next]_vars => CoordinationInv'
  <2> SUFFICES ASSUME TypeOK, TypeOK', ExecutionInv, CoordinationInv, [Next]_vars
               PROVE  CoordinationInv'
    OBVIOUS
  <2> USE DEF CoordinationInv, LockInv, RetryInv, RetriesBounded, DeliveryInv,
              AckedHasRecord, Inside, Owns,
              TypeOK, Sent, SqsStates, Statuses, Terminal, PCs, Errors, BackendErrors,
              queueVars, recordVars, handlerVars, localVars, histVars, boundVars
  <2>1. ASSUME NEW t \in Tasks, NEW n \in StartRetries, ExecuteOnCommit(t, n) PROVE CoordinationInv'
    <3>1. LockInv'
      BY <2>1, SMTT(30) DEF ExecuteOnCommit, Invoke, Send
    <3>2. RetryInv'
      BY <2>1 DEF ExecuteOnCommit, Invoke, Send
    <3>3. DeliveryInv'
      BY <2>1 DEF ExecuteOnCommit, Invoke, Send
    <3> QED
      BY <3>1, <3>2, <3>3
  <2>2. ASSUME NEW m \in MsgIds, ReplayTask(m) PROVE CoordinationInv'
    BY <2>2, SMTT(30) DEF ReplayTask, Invoke, Send
  <2>3. ASSUME NEW m \in MsgIds, VisibilityTimeout(m) PROVE CoordinationInv'
    BY <2>3 DEF VisibilityTimeout
  <2>4. ASSUME NEW w \in Workers, Receive(w) PROVE CoordinationInv'
    BY <2>4 DEF Receive
  <2>5. ASSUME NEW w \in Workers, Crash(w) PROVE CoordinationInv'
    BY <2>5 DEF Crash, Die, Owns
  <2>6. ASSUME NEW w \in Workers, NEW m \in MsgIds, BeginRecord(w, m) PROVE CoordinationInv'
    BY <2>6 DEF BeginRecord
  <2>7. ASSUME NEW w \in Workers, NEW m \in MsgIds, RejectRecord(w, m) PROVE CoordinationInv'
    BY <2>7 DEF RejectRecord
  <2>8. ASSUME NEW w \in Workers, Respond(w) PROVE CoordinationInv'
    BY <2>8 DEF Respond
  <2>9. ASSUME NEW w \in Workers, GetRecord(w) PROVE CoordinationInv'
    BY <2>9 DEF GetRecord, RowMissing
  <2>10. ASSUME NEW w \in Workers, SkipDuplicate(w) PROVE CoordinationInv'
    <3>1. LockInv'
      BY <2>10, SMTT(30) DEF SkipDuplicate, RowMissing, InsertAllowed, Return, Finish
    <3>2. RetryInv'
      BY <2>10 DEF SkipDuplicate, RowMissing, InsertAllowed, Return, Finish
    <3>3. DeliveryInv'
      BY <2>10 DEF SkipDuplicate, RowMissing, InsertAllowed, Return, Finish
    <3> QED
      BY <3>1, <3>2, <3>3
  <2>11. ASSUME NEW w \in Workers, CreateRecord(w) PROVE CoordinationInv'
    <3>1. LockInv'
      BY <2>11 DEF CreateRecord, Insert, InsertAllowed, StartBody, WrapperOf
    <3>2. RetryInv'
      BY <2>11 DEF CreateRecord, Insert, InsertAllowed, StartBody, WrapperOf
    <3>3. DeliveryInv'
      <4>1. /\ UNCHANGED <<queueVars, handlerVars, cur, pruned>>
            /\ pc[w] = "create" /\ cur[w] \in MsgIds
            /\ status' = [status EXCEPT ![cur[w]] = "RUNNING"]
            /\ \A v \in Workers : v # w => pc'[v] = pc[v]
        BY <2>11 DEF CreateRecord, Insert, StartBody
      <4>2. \A m \in MsgIds : status'[m] # "NONE" \/ (m # cur[w] /\ status'[m] = status[m])
        BY <4>1
      <4>3. AckedHasRecord'
        BY <4>1, <4>2
      <4>4. ASSUME NEW v \in Workers, NEW m \in batch[v] \ (todo[v] \cup failed[v])
            PROVE  \/ cur'[v] = m /\ pc'[v] \in {"get", "create"}
                   \/ status'[m] # "NONE" \/ m \in pruned'
        BY <4>1, <4>2, <4>4
      <4> QED
        BY <4>1, <4>3, <4>4
    <3> QED
      BY <3>1, <3>2, <3>3
  <2>12. ASSUME NEW w \in Workers, GetOrCreateFails(w) PROVE CoordinationInv'
    BY <2>12, SMTT(30) DEF GetOrCreateFails, Insert, InsertAllowed, Raise, Finish
  <2>13. ASSUME NEW w \in Workers, LockSetupFails(w) PROVE CoordinationInv'
    <3>1. LockInv'
      BY <2>13, SMTT(30) DEF LockSetupFails, Raise, Finish
    <3>2. RetryInv'
      BY <2>13 DEF LockSetupFails, Raise, Finish
    <3>3. DeliveryInv'
      BY <2>13 DEF LockSetupFails, Raise, Finish
    <3> QED
      BY <3>1, <3>2, <3>3
  <2>14. ASSUME NEW w \in Workers, AcquireLock(w) PROVE CoordinationInv'
    BY <2>14, NoneAssumption DEF AcquireLock, StartBody
  <2>15. ASSUME NEW w \in Workers, ReleaseLock(w) PROVE CoordinationInv'
    BY <2>15 DEF ReleaseLock, OwnsToken
  <2>16. ASSUME NEW w \in Workers, NEW e \in Errors, AcquireRaises(w, e) PROVE CoordinationInv'
    BY <2>16, NoneAssumption DEF AcquireRaises
  <2>17. ASSUME NEW w \in Workers, NEW e \in Errors, BodyRaises(w, e) PROVE CoordinationInv'
    BY <2>17 DEF BodyRaises, LeaveAtomic, WrapperOf
  <2>18. ASSUME NEW w \in Workers, NEW e \in Errors, CallbackRaises(w, e) PROVE CoordinationInv'
    BY <2>18 DEF CallbackRaises, LeaveAtomic, WrapperOf
  <2>19. ASSUME NEW w \in Workers, NEW e \in BackendErrors, ReleaseRaises(w, e) PROVE CoordinationInv'
    BY <2>19 DEF ReleaseRaises
  <2>20. ASSUME NEW w \in Workers, BodyCommits(w) PROVE CoordinationInv'
    BY <2>20 DEF BodyCommits, LeaveAtomic, WrapperOf
  <2>21. ASSUME NEW w \in Workers, SaveAndReturn(w) PROVE CoordinationInv'
    <3>1. LockInv'
      <4>1. /\ \A v \in Workers \ {w} : pc'[v] = pc[v] /\ cur'[v] = cur[v]
            /\ pc'[w] \notin {"body", "release"}
            /\ UNCHANGED <<lock, lapsed, task_name>>
        BY <2>21 DEF SaveAndReturn, SaveRow, Return, Finish
      <4>2. ASSUME NEW v \in Workers, NEW t \in Tasks, Inside(v, t)', v \notin lapsed'
            PROVE  lock'[t] = v
        BY <4>1, <4>2
      <4> QED
        BY <4>2
    <3>2. RetryInv'
      BY <2>21, OutcomeType DEF SaveAndReturn, SaveRow, Return, Finish
    <3>3. DeliveryInv'
      BY <2>21, OutcomeType DEF SaveAndReturn, SaveRow, Return, Finish
    <3> QED
      BY <3>1, <3>2, <3>3
  <2>22. ASSUME NEW w \in Workers, SaveExhausted(w) PROVE CoordinationInv'
    BY <2>22, OutcomeType, SMTT(30) DEF SaveExhausted, SaveRow, Raise, Finish
  <2>23. ASSUME NEW w \in Workers, SaveRetried(w) PROVE CoordinationInv'
    <3>1. LockInv'
      BY <2>23, OutcomeType, ConstantsAssumption, SMTT(30) DEF SaveRetried, SaveRow, RetriesExhausted
    <3>2. RetryInv'
      BY <2>23, OutcomeType, ConstantsAssumption DEF SaveRetried, SaveRow, RetriesExhausted
    <3>3. DeliveryInv'
      BY <2>23, OutcomeType, ConstantsAssumption DEF SaveRetried, SaveRow, RetriesExhausted
    <3> QED
      BY <3>1, <3>2, <3>3
  <2>24. ASSUME NEW w \in Workers, SaveUnacknowledged(w) PROVE CoordinationInv'
    BY <2>24, OutcomeType, SMTT(30) DEF SaveUnacknowledged, SaveRow, Raise, Finish
  <2>25. ASSUME NEW w \in Workers, SaveRaises(w) PROVE CoordinationInv'
    BY <2>25, SMTT(30) DEF SaveRaises, Raise, Finish
  <2>26. ASSUME NEW w \in Workers, Uncaught(w) PROVE CoordinationInv'
    BY <2>26, SMTT(30) DEF Uncaught, Die, Owns
  <2>27. ASSUME NEW w \in Workers, EnqueueRetry(w) PROVE CoordinationInv'
    <3>1. LockInv' /\ RetryInv'
      <4>1. /\ pc[w] = "enqueue" /\ cur[w] \in MsgIds
            /\ pc' = [pc EXCEPT ![w] = "loop"]
            /\ cur' = [cur EXCEPT ![w] = None]
            /\ UNCHANGED <<lock, lapsed>>
        BY <2>27 DEF EnqueueRetry, Return, Finish
      <4>2. \A m \in MsgIds : Sent(m) =>
               task_name'[m] = task_name[m] /\ n_retries'[m] = n_retries[m] /\ root'[m] = root[m]
        BY <2>27 DEF EnqueueRetry, Send
      <4>3. \A m \in MsgIds : Sent(m)' => Sent(m) \/ n_retries'[m] = n_retries[cur[w]] + 1
        BY <2>27, <4>1 DEF EnqueueRetry, Send
      <4> HIDE DEF CoordinationInv, LockInv, RetryInv, TypeOK, Sent
      <4> QED
        BY <4>1, <4>2, <4>3, RetrySent
    <3>2. DeliveryInv'
      BY <2>27 DEF EnqueueRetry, Send, Return, Finish
    <3> QED
      BY <3>1, <3>2
  <2>28. ASSUME NEW w \in Workers, EnqueueRaises(w) PROVE CoordinationInv'
    <3>1. LockInv' /\ RetryInv'
      <4>1. /\ pc[w] = "enqueue" /\ cur[w] \in MsgIds
            /\ pc' = [pc EXCEPT ![w] = "loop"]
            /\ cur' = [cur EXCEPT ![w] = None]
            /\ UNCHANGED <<lock, lapsed>>
        BY <2>28 DEF EnqueueRaises, Raise, Finish
      <4>2. \A m \in MsgIds : Sent(m) =>
               task_name'[m] = task_name[m] /\ n_retries'[m] = n_retries[m] /\ root'[m] = root[m]
        BY <2>28 DEF EnqueueRaises, Send
      <4>3. \A m \in MsgIds : Sent(m)' => Sent(m) \/ n_retries'[m] = n_retries[cur[w]] + 1
        BY <2>28, <4>1 DEF EnqueueRaises, Send
      <4> HIDE DEF CoordinationInv, LockInv, RetryInv, TypeOK, Sent
      <4> QED
        BY <4>1, <4>2, <4>3, RetrySent
    <3>2. DeliveryInv'
      BY <2>28 DEF EnqueueRaises, Send, Raise, Finish
    <3> QED
      BY <3>1, <3>2
  <2>29. ASSUME NEW t \in Tasks, ExpireLock(t) PROVE CoordinationInv'
    BY <2>29 DEF ExpireLock
  <2>30. ASSUME CleanupTaskRecords PROVE CoordinationInv'
    BY <2>30 DEF CleanupTaskRecords
  <2>31. ASSUME Quiescent PROVE CoordinationInv'
    BY <2>31 DEF Quiescent, vars
  <2>32. CASE UNCHANGED vars
    BY <2>32 DEF vars
  <2> HIDE DEF CoordinationInv, TypeOK
  <2> QED
    BY <2>1, <2>2, <2>3, <2>4, <2>5, <2>6, <2>7, <2>8, <2>9, <2>10, <2>11, <2>12,
       <2>13, <2>14, <2>15, <2>16, <2>17, <2>18, <2>19, <2>20, <2>21, <2>22, <2>23,
       <2>24, <2>25, <2>26, <2>27, <2>28, <2>29, <2>30, <2>31, <2>32 DEF Next, WorkerStep
<1> QED
  BY <1>1, <1>2, TypeCorrect, Executions, PTL DEF Spec

\* Two workers are inside the same singleton only after a lock expired under one.
THEOREM SingletonSafe == Spec => []SingletonExclusion
<1>1. CoordinationInv => SingletonExclusion
  BY DEF CoordinationInv, LockInv, SingletonExclusion
<1> QED
  BY <1>1, Coordination, PTL

\* No retry carries a count above MAX_RETRIES.
THEOREM RetriesAreBounded == Spec => []RetriesBounded
<1>1. CoordinationInv => RetriesBounded
  BY DEF CoordinationInv, RetryInv
<1> QED
  BY <1>1, Coordination, PTL

\* A message that left the queue has, or had, a TaskRecord.
THEOREM AckedMessagesHaveRecords == Spec => []AckedHasRecord
<1>1. CoordinationInv => AckedHasRecord
  BY DEF CoordinationInv, DeliveryInv
<1> QED
  BY <1>1, Coordination, PTL

\* A terminal row is never written again.
THEOREM TerminalFinal == Spec => TerminalRecordsFinal
<1>1. TypeOK /\ ExecutionInv /\ [Next]_vars => [TerminalStep]_vars
  <2> SUFFICES ASSUME TypeOK, ExecutionInv, Next PROVE TerminalStep
    OBVIOUS
  <2>1. ASSUME NEW w \in Workers, Insert(w), UNCHANGED pruned PROVE TerminalStep
    BY <2>1 DEF Insert, InsertAllowed, TerminalStep, Terminal, TypeOK
  <2>2. ASSUME NEW w \in Workers, SaveRow(w), UNCHANGED pruned PROVE TerminalStep
    <3>1. cur[w] \in MsgIds /\ (cur[w] \notin pruned => status[cur[w]] \notin Terminal)
      BY <2>2 DEF SaveRow, TypeOK, ExecutionInv, OwnerInv, Owns, Terminal
    <3>2. \A m \in MsgIds \ {cur[w]} : status'[m] = status[m] /\ traceback'[m] = traceback[m]
      BY <2>2 DEF SaveRow, TypeOK
    <3> QED
      BY <2>2, <3>1, <3>2 DEF TerminalStep
  <2>3. ASSUME CleanupTaskRecords PROVE TerminalStep
    BY <2>3 DEF CleanupTaskRecords, TerminalStep
  <2>4. ASSUME UNCHANGED recordVars PROVE TerminalStep
    BY <2>4 DEF recordVars, TerminalStep
  <2>5. ASSUME NEW w \in Workers, WorkerStep(w)
        PROVE  \/ UNCHANGED recordVars
               \/ (Insert(w) \/ SaveRow(w)) /\ UNCHANGED pruned
    BY <2>5 DEF WorkerStep, BeginRecord, RejectRecord, Respond, GetRecord, SkipDuplicate,
       CreateRecord, StartBody, GetOrCreateFails, LockSetupFails, AcquireLock, ReleaseLock,
       AcquireRaises, BodyRaises, CallbackRaises, ReleaseRaises, BodyCommits, LeaveAtomic,
       SaveAndReturn, SaveExhausted, SaveRetried, SaveUnacknowledged, SaveRaises, Uncaught,
       Die, EnqueueRetry, EnqueueRaises, histVars
  <2>6. CASE \E w \in Workers : WorkerStep(w)
    BY <2>1, <2>2, <2>4, <2>5, <2>6
  <2>7. CASE ~ (\E w \in Workers : WorkerStep(w)) /\ ~CleanupTaskRecords
    <3>1. UNCHANGED recordVars
      BY <2>7 DEF Next, ExecuteOnCommit, ReplayTask, Invoke, VisibilityTimeout, Receive,
         Crash, Die, ExpireLock, Quiescent, vars
    <3> QED
      BY <2>4, <3>1
  <2> QED
    BY <2>3, <2>6, <2>7
<1> QED
  BY <1>1, TypeCorrect, Executions, PTL DEF Spec, TerminalRecordsFinal
=============================================================================
