-------------------------- MODULE RetryChainProofs --------------------------
(***************************************************************************)
(* Proofs about the retry chains of TaskExecution: a chain is a line, its  *)
(* writes are committed once, no retry is lost unnoticed, and seen from    *)
(* outside the execution is the life of an invocation that TaskLifecycle   *)
(* describes.  Chains of which cleanup_task_records deleted a row are      *)
(* excepted throughout.                                                    *)
(***************************************************************************)
EXTENDS TaskExecutionProofs, TaskRefinement

(***************************************************************************)
(* The steps of TaskExecution, by what they do to a chain.                 *)
(***************************************************************************)
SameMessages ==
    /\ UNCHANGED <<task_name, n_retries, root>>
    /\ \A m \in MsgIds : Sent(m)' <=> Sent(m)

\* nobody comes to the point of sending a retry
NoNewSender ==
    \A w \in Workers : pc'[w] = "enqueue" => pc[w] = "enqueue" /\ cur'[w] = cur[w]

\* message k joins the chain of r
Joins(k, n, r) ==
    /\ ~Sent(k) /\ Sent(k)'
    /\ \A m \in MsgIds \ {k} : Sent(m)' <=> Sent(m)
    /\ n_retries' = [n_retries EXCEPT ![k] = n]
    /\ root' = [root EXCEPT ![k] = r]
    /\ UNCHANGED <<recordVars, commits, pruned>>

\* deliveries, duplicates, locks, crashes and calls without effect
Quiet == SameMessages /\ NoNewSender /\ UNCHANGED <<recordVars, commits, pruned>>

Called ==
    \E m \in MsgIds, n \in StartRetries \cup {0} : Joins(m, n, m) /\ NoNewSender

Started(w) == Insert(w) /\ SameMessages /\ NoNewSender /\ UNCHANGED <<commits, pruned>>

Committed(w) ==
    /\ pc[w] = "body"
    /\ commits' = [commits EXCEPT ![cur[w]] = @ + 1]
    /\ SameMessages /\ NoNewSender /\ UNCHANGED <<recordVars, pruned>>

Saved(w) ==
    /\ SaveRow(w) /\ SameMessages /\ UNCHANGED <<commits, pruned>>
    /\ \A v \in Workers \ {w} : pc'[v] = pc[v] /\ cur'[v] = cur[v]
    /\ pc'[w] = "enqueue" => cur'[w] = cur[w] /\ Outcome(w) = "RETRIED"

Resent(w) ==
    /\ pc[w] = "enqueue"
    /\ pc' = [pc EXCEPT ![w] = "loop"]
    /\ cur' = [cur EXCEPT ![w] = None]
    /\ \E k \in MsgIds : Joins(k, n_retries[cur[w]] + 1, root[cur[w]])

Cleaned ==
    /\ \E old \in SUBSET {m \in MsgIds : status[m] # "NONE"} :
          /\ status' = [m \in MsgIds |-> IF m \in old THEN "NONE" ELSE status[m]]
          /\ traceback' = [m \in MsgIds |-> IF m \in old THEN FALSE ELSE traceback[m]]
          /\ pruned' = pruned \cup old
    /\ SameMessages /\ NoNewSender /\ UNCHANGED commits

(***************************************************************************)
(* ChainInv.  In a chain that lost no row, two messages differ in their    *)
(* retry counts; every message but the latest is RETRIED and its retry is  *)
(* sent; and a message whose retry is about to be sent is RETRIED and has  *)
(* one sender.                                                             *)
(***************************************************************************)
Clean(r) == \A p \in pruned : root[p] # r

RootInv ==
    /\ \A m \in MsgIds : Sent(m) => Sent(root[m]) /\ root[root[m]] = root[m]
    /\ \A m \in pruned : Sent(m)
    /\ \A m \in MsgIds : status[m] = "RETRIED" => traceback[m] = TRUE

SenderInv ==
    /\ \A w \in Workers : pc[w] = "enqueue" /\ Clean(root[cur[w]]) => status[cur[w]] = "RETRIED"
    /\ \A v, w \in Workers :
          v # w /\ pc[v] = "enqueue" /\ pc[w] = "enqueue" /\ cur[v] = cur[w] => ~Clean(root[cur[w]])

LineInv ==
    \A m1, m2 \in MsgIds :
        Sent(m1) /\ Sent(m2) /\ root[m1] = root[m2] /\ Clean(root[m1]) =>
            /\ n_retries[m1] = n_retries[m2] => m1 = m2
            /\ n_retries[m1] < n_retries[m2] =>
                  /\ status[m1] = "RETRIED"
                  /\ \A w \in Workers : pc[w] = "enqueue" => cur[w] # m1

LatestInv ==
    \A r \in MsgIds : Chain(r) # {} /\ Clean(r) =>
        \E l \in Chain(r) : \A k \in Chain(r) : n_retries[k] <= n_retries[l]

ChainInv == RootInv /\ SenderInv /\ LineInv /\ LatestInv

\* An error that may be retried, with retries left, is recorded as RETRIED.
LEMMA OutcomeRetried ==
    ASSUME NEW w, Retryable(w), ~RetriesExhausted(cur[w])
    PROVE  Outcome(w) = "RETRIED"
<1>1. err[w] # "none" /\ ~IgnoredLockError(w)
  BY DEF Retryable, CaughtError, Errors
<1> QED
  BY <1>1, Zenon DEF Outcome

\* Every step of the system is of one of these kinds.
LEMMA StepKinds ==
    ASSUME TypeOK, Next
    PROVE  \/ Quiet \/ Called \/ Cleaned
           \/ \E w \in Workers : Started(w) \/ Committed(w) \/ Saved(w) \/ Resent(w)
<1> USE DEF TypeOK, SameMessages, NoNewSender, queueVars, recordVars, handlerVars, localVars,
            histVars, boundVars
<1>1. ASSUME NEW m \in MsgIds, NEW t, NEW n, NEW r, Send(m, t, n, r),
             UNCHANGED <<recordVars, commits, pruned>>
      PROVE  Joins(m, n, r)
  BY <1>1 DEF Send, Joins, Sent, SqsStates
<1>2. ASSUME NEW t \in Tasks, NEW n \in StartRetries, ExecuteOnCommit(t, n) PROVE Called
  BY <1>1, <1>2 DEF ExecuteOnCommit, Invoke, Called
<1>3. ASSUME NEW m \in MsgIds, ReplayTask(m) PROVE Called
  BY <1>1, <1>3 DEF ReplayTask, Invoke, Called
<1>4. ASSUME NEW m \in MsgIds, VisibilityTimeout(m) PROVE Quiet
  BY <1>4 DEF VisibilityTimeout, Quiet, Sent
<1>5. ASSUME NEW w \in Workers, Receive(w) PROVE Quiet
  BY <1>5 DEF Receive, Quiet, Sent
<1>6. ASSUME NEW w \in Workers, Crash(w) PROVE Quiet
  BY <1>6 DEF Crash, Die, Quiet, Sent
<1>7. ASSUME NEW w \in Workers, WorkerStep(w)
      PROVE  Quiet \/ Started(w) \/ Committed(w) \/ Saved(w) \/ Resent(w)
  <2>1. CASE \E m \in MsgIds : BeginRecord(w, m) \/ RejectRecord(w, m)
    BY <2>1 DEF BeginRecord, RejectRecord, Quiet, Sent
  <2>2. CASE Respond(w)
    BY <2>2 DEF Respond, Quiet, Sent
  <2>3. CASE GetRecord(w) \/ SkipDuplicate(w)
    BY <2>3 DEF GetRecord, SkipDuplicate, Return, Finish, Quiet, Sent
  <2>4. CASE CreateRecord(w)
    BY <2>4 DEF CreateRecord, StartBody, Started, Sent
  <2>5. CASE GetOrCreateFails(w)
    BY <2>5 DEF GetOrCreateFails, Raise, Finish, Quiet, Started, Sent
  <2>6. CASE LockSetupFails(w) \/ AcquireLock(w) \/ ReleaseLock(w)
    BY <2>6 DEF LockSetupFails, AcquireLock, StartBody, ReleaseLock, Raise, Finish, Quiet, Sent
  <2>7. CASE \E e \in Errors : AcquireRaises(w, e) \/ BodyRaises(w, e)
    BY <2>7 DEF AcquireRaises, BodyRaises, LeaveAtomic, Quiet, Sent
  <2>8. CASE BodyCommits(w) \/ \E e \in Errors : CallbackRaises(w, e)
    BY <2>8 DEF BodyCommits, CallbackRaises, LeaveAtomic, Committed, Sent
  <2>9. CASE \E e \in BackendErrors : ReleaseRaises(w, e)
    BY <2>9 DEF ReleaseRaises, Quiet, Sent
  <2>10. CASE SaveAndReturn(w) \/ SaveExhausted(w) \/ SaveUnacknowledged(w)
    BY <2>10 DEF SaveAndReturn, SaveExhausted, SaveUnacknowledged, Return, Raise, Finish, Saved,
       Sent
  <2>11. CASE SaveRetried(w)
    <3>1. Outcome(w) = "RETRIED"
      BY <2>11, OutcomeRetried DEF SaveRetried
    <3> QED
      BY <2>11, <3>1 DEF SaveRetried, Saved, Sent
  <2>12. CASE SaveRaises(w) \/ Uncaught(w)
    BY <2>12 DEF SaveRaises, Uncaught, Die, Raise, Finish, Quiet, Sent
  <2>13. CASE EnqueueRetry(w)
    BY <1>1, <2>13 DEF EnqueueRetry, Return, Finish, Resent
  <2>14. CASE EnqueueRaises(w)
    <3>1. /\ pc[w] = "enqueue" /\ Raise(w)
          /\ UNCHANGED <<recordVars, commits, pruned>>
      BY <2>14 DEF EnqueueRaises
    <3>2. CASE UNCHANGED queueVars
      BY <3>1, <3>2 DEF Raise, Finish, Quiet, Sent
    <3>3. CASE \E m \in MsgIds : Send(m, task_name[cur[w]], n_retries[cur[w]] + 1, root[cur[w]])
      BY <1>1, <3>1, <3>3 DEF Raise, Finish, Resent
    <3> QED
      BY <2>14, <3>2, <3>3 DEF EnqueueRaises
  <2> QED
    BY <1>7, <2>1, <2>2, <2>3, <2>4, <2>5, <2>6, <2>7, <2>8, <2>9, <2>10, <2>11, <2>12, <2>13,
       <2>14 DEF WorkerStep
<1>8. ASSUME NEW t \in Tasks, ExpireLock(t) PROVE Quiet
  BY <1>8 DEF ExpireLock, Quiet, Sent
<1>9. ASSUME CleanupTaskRecords PROVE Cleaned
  BY <1>9 DEF CleanupTaskRecords, Cleaned, Sent
<1>10. ASSUME Quiescent PROVE Quiet
  BY <1>10 DEF Quiescent, vars, Quiet, Sent
<1> QED
  BY <1>2, <1>3, <1>4, <1>5, <1>6, <1>7, <1>8, <1>9, <1>10 DEF Next

\* What a chain consists of stays: only sending a message adds to it.
LEMMA MessagesStay ==
    ASSUME TypeOK, TypeOK', Next, RootInv
    PROVE  /\ \A m \in MsgIds : Sent(m) => /\ Sent(m)' /\ root'[m] = root[m]
                                           /\ n_retries'[m] = n_retries[m]
           /\ pruned \subseteq pruned'
           /\ \A r \in MsgIds : Clean(r)' => Clean(r)
<1>1. ASSUME NEW k \in MsgIds, NEW n, NEW r, Joins(k, n, r)
      PROVE  /\ \A m \in MsgIds : Sent(m) => /\ Sent(m)' /\ root'[m] = root[m]
                                             /\ n_retries'[m] = n_retries[m]
             /\ pruned' = pruned
  BY <1>1 DEF Joins, TypeOK
<1>2. ASSUME SameMessages
      PROVE  \A m \in MsgIds : Sent(m) => /\ Sent(m)' /\ root'[m] = root[m]
                                          /\ n_retries'[m] = n_retries[m]
  BY <1>2 DEF SameMessages
<1>3. /\ \A m \in MsgIds : Sent(m) => /\ Sent(m)' /\ root'[m] = root[m]
                                      /\ n_retries'[m] = n_retries[m]
      /\ pruned \subseteq pruned'
  BY <1>1, <1>2, StepKinds
     DEF Quiet, Called, Cleaned, Started, Committed, Saved, Resent, TypeOK
<1>4. \A r \in MsgIds : Clean(r)' => Clean(r)
  BY <1>3 DEF Clean, RootInv, TypeOK
<1> QED
  BY <1>3, <1>4

\* Steps that send nothing, create no sender and rewrite no RETRIED row of a clean chain
\* preserve ChainInv.
LEMMA ChainFrame ==
    ASSUME TypeOK, TypeOK', ChainInv, SameMessages, NoNewSender,
           UNCHANGED pruned,
           \A m \in MsgIds : status'[m] = "RETRIED" => traceback'[m] = TRUE,
           \A m \in MsgIds : m \notin pruned /\ status[m] = "RETRIED" => status'[m] = "RETRIED"
    PROVE  ChainInv'
<1>1. RootInv'
  BY DEF ChainInv, RootInv, SameMessages, TypeOK
<1>2. \A r : Clean(r)' <=> Clean(r)
  BY DEF Clean, SameMessages
<1>3. ASSUME NEW m \in MsgIds, Clean(root[m]), status[m] = "RETRIED" PROVE status'[m] = "RETRIED"
  BY <1>3 DEF Clean
<1>4. ASSUME NEW w \in Workers, pc'[w] = "enqueue"
      PROVE  pc[w] = "enqueue" /\ cur'[w] = cur[w] /\ cur[w] \in MsgIds /\ root' = root
  BY <1>4 DEF NoNewSender, TypeOK, SameMessages
<1>5. SenderInv'
  BY <1>2, <1>3, <1>4 DEF ChainInv, SenderInv
<1>6. LineInv'
  <2> SUFFICES ASSUME NEW m1 \in MsgIds, NEW m2 \in MsgIds, Sent(m1)', Sent(m2)',
                      root'[m1] = root'[m2], Clean(root[m1])'
               PROVE  /\ n_retries'[m1] = n_retries'[m2] => m1 = m2
                      /\ n_retries'[m1] < n_retries'[m2] =>
                            /\ status'[m1] = "RETRIED"
                            /\ \A w \in Workers : pc'[w] = "enqueue" => cur'[w] # m1
    BY DEF LineInv
  <2>1. /\ Sent(m1) /\ Sent(m2) /\ root[m1] = root[m2] /\ Clean(root[m1])
        /\ n_retries' = n_retries
    BY <1>2 DEF SameMessages
  <2> QED
    BY <1>3, <1>4, <2>1 DEF ChainInv, LineInv
<1>7. LatestInv'
  <2>1. \A r : Chain(r)' = Chain(r)
    BY DEF Chain, SameMessages
  <2> QED
    BY <1>2, <2>1 DEF ChainInv, LatestInv, SameMessages
<1> QED
  BY <1>1, <1>5, <1>6, <1>7 DEF ChainInv

\* A call starts a chain of its own: no message has its root yet.
LEMMA CallKeepsChains ==
    ASSUME TypeOK, TypeOK', ChainInv, ExecutionInv, Called
    PROVE  ChainInv'
<1>1. PICK k \in MsgIds, n \in StartRetries \cup {0} : Joins(k, n, k)
  BY DEF Called
<1>2. /\ \A m \in MsgIds \ {k} :
             /\ Sent(m)' <=> Sent(m)
             /\ root'[m] = root[m] /\ n_retries'[m] = n_retries[m]
      /\ root'[k] = k /\ n_retries'[k] = n /\ ~Sent(k) /\ Sent(k)'
      /\ status' = status /\ traceback' = traceback /\ pruned' = pruned
  BY <1>1 DEF Joins, TypeOK, recordVars
<1>3. \A m \in MsgIds : Sent(m) => root[m] \in MsgIds \ {k}
  BY <1>2 DEF ChainInv, RootInv, TypeOK
<1>4. RootInv'
  <2>1. \A m \in MsgIds : Sent(m)' => Sent(root[m])' /\ root'[root'[m]] = root'[m]
    BY <1>2, <1>3 DEF ChainInv, RootInv
  <2>2. \A m \in pruned' : Sent(m)'
    BY <1>2 DEF ChainInv, RootInv, TypeOK
  <2> QED
    BY <1>2, <2>1, <2>2 DEF ChainInv, RootInv
<1>5. \A r \in MsgIds \ {k} : Clean(r)' => Clean(r)
  BY <1>2 DEF Clean, ChainInv, RootInv, TypeOK
<1>6. ASSUME NEW w \in Workers, pc'[w] = "enqueue"
      PROVE  /\ pc[w] = "enqueue" /\ cur'[w] = cur[w] /\ cur[w] \in MsgIds \ {k} /\ Sent(cur[w])
             /\ root'[cur[w]] = root[cur[w]] /\ root[cur[w]] \in MsgIds \ {k}
  <2>1. pc[w] = "enqueue" /\ cur'[w] = cur[w] /\ cur[w] \in MsgIds /\ Sent(cur[w])
    BY <1>6 DEF Called, NoNewSender, TypeOK
  <2> QED
    BY <1>2, <1>3, <2>1
<1>7. SenderInv'
  BY <1>2, <1>5, <1>6 DEF ChainInv, SenderInv
<1>8. LineInv'
  <2> SUFFICES ASSUME NEW m1 \in MsgIds, NEW m2 \in MsgIds, Sent(m1)', Sent(m2)',
                      root'[m1] = root'[m2], Clean(root[m1])'
               PROVE  /\ n_retries'[m1] = n_retries'[m2] => m1 = m2
                      /\ n_retries'[m1] < n_retries'[m2] =>
                            /\ status'[m1] = "RETRIED"
                            /\ \A w \in Workers : pc'[w] = "enqueue" => cur'[w] # m1
    BY DEF LineInv
  <2>1. CASE m1 = k \/ m2 = k
    <3>1. m1 = m2
      BY <1>2, <1>3, <2>1
    <3> QED
      BY <3>1 DEF TypeOK
  <2>2. CASE m1 # k /\ m2 # k
    BY <1>2, <1>3, <1>5, <1>6, <2>2 DEF ChainInv, LineInv
  <2> QED
    BY <2>1, <2>2
<1>9. LatestInv'
  <2> SUFFICES ASSUME NEW r \in MsgIds, Chain(r)' # {}, Clean(r)'
               PROVE  \E l \in Chain(r)' : \A i \in Chain(r)' : n_retries'[i] <= n_retries'[l]
    BY DEF LatestInv
  <2>1. CASE r = k
    <3>1. Chain(r)' = {k}
      BY <1>2, <1>3, <2>1 DEF Chain
    <3> QED
      BY <3>1 DEF TypeOK
  <2>2. CASE r # k
    <3>1. Chain(r)' = Chain(r)
      BY <1>2, <1>3, <2>2 DEF Chain
    <3>2. Clean(r)
      BY <1>5, <2>2
    <3>3. PICK l \in Chain(r) : \A i \in Chain(r) : n_retries[i] <= n_retries[l]
      BY <3>1, <3>2 DEF ChainInv, LatestInv
    <3>4. \A i \in Chain(r) : n_retries'[i] = n_retries[i]
      BY <1>2 DEF Chain
    <3> QED
      BY <3>1, <3>3, <3>4
  <2> QED
    BY <2>1, <2>2
<1> QED
  BY <1>4, <1>7, <1>8, <1>9 DEF ChainInv

\* A retry is sent for the latest message of a chain, and becomes the latest.
LEMMA RetryExtends ==
    ASSUME TypeOK, TypeOK', ChainInv, NEW w \in Workers, pc[w] = "enqueue",
           Clean(root[cur[w]])
    PROVE  \A m \in MsgIds : Sent(m) /\ root[m] = root[cur[w]] /\ m # cur[w] =>
               n_retries[m] < n_retries[cur[w]]
<1>1. cur[w] \in MsgIds /\ Sent(cur[w])
  BY DEF TypeOK
<1>2. ASSUME NEW m \in MsgIds, Sent(m), root[m] = root[cur[w]], m # cur[w]
      PROVE  n_retries[m] < n_retries[cur[w]]
  <2>1. n_retries[m] # n_retries[cur[w]]
    BY <1>1, <1>2 DEF ChainInv, LineInv
  <2>2. ~ (n_retries[cur[w]] < n_retries[m])
    BY <1>1, <1>2 DEF ChainInv, LineInv
  <2>3. n_retries[m] \in Nat /\ n_retries[cur[w]] \in Nat
    BY <1>1 DEF TypeOK
  <2> QED
    BY <2>1, <2>2, <2>3
<1> QED
  BY <1>2

\* Sending the retry preserves ChainInv.
LEMMA ResendKeepsChains ==
    ASSUME TypeOK, TypeOK', ChainInv, NEW w \in Workers, Resent(w)
    PROVE  ChainInv'
<1> DEFINE c == cur[w]
           r == root[c]
<1>1. /\ pc[w] = "enqueue" /\ c \in MsgIds /\ Sent(c) /\ r \in MsgIds /\ Sent(r) /\ root[r] = r
      /\ n_retries[c] \in Nat
  BY DEF Resent, TypeOK, ChainInv, RootInv
<1>2. PICK k \in MsgIds : Joins(k, n_retries[c] + 1, r)
  BY DEF Resent
<1>3. /\ \A m \in MsgIds \ {k} :
             /\ Sent(m)' <=> Sent(m)
             /\ root'[m] = root[m] /\ n_retries'[m] = n_retries[m]
      /\ root'[k] = r /\ n_retries'[k] = n_retries[c] + 1 /\ ~Sent(k) /\ Sent(k)'
      /\ status' = status /\ traceback' = traceback /\ pruned' = pruned
  BY <1>2 DEF Joins, TypeOK, recordVars
<1>4. RootInv'
  <2>1. \A m \in MsgIds : Sent(m)' => Sent(root[m])' /\ root'[root'[m]] = root'[m]
    <3> SUFFICES ASSUME NEW m \in MsgIds, Sent(m)' PROVE Sent(root[m])' /\ root'[root'[m]] = root'[m]
      OBVIOUS
    <3>1. CASE m = k
      BY <1>1, <1>3, <3>1
    <3>2. CASE m # k
      <4>1. Sent(m) /\ root[m] \in MsgIds /\ Sent(root[m]) /\ root[root[m]] = root[m]
        BY <1>3, <3>2 DEF ChainInv, RootInv, TypeOK
      <4> QED
        BY <1>3, <3>2, <4>1
    <3> QED
      BY <3>1, <3>2
  <2>2. \A m \in pruned' : Sent(m)'
    BY <1>3 DEF ChainInv, RootInv, TypeOK
  <2> QED
    BY <1>3, <2>1, <2>2 DEF ChainInv, RootInv
<1>5. \A i \in MsgIds : Clean(i)' => Clean(i)
  BY <1>3 DEF Clean, ChainInv, RootInv, TypeOK
<1>6. ASSUME NEW v \in Workers, pc'[v] = "enqueue"
      PROVE  /\ v # w /\ pc[v] = "enqueue" /\ cur'[v] = cur[v] /\ cur[v] \in MsgIds \ {k}
             /\ Sent(cur[v]) /\ root'[cur[v]] = root[cur[v]] /\ root[cur[v]] \in MsgIds
  <2>1. v # w /\ pc[v] = "enqueue" /\ cur'[v] = cur[v] /\ cur[v] \in MsgIds /\ Sent(cur[v])
    BY <1>6 DEF Resent, TypeOK
  <2> QED
    BY <1>3, <2>1 DEF TypeOK
<1>7. SenderInv'
  BY <1>3, <1>5, <1>6 DEF ChainInv, SenderInv
<1>8. ASSUME NEW m \in MsgIds, Sent(m), root[m] = r, Clean(r)
      PROVE  /\ n_retries[m] <= n_retries[c]
             /\ status[m] = "RETRIED"
             /\ \A v \in Workers : pc'[v] = "enqueue" => cur'[v] # m
  <2>1. CASE m = c
    BY <1>1, <1>6, <1>8, <2>1 DEF ChainInv, SenderInv
  <2>2. CASE m # c
    <3>1. n_retries[m] < n_retries[c]
      BY <1>1, <1>8, <2>2, RetryExtends
    <3> QED
      BY <1>1, <1>6, <1>8, <3>1 DEF ChainInv, LineInv, TypeOK
  <2> QED
    BY <2>1, <2>2
<1>9. LineInv'
  <2> SUFFICES ASSUME NEW m1 \in MsgIds, NEW m2 \in MsgIds, Sent(m1)', Sent(m2)',
                      root'[m1] = root'[m2], Clean(root[m1])'
               PROVE  /\ n_retries'[m1] = n_retries'[m2] => m1 = m2
                      /\ n_retries'[m1] < n_retries'[m2] =>
                            /\ status'[m1] = "RETRIED"
                            /\ \A v \in Workers : pc'[v] = "enqueue" => cur'[v] # m1
    BY DEF LineInv
  <2>1. CASE m1 = k /\ m2 = k
    BY <1>1, <1>3, <2>1
  <2>2. CASE m1 # k /\ m2 = k
    <3>1. Sent(m1) /\ root[m1] = r /\ Clean(r) /\ n_retries'[m1] = n_retries[m1]
      BY <1>1, <1>3, <1>5, <2>2
    <3> QED
      BY <1>1, <1>3, <1>8, <2>2, <3>1 DEF TypeOK
  <2>3. CASE m1 = k /\ m2 # k
    <3>1. Sent(m2) /\ root[m2] = r /\ Clean(r) /\ n_retries'[m2] = n_retries[m2]
      BY <1>1, <1>3, <1>5, <2>3
    <3>2. n_retries[m2] <= n_retries[c] /\ n_retries[m2] \in Nat
      BY <1>8, <3>1 DEF TypeOK
    <3> QED
      BY <1>1, <1>3, <2>3, <3>1, <3>2
  <2>4. CASE m1 # k /\ m2 # k
    <3>1. /\ Sent(m1) /\ Sent(m2) /\ root[m1] = root[m2] /\ Clean(root[m1])
          /\ n_retries'[m1] = n_retries[m1] /\ n_retries'[m2] = n_retries[m2]
      BY <1>3, <1>5, <2>4 DEF TypeOK
    <3> QED
      BY <1>3, <1>6, <3>1 DEF ChainInv, LineInv
  <2> QED
    BY <2>1, <2>2, <2>3, <2>4
<1>10. LatestInv'
  <2> SUFFICES ASSUME NEW i \in MsgIds, Chain(i)' # {}, Clean(i)'
               PROVE  \E l \in Chain(i)' : \A j \in Chain(i)' : n_retries'[j] <= n_retries'[l]
    BY DEF LatestInv
  <2>1. CASE i = r
    <3>1. k \in Chain(i)'
      BY <1>3, <2>1 DEF Chain
    <3>2. \A j \in Chain(i)' : n_retries'[j] <= n_retries'[k]
      <4> TAKE j \in Chain(i)'
      <4>1. j \in MsgIds /\ Sent(j)' /\ root'[j] = r
        BY <2>1 DEF Chain
      <4>2. CASE j = k
        BY <1>1, <1>3, <4>2
      <4>3. CASE j # k
        <5>1. n_retries[j] <= n_retries[c] /\ n_retries[j] \in Nat
          BY <1>3, <1>5, <1>8, <2>1, <4>1, <4>3 DEF TypeOK
        <5> QED
          BY <1>1, <1>3, <4>1, <4>3, <5>1
      <4> QED
        BY <4>2, <4>3
    <3> QED
      BY <3>1, <3>2
  <2>2. CASE i # r
    <3>1. Chain(i)' = Chain(i)
      BY <1>3, <2>2 DEF Chain
    <3>2. PICK l \in Chain(i) : \A j \in Chain(i) : n_retries[j] <= n_retries[l]
      BY <1>5, <3>1 DEF ChainInv, LatestInv
    <3>3. \A j \in Chain(i) : n_retries'[j] = n_retries[j]
      BY <1>3 DEF Chain
    <3> QED
      BY <3>1, <3>2, <3>3
  <2> QED
    BY <2>1, <2>2
<1> QED
  BY <1>4, <1>7, <1>9, <1>10 DEF ChainInv

\* The owner of a row in a clean chain works on the latest message: any other one is
\* RETRIED, and the owner's row is RUNNING.
LEMMA OwnerIsLatest ==
    ASSUME TypeOK, ExecutionInv, ChainInv, NEW w \in Workers, Owns(w), Clean(root[cur[w]])
    PROVE  /\ cur[w] \in MsgIds /\ Sent(cur[w]) /\ cur[w] \notin pruned
           /\ status[cur[w]] = "RUNNING"
           /\ \A m \in Chain(root[cur[w]]) : n_retries[m] <= n_retries[cur[w]]
<1>1. cur[w] \in MsgIds /\ Sent(cur[w])
  BY DEF Owns, TypeOK
<1>2. cur[w] \notin pruned
  BY DEF Clean
<1>3. status[cur[w]] = "RUNNING"
  BY <1>2 DEF ExecutionInv, OwnerInv
<1>4. ASSUME NEW m \in Chain(root[cur[w]]) PROVE n_retries[m] <= n_retries[cur[w]]
  <2>1. m \in MsgIds /\ Sent(m) /\ root[m] = root[cur[w]]
    BY DEF Chain
  <2>2. ~ (n_retries[cur[w]] < n_retries[m])
    BY <1>1, <1>3, <2>1 DEF ChainInv, LineInv
  <2>3. n_retries[m] \in Nat /\ n_retries[cur[w]] \in Nat
    BY <1>1, <2>1 DEF TypeOK
  <2> QED
    BY <2>2, <2>3
<1> QED
  BY <1>1, <1>2, <1>3, <1>4

\* Saving an outcome preserves ChainInv: the row was RUNNING, so it had no retry yet and
\* no other worker is about to send one.
LEMMA SaveKeepsChains ==
    ASSUME TypeOK, TypeOK', ExecutionInv, ChainInv, NEW w \in Workers, Saved(w)
    PROVE  ChainInv'
<1> DEFINE c == cur[w]
<1>1. pc[w] = "outcome" /\ Owns(w) /\ c \in MsgIds /\ Sent(c)
  BY DEF Saved, SaveRow, Owns, TypeOK
<1>2. /\ \A m \in MsgIds : Sent(m)' <=> Sent(m)
      /\ root' = root /\ n_retries' = n_retries /\ pruned' = pruned
  BY DEF Saved, SameMessages
<1>3. /\ status'[c] = Outcome(w)
      /\ traceback'[c] = (traceback[c] \/ err[w] # "none")
      /\ \A m \in MsgIds \ {c} : status'[m] = status[m] /\ traceback'[m] = traceback[m]
  BY <1>1 DEF Saved, SaveRow, TypeOK
<1>4. Outcome(w) = "RETRIED" => err[w] # "none"
  <2>1. err[w] = "none" => ~Retryable(w)
    BY DEF Retryable, CaughtError, Errors
  <2> QED
    BY <2>1, Zenon DEF Outcome
<1>5. RootInv'
  <2>1. \A m \in MsgIds : Sent(m)' => Sent(root[m])' /\ root'[root'[m]] = root'[m]
    BY <1>2 DEF ChainInv, RootInv, TypeOK
  <2>2. \A m \in MsgIds : status'[m] = "RETRIED" => traceback'[m] = TRUE
    BY <1>3, <1>4 DEF ChainInv, RootInv
  <2> QED
    BY <1>2, <2>1, <2>2 DEF ChainInv, RootInv, TypeOK
<1>6. \A r : Clean(r)' <=> Clean(r)
  BY <1>2 DEF Clean
<1>7. Clean(root[c]) => /\ status[c] = "RUNNING"
                        /\ \A v \in Workers : pc[v] = "enqueue" => cur[v] # c
  BY <1>1, OwnerIsLatest DEF ChainInv, SenderInv
<1>8. ASSUME NEW v \in Workers, pc'[v] = "enqueue"
      PROVE  /\ cur'[v] = cur[v] /\ cur[v] \in MsgIds
             /\ v # w => pc[v] = "enqueue"
             /\ v = w => cur[v] = c /\ status'[c] = "RETRIED"
  BY <1>1, <1>3, <1>8 DEF Saved, TypeOK
<1>9. SenderInv'
  <2>1. ASSUME NEW v \in Workers, pc'[v] = "enqueue", Clean(root[cur[v]])
        PROVE  status'[cur[v]] = "RETRIED"
    <3>1. CASE v = w
      BY <1>8, <2>1, <3>1
    <3>2. CASE v # w
      BY <1>3, <1>7, <1>8, <2>1, <3>2 DEF ChainInv, SenderInv
    <3> QED
      BY <3>1, <3>2
  <2>2. ASSUME NEW u \in Workers, NEW v \in Workers, u # v, pc'[u] = "enqueue",
               pc'[v] = "enqueue", cur[u] = cur[v], Clean(root[cur[v]])
        PROVE  FALSE
    BY <1>7, <1>8, <2>2 DEF ChainInv, SenderInv
  <2> QED
    BY <1>2, <1>6, <1>8, <2>1, <2>2 DEF SenderInv
<1>10. LineInv'
  <2> SUFFICES ASSUME NEW m1 \in MsgIds, NEW m2 \in MsgIds, Sent(m1), Sent(m2),
                      root[m1] = root[m2], Clean(root[m1])
               PROVE  /\ n_retries[m1] = n_retries[m2] => m1 = m2
                      /\ n_retries[m1] < n_retries[m2] =>
                            /\ status'[m1] = "RETRIED"
                            /\ \A v \in Workers : pc'[v] = "enqueue" => cur'[v] # m1
    BY <1>2, <1>6 DEF LineInv
  <2>1. n_retries[m1] = n_retries[m2] => m1 = m2
    BY DEF ChainInv, LineInv
  <2>2. ASSUME n_retries[m1] < n_retries[m2]
        PROVE  m1 # c /\ status[m1] = "RETRIED"
               /\ \A v \in Workers : pc[v] = "enqueue" => cur[v] # m1
    BY <1>7, <2>2 DEF ChainInv, LineInv
  <2> QED
    BY <1>3, <1>8, <2>1, <2>2
<1>11. LatestInv'
  <2>1. \A r : Chain(r)' = Chain(r)
    BY <1>2 DEF Chain
  <2> QED
    BY <1>2, <1>6, <2>1 DEF ChainInv, LatestInv
<1> QED
  BY <1>5, <1>9, <1>10, <1>11 DEF ChainInv

\* Deleting rows preserves ChainInv: their chains are clean no longer.
LEMMA CleanupKeepsChains ==
    ASSUME TypeOK, TypeOK', ChainInv, Cleaned
    PROVE  ChainInv'
<1>1. PICK old \in SUBSET {m \in MsgIds : status[m] # "NONE"} :
          /\ status' = [m \in MsgIds |-> IF m \in old THEN "NONE" ELSE status[m]]
          /\ traceback' = [m \in MsgIds |-> IF m \in old THEN FALSE ELSE traceback[m]]
          /\ pruned' = pruned \cup old
  BY DEF Cleaned
<1>2. /\ \A m \in MsgIds : Sent(m)' <=> Sent(m)
      /\ root' = root /\ n_retries' = n_retries
  BY DEF Cleaned, SameMessages
<1>3. RootInv'
  <2>1. \A m \in MsgIds : Sent(m)' => Sent(root[m])' /\ root'[root'[m]] = root'[m]
    BY <1>2 DEF ChainInv, RootInv, TypeOK
  <2>2. \A m \in pruned' : Sent(m)'
    BY <1>1, <1>2 DEF ChainInv, RootInv, TypeOK
  <2>3. \A m \in MsgIds : status'[m] = "RETRIED" => traceback'[m] = TRUE
    BY <1>1 DEF ChainInv, RootInv
  <2> QED
    BY <2>1, <2>2, <2>3 DEF RootInv
<1>4. \A r : Clean(r)' => Clean(r)
  BY <1>1, <1>2 DEF Clean
<1>5. \A m \in MsgIds : Clean(root[m])' => status'[m] = status[m]
  BY <1>1, <1>2 DEF Clean
<1>6. ASSUME NEW w \in Workers, pc'[w] = "enqueue"
      PROVE  pc[w] = "enqueue" /\ cur'[w] = cur[w] /\ cur[w] \in MsgIds
  BY <1>6 DEF Cleaned, NoNewSender, TypeOK
<1>7. SenderInv'
  BY <1>2, <1>4, <1>5, <1>6 DEF ChainInv, SenderInv
<1>8. LineInv'
  <2> SUFFICES ASSUME NEW m1 \in MsgIds, NEW m2 \in MsgIds, Sent(m1), Sent(m2),
                      root[m1] = root[m2], Clean(root[m1])'
               PROVE  /\ n_retries[m1] = n_retries[m2] => m1 = m2
                      /\ n_retries[m1] < n_retries[m2] =>
                            /\ status'[m1] = "RETRIED"
                            /\ \A v \in Workers : pc'[v] = "enqueue" => cur'[v] # m1
    BY <1>2 DEF LineInv
  <2> QED
    BY <1>2, <1>4, <1>5, <1>6 DEF ChainInv, LineInv
<1>9. LatestInv'
  <2>1. \A r : Chain(r)' = Chain(r)
    BY <1>2 DEF Chain
  <2> QED
    BY <1>2, <1>4, <2>1 DEF ChainInv, LatestInv
<1> QED
  BY <1>3, <1>7, <1>8, <1>9 DEF ChainInv

\* ChainInv is an invariant of the executor, whatever is delivered, retried, lost or
\* deleted.
THEOREM Chains == Spec => []ChainInv
<1>1. Init => ChainInv
  BY DEF Init, ChainInv, RootInv, SenderInv, LineInv, LatestInv, Chain, Sent
<1>2. TypeOK /\ TypeOK' /\ ExecutionInv /\ ChainInv /\ [Next]_vars => ChainInv'
  <2> SUFFICES ASSUME TypeOK, TypeOK', ExecutionInv, ChainInv, [Next]_vars PROVE ChainInv'
    OBVIOUS
  <2>1. CASE UNCHANGED vars
    BY <2>1 DEF vars, queueVars, recordVars, localVars, histVars, ChainInv, RootInv, SenderInv,
       LineInv, LatestInv, Clean, Chain, Sent
  <2>2. CASE Quiet
    <3>1. /\ \A m \in MsgIds : status'[m] = "RETRIED" => traceback'[m] = TRUE
          /\ \A m \in MsgIds : m \notin pruned /\ status[m] = "RETRIED" => status'[m] = "RETRIED"
      BY <2>2 DEF Quiet, recordVars, ChainInv, RootInv
    <3> QED
      BY <2>2, <3>1, ChainFrame DEF Quiet
  <2>3. ASSUME NEW w \in Workers, Started(w) PROVE ChainInv'
    <3>1. /\ \A m \in MsgIds : status'[m] = "RETRIED" => traceback'[m] = TRUE
          /\ \A m \in MsgIds : m \notin pruned /\ status[m] = "RETRIED" => status'[m] = "RETRIED"
      BY <2>3 DEF Started, Insert, InsertAllowed, ChainInv, RootInv, TypeOK
    <3> QED
      BY <2>3, <3>1, ChainFrame DEF Started
  <2>4. ASSUME NEW w \in Workers, Committed(w) PROVE ChainInv'
    <3>1. /\ \A m \in MsgIds : status'[m] = "RETRIED" => traceback'[m] = TRUE
          /\ \A m \in MsgIds : m \notin pruned /\ status[m] = "RETRIED" => status'[m] = "RETRIED"
      BY <2>4 DEF Committed, recordVars, ChainInv, RootInv
    <3> QED
      BY <2>4, <3>1, ChainFrame DEF Committed
  <2> QED
    BY <2>1, <2>2, <2>3, <2>4, StepKinds, CallKeepsChains, SaveKeepsChains, ResendKeepsChains,
       CleanupKeepsChains
<1> QED
  BY <1>1, <1>2, TypeCorrect, Executions, PTL DEF Spec

\* No failure is retried twice: the messages of an invocation have different retry counts.
THEOREM ChainsAreLinear == Spec => []RetryChainLinear
<1>1. TypeOK /\ ChainInv => RetryChainLinear
  BY DEF TypeOK, ChainInv, LineInv, Clean, RetryChainLinear
<1> QED
  BY <1>1, TypeCorrect, Chains, PTL

\* Two messages of an invocation commit their writes only if the earlier one raised after
\* its commit.
THEOREM ChainsCommitOnce == Spec => []ChainCommitsOnce
<1>1. TypeOK /\ ExecutionInv /\ ChainInv => ChainCommitsOnce
  <2> SUFFICES ASSUME TypeOK, ExecutionInv, ChainInv,
                      NEW m1 \in MsgIds, NEW m2 \in MsgIds, Sent(m1), Sent(m2),
                      root[m1] = root[m2], n_retries[m1] < n_retries[m2], commits[m1] > 0,
                      Clean(root[m1])
               PROVE  m1 \in lateError
    BY DEF ChainCommitsOnce, Clean
  <2>1. status[m1] = "RETRIED" /\ traceback[m1] = TRUE
    BY DEF ChainInv, LineInv, RootInv
  <2>2. m1 \notin pruned
    BY DEF Clean
  <2> QED
    BY <2>1, <2>2 DEF ExecutionInv, OutcomeMatchesEffects, Terminal
<1> QED
  BY <1>1, TypeCorrect, Executions, Chains, PTL

(***************************************************************************)
(* Who is responsible for a row.  Every step that takes a worker away from *)
(* its row, or from the retry it has to send, writes the outcome, sends    *)
(* the retry, or is one of the failures that the history variables name.   *)
(***************************************************************************)
Attended == RunningIsAttended /\ RetriedIsContinued

\* Nobody leaves a row, or a retry to send, without being accounted for.
KeepsAttended ==
    /\ \A m \in MsgIds : Sent(m) =>
          Sent(m)' /\ root'[m] = root[m] /\ n_retries'[m] = n_retries[m]
    /\ orphaned \subseteq orphaned' /\ lostRetry \subseteq lostRetry'
    /\ \A w \in Workers : Owns(w) => (Owns(w)' /\ cur'[w] = cur[w]) \/ cur[w] \in orphaned'
    /\ \A w \in Workers : pc[w] = "enqueue" =>
          (pc'[w] = "enqueue" /\ cur'[w] = cur[w]) \/ cur[w] \in lostRetry'
    /\ \A m \in MsgIds : status'[m] = "RUNNING" =>
          \/ status[m] = "RUNNING" \/ m \in orphaned'
          \/ \E w \in Workers : Owns(w)' /\ cur'[w] = m
    /\ \A m \in MsgIds : status'[m] = "RETRIED" => status[m] = "RETRIED"

\* Such steps preserve Attended.
LEMMA AttendedFrame ==
    ASSUME TypeOK, Attended, KeepsAttended
    PROVE  Attended'
<1>1. RunningIsAttended'
  <2> SUFFICES ASSUME NEW m \in MsgIds, status'[m] = "RUNNING"
               PROVE  m \in orphaned' \/ \E w \in Workers : Owns(w)' /\ cur'[w] = m
    BY DEF RunningIsAttended
  <2>1. CASE status[m] = "RUNNING"
    <3>1. m \in orphaned \/ \E w \in Workers : Owns(w) /\ cur[w] = m
      BY <2>1 DEF Attended, RunningIsAttended
    <3> QED
      BY <3>1 DEF KeepsAttended
  <2> QED
    BY <2>1 DEF KeepsAttended
<1>2. RetriedIsContinued'
  <2> SUFFICES ASSUME NEW m \in MsgIds, status'[m] = "RETRIED"
               PROVE  \/ m \in lostRetry'
                      \/ \E w \in Workers : pc'[w] = "enqueue" /\ cur'[w] = m
                      \/ \E r \in MsgIds : Sent(r)' /\ root'[r] = root'[m]
                                           /\ n_retries'[r] = n_retries'[m] + 1
    BY DEF RetriedIsContinued
  <2>1. status[m] = "RETRIED" /\ Sent(m) /\ root'[m] = root[m] /\ n_retries'[m] = n_retries[m]
    BY DEF KeepsAttended, TypeOK
  <2>2. \/ m \in lostRetry
        \/ \E w \in Workers : pc[w] = "enqueue" /\ cur[w] = m
        \/ \E r \in MsgIds : Sent(r) /\ root[r] = root[m] /\ n_retries[r] = n_retries[m] + 1
    BY <2>1 DEF Attended, RetriedIsContinued
  <2> QED
    BY <2>1, <2>2 DEF KeepsAttended
<1> QED
  BY <1>1, <1>2 DEF Attended

\* Writing an outcome discharges the owner: the row is terminal, and RETRIED only if the
\* writer goes on to send the retry or is in lostRetry.
LEMMA SaveAttended ==
    ASSUME TypeOK, TypeOK', Attended, NEW w \in Workers, SaveRow(w),
           UNCHANGED <<queueVars, orphaned>>, lostRetry \subseteq lostRetry',
           \A v \in Workers \ {w} : pc'[v] = pc[v] /\ cur'[v] = cur[v],
           Outcome(w) = "RETRIED" =>
               cur[w] \in lostRetry' \/ (pc'[w] = "enqueue" /\ cur'[w] = cur[w])
    PROVE  Attended'
<1>1. cur[w] \in MsgIds /\ pc[w] = "outcome"
  BY DEF SaveRow, TypeOK
<1>2. /\ status'[cur[w]] = Outcome(w)
      /\ \A m \in MsgIds \ {cur[w]} : status'[m] = status[m]
  BY <1>1 DEF SaveRow, TypeOK
<1>3. RunningIsAttended'
  <2> SUFFICES ASSUME NEW m \in MsgIds, status'[m] = "RUNNING"
               PROVE  m \in orphaned' \/ \E v \in Workers : Owns(v)' /\ cur'[v] = m
    BY DEF RunningIsAttended
  <2>1. m # cur[w]
    BY <1>2, OutcomeType DEF Terminal
  <2>2. m \in orphaned \/ \E v \in Workers \ {w} : Owns(v) /\ cur[v] = m
    BY <1>2, <2>1 DEF Attended, RunningIsAttended
  <2> QED
    BY <2>2 DEF Owns
<1>4. RetriedIsContinued'
  <2> SUFFICES ASSUME NEW m \in MsgIds, status'[m] = "RETRIED"
               PROVE  \/ m \in lostRetry'
                      \/ \E v \in Workers : pc'[v] = "enqueue" /\ cur'[v] = m
                      \/ \E r \in MsgIds : Sent(r) /\ root[r] = root[m]
                                           /\ n_retries[r] = n_retries[m] + 1
    BY DEF RetriedIsContinued, Sent, queueVars
  <2>1. CASE m = cur[w]
    BY <1>2, <2>1
  <2>2. CASE m # cur[w]
    BY <1>1, <1>2, <2>2 DEF Attended, RetriedIsContinued
  <2> QED
    BY <2>1, <2>2
<1> QED
  BY <1>3, <1>4 DEF Attended

\* Sending the retry discharges the sender.
LEMMA SendAttended ==
    ASSUME TypeOK, TypeOK', Attended, NEW w \in Workers, Resent(w),
           UNCHANGED <<orphaned, lostRetry>>
    PROVE  Attended'
<1>1. pc[w] = "enqueue" /\ cur[w] \in MsgIds /\ Sent(cur[w])
  BY DEF Resent, TypeOK
<1>2. PICK k \in MsgIds : Joins(k, n_retries[cur[w]] + 1, root[cur[w]])
  BY DEF Resent
<1>3. /\ \A m \in MsgIds : Sent(m) =>
             Sent(m)' /\ root'[m] = root[m] /\ n_retries'[m] = n_retries[m]
      /\ Sent(k)' /\ root'[k] = root[cur[w]] /\ n_retries'[k] = n_retries[cur[w]] + 1
      /\ status' = status
  BY <1>2 DEF Joins, TypeOK, recordVars
<1>4. \A v \in Workers \ {w} : pc'[v] = pc[v] /\ cur'[v] = cur[v]
  BY DEF Resent, TypeOK
<1>5. RunningIsAttended'
  BY <1>1, <1>3, <1>4 DEF Attended, RunningIsAttended, Owns
<1>6. RetriedIsContinued'
  <2> SUFFICES ASSUME NEW m \in MsgIds, status[m] = "RETRIED"
               PROVE  \/ m \in lostRetry
                      \/ \E v \in Workers : pc'[v] = "enqueue" /\ cur'[v] = m
                      \/ \E r \in MsgIds : Sent(r)' /\ root'[r] = root'[m]
                                           /\ n_retries'[r] = n_retries'[m] + 1
    BY <1>3 DEF RetriedIsContinued
  <2>1. Sent(m)
    BY DEF TypeOK
  <2>2. CASE m = cur[w]
    BY <1>1, <1>3, <2>2
  <2>3. CASE m # cur[w]
    BY <1>3, <1>4, <2>1, <2>3 DEF Attended, RetriedIsContinued
  <2> QED
    BY <2>2, <2>3
<1> QED
  BY <1>5, <1>6 DEF Attended

\* No row is RUNNING, and no retry outstanding, with nobody responsible.
THEOREM AttendedAlways == Spec => []Attended
<1>1. Init => Attended
  BY DEF Init, Attended, RunningIsAttended, RetriedIsContinued
<1>2. TypeOK /\ TypeOK' /\ Attended /\ [Next]_vars => Attended'
  <2> SUFFICES ASSUME TypeOK, TypeOK', Attended, [Next]_vars PROVE Attended'
    OBVIOUS
  <2> USE DEF KeepsAttended, Owns, TypeOK, Sent,
              queueVars, recordVars, handlerVars, localVars, histVars, boundVars
  <2>1. ASSUME NEW m \in MsgIds, NEW t, NEW n, NEW r, Send(m, t, n, r), Invoke PROVE KeepsAttended
    BY <2>1 DEF Send, Invoke
  <2>2. ASSUME NEW m \in MsgIds, VisibilityTimeout(m) PROVE KeepsAttended
    BY <2>2 DEF VisibilityTimeout
  <2>3. ASSUME NEW w \in Workers, Receive(w) PROVE KeepsAttended
    BY <2>3 DEF Receive
  <2>4. ASSUME NEW w \in Workers, Crash(w) PROVE KeepsAttended
    BY <2>4 DEF Crash, Die
  <2>5. ASSUME NEW w \in Workers, WorkerStep(w) PROVE Attended'
    <3>1. ASSUME \E m \in MsgIds : BeginRecord(w, m) \/ RejectRecord(w, m) PROVE KeepsAttended
      BY <3>1 DEF BeginRecord, RejectRecord
    <3>2. ASSUME Respond(w) PROVE KeepsAttended
      BY <3>2 DEF Respond
    <3>3. ASSUME SkipDuplicate(w) \/ GetRecord(w) PROVE KeepsAttended
      BY <3>3 DEF SkipDuplicate, GetRecord, Return, Finish
    <3>4. ASSUME CreateRecord(w) PROVE KeepsAttended
      BY <3>4 DEF CreateRecord, Insert, StartBody
    <3>5. ASSUME GetOrCreateFails(w) PROVE KeepsAttended
      BY <3>5 DEF GetOrCreateFails, Insert, Raise, Finish
    <3>6. ASSUME LockSetupFails(w) PROVE KeepsAttended
      BY <3>6 DEF LockSetupFails, Raise, Finish
    <3>7. ASSUME AcquireLock(w) PROVE KeepsAttended
      BY <3>7 DEF AcquireLock, StartBody
    <3>8. ASSUME ReleaseLock(w) PROVE KeepsAttended
      BY <3>8 DEF ReleaseLock
    <3>9. ASSUME \E e \in Errors : AcquireRaises(w, e) PROVE KeepsAttended
      BY <3>9 DEF AcquireRaises
    <3>10. ASSUME BodyCommits(w) \/ \E e \in Errors : BodyRaises(w, e) \/ CallbackRaises(w, e)
           PROVE  KeepsAttended
      BY <3>10 DEF BodyCommits, BodyRaises, CallbackRaises, LeaveAtomic
    <3>11. ASSUME \E e \in BackendErrors : ReleaseRaises(w, e) PROVE KeepsAttended
      BY <3>11 DEF ReleaseRaises
    <3>12. ASSUME SaveRaises(w) PROVE KeepsAttended
      BY <3>12 DEF SaveRaises, Raise, Finish
    <3>13. ASSUME Uncaught(w) PROVE KeepsAttended
      BY <3>13 DEF Uncaught, Die
    <3>14. CASE SaveAndReturn(w)
      <4>1. Outcome(w) # "RETRIED"
        BY <3>14, Zenon DEF SaveAndReturn, Outcome
      <4>2. /\ SaveRow(w) /\ UNCHANGED <<queueVars, orphaned, lostRetry>>
            /\ \A v \in Workers \ {w} : pc'[v] = pc[v] /\ cur'[v] = cur[v]
        BY <3>14 DEF SaveAndReturn, Return, Finish
      <4> HIDE DEF KeepsAttended, TypeOK, queueVars
      <4> QED
        BY <4>1, <4>2, SaveAttended
    <3>15. CASE SaveExhausted(w)
      <4>1. Outcome(w) # "RETRIED"
        BY <3>15, Zenon DEF SaveExhausted, Outcome
      <4>2. /\ SaveRow(w) /\ UNCHANGED <<queueVars, orphaned, lostRetry>>
            /\ \A v \in Workers \ {w} : pc'[v] = pc[v] /\ cur'[v] = cur[v]
        BY <3>15 DEF SaveExhausted, Raise, Finish
      <4> HIDE DEF KeepsAttended, TypeOK, queueVars
      <4> QED
        BY <4>1, <4>2, SaveAttended
    <3>16. CASE SaveRetried(w)
      <4>1. /\ SaveRow(w) /\ UNCHANGED <<queueVars, orphaned, lostRetry>>
            /\ \A v \in Workers \ {w} : pc'[v] = pc[v] /\ cur'[v] = cur[v]
            /\ pc'[w] = "enqueue" /\ cur'[w] = cur[w]
        BY <3>16 DEF SaveRetried
      <4> HIDE DEF KeepsAttended, TypeOK, queueVars
      <4> QED
        BY <4>1, SaveAttended
    <3>17. CASE SaveUnacknowledged(w)
      <4>1. /\ SaveRow(w) /\ UNCHANGED <<queueVars, orphaned>>
            /\ \A v \in Workers \ {w} : pc'[v] = pc[v] /\ cur'[v] = cur[v]
            /\ lostRetry \subseteq lostRetry'
            /\ Outcome(w) = "RETRIED" => cur[w] \in lostRetry'
        BY <3>17 DEF SaveUnacknowledged, Raise, Finish
      <4> HIDE DEF KeepsAttended, TypeOK, queueVars
      <4> QED
        BY <4>1, SaveAttended
    <3>18. ASSUME NEW k \in MsgIds, pc[w] = "enqueue", Finish(w),
                 Send(k, task_name[cur[w]], n_retries[cur[w]] + 1, root[cur[w]]),
                 UNCHANGED <<recordVars, commits, pruned, orphaned, lostRetry>>
          PROVE  Attended'
      <4>1. Joins(k, n_retries[cur[w]] + 1, root[cur[w]])
        BY <3>18 DEF Send, Joins, SqsStates
      <4>2. Resent(w)
        BY <3>18, <4>1 DEF Finish, Resent
      <4> HIDE DEF KeepsAttended, TypeOK
      <4> QED
        BY <3>18, <4>2, SendAttended
    <3>19. CASE EnqueueRetry(w)
      BY <3>18, <3>19 DEF EnqueueRetry, Return
    <3>20. CASE EnqueueRaises(w)
      <4>1. /\ pc[w] = "enqueue" /\ Finish(w)
            /\ UNCHANGED <<recordVars, commits, pruned, orphaned>>
        BY <3>20 DEF EnqueueRaises, Raise
      <4>2. CASE lostRetry' = lostRetry \cup {cur[w]} /\ UNCHANGED queueVars
        <5>1. KeepsAttended
          BY <4>1, <4>2 DEF Finish
        <5> HIDE DEF KeepsAttended, TypeOK
        <5> QED
          BY <5>1, AttendedFrame
      <4>3. CASE /\ \E m \in MsgIds : Send(m, task_name[cur[w]], n_retries[cur[w]] + 1, root[cur[w]])
                 /\ UNCHANGED lostRetry
        BY <3>18, <4>1, <4>3
      <4> QED
        BY <3>20, <4>2, <4>3 DEF EnqueueRaises
    <3> HIDE DEF KeepsAttended, TypeOK
    <3> QED
      BY AttendedFrame, <2>5, <3>1, <3>2, <3>3, <3>4, <3>5, <3>6, <3>7, <3>8, <3>9, <3>10,
         <3>11, <3>12, <3>13, <3>14, <3>15, <3>16, <3>17, <3>19, <3>20 DEF WorkerStep
  <2>6. ASSUME NEW t \in Tasks, ExpireLock(t) PROVE KeepsAttended
    BY <2>6 DEF ExpireLock
  <2>7. ASSUME CleanupTaskRecords PROVE KeepsAttended
    BY <2>7 DEF CleanupTaskRecords
  <2>8. ASSUME UNCHANGED vars PROVE KeepsAttended
    BY <2>8 DEF vars
  <2> HIDE DEF KeepsAttended, TypeOK
  <2> QED
    BY AttendedFrame, <2>1, <2>2, <2>3, <2>4, <2>5, <2>6, <2>7, <2>8
       DEF Next, ExecuteOnCommit, ReplayTask, Quiescent
<1> QED
  BY <1>1, <1>2, TypeCorrect, PTL DEF Spec

\* A row stays RUNNING without a worker only if that worker died or could not save.
THEOREM RunningRowsAttended == Spec => []RunningIsAttended
<1>1. Attended => RunningIsAttended
  BY DEF Attended
<1> QED
  BY <1>1, AttendedAlways, PTL

\* A RETRIED row has its retry, is about to send it, or is one whose send failed.
THEOREM RetriedRowsContinued == Spec => []RetriedIsContinued
<1>1. Attended => RetriedIsContinued
  BY DEF Attended
<1> QED
  BY <1>1, AttendedAlways, PTL
=============================================================================
