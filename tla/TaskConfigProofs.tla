-------------------------- MODULE TaskConfigProofs --------------------------
(***************************************************************************)
(* Proofs about TaskConfig and TaskKwargs, for every declaration and all   *)
(* settings with integer values.  Every step of TaskKwargs is a step of    *)
(* TaskConfig or leaves its variables alone, so what is proved of the      *)
(* former is proved of the latter.                                         *)
(***************************************************************************)
EXTENDS TaskKwargs, TLAPS

\* The two sets of checks together: a valid declaration whose timeouts resolve has
\* 0 < soft < hard, within the limit of its queue.
LEMMA ResolvedTimeoutsSound ==
    ASSUME NEW c \in Settings, NEW w \in Declarations,
           ValidDeclaration(w), TimeoutsResolve(c, w)
    PROVE  /\ Soft(c, w) \in Int /\ Hard(c, w) \in Int
           /\ 0 < Soft(c, w) /\ Soft(c, w) < Hard(c, w)
           /\ Hard(c, w) <= queue_max_timeout(c, w.queue)
<1>1. /\ w.soft # None => w.soft \in Int
      /\ w.hard # None => w.hard \in Int
      /\ c.soft \in Int /\ c.hard \in Int
  BY TaskConfigAssumption DEF Settings, Declarations
<1> QED
  BY <1>1 DEF ValidDeclaration, ValidTimeouts, TimeoutsResolve, Soft, Hard

\* A retry of a valid declaration has a delay between 0 and MAX_DELAY.
LEMMA RetryDelayValid ==
    ASSUME NEW w \in Declarations, ValidDeclaration(w), NEW j \in Jitter
    PROVE  RetryDelay(w, j) \in Int /\ ValidDelay(RetryDelay(w, j))
<1>1. w.retry_delay \in Int
  BY TaskConfigAssumption DEF Declarations
<1> QED
  BY <1>1 DEF Jitter, RetryDelay, ValidDeclaration, ValidRetryDelay, ValidDelay, MAX_DELAY

\* _execute takes one of the routes; the Batch route implies that the default queue
\* is an SQS queue, so that submit_batch_job's own message goes to SQS.
LEMMA RouteCases ==
    ASSUME NEW c \in Settings, NEW q \in QueueNames
    PROVE  /\ Route(c, q) \in Routes
           /\ Route(c, q) = "batch" => Route(c, "default") = "sqs"
<1>1. /\ c.queues[q] \in {"sqs", "batch", "invalid", "absent"}
      /\ c.noop \in BOOLEAN /\ c.eager \in BOOLEAN /\ c.local_workers \in Int
  BY TaskConfigAssumption DEF Settings
<1>2. Route(c, q) \in Routes
  BY <1>1 DEF Route, Routes, QueuesValid, NoopValid
<1>3. Route(c, q) = "batch" => Route(c, "default") = "sqs"
  BY <1>1 DEF Route, QueuesValid, NoopValid
<1> QED
  BY <1>2, <1>3

\* What holds of a task once its declaration was accepted, and at every later stage.
ConfigInv ==
    /\ TypeOK
    /\ pc \notin {"declared", "rejected"} => ValidDeclaration(wrapper)
    /\ pc = "batch" => hops = 0 /\ Route(conf, "default") = "sqs"
    /\ TimeoutsSound
    /\ DelaysDeliverable
    /\ BatchHopEnds

\* ConfigInv is an invariant of the life of a task.
THEOREM ConfigSound == Spec => []ConfigInv
<1> USE TaskConfigAssumption
<1>1. Init => ConfigInv
  BY DEF Init, ConfigInv, TypeOK, TimeoutsSound, DelaysDeliverable, BatchHopEnds
<1>2. ConfigInv /\ [Next]_vars => ConfigInv'
  <2> SUFFICES ASSUME ConfigInv, [Next]_vars PROVE ConfigInv'
    OBVIOUS
  <2> USE DEF ConfigInv, TypeOK, TimeoutsSound, DelaysDeliverable, BatchHopEnds
  <2>0. wrapper.queue \in QueueNames
    BY DEF Declarations
  <2>1. CASE Decorate
    BY <2>1 DEF Decorate
  <2>2. ASSUME NEW d \in Delays, ExecuteOnCommit(d) PROVE ConfigInv'
    <3>1. Route(conf, wrapper.queue) \in Routes
      BY <2>0, RouteCases
    <3>2. Route(conf, wrapper.queue) = "batch" => Route(conf, "default") = "sqs"
      BY <2>0, RouteCases
    <3> QED
      BY <2>2, <3>1, <3>2 DEF ExecuteOnCommit, ValidDelay, MAX_DELAY, Routes
  <2>3. CASE SubmitBatchJob
    BY <2>3 DEF SubmitBatchJob, ValidDelay, MAX_DELAY, Routes
  <2>7. CASE RunSubmitBatchJob
    BY <2>7 DEF RunSubmitBatchJob
  <2>4. CASE ResolveTimeouts
    <3>1. TimeoutsResolve(conf, wrapper) =>
            /\ Soft(conf, wrapper) \in Int /\ Hard(conf, wrapper) \in Int
            /\ 0 < Soft(conf, wrapper) /\ Soft(conf, wrapper) < Hard(conf, wrapper)
            /\ Hard(conf, wrapper) <= queue_max_timeout(conf, wrapper.queue)
      BY <2>4, ResolvedTimeoutsSound DEF ResolveTimeouts
    <3> QED
      BY <2>4, <3>1 DEF ResolveTimeouts, queue_max_timeout, MAX_TIMEOUT, MAX_BATCH_TIMEOUT
  <2>5. ASSUME NEW j \in Jitter, RetryTask(j) PROVE ConfigInv'
    <3>1. /\ Route(conf, wrapper.queue) \in Routes
          /\ Route(conf, wrapper.queue) = "batch" => Route(conf, "default") = "sqs"
      BY <2>0, RouteCases
    <3>2. RetryDelay(wrapper, j) \in 0..900
      BY <2>5, RetryDelayValid DEF RetryTask, ValidDelay, MAX_DELAY
    <3> QED
      BY <2>5, <3>1, <3>2 DEF RetryTask, Routes
  <2>6. CASE Stopped \/ UNCHANGED vars
    BY <2>6 DEF Stopped, vars
  <2> HIDE DEF ConfigInv
  <2> QED
    BY <2>1, <2>2, <2>3, <2>4, <2>5, <2>6, <2>7 DEF Next
<1> QED
  BY <1>1, <1>2, PTL DEF Spec

\* A running task has sound timeouts, for all settings.
THEOREM TimeoutsAreSound == Spec => []TimeoutsSound
<1>1. ConfigInv => TimeoutsSound
  BY DEF ConfigInv
<1> QED
  BY <1>1, ConfigSound, PTL

\* Every message handed to SQS or to submit_batch_job has a delay SQS accepts.
THEOREM DelaysAreDeliverable == Spec => []DelaysDeliverable
<1>1. ConfigInv => DelaysDeliverable
  BY DEF ConfigInv
<1> QED
  BY <1>1, ConfigSound, PTL

\* The hop over submit_batch_job ends at SQS.
THEOREM BatchHopsEnd == Spec => []BatchHopEnds
<1>1. ConfigInv => BatchHopEnds
  BY DEF ConfigInv
<1> QED
  BY <1>1, ConfigSound, PTL

(***************************************************************************)
(* The keyword arguments.                                                  *)
(***************************************************************************)
\* Routes other than a queue come from the setting that asks for them, and the eager
\* mode, when nothing overrides it, keeps every message away from the others.
LEMMA RouteModes ==
    ASSUME NEW c \in Settings, NEW q \in QueueNames
    PROVE  /\ Route(c, q) = "dropped" => c.noop
           /\ Route(c, q) = "eager" => c.eager
           /\ Route(c, q) = "local" => c.local_workers > 0
           /\ c.eager /\ ~c.noop => Route(c, q) \notin {"local", "sqs", "batch"}
<1>1. /\ c.queues[q] \in {"sqs", "batch", "invalid", "absent"}
      /\ c.noop \in BOOLEAN /\ c.eager \in BOOLEAN /\ c.local_workers \in Int
  BY TaskConfigAssumption DEF Settings
<1> QED
  BY <1>1 DEF Route, QueuesValid, NoopValid

\* A message's way through the routes, its arguments left out, is a behaviour of
\* TaskConfig.
THEOREM KwargsFollowConfig == KwargsSpec => Spec
<1>1. KwargsInit => Init
  BY DEF KwargsInit
<1>2. [KwargsNext]_allVars => [Next]_vars
  BY DEF KwargsNext, allVars, Next, ConfigStep, RejectKwargs, CallTask, Ended, EnqueueCall,
         RetryCall
<1> QED
  BY <1>1, <1>2, PTL DEF KwargsSpec, Spec

\* The message holds what the caller passed, or its JSON form, and the latter only
\* where a message can leave the process; what got past the enqueueing was accepted by
\* the model, and "invalid" is the model's verdict on what the message holds now.
KwargsInv ==
    /\ annotation \in Kinds \cup {"any"}
    /\ value \in Kinds /\ kwarg \in Kinds
    /\ outcome \in {"none", "rejected", "unserializable", "called", "invalid"}
    /\ kwarg \in {value, Json(value)}
    /\ conf.eager /\ ~conf.noop => kwarg = value
    /\ pc \notin {"declared", "rejected", "registered"} => ModelAccepts(value)
    /\ outcome = "invalid" => ~ModelAccepts(kwarg)

\* pc names a mode only when the settings ask for it.
ModeInv ==
    /\ pc = "dropped" => conf.noop
    /\ pc = "eager" => conf.eager
    /\ pc = "local" => conf.local_workers > 0

\* What a route does to the arguments keeps KwargsInv.
LEMMA TransportKeeps ==
    ASSUME KwargsInv, Transport, ModelAccepts(value), UNCHANGED conf,
           conf.eager /\ ~conf.noop => pc' \notin {"local", "sqs", "batch"}
    PROVE  KwargsInv'
BY DEF KwargsInv, Transport, ModelAccepts, Json, Kinds

\* KwargsInv and ModeInv are invariants of an invocation with its arguments.
THEOREM Kwargs == KwargsSpec => [](ConfigInv /\ KwargsInv /\ ModeInv)
<1>1. KwargsInit => KwargsInv /\ ModeInv
  BY DEF KwargsInit, Init, KwargsInv, ModeInv
<1>2. ConfigInv /\ KwargsInv /\ [KwargsNext]_allVars => KwargsInv'
  <2> SUFFICES ASSUME ConfigInv, KwargsInv, [KwargsNext]_allVars PROVE KwargsInv'
    OBVIOUS
  <2>0. conf \in Settings /\ wrapper.queue \in QueueNames
    BY DEF ConfigInv, TypeOK, Declarations
  <2>1. CASE ConfigStep
    BY <2>1 DEF ConfigStep, Decorate, SubmitBatchJob, RunSubmitBatchJob, ResolveTimeouts,
                kwargsVars, KwargsInv, ModelAccepts
  <2>2. CASE RejectKwargs
    BY <2>2 DEF RejectKwargs, vars, KwargsInv, ModelAccepts
  <2>3. CASE CallTask
    BY <2>3 DEF CallTask, vars, KwargsInv, ModelAccepts
  <2>4. CASE Ended \/ UNCHANGED allVars
    BY <2>4 DEF Ended, allVars, vars, kwargsVars, KwargsInv, ModelAccepts
  <2>5. ASSUME NEW d \in Delays, EnqueueCall(d) PROVE KwargsInv'
    BY <2>0, <2>5, RouteModes, TransportKeeps
    DEF EnqueueCall, EnqueueAccepts, ExecuteOnCommit
  <2>6. ASSUME NEW j \in Jitter, RetryCall(j) PROVE KwargsInv'
    <3>1. ModelAccepts(value)
      BY <2>6 DEF RetryCall, RetryTask, KwargsInv
    <3> QED
      BY <2>0, <2>6, <3>1, RouteModes, TransportKeeps DEF RetryCall, RetryTask
  <2> QED
    BY <2>1, <2>2, <2>3, <2>4, <2>5, <2>6 DEF KwargsNext
<1>3. ConfigInv /\ ModeInv /\ [Next]_vars => ModeInv'
  <2> SUFFICES ASSUME ConfigInv, ModeInv, [Next]_vars PROVE ModeInv'
    OBVIOUS
  <2>0. conf \in Settings /\ wrapper.queue \in QueueNames /\ "default" \in QueueNames
    BY DEF ConfigInv, TypeOK, Declarations, QueueNames
  <2>1. \A q \in QueueNames :
           /\ Route(conf, q) = "dropped" => conf.noop
           /\ Route(conf, q) = "eager" => conf.eager
           /\ Route(conf, q) = "local" => conf.local_workers > 0
    BY <2>0, RouteModes
  <2>2. UNCHANGED conf
    BY DEF Next, Decorate, ExecuteOnCommit, SubmitBatchJob, RunSubmitBatchJob, ResolveTimeouts,
           RetryTask, Stopped, vars
  <2> QED
    BY <2>0, <2>1, <2>2
    DEF ModeInv, Next, Decorate, ExecuteOnCommit, SubmitBatchJob, RunSubmitBatchJob,
        ResolveTimeouts, RetryTask, Stopped, vars
<1>4. Spec => [][Next]_vars
  BY PTL DEF Spec
<1> QED
  BY <1>1, <1>2, <1>3, <1>4, KwargsFollowConfig, ConfigSound, PTL DEF KwargsSpec

\* On every route and every retry: arguments of JSON's own kinds, and all arguments in
\* eager mode, arrive as they were passed and the worker's validation accepts them.
THEOREM ArgumentsArrive == KwargsSpec => []KwargsArrive
<1>1. KwargsInv => KwargsArrive
  BY DEF KwargsInv, KwargsArrive, Json, ModelAccepts
<1> QED
  BY <1>1, Kwargs, PTL

\* Wherever an invocation or a retry is dropped, run eagerly or in the local pool,
\* check --deploy has a warning for the settings.
THEOREM DeployChecksComplete == KwargsSpec => []DeployCheckComplete
<1>1. ASSUME ModeInv, pc \in {"dropped", "eager", "local"} PROVE DeployWarnings(conf) # {}
  <2>1. CASE pc = "dropped"
    BY <1>1, <2>1, "W001" \in DeployWarnings(conf) DEF ModeInv, DeployWarnings
  <2>2. CASE pc = "eager"
    BY <1>1, <2>2, "W002" \in DeployWarnings(conf) DEF ModeInv, DeployWarnings
  <2>3. CASE pc = "local"
    BY <1>1, <2>3, "W003" \in DeployWarnings(conf) DEF ModeInv, DeployWarnings
  <2> QED
    BY <1>1, <2>1, <2>2, <2>3
<1>2. ModeInv => DeployCheckComplete
  BY <1>1 DEF DeployCheckComplete
<1> QED
  BY <1>2, Kwargs, PTL

\* The three results about TaskConfig hold of invocations with arguments.
THEOREM KwargsConfigSound ==
    KwargsSpec => [](KwargsTypeOK /\ TimeoutsSound /\ DelaysDeliverable /\ BatchHopEnds)
<1>1. ConfigInv /\ KwargsInv =>
        KwargsTypeOK /\ TimeoutsSound /\ DelaysDeliverable /\ BatchHopEnds
  BY DEF ConfigInv, KwargsInv, KwargsTypeOK
<1> QED
  BY <1>1, Kwargs, PTL
=============================================================================
