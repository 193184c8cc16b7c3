-------------------------- MODULE ContainerProofs --------------------------
(***************************************************************************)
(* Proofs about Container, for every deployment and any number of          *)
(* attempts, and the results about ColdStart carried over to processes     *)
(* that are started again and again.                                       *)
(***************************************************************************)
EXTENDS Container, ColdStartProofs

(***************************************************************************)
(* A step of a container is a step of its cold start, or a new attempt,    *)
(* which puts the process back into an initial state with the same         *)
(* deployment.                                                             *)
(***************************************************************************)
LEMMA AttemptIsFresh ==
    ASSUME TypeOK, [ContainerNext]_allVars
    PROVE  [Next]_vars \/ (Init' /\ StartAttempt)
<1>1. ASSUME StartAttempt PROVE Init'
  BY <1>1 DEF StartAttempt, Init, TypeOK
<1>2. ASSUME RunHandler PROVE Next
  BY <1>2 DEF RunHandler, ColdStartStep, Next
<1>3. ASSUME \/ CallHandler \/ ProcessBatch \/ RecordRaises \/ SkipDuplicate
             \/ LockSetupRaises \/ LockRaises \/ EndTask
      PROVE  Next
  BY <1>3 DEF CallHandler, ProcessBatch, RecordRaises, SkipDuplicate, LockSetupRaises, LockRaises,
     EndTask, SaveOutcome, HandlerReturns, Next
<1>4. ASSUME \/ SubmitJob \/ SubmitReturns \/ SubmitRaises \/ SubmitterDies \/ ImportHandler
             \/ NoMessage \/ CreateRecord \/ EnterTask \/ TaskExits
             \/ Finish \/ FlushRaises \/ Kill \/ Over \/ UNCHANGED allVars
      PROVE  UNCHANGED vars
  BY <1>4 DEF SubmitJob, SubmitReturns, SubmitRaises, SubmitterDies, SubmissionEnds, ImportHandler,
     NoMessage, CreateRecord, EnterTask, TaskExits, Finish, FlushRaises, Kill, Exit, Over, allVars
<1> QED
  BY <1>1, <1>2, <1>3, <1>4 DEF ContainerNext

\* ColdStartInv holds in every attempt of a job as in a Lambda container.
THEOREM ContainersColdStart == ContainerSpec => []ColdStartInv
<1>1. ContainerInit => Init
  BY DEF ContainerInit
<1>2. ColdStartInv /\ [ContainerNext]_allVars => [Next]_vars \/ Init'
  BY AttemptIsFresh DEF ColdStartInv
<1> QED
  BY <1>1, <1>2, ColdStartBegins, ColdStartContinues, PTL DEF ContainerSpec

\* In a Batch container, too, records are processed only after a complete cold start, and
\* the boot handler is confined to the loaders.
THEOREM ContainersAreConfigured ==
    ContainerSpec => [](ServingIsConfigured /\ BootHandlerConfined)
<1>1. ColdStartInv => ServingIsConfigured
  BY ConfigFields DEF ColdStartInv, TypeOK, EnvironmentInv, SecretInv, ServingIsConfigured
<1>2. ColdStartInv => BootHandlerConfined
  BY DEF ColdStartInv, HandlerInv
<1> QED
  BY <1>1, <1>2, ContainersColdStart, PTL

\* Resolved references override nothing in any attempt.
THEOREM ContainersOverrideNothing == ContainerSpec => SecretsNeverOverride
<1>1. ColdStartInv /\ [ContainerNext]_allVars => [SecretStep]_vars
  <2> SUFFICES ASSUME ColdStartInv, [ContainerNext]_allVars PROVE [SecretStep]_vars
    OBVIOUS
  <2>1. CASE StartAttempt
    BY <2>1 DEF StartAttempt, SecretStep
  <2> QED
    BY <2>1, AttemptIsFresh, SecretStepHolds DEF ColdStartInv
<1> QED
  BY <1>1, ContainersColdStart, PTL DEF ContainerSpec, SecretsNeverOverride

(***************************************************************************)
(* JobInv.  The row of the job is the memory that its attempts share.      *)
(* Where it is missing nothing has happened; where it is RUNNING the task  *)
(* is between the insert and the outcome, or an attempt was cut off there; *)
(* where it is settled the task was run or met its lock.                   *)
(***************************************************************************)
Inside == {"created", "task"}

JobInv ==
    /\ executions = 0 \/ (executions = 1 /\ stage # "created" /\ rows[MessageId] # "none")
    /\ stage = "task" => executions = 1
    /\ rows[MessageId] = "none" => ~cut
    /\ stage \in Inside => rows[MessageId] = "RUNNING" /\ ~cut /\ pc = "serving"
    /\ rows[MessageId] = "RUNNING" => cut \/ stage \in Inside
    /\ rows[MessageId] \notin {"none", "RUNNING"} => locked \/ executions = 1
    /\ stage = "runtime" => kind = "lambda"

\* What the process says of the row on its way out.
ExitInv ==
    /\ stage = "flush" /\ ~failures =>
          rows[MessageId] # "none" /\ (rows[MessageId] = "RUNNING" => attempts > 1)
    /\ stage = "flush" /\ rows[MessageId] = "SUCCEEDED" /\ attempts = 1 => ~failures \/ cut
    /\ attempts = 1 /\ stage \in {"import", "main", "runtime", "handler"} =>
          rows[MessageId] = "none"
    /\ attempts = 0 => rows[MessageId] = "none"
    /\ attempts = 0 /\ kind = "batch" => stage = "none"
    /\ stage = "exited" =>
          /\ exit # -1
          /\ exit = 0 => /\ rows[MessageId] # "none"
                         /\ rows[MessageId] = "RUNNING" => attempts > 1 \/ quit
    /\ SuccessIsReported

SubmissionInv ==
    /\ kind = "batch" => submission # "none"
    /\ submission \in {"SUCCEEDED", "manual"} => job

ContainerInv == JobInv /\ ExitInv /\ SubmissionInv

\* Every reachable state of a container is well typed.
THEOREM ContainerTypeCorrect == ContainerSpec => []ContainerTypeOK
<1>1. ColdStartInv /\ ContainerInit => ContainerTypeOK
  <2> SUFFICES ASSUME ColdStartInv, ContainerInit PROVE ContainerTypeOK
    OBVIOUS
  <2>1. TypeOK /\ attempts \in 0..MaxAttempts /\ executions \in Nat /\ exit \in {-1, 0, 1, 137}
    BY ContainerAssumption DEF ColdStartInv, ContainerInit
  <2>2. /\ job \in BOOLEAN /\ failures \in BOOLEAN
        /\ cut \in BOOLEAN /\ quit \in BOOLEAN /\ locked \in BOOLEAN
    BY Zenon DEF ContainerInit
  <2>3. rows \in [Ids -> {"none", "RUNNING", "SUCCEEDED", "FAILED", "RETRIED"}]
    BY DEF ContainerInit
  <2>4. /\ kind \in {"lambda", "batch"} /\ tracing \in {"ok", "broken"}
        /\ submission \in {"none", "RUNNING", "SUCCEEDED", "FAILED", "abandoned", "manual"}
        /\ stage \in Stages
    BY DEF ContainerInit, Stages
  <2> QED
    BY <2>1, <2>2, <2>3, <2>4 DEF ContainerTypeOK
<1>2. ColdStartInv' /\ ContainerTypeOK /\ [ContainerNext]_allVars => ContainerTypeOK'
  <2> SUFFICES ASSUME ColdStartInv', ContainerTypeOK, [ContainerNext]_allVars
               PROVE  ContainerTypeOK'
    OBVIOUS
  <2>0. TypeOK' /\ MessageId \in Ids /\ MaxAttempts \in Nat
    BY ContainerAssumption DEF ColdStartInv, MessageId, Ids
  <2> USE DEF ContainerTypeOK, Stages, jobVars
  <2>1. CASE SubmitJob \/ SubmitReturns \/ SubmitRaises \/ SubmitterDies
    <3>1. job' \in BOOLEAN
      BY <2>1, Zenon DEF SubmitJob, SubmitReturns, SubmitRaises, SubmitterDies, SubmissionEnds
    <3> QED
      BY <2>0, <2>1, <3>1 DEF SubmitJob, SubmitReturns, SubmitRaises, SubmitterDies, SubmissionEnds
  <2>2. CASE StartAttempt
    <3>1. failures' \in BOOLEAN
      BY <2>2, Zenon DEF StartAttempt
    <3>2. attempts' \in 0..MaxAttempts /\ stage' \in Stages
      BY <2>0, <2>2 DEF StartAttempt
    <3>3. UNCHANGED <<kind, tracing, submission, job, exit, rows, executions, cut, quit, locked>>
      BY <2>2 DEF StartAttempt
    <3> QED
      BY <2>0, <3>1, <3>2, <3>3
  <2>3. CASE ImportHandler
    BY <2>0, <2>3 DEF ImportHandler, vars
  <2>4. CASE CallHandler
    BY <2>0, <2>4 DEF CallHandler
  <2>5. CASE RunHandler
    BY <2>0, <2>5 DEF RunHandler
  <2>6. CASE ProcessBatch
    BY <2>0, <2>6 DEF ProcessBatch
  <2>7. CASE CreateRecord
    BY <2>0, <2>7 DEF CreateRecord, vars
  <2>8. CASE EnterTask
    BY <2>0, <2>8 DEF EnterTask, vars
  <2>9. CASE RecordRaises \/ SkipDuplicate \/ LockSetupRaises \/ LockRaises \/ EndTask
    <3>1. failures' \in BOOLEAN /\ cut' \in BOOLEAN /\ locked' \in BOOLEAN
      BY <2>9, Zenon DEF RecordRaises, SkipDuplicate, LockSetupRaises, LockRaises, EndTask,
         SaveOutcome, HandlerReturns
    <3>2. rows' \in [Ids -> {"none", "RUNNING", "SUCCEEDED", "FAILED", "RETRIED"}]
      BY <2>0, <2>9 DEF RecordRaises, SkipDuplicate, LockSetupRaises, LockRaises, EndTask,
         SaveOutcome
    <3>3. /\ stage' = "flush"
          /\ UNCHANGED <<kind, tracing, submission, job, attempts, exit, executions, quit>>
      BY <2>9 DEF RecordRaises, SkipDuplicate, LockSetupRaises, LockRaises, EndTask, SaveOutcome,
         HandlerReturns
    <3> QED
      BY <2>0, <3>1, <3>2, <3>3
  <2>10. CASE NoMessage \/ TaskExits \/ Finish \/ FlushRaises \/ Kill
    <3>1. cut' \in BOOLEAN /\ quit' \in BOOLEAN
      BY <2>10, Zenon DEF NoMessage, TaskExits, Finish, FlushRaises, Kill
    <3>2. /\ stage' = "exited" /\ exit' \in {0, 1, 137}
          /\ UNCHANGED <<kind, tracing, failures, submission, job, attempts, rows, executions,
                         locked>>
      BY <2>10 DEF NoMessage, TaskExits, Finish, FlushRaises, Kill, Exit, ExitCode
    <3> QED
      BY <2>0, <3>1, <3>2
  <2>11. CASE Over \/ UNCHANGED allVars
    BY <2>0, <2>11 DEF Over, allVars, containerVars, vars
  <2> QED
    BY <2>1, <2>2, <2>3, <2>4, <2>5, <2>6, <2>7, <2>8, <2>9, <2>10, <2>11 DEF ContainerNext
<1> QED
  BY <1>1, <1>2, ContainersColdStart, PTL DEF ContainerSpec

\* ContainerInv holds however often Batch restarts the job.
THEOREM Containers == ContainerSpec => []ContainerInv
<1>1. ContainerInit => ContainerInv
  <2> SUFFICES ASSUME ContainerInit PROVE ContainerInv
    OBVIOUS
  <2>1. rows[MessageId] = "none"
    BY DEF ContainerInit, Ids, MessageId
  <2> QED
    BY <2>1 DEF ContainerInit, ContainerInv, JobInv, ExitInv, SubmissionInv, SuccessIsReported,
       Inside
<1>2. ContainerTypeOK /\ ContainerInv /\ [ContainerNext]_allVars => ContainerInv'
  <2> SUFFICES ASSUME ContainerTypeOK, ContainerInv, [ContainerNext]_allVars
               PROVE  ContainerInv'
    OBVIOUS
  <2>0. MessageId' = MessageId /\ MessageId \in Ids /\ attempts \in Nat
    BY ContainerAssumption DEF MessageId, Ids, ContainerTypeOK
  <2> USE DEF ContainerInv, ContainerTypeOK, JobInv, ExitInv, SubmissionInv, SuccessIsReported,
              Stages, Inside, jobVars
  <2>1. CASE SubmitJob \/ SubmitReturns \/ SubmitRaises \/ SubmitterDies
    BY <2>0, <2>1 DEF SubmitJob, SubmitReturns, SubmitRaises, SubmitterDies, SubmissionEnds, vars
  <2>2. CASE StartAttempt
    BY <2>0, <2>2 DEF StartAttempt
  <2>3. CASE ImportHandler
    BY <2>0, <2>3 DEF ImportHandler, vars
  <2>4. CASE CallHandler
    BY <2>0, <2>4 DEF CallHandler
  <2>5. CASE RunHandler
    BY <2>0, <2>5 DEF RunHandler
  <2>6. CASE ProcessBatch
    BY <2>0, <2>6 DEF ProcessBatch
  <2>7. CASE CreateRecord
    BY <2>0, <2>7 DEF CreateRecord, vars
  <2>8. CASE EnterTask
    BY <2>0, <2>8 DEF EnterTask, vars
  <2>9. CASE RecordRaises
    BY <2>0, <2>9 DEF RecordRaises, HandlerReturns, Return
  <2>10. CASE SkipDuplicate
    BY <2>0, <2>10 DEF SkipDuplicate, HandlerReturns, Return
  <2>11. CASE LockSetupRaises
    BY <2>0, <2>11 DEF LockSetupRaises, HandlerReturns, Return
  <2>12. CASE LockRaises
    BY <2>0, <2>12 DEF LockRaises, SaveOutcome, HandlerReturns, Return
  <2>13. CASE EndTask
    BY <2>0, <2>13 DEF EndTask, SaveOutcome, HandlerReturns, Return
  <2>14. CASE NoMessage
    BY <2>0, <2>14 DEF NoMessage, Exit, vars
  <2>15. CASE TaskExits
    BY <2>0, <2>15 DEF TaskExits, Exit, vars
  <2>16. CASE Finish
    BY <2>0, <2>16 DEF Finish, Exit, ExitCode, vars
  <2>17. CASE FlushRaises
    BY <2>0, <2>17 DEF FlushRaises, Exit, vars
  <2>18. CASE Kill
    <3>1. (cut \/ stage \in Inside => cut') /\ (cut' => cut \/ stage \in Inside)
      BY <2>18, Zenon DEF Kill, Inside
    <3> QED
      BY <2>0, <2>18, <3>1 DEF Kill, Exit, vars
  <2>19. CASE Over \/ UNCHANGED allVars
    BY <2>0, <2>19 DEF Over, allVars, containerVars, vars
  <2> QED
    BY <2>1, <2>2, <2>3, <2>4, <2>5, <2>6, <2>7, <2>8, <2>9, <2>10, <2>11, <2>12, <2>13, <2>14,
       <2>15, <2>16, <2>17, <2>18, <2>19 DEF ContainerNext
<1> QED
  BY <1>1, <1>2, ContainerTypeCorrect, PTL DEF ContainerSpec

\* However often Batch restarts the job, the task runs at most once.
THEOREM JobsRunOnce == ContainerSpec => []JobRunsOnce
<1>1. ContainerInv => JobRunsOnce
  BY DEF ContainerInv, JobInv, JobRunsOnce
<1> QED
  BY <1>1, Containers, PTL

\* Exit code 0 means a row that is settled, or one that an attempt was cut off from.
THEOREM SuccessIsEarned == ContainerSpec => []SuccessMeansRun
<1>1. ContainerTypeOK /\ ContainerInv => SuccessMeansRun
  BY DEF ContainerTypeOK, ContainerInv, JobInv, ExitInv, SuccessMeansRun, Inside
<1> QED
  BY <1>1, ContainerTypeCorrect, Containers, PTL

\* A task that Batch never ran left a trace in a record, in Batch or in its lock.
THEOREM LossesAreReported == ContainerSpec => []LossIsReported
<1>1. ContainerTypeOK /\ ContainerInv => LossIsReported
  BY ContainerAssumption DEF ContainerTypeOK, ContainerInv, JobInv, ExitInv, SubmissionInv,
     LossIsReported, Ended, Inside
<1> QED
  BY <1>1, ContainerTypeCorrect, Containers, PTL

\* A first attempt that recorded SUCCEEDED fails only by a kill, in flush_tracing(), or by
\* losing the answer to its save.
THEOREM SuccessesAreReported == ContainerSpec => []SuccessIsReported
<1>1. ContainerInv => SuccessIsReported
  BY DEF ContainerInv, ExitInv
<1> QED
  BY <1>1, Containers, PTL
=============================================================================
