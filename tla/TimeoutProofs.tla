---------------------------- MODULE TimeoutProofs ----------------------------
(***************************************************************************)
(* Proofs about TimeoutContext, for all limits, alarms from before and     *)
(* lengths of a run, and about its composition with the singleton lock.    *)
(***************************************************************************)
EXTENDS SingletonTimeout, TLAPS

\* Every reachable state of the context is well typed.
THEOREM ContextTypeCorrect == Spec => []TypeOK
<1> USE DEF TypeOK, PCs, configVars, histVars
<1>1. Init => TypeOK
  <2> SUFFICES ASSUME Init PROVE TypeOK
    OBVIOUS
  <2>1. <<soft, hard>> \in Limits
    BY TimeoutAssumption DEF Init
  <2>2. eager \in BOOLEAN /\ pending \in BOOLEAN /\ inHardPhase \in BOOLEAN
    BY DEF Init
  <2>3. swallowed \in BOOLEAN /\ window \in BOOLEAN /\ rung \in BOOLEAN
    BY DEF Init
  <2>4. outer \in OuterAlarms /\ outer \in Nat /\ alarm = outer
    BY TimeoutAssumption DEF Init
  <2>5. elapsed \in 0..MaxElapsed /\ softAt \in -1..MaxElapsed /\ hardAt \in -1..MaxElapsed
    BY TimeoutAssumption DEF Init
  <2> QED
    BY <2>1, <2>2, <2>3, <2>4, <2>5 DEF Init
<1>2. TypeOK /\ [Next]_vars => TypeOK'
  <2> SUFFICES ASSUME TypeOK, [Next]_vars PROVE TypeOK'
    OBVIOUS
  <2>1. soft \in Nat /\ hard \in Nat /\ 0 < soft /\ soft < hard /\ hard <= MaxElapsed
    BY TimeoutAssumption
  <2>2. CASE Tick
    BY <2>2, TimeoutAssumption DEF Tick
  <2>3. CASE Enter
    BY <2>1, <2>3 DEF Enter, InstallHandler, ArmSoft, EnterEager
  <2>4. ASSUME NEW e \in {"none", "task"}, BodyEnds(e) PROVE TypeOK'
    BY <2>4 DEF BodyEnds
  <2>5. CASE Exit
    <3>1. CASE CancelAlarm
      BY <3>1 DEF CancelAlarm
    <3>2. CASE RestoreHandler
      BY <3>2 DEF RestoreHandler
    <3>3. CASE RestoreAlarm
      BY <3>3 DEF RestoreAlarm
    <3> QED
      BY <2>5, <3>1, <3>2, <3>3 DEF Exit
  <2>6. CASE PreviousHandler
    <3>1. rung' \in BOOLEAN
      BY <2>6, Zenon DEF PreviousHandler
    <3> QED
      BY <2>6, <3>1 DEF PreviousHandler
  <2>7. CASE SoftLimit
    <3>1. alarm' \in Nat
      BY <2>1, <2>7 DEF SoftLimit, HardWindow
    <3>2. swallowed' \in BOOLEAN /\ window' \in BOOLEAN
      BY <2>7, Zenon DEF SoftLimit, Surface
    <3>3. pc' \in PCs /\ exc' \in {"none", "task", "soft", "hard"}
      BY <2>7 DEF SoftLimit, Surface
    <3>4. softAt' \in -1..MaxElapsed
      BY <2>1, <2>7 DEF SoftLimit
    <3>5. pending' \in BOOLEAN /\ inHardPhase' \in BOOLEAN
      BY <2>7, Zenon DEF SoftLimit
    <3>6. UNCHANGED <<configVars, disposition, previousAlarm, elapsed, hardAt, rung>>
      BY <2>7 DEF SoftLimit
    <3> QED
      BY <3>1, <3>2, <3>3, <3>4, <3>5, <3>6
  <2>8. CASE HardLimit
    <3>1. swallowed' \in BOOLEAN /\ window' \in BOOLEAN
      BY <2>8, Zenon DEF HardLimit, Surface
    <3>2. pc' \in PCs /\ exc' \in {"none", "task", "soft", "hard"}
      BY <2>8 DEF HardLimit, Surface
    <3>3. hardAt' \in -1..MaxElapsed
      BY <2>1, <2>8 DEF HardLimit
    <3>4. pending' \in BOOLEAN
      BY <2>8, Zenon DEF HardLimit
    <3>5. UNCHANGED <<configVars, alarm, disposition, inHardPhase, previousAlarm, elapsed,
                      softAt, rung>>
      BY <2>8 DEF HardLimit
    <3> QED
      BY <3>1, <3>2, <3>3, <3>4, <3>5
  <2>9. CASE UNCHANGED vars
    BY <2>9 DEF vars
  <2> QED
    BY <2>2, <2>3, <2>4, <2>5, <2>6, <2>7, <2>8, <2>9 DEF Next, Handler
<1> QED
  BY <1>1, <1>2, PTL DEF Spec

(***************************************************************************)
(* ContextInv.  HandlerInv says whose handler is installed where the main  *)
(* thread is, and that the second phase arms the alarm for the last time.  *)
(* ClockInv relates the alarm to the seconds since the soft timeout was    *)
(* armed, when no alarm from before was taken for it: in each phase an     *)
(* armed alarm runs out at the end of that phase, and a signal is pending  *)
(* only after it.  The stopwatch stops at MaxElapsed, which a window that  *)
(* was opened late may exceed.                                             *)
(***************************************************************************)
HandlerInv ==
    /\ eager => pc \in {"before", "body", "done"} /\ disposition = "previous" /\ ~window
                /\ ~inHardPhase
    /\ ~eager /\ pc \in {"enter", "body", "exit", "cancelled"} => disposition = "context"
    /\ pc \in {"before", "restored"} => disposition = "previous"
    /\ pc \in {"cancelled", "restored"} => alarm = 0
    /\ pc \in {"before", "enter"} => ~inHardPhase /\ previousAlarm = 0 /\ elapsed = 0
    /\ inHardPhase <=> softAt # -1
    /\ hardAt # -1 \/ swallowed => inHardPhase
    /\ disposition = "context" /\ inHardPhase =>
          /\ alarm <= HardWindow
          /\ pending \/ hardAt # -1 => alarm = 0
          /\ hardAt # -1 => ~pending
    /\ pc = "done" /\ disposition = "context" => window /\ inHardPhase
    /\ ExitRestores

Armed(end) ==
    \/ elapsed + alarm = end
    \/ elapsed = MaxElapsed /\ end > MaxElapsed

\* the alarm, if there is one, is the context's own
Counting == Undisturbed /\ disposition = "context" /\ pc # "enter"

ClockInv ==
    /\ outer = 0 =>
          /\ previousAlarm = 0
          /\ eager \/ pc \in {"before", "enter"} => alarm = 0 /\ ~pending
    /\ pc \in {"before", "enter"} /\ pending => alarm = 0
    /\ Undisturbed =>
          /\ inHardPhase => softAt >= soft
          /\ hardAt # -1 => hardAt >= hard
    /\ Counting =>
          /\ pending => alarm = 0
          /\ pc = "body" => alarm > 0 \/ pending \/ swallowed
          /\ ~inHardPhase => /\ alarm > 0 => elapsed + alarm = soft
                             /\ pending => elapsed >= soft
          /\ inHardPhase => /\ alarm > 0 => Armed(softAt + hard - soft)
                            /\ pending => elapsed >= hard

ContextInv == HandlerInv /\ ClockInv

\* ContextInv holds wherever the signal finds the main thread.
THEOREM Contexts == Spec => []ContextInv
<1> USE DEF TypeOK, PCs, configVars, histVars, ContextInv, HandlerInv, ClockInv, ExitRestores,
            Undisturbed, Counting
<1>1. Init => ContextInv
  BY DEF Init
<1>2. TypeOK /\ ContextInv /\ [Next]_vars => ContextInv'
  <2> SUFFICES ASSUME TypeOK, ContextInv, [Next]_vars PROVE ContextInv'
    OBVIOUS
  <2>1. /\ soft \in Nat /\ hard \in Nat /\ 0 < soft /\ soft < hard /\ hard <= MaxElapsed
        /\ MaxElapsed \in Nat
    BY TimeoutAssumption
  <2>2. HardWindow = hard - soft
    BY <2>1 DEF HardWindow
  <2>3. CASE Tick
    <3> DEFINE counts == pc \notin {"before", "enter"}
    <3>1. /\ alarm > 0 => alarm' = alarm - 1
          /\ alarm = 0 => alarm' = 0
          /\ counts /\ elapsed < MaxElapsed => elapsed' = elapsed + 1
          /\ ~counts \/ elapsed = MaxElapsed => elapsed' = elapsed
          /\ alarm \in Nat /\ elapsed \in Nat /\ elapsed <= MaxElapsed
          /\ UNCHANGED <<configVars, disposition, inHardPhase, previousAlarm, pc, exc, histVars>>
      BY <2>1, <2>3 DEF Tick
    <3>2. pending' <=> pending \/ alarm = 1
      BY <2>3, Zenon DEF Tick
    <3>3. HandlerInv'
      BY <2>1, <2>2, <3>1, <3>2 DEF HardWindow
    <3>4. /\ outer = 0 =>
              previousAlarm = 0 /\ (eager \/ pc \in {"before", "enter"} => alarm' = 0 /\ ~pending')
          /\ pc \in {"before", "enter"} /\ pending' => alarm' = 0
      BY <3>1, <3>2
    <3>5. ASSUME Counting, ~inHardPhase PROVE ClockInv'
      <4>1. CASE alarm = 0
        BY <2>1, <3>1, <3>2, <3>4, <3>5, <4>1
      <4>2. CASE alarm > 0
        <5>1. counts /\ elapsed + alarm = soft /\ elapsed' = elapsed + 1
          BY <2>1, <3>1, <3>5, <4>2
        <5> QED
          BY <2>1, <3>1, <3>2, <3>4, <3>5, <4>2, <5>1
      <4> QED
        BY <3>1, <4>1, <4>2
    <3>6. ASSUME Counting, inHardPhase PROVE ClockInv'
      <4>1. counts /\ softAt \in Nat /\ softAt >= soft
        BY <2>1, <3>6
      <4>2. CASE alarm = 0
        BY <2>1, <3>1, <3>2, <3>4, <3>6, <4>1, <4>2
      <4>3. CASE alarm > 0
        <5>1. ~pending /\ Armed(softAt + hard - soft)
          BY <3>6, <4>3
        <5>2. alarm = 1 => elapsed' >= hard
          BY <2>1, <3>1, <4>1, <5>1 DEF Armed
        <5>3. alarm' > 0 => Armed(softAt + hard - soft)'
          BY <2>1, <3>1, <4>1, <4>3, <5>1 DEF Armed
        <5> QED
          BY <2>1, <3>1, <3>2, <3>4, <3>6, <4>1, <4>3, <5>1, <5>2, <5>3
      <4> QED
        BY <3>1, <4>2, <4>3
    <3>7. ASSUME ~Counting PROVE ClockInv'
      BY <3>1, <3>4, <3>7
    <3> QED
      BY <3>3, <3>5, <3>6, <3>7
  <2>4. CASE Enter
    <3>1. CASE InstallHandler
      BY <2>1, <3>1 DEF InstallHandler
    <3>2. CASE ArmSoft
      BY <2>1, <3>2 DEF ArmSoft
    <3>3. CASE EnterEager
      BY <2>1, <3>3 DEF EnterEager
    <3> QED
      BY <2>4, <3>1, <3>2, <3>3 DEF Enter
  <2>5. ASSUME NEW e \in {"none", "task"}, BodyEnds(e) PROVE ContextInv'
    BY <2>5 DEF BodyEnds, Armed, HardWindow
  <2>6. CASE Exit
    <3>1. CASE CancelAlarm
      BY <2>1, <2>2, <3>1 DEF CancelAlarm, Armed, HardWindow
    <3>2. CASE RestoreHandler
      BY <2>1, <3>2 DEF RestoreHandler
    <3>3. CASE RestoreAlarm
      BY <2>1, <3>3 DEF RestoreAlarm
    <3> QED
      BY <2>6, <3>1, <3>2, <3>3 DEF Exit
  <2>7. CASE PreviousHandler
    <3>1. rung \/ pc = "done" => rung'
      BY <2>7, Zenon DEF PreviousHandler
    <3> QED
      BY <2>7, <3>1 DEF PreviousHandler
  <2>8. CASE SoftLimit
    <3>1. /\ hardAt = -1 /\ alarm' = HardWindow /\ HardWindow' = HardWindow
          /\ ~pending' /\ inHardPhase' /\ softAt' = elapsed
          /\ UNCHANGED <<configVars, disposition, previousAlarm, elapsed, hardAt, rung>>
      BY <2>8 DEF SoftLimit, HardWindow
    <3>2. HandlerInv'
      BY <2>1, <2>2, <2>8, <3>1 DEF SoftLimit, Surface
    <3>3. ClockInv'
      BY <2>1, <2>2, <2>8, <3>1 DEF SoftLimit, Surface, Armed
    <3> QED
      BY <3>2, <3>3
  <2>9. CASE HardLimit
    <3>1. HandlerInv'
      BY <2>1, <2>2, <2>9 DEF HardLimit, Surface, HardWindow
    <3>2. ClockInv'
      BY <2>1, <2>9 DEF HardLimit, Surface, Armed
    <3> QED
      BY <3>1, <3>2
  <2>10. CASE UNCHANGED vars
    BY <2>10 DEF vars, Armed, HardWindow
  <2> QED
    BY <2>3, <2>4, <2>5, <2>6, <2>7, <2>8, <2>9, <2>10 DEF Next, Handler
<1> HIDE DEF TypeOK, ContextInv
<1> QED
  BY <1>1, <1>2, ContextTypeCorrect, PTL DEF Spec

\* No limit is raised before its time.
THEOREM LimitsInTime == Spec => []LimitsNotEarly
<1>1. TypeOK /\ ContextInv => LimitsNotEarly
  BY DEF TypeOK, ContextInv, HandlerInv, ClockInv, LimitsNotEarly, Undisturbed
<1> QED
  BY <1>1, ContextTypeCorrect, Contexts, PTL

\* A limit handled when due leaves the task no more than its hard timeout.
THEOREM HardLimitKept == Spec => []HardLimitArmed
<1>1. TypeOK /\ ContextInv => HardLimitArmed
  BY TimeoutAssumption DEF TypeOK, ContextInv, HandlerInv, ClockInv, Armed, Counting,
     Undisturbed, HardLimitArmed
<1> QED
  BY <1>1, ContextTypeCorrect, Contexts, PTL

\* Leaving the context reinstates what it found.
THEOREM ContextRestores == Spec => []ExitRestores
<1>1. ContextInv => ExitRestores
  BY DEF ContextInv, HandlerInv
<1> QED
  BY <1>1, Contexts, PTL

\* A limit that outlives the context is the hard one, once, within its window.
THEOREM StrayLimits == Spec => []StrayLimitIsLast
<1>1. TypeOK /\ ContextInv => StrayLimitIsLast
  BY DEF TypeOK, ContextInv, HandlerInv, StrayLimitIsLast
<1> QED
  BY <1>1, ContextTypeCorrect, Contexts, PTL

(***************************************************************************)
(* The composition.  Every step of SingletonTimeout is a step of the       *)
(* context or leaves it alone, so what is proved of the context holds in   *)
(* it.  LockInv relates the two clocks: the key of the lock expires hard   *)
(* seconds after it was set, and what of them the context has not counted  *)
(* is the lead.                                                            *)
(***************************************************************************)
LockInv ==
    /\ singleton = "none" => ~other
    /\ stage = "lock" => pc = "before" /\ lead = 0 /\ ttl = 0
    /\ pc \notin {"before", "done"} => stage = "inside"
    /\ stage = "inside" /\ singleton # "none" =>
          IF ttl > 0 THEN ~other /\ lead + elapsed + ttl = hard
          ELSE lead + elapsed >= hard

\* The context behaves inside execute_immediately() as it does on its own.
THEOREM CompositionIsContext == SingletonSpec => Spec
<1>1. SingletonInit => Init
  BY DEF SingletonInit
<1>2. [SingletonNext]_allVars => [Next]_vars
  BY DEF SingletonNext, allVars, Acquire, AcquireFails, Second, InContext, Interrupted,
     LeaveAtomic, Release, Record, OtherWorker, Next
<1> QED
  BY <1>1, <1>2, PTL DEF SingletonSpec, Spec

\* What the context guarantees holds under the singleton lock as well.
THEOREM LimitsUnderLock ==
    SingletonSpec => [](LimitsNotEarly /\ HardLimitArmed /\ ExitRestores /\ StrayLimitIsLast)
BY CompositionIsContext, LimitsInTime, HardLimitKept, ContextRestores, StrayLimits, PTL

\* Every reachable state of the composition is well typed; the time to live of the key
\* stays within the hard timeout.
THEOREM SingletonTypeCorrect == SingletonSpec => []SingletonTypeOK
<1>1. SingletonInit /\ TypeOK => SingletonTypeOK
  BY TimeoutAssumption DEF SingletonInit, SingletonTypeOK, TypeOK
<1>2. TypeOK /\ TypeOK' /\ SingletonTypeOK /\ [SingletonNext]_allVars => SingletonTypeOK'
  <2> SUFFICES ASSUME TypeOK, TypeOK', SingletonTypeOK, [SingletonNext]_allVars
               PROVE  SingletonTypeOK'
    OBVIOUS
  <2>1. hard \in Nat /\ MaxElapsed \in Nat
    BY TimeoutAssumption DEF TypeOK
  <2> USE DEF SingletonTypeOK, lockVars
  <2>2. CASE Acquire
    BY <2>1, <2>2 DEF Acquire, LockTimeout, vars, configVars
  <2>3. CASE AcquireFails
    BY <2>1, <2>3 DEF AcquireFails, vars, configVars
  <2>4. CASE Second
    BY <2>1, <2>4 DEF Second, Tick, configVars
  <2>5. CASE InContext
    <3>1. hard' = hard
      BY <2>5 DEF InContext, Enter, InstallHandler, ArmSoft, EnterEager, BodyEnds, Exit,
         CancelAlarm, RestoreHandler, RestoreAlarm, configVars
    <3> QED
      BY <2>5, <3>1 DEF InContext
  <2>6. CASE Interrupted
    <3>1. hard' = hard /\ exc' \in {"none", "task", "soft", "hard"}
      BY <2>6 DEF Interrupted, Handler, PreviousHandler, SoftLimit, HardLimit, configVars, TypeOK
    <3> QED
      BY <2>6, <3>1 DEF Interrupted
  <2>7. CASE LeaveAtomic
    BY <2>1, <2>7 DEF LeaveAtomic, vars, configVars, TypeOK
  <2>8. CASE Release
    BY <2>1, <2>8 DEF Release, vars, configVars
  <2>9. CASE Record
    <3>1. status' \in {"RUNNING", "SUCCEEDED", "FAILED", "RETRIED"}
      BY <2>9 DEF Record
    <3> QED
      BY <2>9, <3>1 DEF Record, vars, configVars
  <2>10. CASE OtherWorker
    BY <2>10 DEF OtherWorker, vars, configVars
  <2>11. CASE UNCHANGED allVars
    BY <2>11 DEF allVars, vars, configVars
  <2> QED
    BY <2>2, <2>3, <2>4, <2>5, <2>6, <2>7, <2>8, <2>9, <2>10, <2>11 DEF SingletonNext
<1> QED
  BY <1>1, <1>2, CompositionIsContext, ContextTypeCorrect, PTL DEF SingletonSpec

\* LockInv holds whatever the task, the signals and the other worker do.
THEOREM Locks == SingletonSpec => []LockInv
<1>1. SingletonInit => LockInv
  BY DEF SingletonInit, Init, LockInv
<1>2. SingletonTypeOK /\ ContextInv /\ LockInv /\ [SingletonNext]_allVars => LockInv'
  <2> SUFFICES ASSUME SingletonTypeOK, ContextInv, LockInv, [SingletonNext]_allVars
               PROVE  LockInv'
    OBVIOUS
  <2>1. hard \in Nat /\ MaxElapsed \in Nat /\ hard <= MaxElapsed
    BY TimeoutAssumption DEF SingletonTypeOK, TypeOK
  <2>2. pc \in {"before", "enter"} => elapsed = 0
    BY DEF ContextInv, HandlerInv
  <2> USE DEF LockInv, SingletonTypeOK, TypeOK, PCs, lockVars
  <2>3. CASE Acquire
    BY <2>1, <2>2, <2>3 DEF Acquire, LockTimeout, vars, configVars
  <2>4. CASE AcquireFails
    BY <2>4 DEF AcquireFails, vars, configVars
  <2>5. CASE Second
    BY <2>1, <2>5 DEF Second, Tick, configVars
  <2>6. CASE InContext
    <3>1. hard' = hard /\ elapsed' = elapsed /\ stage = "inside"
      BY <2>6 DEF InContext, Enter, InstallHandler, ArmSoft, EnterEager, BodyEnds, Exit,
         CancelAlarm, RestoreHandler, RestoreAlarm, configVars
    <3> QED
      BY <2>6, <3>1 DEF InContext
  <2>7. CASE Interrupted
    <3>1. hard' = hard /\ elapsed' = elapsed
      BY <2>7 DEF Interrupted, Handler, PreviousHandler, SoftLimit, HardLimit, configVars
    <3>2. pc' = pc \/ (pc \notin {"before", "done"} /\ pc' \in {"exit", "done"})
      BY <2>7 DEF Interrupted, Handler, PreviousHandler, SoftLimit, HardLimit, Surface
    <3> QED
      BY <2>7, <3>1, <3>2 DEF Interrupted
  <2>8. CASE LeaveAtomic
    BY <2>8 DEF LeaveAtomic, vars, configVars
  <2>9. CASE Release
    BY <2>9 DEF Release, vars, configVars
  <2>10. CASE Record
    BY <2>10 DEF Record, vars, configVars
  <2>11. CASE OtherWorker
    BY <2>11 DEF OtherWorker, vars, configVars
  <2>12. CASE UNCHANGED allVars
    BY <2>12 DEF allVars, vars, configVars
  <2> QED
    BY <2>3, <2>4, <2>5, <2>6, <2>7, <2>8, <2>9, <2>10, <2>11, <2>12 DEF SingletonNext
<1> QED
  BY <1>1, <1>2, CompositionIsContext, Contexts, SingletonTypeCorrect, PTL DEF SingletonSpec

\* Two workers overlap in a singleton for no longer than the lead of the first.
THEOREM OverlapIsBounded == SingletonSpec => []OverlapBounded
<1>1. SingletonTypeOK /\ ContextInv /\ LockInv => OverlapBounded
  <2> SUFFICES ASSUME SingletonTypeOK, ContextInv, LockInv, pc = "body", other, ~eager, Undisturbed,
                      ~swallowed, ~pending, softAt \in {-1, soft}
               PROVE  (IF inHardPhase THEN alarm ELSE alarm + HardWindow) <= lead
    BY DEF OverlapBounded
  <2>1. /\ soft \in Nat /\ hard \in Nat /\ 0 < soft /\ soft < hard /\ hard <= MaxElapsed
        /\ MaxElapsed \in Nat
    BY TimeoutAssumption DEF SingletonTypeOK, TypeOK
  <2>2. lead + elapsed >= hard
    BY DEF LockInv, SingletonTypeOK
  <2>3. alarm > 0 /\ HardWindow = hard - soft
    BY <2>1 DEF ContextInv, HandlerInv, ClockInv, Counting, HardWindow
  <2>4. IF inHardPhase THEN elapsed + alarm = hard ELSE elapsed + alarm = soft
    BY <2>1, <2>3 DEF ContextInv, HandlerInv, ClockInv, Counting, Armed, SingletonTypeOK, TypeOK
  <2>5. lead \in Int /\ elapsed \in Int /\ alarm \in Int
    BY DEF SingletonTypeOK, TypeOK
  <2> QED
    BY <2>1, <2>2, <2>3, <2>4, <2>5
<1> QED
  BY <1>1, CompositionIsContext, Contexts, SingletonTypeCorrect, Locks, PTL
=============================================================================
