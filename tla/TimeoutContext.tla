--------------------------- MODULE TimeoutContext ---------------------------
(***************************************************************************)
(* The SIGALRM protocol of TimeoutContext.  The process has one alarm and  *)
(* one Python-level handler for SIGALRM.  An alarm that runs out makes the *)
(* signal pending; the interpreter runs the handler between two bytecodes  *)
(* of the main thread, at once or after a blocking call, wherever the      *)
(* thread is then: in the task, in __enter__, in __exit__, or beyond.      *)
(***************************************************************************)
EXTENDS Integers

CONSTANTS
    Limits,      \* the (soft, hard) pairs of resolved_timeouts
    OuterAlarms, \* seconds left on an alarm that was armed before, 0 for none
    MaxElapsed   \* bound: the stopwatch of the context stops here

ASSUME TimeoutAssumption ==
    /\ Limits \subseteq {l \in Nat \X Nat : 0 < l[1] /\ l[1] < l[2]}
    /\ OuterAlarms \subseteq Nat
    /\ MaxElapsed \in Nat
    /\ \A l \in Limits : l[2] <= MaxElapsed

VARIABLES
    soft, hard,      \* soft_timeout and hard_timeout
    eager,           \* LAMBDA_TASKS_EAGER
    outer,           \* the alarm that was armed before
    alarm,           \* seconds until SIGALRM, 0 if no alarm is armed
    pending,         \* SIGALRM arrived and its handler has not run
    disposition,     \* whose handler is installed: "previous" or "context"
    inHardPhase,     \* _in_hard_phase
    previousAlarm,   \* _previous_alarm
    pc,
    exc,             \* what left the task or the context
    elapsed,         \* history: seconds since the soft timeout was armed
    softAt, hardAt,  \* history: elapsed when a limit was raised, -1 before
    swallowed,       \* history: the task caught HardTimeLimitExceeded
    window,          \* history: a limit was raised in __enter__ or __exit__
    rung             \* history: the previous handler ran after the context was left

configVars == <<soft, hard, eager, outer>>
histVars == <<softAt, hardAt, swallowed, window, rung>>
vars == <<configVars, alarm, pending, disposition, inHardPhase, previousAlarm, pc, exc,
          elapsed, histVars>>

PCs == {"before", "enter", "body", "exit", "cancelled", "restored", "done"}

TypeOK ==
    /\ <<soft, hard>> \in Limits
    /\ eager \in BOOLEAN
    /\ outer \in OuterAlarms
    /\ alarm \in Nat
    /\ pending \in BOOLEAN
    /\ disposition \in {"previous", "context"}
    /\ inHardPhase \in BOOLEAN
    /\ previousAlarm \in Nat
    /\ pc \in PCs
    /\ exc \in {"none", "task", "soft", "hard"}
    /\ elapsed \in 0..MaxElapsed
    /\ softAt \in -1..MaxElapsed
    /\ hardAt \in -1..MaxElapsed
    /\ swallowed \in BOOLEAN
    /\ window \in BOOLEAN
    /\ rung \in BOOLEAN

Init ==
    /\ \E l \in Limits : soft = l[1] /\ hard = l[2]
    /\ eager \in BOOLEAN
    /\ outer \in OuterAlarms
    /\ alarm = outer
    /\ pending = FALSE
    /\ disposition = "previous"
    /\ inHardPhase = FALSE
    /\ previousAlarm = 0
    /\ pc = "before"
    /\ exc = "none"
    /\ elapsed = 0
    /\ softAt = -1 /\ hardAt = -1
    /\ swallowed = FALSE /\ window = FALSE /\ rung = FALSE

\* One second passes.
Tick ==
    /\ alarm' = IF alarm > 0 THEN alarm - 1 ELSE 0
    /\ pending' = (pending \/ alarm = 1)
    /\ elapsed' = IF pc \in {"before", "enter"} \/ elapsed = MaxElapsed
                  THEN elapsed ELSE elapsed + 1
    /\ UNCHANGED <<configVars, disposition, inHardPhase, previousAlarm, pc, exc, histVars>>

(* __enter__ and __exit__; signal.signal() runs a pending handler first *)
InstallHandler ==
    /\ pc = "before" /\ ~eager /\ ~pending
    /\ disposition' = "context"
    /\ inHardPhase' = FALSE
    /\ pc' = "enter"
    /\ UNCHANGED <<configVars, alarm, pending, previousAlarm, exc, elapsed, histVars>>

ArmSoft ==
    /\ pc = "enter"
    /\ previousAlarm' = alarm
    /\ alarm' = soft
    /\ pc' = "body"
    /\ UNCHANGED <<configVars, pending, disposition, inHardPhase, exc, elapsed, histVars>>

EnterEager ==
    /\ pc = "before" /\ eager
    /\ pc' = "body"
    /\ UNCHANGED <<configVars, alarm, pending, disposition, inHardPhase, previousAlarm, exc,
                   elapsed, histVars>>

BodyEnds(e) ==
    /\ pc = "body"
    /\ exc' = e
    /\ pc' = IF eager THEN "done" ELSE "exit"
    /\ UNCHANGED <<configVars, alarm, pending, disposition, inHardPhase, previousAlarm,
                   elapsed, histVars>>

CancelAlarm ==
    /\ pc = "exit"
    /\ alarm' = 0
    /\ pc' = "cancelled"
    /\ UNCHANGED <<configVars, pending, disposition, inHardPhase, previousAlarm, exc, elapsed,
                   histVars>>

RestoreHandler ==
    /\ pc = "cancelled" /\ ~pending
    /\ disposition' = "previous"
    /\ pc' = "restored"
    /\ UNCHANGED <<configVars, alarm, pending, inHardPhase, previousAlarm, exc, elapsed, histVars>>

\* mutant: the saved alarm is forgotten
RestoreNothing ==
    /\ pc = "restored"
    /\ pc' = "done"
    /\ UNCHANGED <<configVars, alarm, pending, disposition, inHardPhase, previousAlarm, exc,
                   elapsed, histVars>>
RestoreAlarm ==
    /\ pc = "restored"
    /\ alarm' = IF previousAlarm > 0 THEN previousAlarm ELSE alarm
    /\ pc' = "done"
    /\ UNCHANGED <<configVars, pending, disposition, inHardPhase, previousAlarm, exc, elapsed,
                   histVars>>

(* the signal handlers *)
\* the handler that was installed before runs, whatever it does
PreviousHandler ==
    /\ pending /\ disposition = "previous"
    /\ pending' = FALSE
    /\ rung' = (rung \/ pc = "done")
    /\ UNCHANGED <<configVars, alarm, disposition, inHardPhase, previousAlarm, pc, exc, elapsed,
                   softAt, hardAt, swallowed, window>>

\* An exception raised by the handler surfaces where the thread is.  The task may
\* catch it; __enter__ that raises is not followed by __exit__; an exception in
\* __exit__ skips the rest of it.
Surface(e) ==
    \/ pc = "body" /\ pc' = "exit" /\ exc' = e /\ UNCHANGED <<swallowed, window>>
    \/ pc = "body" /\ UNCHANGED <<pc, exc, window>> /\ swallowed' = (swallowed \/ e = "hard")
    \/ pc \in {"enter", "exit", "cancelled"} /\ pc' = "done" /\ exc' = e
       /\ window' = TRUE /\ UNCHANGED swallowed
    \/ pc = "done" /\ exc' = e /\ UNCHANGED <<pc, swallowed, window>>

\* mutant: the hard window is not shortened by the soft one
FullHardWindow == hard
\* mutant: the second phase begins at once
NoHardWindow == 1
\* mutant: the alarm is not armed again
NoSecondAlarm == 0
HardWindow == IF hard - soft > 1 THEN hard - soft ELSE 1

\* mutant: the handler does not note the second phase
SoftLimitForgets ==
    /\ pending /\ disposition = "context" /\ ~inHardPhase
    /\ pending' = FALSE
    /\ alarm' = HardWindow
    /\ softAt' = elapsed
    /\ Surface("soft")
    /\ UNCHANGED <<configVars, disposition, inHardPhase, previousAlarm, elapsed, hardAt, rung>>
SoftLimit ==
    /\ pending /\ disposition = "context" /\ ~inHardPhase
    /\ pending' = FALSE
    /\ inHardPhase' = TRUE
    /\ alarm' = HardWindow
    /\ softAt' = elapsed
    /\ Surface("soft")
    /\ UNCHANGED <<configVars, disposition, previousAlarm, elapsed, hardAt, rung>>

HardLimit ==
    /\ pending /\ disposition = "context" /\ inHardPhase
    /\ pending' = FALSE
    /\ hardAt' = elapsed
    /\ Surface("hard")
    /\ UNCHANGED <<configVars, alarm, disposition, inHardPhase, previousAlarm, elapsed, softAt, rung>>

\* What the main thread does, and the handlers that interrupt it.
Enter == InstallHandler \/ ArmSoft \/ EnterEager
Exit == CancelAlarm \/ RestoreHandler \/ RestoreAlarm
Handler == PreviousHandler \/ SoftLimit \/ HardLimit

Next ==
    \/ Tick
    \/ Enter
    \/ \E e \in {"none", "task"} : BodyEnds(e)
    \/ Exit
    \/ Handler

Spec == Init /\ [][Next]_vars

(***************************************************************************)
(* Safety.                                                                 *)
(***************************************************************************)
\* No alarm from before is taken for one of the context: there was none, or it was
\* still running when the soft timeout was armed, and its rest was saved.
Undisturbed == outer = 0 \/ previousAlarm > 0

\* No limit is raised before its time, and the hard limit gives the task the whole
\* window after the soft one, unless an alarm from before ran out between installing
\* the handler and arming the soft timeout.
LimitsNotEarly ==
    Undisturbed =>
        /\ softAt # -1 => softAt >= soft
        /\ hardAt # -1 => softAt # -1 /\ hardAt >= hard

\* A limit that is handled when it is due stops the task in time: while the signal
\* was never late, the task is inside the context no longer than its hard limit.
HardLimitArmed ==
    pc = "body" /\ ~eager /\ Undisturbed /\ ~swallowed /\ (softAt \in {-1, soft}) /\ ~pending
        => elapsed + alarm <= hard /\ alarm > 0

\* Leaving the context, normally or with an exception of the task, a limit included,
\* reinstalls the handler and the alarm it found: no alarm is left if none was found,
\* and otherwise the saved one runs, or has run out.  The exception is a limit raised
\* inside __enter__ or __exit__ themselves.
ExitRestores ==
    pc = "done" /\ ~window =>
        /\ disposition = "previous"
        /\ ~eager /\ previousAlarm = 0 => alarm = 0
        /\ ~eager /\ previousAlarm > 0 => alarm \in 1..previousAlarm \/ pending \/ rung

\* The context leaves its handler installed only when one of its limits was raised
\* inside __enter__ or __exit__, and then at most one more exception comes of it: the
\* hard limit, within its window.
StrayLimitIsLast ==
    pc = "done" /\ disposition = "context" =>
        /\ window
        /\ alarm > 0 \/ pending => inHardPhase /\ hardAt = -1 /\ alarm <= HardWindow

(***************************************************************************)
(* Liveness.                                                               *)
(***************************************************************************)
\* A task that does not catch HardTimeLimitExceeded leaves the context.
HungTaskIsStopped == (pc = "body" /\ ~eager) ~> (pc # "body" \/ swallowed)

\* An alarm that was armed before the context is not lost: it still comes once the
\* task is over, late by the seconds the task took (__exit__ arms it anew with what
\* it had left on entry).
OuterAlarmComes == (pc = "done" /\ previousAlarm > 0 /\ ~window) ~> rung
=============================================================================
