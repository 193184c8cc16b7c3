----------------------------- MODULE TaskKwargs -----------------------------
(***************************************************************************)
(* The keyword arguments of an invocation on their way through TaskConfig: *)
(* checked by the strict _kwargs_model when the task is enqueued, turned   *)
(* into JSON on every route but the eager one, and checked by the same     *)
(* model when the worker calls the task.  Also what the deployment check   *)
(* says of the settings.                                                   *)
(***************************************************************************)
EXTENDS TaskConfig

\* Kinds of values.  Two that JSON has ("number", "text"); one that becomes text (a
\* datetime, a UUID); one that JSON cannot hold at all.
Kinds == {"number", "text", "datetime", "opaque"}

VARIABLES
    annotation,  \* of the parameter: a kind, or "any"
    value,       \* what the caller passed
    kwarg,       \* what the message holds
    outcome      \* "none", "rejected", "unserializable", "called" or "invalid"

kwargsVars == <<annotation, value, kwarg, outcome>>
allVars == <<vars, kwargsVars>>

KwargsTypeOK ==
    /\ TypeOK
    /\ annotation \in Kinds \cup {"any"}
    /\ value \in Kinds /\ kwarg \in Kinds
    /\ outcome \in {"none", "rejected", "unserializable", "called", "invalid"}

KwargsInit ==
    /\ Init
    /\ annotation \in Kinds \cup {"any"}
    /\ value \in Kinds
    /\ kwarg = value
    /\ outcome = "none"

\* _kwargs_model: strict, nothing is coerced
ModelAccepts(kind) == annotation \in {kind, "any"}

\* mutant: the arguments are not validated when the task is enqueued
AcceptsAny(kind) == TRUE
\* _build_task
EnqueueAccepts(kind) == ModelAccepts(kind)

\* model_dump_json() and back
Json(kind) == IF kind = "datetime" THEN "text" ELSE kind

RejectKwargs ==
    /\ pc = "registered" /\ outcome = "none"
    /\ ~EnqueueAccepts(value)
    /\ outcome' = "rejected"
    /\ UNCHANGED <<vars, annotation, value, kwarg>>

\* What the route does to the message; the eager one dumps the kwargs too, for the row.
Transport ==
    /\ kwarg' = IF pc' \in {"local", "sqs", "batch"} THEN Json(kwarg) ELSE kwarg
    /\ outcome' = IF pc' \in {"local", "sqs", "batch", "eager"} /\ kwarg = "opaque"
                  THEN "unserializable" ELSE "none"
    /\ UNCHANGED <<annotation, value>>

EnqueueCall(d) ==
    /\ outcome = "none"
    /\ EnqueueAccepts(value)
    /\ ExecuteOnCommit(d)
    /\ Transport

\* wrapper(**kwargs) in the worker
CallTask ==
    /\ pc = "running" /\ outcome = "none"
    /\ outcome' = IF ModelAccepts(kwarg) THEN "called" ELSE "invalid"
    /\ UNCHANGED <<vars, annotation, value, kwarg>>

\* the retry carries the arguments as the worker had them
RetryCall(j) ==
    /\ outcome \in {"called", "invalid"}
    /\ RetryTask(j)
    /\ Transport

ConfigStep ==
    /\ outcome = "none"
    /\ Decorate \/ SubmitBatchJob \/ RunSubmitBatchJob \/ ResolveTimeouts
    /\ UNCHANGED kwargsVars

Ended ==
    /\ outcome # "none" \/ Stopped
    /\ UNCHANGED allVars

KwargsNext ==
    \/ ConfigStep \/ RejectKwargs \/ CallTask \/ Ended
    \/ \E d \in Delays : EnqueueCall(d)
    \/ \E j \in Jitter : RetryCall(j)

KwargsSpec == KwargsInit /\ [][KwargsNext]_allVars

(***************************************************************************)
(* Properties.                                                             *)
(***************************************************************************)
\* Whatever was accepted when it was enqueued and consists of JSON's own values is
\* accepted by the worker, on every route and every retry, and arrives as it was; on
\* the eager route this holds of every value.
KwargsArrive ==
    pc = "running" /\ (value \in {"number", "text"} \/ (conf.eager /\ ~conf.noop)) =>
        kwarg = value /\ outcome # "invalid"

\* mutant: the local pool is taken for production
WarningsButLocal(c) == {x \in {"W001", "W002"} : (x = "W001" => c.noop) /\ (x = "W002" => c.eager)}
\* check_noop_not_in_production, run by "check --deploy"
DeployWarnings(c) ==
    {x \in {"W001", "W002", "W003"} :
        /\ x = "W001" => c.noop
        /\ x = "W002" => c.eager
        /\ x = "W003" => c.local_workers > 0}

\* A deployment in which some invocation or retry does not go to a queue, whatever the
\* precedence of the modes, was warned about.
DeployCheckComplete == pc \in {"dropped", "eager", "local"} => DeployWarnings(conf) # {}

(***************************************************************************)
(* What the documentation says.                                            *)
(***************************************************************************)
\* Requirement 3.4: "FOR ALL valid sets of task kwargs, serializing then deserializing
\* SHALL produce an equivalent set of kwargs (round-trip property)".
KwargsRoundTrip == pc = "running" => kwarg = value
=============================================================================
