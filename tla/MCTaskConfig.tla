---------------------------- MODULE MCTaskConfig ----------------------------
(* Boundary values: every mix of timeouts when messages go to a queue, every *)
(* mix of delays and execution modes with the default timeouts, and every    *)
(* kind of argument on every route.                                          *)
EXTENDS TaskKwargs

MCSeconds == {0, 1, 900, 901, 3601}
MCDelays == {-1, 0, 1, 896, 900, 901}
MCWorkerCounts == {-1, 0, 1}

TimeoutCases ==
    /\ conf \in {c \in Settings : ~c.noop /\ ~c.eager /\ c.local_workers = 0}
    /\ wrapper \in {w \in Declarations :
                       w.wellFormed /\ ~w.retriesLockError /\ w.retry_delay = 0}
    /\ annotation = "number" /\ value = "number"

RouteCases ==
    /\ conf \in {c \in Settings : c.soft = 1 /\ c.hard = 900}
    /\ wrapper \in {w \in Declarations : w.soft = None /\ w.hard = None}
    /\ annotation = "text" /\ value = "text"

KwargsCases ==
    /\ conf \in {c \in Settings : c.soft = 1 /\ c.hard = 900}
    /\ wrapper \in {w \in Declarations : w.soft = None /\ w.hard = None /\ w.retry_delay = 1
                                         /\ w.wellFormed}
    /\ annotation \in Kinds \cup {"any"} /\ value \in Kinds

MCInit == (TimeoutCases \/ RouteCases \/ KwargsCases) /\ KwargsInit
MCSpec == MCInit /\ [][KwargsNext]_allVars
=============================================================================
