SPECIFICATION Spec
CONSTANTS
    MsgIds = {m1, m2, m3}
    Workers = {w1, w2}
    Tasks = {plain}
    Wrapper <- MCWrapper
    MaxRetries = 2
    StartRetries = {0, 2}
    MaxReceives = 2
    BatchSize = 1
    MaxInvocations = 1
    MaxCleanups = 0
    None = None
    plain = plain
    single = single
    optional = optional
SYMMETRY Symmetric
INVARIANTS TypeOK OutcomeMatchesEffects RetryChainLinear RetriesBounded ChainCommitsOnce RetriedIsContinued
PROPERTY TerminalRecordsFinal
