SPECIFICATION Spec
CONSTANTS
    MsgIds = {m1, m2, m3}
    Workers = {w1, w2}
    Tasks = {single, optional}
    Wrapper <- MCWrapper
    MaxRetries = 1
    StartRetries = {0}
    MaxReceives = 1
    BatchSize = 1
    MaxInvocations = 2
    MaxCleanups = 0
    None = None
    plain = plain
    single = single
    optional = optional
SYMMETRY Symmetric
INVARIANTS SingletonExclusion OutcomeMatchesEffects
