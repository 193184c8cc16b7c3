SPECIFICATION FairSpec
CONSTANTS
    MsgIds = {m1, m2}
    Workers = {w1, w2}
    Tasks = {plain, optional}
    Wrapper <- MCWrapper
    MaxRetries = 1
    StartRetries = {0}
    MaxReceives = 2
    BatchSize = 1
    MaxInvocations = 1
    MaxCleanups = 0
    None = None
    plain = plain
    single = single
    optional = optional
PROPERTIES InvocationsResolve ImplementsLifecycle
