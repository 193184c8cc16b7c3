SPECIFICATION Spec
CONSTANTS
    MsgIds = {m1, m2}
    Workers = {w1, w2}
    Tasks = {plain}
    Wrapper <- MCWrapper
    MaxRetries = 0
    StartRetries = {0}
    MaxReceives = 2
    BatchSize = 2
    MaxInvocations = 2
    MaxCleanups = 1
    None = None
    plain = plain
    single = single
    optional = optional
SYMMETRY Symmetric
INVARIANTS AtMostOnceExecution AckedHasRecord RunningIsAttended
