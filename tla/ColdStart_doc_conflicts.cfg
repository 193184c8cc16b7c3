SPECIFICATION Spec
CONSTANTS
    Names = {n1, n2}
    Secrets = {s1, s2}
    MaxInvocations = 3
INVARIANT ConflictsAreConfigured
