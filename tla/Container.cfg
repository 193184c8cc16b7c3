SPECIFICATION ContainerSpec
CONSTANTS
    Names = {n1, n2}
    Secrets = {s1, s2}
    MaxInvocations = 3
    MaxAttempts = 2
SYMMETRY Symmetric
INVARIANTS
    ContainerTypeOK ServingIsConfigured BootHandlerConfined
    JobRunsOnce SuccessMeansRun LossIsReported SuccessIsReported
PROPERTY SecretsNeverOverride
