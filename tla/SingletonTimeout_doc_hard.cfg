SPECIFICATION SingletonSpec
CONSTANTS
    Limits <- OneLimit
    OuterAlarms = {0}
    MaxElapsed = 4
INVARIANT HardTimeoutFails
