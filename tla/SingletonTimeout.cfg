SPECIFICATION SingletonSpec
CONSTANTS
    Limits <- MCLimits
    OuterAlarms = {0, 1, 3}
    MaxElapsed = 4
INVARIANTS LimitsNotEarly HardLimitArmed ExitRestores StrayLimitIsLast OverlapBounded
PROPERTIES HungTaskIsStopped OuterAlarmComes
