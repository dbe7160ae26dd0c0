SPECIFICATION SafetySpec
CONSTANTS
    None = None
    MaxLocal = 2
    MaxServer = 2
    MaxText = 2
    MaxDay = 1
    MaxPushes = 2
    MaxRetries = 1
    MaxRestarts = 1
INVARIANT NeverTerminates
CHECK_DEADLOCK FALSE
