SPECIFICATION Spec
CONSTANTS
    User = {ann}
    None = None
    Minute = 2
    Work = 3
    Break = 1
    Goal = {2}
    MaxWork = 4
    MaxSessions = 2
    MaxLogged = 2
    MaxLogins = 1
    MaxFailures = 1
INVARIANTS TypeOK TimerRuns PostsAcceptable MinutesKept
PROPERTIES GoalIsReached SessionsLogged
CHECK_DEADLOCK FALSE
