SPECIFICATION Spec
CONSTANTS
    User = {ann, bob}
    None = None
    Minute = 2
    Work = 4
    Break = 1
    Goal = {1, 3}
    MaxWork = 6
    MaxSessions = 2
    MaxLogged = 2
    MaxLogins = 0
    MaxFailures = 0
PROPERTIES LoggedRowsStay
CHECK_DEADLOCK FALSE
