SPECIFICATION Spec
CONSTANTS
    Profile = {p1, p2}
    Password = {w1}
    None = None
    MaxAccounts = 2
    MaxSlots = 2
    MaxSubmits = 2
    MaxEdits = 1
    MaxFailures = 1
    MaxRetries = 1
INVARIANTS TypeOK AnswersAreTrue PendingIsOwn
PROPERTIES ProfileSettles
CHECK_DEADLOCK FALSE
