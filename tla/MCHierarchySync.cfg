SPECIFICATION Spec
CONSTANTS
    Name = {todo, done}
    None = None
    MaxLocal = 1
    MaxStatus = 2
    MaxTask = 2
    MaxSteps = 2
    MaxFailures = 1
INVARIANTS TypeOK UnsentIsPending
PROPERTIES EditsSettle SyncedMeansEqual
CHECK_DEADLOCK FALSE
