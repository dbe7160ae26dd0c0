SPECIFICATION Spec
CONSTANTS
    Worker = {w1, w2}
    User = {alice, bob}
    Name = {todo, done}
    Defaults = {todo}
    None = None
    MaxBoard = 2
    MaxStatus = 2
    MaxTask = 1
INVARIANTS TypeOK TasksOnTheirBoards NamesUnique
PROPERTIES OwnersOnly SuccessIsReal ImplementsStore
SYMMETRY Symmetric
CONSTRAINT IdsAreKnown
