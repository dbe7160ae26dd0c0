SPECIFICATION Spec
CONSTANTS
  User = {alice}
  NoUser = NoUser
  MaxRetries = 1
  MaxSide = 1
  MaxLogins = 2
PROPERTIES ImplementsLoadCycle EventuallyLoaded
