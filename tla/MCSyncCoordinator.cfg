SPECIFICATION SafetySpec
CONSTANTS
  User = {alice, bob}
  NoUser = NoUser
  MaxRetries = 1
  MaxSide = 1
  MaxLogins = 2
INVARIANTS TypeOK LoadNeverOrphaned  ParentsAreLocal
SYMMETRY UserSymmetry
