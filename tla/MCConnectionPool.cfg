SPECIFICATION Spec
CONSTANTS
  Thread = {t1, t2, t3, t4}
  MaxSize = 2
INVARIANTS TypeOK PlacesAccounted NoLostWakeup SleeperHasCompany
PROPERTIES PlacesAreUsed ImplementsLimit
