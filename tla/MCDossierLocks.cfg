\* Three requests, two dossiers.
CONSTANTS
  Ids = {i1, i2}
  Goroutines = {g1, g2, g3}
  Refs = {e1, e2, e3, e4}
  NoId = noid
  NoRef = noref
  Nobody = nobody
SPECIFICATION Spec
INVARIANTS
  MutualExclusion
  TableHoldsUsersOnly
PROPERTIES
  EveryoneEnters
  ImplementsKeyedMutex
