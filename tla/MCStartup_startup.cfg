\* Two processes on one address, on a database of an old schema.
SPECIFICATION Spec
CONSTANTS
  p1 = p1
  p2 = p2
  Processes = {p1, p2}
  Address <- MCAddress
  DossierCount = 1
  MaxRevision = 2
  MaxStarts = 3
  FirstSchemas = {0, 3, 4}
INVARIANTS
  RecordsAreCurrent
  LoneStartsSucceed
  LoneReleasesVerify
PROPERTIES
  StartsEnd
CHECK_DEADLOCK FALSE
