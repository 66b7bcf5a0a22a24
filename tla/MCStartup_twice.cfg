SPECIFICATION Spec
CONSTANTS
  p1 = p1
  p2 = p2
  Processes = {p1, p2}
  Address <- MCAddress
  DossierCount = 1
  MaxRevision = 2
  MaxStarts = 2
  FirstSchemas = {4}
INVARIANTS
  ReleasesVerify
CHECK_DEADLOCK FALSE
