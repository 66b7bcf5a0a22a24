\* Two events, two faults, anywhere.
SPECIFICATION Spec
CONSTANTS
  v = v
  w = w
  Bodies = {"edit", "seal"}
  Values = {v, w}
  StoredId = v
  Contents <- MCContents
  Approvals <- MCApprovals
  MaxEvents = 2
  MaxFaults = 2
INVARIANTS
  AcceptedEventsAreRecorded
  ValidReportsAreTrue
  ValidPackageIsAuthentic
  BlameIsExact
  StartAndReportProveAll
CHECK_DEADLOCK FALSE
