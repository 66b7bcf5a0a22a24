\* Two processes on one database file, each with one handler.
CONSTANTS
  d1 = d1
  d2 = d2
  d1spelled = d1spelled
  r1 = r1
  r2 = r2
  r3 = r3
  r4 = r4
  h1 = h1
  h2 = h2
  h3 = h3
  p1 = p1
  p2 = p2
  Dossiers <- MCDossiers
  Keys <- MCKeys
  Cleaned <- MCCleaned
  RequestIds = {r1, r2, r3, r4}
  NoRequestId = noid
  Inputs = {"create", "edit", "seal"}
  Creations = {"create"}
  Seals = {"seal"}
  Calls <- DistinctCalls
  Handlers = {h1, h2}
  Instances = {p1, p2}
  On <- TwoProcesses
  Nobody = nobody
  NoCall = nocall
  NoReceipt = noreceipt
SPECIFICATION Safety
INVARIANTS
  ReceiptsMatchLog
PROPERTIES
  ImplementsLedger
