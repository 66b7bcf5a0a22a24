\* One request id on two dossiers.
CONSTANTS
  d1 = d1
  d2 = d2
  d1spelled = d1spelled
  r1 = r1
  r2 = r2
  r3 = r3
  r4 = r4
  h1 = h1
  h2 = h2
  h3 = h3
  p1 = p1
  p2 = p2
  Dossiers <- MCDossiers
  Keys <- MCKeys
  Cleaned <- MCCleaned
  RequestIds = {r1, r2, r3, r4}
  NoRequestId = noid
  Inputs = {"create", "edit", "seal"}
  Creations = {"create"}
  Seals = {"seal"}
  Calls <- ReusedCalls
  Handlers = {h1}
  Instances = {p1}
  On <- OneProcess
  Nobody = nobody
  NoCall = nocall
  NoReceipt = noreceipt
SPECIFICATION Safety
INVARIANTS
  AnswersAreOwn
