\* A dossier from its consent to its seal, with two remediation rounds.
CONSTANTS
  ed = ed
  rev = rev
  SegmentIds = {"a", "b"}
  Speakers = {"s"}
  Identifiers = {"ident"}
  Uses = {"oral", "web"}
  PlainTokens = {"plain", "mask"}
  People = {ed, rev}
  Terms = {"t1", "t2"}
  Replacements <- MCReplacements
  Submissions <- LifeSubmissions
  Fixes <- ReviewFixes
  Exceptions <- NoExceptions
  MaxRevision = 12
SYMMETRY PeopleSymmetry
CONSTRAINT LifeScope
SPECIFICATION Spec
INVARIANTS
  ReviewedTextIsConfirmed
  StatusMatchesIssues
  RoundsInOrder
  SealedPackageVerifies
  AuthorizationReplays
  TranscriptWellFormed
  FindingsStand
PROPERTIES
  FrozenParts
  OnlyNamedIssuesReopen
  RecordsOnlyGrow
  ImplementsPublication
CHECK_DEADLOCK FALSE
