\* A round whose warning is left open.
CONSTANTS
  ed = ed
  rev = rev
  SegmentIds = {"a", "b"}
  Speakers = {"s"}
  Identifiers = {"ident"}
  Uses = {"oral"}
  PlainTokens = {"plain", "mask"}
  People = {ed, rev}
  Terms = {"t1"}
  Replacements <- MCReplacements
  Submissions <- ReviewSubmissions
  Fixes <- ReviewFixes
  Exceptions <- NoExceptions
  MaxRevision = 10
SPECIFICATION Spec
INVARIANTS
  ConfirmationIsPossible
CHECK_DEADLOCK FALSE
