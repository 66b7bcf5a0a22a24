\* A fix that leaves no room for the next one.
CONSTANTS
  ed = ed
  rev = rev
  SegmentIds = {"a", "b"}
  Speakers = {"s"}
  Identifiers = {"ident"}
  Uses = {"oral"}
  PlainTokens = {"plain", "mask"}
  People = {ed, rev}
  Terms = {"t1"}
  Replacements <- MCReplacements
  Submissions <- BlankSubmissions
  Fixes <- ReviewFixes
  Exceptions <- NoExceptions
  MaxRevision = 10
SPECIFICATION Spec
INVARIANTS
  RemediationIsPossible
CHECK_DEADLOCK FALSE
