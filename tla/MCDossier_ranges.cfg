\* Every range of a text with three identifiers, and exceptions to it.
CONSTANTS
  ed = ed
  rev = rev
  SegmentIds = {"a", "b"}
  Speakers = {"s"}
  Identifiers = {"ident"}
  Uses = {"oral", "web"}
  PlainTokens = {"plain", "mask"}
  People = {ed, rev}
  Terms = {"t1"}
  Replacements <- MCReplacements
  Submissions <- RangeSubmissions
  Fixes <- RangeFixes
  Exceptions <- RangeExceptions
  MaxRevision = 8
SYMMETRY PeopleSymmetry
CONSTRAINT RangesScope
SPECIFICATION Spec
INVARIANTS
  TypeOK
  FixesFit
  HistoryMatchesFix
  ExceptionsFit
  ScanIsExact
  SplicesSpellPieces
CHECK_DEADLOCK FALSE
