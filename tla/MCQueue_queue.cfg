\* Three dossiers, the fewest of which a walk can show one again; two requests
\* at a time, of which one may be a new submission of the form.
SPECIFICATION Spec
CONSTANTS
  open = open
  NoFilter = NoFilter
  DossierCount = 3
  Classes = {open}
  Filters <- MCFilters
  Digit = 2
  MaxTime = 4
  MaxVersion = 1
  MaxChanging = 1
  MaxSubmits = 1
  MaxAsked = 2
INVARIANTS
  WalksAreComplete
  NothingTwice
  RepeatsStayInTheirSecond
  RefusalsAreExplained
PROPERTIES
  WalksEnd
CHECK_DEADLOCK FALSE
