CONSTANTS
  Searches <- MCSearches
SPECIFICATION Spec
INVARIANTS TypeOK FormattedIdParsed FirstMatchFound
CHECK_DEADLOCK FALSE
