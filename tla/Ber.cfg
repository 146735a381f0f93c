CONSTANTS
  Tags <- MCTags
  Contents <- MCContents
  MaxOctets = 262
  MaxObjects = 4
  Trailing <- MCTrailing
  RefusedForms = FALSE
SPECIFICATION Spec
INVARIANTS ConvertedToDer CutIsRefused
CHECK_DEADLOCK FALSE
