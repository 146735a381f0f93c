CONSTANTS
  m1 = m1
  m2 = m2
  NoContent = NoContent
  Malformed = Malformed
  NoAttrs = NoAttrs
  Missing = Missing
  Now = 5
  MaxDuration = 16
  Calls <- MCCalls
SPECIFICATION VerifySpec
INVARIANTS OnlyOwnTimestamp
CHECK_DEADLOCK FALSE
