CONSTANTS
  m1 = m1
  m2 = m2
  NoContent = NoContent
  Malformed = Malformed
  NoAttrs = NoAttrs
  Missing = Missing
  Absent = Absent
  Unparsable = Unparsable
  Now = 5
  MaxDuration = 16
  Calls = {}
  SystemRoots <- MCRoots
  Runs <- MCRuns
SPECIFICATION Spec
INVARIANTS BadSignatureSaid
CHECK_DEADLOCK FALSE
