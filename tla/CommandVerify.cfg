CONSTANTS
  m1 = m1
  m2 = m2
  NoContent = NoContent
  Malformed = Malformed
  NoAttrs = NoAttrs
  Missing = Missing
  Absent = Absent
  Unparsable = Unparsable
  Now = 5
  MaxDuration = 16
  Calls = {}
  SystemRoots <- MCRoots
  Runs <- MCRuns
SPECIFICATION FairSpec
INVARIANTS RunTypeOK CodesInOrder ExitAgreesWithStatus OwnSignatureTrusted
PROPERTIES KeepsPromise VerifyEnds
CHECK_DEADLOCK FALSE
