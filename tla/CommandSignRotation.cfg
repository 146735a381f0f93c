CONSTANTS
  m1 = m1
  m2 = m2
  n1 = n1
  old = old
  Message <- MCMessage
  NoContent = NoContent
  Nonce <- MCNonce
  StaleNonce <- MCStale
  Options <- MCFewOptions
  MaxVersion = 2
  MaxTries = 2
  Chunks = 2
SPECIFICATION Spec
INVARIANTS SignatureMatchesCertificate
CHECK_DEADLOCK FALSE
