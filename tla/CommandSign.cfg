CONSTANTS
  m1 = m1
  m2 = m2
  n1 = n1
  old = old
  Message <- MCMessage
  NoContent = NoContent
  Nonce <- MCNonce
  StaleNonce <- MCStale
  Options <- MCOptions
  MaxVersion = 2
  MaxTries = 2
  Chunks = 2
SPECIFICATION FairSpec
INVARIANTS TypeOK StageInv AnnouncementIsTrue SelectionEmbedded SuccessIsDelivered TimestampsAreFresh PinnedKeyMatches
PROPERTIES KeepsPromise EndsOrAwaitsTSA
CHECK_DEADLOCK FALSE
