CONSTANTS
  Message = {m}
  NoContent = NoContent
  Chains <- MCChains
  PublicKeys <- MCPublicKeys
  Times = {"UTCTime", "GeneralizedTime"}
  MaxSigners = 2
  MaxCerts = 3
  MaxStamps = 2
SPECIFICATION Spec
INVARIANTS VerifiesUnlessMisused SignerNeverRefuses
PROPERTIES NoPartialFailure DetachedIsFinal
CHECK_DEADLOCK FALSE
