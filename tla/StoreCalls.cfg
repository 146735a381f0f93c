CONSTANTS
  Item <- MCItem
  Ca <- MCCa
  Hashes = {"SHA224", "SHA256"}
  Path <- MCPath
  KeyType <- MCKeyType
  Systems = {"windows", "darwin"}
  MaxIdents = 2
SPECIFICATION Spec
INVARIANTS FieldsOwn CompleteOrError SignsAsAsked
PROPERTIES KeepsPromise
CHECK_DEADLOCK FALSE
