CONSTANTS
  Includes <- MCIncludes
  MaxIdents = 2
SPECIFICATION Spec
INVARIANTS TypeOK NothingLeftOpen CommandAsAsked
PROPERTIES StoreClosedLast
CHECK_DEADLOCK FALSE
