SPECIFICATION Spec
CONSTANTS
  d1 = d1
  Ids = {d1}
  Amount <- MCAmount
  Rates = {1, 4, 5}
  RateScale = 2
  Window = 2
  None = None
  MaxEvents = 3
INVARIANTS
  CreditedWasConfirmed
  BooksAgree
PROPERTIES
  ImplementsPayOnce
  DepositsEnd
CHECK_DEADLOCK FALSE
