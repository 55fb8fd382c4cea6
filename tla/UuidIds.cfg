SPECIFICATION Spec
CONSTANTS
  SeedMax = 1
  CounterMax = 3
  MaxClock = 3
  MaxRows = 5
  MaxSetBacks = 1
  MaxStarts = 1
INVARIANTS
  TypeOK
  ClaimOrderIsInsertOrder
  BorrowedTimeIsEarned
PROPERTY
  ImplementsIncreasingIds
CHECK_DEADLOCK FALSE
