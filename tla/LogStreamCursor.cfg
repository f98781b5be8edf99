SPECIFICATION Spec
CONSTANTS
  KindOf <- Kinds
  Capacity = 2
  MaxRecords = 2
  FilterIds = {"f1"}
  Expressions <- Filters
  MaxEvents = 2
  MaxLives = 2
  MaxSeen = 3
INVARIANTS ShownOnce
