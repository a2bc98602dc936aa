CONSTANTS
  Mark <- MarksSplit
  CashMark = 1
  Null = Null
  Public <- PublicOf
  Kind <- KindOf
  MaxCalls = 3
  Worlds <- SplitWorlds
  Slips <- SlipsAll
SPECIFICATION Spec
INVARIANT EachWithinLimit
CHECK_DEADLOCK FALSE
