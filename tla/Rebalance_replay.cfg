CONSTANTS
  Mark <- Marks3
  CashMark = 2
  Null = Null
  Public <- PublicOf
  Kind <- KindOf
  MaxCalls = 3
  Worlds <- TruncatedWorlds
  Slips <- SlipsAll
SPECIFICATION Spec
INVARIANT RecordRebuilds
CHECK_DEADLOCK FALSE
