CONSTANTS
  Mark <- Marks3
  CashMark = 2
  Null = Null
  Public <- PublicOf
  Kind <- KindOf
  MaxCalls = 3
  Worlds <- AllWorlds
  Slips <- SlipsAll
SPECIFICATION Spec
INVARIANTS TypeOK PlanKeepsFloor DecisionKeepsFloor NoNeedlessDrop Authorized
           PageAgrees
PROPERTY NoBuyBreaksFloor
CHECK_DEADLOCK FALSE
