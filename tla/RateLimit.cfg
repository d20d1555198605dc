CONSTANTS
  t1 = t1
  t2 = t2
  toolA = toolA
  toolB = toolB
  Global = Global
  None = None
  ToolMax = 1
  GlobalMax = 2
  Window = 1
  MaxClock = 3
  Threads <- MCThreads
  Tools <- MCTools
  Limited <- MCLimited
  Max <- MCMax
SPECIFICATION FairSpec
INVARIANTS
  TypeOK
  WindowBound
  BudgetConservation
PROPERTIES
  RefusalJustified
  Implements
  LockReleased
