CONSTANTS
  Thread = {t1, t2}
  Main = t1
  Limit = 4
  Node = {"r", "a", "b", "x", "c", "d"}
  Root = "r"
  Parent <- MCParent
  Depth <- MCDepth
  Value <- MCValue
  MaxPly = 2
  Illegal = {"x"}
  Final = {"d"}
  MaxBase = 1
SPECIFICATION FairSpec
INVARIANTS LossesAreThreads CountsAddUp BudgetKept
PROPERTY SearchEnds
CHECK_DEADLOCK FALSE
