CONSTANTS
  NEngine = 2
  MaxNumChild = 4
  MaxNet = 1
  Mortal = {1}
SPECIFICATION FairSpec
INVARIANTS
  NoInternalError
  ThinkingExact
PROPERTIES
  PlaysOn
  EndReturns
