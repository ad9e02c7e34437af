CONSTANTS
  g1 = g1
  g2 = g2
  g3 = g3
  NoRec = NoRec
  Game = {g1, g2}
  NoResign = {g1}
  SizeCluster = 2
  RedunCap = 2
  MaxNo = 6
  MaxCrash = 0
  RemoveMayFail = FALSE
  NDEBUG = FALSE
SPECIFICATION Spec
INVARIANT
  NeverAborts
