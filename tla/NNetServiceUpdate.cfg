SPECIFICATION Spec
CONSTANTS
  Client = {c1, c2}
  Position = {p1}
  Nothing = Nothing
  SizeBatch = 2
  MaxWait = 0
  MaxNet = 2
  EnginesFirst = FALSE
  MayDie = FALSE
INVARIANT ResetUndisturbed
CHECK_DEADLOCK FALSE
