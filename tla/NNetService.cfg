SPECIFICATION LiveSpec
CONSTANTS
  Client = {c1, c2}
  Position = {p1, p2}
  Nothing = Nothing
  SizeBatch = 2
  MaxWait = 0
  MaxNet = 2
  EnginesFirst = TRUE
  MayDie = TRUE
INVARIANTS
  TicketsMatch
  RequestOnce
  ResetUndisturbed
  NewNetInService
PROPERTIES
  EvalSpec
  EventuallyAnswered
  Replaced
  EndReturns
  OrphansExit
CHECK_DEADLOCK FALSE
