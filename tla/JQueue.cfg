CONSTANTS
  j1 = j1
  j2 = j2
  None = None
  Job = {j1, j2}
  MaxLen = 3
SPECIFICATION FairSpec
INVARIANTS
  SlotsPartition
  NoLostWakeup
PROPERTIES
  StackSpec
  PushReturns
  ConsumerServes
