CONSTANTS
  MaxNet = 2
  NBlock <- Blocks
  Aligned = {0, 2}
  MaxRetry = 1
  MaxFault = 3
SPECIFICATION FairSpec
INVARIANTS
  DamageNeedsTear
  NoManualCleanup
  NoEmptyBlock
PROPERTIES
  FeedSpec
  EventuallyCurrent
CHECK_DEADLOCK FALSE
