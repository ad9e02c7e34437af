CONSTANTS
  c1 = c1
  c2 = c2
  good = good
  large = large
  poor = poor
  Client <- Clients
  MayIgnore <- Ignore
  Games <- Plays
  TooLarge <- Larges
  Unfit <- Poors
  MaxRec = 1
  ClientQueue = 1
  ServerQueue = 1
  MaxRetry = 1
  MaxAccept = 1
  MaxConn = 2
  MaxFault = 2
SPECIFICATION FairSpec
INVARIANTS
  LostOnlyIfHit
PROPERTIES
  FateSpec
  Settled
CHECK_DEADLOCK FALSE
