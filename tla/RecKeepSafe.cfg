CONSTANTS
  g1 = g1
  g2 = g2
  g3 = g3
  NoRec = NoRec
  Game = {g1, g2, g3}
  NoResign = {g1}
  SizeCluster = 3
  RedunCap = 2
  MaxNo = 7
  MaxCrash = 2
  RemoveMayFail = TRUE
  NDEBUG = TRUE
SPECIFICATION FairSpec
INVARIANTS
  TypeOK
  ArchivesExact
  ArchTmpMirrorsPool
  StartAccepts
  EmaMissesOnlyCrashes
  ResentRecordKnown
PROPERTIES
  LogSpec
  EventuallyServes
