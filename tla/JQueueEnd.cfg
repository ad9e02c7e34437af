CONSTANTS
  j1 = j1
  j2 = j2
  None = None
  Job = {j1, j2}
  MaxLen = 2
SPECIFICATION FairSpec
PROPERTY
  EndJoins
