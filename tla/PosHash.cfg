CONSTANTS
  k1 = k1
  k2 = k2
  k3 = k3
  s1 = s1
  s2 = s2
  s3 = s3
  s4 = s4
  None = None
  Thread = {t1, t2}
  Key = {k1, k2, k3}
  Slot = {s1, s2, s3, s4}
  Rehash = 3
  TryMax = 1
  Probe <- MCProbe
  Visits = 3
SPECIFICATION FairSpec
PROPERTIES TableSpec LookupReturns
