SPECIFICATION JobFairSpec
CONSTANTS
  j1 = j1
  j2 = j2
  j3 = j3
  acme = acme
  zen = zen
  Ids = {i1, i2}
  Passes = {sleep}
  Sessions = {s1}
  Overlap = FALSE
  Routed = FALSE
  None = None
  Jobs = {j1, j3}
  Partner <- MCPartner
  Fallback = {j3}
  MaxLog = 2
  Failing = {}
  MaxFaults = 0
PROPERTIES
  PicksAreFollowed
  EveryThreadCloses
