SPECIFICATION FairSpec
CONSTANTS
  Ids = {i1, i2, i3}
  Passes = {engine, sleep}
  Sessions = {s1, s2}
  None = None
INVARIANTS
  SaidOnce
  TypeOK
  AtMostOnePerPass
PROPERTY
  EveryCheckinDelivered
