SPECIFICATION Spec
CONSTANTS
  m1 = m1
  m2 = m2
  u1 = u1
  u2 = u2
  u3 = u3
  MeetIds = {m1}
  Users = {u1, u2}
  Leavers = {u1}
  Party <- MCParty
  Texts = {t1}
  None = None
  Handlers = {h1, h2}
  Passes = {cron}
  Overlap = TRUE
  MaxReplies = 1
  MaxFaults = 0
SYMMETRY HandlerSymmetry
INVARIANTS
  MeetIsAgreed
  TypeOK
  AskedMeansStored

  
CHECK_DEADLOCK FALSE
