SPECIFICATION Spec
CONSTANTS
  m1 = m1
  m2 = m2
  u1 = u1
  u2 = u2
  u3 = u3
  MeetIds = {m1}
  Users = {u1, u2}
  Leavers = {u1}
  Party <- MCParty
  Texts = {t1, t2}
  None = None
  Handlers = {h1}
  Passes = {cron}
  Overlap = FALSE
  MaxReplies = 2
  MaxFaults = 1
INVARIANTS
  OnePlanAgreed
PROPERTY
  PrefsKept
CHECK_DEADLOCK FALSE
