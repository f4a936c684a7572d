SPECIFICATION ReplyingSpec
CONSTANTS
  m1 = m1
  m2 = m2
  u1 = u1
  u2 = u2
  u3 = u3
  MeetIds = {m1, m2}
  Users = {u1, u2, u3}
  Leavers = {u1, u2}
  Party <- MCParty
  Texts = {t1}
  None = None
  Handlers = {h1}
  Passes = {cron}
  Overlap = FALSE
  MaxReplies = 1
  MaxFaults = 0
INVARIANTS
  EndedForGood
  AskedAndToldOnce
PROPERTIES
  MeetConcludes
  LifecycleSpec
CHECK_DEADLOCK FALSE
