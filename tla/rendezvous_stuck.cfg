SPECIFICATION ReplyingSpec
CONSTANTS
  m1 = m1
  m2 = m2
  u1 = u1
  u2 = u2
  u3 = u3
  MeetIds = {m1}
  Users = {u1, u2}
  Leavers = {}
  Party <- MCParty
  Texts = {t1}
  None = None
  Handlers = {h1, h2}
  Passes = {cron}
  Overlap = TRUE
  MaxReplies = 1
  MaxFaults = 0
PROPERTY
  MeetConcludes
CHECK_DEADLOCK FALSE
