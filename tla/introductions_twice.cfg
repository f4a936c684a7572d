SPECIFICATION Spec
CONSTANTS
  Users = {u1, u2}
  Leavers = {}
  Passes = {w1}
  Handlers = {h1, h2}
  None = None
  MaxAsked = 1
  MaxFaults = 0
INVARIANT
  OneMeetPerPair
