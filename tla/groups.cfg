SPECIFICATION GroupSpec
CONSTANTS
  None = None
  Crowd = {c1, c2, c3}
  MaxForgotten = 1
  Nodes = {n1}
  GroupIds = {g1, g2}
  Weights = {0, 1, 3}
  Threshold = 2
  MaxSkips = 1
  MinSize = 2
  MaxSize = 3
  MaxGroupFaults = 1
  FindCliques <- BronKerbosch
  Trim <- Trimmed
SYMMETRY GroupSymmetry
CHECK_DEADLOCK FALSE
INVARIANTS
  GroupTypeOK
  
  MembersAskedOnce
  CrewsApart
PROPERTY
  DeclineStands
