SPECIFICATION JobSpec
CONSTANTS
  j1 = j1
  j2 = j2
  j3 = j3
  acme = acme
  zen = zen
  Ids = {i1, i2}
  Passes = {sleep}
  Sessions = {s1}
  Overlap = TRUE
  Routed = TRUE
  None = None
  Jobs = {j1, j2, j3}
  Partner <- MCPartner
  Fallback = {j3}
  MaxLog = 2
  Failing = {"call", "insert", "model", "session"}
  MaxFaults = 1
INVARIANTS
  OneNewThread
  JobTypeOK
  OutcomeIsAnswer
