SPECIFICATION CommunitySpec
CONSTANTS
  None = None
  u1 = u1
  u2 = u2
  Users = {u1, u2}
  Leavers = {u1}
  Passes = {w1}
  Handlers = {h1, h2}
  MaxAsked = 1
  MaxFaults = 1
  Catalog <- MCCatalog
  Story <- MCStory
  Answers <- MCAnswers
  Opinions <- MCOpinions
  LaunchStates = {"MN"}
  MaxIngests = 2
  TopN = 1
  MaxUnits = 3
  MaxRuns = 2
  ErrorRate = 5000
  Eligible = {u1}
  Uploads = {p1, p2}
  Deletions = {d1, d2}
  MaxAuthFaults = 2
SYMMETRY HandlerSymmetry
CHECK_DEADLOCK FALSE
INVARIANTS
  AccountsAreWhole
  VerdictsAreFair
  ShownOnce
  MeetIffMutual
  CommunityTypeOK
  SnapshotIsWhole
  DigestIsTrue
PROPERTY
  ForgottenForGood
