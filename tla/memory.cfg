SPECIFICATION MindSpec
CONSTANTS
  None = None
  Extractions = {p1, p2}
  Contents = {x, y}
  FactIds = {n1, n2, i3}
  Keys = {x, y}
  Nodes = {n1, n2}
  Clients = {c1}
  TraitIds = {n1, n2}
  Sessions = {p1, p2}
  Pass = pass
  Cooldown = 2
  Chats = {c1}
  Messages = {x, y}
  EpisodeIds = {n1, n2}
  Blank = blank
  Words = {x, y, i3}
  Axes = {n1, n2}
  Evidence = {v1}
  Other = other
  Limit = 3
  MaxNotes = 3
  MaxItems = 2
  MaxMentions = 4
SYMMETRY Symmetry
INVARIANTS
  KnownOncePerKey
  MindTypeOK
  ErasureIsComplete
  RememberedStays
PROPERTIES
  ResolutionStands
  UserHasLastWord
  QuestionsSpaced
  AnswersAreHonoured
