SPECIFICATION DesktopDataSpec
CONSTANTS
  k1 = k1
  w1 = w1
  w2 = w2
  w3 = w3
  flash = flash
  pro = pro
  embedder = embedder
  None = None
  NoData = NoData
  Failed = Failed
  Fallback = Fallback
  NotFound = NotFound
  U32 = 8
  Ids = {w1, w2, w3}
  Byok = {"gemini"}
  Cli = {"codex"}
  Secrets = {k1}
  Models <- SomeModels
  Responses <- SomeResponses
  Renames = {3}
  Pages = {"teams", "schedule", "settings"}
  MaxVisits = 1
  MaxGestures = 2
INVARIANTS
  TypeOK
  SettledTrue
  ActiveExists
  LastChosenActive
  SelectShowsUse
  OffersTrue
CHECK_DEADLOCK FALSE
