SPECIFICATION ServiceSpec
CONSTANTS
  a1 = a1
  a2 = a2
  c1 = c1
  c2 = c2
  f1 = f1
  f2 = f2
  i1 = i1
  r1 = r1
  r2 = r2
  u1 = u1
  u2 = u2
  A = A
  B = B
  pr = pr
  noItem = noItem
  Callers = {c1, c2}
  ItemIds <- OneCopy
  Keys = {"k1", "k2"}
  NoKey = "none"
  EmptyKey = "empty"
  Batches <- SomeBatches
  Statuses = {"backlog", "todo", "done"}
  MaxUpdates = 3
  Readers = {r1, r2}
  Sections = {"s1", "s2"}
  Writes = {"w1", "b1"}
  Clearing = {"w1"}
  Touches <- SomeTouches
  ItemRows = {"i1", "i2"}
  ActivityRows = {"a1"}
  Rejected <- NoteText
  Unusable <- BadVector
  EmbedBatch = 2
  MaxEdits = 2
  MaxOutages = 1
  Admins = {a1, a2}
  Slugs = {"p", "q"}
  Objects = {"o"}
  NoSlug = "none"
  Uploaders = {u1, u2}
  Bearers = {i1}
  Files = {f1, f2}
  NoItem = noItem
  MaxPerItem = 1
  MaxParts = 2
  MaxSweeps = 1
  Reporters = {r1, r2}
  ReportActors = {"a", "b"}
  ReportKeys = {"k"}
  NoReportKey = "none"
  Reports <- SomeReports
  NoMinutes = 9999
  MaxEvents = 2
  Instances = {A, B}
  ShareProjects = {pr}
  Hosts = {"h1", "h2"}
  NoHost = "none"
  MaxBoxes = 2
  MaxPuts = 2
  Tools = {"get_project_context", "search", "create_item", "record_context_impact"}
  OrientTools = {"get_project_context"}
  ReadTools = {"get_project_context", "search"}
  WriteTools = {"create_item"}
  ImpactTool = "record_context_impact"
  SessionIds = {"s1"}
  NoSession = "none"
  MaxDays = 1
  UsageRetention = 0
  LastDay = 1
  MaxCalls = 2
  Actors = {"r1", "r2"}
  MaxSaves = 2
  MaxApiKeys = 2
  MaxMishaps = 1
  Browsers = {"b1", "b2"}
  Writers = {"w1", "w2"}
  Buffer = 1
  MaxCommits = 2
  ToolCalls = {"c1", "c2", "c3"}
  McpSessions = {"s1", "s2"}
  SetMax = 1
  MaxToolCalls = 2
  Ranked = {1, 2}
  Foreign = {3}
  OpenLimit = 1
  ReadyLimit = 1
  MaxLinks = 2
  MaxMoves = 2
  Rows = {"a", "b", "c"}
  ThinRecall = 3
  DefaultCap = 2
  SqlCap = 3
  Limits = {0, 1}
INVARIANTS
  ServiceTypeOK
  RetriesAgree
  NoUnseenOverwrite
  StatusLogHonest
  CacheFresh
  EmbeddingSound
  ForestUnlessRaced
  RowsKeepBlobs
  RowsOpen
  OverLimitByRacersOnly
  ImpactOnce
  MirrorEnds
  ReportSound
  SettingsSound
  LiveViewCurrent
  NudgesHonest
  ReadyNextSound
  SearchAnswer
PROPERTIES
  LoserServed
  PurgeDeliberate
  EmbedderDrains
CHECK_DEADLOCK FALSE
