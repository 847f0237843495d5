\* Set-up beside a proxy that runs, among what is kept on disk.
SPECIFICATION EitherSpec
CONSTANTS
  a1 = a1
  a2 = a2
  here = here
  fetch = fetch
  Scopes = {here}
  Tools = {fetch}
  NoTool = NoTool
  Answers = {a1, a2}
  EntryOf <- TwoAnswers
  Editions <- TwoEditions
  Missing = Missing
  Empty = Empty
  Unreadable = Unreadable
  MaxEdits = 1
  MaxDeaths = 1
  files = files
  Sessions = {s1, s2, s3}
  Servers = {files}
  ServerOf <- OneServer
  Versions = {v1, v2, v3}
  None = None
  MaxLists = 4
  MaxCalls = 2
  MaxCrashes = 1
  claude = claude
  project = project
  settings = settings
  Discovered <- ByDiscovery
  PathOrder <- ByPath
  HookFile = settings
  ProjectFiles = {project}
  Declares <- FewEntries
  Names = {"a", "b", "x", "y"}
  Targets = {"u", "v"}
  NoFile = NoFile
  Torn = Torn
  Emptied = Emptied
  Down = Down
  NoRoute = NoRoute
  MaxChanges = 2
  MaxStops = 1
  MaxBackups = 2
INVARIANT
  ProxyKnowsTheRoutes
CHECK_DEADLOCK FALSE
