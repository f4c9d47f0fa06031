SPECIFICATION MCSpec
CONSTANTS
  Roots = {"t0", "t1", "t2", "bad"}
  NewRoot = "t0"
  Representable = {"t0", "t1", "t2"}
  MaxTroubles = 2
  MaxConnections = 1
  MaxWrites = 3
  MaxData = 1
  ReadTimeouts = {0, 1}
  WriteTimeouts = {0, 1}
  Clients = {"c1", "c2"}
  ReceiveErrors = {"error"}
  MaxRuns = 2
  MaxArrivals = 2
  MaxSends = 2
  Urls <- RestUrls
  Settings = {"KeepAlive"}
  Bodies <- RestBodies
  Params <- RestParams
  MaxRequests = 3
  MaxFailures = 1
  FilePaths <- DiskPaths
  Stem <- DiskStem
  Ext <- DiskExt
  Dotted <- DiskDotted
  Cleaned <- DiskCleaned
  Fold <- DiskFold
  Parts <- DiskParts
  FileTrees <- DiskTrees
  Jobs <- DiskJobs
  Data <- DiskData
  Lists <- DiskLists
  MaxRefusals = 1
  MaxEdits = 1
  MaxMessages = 2
  FileSizes = {1}
  Limits = {1, 3}
  LastSecond = 3
  MaxLines = 6
  MaxFaults = 1
  MaxLoads = 2
  MaxConnects = 2
  ItemNames <- TreeNames
  Folded <- TreeFolded
  Sections <- TreeSections
  Values = {"", "300"}
  MaxItems = 2
INVARIANTS
  SettingsKept
  Utf8Right
  
  MessagesKept
  TextLaws
  AnswersOwnRequest
  SentInOrder
  DatagramsRight
  CopiesSafe
  
  ListRight
PROPERTIES
  StorageBounded
  ClosedInTheEnd
CHECK_DEADLOCK FALSE
