\* Questions about the links of attachment feeds.
CONSTANTS
  p1 = p1
  p2 = p2
  load = load
  sp = sp
  mesh = mesh
  Process = {p1, p2}
  Stage = {load}
  Source = {sp}
  MaxCalls = 3
  Client = {p1, p2}
  Lifetime = 2
  Margin = 1
  MaxDelay = 1
  DefaultLife = 1
  MaxTime = 2
  MaxGrants = 3
  Sqlite = {sp}
  Mesh = mesh
  Pages = 2
  MaxCommits = 1
  RawRecords <- MCRawRecords
  Later <- MCLater
  Lower <- MCLower
  Vocabulary <- MCVocabulary
  MACs = {"m1", "m2"}
  MaxExports = 2
  PageSize = 2
  MaxStartIndex = 3
  SizeLimit = 1
  RowKeys = {"id", "os", "ram", "lat"}
  Prefixed <- MCPrefixed
  Within <- MCWithin
  Upper = {23}
  MACTexts = {4}
  HostIds = {1, 5}
  Addresses = {5, 6}
  Tokens <- MCTokens
  TokenLength <- MCTokenLength
  WithDigit = {4}
  RejectWords = {5}
  EmployeeName <- MCEmployeeName
SPECIFICATION Spec
INVARIANT
  LinksJoinOnTheirField
CHECK_DEADLOCK FALSE
