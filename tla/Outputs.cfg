SPECIFICATION OutputsSpec
CONSTANTS
  Docs = {d1}
  Builds = {1, 2}
  Hideable = {"browse"}
  MaxChanges = 1
  MaxDeaths = 1
  NoSite = NoSite
  NoFile = NoFile
  Linkable = {c1}
  EngineBuilds = {b1, b2}
  MaxRowRevs = 2
  MaxCrashes = 1
  NoOwner = NoOwner
  NoPage = NoPage
  TeiFiles = {f1, f2}
  Repos = {r1}
  Syncs = {1, 2}
  MaxEdits = 1
  MaxLosses = 1
  NoLink = NoLink
  Papers = {p1}
  Attempts = {1, 2}
  MaxTries = 2
  MaxOutages = 2
  MaxSettings = 1
  NoDeposit = NoDeposit
  Questions = {k1}
  Queries = {1, 2}
  Limits = {1, 2}
  Cap = 1
  MaxDay = 1
  MaxDrops = 1
  NoRow = NoRow
  Members = {m1}
  Levels = {2}
  Calls = {1, 2, 3}
  Links = {l1}
  NoGrant = NoGrant
  NoSession = NoSession
  Slugs = {x1, x2}
  FileNames = {1, 2}
  PageSize = 1
  MaxMoves = 2
INVARIANTS
  OutputsTypeOK
  DoneSiteIsCurrent
  SearchMatchesPages
  NoFilesInherited
  EnginePagesAgree
  RecordedPushIsOnBranch
  ImportsAreWhole
  RecordedDepositExists
  DuplicatesHaveACause
  SpendAddsUp
  SlotsComeBack
  LiveSessionsAreCurrent
  HarvestIsWhole
PROPERTIES
  PushesOverwriteWhatTheySaw
  BuildsEnd
CHECK_DEADLOCK FALSE
