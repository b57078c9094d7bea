SPECIFICATION AllSpec
CONSTANTS
  Files = {1, 2}
  Rank <- IdOrder
  Sweeps = {s1}
  Publisher = Publisher
  MaxVersion = 1
  Chunk = 1
  Damages = {"altered", "unreadable", "gone"}
  MaxDamages = 1
  NoRecord = NoRecord
  Nobody = Nobody
  Workers = {w1, w2}
  Requests = {r1}
  PageKinds = {"doc"}
  MaxPageEdits = 1
  MaxSwitches = 1
  NoEntry = NoEntry
  Cols = {c1, c2}
  Searches = {q1}
  MaxRevisions = 2
  NoEngine = NoEngine
  NoAnswer = NoAnswer
INVARIANTS
  AllTypeOK
  BannerBeforeCache
  AnswersAreLinked
PROPERTIES
  DamageIsReported
  TransactionsEnd
  PagesSettle
  AnswersSettle
CHECK_DEADLOCK FALSE
