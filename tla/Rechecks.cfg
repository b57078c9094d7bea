SPECIFICATION RechecksSpec
CONSTANTS
  Files = {1, 2}
  Rank <- IdOrder
  Sweeps = {s1}
  Publisher = Publisher
  MaxVersion = 2
  Chunk = 1
  Damages = {"altered", "unreadable", "gone"}
  MaxDamages = 1
  NoRecord = NoRecord
  Nobody = Nobody
  Visits = {1, 2, 3, 4}
  ByHand = {2}
  MaxMisses = 1
  NoStamp = NoStamp
INVARIANTS
  TypeOK
  SweepIsComplete
  NoFalseAlarm
  ShownCaptureExists
  NoNeedlessCapture
CHECK_DEADLOCK FALSE
