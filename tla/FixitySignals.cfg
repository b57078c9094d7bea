SPECIFICATION Spec
CONSTANTS
  Files = {1}
  Rank <- IdOrder
  Sweeps = {s1, s2}
  Publisher = Publisher
  MaxVersion = 1
  Chunk = 1
  Damages = {"altered", "unreadable", "gone"}
  MaxDamages = 1
  NoRecord = NoRecord
  Nobody = Nobody
PROPERTIES
  OneSignalPerDrift
