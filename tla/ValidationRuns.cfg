SPECIFICATION FairSpec
CONSTANTS
  Files = {1, 2}
  Runs = {1, 2}
  NoRun = NoRun
  MaxEdits = 1
INVARIANTS
  DoneIsComplete
  BadgeIsEarned
  ErrorsTakeTheBadge
PROPERTIES
  EveryRunEnds
CHECK_DEADLOCK FALSE
