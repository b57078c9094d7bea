SPECIFICATION Spec
CONSTANTS
  Files = {1}
  Runs = {1}
  NoRun = NoRun
  MaxEdits = 2
PROPERTIES
  CancelledNeverRuns
CHECK_DEADLOCK FALSE
