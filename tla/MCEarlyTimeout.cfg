SPECIFICATION Spec
CONSTANTS
  empty = empty
  short = short
  long = long
  NoFile = NoFile
  File <- Files
  Fragments <- Sizes
  MaxTransfers = 1
  MaxInFlight = 3
  TimerExact = FALSE
  MayFail = FALSE
PROPERTIES
  SentMeansStored
CHECK_DEADLOCK FALSE
