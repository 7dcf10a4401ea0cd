CONSTANTS
  main = main
  crashDir = crashDir
  MainThread = main
  Others <- MCOthers
  LogMax = 2
  MaxMessages = 3
SPECIFICATION LoggerFairSpec
INVARIANTS
  LoggerTypeOK
  NothingLost
  DrainedAtStop
PROPERTIES
  StopReturns
CHECK_DEADLOCK FALSE
