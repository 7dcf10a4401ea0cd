CONSTANTS
  main = main
  crashDir = crashDir
  MainThread = main
  Others <- MCOthers
  LogMax = 2
  MaxMessages = 3
SPECIFICATION LoggerFairSpec
PROPERTIES
  StartReturns
CHECK_DEADLOCK FALSE
