CONSTANTS
  Limits <- MCLimits
  Modes <- MCBothModes
SPECIFICATION Spec
PROPERTIES
  NoEventOnBlockedPage
CHECK_DEADLOCK FALSE
