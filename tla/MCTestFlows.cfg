CONSTANTS
  Limits <- MCLimits
  Modes <- MCAllModes
  Segment = 3
SPECIFICATION Spec
INVARIANTS
  CountExact
  LateStepsBounded
  FingerLiftedAtEnd
  GoesAndComesBack
PROPERTIES
  BlockedPageRespected
  NoEventOnBlockedAbility
  RunEnds
  FinishedTestEnds
  ImplementsBoundedRun
CHECK_DEADLOCK FALSE
