CONSTANTS
  p1 = p1
  p2 = p2
  Process <- MCProcess
  Displays <- MCDisplays
  Blocks <- MCBlocks
  Positions <- MCPositions
  OperationInterval = 2
  MaxPause = 3
  MaxEvents = 3
SPECIFICATION ProgramsSpec
INVARIANTS
  OneProgramRuns
  TouchAvoidsBlock
  TouchBeyondExplained
  ReplayIsRecorded
PROPERTIES
  AloneIsNotRefused
  SkipsOnlyWhenCovered
  PausesAreReal
CHECK_DEADLOCK FALSE
