CONSTANTS
  PercentOptions <- MCPercentOptions
  Percents <- MCPercents
  FingerArguments <- MCTwoFingers
  DirectionArguments <- MCDirectionArguments
  Wearable = FALSE
  Phone = FALSE
  Behind <- MCBehind
  MaxOptions = 3
  app1 = app1
  app2 = app2
  service = service
  unknown = unknown
  Installed <- MCInstalled
  Unlaunched <- MCUnlaunched
  Unknown <- MCUnknown
  Defaults <- MCDefaults
  Strays <- MCStrays
SPECIFICATION Spec
CONSTRAINT MCApart
INVARIANTS
  SwipeFingersGiven
CHECK_DEADLOCK FALSE
