SPECIFICATION MCSpec
CONSTANTS
  Units = {"hue", "nuki"}
  Streaming = {"nuki"}
  Interval <- MCInterval
  Intervals <- MCIntervals
  StartDelay <- MCDelay
  BackoffBase = 1
  BackoffMax = 2
  StallWarning = 4
  StallMultiplier = 3
  CallLimit = 1
  MaxFailures = 2
  MaxEvents = 2
  Controls = {"boiler", "fan"}
  MaxAge <- MCMaxAge
  Minimum = 2
  Budget = 1
  Skews = {0, 1}
  Tolerance = 1
  MaxUnsent = 1
  MaxTime = 4
PROPERTIES BacksOff
CHECK_DEADLOCK FALSE
