SPECIFICATION WedgedSpec
CONSTANTS
  Controls = {1, 2}
  Devices = {1, 2}
  Unnamed = 9
  First = 1
  Documents <- MCOneDevice
  Missing = Missing
  Broken = Broken
  NoDoc = NoDoc
  NoChild = NoChild
  NoOne = NoOne
  Loop = Loop
  Exit = Exit
  Callers = {c1}
  StartClean = TRUE
  Shutdowns = TRUE
  MaxWrites = 1
  MaxEdits = 0
  MaxFaults = 1
  MaxOutages = 1
  MaxWedges = 2
INVARIANT CleanExit
INVARIANT OneWalk
PROPERTY Stops
CHECK_DEADLOCK FALSE
