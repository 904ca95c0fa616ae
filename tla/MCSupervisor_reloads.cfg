SPECIFICATION Spec
CONSTANTS
  Controls = {1, 2}
  Devices = {1, 2}
  Unnamed = 9
  First = 1
  Documents <- MCOneDevice
  Missing = Missing
  Broken = Broken
  NoDoc = NoDoc
  NoChild = NoChild
  NoOne = NoOne
  Loop = Loop
  Exit = Exit
  Callers = {c1, c2}
  StartClean = TRUE
  Shutdowns = FALSE
  MaxWrites = 2
  MaxEdits = 0
  MaxFaults = 1
  MaxOutages = 0
  MaxWedges = 0
INVARIANT OneEnabledStored
INVARIANT NothingLeftOn
INVARIANT NoneForgotten
INVARIANT InEffect
PROPERTY Converges
