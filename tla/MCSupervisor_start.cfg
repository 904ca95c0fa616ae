SPECIFICATION Safety
CONSTANTS
  Controls = {1, 2}
  Devices = {1, 2}
  Unnamed = 9
  First = 1
  Documents <- MCShared
  Missing = Missing
  Broken = Broken
  NoDoc = NoDoc
  NoChild = NoChild
  NoOne = NoOne
  Loop = Loop
  Exit = Exit
  Callers = {c1}
  StartClean = FALSE
  Shutdowns = FALSE
  MaxWrites = 1
  MaxEdits = 1
  MaxFaults = 1
  MaxOutages = 0
  MaxWedges = 0
INVARIANT OneOwnerAtStart
PROPERTY Undisturbed
