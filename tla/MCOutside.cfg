SPECIFICATION MCSpec
CONSTANTS
  QueueSize = 2
  MaxChanges = 2
  MaxOutages = 1
  Static = {"token", "user"}
  Slots = {"user2"}
  Sections <- MCSections
  Secrets = {"old", "new"}
  MaxCommands = 2
INVARIANTS NewestSurvives ServiceStarts
PROPERTIES OutageSurfaces CatchesUp
CHECK_DEADLOCK FALSE
