SPECIFICATION Spec
CONSTANTS
  Value <- MCValue
  Names <- MCNames
  MaxNesting = 1
  Trees <- MCTrees
  Texts <- MCTexts
  Readings <- MCReadings
  Day = 8
  Zones <- MCZones
  Plans <- MCPlans
  Window = 4
  Documents <- MCDocuments
  Sources <- MCSources
  Actuating = {"hue"}
  Drivable <- MCDrivable
  Enabled = {"hue", "openmeteo"}
  TimeZones = {"London"}
INVARIANTS
  ReadsBack
  GuardsItself
  HandOver
  WindowDelivers
  AcceptedRunsUnlessEmpty
CHECK_DEADLOCK FALSE
