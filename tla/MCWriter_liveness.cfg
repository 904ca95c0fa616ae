SPECIFICATION MCSpec
CONSTANTS
  a = a
  b = b
  Torn = Torn
  Thread = Thread
  Nobody = Nobody
  NoEntry = NoEntry
  Workers = {a}
  Sources = {a}
  SourceOf <- MCSourceOf
  Settings <- MCConfigured
  ReadingsOf <- MCReadings
  DiskBuffer = TRUE
  MaxPoints = 1
  MaxRejections = 2
  MaxSegments = 12
  SegmentLines = 1
  LimitLines = 2
  ChunkPoints = 2
  MemoryPoints = 1
  LivePoints = 0
  MaxFaults = 0
  MaxStarts = 3
  Endings = {"kill", "close"}
INVARIANTS
  SurvivesKill
PROPERTIES
  Settles
