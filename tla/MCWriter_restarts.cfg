SPECIFICATION MCSafety
CONSTANTS
  a = a
  b = b
  Torn = Torn
  Thread = Thread
  Nobody = Nobody
  NoEntry = NoEntry
  Workers = {a, b}
  Sources = {a, b}
  SourceOf <- MCSourceOf
  Settings <- MCPerhaps
  ReadingsOf <- MCReadings
  DiskBuffer = TRUE
  MaxPoints = 2
  MaxRejections = 1
  MaxSegments = 12
  SegmentLines = 2
  LimitLines = 2
  ChunkPoints = 2
  MemoryPoints = 1
  LivePoints = 0
  MaxFaults = 1
  MaxStarts = 3
  Endings = {"kill", "close"}
INVARIANTS
  TypeOK
  NothingForgotten
  SurvivesKill
  PointerInSpool
PROPERTIES
  InOrder
