SPECIFICATION MCSafety
CONSTANTS
  a = a
  b = b
  Torn = Torn
  Thread = Thread
  Nobody = Nobody
  NoEntry = NoEntry
  Workers = {a}
  Sources = {a}
  SourceOf <- MCSourceOf
  Settings <- MCConfigured
  ReadingsOf <- MCReadings
  DiskBuffer = TRUE
  MaxPoints = 1
  MaxRejections = 2
  MaxSegments = 12
  SegmentLines = 1
  LimitLines = 2
  ChunkPoints = 1
  MemoryPoints = 1
  LivePoints = 2
  MaxFaults = 2
  MaxStarts = 1
  Endings = {}
INVARIANTS
  NeverStuck
  NoHeartbeatHeld
  NoLostWakeup
  MemoryEmptyOnDisk
