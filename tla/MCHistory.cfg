SPECIFICATION Spec
CONSTANTS
  Inputs <- OpeningOnly
  CompactSettings = {0, 1, 2}
  MaxTurns = 4
  MaxCalls = 1
  Servers <- MCServers
  ExposedName <- MCExposedName
  LocalTools = {"shell"}
  RawSize <- MCRawSize
  MaxToolOutput = 4
  Marker = 1
CHECK_DEADLOCK FALSE
INVARIANTS
  HistoryBounded
