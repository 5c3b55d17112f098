SPECIFICATION Spec
CONSTANTS
  Inputs <- MCInputs
  CompactSettings = {0, 1, 2}
  MaxTurns = 3
  MaxCalls = 2
  Servers <- MCServers
  ExposedName <- MCExposedName
  LocalTools = {"shell"}
  RawSize <- MCRawSize
  MaxToolOutput = 4
  Marker = 1
CHECK_DEADLOCK FALSE
INVARIANTS
  TypeOK
  ReadsWholeConversation
  ActiveTaskVerbatim
  CallsAnswered
  AnsweredByItsTool
  OutputsCapped
