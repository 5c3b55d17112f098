SPECIFICATION Spec
CONSTANTS
  Root = Root
  c1 = c1
  c2 = c2
  d1 = d1
  d2 = d2
  Calls <- FlatCalls
  Issuer <- FlatIssuer
  MaxTurns = 1
  MaxSubagents = 1
  CompactEvery = 0
  SandboxEnabled = TRUE
  McpEnabled = FALSE
  SubagentsEnabled = FALSE
  NestedSubagents = FALSE
PROPERTIES
  CancelledTurnNeverCompletes
