SPECIFICATION ShimSpec
CONSTANTS
  Root = Root
  c1 = c1
  c2 = c2
  d1 = d1
  d2 = d2
  Calls <- MCCalls
  Issuer <- MCIssuer
  MaxTurns = 1
  MaxSubagents = 2
  CompactEvery = 1
  SandboxEnabled = TRUE
  McpEnabled = TRUE
  SubagentsEnabled = TRUE
  NestedSubagents = TRUE
CHECK_DEADLOCK FALSE
INVARIANTS
  SemaphoreConserved
  CompletedTurnIsSettled
PROPERTIES
  NoInferenceAfterCancel
  CancelEndsLoops
