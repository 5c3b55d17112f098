SPECIFICATION FairSpec
CONSTANTS
  Root = Root
  c1 = c1
  c2 = c2
  d1 = d1
  d2 = d2
  Calls <- MCCalls
  Issuer <- MCIssuer
  MaxTurns = 2
  MaxSubagents = 1
  CompactEvery = 1
  SandboxEnabled = TRUE
  McpEnabled = TRUE
  SubagentsEnabled = TRUE
  NestedSubagents = FALSE
INVARIANTS
  TypeOK
  SemaphoreConserved
  SubagentLimit
  NoStrayCalls
  CompletedTurnIsSettled
  StatusMatchesTurn
  HandlesHaveOwners
PROPERTIES
  NoInferenceAfterCancel
  KeepsContract
  SessionDrains
