SPECIFICATION FairSpec
CONSTANTS
  r1 = r1
  r2 = r2
  Runs <- MCRuns
  MaxOutput <- MCMaxOutput
  None = None
CHECK_DEADLOCK FALSE
INVARIANTS
  TypeOK
  OneReader
  CollectedIsPrefix
  NothingDropped
PROPERTIES
  RunsEnd
  TimedOutStops
