SPECIFICATION FairSpec
CONSTANTS
  j1 = j1
  j2 = j2
  j3 = j3
  root = root
  sub = sub
  p = p
  q = q
  r = r
  Jobs = {j1, j2, j3}
  Agents = {root, sub}
  AgentOf <- MCAgentOf
  Paths = {p, q, r}
  Marks = {"x", "y", "z"}
  Ops <- MCOps
  Initial <- MCInitial
  Absent = Absent
  None = None
CHECK_DEADLOCK FALSE
INVARIANTS
  TypeOK
  ReportMatchesEffect
  SolePathFollowsPatch
PROPERTIES
  NoTornRead
  PatchesEnd
