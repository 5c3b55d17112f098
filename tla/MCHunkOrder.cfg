SPECIFICATION Spec
CONSTANTS
  Texts <- MCTexts
  Files <- MCFiles
  NL = "NL"
  MaxLines = 4
CHECK_DEADLOCK FALSE
INVARIANTS
  HunkKeepsOrder
