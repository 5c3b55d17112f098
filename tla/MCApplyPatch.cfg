SPECIFICATION Spec
CONSTANTS
  Texts <- MCTexts
  Files <- MCFiles
  NL = "NL"
  MaxLines = 5
CHECK_DEADLOCK FALSE
INVARIANTS
  TypeOK
  EditsWholeLines
