CONSTANT Texts <- MCTexts
SPECIFICATION Spec
INVARIANTS
  TypeOK
  BufferIsText
PROPERTIES
  MatchesTheRules
  ScanEnds
CHECK_DEADLOCK FALSE
