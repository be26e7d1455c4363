SPECIFICATION Spec
CONSTANTS
  Word <- MCWord
  Name <- MCName
  Tree <- MCTree
  Part <- MCPart
  Depth <- MCDepth
  Nesting = 3
  Value <- MCValue
  Env <- MCEnv
  MaxCalls = 16
CHECK_DEADLOCK FALSE
INVARIANTS
  AnswerIsMeaning
  ThrownWithCause
  DiesInCircle
PROPERTY ReadingProgresses
