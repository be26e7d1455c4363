SPECIFICATION Spec
CONSTANTS
  Segment <- MCSegment
  File <- MCFile
  Text <- MCText
  Pre <- MCPre
  Post <- MCPost
  MaxOpen = 3
CHECK_DEADLOCK FALSE
INVARIANTS
  TypeOK
  IncludesInPlace
  RefusedWithCause
  CyclesAreRefused
  StreamPerCall
PROPERTY CallsEnd
