SPECIFICATION Spec
CONSTANTS
  Name <- MCName
  FieldKey <- CascadeFields
  SectionKey <- CascadeSections
  MaxNode = 6
  MaxDepth = 2
  MaxOther = 0
  Reuse = FALSE
INVARIANTS
  ResultIsClean
  PathsKept
  LastOccurrenceWins
PROPERTY CallsReturn
