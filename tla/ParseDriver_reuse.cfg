SPECIFICATION Spec
CONSTANTS
  Name <- MCName
  FieldKey <- ShallowFields
  SectionKey <- ShallowSections
  MaxNode = 6
  MaxDepth = 1
  MaxOther = 0
  Reuse = TRUE
INVARIANTS
  NothingLost
