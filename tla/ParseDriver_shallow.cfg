SPECIFICATION Spec
CONSTANTS
  Name <- MCName
  FieldKey <- ShallowFields
  SectionKey <- ShallowSections
  MaxNode = 6
  MaxDepth = 2
  MaxOther = 1
  Reuse = FALSE
INVARIANTS
  TypeOK
  BlocksNeverMerge
  NothingLost
  NoFalseReports
