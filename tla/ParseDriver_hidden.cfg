SPECIFICATION Spec
CONSTANTS
  Name <- MCName
  FieldKey <- ShallowFields
  SectionKey <- ShallowSections
  MaxNode = 5
  MaxDepth = 1
  MaxOther = 0
  Reuse = FALSE
INVARIANTS
  EveryDuplicateReported
