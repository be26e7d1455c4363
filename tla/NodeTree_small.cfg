SPECIFICATION Spec
CONSTANTS
  Node = {n1, n2, n3, n4}
  Name = {a, b}
  Empty = Empty
  Null = Null
  RelPath <- ShortPaths
SYMMETRY Addresses
INVARIANTS
  TypeOK
  OneOwner
  NoLeak
  FullPathFinds
PROPERTY
  ClonesAreWhatIsShown
