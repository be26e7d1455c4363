CONSTANTS
  Texts <- MCTexts
  LongMax = 110
  UnsignedMax = 11
  IntMax = 10
  DoubleMax = 111100
  FloatMax = 11100
  True <- TrueWord
  False <- FalseWord
SPECIFICATION FrontendSpec
INVARIANTS
  ValuesHaveTheirType
  DepthIsOfThisValue
  NodesAreTheText
  RoundTrip
  BracesAgree
  NumbersAreTheText
  RowsAreTheText
  ReadingsAgree
PROPERTIES
  TokensAreTheText
CHECK_DEADLOCK FALSE
