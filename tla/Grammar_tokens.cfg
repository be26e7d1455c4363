SPECIFICATION Spec
CONSTANT MaxTokens = 7
CHECK_DEADLOCK FALSE
INVARIANTS TreeIsText RefusedAtTheToken ExpectedCouldStand
PROPERTY ParseReturns
