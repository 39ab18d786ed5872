SPECIFICATION Spec
CONSTANTS
  MaxParts = 7
  Parts <- MCParts
  Numeral <- MCNumeral
  Bytes <- MCBytes
  MaxAnnotations = 8
  MorePlans <- MCMorePlans
  Names <- MCNames
  MaxEdits = 1
INVARIANT SameDecisionOnAllInputs
CHECK_DEADLOCK FALSE
