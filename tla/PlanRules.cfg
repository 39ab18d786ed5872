SPECIFICATION Spec
CONSTANTS
  MaxParts = 7
  Parts <- MCParts
  Numeral <- MCNumeral
  Bytes <- MCBytes
  MaxAnnotations = 8
  MorePlans <- MCMorePlans
  Names <- MCNames
  MaxEdits = 2
INVARIANTS
  EnginesAgree
  NormalisingHidesNothing
  LayersAreRight
  NamesDistinct
  ConflictsAreOverlaps
  ReferencesResolve
  StepsAccountedFor
  AdmittedPlansRender
CHECK_DEADLOCK FALSE
