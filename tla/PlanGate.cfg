SPECIFICATION Spec
CONSTANTS
  Calls = {"c1", "c2"}
  MaxParts = 7
  Parts <- MCParts
  Numeral <- MCNumeral
  Bytes <- MCBytes
  MaxAnnotations = 8
  Plans <- MCPlans
  Servers <- MCServers
  Requests <- MCRequests
  Messages = {"m"}
  MaxChanges = 1
INVARIANTS
  GateTypeOK
  ArtifactsAdmissible
  OnlyDecisionsAdmit
  OneAuthority
PROPERTY EveryCallEnds
CHECK_DEADLOCK FALSE
