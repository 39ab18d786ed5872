SPECIFICATION Spec
CONSTANTS
  Paths = {"scaling.py", "policy.py", "rules.rego"}
  Versions = {"absent", "v1", "v2"}
  Scripts <- MCScripts
  Inputs <- MCInputs
  Recorded = {1, 2}
  Branches <- MCBranches
  MaxChanges = 2
INVARIANTS
  RunnerTypeOK
  FiledIsRebuildable
  OnlyOthersDirty
PROPERTY RunnerEnds
CHECK_DEADLOCK FALSE
