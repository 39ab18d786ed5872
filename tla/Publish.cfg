\* Two writers of one directory, two failing operations, either may be killed.
SPECIFICATION PublishSpec
CONSTANTS
  r1 = r1
  r2 = r2
  a = a
  b = b
  c = c
  new1 = new1
  new2 = new2
  Absent = Absent
  NoRun = NoRun
  Runs = {r1, r2}
  Locks = {"lock"}
  LockFile <- MCFile
  Stalled = {r1, r2}
  LockTimeout <- MCNoWait
  HoldBudget = 0
  LockSupport = "works"
  Names = {a, b, c}
  Files = {new1, new2}
  StagedSets <- MCSets
  PathLen = 2
  MaxFaults = 2
  MayStop = TRUE
INVARIANTS PublishTypeOK Recoverable OneFaultIsUndone
PROPERTIES InstallsAtomically RollbackRemovesDirs PublishEnds
