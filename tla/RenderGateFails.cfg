\* One gate and a full staging filesystem.
SPECIFICATION RenderSafeSpec
CONSTANTS
  r1 = r1
  r2 = r2
  a = a
  b = b
  c = c
  f1 = f1
  f2 = f2
  m1 = m1
  m2 = m2
  i1 = i1
  i2 = i2
  Absent = Absent
  NoRun = NoRun
  NoLabel = NoLabel
  NotAName = NotAName
  Runs = {r1}
  Locks = {"lock"}
  LockFile <- MCFile
  Stalled = {}
  LockTimeout <- MCNoWait
  HoldBudget = 0
  LockSupport = "works"
  Names = {a, b, c}
  Files <- MCFiles
  StagedSets = {}
  PathLen = 1
  MaxFaults = 1
  MayStop = FALSE
  Jobs <- SomeJobs
  Starts <- AllStarts
PROPERTY GateExitOneIsAVerdict
