\* Two runs, one of which may hang for ever at any point; flock may answer ENOLCK.
SPECIFICATION RenderSpec
CONSTANTS
  r1 = r1
  r2 = r2
  a = a
  b = b
  c = c
  f1 = f1
  f2 = f2
  m1 = m1
  m2 = m2
  i1 = i1
  i2 = i2
  Absent = Absent
  NoRun = NoRun
  NoLabel = NoLabel
  NotAName = NotAName
  Runs = {r1, r2}
  Locks = {"lock"}
  LockFile <- MCFile
  Stalled = {r2}
  LockTimeout <- MCOneTick
  HoldBudget = 0
  LockSupport = "transient"
  Names = {a, b, c}
  Files <- MCFiles
  StagedSets = {}
  PathLen = 1
  MaxFaults = 1
  MayStop = FALSE
  Jobs <- SomeJobs
  Starts <- SomeStarts
INVARIANT GateActsUnderLock
PROPERTY RunsEnd
