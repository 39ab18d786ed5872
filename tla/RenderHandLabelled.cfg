\* One gate, and a manifest whose scope label was changed by hand.
SPECIFICATION RenderSafeSpec
CONSTANTS
  r1 = r1
  r2 = r2
  a = a
  b = b
  c = c
  f1 = f1
  f2 = f2
  m1 = m1
  m2 = m2
  i1 = i1
  i2 = i2
  Absent = Absent
  NoRun = NoRun
  NoLabel = NoLabel
  NotAName = NotAName
  Runs = {r1}
  Locks = {"lock"}
  LockFile <- MCFile
  Stalled = {}
  LockTimeout <- MCNoWait
  HoldBudget = 0
  LockSupport = "works"
  Names = {a, b, c}
  Files <- HandFiles
  StagedSets = {}
  PathLen = 1
  MaxFaults = 0
  MayStop = FALSE
  Jobs <- AllJobs
  Starts <- HandStarts
PROPERTY LintedIsPublished
