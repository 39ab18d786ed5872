\* Two writers of one directory, one able to hang, a third elsewhere; flock may answer ENOLCK.
SPECIFICATION LockSpec
CONSTANTS
  r1 = r1
  r2 = r2
  r3 = r3
  here = here
  there = there
  NoRun = NoRun
  Runs <- MCRuns
  Locks = {here, there}
  LockFile <- MCTwoFiles
  Stalled = {r2}
  LockTimeout <- MCTimeouts
  HoldBudget = 1
  LockSupport = "transient"
INVARIANTS LockTypeOK LockMutex NoLockout
PROPERTIES SecondWriterIsServed WaitEnds
