------------------------- MODULE RenderCommandsProofs -------------------------
(***************************************************************************)
(* The commands, for every number of runs, every job and every failure.    *)
(*                                                                         *)
(* They keep to the lock: RenderCommands implements PublishLock, so what   *)
(* is proved of the lock holds of the commands, and a gate acts only while *)
(* holding it.  Their exit code is their verdict's.  And where the lock    *)
(* works, the directory is at every point what the run that holds the lock *)
(* found, plus what that run has written, less what it has pruned: so a    *)
(* failure that says it changed nothing changed nothing, a success is      *)
(* complete, nobody else's file is lost, and what the gate reports as      *)
(* linted is what it leaves.                                               *)
(***************************************************************************)
EXTENDS RenderCommands, PublishProofs, OwnershipLemmas

\* One run leaves the lock alone or takes one step of PublishLock.
KeepsToLock(p) == LockStep(p) \/ UNCHANGED lockVars

\* Ending a command is at most a release.
LEMMA ExitKeepsToLock ==
  ASSUME NEW p \in Runs, NEW code, NEW claim, Exit(p, code, claim)
  PROVE  KeepsToLock(p)
  BY DEF Exit, LeaveLock, KeepsToLock, LockStep

\* So is ending it because one operation failed, or because it refuses.
LEMMA FailureKeepsToLock ==
  ASSUME NEW p \in Runs, NEW code, NEW claim,
         FailWith(p, code, claim) \/ Refuse(p, code)
  PROVE  KeepsToLock(p)
  BY ExitKeepsToLock DEF FailWith, Refuse

\* Every step of a command that nothing disturbs keeps to the lock.
LEMMA ProgressKeepsToLock ==
  ASSUME NEW p \in Runs, Progress(p)
  PROVE  KeepsToLock(p)
<1>1. CASE LoadPlan(p) \/ MakeStaging(p) \/ PolicyAllows(p) \/ ResolveArgo(p)
  BY <1>1 DEF LoadPlan, MakeStaging, PolicyAllows, ResolveArgo, KeepsToLock
<1>2. CASE NothingToLint(p)
  BY <1>2, FailureKeepsToLock DEF NothingToLint
<1>3. CASE WaitForLock(p)
  BY <1>3 DEF WaitForLock, KeepsToLock, LockStep, LockAcquire
<1>4. CASE EnterLock(p)
  BY <1>4 DEF EnterLock, KeepsToLock, LockStep, LockAcquire, Attempt
<1>5. CASE LockTimesOut(p)
  BY <1>5 DEF LockTimesOut, KeepsToLock, LockStep, LockAcquire, Attempt
<1>6. CASE ListOutput(p) \/ LintAnswers(p) \/ Preflight(p) \/ MakeOutput(p)
           \/ Published(p) \/ WritesDone(p) \/ ScanStale(p)
  BY <1>6 DEF ListOutput, LintAnswers, Preflight, MakeOutput, Published,
              WritesDone, ScanStale, KeepsToLock
<1>7. ASSUME NEW n \in Names, CopyForLint(p, n) \/ SymlinkedManifest(p, n)
      PROVE  KeepsToLock(p)
  <2>1. CASE CopyForLint(p, n)
    BY <2>1 DEF CopyForLint, KeepsToLock
  <2>2. CASE SymlinkedManifest(p, n)
    BY <2>2, FailureKeepsToLock DEF SymlinkedManifest
  <2> QED BY <1>7, <2>1, <2>2
<1>8. CASE SyntaxRejects(p)
  BY <1>8, ExitKeepsToLock DEF SyntaxRejects
<1>9. CASE DropCarried(p)
  BY <1>9 DEF DropCarried, LeaveLock, KeepsToLock, LockStep
<1>10. CASE NotOwned(p) \/ UnhashableLabel(p)
  BY <1>10, ExitKeepsToLock DEF NotOwned, UnhashableLabel
<1>11. CASE BeginPublish(p) \/ Publishing(p)
  BY <1>11 DEF BeginPublish, Publishing, KeepsToLock
<1>12. CASE PublishFailed(p)
  BY <1>12, ExitKeepsToLock DEF PublishFailed
<1>13. ASSUME NEW n \in Names,
              WriteOne(p, n) \/ PruneOne(p, n) \/ PruneGone(p, n)
       PROVE  KeepsToLock(p)
  <2>1. CASE WriteOne(p, n) \/ PruneOne(p, n)
    BY <2>1 DEF WriteOne, PruneOne, KeepsToLock
  <2>2. CASE PruneGone(p, n)
    BY <2>2, ExitKeepsToLock DEF PruneGone
  <2> QED BY <1>13, <2>1, <2>2
<1>14. CASE Succeed(p)
  BY <1>14, ExitKeepsToLock DEF Succeed
<1> QED BY <1>1, <1>2, <1>3, <1>4, <1>5, <1>6, <1>7, <1>8, <1>9, <1>10, <1>11,
           <1>12, <1>13, <1>14 DEF Progress

\* So does every failure, refusal and unreachable verdict.
LEMMA TroubleKeepsToLock ==
  ASSUME NEW p \in Runs, Trouble(p)
  PROVE  KeepsToLock(p)
<1>1. CASE BadPlan(p) \/ RendererRaises(p) \/ StagedUnreadable(p)
  BY <1>1, FailureKeepsToLock, ExitKeepsToLock
  DEF BadPlan, RendererRaises, StagedUnreadable
<1>2. CASE StagingUnavailable(p)
  BY <1>2, FailureKeepsToLock DEF StagingUnavailable
<1>3. CASE PolicyRefuses(p)
  BY <1>3, FailureKeepsToLock, ExitKeepsToLock DEF PolicyRefuses
<1>4. CASE RenderFails(p)
  BY <1>4, FailureKeepsToLock DEF RenderFails
<1>5. CASE ArgoMissing(p)
  BY <1>5, FailureKeepsToLock DEF ArgoMissing
<1>6. CASE LockErrs(p)
  BY <1>6 DEF LockErrs, KeepsToLock, LockStep, LockAcquire
<1>7. CASE SnapshotFails(p)
  BY <1>7, FailureKeepsToLock DEF SnapshotFails
<1>8. CASE LinterSilent(p)
  BY <1>8, FailureKeepsToLock DEF LinterSilent
<1>9. CASE DropFails(p)
  BY <1>9, FailureKeepsToLock DEF DropFails
<1>10. CASE PreflightFails(p)
  BY <1>10, FailureKeepsToLock DEF PreflightFails
<1>11. CASE MakeOutputFails(p)
  BY <1>11, ExitKeepsToLock DEF MakeOutputFails
<1>12. CASE WriteFails(p)
  BY <1>12, FailureKeepsToLock DEF WriteFails
<1>13. CASE ScanFails(p)
  BY <1>13, FailureKeepsToLock DEF ScanFails
<1>14. CASE PruneFails(p)
  BY <1>14, FailureKeepsToLock DEF PruneFails
<1> QED BY <1>1, <1>2, <1>3, <1>4, <1>5, <1>6, <1>7, <1>8, <1>9, <1>10, <1>11,
           <1>12, <1>13, <1>14 DEF Trouble

\* And being killed.
LEMMA KillKeepsToLock ==
  ASSUME NEW p \in Runs, Kill(p)
  PROVE  KeepsToLock(p)
  BY DEF Kill, KeepsToLock, LockStep

\* Every step of the commands is a step of PublishLock or leaves it alone.
LEMMA RenderStepsKeepToLock == [RenderNext]_allVars => [LockNext]_lockVars
<1> SUFFICES ASSUME [RenderNext]_allVars PROVE [LockNext]_lockVars
  OBVIOUS
<1>1. CASE UNCHANGED allVars
  BY <1>1 DEF allVars
<1>2. CASE TimePasses
  BY <1>2 DEF TimePasses, LockNext
<1>3. ASSUME NEW p \in Runs, RunStep(p) \/ Kill(p)
      PROVE  [LockNext]_lockVars
  <2>1. KeepsToLock(p)
    BY <1>3, ProgressKeepsToLock, TroubleKeepsToLock, KillKeepsToLock
    DEF RunStep
  <2> QED BY <2>1 DEF KeepsToLock, LockNext
<1> QED BY <1>1, <1>2, <1>3 DEF RenderNext

\* No command touches the lock but as PublishLock says: RenderCommands
\* implements it.
THEOREM RenderUsesLock == RenderSafeSpec => UsesLock
<1>1. RenderInit => LockInit
  BY DEF RenderInit
<1> QED BY <1>1, RenderStepsKeepToLock, PTL
        DEF RenderSafeSpec, UsesLock, LockSafeSpec

\* So two commands are never inside one directory's lock at a time.
THEOREM RenderExcludes == RenderSafeSpec => []LockMutex
  BY RenderUsesLock, LockExcludes, PTL DEF UsesLock

-----------------------------------------------------------------------------
\* The phases in which a gate reads or changes the output.
GateWork ==
  {"list", "copy", "drop", "preflight", "publish", "scan", "prune"}

\* GateActsUnderLock is not inductive: from a phase of the other commands a
\* gate could step into one of its own without the lock, so the invariant says
\* that it never comes there.
GateLocked ==
  /\ job \in [Runs -> Jobs]
  /\ pc \in [Runs -> Phases]
  /\ lk \in [Runs -> LockPhases]
  /\ \A p \in Runs : job[p].kind = "gate" =>
       /\ pc[p] \notin {"mkdir", "kstage", "write"}
       /\ pc[p] \in GateWork => lk[p] = "held"

\* Which is what the property asks for.
LEMMA GateLockedImplies == GateLocked => GateActsUnderLock
  BY DEF GateLocked, GateActsUnderLock, GateWork

\* A step of PublishLock by one run moves no other run.
LEMMA LockMovesOne ==
  ASSUME NEW p \in Runs, lk \in [Runs -> LockPhases], KeepsToLock(p)
  PROVE  /\ lk' \in [Runs -> LockPhases]
         /\ \A q \in Runs \ {p} : lk'[q] = lk[q]
<1> USE DEF Enter, LockPhases
<1>1. CASE LockAcquire(p)
  BY <1>1 DEF LockAcquire, OpenLock, LockUnopenable, Attempt, Grant, Timeout,
              RefuseUnsupported, GoOnUnlocked, OtherErrno
<1>2. CASE Release(p) \/ DieLocked(p)
  BY <1>2 DEF Release, DieLocked
<1>3. CASE UNCHANGED lockVars
  BY <1>3 DEF lockVars
<1> QED BY <1>1, <1>2, <1>3 DEF KeepsToLock, LockStep

\* One run goes to another phase, to one a gate may be in.
LEMMA PhaseKeepsGateLocked ==
  ASSUME GateLocked, NEW p \in Runs, NEW phase \in Phases, KeepsToLock(p),
         pc' = [pc EXCEPT ![p] = phase], UNCHANGED job,
         job[p].kind = "gate" =>
           /\ phase \notin {"mkdir", "kstage", "write"}
           /\ phase \in GateWork => lk'[p] = "held"
  PROVE  GateLocked'
<1>1. /\ lk' \in [Runs -> LockPhases]
      /\ \A q \in Runs \ {p} : lk'[q] = lk[q]
  BY LockMovesOne DEF GateLocked
<1>2. job' \in [Runs -> Jobs] /\ pc' \in [Runs -> Phases]
  BY DEF GateLocked
<1>3. ASSUME NEW q \in Runs, job'[q].kind = "gate"
      PROVE  /\ pc'[q] \notin {"mkdir", "kstage", "write"}
             /\ pc'[q] \in GateWork => lk'[q] = "held"
  BY <1>1, <1>3 DEF GateLocked
<1> QED BY <1>1, <1>2, <1>3 DEF GateLocked

\* One run stays where it is and keeps the lock as it has it.
LEMMA StayingKeepsGateLocked ==
  ASSUME GateLocked, UNCHANGED <<job, pc, lk>>
  PROVE  GateLocked'
  BY DEF GateLocked

\* One run goes on without touching the lock.
LEMMA StepKeepsGateLocked ==
  ASSUME GateLocked, NEW p \in Runs, NEW phase \in Phases, Step(p, phase),
         UNCHANGED lockVars,
         job[p].kind = "gate" =>
           /\ phase \notin {"mkdir", "kstage", "write"}
           /\ phase \in GateWork => lk[p] = "held"
  PROVE  GateLocked'
<1>1. lk' = lk
  BY DEF lockVars
<1> QED BY <1>1, PhaseKeepsGateLocked DEF Step, KeepsToLock

\* A command that ends acts no more.
LEMMA EndKeepsGateLocked ==
  ASSUME GateLocked, NEW p \in Runs, KeepsToLock(p),
         NEW code, NEW claim, End(p, code, claim)
  PROVE  GateLocked'
  BY PhaseKeepsGateLocked DEF End, Phases, GateWork

\* An end leaves no gate acting.
LEMMA ExitKeepsGateLocked ==
  ASSUME GateLocked, NEW p \in Runs, NEW code, NEW claim,
         \/ Exit(p, code, claim)
         \/ FailWith(p, code, claim)
         \/ Refuse(p, code)
  PROVE  GateLocked'
  BY ExitKeepsToLock, EndKeepsGateLocked DEF FailWith, Refuse, Exit

\* A gate that nothing disturbs.
LEMMA ProgressKeepsGateLocked ==
  ASSUME GateLocked, NEW p \in Runs, Progress(p)
  PROVE  GateLocked'
<1> USE DEF Phases, GateWork
<1>k. KeepsToLock(p)
  BY ProgressKeepsToLock
<1>j. job[p].kind \in Kinds
  BY JobsAssumption DEF GateLocked
<1>g. job[p].kind = "gate" =>
        /\ pc[p] \notin {"mkdir", "kstage", "write"}
        /\ pc[p] \in GateWork => lk[p] = "held"
  BY DEF GateLocked
<1>1. CASE LoadPlan(p)
  <2>1. PICK phase \in {"stage", "lock", "policy"} : Step(p, phase)
    BY <1>1, <1>j DEF LoadPlan, Kinds
  <2> QED BY <1>1, <2>1, StepKeepsGateLocked DEF LoadPlan
<1>2. CASE MakeStaging(p)
  BY <1>2, StepKeepsGateLocked DEF MakeStaging
<1>3. CASE PolicyAllows(p)
  <2>1. PICK phase \in {"lock", "resolve", "mkdir"} :
          Step(p, phase) /\ (job[p].kind = "gate" => phase # "mkdir")
    BY <1>3, <1>j DEF PolicyAllows, Kinds
  <2> QED BY <1>3, <2>1, StepKeepsGateLocked DEF PolicyAllows
<1>4. CASE ResolveArgo(p)
  BY <1>4, StepKeepsGateLocked DEF ResolveArgo
<1>5. CASE NothingToLint(p)
  BY <1>5, ExitKeepsGateLocked DEF NothingToLint
<1>6. CASE WaitForLock(p)
  <2>1. pc' = [pc EXCEPT ![p] = "lock"] /\ UNCHANGED job
    BY <1>6 DEF WaitForLock, runVars, GateLocked
  <2> QED BY <1>k, <2>1, PhaseKeepsGateLocked
<1>7. CASE EnterLock(p)
  <2>1. PICK phase \in {"scan", "list", "policy", "preflight"} : Step(p, phase)
    BY <1>7, <1>j DEF EnterLock, Entered, Kinds
  <2>2. job[p].kind = "gate" => lk'[p] = "held"
    BY <1>7 DEF EnterLock, Grant, Enter, GateLocked
  <2> QED BY <1>k, <2>1, <2>2, PhaseKeepsGateLocked DEF Step
<1>8. CASE LockTimesOut(p)
  BY <1>8, <1>k, EndKeepsGateLocked DEF LockTimesOut, LockRefused
<1>9. CASE ListOutput(p)
  BY <1>9, <1>g, StepKeepsGateLocked DEF ListOutput
<1>10. ASSUME NEW n \in Names, CopyForLint(p, n) \/ SymlinkedManifest(p, n)
       PROVE  GateLocked'
  <2>1. CASE CopyForLint(p, n)
    BY <2>1, StayingKeepsGateLocked DEF CopyForLint, lockVars
  <2>2. CASE SymlinkedManifest(p, n)
    BY <2>2, ExitKeepsGateLocked DEF SymlinkedManifest
  <2> QED BY <1>10, <2>1, <2>2
<1>11. CASE SyntaxRejects(p)
  BY <1>11, ExitKeepsGateLocked DEF SyntaxRejects
<1>12. CASE LintAnswers(p)
  BY <1>12, <1>g, StepKeepsGateLocked DEF LintAnswers, Copied
<1>13. CASE DropCarried(p)
  <2>1. CASE Step(p, "preflight") /\ UNCHANGED lockVars
    BY <1>13, <1>g, <2>1, StepKeepsGateLocked DEF DropCarried
  <2>2. CASE pc' = [pc EXCEPT ![p] = "done"] /\ UNCHANGED job
    BY <1>k, <2>2, PhaseKeepsGateLocked
  <2> QED BY <1>13, <2>1, <2>2 DEF DropCarried
<1>14. CASE Preflight(p)
  <2>1. PICK phase \in {"publish", "write", "kstage"} :
          Step(p, phase) /\ (job[p].kind = "gate" => phase = "publish")
    BY <1>14, <1>j DEF Preflight, Kinds
  <2> QED BY <1>14, <1>g, <2>1, StepKeepsGateLocked DEF Preflight
<1>15. CASE NotOwned(p) \/ UnhashableLabel(p)
  BY <1>15, ExitKeepsGateLocked DEF NotOwned, UnhashableLabel
<1>16. CASE MakeOutput(p)
  <2>1. PICK phase \in {"preflight", "publish"} : Step(p, phase)
    BY <1>16 DEF MakeOutput
  <2>2. job[p].kind # "gate"
    BY <1>16, <1>g DEF MakeOutput
  <2> QED BY <1>16, <2>1, <2>2, StepKeepsGateLocked DEF MakeOutput
<1>17. CASE BeginPublish(p) \/ Publishing(p)
  BY <1>17, StayingKeepsGateLocked DEF BeginPublish, Publishing, lockVars, runVars
<1>18. CASE Published(p)
  BY <1>18, <1>g, StepKeepsGateLocked DEF Published
<1>19. CASE PublishFailed(p)
  BY <1>19, ExitKeepsGateLocked DEF PublishFailed
<1>20. ASSUME NEW n \in Names,
              WriteOne(p, n) \/ PruneOne(p, n) \/ PruneGone(p, n)
       PROVE  GateLocked'
  <2>1. CASE WriteOne(p, n) \/ PruneOne(p, n)
    BY <2>1, StayingKeepsGateLocked DEF WriteOne, PruneOne, lockVars
  <2>2. CASE PruneGone(p, n)
    BY <2>2, ExitKeepsGateLocked DEF PruneGone
  <2> QED BY <1>20, <2>1, <2>2
<1>21. CASE WritesDone(p)
  BY <1>21, <1>g, StepKeepsGateLocked DEF WritesDone
<1>22. CASE ScanStale(p)
  BY <1>22, <1>g, StepKeepsGateLocked DEF ScanStale
<1>23. CASE Succeed(p)
  BY <1>23, ExitKeepsGateLocked DEF Succeed
<1> QED BY <1>1, <1>2, <1>3, <1>4, <1>5, <1>6, <1>7, <1>8, <1>9, <1>10, <1>11,
           <1>12, <1>13, <1>14, <1>15, <1>16, <1>17, <1>18, <1>19, <1>20,
           <1>21, <1>22, <1>23
    DEF Progress

\* A gate that fails or refuses ends.
LEMMA TroubleKeepsGateLocked ==
  ASSUME GateLocked, NEW p \in Runs, Trouble(p)
  PROVE  GateLocked'
<1>1. CASE LockErrs(p)
  <2>1. KeepsToLock(p)
    BY TroubleKeepsToLock
  <2> QED BY <1>1, <2>1, EndKeepsGateLocked DEF LockErrs, LockRefused
<1>2. CASE MakeOutputFails(p)
  BY <1>2, ExitKeepsGateLocked DEF MakeOutputFails
<1>3. CASE BadPlan(p) \/ PolicyRefuses(p) \/ RendererRaises(p) \/ StagedUnreadable(p)
  BY <1>3, ExitKeepsGateLocked
  DEF BadPlan, PolicyRefuses, RendererRaises, StagedUnreadable
<1>4. CASE StagingUnavailable(p) \/ RenderFails(p) \/ ArgoMissing(p)
           \/ SnapshotFails(p) \/ LinterSilent(p)
  BY <1>4, ExitKeepsGateLocked
  DEF StagingUnavailable, RenderFails, ArgoMissing, SnapshotFails, LinterSilent
<1>5. CASE DropFails(p) \/ PreflightFails(p) \/ WriteFails(p)
           \/ ScanFails(p) \/ PruneFails(p)
  BY <1>5, ExitKeepsGateLocked
  DEF DropFails, PreflightFails, WriteFails, ScanFails, PruneFails
<1> QED BY <1>1, <1>2, <1>3, <1>4, <1>5 DEF Trouble

\* A gate that is killed acts no more.
LEMMA KillKeepsGateLocked ==
  ASSUME GateLocked, NEW p \in Runs, Kill(p)
  PROVE  GateLocked'
  BY KillKeepsToLock, PhaseKeepsGateLocked DEF Kill, Phases, GateWork

\* A gate lists, lints, publishes and prunes only while it holds the lock, for
\* any number of runs, on a filesystem that can lock, cannot, or answers ENOLCK
\* now and then.
THEOREM GatesActLocked == RenderSafeSpec => []GateActsUnderLock
<1>1. RenderInit => GateLocked
  BY DEF RenderInit, LockInit, GateLocked, GateWork, Phases, LockPhases
<1>2. GateLocked /\ [RenderNext]_allVars => GateLocked'
  <2> SUFFICES ASSUME GateLocked, [RenderNext]_allVars PROVE GateLocked'
    OBVIOUS
  <2>1. CASE UNCHANGED allVars
    BY <2>1, StayingKeepsGateLocked DEF allVars, lockVars, runVars
  <2>2. CASE TimePasses
    BY <2>2, StayingKeepsGateLocked DEF TimePasses, Tick, runVars
  <2>3. ASSUME NEW p \in Runs, RunStep(p) \/ Kill(p)
        PROVE  GateLocked'
    BY <2>3, ProgressKeepsGateLocked, TroubleKeepsGateLocked,
       KillKeepsGateLocked DEF RunStep
  <2> QED BY <2>1, <2>2, <2>3 DEF RenderNext
<1> QED BY <1>1, <1>2, GateLockedImplies, PTL DEF RenderSafeSpec

-----------------------------------------------------------------------------
\* Type correctness.  A gate copies what the directory holds, a publish moves
\* what its backup holds, so RenderTypeOK alone is not inductive.
Claims == {"running", "traceback", "unchanged", "rolledback", "modified", "done"}
Verdicts == {"none", "invalid", "denied", "rejected", "passed"}
FilesTyped ==
  /\ dir \in Contents
  /\ staged \in [Runs -> Contents]
  /\ backup \in [Runs -> Contents]
RenderTyped == RenderTypeOK /\ FilesTyped

\* Changing one file leaves contents.
LEMMA ContentsChange ==
  ASSUME NEW c \in Contents, NEW n \in Names, NEW x \in Files \cup {Absent}
  PROVE  [c EXCEPT ![n] = x] \in Contents
  BY DEF Contents

\* The empty directory is a directory.
LEMMA NothingIsContents == Nothing \in Contents
  BY DEF Nothing, Contents

\* What a job renders is a set of manifests.
LEMMA RenderedIsContents ==
  ASSUME RenderTyped, NEW p \in Runs
  PROVE  Rendered(p) \in Contents /\ job[p].kind \in Kinds
  BY JobsAssumption DEF RenderTyped, RenderTypeOK, Rendered

\* What _publish does to the files.
LEMMA PublishKeepsFilesTyped ==
  ASSUME FilesTyped, NEW p \in Runs, PublishStep(p)
  PROVE  FilesTyped'
<1> USE DEF FilesTyped
<1>1. CASE MakeOutputDir(p) \/ MakeOutputDirFails(p) \/ InstallFails(p)
           \/ StartRestore(p) \/ RollbackIncomplete(p) \/ RemoveCreated(p)
  BY <1>1 DEF MakeOutputDir, MakeOutputDirFails, InstallFails, StartRestore,
              RollbackIncomplete, RemoveCreated
<1>2. CASE RollbackComplete(p) \/ Commit(p)
  BY <1>2, NothingIsContents DEF RollbackComplete, Commit, DiscardBackup
<1>3. ASSUME NEW n \in Names,
             \/ Displace(p, n) \/ Place(p, n) \/ Unlink(p, n) \/ UnlinkFails(p, n)
             \/ Restore(p, n) \/ RestoreFails(p, n)
      PROVE  FilesTyped'
  <2>1. /\ dir[n] \in Files \cup {Absent}
        /\ staged[p][n] \in Files \cup {Absent}
        /\ backup[p][n] \in Files \cup {Absent}
    BY DEF Contents
  <2>2. ASSUME NEW x \in Files \cup {Absent}
        PROVE  /\ [dir EXCEPT ![n] = x] \in Contents
               /\ [backup EXCEPT ![p][n] = x] \in [Runs -> Contents]
    BY ContentsChange
  <2>3. CASE Displace(p, n)
    <3>1. dir' = [dir EXCEPT ![n] = Absent] /\ staged' = staged
      BY <2>3 DEF Displace
    <3>2. backup' = [backup EXCEPT ![p][n] = dir[n]]
      BY <2>3 DEF Displace
    <3>3. dir' \in Contents
      BY <2>2, <3>1
    <3>4. backup' \in [Runs -> Contents]
      BY <2>1, <2>2, <3>2
    <3> QED BY <3>1, <3>3, <3>4
  <2>4. CASE Restore(p, n)
    <3>1. dir' = [dir EXCEPT ![n] = backup[p][n]] /\ staged' = staged
      BY <2>4 DEF Restore
    <3>2. backup' = [backup EXCEPT ![p][n] = Absent]
      BY <2>4 DEF Restore
    <3>3. dir' \in Contents
      BY <2>1, <2>2, <3>1
    <3>4. backup' \in [Runs -> Contents]
      BY <2>2, <3>2
    <3> QED BY <3>1, <3>3, <3>4
  <2>6. CASE Place(p, n)
    <3>1. /\ dir' = [dir EXCEPT ![n] = staged[p][n]]
          /\ staged' = staged /\ backup' = backup
      BY <2>6 DEF Place
    <3>2. dir' \in Contents
      BY <2>1, <2>2, <3>1
    <3> QED BY <3>1, <3>2
  <2>7. CASE Unlink(p, n)
    <3>1. /\ dir' = [dir EXCEPT ![n] = Absent]
          /\ staged' = staged /\ backup' = backup
      BY <2>7 DEF Unlink
    <3>2. dir' \in Contents
      BY <2>2, <3>1
    <3> QED BY <3>1, <3>2
  <2>5. CASE UnlinkFails(p, n) \/ RestoreFails(p, n)
    BY <2>5 DEF UnlinkFails, RestoreFails
  <2> QED BY <1>3, <2>3, <2>4, <2>5, <2>6, <2>7
<1> QED BY <1>1, <1>2, <1>3 DEF PublishStep

\* A command that ends, whatever it decides.
LEMMA EndKeepsTyped ==
  ASSUME RenderTyped, NEW p \in Runs, NEW code \in {0, 1, 2}, NEW claim \in Claims,
         End(p, code, claim), FilesTyped', verdict' \in [Runs -> Verdicts]
  PROVE  RenderTyped'
  BY DEF End, RenderTyped, RenderTypeOK, Phases, Claims, Verdicts

\* A decision is a verdict.
LEMMA VerdictTyped ==
  ASSUME RenderTyped
  PROVE  /\ verdict \in [Runs -> Verdicts]
         /\ \A p \in Runs, v \in Verdicts : Decide(p, v) => verdict' \in [Runs -> Verdicts]
  BY DEF RenderTyped, RenderTypeOK, Decide, Verdicts

\* Ending a command keeps the types.
LEMMA ExitKeepsTyped ==
  ASSUME RenderTyped, NEW p \in Runs, NEW code \in {0, 1, 2}, NEW claim \in Claims,
         \/ Exit(p, code, claim) /\ UNCHANGED <<verdict, dir, staged, backup>>
         \/ FailWith(p, code, claim)
         \/ Refuse(p, code)
  PROVE  RenderTyped'
<1>1. UNCHANGED <<verdict, dir, staged, backup>>
  BY DEF FailWith, Refuse, pubVars, publishing
<1>2. End(p, code, claim) \/ End(p, code, "unchanged")
  BY DEF FailWith, Refuse, Exit
<1>3. FilesTyped'
  BY <1>1 DEF RenderTyped, FilesTyped
<1> QED BY <1>1, <1>2, <1>3, EndKeepsTyped, VerdictTyped DEF Claims

\* A verdict and the exit it is reported with.
LEMMA VerdictExitKeepsTyped ==
  ASSUME RenderTyped, NEW p \in Runs, NEW v \in Verdicts, Decide(p, v),
         Exit(p, 1, "unchanged"), UNCHANGED <<dir, staged, backup>>
  PROVE  RenderTyped'
<1>1. FilesTyped'
  BY DEF RenderTyped, FilesTyped
<1> QED BY <1>1, EndKeepsTyped, VerdictTyped DEF Exit, Claims

\* A command that goes on to another phase.
LEMMA StepKeepsTyped ==
  ASSUME RenderTyped, NEW p \in Runs, NEW phase \in Phases, Step(p, phase), FilesTyped',
         tolint' \in [Runs -> Contents], left' \in [Runs -> SUBSET Names],
         verdict' \in [Runs -> Verdicts], judged' \in [Runs -> Contents],
         found' \in [Runs -> Contents]
  PROVE  RenderTyped'
  BY DEF Step, RenderTyped, RenderTypeOK, Verdicts

\* Everything a phase may leave alone is typed already.
LEMMA TypedAlready ==
  ASSUME RenderTyped
  PROVE  /\ tolint \in [Runs -> Contents] /\ left \in [Runs -> SUBSET Names]
         /\ verdict \in [Runs -> Verdicts] /\ judged \in [Runs -> Contents]
         /\ found \in [Runs -> Contents] /\ FilesTyped
         /\ UNCHANGED pubVars => FilesTyped'
  BY DEF RenderTyped, RenderTypeOK, FilesTyped, Verdicts, pubVars

\* A run that nothing disturbs stays typed.
LEMMA ProgressKeepsTyped ==
  ASSUME RenderTyped, NEW p \in Runs, Progress(p)
  PROVE  RenderTyped'
<1>s. Rendered(p) \in Contents /\ job[p].kind \in Kinds
  BY RenderedIsContents
<1>p. \A c \in Contents : Present(c) \subseteq Names
  BY DEF Present
<1>l. \A s \in SUBSET Names : [left EXCEPT ![p] = s] \in [Runs -> SUBSET Names]
  BY TypedAlready
<1>c. \A x \in Contents :
        /\ [tolint EXCEPT ![p] = x] \in [Runs -> Contents]
        /\ [judged EXCEPT ![p] = x] \in [Runs -> Contents]
        /\ [found EXCEPT ![p] = x] \in [Runs -> Contents]
        /\ [staged EXCEPT ![p] = x] \in [Runs -> Contents]
  BY TypedAlready DEF FilesTyped
<1>r. left[p] \in SUBSET Names /\ tolint[p] \in Contents /\ dir \in Contents
  BY TypedAlready DEF FilesTyped
<1>1. CASE LoadPlan(p)
  <2>1. PICK phase \in {"stage", "lock", "policy"} : Step(p, phase)
    BY <1>1, <1>s DEF LoadPlan, Kinds
  <2> QED BY <1>1, <2>1, StepKeepsTyped, TypedAlready DEF LoadPlan, Phases
<1>2. CASE MakeStaging(p)
  BY <1>2, StepKeepsTyped, TypedAlready DEF MakeStaging, Phases
<1>3. CASE PolicyAllows(p)
  <2>1. PICK phase \in {"lock", "resolve", "mkdir"} : Step(p, phase)
    BY <1>3, <1>s DEF PolicyAllows, Kinds
  <2>2. tolint' \in [Runs -> Contents]
    BY <1>3, <1>s, <1>c, TypedAlready DEF PolicyAllows
  <2> QED BY <1>3, <2>1, <2>2, StepKeepsTyped, TypedAlready DEF PolicyAllows, Phases
<1>4. CASE ResolveArgo(p)
  BY <1>4, StepKeepsTyped, TypedAlready DEF ResolveArgo, Phases
<1>5. CASE NothingToLint(p)
  BY <1>5, ExitKeepsTyped DEF NothingToLint, Claims
<1>6. CASE WaitForLock(p) \/ BeginPublish(p) \/ Publishing(p)
  <2>1. FilesTyped'
    <3>1. CASE WaitForLock(p)
      BY <3>1, TypedAlready DEF WaitForLock
    <3>2. CASE BeginPublish(p)
      BY <3>2, <1>s, <1>c, TypedAlready
      DEF BeginPublish, PublishBegin, PublishRefused, FilesTyped
    <3>3. CASE Publishing(p)
      BY <3>3, PublishKeepsFilesTyped, TypedAlready DEF Publishing
    <3> QED BY <1>6, <3>1, <3>2, <3>3
  <2>2. UNCHANGED runVars
    BY <1>6 DEF WaitForLock, BeginPublish, Publishing
  <2> QED BY <2>1, <2>2 DEF RenderTyped, RenderTypeOK, runVars
<1>7. CASE EnterLock(p)
  <2>1. PICK phase \in {"scan", "list", "policy", "preflight"} : Step(p, phase)
    BY <1>7, <1>s DEF EnterLock, Entered, Kinds
  <2>2. found' \in [Runs -> Contents]
    BY <1>7, <1>c, <1>r DEF EnterLock, Entered
  <2> QED BY <1>7, <2>1, <2>2, StepKeepsTyped, TypedAlready DEF EnterLock, Entered, Phases
<1>8. CASE LockTimesOut(p)
  BY <1>8, EndKeepsTyped, TypedAlready DEF LockTimesOut, LockRefused, Claims
<1>9. CASE ListOutput(p)
  <2>1. left' \in [Runs -> SUBSET Names]
    BY <1>9, <1>l DEF ListOutput, Present
  <2> QED BY <1>9, <2>1, StepKeepsTyped, TypedAlready DEF ListOutput, Phases
<1>10. ASSUME NEW n \in Names, CopyForLint(p, n) \/ SymlinkedManifest(p, n)
       PROVE  RenderTyped'
  <2>1. CASE CopyForLint(p, n)
    <3>1. dir[n] \in Files \cup {Absent}
      BY <1>r DEF Contents
    <3>2. tolint' \in [Runs -> Contents]
      BY <2>1, <3>1, <1>r, ContentsChange, TypedAlready DEF CopyForLint
    <3>3. left' \in [Runs -> SUBSET Names]
      BY <2>1, <1>r, <1>l DEF CopyForLint
    <3>4. FilesTyped' /\ UNCHANGED <<job, pc, verdict, exit, said, judged, found>>
      BY <2>1, TypedAlready DEF CopyForLint
    <3> QED BY <3>2, <3>3, <3>4 DEF RenderTyped, RenderTypeOK
  <2>2. CASE SymlinkedManifest(p, n)
    BY <2>2, ExitKeepsTyped DEF SymlinkedManifest, Claims
  <2> QED BY <1>10, <2>1, <2>2
<1>11. CASE SyntaxRejects(p)
  BY <1>11, VerdictExitKeepsTyped DEF SyntaxRejects, Verdicts, pubVars
<1>12. CASE LintAnswers(p)
  <2>1. verdict' \in [Runs -> Verdicts]
    BY <1>12, VerdictTyped DEF LintAnswers, Verdicts
  <2>2. judged' \in [Runs -> Contents]
    BY <1>12, <1>c, <1>r DEF LintAnswers
  <2> QED BY <1>12, <2>1, <2>2, StepKeepsTyped, TypedAlready DEF LintAnswers, Phases
<1>13. CASE DropCarried(p)
  <2>1. tolint' \in [Runs -> Contents] /\ FilesTyped' /\ UNCHANGED <<left, judged, found>>
    BY <1>13, <1>s, <1>c, TypedAlready DEF DropCarried
  <2>2. CASE Step(p, "preflight") /\ UNCHANGED verdict
    BY <2>1, <2>2, StepKeepsTyped, TypedAlready DEF Phases
  <2>3. CASE /\ Decide(p, "rejected")
             /\ pc' = [pc EXCEPT ![p] = "done"] /\ exit' = [exit EXCEPT ![p] = 1]
             /\ said' = [said EXCEPT ![p] = "unchanged"] /\ UNCHANGED job
    <3>1. verdict' \in [Runs -> Verdicts]
      BY <2>3, VerdictTyped DEF Verdicts
    <3> QED BY <2>1, <2>3, <3>1 DEF RenderTyped, RenderTypeOK, Phases, Verdicts
  <2> QED BY <1>13, <2>2, <2>3 DEF DropCarried
<1>14. CASE Preflight(p)
  <2>1. PICK phase \in {"publish", "write", "kstage"} : Step(p, phase)
    BY <1>14, <1>s DEF Preflight, Kinds
  <2>2. left' \in [Runs -> SUBSET Names]
    BY <1>14, <1>l, <1>p, <1>s DEF Preflight
  <2> QED BY <1>14, <2>1, <2>2, StepKeepsTyped, TypedAlready DEF Preflight, Phases
<1>15. CASE NotOwned(p) \/ UnhashableLabel(p)
  <2>1. UNCHANGED <<verdict, dir, staged, backup>>
    BY <1>15 DEF NotOwned, UnhashableLabel, pubVars
  <2>2. PICK code \in {1, 2}, claim \in Claims : Exit(p, code, claim)
    BY <1>15 DEF NotOwned, UnhashableLabel, Claims
  <2> QED BY <2>1, <2>2, ExitKeepsTyped
<1>16. CASE MakeOutput(p)
  <2>1. PICK phase \in {"preflight", "publish"} : Step(p, phase)
    BY <1>16 DEF MakeOutput
  <2>2. FilesTyped'
    BY <1>16, TypedAlready DEF MakeOutput, publishing, FilesTyped
  <2> QED BY <1>16, <2>1, <2>2, StepKeepsTyped, TypedAlready DEF MakeOutput, Phases
<1>17. CASE Published(p)
  BY <1>17, StepKeepsTyped, TypedAlready DEF Published, Phases
<1>18. CASE PublishFailed(p)
  <2>1. UNCHANGED <<verdict, dir, staged, backup>>
    BY <1>18 DEF PublishFailed, pubVars
  <2>2. PICK claim \in Claims : Exit(p, 2, claim)
    BY <1>18 DEF PublishFailed, Claims
  <2> QED BY <2>1, <2>2, ExitKeepsTyped
<1>19. ASSUME NEW n \in Names, WriteOne(p, n) \/ PruneOne(p, n) \/ PruneGone(p, n)
       PROVE  RenderTyped'
  <2>1. CASE WriteOne(p, n) \/ PruneOne(p, n)
    <3>1. Rendered(p)[n] \in Files \cup {Absent}
      BY <1>s DEF Contents
    <3>2. dir' \in Contents
      BY <2>1, <3>1, <1>r, ContentsChange DEF WriteOne, PruneOne
    <3>3. left' \in [Runs -> SUBSET Names]
      BY <2>1, <1>r, <1>l DEF WriteOne, PruneOne
    <3>4. /\ UNCHANGED <<job, pc, tolint, verdict, exit, said, judged, found>>
          /\ UNCHANGED <<staged, backup>>
      BY <2>1 DEF WriteOne, PruneOne, publishing
    <3> QED BY <3>2, <3>3, <3>4 DEF RenderTyped, RenderTypeOK, FilesTyped
  <2>2. CASE PruneGone(p, n)
    BY <2>2, ExitKeepsTyped DEF PruneGone, Claims, pubVars
  <2> QED BY <1>19, <2>1, <2>2
<1>20. CASE WritesDone(p)
  BY <1>20, StepKeepsTyped, TypedAlready DEF WritesDone, Phases
<1>21. CASE ScanStale(p)
  <2>1. left' \in [Runs -> SUBSET Names]
    BY <1>21, <1>l DEF ScanStale, Present
  <2> QED BY <1>21, <2>1, StepKeepsTyped, TypedAlready DEF ScanStale, Phases
<1>22. CASE Succeed(p)
  BY <1>22, ExitKeepsTyped DEF Succeed, Claims, pubVars
<1> QED BY <1>1, <1>2, <1>3, <1>4, <1>5, <1>6, <1>7, <1>8, <1>9, <1>10, <1>11,
           <1>12, <1>13, <1>14, <1>15, <1>16, <1>17, <1>18, <1>19, <1>20,
           <1>21, <1>22
    DEF Progress

\* Failures and refusals end a run with one of the codes.
LEMMA TroubleKeepsTyped ==
  ASSUME RenderTyped, NEW p \in Runs, Trouble(p)
  PROVE  RenderTyped'
<1> USE DEF Claims
<1>1. CASE LockErrs(p)
  BY <1>1, EndKeepsTyped, TypedAlready DEF LockErrs, LockRefused
<1>2. CASE BadPlan(p) \/ PolicyRefuses(p)
  <2>1. CASE Refuse(p, 2)
    BY <2>1, ExitKeepsTyped
  <2>2. CASE \E v \in Verdicts : Decide(p, v) /\ Exit(p, 1, "unchanged") /\ UNCHANGED pubVars
    BY <2>2, VerdictExitKeepsTyped DEF pubVars
  <2> QED BY <1>2, <2>1, <2>2 DEF BadPlan, PolicyRefuses, Verdicts
<1>3. CASE MakeOutputFails(p)
  <2>1. UNCHANGED <<verdict, dir, staged, backup>>
    BY <1>3 DEF MakeOutputFails, publishing
  <2>2. Exit(p, 2, "unchanged") \/ Exit(p, 1, "traceback")
    BY <1>3 DEF MakeOutputFails
  <2> QED BY <2>1, <2>2, ExitKeepsTyped
<1>4. CASE StagingUnavailable(p) \/ RenderFails(p) \/ ArgoMissing(p)
           \/ SnapshotFails(p) \/ LinterSilent(p)
  BY <1>4, ExitKeepsTyped
  DEF StagingUnavailable, RenderFails, ArgoMissing, SnapshotFails, LinterSilent
<1>5. CASE DropFails(p) \/ PreflightFails(p) \/ WriteFails(p)
           \/ ScanFails(p) \/ PruneFails(p)
  BY <1>5, ExitKeepsTyped
  DEF DropFails, PreflightFails, WriteFails, ScanFails, PruneFails
<1>6. CASE RendererRaises(p)
  BY <1>6, ExitKeepsTyped DEF RendererRaises, pubVars
<1>7. CASE StagedUnreadable(p)
  <2>1. CASE FailWith(p, 1, "traceback")
    BY <2>1, ExitKeepsTyped
  <2>2. CASE /\ Decide(p, "rejected") /\ Exit(p, 1, "unchanged")
             /\ UNCHANGED <<dir, staged, backup>>
    BY <2>2, VerdictExitKeepsTyped DEF Verdicts
  <2> QED BY <1>7, <2>1, <2>2 DEF StagedUnreadable, publishing
<1> QED BY <1>1, <1>2, <1>3, <1>4, <1>5, <1>6, <1>7 DEF Trouble

\* A kill leaves every file where it is.
LEMMA KillKeepsTyped ==
  ASSUME RenderTyped, NEW p \in Runs, Kill(p)
  PROVE  RenderTyped'
<1>1. UNCHANGED <<dir, staged, backup>>
  BY DEF Kill, Stop, pubVars
<1> QED BY <1>1 DEF Kill, RenderTyped, RenderTypeOK, FilesTyped, Phases

\* Every variable of the commands keeps its type, exit codes, verdicts and
\* reports included, for any runs, jobs, starting directories and failures.
THEOREM RenderTypeCorrect == RenderSafeSpec => []RenderTypeOK
<1>1. RenderInit => RenderTyped
  BY JobsAssumption, NothingIsContents
  DEF RenderInit, PublishInit, RenderTyped, RenderTypeOK, FilesTyped, Phases, NoExit
<1>2. RenderTyped /\ [RenderNext]_allVars => RenderTyped'
  <2> SUFFICES ASSUME RenderTyped, [RenderNext]_allVars PROVE RenderTyped'
    OBVIOUS
  <2>1. CASE UNCHANGED allVars \/ TimePasses
    BY <2>1 DEF allVars, TimePasses, pubVars, runVars, RenderTyped, RenderTypeOK, FilesTyped
  <2>2. ASSUME NEW p \in Runs, RunStep(p) \/ Kill(p)
        PROVE  RenderTyped'
    BY <2>2, ProgressKeepsTyped, TroubleKeepsTyped, KillKeepsTyped DEF RunStep
  <2> QED BY <2>1, <2>2 DEF RenderNext
<1>3. RenderTyped => RenderTypeOK
  BY DEF RenderTyped
<1> QED BY <1>1, <1>2, <1>3, PTL DEF RenderSafeSpec
-----------------------------------------------------------------------------
(***************************************************************************)
(* What a run decides.  A step of one run moves no other, so what holds of *)
(* one run needs only that run's own steps.                                *)
(***************************************************************************)

\* Run q is where it was and remembers what it did.
Stays(q) ==
  /\ job'[q] = job[q] /\ pc'[q] = pc[q] /\ tolint'[q] = tolint[q]
  /\ left'[q] = left[q] /\ verdict'[q] = verdict[q] /\ exit'[q] = exit[q]
  /\ said'[q] = said[q] /\ judged'[q] = judged[q] /\ found'[q] = found[q]

\* Only p's own entry of a function of runs changes.
OnlyAt(p, f, g) == \A q \in Runs \ {p} : g[q] = f[q]

\* Going on, ending and deciding are p's alone.
LEMMA StepIsOwn ==
  ASSUME RenderTypeOK, NEW p \in Runs, NEW phase, NEW code, NEW claim, NEW v
  PROVE  /\ Step(p, phase) => /\ OnlyAt(p, pc, pc')
                              /\ OnlyAt(p, job, job') /\ OnlyAt(p, exit, exit')
                              /\ OnlyAt(p, said, said')
         /\ End(p, code, claim) =>
              /\ OnlyAt(p, pc, pc') /\ OnlyAt(p, job, job')
              /\ OnlyAt(p, exit, exit') /\ OnlyAt(p, said, said')
              /\ OnlyAt(p, tolint, tolint') /\ OnlyAt(p, left, left')
              /\ OnlyAt(p, judged, judged') /\ OnlyAt(p, found, found')
         /\ Decide(p, v) => OnlyAt(p, verdict, verdict')
  BY DEF RenderTypeOK, Step, End, Decide, OnlyAt

\* Ending one run, with or without a verdict, moves no other.
LEMMA OthersStayWhenEnding ==
  ASSUME RenderTypeOK, NEW p \in Runs, NEW code, NEW claim, NEW q \in Runs \ {p},
         \/ End(p, code, claim) /\ UNCHANGED verdict
         \/ End(p, code, claim) /\ \E v \in Verdicts : Decide(p, v)
         \/ Refuse(p, code)
         \/ FailWith(p, code, claim)
  PROVE  Stays(q)
<1>1. End(p, code, claim) \/ End(p, code, "unchanged")
  BY DEF Refuse, FailWith, Exit
<1>2. UNCHANGED verdict \/ \E v \in Verdicts : Decide(p, v)
  BY DEF Refuse, FailWith
<1> QED BY <1>1, <1>2, StepIsOwn DEF Stays, OnlyAt

\* One run's step, failure or death leaves every other run where it is.
LEMMA OthersStayInProgress ==
  ASSUME RenderTypeOK, NEW p \in Runs, Progress(p), NEW q \in Runs \ {p}
  PROVE  Stays(q)
<1>1. CASE LoadPlan(p) \/ MakeStaging(p) \/ ResolveArgo(p)
  BY <1>1 DEF LoadPlan, MakeStaging, ResolveArgo, Step,
         RenderTypeOK, Stays
<1>2. CASE PolicyAllows(p) \/ ListOutput(p) \/ ScanStale(p)
  BY <1>2 DEF PolicyAllows, ListOutput, ScanStale, Step,
         RenderTypeOK, Stays
<1>3. CASE Preflight(p) \/ MakeOutput(p) \/ Published(p) \/ WritesDone(p)
  BY <1>3 DEF Preflight, MakeOutput, Published, WritesDone, Step,
         RenderTypeOK, Stays
<1>4. CASE WaitForLock(p) \/ BeginPublish(p) \/ Publishing(p)
  BY <1>4 DEF WaitForLock, BeginPublish, Publishing, runVars,
         RenderTypeOK, Stays
<1>5. CASE EnterLock(p)
  BY <1>5 DEF EnterLock, Entered, Step,
         RenderTypeOK, Stays
<1>6. CASE LockTimesOut(p) \/ NothingToLint(p) \/ Succeed(p)
  BY <1>6, OthersStayWhenEnding
  DEF LockTimesOut, LockRefused, NothingToLint, Succeed, Exit
<1>7. CASE NotOwned(p) \/ UnhashableLabel(p) \/ PublishFailed(p)
  BY <1>7, OthersStayWhenEnding DEF NotOwned, UnhashableLabel, PublishFailed, Exit
<1>8. CASE SyntaxRejects(p)
  BY <1>8, OthersStayWhenEnding DEF SyntaxRejects, Exit, Verdicts
<1>9. CASE LintAnswers(p)
  BY <1>9 DEF LintAnswers, Step, Decide,
         RenderTypeOK, Stays
<1>10. CASE DropCarried(p)
  BY <1>10 DEF DropCarried, Step, Decide,
         RenderTypeOK, Stays
<1>11. ASSUME NEW n \in Names, CopyForLint(p, n) \/ SymlinkedManifest(p, n)
       PROVE  Stays(q)
  <2>1. CASE CopyForLint(p, n)
    BY <2>1 DEF CopyForLint, RenderTypeOK, Stays
  <2>2. CASE SymlinkedManifest(p, n)
    BY <2>2, OthersStayWhenEnding DEF SymlinkedManifest
  <2> QED BY <1>11, <2>1, <2>2
<1>12. ASSUME NEW n \in Names, WriteOne(p, n) \/ PruneOne(p, n) \/ PruneGone(p, n)
       PROVE  Stays(q)
  <2>1. CASE WriteOne(p, n) \/ PruneOne(p, n)
    BY <2>1 DEF WriteOne, PruneOne, RenderTypeOK, Stays
  <2>2. CASE PruneGone(p, n)
    BY <2>2, OthersStayWhenEnding DEF PruneGone, Exit
  <2> QED BY <1>12, <2>1, <2>2
<1> QED BY <1>1, <1>2, <1>3, <1>4, <1>5, <1>6, <1>7, <1>8, <1>9, <1>10, <1>11,
           <1>12 DEF Progress

\* Nor does its failure or its death.
LEMMA OthersStayInTrouble ==
  ASSUME RenderTypeOK, NEW p \in Runs, Trouble(p) \/ Kill(p), NEW q \in Runs \ {p}
  PROVE  Stays(q)
<1>1. CASE BadPlan(p) \/ PolicyRefuses(p) \/ RendererRaises(p) \/ StagedUnreadable(p)
  BY <1>1, OthersStayWhenEnding
  DEF BadPlan, PolicyRefuses, RendererRaises, StagedUnreadable, Exit, Verdicts
<1>2. CASE LockErrs(p) \/ MakeOutputFails(p)
  BY <1>2, OthersStayWhenEnding DEF LockErrs, LockRefused, MakeOutputFails, Exit
<1>3. CASE StagingUnavailable(p) \/ RenderFails(p) \/ ArgoMissing(p)
           \/ SnapshotFails(p) \/ LinterSilent(p)
  BY <1>3, OthersStayWhenEnding
  DEF StagingUnavailable, RenderFails, ArgoMissing, SnapshotFails, LinterSilent
<1>4. CASE DropFails(p) \/ PreflightFails(p) \/ WriteFails(p)
           \/ ScanFails(p) \/ PruneFails(p)
  BY <1>4, OthersStayWhenEnding
  DEF DropFails, PreflightFails, WriteFails, ScanFails, PruneFails
<1>5. CASE Kill(p)
  BY <1>5 DEF Kill, RenderTypeOK, Stays
<1> QED BY <1>1, <1>2, <1>3, <1>4, <1>5 DEF Trouble

\* So no step of one run moves another.
LEMMA OthersStay ==
  ASSUME RenderTypeOK, NEW p \in Runs, RunStep(p) \/ Kill(p), NEW q \in Runs \ {p}
  PROVE  Stays(q)
  BY OthersStayInProgress, OthersStayInTrouble DEF RunStep

\* The phases that belong to one kind of command.
Phased(p) ==
  /\ pc[p] \in {"stage", "resolve", "list", "copy", "drop"} => job[p].kind = "gate"
  /\ pc[p] \in {"mkdir", "write"} => job[p].kind = "argo"
  /\ pc[p] = "kstage" => job[p].kind = "kueue"
  /\ pc[p] = "publish" => job[p].kind # "argo"

Over == {"done", "dead"}

\* A run that has not ended has said no only while it drops the carried copies,
\* and yes only if it is a gate that linted.
Decides(p) ==
  pc[p] \notin Over =>
    /\ verdict[p] \in {"none", "passed", "rejected"}
    /\ verdict[p] = "rejected" => pc[p] = "drop"
    /\ verdict[p] = "passed" =>
         /\ job[p].kind = "gate"
         /\ pc[p] \in {"drop", "preflight", "publish", "scan", "prune"}

\* What a run that has not ended has heard from the linter, and where that lets
\* it be.  A set with a skipped file goes no further than the cleanup, and a gate
\* that rendered something publishes only after a yes.
Heard(p) ==
  pc[p] \notin Over =>
    /\ verdict[p] = "none" => judged[p] = Nothing
    /\ pc[p] = "drop" => judged[p] = tolint[p] /\ verdict[p] # "none"
    /\ verdict[p] = "passed" =>
         /\ ~Holds(judged[p], "rejected")
         /\ Holds(judged[p], "skipped") => pc[p] = "drop"
    /\ /\ job[p].kind = "gate"
       /\ pc[p] \in {"preflight", "publish", "scan", "prune"}
       /\ Present(Rendered(p)) # {}
       => verdict[p] = "passed"

\* The exit code of a run that ends now is the one its verdict decides.
ExitsByVerdict(p) ==
  pc[p] # "done" /\ pc'[p] = "done" =>
    /\ \/ verdict'[p] \in {"rejected", "denied", "invalid"}
       \/ Holds(judged[p], "rejected")
       => exit'[p] = 1
    /\ Holds(judged[p], "skipped") =>
         \/ exit'[p] = 1
         \/ exit'[p] = 2 /\ pc[p] = "drop" /\ tolint[p] # Rendered(p)
    /\ verdict'[p] = "passed" /\ exit'[p] = 1 =>
         \E n \in Present(dir) : Misnamed(dir[n])
    /\ /\ exit'[p] = 0
       /\ job[p].kind = "gate"
       /\ Present(Rendered(p)) # {}
       => verdict'[p] = "passed"

Rules(p) == Phased(p) /\ Decides(p) /\ Heard(p)

\* Nothing was judged before there is a verdict.
LEMMA NothingHoldsNothing ==
  ASSUME NEW word
  PROVE  ~Holds(Nothing, word)
  BY DEF Holds, Present, Nothing

\* What the linter rejected was not passed, and what it skipped either.
LEMMA HeardBeforeTheEnd ==
  ASSUME NEW p \in Runs, Rules(p), pc[p] \notin Over
  PROVE  /\ Holds(judged[p], "rejected") => verdict[p] = "rejected"
         /\ Holds(judged[p], "skipped") =>
              verdict[p] = "rejected" \/ (verdict[p] = "passed" /\ pc[p] = "drop")
  BY NothingHoldsNothing DEF Rules, Decides, Heard

\* A label that cannot be hashed is one no name can be read from.
LEMMA RaisingIsMisnamed ==
  ASSUME NEW f, ArtifactMission(f).owner = "raises"
  PROVE  Misnamed(f)
<1> SUFFICES ASSUME ~Misnamed(f) PROVE FALSE
  OBVIOUS
<1>1. ~\E d \in f.docs : \E i \in 1 .. 4 : Stamp(d)[i] = NotAName
  BY DEF Misnamed, Stamp
<1> QED BY <1>1 DEF ArtifactMission, Answer, Unanswered

\* An end without a new verdict.
LEMMA EndDecides ==
  ASSUME RenderTypeOK, NEW p \in Runs, Rules(p), NEW code, NEW claim,
         End(p, code, claim), UNCHANGED verdict, pc[p] \notin Over,
         verdict[p] = "passed" /\ code = 1 => \E n \in Present(dir) : Misnamed(dir[n]),
         verdict[p] = "passed" /\ pc[p] = "drop" => code = 2 /\ tolint[p] # Rendered(p),
         verdict[p] = "rejected" => code = 1,
         code = 0 => pc[p] = "prune"
  PROVE  Rules(p)' /\ ExitsByVerdict(p)
<1>1. pc'[p] = "done" /\ exit'[p] = code /\ verdict'[p] = verdict[p]
  BY DEF End, RenderTypeOK
<1>2. Rules(p)'
  BY <1>1 DEF Rules, Phased, Decides, Heard, Over
<1>3. Decides(p) /\ Heard(p)
  BY DEF Rules
<1>4. verdict[p] \in {"none", "passed", "rejected"}
  BY <1>3 DEF Decides
<1>5. /\ code = 0 /\ job[p].kind = "gate" /\ Present(Rendered(p)) # {}
      => verdict[p] = "passed"
  BY <1>3 DEF Heard
<1>6. ExitsByVerdict(p)
  BY <1>1, <1>4, <1>5, HeardBeforeTheEnd DEF ExitsByVerdict
<1> QED BY <1>2, <1>6

\* Refusals and failed operations end a run without a new verdict.
LEMMA RefusalDecides ==
  ASSUME RenderTypeOK, NEW p \in Runs, Rules(p), NEW code, NEW claim,
         Refuse(p, code) \/ FailWith(p, code, claim), pc[p] \notin Over,
         verdict[p] = "passed" => code = 2,
         verdict[p] = "passed" /\ pc[p] = "drop" => tolint[p] # Rendered(p),
         verdict[p] = "rejected" => code = 1,
         code # 0
  PROVE  Rules(p)' /\ ExitsByVerdict(p)
  BY EndDecides DEF Refuse, FailWith, Exit

\* An end with the verdict that causes it.
LEMMA VerdictDecides ==
  ASSUME RenderTypeOK, NEW p \in Runs, NEW v \in Verdicts \ {"passed"},
         Decide(p, v), NEW claim, End(p, 1, claim)
  PROVE  Rules(p)' /\ ExitsByVerdict(p)
<1>1. pc'[p] = "done" /\ exit'[p] = 1 /\ verdict'[p] = v
  BY DEF End, Decide, RenderTypeOK
<1> QED BY <1>1 DEF Rules, Phased, Decides, Heard, ExitsByVerdict, Over, Verdicts

\* Going on with the verdict as it is.
LEMMA GoingOnDecides ==
  ASSUME RenderTypeOK, NEW p \in Runs, Rules(p), NEW phase \in Phases \ Over,
         Step(p, phase), UNCHANGED <<verdict, judged>>, pc[p] \notin Over,
         phase \in {"stage", "resolve", "list", "copy"} => job[p].kind = "gate",
         phase \in {"mkdir", "write"} => job[p].kind = "argo",
         phase = "kstage" => job[p].kind = "kueue",
         phase = "publish" => job[p].kind # "argo",
         phase # "drop",
         verdict[p] # "rejected",
         verdict[p] = "passed" => phase \in {"preflight", "publish", "scan", "prune"},
         pc[p] = "drop" => ~Holds(judged[p], "skipped"),
         /\ job[p].kind = "gate"
         /\ phase \in {"preflight", "publish", "scan", "prune"}
         /\ Present(Rendered(p)) # {}
         => verdict[p] = "passed"
  PROVE  Rules(p)' /\ ExitsByVerdict(p)
<1>1. /\ pc'[p] = phase /\ job'[p] = job[p] /\ verdict'[p] = verdict[p]
      /\ judged'[p] = judged[p] /\ Rendered(p)' = Rendered(p)
  BY DEF Step, RenderTypeOK, Rendered
<1>2. Phased(p)' /\ Decides(p)' /\ ExitsByVerdict(p)
  BY <1>1 DEF Rules, Phased, Decides, ExitsByVerdict, Over
<1>3. Heard(p)
  BY DEF Rules
<1>4. Heard(p)'
  BY <1>1, <1>3 DEF Heard
<1> QED BY <1>2, <1>4 DEF Rules

\* Staying decides nothing.
LEMMA StayingDecides ==
  ASSUME NEW p \in Runs, Rules(p), UNCHANGED <<job, pc, verdict, judged>>,
         pc[p] = "drop" => UNCHANGED tolint
  PROVE  Rules(p)' /\ ExitsByVerdict(p)
<1>1. Phased(p)' /\ Decides(p)' /\ ExitsByVerdict(p)
  BY DEF Rules, Phased, Decides, ExitsByVerdict
<1>2. Heard(p)'
  BY DEF Rules, Heard, Rendered
<1> QED BY <1>1, <1>2 DEF Rules

\* Every step of an undisturbed command keeps to the rules and, if it ends the
\* run, exits by its verdict.
LEMMA ProgressDecides ==
  ASSUME RenderTypeOK, NEW p \in Runs, Rules(p), Progress(p)
  PROVE  Rules(p)' /\ ExitsByVerdict(p)
<1>j. job[p].kind \in Kinds
  BY JobsAssumption DEF RenderTypeOK
<1>r. Phased(p) /\ Decides(p)
  BY DEF Rules
<1>h. /\ job[p].kind = "gate"
      /\ pc[p] \in {"preflight", "publish", "scan", "prune"}
      /\ Present(Rendered(p)) # {}
      => verdict[p] = "passed"
  BY DEF Rules, Heard, Over
<1> USE DEF Phases, Over
<1>1. CASE LoadPlan(p)
  <2>1. /\ verdict[p] = "none" /\ UNCHANGED <<verdict, judged>> /\ pc[p] = "load"
        /\ Step(p, CASE job[p].kind = "gate" -> "stage"
                     [] job[p].kind = "argo" -> "lock"
                     [] job[p].kind = "kueue" -> "policy")
    BY <1>1, <1>r DEF LoadPlan, Decides
  <2>2. CASE job[p].kind = "gate"
    BY <2>1, <2>2, GoingOnDecides
  <2>3. CASE job[p].kind = "argo"
    BY <2>1, <2>3, GoingOnDecides
  <2>4. CASE job[p].kind = "kueue"
    BY <2>1, <2>4, GoingOnDecides
  <2> QED BY <1>j, <2>2, <2>3, <2>4 DEF Kinds
<1>2. CASE MakeStaging(p)
  BY <1>2, <1>r, GoingOnDecides DEF MakeStaging, Decides
<1>3. CASE PolicyAllows(p)
  <2>1. /\ verdict[p] = "none" /\ UNCHANGED <<verdict, judged>> /\ pc[p] = "policy"
        /\ \/ job[p].kind = "gate" /\ (Step(p, "lock") \/ Step(p, "resolve"))
           \/ job[p].kind = "argo" /\ Step(p, "mkdir")
           \/ job[p].kind = "kueue" /\ Step(p, "lock")
    BY <1>3, <1>r, <1>j DEF PolicyAllows, Decides, Kinds
  <2>2. CASE Step(p, "lock") \/ (job[p].kind = "gate" /\ Step(p, "resolve"))
    BY <2>1, <2>2, GoingOnDecides
  <2>3. CASE job[p].kind = "argo" /\ Step(p, "mkdir")
    BY <2>1, <2>3, GoingOnDecides
  <2> QED BY <2>1, <2>2, <2>3
<1>4. CASE ResolveArgo(p)
  BY <1>4, <1>r, GoingOnDecides DEF ResolveArgo, Decides
<1>5. CASE NothingToLint(p)
  BY <1>5, <1>r, RefusalDecides DEF NothingToLint, Decides
<1>6. CASE WaitForLock(p) \/ BeginPublish(p) \/ Publishing(p)
  BY <1>6, StayingDecides DEF WaitForLock, BeginPublish, Publishing, runVars
<1>7. CASE EnterLock(p)
  <2>1. /\ verdict[p] = "none" /\ UNCHANGED <<verdict, judged>> /\ pc[p] = "lock"
        /\ \/ /\ job[p].kind = "gate"
              /\ \/ Step(p, "scan") /\ Present(Rendered(p)) = {}
                 \/ Step(p, "list")
           \/ Step(p, "policy")
           \/ job[p].kind = "kueue" /\ Step(p, "preflight")
    BY <1>7, <1>r, <1>j DEF EnterLock, Entered, Decides, Kinds
  <2>2. CASE job[p].kind = "gate" /\ Step(p, "scan") /\ Present(Rendered(p)) = {}
    BY <2>1, <2>2, GoingOnDecides
  <2>3. CASE job[p].kind = "gate" /\ Step(p, "list")
    BY <2>1, <2>3, GoingOnDecides
  <2>4. CASE Step(p, "policy")
    BY <2>1, <2>4, GoingOnDecides
  <2>5. CASE job[p].kind = "kueue" /\ Step(p, "preflight")
    BY <2>1, <2>5, GoingOnDecides
  <2> QED BY <2>1, <2>2, <2>3, <2>4, <2>5
<1>8. CASE LockTimesOut(p)
  BY <1>8, <1>r, EndDecides DEF LockTimesOut, LockRefused, Decides
<1>9. CASE ListOutput(p)
  BY <1>9, <1>r, GoingOnDecides DEF ListOutput, Decides, Phased
<1>10. ASSUME NEW n \in Names, CopyForLint(p, n) \/ SymlinkedManifest(p, n)
       PROVE  Rules(p)' /\ ExitsByVerdict(p)
  <2>1. CASE CopyForLint(p, n)
    BY <2>1, StayingDecides DEF CopyForLint
  <2>2. CASE SymlinkedManifest(p, n)
    BY <2>2, <1>r, RefusalDecides DEF SymlinkedManifest, Decides
  <2> QED BY <1>10, <2>1, <2>2
<1>11. CASE SyntaxRejects(p)
  BY <1>11, VerdictDecides DEF SyntaxRejects, Exit, Verdicts
<1>12. CASE LintAnswers(p)
  <2>1. /\ pc'[p] = "drop" /\ job'[p] = job[p] /\ job[p].kind = "gate"
        /\ judged'[p] = tolint[p] /\ tolint'[p] = tolint[p]
        /\ verdict'[p] = IF Holds(tolint[p], "rejected") THEN "rejected" ELSE "passed"
    BY <1>12, <1>r
    DEF LintAnswers, Copied, Step, Decide, RenderTypeOK, Phased, SomeLint
  <2>2. /\ ~Holds(tolint[p], "rejected") <=> verdict'[p] = "passed"
        /\ verdict'[p] \in {"passed", "rejected"}
    BY <2>1
  <2>3. Heard(p)'
    BY <2>1, <2>2 DEF Heard
  <2> QED BY <2>1, <2>2, <2>3 DEF Rules, Phased, Decides, ExitsByVerdict
<1>13. CASE DropCarried(p)
  <2>h. judged[p] = tolint[p] /\ verdict[p] \in {"passed", "rejected"}
    BY <1>13, <1>r DEF DropCarried, Rules, Heard, Decides
  <2>1. CASE verdict[p] = "passed" /\ ~SomeLint(p, "skipped") /\ Step(p, "preflight")
             /\ UNCHANGED verdict
    <3>1. ~Holds(judged[p], "skipped") /\ UNCHANGED judged
      BY <1>13, <2>1, <2>h DEF DropCarried, SomeLint
    <3> QED BY <1>13, <2>1, <3>1, GoingOnDecides DEF DropCarried
  <2>2. CASE /\ Decide(p, "rejected") /\ pc' = [pc EXCEPT ![p] = "done"]
             /\ exit' = [exit EXCEPT ![p] = 1]
    <3>1. pc'[p] = "done" /\ exit'[p] = 1 /\ verdict'[p] = "rejected"
      BY <2>2 DEF Decide, RenderTypeOK
    <3> QED BY <3>1 DEF Rules, Phased, Decides, Heard, ExitsByVerdict
  <2> QED BY <1>13, <2>1, <2>2 DEF DropCarried
<1>14. CASE Preflight(p)
  <2>1. /\ UNCHANGED <<verdict, judged>> /\ pc[p] = "preflight"
        /\ \/ job[p].kind = "gate" /\ Step(p, "publish")
           \/ job[p].kind = "argo" /\ Step(p, "write")
           \/ job[p].kind = "kueue" /\ Step(p, "kstage")
    BY <1>14, <1>j DEF Preflight, Kinds
  <2>2. CASE job[p].kind = "gate" /\ Step(p, "publish")
    BY <2>1, <2>2, <1>r, <1>h, GoingOnDecides DEF Decides
  <2>3. CASE job[p].kind = "argo" /\ Step(p, "write")
    BY <2>1, <2>3, <1>r, <1>h, GoingOnDecides DEF Decides
  <2>4. CASE job[p].kind = "kueue" /\ Step(p, "kstage")
    BY <2>1, <2>4, <1>r, <1>h, GoingOnDecides DEF Decides
  <2> QED BY <2>1, <2>2, <2>3, <2>4
<1>15. CASE NotOwned(p)
  <2>1. CASE job[p].kind = "argo"
    BY <1>15, <2>1, <1>r, EndDecides DEF NotOwned, Exit, Decides
  <2>2. CASE job[p].kind # "argo"
    BY <1>15, <2>2, <1>r, EndDecides DEF NotOwned, Exit, Decides
  <2> QED BY <2>1, <2>2
<1>16. CASE MakeOutput(p)
  BY <1>16, <1>r, GoingOnDecides DEF MakeOutput, Decides, Phased
<1>17. CASE Published(p) \/ ScanStale(p)
  BY <1>17, <1>r, <1>h, GoingOnDecides DEF Published, ScanStale, Decides
<1>18. CASE WritesDone(p)
  BY <1>18, <1>r, GoingOnDecides DEF WritesDone, Decides, Phased
<1>19. CASE PublishFailed(p)
  BY <1>19, <1>r, EndDecides DEF PublishFailed, Exit, Decides
<1>20. ASSUME NEW n \in Names, WriteOne(p, n) \/ PruneOne(p, n) \/ PruneGone(p, n)
       PROVE  Rules(p)' /\ ExitsByVerdict(p)
  <2>1. CASE WriteOne(p, n) \/ PruneOne(p, n)
    BY <2>1, StayingDecides DEF WriteOne, PruneOne
  <2>2. CASE PruneGone(p, n)
    BY <2>2, <1>r, EndDecides DEF PruneGone, Exit, Decides
  <2> QED BY <1>20, <2>1, <2>2
<1>21. CASE Succeed(p)
  BY <1>21, <1>r, EndDecides DEF Succeed, Exit, Decides
<1>22. CASE UnhashableLabel(p)
  <2>1. PICK n \in Names : dir[n] # Absent /\ ArtifactMission(dir[n]).owner = "raises"
    BY <1>22 DEF UnhashableLabel, Trips, Raising, Present
  <2>2. \E m \in Present(dir) : Misnamed(dir[m])
    BY <2>1, RaisingIsMisnamed DEF Present
  <2>3. pc[p] \in {"list", "preflight", "scan"} /\ verdict[p] # "rejected"
    BY <1>22, <1>r DEF UnhashableLabel, Trips, Decides
  <2> QED BY <1>22, <2>2, <2>3, EndDecides DEF UnhashableLabel, Exit
<1> QED BY <1>1, <1>2, <1>3, <1>4, <1>5, <1>6, <1>7, <1>8, <1>9, <1>10, <1>11,
           <1>12, <1>13, <1>14, <1>15, <1>16, <1>17, <1>18, <1>19, <1>20, <1>21, <1>22
    DEF Progress

\* So does every failure: the exit code is the verdict's, not the failure's.
LEMMA TroubleDecides ==
  ASSUME RenderTypeOK, NEW p \in Runs, Rules(p), Trouble(p) \/ Kill(p)
  PROVE  Rules(p)' /\ ExitsByVerdict(p)
<1>r. Phased(p) /\ Decides(p)
  BY DEF Rules
<1> USE DEF Over
<1>1. CASE BadPlan(p)
  <2>1. CASE Refuse(p, 2)
    BY <1>1, <2>1, <1>r, RefusalDecides DEF BadPlan, Decides
  <2>2. CASE Decide(p, "invalid") /\ Exit(p, 1, "unchanged")
    BY <2>2, VerdictDecides DEF Exit, Verdicts
  <2> QED BY <1>1, <2>1, <2>2 DEF BadPlan
<1>2. CASE PolicyRefuses(p)
  <2>1. CASE Refuse(p, 2)
    BY <1>2, <2>1, <1>r, RefusalDecides DEF PolicyRefuses, Decides
  <2>2. CASE Decide(p, "denied") /\ Exit(p, 1, "unchanged")
    BY <2>2, VerdictDecides DEF Exit, Verdicts
  <2> QED BY <1>2, <2>1, <2>2 DEF PolicyRefuses
<1>3. CASE LockErrs(p)
  BY <1>3, <1>r, EndDecides DEF LockErrs, LockRefused, Decides
<1>4. CASE MakeOutputFails(p)
  BY <1>4, <1>r, EndDecides DEF MakeOutputFails, Exit, Decides
<1>5. CASE StagingUnavailable(p) \/ RenderFails(p) \/ ArgoMissing(p)
           \/ SnapshotFails(p) \/ LinterSilent(p)
  BY <1>5, <1>r, RefusalDecides
  DEF StagingUnavailable, RenderFails, ArgoMissing, SnapshotFails, LinterSilent,
      Copied, Decides
<1>6. CASE DropFails(p)
  BY <1>6, <1>r, RefusalDecides DEF DropFails, Decides
<1>7. CASE PreflightFails(p) \/ WriteFails(p) \/ ScanFails(p) \/ PruneFails(p)
  BY <1>7, <1>r, RefusalDecides
  DEF PreflightFails, WriteFails, ScanFails, PruneFails, Decides
<1>8. CASE Kill(p)
  <2>1. pc'[p] = "dead"
    BY <1>8 DEF Kill, RenderTypeOK
  <2> QED BY <2>1 DEF Rules, Phased, Decides, Heard, ExitsByVerdict
<1>9. CASE RendererRaises(p)
  BY <1>9, <1>r, EndDecides DEF RendererRaises, Exit, Decides
<1>10. CASE StagedUnreadable(p)
  <2>1. CASE FailWith(p, 1, "traceback")
    BY <1>10, <2>1, <1>r, RefusalDecides DEF StagedUnreadable, Copied, Decides
  <2>2. CASE Decide(p, "rejected") /\ Exit(p, 1, "unchanged")
    BY <2>2, VerdictDecides DEF Exit, Verdicts
  <2> QED BY <1>10, <2>1, <2>2 DEF StagedUnreadable
<1> QED BY <1>1, <1>2, <1>3, <1>4, <1>5, <1>6, <1>7, <1>8, <1>9, <1>10 DEF Trouble

\* A run keeps to the rules whoever takes the step.
LEMMA StepKeepsRules ==
  ASSUME RenderTypeOK, [RenderNext]_allVars, NEW q \in Runs, Rules(q)
  PROVE  Rules(q)' /\ ExitsByVerdict(q)
<1>1. CASE UNCHANGED allVars \/ TimePasses
  BY <1>1, StayingDecides DEF allVars, TimePasses, runVars
<1>2. ASSUME NEW p \in Runs, RunStep(p) \/ Kill(p)
      PROVE  Rules(q)' /\ ExitsByVerdict(q)
  <2>1. CASE p = q
    BY <1>2, <2>1, ProgressDecides, TroubleDecides DEF RunStep
  <2>2. CASE p # q
    <3>1. Stays(q)
      BY <1>2, <2>2, OthersStay
    <3>2. Heard(q)'
      BY <3>1 DEF Stays, Rules, Heard, Rendered
    <3> QED BY <3>1, <3>2 DEF Stays, Rules, Phased, Decides, ExitsByVerdict
  <2> QED BY <2>1, <2>2
<1> QED BY <1>1, <1>2 DEF RenderNext

\* Every run keeps to the rules: its phases are its kind's, and it carries a
\* verdict only where it has just been reached or has let it go on.
LEMMA RulesInvariant == RenderSafeSpec => [](\A p \in Runs : Rules(p))
<1>1. RenderInit => \A p \in Runs : Rules(p)
  BY DEF RenderInit, Rules, Phased, Decides, Heard
<1>2. RenderTypeOK /\ (\A p \in Runs : Rules(p)) /\ [RenderNext]_allVars
        => (\A p \in Runs : Rules(p))'
  BY StepKeepsRules
<1> QED BY <1>1, <1>2, RenderTypeCorrect, PTL DEF RenderSafeSpec

\* The exit code is the verdict's, for every job, every interleaving, every answer
\* of flock and every number of failures: a no is exit 1, whatever fails after it;
\* a set with a file argo skipped never succeeds, and exits 2 only where the
\* staged copies could not be removed; exit 1 after a yes takes a managed file
\* whose ownership cannot be asked; and a gate with something to publish succeeds
\* only after a yes.
THEOREM VerdictsDecideExits == RenderSafeSpec => VerdictDecidesExit
<1> DEFINE Exits == \A p \in Runs : ExitsByVerdict(p)
<1>1. RenderTypeOK /\ (\A p \in Runs : Rules(p)) /\ [RenderNext]_allVars
        => [Exits]_allVars
  BY StepKeepsRules
<1>2. [][Exits]_allVars => VerdictDecidesExit
  BY PTL DEF VerdictDecidesExit, ExitsByVerdict
<1> QED BY <1>1, <1>2, RulesInvariant, RenderTypeCorrect, PTL DEF RenderSafeSpec

-----------------------------------------------------------------------------
(***************************************************************************)
(* What becomes of the directory.  A step of a command is _publish's own   *)
(* or leaves _publish alone, and then touches files only by writing or     *)
(* pruning, so the invariant of Publish holds of the commands as well.     *)
(***************************************************************************)

\* A step that is not _publish's: one operation may fail, a file may be written
\* or pruned, the output may be made.
Outside(p) ==
  /\ UNCHANGED publishing
  /\ pc[p] = "publish" => pub[p] \in PubEnds
  /\ faults' = faults \/ Fault
  /\ dir' = dir \/ pc[p] \in {"write", "prune"}
  /\ depth' = depth \/ depth' = PathLen \/ depth' \in depth .. PathLen

\* An end that leaves the output path alone is outside _publish.
LEMMA EndIsOutside ==
  ASSUME NEW p \in Runs, NEW code, NEW claim,
         pc[p] = "publish" => pub[p] \in PubEnds,
         \/ UNCHANGED pubVars
         \/ Refuse(p, code)
         \/ FailWith(p, code, claim)
  PROVE  Outside(p)
  BY DEF Refuse, FailWith, Outside, pubVars, publishing

\* A command's step is _publish's own or outside it.
LEMMA ProgressIsOutside ==
  ASSUME NEW p \in Runs, Progress(p)
  PROVE  BeginPublish(p) \/ Publishing(p) \/ Outside(p)
<1>1. CASE LoadPlan(p) \/ MakeStaging(p) \/ PolicyAllows(p) \/ ResolveArgo(p)
           \/ WaitForLock(p) \/ EnterLock(p) \/ LockTimesOut(p)
  BY <1>1, EndIsOutside
  DEF LoadPlan, MakeStaging, PolicyAllows, ResolveArgo, WaitForLock, EnterLock,
      Entered, LockTimesOut, LockRefused
<1>2. CASE NothingToLint(p) \/ SyntaxRejects(p) \/ NotOwned(p) \/ UnhashableLabel(p)
           \/ Succeed(p)
  BY <1>2, EndIsOutside
  DEF NothingToLint, SyntaxRejects, Copied, NotOwned, UnhashableLabel, Trips, Succeed
<1>3. CASE ListOutput(p) \/ LintAnswers(p) \/ DropCarried(p) \/ Preflight(p)
           \/ WritesDone(p) \/ ScanStale(p)
  BY <1>3, EndIsOutside
  DEF ListOutput, LintAnswers, Copied, DropCarried, Preflight, WritesDone, ScanStale
<1>4. CASE Published(p) \/ PublishFailed(p)
  BY <1>4, EndIsOutside DEF Published, PublishFailed, PubEnds
<1>5. CASE MakeOutput(p)
  BY <1>5 DEF MakeOutput, Outside
<1>6. ASSUME NEW n \in Names, CopyForLint(p, n) \/ SymlinkedManifest(p, n)
      PROVE  Outside(p)
  BY <1>6, EndIsOutside DEF CopyForLint, SymlinkedManifest
<1>7. ASSUME NEW n \in Names, WriteOne(p, n) \/ PruneOne(p, n) \/ PruneGone(p, n)
      PROVE  Outside(p)
  <2>1. CASE WriteOne(p, n) \/ PruneOne(p, n)
    BY <2>1 DEF WriteOne, PruneOne, Outside
  <2>2. CASE PruneGone(p, n)
    BY <2>2, EndIsOutside DEF PruneGone
  <2> QED BY <1>7, <2>1, <2>2
<1> QED BY <1>1, <1>2, <1>3, <1>4, <1>5, <1>6, <1>7 DEF Progress

\* A failure of the command is outside _publish, whose failures are its own.
LEMMA TroubleIsOutside ==
  ASSUME NEW p \in Runs, Trouble(p)
  PROVE  Outside(p)
<1>1. CASE BadPlan(p) \/ PolicyRefuses(p) \/ LockErrs(p)
  <2>1. pc[p] # "publish" \/ UNCHANGED pubVars
    BY <1>1 DEF BadPlan, PolicyRefuses, LockErrs, LockRefused
  <2>2. UNCHANGED pubVars
    BY <1>1 DEF BadPlan, PolicyRefuses, LockErrs, LockRefused, Refuse
  <2>3. pc[p] # "publish"
    BY <1>1 DEF BadPlan, PolicyRefuses, LockErrs, LockRefused
  <2> QED BY <2>2, <2>3, EndIsOutside
<1>2. CASE StagingUnavailable(p) \/ RenderFails(p) \/ ArgoMissing(p)
           \/ SnapshotFails(p) \/ LinterSilent(p)
  BY <1>2, EndIsOutside
  DEF StagingUnavailable, RenderFails, ArgoMissing, SnapshotFails, LinterSilent,
      Copied
<1>3. CASE DropFails(p) \/ PreflightFails(p) \/ WriteFails(p)
           \/ ScanFails(p) \/ PruneFails(p)
  BY <1>3, EndIsOutside
  DEF DropFails, PreflightFails, WriteFails, ScanFails, PruneFails
<1>4. CASE MakeOutputFails(p)
  BY <1>4 DEF MakeOutputFails, Outside
<1>5. CASE RendererRaises(p)
  BY <1>5, EndIsOutside DEF RendererRaises
<1>6. CASE StagedUnreadable(p)
  <2>1. CASE FailWith(p, 1, "traceback")
    BY <1>6, <2>1, EndIsOutside DEF StagedUnreadable, Copied
  <2>2. CASE Fault /\ UNCHANGED <<dir, depth, publishing>>
    BY <1>6, <2>2 DEF StagedUnreadable, Copied, Outside
  <2> QED BY <1>6, <2>1, <2>2 DEF StagedUnreadable
<1> QED BY <1>1, <1>2, <1>3, <1>4, <1>5, <1>6 DEF Trouble

\* Where a run stands in its command says where it stands in the lock and in
\* _publish.
Reading == {"list", "copy", "drop", "preflight", "mkdir", "kstage"}

IsReading(p) == pc[p] \in Reading \/ (pc[p] = "policy" /\ job[p].kind = "argo")

InLock(p) == IsReading(p) \/ pc[p] \in {"publish", "write", "scan", "prune"}

Seated(p) ==
  /\ InLock(p) <=> lk[p] = "held"
  /\ pc[p] \notin {"publish", "scan", "prune", "done", "dead"} => pub[p] = "idle"
  /\ pc[p] # "publish" => ~Mid(p)
  /\ pc[p] = "publish" => pub[p] # "killed"

\* What the directory properties rest on.
Ground ==
  /\ PublishInv
  /\ RenderTyped
  /\ \A p \in Runs : Ledger(p) /\ Rules(p) /\ Seated(p)

\* Under a lock that works a run is inside it only by holding it.
LEMMA HeldIsInside ==
  ASSUME PublishInv, NEW p \in Runs
  PROVE  Inside(p) <=> lk[p] = "held"
  BY DEF PublishInv, Exclusive, Inside

\* What has failed has failed for good.
LEMMA FewerLeft ==
  ASSUME NEW m \in Nat, NEW f \in Nat, NEW g \in Nat, g <= f
  PROVE  /\ m - f >= 1 => m - g >= 1
         /\ m - f >= 2 => m - g >= 2
  OBVIOUS

\* A step of the lock by a run that is not publishing moves nobody to where a
\* lock that works never lets him.
LEMMA LockKeepsExclusive ==
  ASSUME WorkingLock, PublishInv, NEW p \in Runs, KeepsToLock(p), ~Mid(p),
         UNCHANGED pub
  PROVE  Exclusive'
<1>1. CASE UNCHANGED lockVars
  BY <1>1 DEF PublishInv, Exclusive, Mid, lockVars
<1>2. CASE LockStep(p)
  <2>1. PICK phase \in LockPhases \ {"unlocked"} : lk' = [lk EXCEPT ![p] = phase]
    BY <1>2 DEF WorkingLock, LockStep, LockAcquire, OpenLock, LockUnopenable,
                Attempt, Grant, Timeout, RefuseUnsupported, GoOnUnlocked,
                Unsupported, OtherErrno, Release, DieLocked, Enter, LockPhases
  <2> QED BY <2>1 DEF PublishInv, LockInv, LockTypeOK, Exclusive, Mid
<1> QED BY <1>1, <1>2 DEF KeepsToLock

\* What _publish needs of the directory survives a step outside it.
LEMMA OutsideKeepsInv ==
  ASSUME WorkingLock, PublishInv, \A q \in Runs : Ledger(q), NEW p \in Runs,
         KeepsToLock(p), Outside(p), ~Mid(p), dir' = dir \/ Inside(p),
         dir' \in Contents
  PROVE  PublishInv' /\ \A q \in Runs : Ledger(q)'
<1>1. LockInv'
  BY LockInvStep DEF PublishInv, KeepsToLock, LockNext
<1>2. /\ UNCHANGED <<pub, staged, todo, half, published, backup, kept, probed, before>>
      /\ faults' \in Nat /\ faults' <= faults /\ faults' \in 0 .. MaxFaults
  BY PublishAssumption DEF Outside, publishing, Fault, PublishInv, PublishTypeOK
<1>3. depth' \in 0 .. PathLen
  BY PublishAssumption DEF Outside, PublishInv, PublishTypeOK
<1>4. PublishTypeOK'
  BY <1>2, <1>3 DEF PublishInv, PublishTypeOK
<1>5. Exclusive'
  BY <1>2, LockKeepsExclusive
<1>6. ASSUME NEW q \in Runs
      PROVE  Tracks(q)' /\ Counted(q)' /\ Ledger(q)'
  <2>1. CASE ~Mid(q)
    BY <1>2, <2>1, BystanderKeeps, BystanderBooks
  <2>2. CASE Mid(q)
    <3>1. dir' = dir
      BY <2>2, MidIsInside, Alone
    <3>2. Tracks(q) /\ Counted(q) /\ Ledger(q)
      BY DEF PublishInv
    <3>3. MaxFaults \in Nat /\ faults \in Nat /\ faults' \in Nat /\ faults' <= faults
      BY <1>2, PublishAssumption DEF PublishInv, PublishTypeOK
    <3>4. Tracks(q)' /\ Ledger(q)'
      BY <1>2, <3>1, <3>2 DEF Tracks, Undoes, Mid, Ledger, Present, Nothing
    <3>5. /\ MaxFaults - faults >= 1 => MaxFaults - faults' >= 1
          /\ MaxFaults - faults >= 2 => MaxFaults - faults' >= 2
      BY <3>3, FewerLeft
    <3>6. /\ pub'[q] = pub[q] /\ published'[q] = published[q] /\ todo'[q] = todo[q]
          /\ Present(backup'[q]) = Present(backup[q])
      BY <1>2
    <3>7. Counted(q)'
      BY <3>2, <3>5, <3>6 DEF Counted, Failed
    <3> QED BY <3>2, <3>4, <3>7
  <2> QED BY <2>1, <2>2
<1> QED BY <1>1, <1>4, <1>5, <1>6 DEF PublishInv

\* So does one of _publish's own.
LEMMA InsideKeepsInv ==
  ASSUME WorkingLock, PublishInv, \A q \in Runs : Ledger(q), RenderTyped,
         NEW p \in Runs, BeginPublish(p) \/ Publishing(p)
  PROVE  PublishInv' /\ \A q \in Runs : Ledger(q)'
<1>1. CASE Publishing(p)
  <2>1. PublishInv' /\ Inside(p)
    BY <1>1, PublishStepInv, StepIsMid, MidIsInside DEF Publishing
  <2>2. ASSUME NEW q \in Runs PROVE Ledger(q)'
    <3>1. CASE q = p
      BY <1>1, <3>1, StepKeepsLedger DEF Publishing
    <3>2. CASE q # p
      BY <1>1, <2>1, <3>2, Alone, StepTouchesOwnLists, BystanderBooks DEF Publishing
    <3> QED BY <3>1, <3>2
  <2> QED BY <2>1, <2>2
<1>2. CASE BeginPublish(p)
  <2>1. Rendered(p) \in Contents
    BY RenderedIsContents
  <2>2. PublishInv'
    BY <1>2, <2>1, BeginInv DEF BeginPublish
  <2>3. Inside(p) /\ pub[p] = "idle" /\ Tracks(p) /\ Ledger(p)
    BY <1>2 DEF BeginPublish, PublishBegin, PublishRefused, PublishInv
  <2>4. /\ pub'[p] \in {"mkdir", "refused"}
        /\ \A q \in Runs \ {p} : pub'[q] = pub[q]
        /\ published' = published /\ backup' = backup
    BY <1>2 DEF BeginPublish, PublishBegin, PublishRefused, Goto, PublishInv, PublishTypeOK
  <2>5. ASSUME NEW q \in Runs PROVE Ledger(q)'
    <3>1. CASE q = p
      BY <2>3, <2>4, <3>1 DEF Ledger, Tracks, Present, Nothing, Mid, MidPhases
    <3>2. CASE q # p
      BY <2>3, <2>4, <3>2, Alone, BystanderBooks
    <3> QED BY <3>1, <3>2
  <2> QED BY <2>2, <2>5
<1> QED BY <1>1, <1>2

\* And a kill, wherever it comes.
LEMMA KillKeepsInv ==
  ASSUME WorkingLock, PublishInv, \A q \in Runs : Ledger(q), NEW p \in Runs, Kill(p)
  PROVE  PublishInv' /\ \A q \in Runs : Ledger(q)'
<1>1. CASE Mid(p)
  <2>1. Inside(p) /\ Stop(p) /\ Killed(p)
    BY <1>1, MidIsInside DEF Kill, Mid, Inside, Killed
  <2>2. /\ pub' = [pub EXCEPT ![p] = "killed"]
        /\ UNCHANGED <<dir, staged, todo, half, published, backup>>
    BY <2>1 DEF Stop, Goto
  <2>3. ASSUME NEW q \in Runs PROVE Ledger(q)'
    BY <2>2 DEF PublishInv, PublishTypeOK, Ledger, Mid, MidPhases, Present
  <2> QED BY <2>1, <2>3, KilledInv
<1>2. CASE ~Mid(p)
  <2>1. UNCHANGED pubVars
    BY <1>2 DEF Kill, Mid
  <2>2. KeepsToLock(p)
    BY KillKeepsToLock
  <2>3. UNCHANGED <<dir, depth, pub, staged, todo, half, published, backup,
                    kept, probed, before, faults>>
    BY <2>1 DEF pubVars
  <2>4. LockInv'
    BY <2>2, LockInvStep DEF PublishInv, KeepsToLock, LockNext
  <2>5. Exclusive'
    BY <1>2, <2>2, <2>3, LockKeepsExclusive
  <2>6. PublishTypeOK' /\ \A q \in Runs : Tracks(q)' /\ Counted(q)' /\ Ledger(q)'
    BY <2>3 DEF PublishInv, PublishTypeOK, Tracks, Counted, Undoes, Mid, Failed,
                Ledger, Present
  <2> QED BY <2>4, <2>5, <2>6 DEF PublishInv
<1> QED BY <1>1, <1>2

\* Nobody is in the middle of a publish in a step outside it, and only a run
\* inside the lock touches a file.
LEMMA OutsideIsIdle ==
  ASSUME PublishInv, NEW p \in Runs, Seated(p), Outside(p)
  PROVE  ~Mid(p) /\ UNCHANGED pub /\ (dir' = dir \/ Inside(p))
<1>1. ~Mid(p) /\ UNCHANGED pub
  BY DEF Outside, publishing, Seated, Mid, MidPhases, PubEnds
<1>2. pc[p] \in {"write", "prune"} => Inside(p)
  BY HeldIsInside DEF Seated, InLock
<1> QED BY <1>1, <1>2 DEF Outside

\* A command that ends is out of the lock and out of _publish.
LEMMA LeavingSeats ==
  ASSUME PublishInv, RenderTypeOK, NEW p \in Runs, ~Mid(p), UNCHANGED pub,
         pc' = [pc EXCEPT ![p] = "done"], LeaveLock(p)
  PROVE  Seated(p)'
<1>1. lk'[p] # "held"
  BY HeldIsInside
  DEF LeaveLock, Release, Enter, lockVars, PublishInv, LockInv, LockTypeOK
<1>2. pc'[p] = "done"
  BY DEF RenderTypeOK
<1> QED BY <1>1, <1>2 DEF Seated, InLock, IsReading, Reading, Mid

\* Ending a command gives the lock up.
LEMMA ExitSeats ==
  ASSUME PublishInv, RenderTypeOK, NEW p \in Runs, Seated(p), Outside(p),
         NEW code, NEW claim,
         Exit(p, code, claim) \/ Refuse(p, code) \/ FailWith(p, code, claim)
  PROVE  Seated(p)'
  BY OutsideIsIdle, LeavingSeats DEF Refuse, FailWith, Exit, End

\* A command that is refused the lock never was in it.
LEMMA RefusedSeats ==
  ASSUME PublishInv, RenderTypeOK, NEW p \in Runs, Seated(p), LockRefused(p),
         Enter(p, "refused")
  PROVE  Seated(p)'
<1>1. lk'[p] = "refused" /\ pc'[p] = "done" /\ pub' = pub /\ ~Mid(p)
  BY DEF LockRefused, End, Enter, PublishInv, LockInv, LockTypeOK, RenderTypeOK,
         pubVars, Seated
<1> QED BY <1>1 DEF Seated, InLock, IsReading, Reading, Mid

\* A command that goes on without touching the lock.
LEMMA StepSeats ==
  ASSUME RenderTypeOK, NEW p \in Runs, Seated(p), NEW phase \in Phases \ Over,
         Step(p, phase), UNCHANGED lockVars, UNCHANGED pub,
         pub[p] = "idle" \/ (phase \in {"scan", "prune"} /\ ~Mid(p)),
         InLock(p) <=> \/ phase \in Reading \cup {"publish", "write", "scan", "prune"}
                       \/ phase = "policy" /\ job[p].kind = "argo"
  PROVE  Seated(p)'
<1>1. /\ pc'[p] = phase /\ job'[p] = job[p] /\ lk'[p] = lk[p] /\ pub'[p] = pub[p]
  BY DEF Step, RenderTypeOK, lockVars
<1>2. InLock(p)' <=> InLock(p)
  BY <1>1 DEF InLock, IsReading
<1>3. pub[p] = "idle" => ~Mid(p)
  BY DEF Mid, MidPhases
<1>4. Mid(p)' <=> Mid(p)
  BY <1>1 DEF Mid
<1> QED BY <1>1, <1>2, <1>3, <1>4 DEF Seated, Over

\* One that stays in its phase, and is not killed.
LEMMA StayingSeats ==
  ASSUME NEW p \in Runs, Seated(p), UNCHANGED <<job, pc>>, lk'[p] = lk[p],
         pub'[p] = pub[p]
  PROVE  Seated(p)'
  BY DEF Seated, InLock, IsReading, Mid

\* Every step of a command comes to its seat in the lock and in _publish.
LEMMA ProgressSeats ==
  ASSUME WorkingLock, PublishInv, RenderTypeOK, NEW p \in Runs, Seated(p), Rules(p),
         Progress(p)
  PROVE  Seated(p)'
<1>j. job[p].kind \in Kinds
  BY JobsAssumption DEF RenderTypeOK
<1>r. Phased(p)
  BY DEF Rules
<1>o. Publishing(p) \/ BeginPublish(p) \/ Outside(p)
  BY ProgressIsOutside
<1>q. Outside(p) => ~Mid(p) /\ UNCHANGED pub
  BY OutsideIsIdle
<1> USE DEF Phases, Over, InLock, IsReading, Reading
<1>1. CASE LoadPlan(p)
  <2>1. pub[p] = "idle" /\ UNCHANGED pub /\ UNCHANGED lockVars /\ pc[p] = "load"
    BY <1>1 DEF LoadPlan, pubVars, Seated
  <2>2. PICK phase \in {"stage", "lock", "policy"} :
          Step(p, phase) /\ (phase = "policy" => job[p].kind = "kueue")
    BY <1>1, <1>j DEF LoadPlan, Kinds
  <2> QED BY <2>1, <2>2, StepSeats
<1>2. CASE MakeStaging(p)
  <2>1. /\ pub[p] = "idle" /\ UNCHANGED pub /\ UNCHANGED lockVars
        /\ pc[p] = "stage" /\ job[p].kind = "gate" /\ Step(p, "policy")
    BY <1>2, <1>r DEF MakeStaging, pubVars, Seated, Phased
  <2> QED BY <2>1, StepSeats
<1>3. CASE PolicyAllows(p)
  <2>1. pub[p] = "idle" /\ UNCHANGED pub /\ UNCHANGED lockVars /\ pc[p] = "policy"
    BY <1>3 DEF PolicyAllows, pubVars, Seated
  <2>2. PICK phase \in {"lock", "resolve", "mkdir"} :
          Step(p, phase) /\ (phase = "mkdir" <=> job[p].kind = "argo")
    BY <1>3, <1>j DEF PolicyAllows, Kinds
  <2> QED BY <2>1, <2>2, StepSeats
<1>4. CASE ResolveArgo(p)
  <2>1. /\ pub[p] = "idle" /\ UNCHANGED pub /\ UNCHANGED lockVars
        /\ pc[p] = "resolve" /\ Step(p, "lock")
    BY <1>4 DEF ResolveArgo, pubVars, Seated
  <2> QED BY <2>1, StepSeats
<1>5. CASE \E code, claim : \/ Exit(p, code, claim) /\ Outside(p)
                            \/ Refuse(p, code) /\ Outside(p)
  BY <1>5, ExitSeats
<1>6. CASE NothingToLint(p) \/ SyntaxRejects(p) \/ NotOwned(p) \/ UnhashableLabel(p)
           \/ Succeed(p)
  <2>1. Outside(p)
    BY <1>6, EndIsOutside
    DEF NothingToLint, SyntaxRejects, Copied, NotOwned, UnhashableLabel, Trips, Succeed
  <2> QED BY <1>6, <2>1, <1>5
          DEF NothingToLint, SyntaxRejects, NotOwned, UnhashableLabel, Succeed
<1>7. CASE WaitForLock(p)
  <2>1. /\ lk'[p] = "waiting" /\ lk[p] = "out" /\ pc[p] = "lock" /\ pub[p] = "idle"
        /\ UNCHANGED pub /\ UNCHANGED <<job, pc>>
    BY <1>7 DEF WaitForLock, OpenLock, Enter, pubVars, runVars, Seated, PublishInv,
                LockInv, LockTypeOK
  <2> QED BY <2>1 DEF Seated, Mid, MidPhases
<1>8. CASE EnterLock(p)
  <2>1. /\ lk'[p] = "held" /\ pc[p] = "lock" /\ pub[p] = "idle" /\ UNCHANGED pub
    BY <1>8 DEF EnterLock, Entered, Grant, GoOnUnlocked, Unsupported, WorkingLock,
                Enter, pubVars, Seated, PublishInv, LockInv, LockTypeOK
  <2>2. PICK phase \in {"scan", "list", "policy", "preflight"} :
          Step(p, phase) /\ (phase = "policy" => job[p].kind = "argo")
    BY <1>8, <1>j DEF EnterLock, Entered, Kinds
  <2>3. pc'[p] = phase /\ job'[p] = job[p]
    BY <2>2 DEF Step, RenderTypeOK
  <2> QED BY <2>1, <2>2, <2>3 DEF Seated, Mid, MidPhases
<1>9. CASE LockTimesOut(p)
  BY <1>9, RefusedSeats DEF LockTimesOut, Timeout
<1>10. CASE ListOutput(p) \/ LintAnswers(p) \/ Preflight(p) \/ MakeOutput(p)
  <2>1. /\ pub[p] = "idle" /\ UNCHANGED pub /\ UNCHANGED lockVars
        /\ pc[p] \in {"list", "copy", "preflight", "mkdir", "kstage"}
    BY <1>10 DEF ListOutput, LintAnswers, Copied, Preflight, MakeOutput, pubVars,
                 publishing, Seated
  <2>2. PICK phase \in {"copy", "drop", "publish", "write", "kstage", "preflight"} :
          Step(p, phase)
    BY <1>10, <1>j DEF ListOutput, LintAnswers, Preflight, MakeOutput, Kinds
  <2> QED BY <2>1, <2>2, StepSeats
<1>11. ASSUME NEW n \in Names, CopyForLint(p, n) \/ SymlinkedManifest(p, n)
       PROVE  Seated(p)'
  <2>1. CASE CopyForLint(p, n)
    BY <2>1, StayingSeats DEF CopyForLint, lockVars, pubVars
  <2>2. CASE SymlinkedManifest(p, n)
    <3>1. Outside(p)
      BY <2>2, EndIsOutside DEF SymlinkedManifest
    <3> QED BY <2>2, <3>1, <1>5 DEF SymlinkedManifest
  <2> QED BY <1>11, <2>1, <2>2
<1>12. CASE DropCarried(p)
  <2>1. /\ pub[p] = "idle" /\ UNCHANGED pub /\ pc[p] = "drop" /\ ~Mid(p)
    BY <1>12 DEF DropCarried, pubVars, Seated, Mid, MidPhases
  <2>2. CASE Step(p, "preflight") /\ UNCHANGED lockVars
    BY <2>1, <2>2, StepSeats
  <2>3. CASE pc' = [pc EXCEPT ![p] = "done"] /\ LeaveLock(p)
    BY <2>1, <2>3, LeavingSeats
  <2> QED BY <1>12, <2>2, <2>3 DEF DropCarried
<1>13. CASE BeginPublish(p)
  <2>1. /\ pc[p] = "publish" /\ pub'[p] \in {"mkdir", "refused"}
        /\ UNCHANGED lockVars /\ UNCHANGED <<job, pc>>
    BY <1>13 DEF BeginPublish, PublishBegin, PublishRefused, Goto, PublishInv,
                 PublishTypeOK, runVars
  <2> QED BY <2>1 DEF Seated, lockVars, Mid
<1>14. CASE Publishing(p)
  <2>1. /\ pc[p] = "publish" /\ UNCHANGED lockVars /\ UNCHANGED <<job, pc>>
    BY <1>14 DEF Publishing, runVars
  <2>2. pub'[p] # "killed"
    BY <1>14, StepGoesOnOrEnds DEF Publishing, MidPhases
  <2> QED BY <2>1, <2>2 DEF Seated, lockVars, Mid
<1>15. CASE Published(p) \/ WritesDone(p) \/ ScanStale(p)
  <2>1. /\ UNCHANGED pub /\ UNCHANGED lockVars /\ ~Mid(p)
        /\ pc[p] \in {"publish", "write", "scan"}
    BY <1>15 DEF Published, WritesDone, ScanStale, pubVars, Seated, Mid, MidPhases
  <2>2. PICK phase \in {"scan", "prune"} : Step(p, phase)
    BY <1>15 DEF Published, WritesDone, ScanStale
  <2> QED BY <2>1, <2>2, StepSeats
<1>16. CASE PublishFailed(p)
  <2>1. Outside(p)
    BY <1>16, EndIsOutside DEF PublishFailed, PubEnds
  <2> QED BY <1>16, <2>1, <1>5 DEF PublishFailed
<1>17. ASSUME NEW n \in Names, WriteOne(p, n) \/ PruneOne(p, n) \/ PruneGone(p, n)
       PROVE  Seated(p)'
  <2>1. CASE WriteOne(p, n) \/ PruneOne(p, n)
    BY <2>1, StayingSeats DEF WriteOne, PruneOne, lockVars, publishing
  <2>2. CASE PruneGone(p, n)
    <3>1. Outside(p)
      BY <2>2, EndIsOutside DEF PruneGone
    <3> QED BY <2>2, <3>1, <1>5 DEF PruneGone
  <2> QED BY <1>17, <2>1, <2>2
<1> QED BY <1>1, <1>2, <1>3, <1>4, <1>6, <1>7, <1>8, <1>9, <1>10, <1>11, <1>12,
           <1>13, <1>14, <1>15, <1>16, <1>17 DEF Progress

\* A failure leaves its run out of the lock.
LEMMA TroubleSeats ==
  ASSUME WorkingLock, PublishInv, RenderTypeOK, NEW p \in Runs, Seated(p), Trouble(p)
  PROVE  Seated(p)'
<1>1. Outside(p)
  BY TroubleIsOutside
<1>2. CASE LockErrs(p)
  BY <1>2, RefusedSeats
  DEF LockErrs, LockUnopenable, OtherErrno, RefuseUnsupported
<1>3. CASE BadPlan(p) \/ PolicyRefuses(p) \/ MakeOutputFails(p)
           \/ RendererRaises(p) \/ StagedUnreadable(p)
  BY <1>1, <1>3, ExitSeats
  DEF BadPlan, PolicyRefuses, MakeOutputFails, RendererRaises, StagedUnreadable
<1>4. CASE StagingUnavailable(p) \/ RenderFails(p) \/ ArgoMissing(p)
           \/ SnapshotFails(p) \/ LinterSilent(p)
  BY <1>1, <1>4, ExitSeats
  DEF StagingUnavailable, RenderFails, ArgoMissing, SnapshotFails, LinterSilent
<1>5. CASE DropFails(p) \/ PreflightFails(p) \/ WriteFails(p)
           \/ ScanFails(p) \/ PruneFails(p)
  BY <1>1, <1>5, ExitSeats
  DEF DropFails, PreflightFails, WriteFails, ScanFails, PruneFails
<1> QED BY <1>2, <1>3, <1>4, <1>5 DEF Trouble

\* So does a kill, and it leaves no publish half-way in a live run.
LEMMA KillSeats ==
  ASSUME PublishInv, RenderTypeOK, NEW p \in Runs, Seated(p), Kill(p)
  PROVE  Seated(p)'
<1>1. pc'[p] = "dead" /\ lk'[p] # "held"
  BY DEF Kill, DieLocked, Enter, lockVars, PublishInv, LockInv, LockTypeOK,
         RenderTypeOK
<1>2. ~Mid(p)'
  BY DEF Kill, Stop, Goto, Mid, MidPhases, pubVars, PublishInv, PublishTypeOK
<1> QED BY <1>1, <1>2 DEF Seated, InLock, IsReading, Reading

\* No step of one run publishes for another.
LEMMA OthersPublishNothing ==
  ASSUME PublishInv, NEW p \in Runs, RunStep(p) \/ Kill(p), NEW q \in Runs \ {p}
  PROVE  pub'[q] = pub[q]
<1>1. CASE Outside(p)
  BY <1>1 DEF Outside, publishing
<1>2. CASE BeginPublish(p)
  BY <1>2 DEF BeginPublish, PublishBegin, PublishRefused, Goto, PublishInv, PublishTypeOK
<1>3. CASE Publishing(p)
  BY <1>3, StepTouchesOwnLists DEF Publishing
<1>4. CASE Kill(p)
  BY <1>4 DEF Kill, Stop, Goto, pubVars, PublishInv, PublishTypeOK
<1> QED BY <1>1, <1>2, <1>3, <1>4, ProgressIsOutside, TroubleIsOutside DEF RunStep

\* The ground holds whoever takes the step.
LEMMA StepKeepsGround ==
  ASSUME WorkingLock, Ground, NEW p \in Runs, RunStep(p) \/ Kill(p)
  PROVE  Ground'
<1>1. /\ PublishInv /\ RenderTyped /\ RenderTypeOK /\ \A q \in Runs : Ledger(q)
      /\ \A q \in Runs : Rules(q) /\ Seated(q)
  BY DEF Ground, RenderTyped
<1>2. RenderTyped' /\ dir' \in Contents
  BY <1>1, ProgressKeepsTyped, TroubleKeepsTyped, KillKeepsTyped
  DEF RunStep, RenderTyped, FilesTyped
<1>3. KeepsToLock(p)
  BY ProgressKeepsToLock, TroubleKeepsToLock, KillKeepsToLock DEF RunStep
<1>4. PublishInv' /\ \A q \in Runs : Ledger(q)'
  <2>1. CASE Kill(p)
    BY <1>1, <2>1, KillKeepsInv
  <2>2. CASE Outside(p)
    BY <1>1, <1>2, <1>3, <2>2, OutsideIsIdle, OutsideKeepsInv
  <2>3. CASE BeginPublish(p) \/ Publishing(p)
    BY <1>1, <2>3, InsideKeepsInv
  <2> QED BY <2>1, <2>2, <2>3, ProgressIsOutside, TroubleIsOutside DEF RunStep
<1>5. ASSUME NEW q \in Runs PROVE Rules(q)' /\ Seated(q)'
  <2>1. Rules(q)'
    BY <1>1, StepKeepsRules DEF RenderNext
  <2>2. CASE q = p
    <3>1. Seated(p)'
      BY <1>1, ProgressSeats, TroubleSeats, KillSeats DEF RunStep
    <3> QED BY <2>1, <2>2, <3>1
  <2>3. CASE q # p
    <3>1. lk'[q] = lk[q] /\ pub'[q] = pub[q]
      BY <1>1, <1>3, <2>3, LockMovesOne, OthersPublishNothing
      DEF PublishInv, LockInv, LockTypeOK
    <3>2. job'[q] = job[q] /\ pc'[q] = pc[q]
      BY <1>1, <2>3, OthersStay DEF Stays
    <3> QED BY <1>1, <2>1, <3>1, <3>2 DEF Seated, InLock, IsReading, Mid
  <2> QED BY <2>1, <2>2, <2>3
<1> QED BY <1>2, <1>4, <1>5 DEF Ground

\* A step of nobody moves no run, and at most the clock.
LEMMA NobodyMoves ==
  ASSUME UNCHANGED allVars \/ TimePasses
  PROVE  UNCHANGED pubVars /\ UNCHANGED runVars /\ UNCHANGED lk /\ \A q \in Runs : Stays(q)
  BY DEF allVars, TimePasses, Tick, lockVars, runVars, Stays

\* What each run has done in the lock and in _publish goes together with where
\* it stands in its command.
LEMMA GroundInvariant ==
  ASSUME WorkingLock
  PROVE  RenderSafeSpec => []Ground
<1>1. RenderInit => Ground
  <2> SUFFICES ASSUME RenderInit PROVE Ground
    OBVIOUS
  <2>1. RenderTyped
    BY JobsAssumption, NothingIsContents
    DEF RenderInit, PublishInit, RenderTyped, RenderTypeOK, FilesTyped, Phases, NoExit
  <2>2. LockInv /\ LockInit /\ PublishInit
    BY LockInitInv DEF RenderInit
  <2>3. PublishTypeOK
    <3>1. depth \in 0 .. PathLen
      BY PublishAssumption DEF RenderInit
    <3>2. Nothing \in Contents
      BY NothingIsContents
    <3> QED BY <2>1, <2>2, <3>1, <3>2, PublishAssumption
            DEF PublishInit, PublishTypeOK, RenderTyped, FilesTyped
  <2>4. ASSUME NEW p \in Runs
        PROVE  /\ lk[p] = "out" /\ pub[p] = "idle" /\ pc[p] = "load" /\ ~Mid(p)
               /\ Tracks(p) /\ Counted(p) /\ Ledger(p)
    BY <2>2
    DEF RenderInit, LockInit, PublishInit, Tracks, Counted, Ledger, Mid, MidPhases
  <2>5. Exclusive
    BY <2>4 DEF Exclusive
  <2>6. ASSUME NEW p \in Runs PROVE Rules(p) /\ Seated(p)
    BY <2>4
    DEF RenderInit, Rules, Phased, Decides, Heard, Seated, InLock, IsReading, Reading
  <2> QED BY <2>1, <2>2, <2>3, <2>4, <2>5, <2>6 DEF Ground, PublishInv
<1>2. Ground /\ [RenderNext]_allVars => Ground'
  <2> SUFFICES ASSUME Ground, [RenderNext]_allVars PROVE Ground'
    OBVIOUS
  <2>1. CASE UNCHANGED allVars \/ TimePasses
    <3>1. UNCHANGED pubVars /\ UNCHANGED runVars /\ UNCHANGED lk
      BY <2>1, NobodyMoves
    <3>2. UNCHANGED <<dir, depth, pub, staged, todo, half, published, backup,
                      kept, probed, before, faults>>
      BY <3>1 DEF pubVars
    <3>3. LockInv'
      BY <2>1, LockInvStep DEF Ground, PublishInv, LockNext, TimePasses, allVars
    <3>4. PublishInv' /\ \A q \in Runs : Ledger(q)'
      BY <3>1, <3>2, <3>3
      DEF Ground, PublishInv, PublishTypeOK, Exclusive, Tracks, Counted, Undoes,
          Mid, Failed, Ledger, Present
    <3>5. RenderTyped'
      BY <3>1, <3>2 DEF Ground, RenderTyped, RenderTypeOK, FilesTyped, runVars
    <3>6. ASSUME NEW q \in Runs PROVE Rules(q)' /\ Seated(q)'
      <4>1. Rules(q)'
        BY <3>1, StayingDecides DEF Ground, runVars
      <4> QED BY <3>1, <3>2, <4>1 DEF Ground, runVars, Seated, InLock, IsReading, Mid
    <3> QED BY <3>4, <3>5, <3>6 DEF Ground
  <2>2. ASSUME NEW p \in Runs, RunStep(p) \/ Kill(p)
        PROVE  Ground'
    BY <2>2, StepKeepsGround
  <2> QED BY <2>1, <2>2 DEF RenderNext
<1> QED BY <1>1, <1>2, PTL DEF RenderSafeSpec

-----------------------------------------------------------------------------
\* What is at a name once the whole rendered set is in place.
Lands(p, n) ==
  IF Rendered(p)[n] # Absent THEN Rendered(p)[n] ELSE found[p][n]

\* What --prune takes away of what the run found.
Removable(p) ==
  {n \in Present(found[p]) \ Present(Rendered(p)) :
     job[p].prune /\ IsRemovable(found[p][n], job[p].render)}

\* What the directory owes, in each phase, to what the run found when it
\* entered the lock.
Accounts(p) ==
  /\ IsReading(p) => dir = found[p]
  /\ pc[p] = "publish" =>
       /\ pub[p] \in {"idle", "refused", "escaped", "rolledback"} => dir = found[p]
       /\ Mid(p) => before[p] = found[p] /\ staged[p] = Rendered(p)
       /\ pub[p] = "committed" => \A n \in Names : dir[n] = Lands(p, n)
       /\ pub[p] = "partial" =>
            \A n \in Names \ Present(Rendered(p)) : dir[n] = found[p][n]
  /\ pc[p] = "write" =>
       /\ left[p] \subseteq Present(Rendered(p))
       /\ \A n \in Names : dir[n] = IF n \in left[p] THEN found[p][n] ELSE Lands(p, n)
  /\ pc[p] = "scan" => \A n \in Names : dir[n] = Lands(p, n)
  /\ pc[p] = "prune" =>
       /\ left[p] \subseteq Removable(p)
       /\ \A n \in Names :
            dir[n] = IF n \in Removable(p) \ left[p] THEN Absent ELSE Lands(p, n)

\* Past the preflight, what was found at a name of the render may be replaced.
Cleared(p) ==
  pc[p] \in {"kstage", "publish", "write", "scan", "prune"} =>
    \A n \in Present(Rendered(p)) :
      found[p][n] # Absent => IsWritable(found[p][n], Rendered(p)[n])

\* Outside the lock nothing is owed.
LEMMA OutOwesNothing ==
  ASSUME NEW p \in Runs, ~InLock(p)'
  PROVE  Accounts(p)' /\ Cleared(p)'
  BY DEF InLock, IsReading, Reading, Accounts, Cleared

\* Nor once the run is over.
LEMMA OverOwesNothing ==
  ASSUME NEW p \in Runs, pc'[p] \in Over
  PROVE  Accounts(p)' /\ Cleared(p)'
  BY OutOwesNothing DEF Over, InLock, IsReading, Reading

\* Failures, refusals and kills end a run.
LEMMA TroubleEnds ==
  ASSUME RenderTypeOK, NEW p \in Runs, Trouble(p) \/ Kill(p)
  PROVE  pc'[p] \in Over
<1>1. \A code, claim : End(p, code, claim) => pc'[p] \in Over
  BY DEF End, RenderTypeOK, Over
<1>2. \A code, claim :
        Exit(p, code, claim) \/ Refuse(p, code) \/ FailWith(p, code, claim)
          => pc'[p] \in Over
  BY <1>1 DEF Exit, Refuse, FailWith
<1>3. CASE Kill(p)
  BY <1>3 DEF Kill, RenderTypeOK, Over
<1>4. CASE BadPlan(p) \/ PolicyRefuses(p) \/ MakeOutputFails(p)
           \/ RendererRaises(p) \/ StagedUnreadable(p)
  BY <1>2, <1>4
  DEF BadPlan, PolicyRefuses, MakeOutputFails, RendererRaises, StagedUnreadable
<1>5. CASE LockErrs(p)
  BY <1>1, <1>5 DEF LockErrs, LockRefused
<1>6. CASE StagingUnavailable(p) \/ RenderFails(p) \/ ArgoMissing(p)
           \/ SnapshotFails(p) \/ LinterSilent(p)
  BY <1>2, <1>6
  DEF StagingUnavailable, RenderFails, ArgoMissing, SnapshotFails, LinterSilent
<1>7. CASE DropFails(p) \/ PreflightFails(p) \/ WriteFails(p)
           \/ ScanFails(p) \/ PruneFails(p)
  BY <1>2, <1>7 DEF DropFails, PreflightFails, WriteFails, ScanFails, PruneFails
<1> QED BY <1>3, <1>4, <1>5, <1>6, <1>7 DEF Trouble

\* A run that goes on without moving a file, from one phase in which it has
\* changed nothing to another.
LEMMA ReadingOn ==
  ASSUME NEW p \in Runs, Seated(p), Cleared(p), dir = found[p], UNCHANGED <<dir, pub>>,
         job'[p] = job[p], found'[p] = found[p],
         IsReading(p)' \/ (pc'[p] = "publish" /\ pub[p] = "idle"),
         pc'[p] \in {"kstage", "publish"} =>
           pc[p] = "kstage" \/ \A n \in Present(Rendered(p)) :
             found[p][n] # Absent => IsWritable(found[p][n], Rendered(p)[n])
  PROVE  Accounts(p)' /\ Cleared(p)'
<1>1. Rendered(p)' = Rendered(p) /\ dir' = found'[p]
  BY DEF Rendered
<1>2. Cleared(p)'
  BY <1>1 DEF Cleared, IsReading, Reading
<1>3. ~Mid(p)' \/ pc'[p] # "publish"
  BY DEF Mid, MidPhases, IsReading, Reading
<1> QED BY <1>1, <1>2, <1>3 DEF Accounts, IsReading, Reading

\* What a run renders and finds decides what it will leave.
LEMMA SameRun ==
  ASSUME NEW p \in Runs, job'[p] = job[p], found'[p] = found[p]
  PROVE  /\ Rendered(p)' = Rendered(p) /\ Removable(p)' = Removable(p)
         /\ \A n \in Names : Lands(p, n)' = Lands(p, n)
  BY DEF Rendered, Removable, Lands, Present

\* Publishing, step by step.
LEMMA PublishingAccounts ==
  ASSUME Ground, NEW p \in Runs, Accounts(p), Cleared(p),
         BeginPublish(p) \/ Publishing(p)
  PROVE  Accounts(p)' /\ Cleared(p)'
<1>1. /\ PublishInv /\ Ledger(p) /\ Tracks(p)
      /\ pc[p] = "publish" /\ pc'[p] = "publish"
      /\ job'[p] = job[p] /\ found'[p] = found[p]
  BY DEF Ground, PublishInv, BeginPublish, Publishing, runVars
<1>2. /\ Rendered(p)' = Rendered(p) /\ \A n \in Names : Lands(p, n)' = Lands(p, n)
  BY <1>1, SameRun
<1>3. Cleared(p)'
  BY <1>1, <1>2 DEF Cleared
<1>4. /\ pub \in [Runs -> {"idle"} \cup MidPhases \cup PubEnds]
      /\ before \in [Runs -> Contents] /\ staged \in [Runs -> Contents]
  BY <1>1 DEF PublishInv, PublishTypeOK
<1> SUFFICES
      /\ pub'[p] \in {"idle", "refused", "escaped", "rolledback"} => dir' = found[p]
      /\ Mid(p)' => before'[p] = found[p] /\ staged'[p] = Rendered(p)
      /\ pub'[p] = "committed" => \A n \in Names : dir'[n] = Lands(p, n)
      /\ pub'[p] = "partial" =>
           \A n \in Names \ Present(Rendered(p)) : dir'[n] = found[p][n]
  BY <1>1, <1>2, <1>3 DEF Accounts, IsReading, Reading
<1>5. CASE BeginPublish(p)
  <2>1. pub[p] = "idle" /\ dir' = dir /\ dir = found[p]
    BY <1>1, <1>5 DEF BeginPublish, PublishBegin, PublishRefused, Accounts
  <2>2. CASE PublishRefused(p)
    <3>1. pub'[p] = "refused"
      BY <1>4, <2>2 DEF PublishRefused, Goto
    <3> QED BY <2>1, <3>1 DEF Mid, MidPhases
  <2>3. CASE PublishBegin(p, Rendered(p))
    <3>1. pub'[p] = "mkdir" /\ before'[p] = dir /\ staged'[p] = Rendered(p)
      BY <1>4, <2>3 DEF PublishBegin, Goto
    <3> QED BY <2>1, <3>1 DEF Mid, MidPhases
  <2> QED BY <1>5, <2>2, <2>3 DEF BeginPublish
<1>6. CASE Publishing(p)
  <2>1. /\ PublishStep(p) /\ Mid(p) /\ before[p] = found[p] /\ staged[p] = Rendered(p)
        /\ UNCHANGED <<before, staged>>
    BY <1>1, <1>6, StepIsMid, StepKeepsGiven DEF Publishing, Accounts
  <2>2. CASE pub'[p] \in MidPhases
    BY <2>1, <2>2 DEF MidPhases
  <2>3. CASE \/ MakeOutputDirFails(p) /\ pub'[p] = "escaped"
             \/ RollbackComplete(p) /\ pub'[p] = "rolledback"
    <3>1. published[p] = {} /\ Present(backup[p]) = {} /\ dir' = dir
      BY <1>1, <2>3
      DEF MakeOutputDirFails, RollbackComplete, Tracks, Ledger, Present, Nothing
    <3> QED BY <1>1, <2>1, <2>3, <3>1, UndoneIsBefore DEF Mid, MidPhases
  <2>4. CASE Commit(p) /\ pub'[p] = "committed"
    <3>1. \A n \in Names :
            dir[n] = IF staged[p][n] # Absent THEN staged[p][n] ELSE before[p][n]
      BY <1>1, <2>4, CommitHasLanded
    <3>2. dir' = dir
      BY <2>4 DEF Commit
    <3> QED BY <2>1, <2>4, <3>1, <3>2 DEF Mid, MidPhases, Lands
  <2>5. CASE RollbackIncomplete(p) /\ pub'[p] = "partial"
    <3>1. dir' = dir
      BY <2>5 DEF RollbackIncomplete
    <3>2. /\ Reported(p) \subseteq Present(Rendered(p))
          /\ \A n \in Names \ Reported(p) : dir[n] = found[p][n]
      BY <1>1, <2>1, ReportCovers
    <3> QED BY <2>5, <3>1, <3>2 DEF Mid, MidPhases
  <2> QED BY <1>1, <2>1, <2>2, <2>3, <2>4, <2>5, StepGoesOnOrEnds
<1> QED BY <1>5, <1>6

\* Every step of a command settles what it owes in the phase it comes to.
LEMMA ProgressAccounts ==
  ASSUME Ground, NEW p \in Runs, Accounts(p), Cleared(p), Progress(p)
  PROVE  Accounts(p)' /\ Cleared(p)'
<1>t. /\ RenderTypeOK /\ job[p].kind \in Kinds /\ Rendered(p) \in Contents
      /\ dir \in Contents /\ found[p] \in Contents
  BY JobsAssumption DEF Ground, RenderTyped, RenderTypeOK, FilesTyped, Rendered
<1>s. Seated(p) /\ Phased(p)
  BY DEF Ground, Rules
<1>e. \A code, claim :
        Exit(p, code, claim) \/ Refuse(p, code) \/ End(p, code, claim)
          => Accounts(p)' /\ Cleared(p)'
  BY <1>t, OverOwesNothing DEF Exit, Refuse, End, RenderTypeOK, Over
<1>g. \A phase : Step(p, phase) => pc'[p] = phase /\ job'[p] = job[p]
  BY <1>t DEF Step, RenderTypeOK
<1>1. CASE LoadPlan(p) \/ MakeStaging(p) \/ ResolveArgo(p)
  <2>1. /\ pc'[p] \in {"stage", "lock", "policy", "resolve"}
        /\ pc'[p] = "policy" => job'[p].kind # "argo"
    BY <1>1, <1>t, <1>s, <1>g DEF LoadPlan, MakeStaging, ResolveArgo, Kinds, Phased
  <2> QED BY <2>1, OutOwesNothing DEF InLock, IsReading, Reading
<1>2. CASE PolicyAllows(p)
  <2>1. CASE job[p].kind = "argo"
    <3>1. /\ pc'[p] = "mkdir" /\ dir = found[p] /\ UNCHANGED <<dir, pub>>
          /\ job'[p] = job[p] /\ found'[p] = found[p]
      BY <1>2, <1>g, <2>1 DEF PolicyAllows, Accounts, IsReading, pubVars
    <3> QED BY <1>s, <3>1, ReadingOn DEF IsReading, Reading
  <2>2. CASE job[p].kind # "argo"
    <3>1. pc'[p] \in {"lock", "resolve"}
      BY <1>2, <1>t, <1>g, <2>2 DEF PolicyAllows, Kinds
    <3> QED BY <3>1, OutOwesNothing DEF InLock, IsReading, Reading
  <2> QED BY <2>1, <2>2
<1>3. CASE NothingToLint(p) \/ LockTimesOut(p) \/ SyntaxRejects(p) \/ NotOwned(p)
           \/ UnhashableLabel(p) \/ PublishFailed(p) \/ Succeed(p)
  BY <1>3, <1>e
  DEF NothingToLint, LockTimesOut, LockRefused, SyntaxRejects, NotOwned,
      UnhashableLabel, PublishFailed, Succeed
<1>4. CASE WaitForLock(p)
  <2>1. pc'[p] = "lock"
    BY <1>4, <1>t DEF WaitForLock, OpenLock, runVars
  <2> QED BY <2>1, OutOwesNothing DEF InLock, IsReading, Reading
<1>5. CASE EnterLock(p)
  <2>1. /\ found'[p] = dir /\ dir' = dir /\ job'[p] = job[p] /\ Rendered(p)' = Rendered(p)
        /\ \/ pc'[p] = "scan" /\ Present(Rendered(p)) = {}
           \/ pc'[p] \in {"list", "preflight"}
           \/ pc'[p] = "policy" /\ job[p].kind = "argo"
    BY <1>5, <1>t, <1>g DEF EnterLock, Entered, Kinds, pubVars, RenderTypeOK, Rendered
  <2>2. CASE pc'[p] = "scan" /\ Present(Rendered(p)) = {}
    BY <2>1, <2>2 DEF Accounts, Cleared, IsReading, Reading, Lands, Present
  <2>3. CASE pc'[p] \in {"list", "preflight"} \/ pc'[p] = "policy"
    BY <2>1, <2>3 DEF Accounts, Cleared, IsReading, Reading
  <2> QED BY <2>1, <2>2, <2>3
<1>6. CASE ListOutput(p) \/ LintAnswers(p)
  <2>1. /\ pc[p] \in Reading /\ pc'[p] \in {"copy", "drop"} /\ UNCHANGED <<dir, pub>>
        /\ job'[p] = job[p] /\ found'[p] = found[p]
    BY <1>6, <1>g DEF ListOutput, LintAnswers, Copied, Reading, pubVars
  <2> QED BY <1>s, <2>1, ReadingOn DEF Accounts, IsReading, Reading
<1>7. ASSUME NEW n \in Names, CopyForLint(p, n) \/ SymlinkedManifest(p, n)
      PROVE  Accounts(p)' /\ Cleared(p)'
  <2>1. CASE CopyForLint(p, n)
    <3>1. /\ pc[p] = "copy" /\ pc'[p] = "copy" /\ UNCHANGED <<dir, pub>>
          /\ job'[p] = job[p] /\ found'[p] = found[p]
      BY <2>1 DEF CopyForLint, pubVars
    <3> QED BY <1>s, <3>1, ReadingOn DEF Accounts, IsReading, Reading
  <2>2. CASE SymlinkedManifest(p, n)
    BY <2>2, <1>e DEF SymlinkedManifest
  <2> QED BY <1>7, <2>1, <2>2
<1>8. CASE DropCarried(p)
  <2>1. CASE Step(p, "preflight")
    <3>1. /\ pc[p] = "drop" /\ pc'[p] = "preflight" /\ UNCHANGED <<dir, pub>>
          /\ job'[p] = job[p] /\ found'[p] = found[p]
      BY <1>8, <1>g, <2>1 DEF DropCarried, pubVars
    <3> QED BY <1>s, <3>1, ReadingOn DEF Accounts, IsReading, Reading
  <2>2. CASE pc' = [pc EXCEPT ![p] = "done"]
    BY <1>t, <2>2, OverOwesNothing DEF RenderTypeOK, Over
  <2> QED BY <1>8, <2>1, <2>2 DEF DropCarried
<1>9. CASE Preflight(p)
  <2>1. /\ pc[p] = "preflight" /\ dir = found[p] /\ UNCHANGED <<dir, pub>>
        /\ job'[p] = job[p] /\ found'[p] = found[p] /\ pub[p] = "idle"
        /\ left'[p] = Present(Rendered(p))
        /\ pc'[p] \in {"publish", "write", "kstage"}
    BY <1>9, <1>t, <1>s, <1>g
    DEF Preflight, Accounts, IsReading, Reading, Seated, pubVars, Kinds, RenderTypeOK
  <2>2. \A n \in Present(Rendered(p)) :
          found[p][n] # Absent => IsWritable(found[p][n], Rendered(p)[n])
    BY <1>9, <2>1 DEF Preflight, AllWritable
  <2>3. CASE pc'[p] = "write"
    <3>1. Rendered(p)' = Rendered(p) /\ \A n \in Names : Lands(p, n)' = Lands(p, n)
      BY <2>1, SameRun
    <3> QED BY <2>1, <2>2, <2>3, <3>1
            DEF Accounts, Cleared, IsReading, Reading, Lands, Present
  <2>4. CASE pc'[p] \in {"publish", "kstage"}
    BY <1>s, <2>1, <2>2, <2>4, ReadingOn DEF IsReading, Reading
  <2> QED BY <2>1, <2>3, <2>4
<1>10. CASE MakeOutput(p)
  <2>1. /\ dir = found[p] /\ UNCHANGED <<dir, pub>>
        /\ job'[p] = job[p] /\ found'[p] = found[p] /\ pub[p] = "idle"
        /\ \/ pc'[p] = "preflight"
           \/ pc[p] = "kstage" /\ pc'[p] = "publish"
    BY <1>10, <1>s, <1>g
    DEF MakeOutput, Accounts, IsReading, Reading, Seated, publishing
  <2> QED BY <1>s, <2>1, ReadingOn DEF IsReading, Reading
<1>11. CASE BeginPublish(p) \/ Publishing(p)
  BY <1>11, PublishingAccounts
<1>12. CASE Published(p) \/ WritesDone(p)
  <2>1. /\ pc'[p] = "scan" /\ dir' = dir /\ job'[p] = job[p] /\ found'[p] = found[p]
        /\ \A n \in Names : dir[n] = Lands(p, n)
        /\ pc[p] \in {"publish", "write"}
    BY <1>12, <1>g DEF Published, WritesDone, pubVars, Accounts
  <2>2. Rendered(p)' = Rendered(p) /\ \A n \in Names : Lands(p, n)' = Lands(p, n)
    BY <2>1, SameRun
  <2> QED BY <2>1, <2>2 DEF Accounts, Cleared, IsReading, Reading
<1>13. ASSUME NEW n \in Names, WriteOne(p, n) \/ PruneOne(p, n) \/ PruneGone(p, n)
       PROVE  Accounts(p)' /\ Cleared(p)'
  <2>1. CASE WriteOne(p, n) \/ PruneOne(p, n)
    <3>1. /\ pc'[p] = pc[p] /\ job'[p] = job[p] /\ found'[p] = found[p]
          /\ left'[p] = left[p] \ {n} /\ n \in left[p]
      BY <1>t, <2>1 DEF WriteOne, PruneOne, RenderTypeOK
    <3>2. /\ Rendered(p)' = Rendered(p) /\ Removable(p)' = Removable(p)
          /\ \A m \in Names : Lands(p, m)' = Lands(p, m)
      BY <3>1, SameRun
    <3>3. Cleared(p)'
      BY <3>1, <3>2 DEF Cleared
    <3>4. CASE WriteOne(p, n)
      <4>1. pc[p] = "write" /\ dir' = [dir EXCEPT ![n] = Rendered(p)[n]]
        BY <3>4 DEF WriteOne
      <4>2. \A m \in Names : dir'[m] = IF m = n THEN Rendered(p)[n] ELSE dir[m]
        BY <1>t, <4>1 DEF Contents
      <4>3. Rendered(p)[n] # Absent
        BY <3>1, <4>1 DEF Accounts, Present
      <4> QED BY <3>1, <3>2, <3>3, <4>1, <4>2, <4>3
              DEF Accounts, IsReading, Reading, Lands
    <3>5. CASE PruneOne(p, n)
      <4>1. pc[p] = "prune" /\ dir' = [dir EXCEPT ![n] = Absent]
        BY <3>5 DEF PruneOne
      <4>2. \A m \in Names : dir'[m] = IF m = n THEN Absent ELSE dir[m]
        BY <1>t, <4>1 DEF Contents
      <4> QED BY <3>1, <3>2, <3>3, <4>1, <4>2 DEF Accounts, IsReading, Reading
    <3> QED BY <2>1, <3>4, <3>5
  <2>2. CASE PruneGone(p, n)
    BY <2>2, <1>e DEF PruneGone
  <2> QED BY <1>13, <2>1, <2>2
<1>14. CASE ScanStale(p)
  <2>1. /\ pc[p] = "scan" /\ pc'[p] = "prune" /\ dir' = dir
        /\ job'[p] = job[p] /\ found'[p] = found[p]
    BY <1>14, <1>g DEF ScanStale, pubVars
  <2>2. \A n \in Names : dir[n] = Lands(p, n)
    BY <2>1 DEF Accounts
  <2>3. left'[p] = Removable(p)
    <3>1. left'[p] = IF job[p].prune
                     THEN {n \in Present(dir) \ Present(Rendered(p)) :
                             IsRemovable(dir[n], job[p].render)}
                     ELSE {}
      BY <1>14, <1>t DEF ScanStale, RenderTypeOK
    <3>2. \A n \in Names \ Present(Rendered(p)) : dir[n] = found[p][n]
      BY <2>2 DEF Lands, Present
    <3>3. Present(dir) \ Present(Rendered(p)) = Present(found[p]) \ Present(Rendered(p))
      BY <3>2 DEF Present
    <3>4. {n \in Present(dir) \ Present(Rendered(p)) : IsRemovable(dir[n], job[p].render)}
            = {n \in Present(found[p]) \ Present(Rendered(p)) :
                 IsRemovable(found[p][n], job[p].render)}
      BY <3>2, <3>3 DEF Present
    <3> QED BY <3>1, <3>4 DEF Removable
  <2>4. /\ Rendered(p)' = Rendered(p) /\ Removable(p)' = Removable(p)
        /\ \A n \in Names : Lands(p, n)' = Lands(p, n)
    BY <2>1, SameRun
  <2>5. Cleared(p)'
    BY <2>1, <2>4 DEF Cleared
  <2> QED BY <2>1, <2>2, <2>3, <2>4, <2>5 DEF Accounts, IsReading, Reading
<1> QED BY <1>1, <1>2, <1>3, <1>4, <1>5, <1>6, <1>7, <1>8, <1>9, <1>10, <1>11,
           <1>12, <1>13, <1>14 DEF Progress

\* While a run holds the lock, no other changes a file or what it published.
LEMMA HolderIsUndisturbed ==
  ASSUME WorkingLock, Ground, NEW p \in Runs, RunStep(p) \/ Kill(p),
         NEW q \in Runs \ {p}, InLock(q)
  PROVE  UNCHANGED dir /\ UNCHANGED publishing
<1>1. PublishInv /\ Seated(p) /\ Seated(q)
  BY DEF Ground
<1>2. Inside(q)
  BY <1>1, HeldIsInside DEF Seated
<1>3. ~Inside(p) /\ ~Mid(p)
  BY <1>1, <1>2, Alone
<1>4. ~BeginPublish(p) /\ ~Publishing(p)
  BY <1>3, StepIsMid DEF BeginPublish, PublishBegin, PublishRefused, Publishing
<1>5. CASE Kill(p)
  BY <1>3, <1>5 DEF Kill, Mid, pubVars, publishing
<1>6. CASE Outside(p)
  BY <1>1, <1>3, <1>6, OutsideIsIdle DEF Outside
<1> QED BY <1>4, <1>5, <1>6, ProgressIsOutside, TroubleIsOutside DEF RunStep

\* A run that stays, with the directory and its publish as they are, owes what
\* it owed.
LEMMA StayingOwes ==
  ASSUME NEW q \in Runs, Accounts(q), Cleared(q), Stays(q),
         InLock(q) => UNCHANGED dir /\ UNCHANGED publishing
  PROVE  Accounts(q)' /\ Cleared(q)'
<1>1. /\ Rendered(q)' = Rendered(q) /\ Removable(q)' = Removable(q)
      /\ \A n \in Names : Lands(q, n)' = Lands(q, n)
  BY SameRun DEF Stays
<1>2. Cleared(q)'
  BY <1>1 DEF Stays, Cleared
<1>3. CASE InLock(q)
  <2>1. dir' = dir /\ pub'[q] = pub[q] /\ before'[q] = before[q] /\ staged'[q] = staged[q]
    BY <1>3 DEF publishing
  <2> QED BY <1>1, <1>2, <2>1 DEF Accounts, Stays, IsReading, Mid
<1>4. CASE ~InLock(q)
  BY <1>4, OutOwesNothing DEF Stays, InLock, IsReading
<1> QED BY <1>3, <1>4

Settled == \A p \in Runs : Accounts(p) /\ Cleared(p)

\* At every point of every command the directory is what the run that holds the
\* lock found, plus what that run says it has written, less what it has pruned.
LEMMA SettledInvariant ==
  ASSUME WorkingLock
  PROVE  RenderSafeSpec => []Settled
<1>1. RenderInit => Settled
  BY DEF RenderInit, Settled, Accounts, Cleared, IsReading, Reading
<1>2. Ground /\ Settled /\ [RenderNext]_allVars => Settled'
  <2> SUFFICES ASSUME Ground, Settled, [RenderNext]_allVars PROVE Settled'
    OBVIOUS
  <2>1. CASE UNCHANGED allVars \/ TimePasses
    <3>1. UNCHANGED dir /\ UNCHANGED publishing /\ \A q \in Runs : Stays(q)
      BY <2>1, NobodyMoves DEF pubVars, publishing
    <3> QED BY <3>1, StayingOwes DEF Settled
  <2>2. ASSUME NEW p \in Runs, RunStep(p) \/ Kill(p), NEW q \in Runs
        PROVE  Accounts(q)' /\ Cleared(q)'
    <3>1. RenderTypeOK /\ \A r \in Runs : Accounts(r) /\ Cleared(r)
      BY DEF Ground, RenderTyped, Settled
    <3>2. Accounts(p)' /\ Cleared(p)'
      BY <2>2, <3>1, ProgressAccounts, TroubleEnds, OverOwesNothing DEF RunStep
    <3>3. CASE q # p
      BY <2>2, <3>1, <3>3, OthersStay, HolderIsUndisturbed, StayingOwes
    <3> QED BY <3>2, <3>3
  <2> QED BY <2>1, <2>2 DEF RenderNext, Settled
<1> QED BY <1>1, <1>2, GroundInvariant, PTL DEF RenderSafeSpec

-----------------------------------------------------------------------------
\* Only a run's own step ends it.
LEMMA EndIsOwn ==
  ASSUME RenderTypeOK, [RenderNext]_allVars, NEW p \in Runs, pc'[p] # pc[p]
  PROVE  RunStep(p) \/ Kill(p)
<1>1. CASE UNCHANGED allVars \/ TimePasses
  BY <1>1, NobodyMoves DEF Stays
<1>2. ASSUME NEW q \in Runs, RunStep(q) \/ Kill(q), q # p
      PROVE  FALSE
  BY <1>2, OthersStay DEF Stays
<1> QED BY <1>1, <1>2 DEF RenderNext

\* No file changes in the step that ends a run.
LEMMA EndMovesNoFile ==
  ASSUME RenderTypeOK, NEW p \in Runs, RunStep(p) \/ Kill(p), pc'[p] # pc[p]
  PROVE  UNCHANGED dir
<1>1. CASE Kill(p)
  BY <1>1 DEF Kill, Stop, pubVars
<1>2. CASE Trouble(p)
  BY <1>2
  DEF Trouble, BadPlan, StagingUnavailable, PolicyRefuses, RenderFails,
      RendererRaises, StagedUnreadable, ArgoMissing, LockErrs, LockRefused, SnapshotFails, LinterSilent, DropFails, PreflightFails,
      MakeOutputFails, WriteFails, ScanFails, PruneFails, Refuse, FailWith, pubVars
<1>3. CASE Progress(p)
  <2>1. ~BeginPublish(p) /\ ~Publishing(p)
    BY DEF BeginPublish, Publishing, runVars
  <2>2. ASSUME NEW n \in Names PROVE ~WriteOne(p, n) /\ ~PruneOne(p, n)
    BY DEF WriteOne, PruneOne
  <2> QED BY <1>3, <2>1, <2>2
      DEF Progress, LoadPlan, MakeStaging, PolicyAllows, ResolveArgo, NothingToLint,
          WaitForLock, EnterLock, Entered, LockTimesOut, LockRefused, ListOutput,
          CopyForLint, SymlinkedManifest, SyntaxRejects, LintAnswers, DropCarried,
          Preflight, NotOwned, UnhashableLabel, MakeOutput, Published, PublishFailed,
          PruneGone, WritesDone, ScanStale, Succeed, Refuse, pubVars
<1> QED BY <1>1, <1>2, <1>3 DEF RunStep

\* What a run can still say when it ends, and from which phase.
HonestEnd(p) ==
  /\ said'[p] \in {"unchanged", "rolledback"} =>
       /\ pc[p] \notin {"write", "scan", "prune"}
       /\ pc[p] = "publish" => pub[p] \in {"refused", "escaped", "rolledback"}
  /\ exit'[p] = 0 => pc[p] = "prune" /\ left[p] = {}

\* An end with a code and a claim.
LEMMA EndIsHonest ==
  ASSUME RenderTypeOK, NEW p \in Runs, NEW code \in {1, 2}, NEW claim,
         \/ End(p, code, claim) \/ Exit(p, code, claim) \/ FailWith(p, code, claim)
         \/ Refuse(p, code) /\ claim = "unchanged",
         claim \in {"unchanged", "rolledback"} =>
           /\ pc[p] \notin {"write", "scan", "prune"}
           /\ pc[p] = "publish" => pub[p] \in {"refused", "escaped", "rolledback"}
  PROVE  HonestEnd(p)
<1>1. said'[p] = claim /\ exit'[p] = code
  BY DEF End, Exit, FailWith, Refuse, RenderTypeOK
<1> QED BY <1>1 DEF HonestEnd

\* Every end is honest: only a run that has not begun to change the directory, or
\* whose publish undid itself, says that nothing has changed.
LEMMA EndsAreHonest ==
  ASSUME RenderTypeOK, NEW p \in Runs, RunStep(p), pc'[p] = "done", pc[p] # "done"
  PROVE  HonestEnd(p)
<1>1. CASE Trouble(p)
  <2>1. CASE BadPlan(p) \/ PolicyRefuses(p) \/ RendererRaises(p) \/ StagedUnreadable(p)
    BY <2>1, EndIsHonest
    DEF BadPlan, PolicyRefuses, RendererRaises, StagedUnreadable, Copied
  <2>2. CASE LockErrs(p)
    BY <2>2, EndIsHonest DEF LockErrs, LockRefused
  <2>3. CASE MakeOutputFails(p)
    BY <2>3, EndIsHonest DEF MakeOutputFails
  <2>4. CASE StagingUnavailable(p) \/ RenderFails(p) \/ ArgoMissing(p)
             \/ SnapshotFails(p) \/ LinterSilent(p)
    BY <2>4, EndIsHonest
    DEF StagingUnavailable, RenderFails, ArgoMissing, SnapshotFails, LinterSilent, Copied
  <2>5. CASE DropFails(p) \/ PreflightFails(p) \/ WriteFails(p)
             \/ ScanFails(p) \/ PruneFails(p)
    BY <2>5, EndIsHonest DEF DropFails, PreflightFails, WriteFails, ScanFails, PruneFails
  <2> QED BY <1>1, <2>1, <2>2, <2>3, <2>4, <2>5 DEF Trouble
<1>2. CASE NothingToLint(p) \/ SyntaxRejects(p)
  BY <1>2, EndIsHonest DEF NothingToLint, SyntaxRejects, Copied
<1>3. CASE NotOwned(p) \/ UnhashableLabel(p)
  <2>1. \/ Exit(p, 1, "traceback")
        \/ Exit(p, 2, "unchanged") /\ pc[p] = "preflight"
    BY <1>3 DEF NotOwned, UnhashableLabel
  <2> QED BY <2>1, EndIsHonest
<1>4. CASE LockTimesOut(p)
  BY <1>4, EndIsHonest DEF LockTimesOut, LockRefused
<1>5. CASE PublishFailed(p)
  BY <1>5, EndIsHonest DEF PublishFailed
<1>6. CASE Succeed(p)
  <2>1. said'[p] = "done" /\ pc[p] = "prune" /\ left[p] = {}
    BY <1>6 DEF Succeed, Exit, End, RenderTypeOK
  <2> QED BY <2>1 DEF HonestEnd
<1>7. CASE DropCarried(p)
  <2>1. pc[p] = "drop" /\ (~Step(p, "preflight") => exit'[p] = 1)
    BY <1>7 DEF DropCarried, RenderTypeOK
  <2>2. ~Step(p, "preflight")
    BY DEF Step, RenderTypeOK
  <2> QED BY <2>1, <2>2 DEF HonestEnd
<1>8. ASSUME NEW n \in Names, SymlinkedManifest(p, n) \/ PruneGone(p, n)
      PROVE  HonestEnd(p)
  BY <1>8, EndIsHonest DEF SymlinkedManifest, PruneGone
<1>9. CASE \E phase \in Phases \ Over : pc' = [pc EXCEPT ![p] = phase]
  BY <1>9 DEF RenderTypeOK, Over
<1>10. CASE UNCHANGED pc
  BY <1>10
<1>11. CASE LoadPlan(p) \/ MakeStaging(p) \/ PolicyAllows(p) \/ ResolveArgo(p)
            \/ EnterLock(p) \/ ListOutput(p) \/ LintAnswers(p)
            \/ Preflight(p) \/ MakeOutput(p) \/ Published(p) \/ WritesDone(p)
            \/ ScanStale(p)
  <2>1. job[p].kind \in Kinds
    BY JobsAssumption DEF RenderTypeOK
  <2>2. \E phase \in Phases \ Over : Step(p, phase)
    BY <1>11, <2>1
    DEF LoadPlan, MakeStaging, PolicyAllows, ResolveArgo, EnterLock, Entered,
        ListOutput, LintAnswers, Preflight, MakeOutput, Published, WritesDone,
        ScanStale, Kinds, Phases, Over
  <2> QED BY <1>9, <2>2 DEF Step
<1>12. CASE WaitForLock(p) \/ BeginPublish(p) \/ Publishing(p)
  BY <1>10, <1>12 DEF WaitForLock, BeginPublish, Publishing, runVars
<1>13. ASSUME NEW n \in Names, CopyForLint(p, n) \/ WriteOne(p, n) \/ PruneOne(p, n)
       PROVE  HonestEnd(p)
  BY <1>10, <1>13 DEF CopyForLint, WriteOne, PruneOne
<1> QED BY <1>1, <1>2, <1>3, <1>4, <1>5, <1>6, <1>7, <1>8, <1>11, <1>12, <1>13
    DEF RunStep, Progress

\* A run that ends, what it owed, and what it says.
LEMMA EndOfRun ==
  ASSUME WorkingLock, Ground, Settled, [RenderNext]_allVars, NEW p \in Runs,
         pc[p] \notin Over, pc'[p] \in Over
  PROVE  /\ UNCHANGED dir /\ Accounts(p) /\ Cleared(p)
         /\ pc'[p] = "done" => HonestEnd(p)
         /\ Inside(p) => InLock(p)
<1>1. RenderTypeOK /\ pc'[p] # pc[p] /\ PublishInv /\ Seated(p)
  BY DEF Ground, RenderTyped
<1>2. RunStep(p) \/ Kill(p)
  BY <1>1, EndIsOwn
<1>3. UNCHANGED dir
  BY <1>1, <1>2, EndMovesNoFile
<1>4. pc'[p] = "done" => RunStep(p)
  BY <1>1, <1>2 DEF Kill, RenderTypeOK
<1>5. pc'[p] = "done" => HonestEnd(p)
  BY <1>1, <1>4, EndsAreHonest DEF Over
<1>6. Inside(p) => InLock(p)
  BY <1>1, HeldIsInside DEF Seated
<1> QED BY <1>3, <1>5, <1>6 DEF Settled

\* Ends are ends of runs that had not ended: a dead run ends no more.
LEMMA EndsOnce ==
  ASSUME RenderTypeOK, [RenderNext]_allVars, NEW p \in Runs, pc[p] # "done",
         pc'[p] = "done"
  PROVE  pc[p] \notin Over
<1>1. RunStep(p) \/ Kill(p)
  BY EndIsOwn
<1>2. CASE Kill(p)
  BY <1>2 DEF Kill, Over
<1>3. CASE RunStep(p)
  <2>1. CASE pc[p] = "dead"
    BY <1>3, <2>1
    DEF RunStep, Progress, LoadPlan, MakeStaging, PolicyAllows, ResolveArgo,
        NothingToLint, WaitForLock, EnterLock, LockTimesOut, LockRefused, ListOutput,
        CopyForLint, SymlinkedManifest, SyntaxRejects, Copied, LintAnswers,
        DropCarried, Preflight, NotOwned, UnhashableLabel, Trips, MakeOutput,
        BeginPublish, Publishing, RendererRaises, StagedUnreadable,
        Published, PublishFailed, WriteOne, PruneOne, PruneGone, WritesDone,
        ScanStale, Succeed, Trouble, BadPlan, StagingUnavailable, PolicyRefuses,
        RenderFails, ArgoMissing, LockErrs, SnapshotFails, LinterSilent, DropFails,
        PreflightFails, MakeOutputFails, WriteFails, ScanFails, PruneFails
  <2> QED BY <2>1 DEF Over
<1> QED BY <1>1, <1>2, <1>3

\* A run that fails and says that the directory is unchanged or was rolled back
\* leaves exactly what it found when it entered the lock: for every number of
\* runs, every job, every set of files and every number of failing operations.
THEOREM FailuresLeaveOutput ==
  ASSUME WorkingLock
  PROVE  RenderSafeSpec => FailureLeavesOutput
<1> DEFINE Leaves == \A p \in Runs :
             /\ Inside(p)
             /\ Ends(p, 1) \/ Ends(p, 2)
             /\ said'[p] \in {"unchanged", "rolledback"}
             => dir' = found[p]
<1>1. Ground /\ Settled /\ [RenderNext]_allVars => [Leaves]_allVars
  <2> SUFFICES ASSUME Ground, Settled, [RenderNext]_allVars, NEW p \in Runs,
                      Inside(p), pc[p] # "done", pc'[p] = "done",
                      said'[p] \in {"unchanged", "rolledback"}
               PROVE  dir' = found[p]
    BY DEF Ends
  <2>1. pc[p] \notin Over
    BY EndsOnce DEF Ground, RenderTyped
  <2>2. UNCHANGED dir /\ Accounts(p) /\ HonestEnd(p) /\ InLock(p)
    BY <2>1, EndOfRun DEF Over
  <2> QED BY <2>2 DEF HonestEnd, Accounts, InLock
<1> QED BY <1>1, GroundInvariant, SettledInvariant, PTL
        DEF RenderSafeSpec, FailureLeavesOutput

\* A run that reports success has its whole rendered set in the directory and,
\* with --prune, nothing there that it could have removed.
THEOREM SuccessesAreComplete ==
  ASSUME WorkingLock
  PROVE  RenderSafeSpec => SuccessIsComplete
<1> DEFINE Complete == \A p \in Runs : Ends(p, 0) =>
             /\ \A n \in Present(Rendered(p)) : dir'[n] = Rendered(p)[n]
             /\ job[p].prune =>
                  \A n \in Present(dir') \ Present(Rendered(p)) :
                    ~IsRemovable(dir'[n], job[p].render)
<1>1. Ground /\ Settled /\ [RenderNext]_allVars => [Complete]_allVars
  <2> SUFFICES ASSUME Ground, Settled, [RenderNext]_allVars, NEW p \in Runs, Ends(p, 0)
               PROVE  /\ \A n \in Present(Rendered(p)) : dir'[n] = Rendered(p)[n]
                      /\ job[p].prune =>
                           \A n \in Present(dir') \ Present(Rendered(p)) :
                             ~IsRemovable(dir'[n], job[p].render)
    OBVIOUS
  <2>1. pc[p] \notin Over
    BY EndsOnce DEF Ground, RenderTyped, Ends
  <2>2. dir' = dir /\ Accounts(p) /\ HonestEnd(p)
    BY <2>1, EndOfRun DEF Over, Ends
  <2>3. pc[p] = "prune" /\ left[p] = {}
    BY <2>2 DEF HonestEnd, Ends
  <2>4. \A n \in Names : dir[n] = IF n \in Removable(p) THEN Absent ELSE Lands(p, n)
    BY <2>2, <2>3 DEF Accounts
  <2>5. \A n \in Present(Rendered(p)) : dir[n] = Rendered(p)[n]
    BY <2>4 DEF Removable, Lands, Present
  <2>6. ASSUME job[p].prune, NEW n \in Present(dir) \ Present(Rendered(p)),
               IsRemovable(dir[n], job[p].render)
        PROVE  FALSE
    <3>1. n \notin Removable(p) /\ dir[n] = found[p][n] /\ found[p][n] # Absent
      BY <2>4 DEF Lands, Present
    <3> QED BY <2>6, <3>1 DEF Removable, Present
  <2> QED BY <2>2, <2>5, <2>6
<1> QED BY <1>1, GroundInvariant, SettledInvariant, PTL
        DEF RenderSafeSpec, SuccessIsComplete

-----------------------------------------------------------------------------
\* What a rendered manifest says it is.
LEMMA StampedAnswers ==
  ASSUME NEW g, NEW r, StampedBy(g, r)
  PROVE  \/ /\ RenderedMission(g) = r.fingerprint
            /\ RenderedOwnerId(g) = r.mission
         \/ /\ RenderedMission(g) = NoLabel
            /\ RenderedOwnerId(g) = r.installation
<1>1. \A v : TheOnly({v}) = v
  BY DEF TheOnly
<1>2. CASE g.docs = {MissionDoc(r)}
  <2>1. /\ Marks(g) = {r.fingerprint}
        /\ {d.ownerId : d \in g.docs} = {r.mission}
    BY <1>2 DEF Marks, MissionDoc
  <2> QED BY <1>1, <2>1 DEF RenderedMission, RenderedOwnerId
<1>3. CASE g.docs = {BundleDoc(r)}
  <2>1. /\ Marks(g) = {NoLabel}
        /\ {d.ownerId : d \in g.docs} = {r.installation}
    BY <1>3 DEF Marks, BundleDoc
  <2> QED BY <1>1, <2>1 DEF RenderedMission, RenderedOwnerId
<1> QED BY <1>2, <1>3 DEF StampedBy

\* What preflight lets a render replace is the run's own.
LEMMA WritableIsOwn ==
  ASSUME NEW p \in Runs, NEW f, NEW g, StampedBy(g, job[p].render), IsWritable(f, g)
  PROVE  Owns(p, f)
<1>1. f.entry = "file" /\ \A d \in f.docs : d.managed
  BY DEF IsWritable, IsRenderedArtifact
<1>2. ASSUME NEW d \in f.docs
      PROVE  \/ d.fingerprint = job[p].render.fingerprint
             \/ d.fingerprint = NoLabel /\ d.ownerId = job[p].render.installation
  <2>1. CASE /\ ArtifactMission(f).owner = "mission"
             /\ ArtifactMission(f).mission = RenderedMission(g)
    <3>1. d.fingerprint = RenderedMission(g) /\ d.fingerprint # NoLabel
      BY <2>1, MissionIsUnanimous
    <3> QED BY <3>1, StampedAnswers
  <2>2. CASE /\ ArtifactMission(f).owner = "unmissioned"
             /\ RenderedMission(g) = NoLabel
             /\ ArtifactMission(f).ownerId = RenderedOwnerId(g)
    <3>1. d.fingerprint = NoLabel /\ d.ownerId = RenderedOwnerId(g)
      BY <2>2, UnmissionedIsUnanimous, AnswerSpeaksForAll
    <3> QED BY <2>2, <3>1, StampedAnswers
  <2> QED BY <2>1, <2>2 DEF IsWritable
<1> QED BY <1>1, <1>2 DEF Owns

\* So is what --prune may remove.
LEMMA RemovableIsOwn ==
  ASSUME NEW p \in Runs, NEW f, IsRemovable(f, job[p].render)
  PROVE  Owns(p, f)
<1> DEFINE r == job[p].render
<1>1. f.entry = "file" /\ \A d \in f.docs : d.managed
  BY DEF IsRemovable, IsStale, IsRenderedArtifact
<1>2. ASSUME NEW d \in f.docs
      PROVE  \/ d.fingerprint = r.fingerprint
             \/ d.fingerprint = NoLabel /\ d.ownerId = r.installation
  <2>1. CASE /\ ArtifactMission(f).owner = "mission"
             /\ ArtifactMission(f).mission = r.fingerprint
    BY <2>1, MissionIsUnanimous
  <2>2. CASE /\ ArtifactMission(f).owner = "unmissioned"
             /\ ArtifactMission(f).scope = "installation"
    <3>1. ArtifactMission(f).ownerId = r.installation
      BY <2>2 DEF IsRemovable, IsTheirs
    <3> QED BY <2>2, <3>1, UnmissionedIsUnanimous, AnswerSpeaksForAll
  <2> QED BY <2>1, <2>2 DEF IsRemovable, IsStale, InScope
<1> QED BY <1>1, <1>2 DEF Owns

\* While a run is inside the lock, a name that does not hold what it found holds
\* the run's own output, was displaced by it, or has been pruned.
LEMMA OnlyItsNamesMove ==
  ASSUME Ground, NEW p \in Runs, Accounts(p), InLock(p),
         NEW n \in Names, dir[n] # found[p][n]
  PROVE  /\ pc[p] \in {"publish", "write", "scan", "prune"}
         /\ n \in Present(Rendered(p)) \cup Removable(p)
<1>1. /\ ~IsReading(p) /\ pc[p] \in {"publish", "write", "scan", "prune"}
  BY DEF Accounts, InLock
<1>2. CASE pc[p] = "publish"
  <2>1. PublishInv /\ Ledger(p) /\ Seated(p)
    BY DEF Ground
  <2>2. pub[p] \in {"idle", "refused", "escaped", "rolledback", "committed", "partial"}
          \/ Mid(p)
    BY <1>2, <2>1 DEF PublishInv, PublishTypeOK, PubEnds, Mid, Seated
  <2>3. CASE Mid(p)
    <3>1. before[p] = found[p] /\ staged[p] = Rendered(p)
      BY <1>2, <2>3 DEF Accounts
    <3> QED BY <1>1, <2>1, <2>3, <3>1, ReportCovers
  <2>4. CASE ~Mid(p)
    BY <1>1, <1>2, <2>2, <2>4 DEF Accounts, Lands, Present
  <2> QED BY <2>3, <2>4
<1>3. CASE pc[p] = "write"
  BY <1>1, <1>3 DEF Accounts, Lands, Present
<1>4. CASE pc[p] \in {"scan", "prune"}
  BY <1>1, <1>4 DEF Accounts, Lands, Present
<1> QED BY <1>1, <1>2, <1>3, <1>4

\* However a run ends, also killed half-way, every file that is not where the
\* run found it was its own: no operator's file, no link, no other mission's
\* manifest and no other installation's bundle is lost.
THEOREM OthersFilesSurvive ==
  ASSUME WorkingLock
  PROVE  RenderSafeSpec => OnlyOwnFilesChange
<1> DEFINE Spares == \A p \in Runs :
             /\ Inside(p)
             /\ pc[p] \notin {"done", "dead"}
             /\ pc'[p] \in {"done", "dead"}
             => \A n \in Present(found[p]) :
                  dir'[n] = found[p][n] \/ Owns(p, found[p][n])
<1>1. Ground /\ Settled /\ [RenderNext]_allVars => [Spares]_allVars
  <2> SUFFICES ASSUME Ground, Settled, [RenderNext]_allVars, NEW p \in Runs,
                      Inside(p), pc[p] \notin Over, pc'[p] \in Over,
                      NEW n \in Present(found[p]), dir'[n] # found[p][n]
               PROVE  Owns(p, found[p][n])
    BY DEF Over
  <2>1. dir' = dir /\ Accounts(p) /\ Cleared(p) /\ InLock(p) /\ n \in Names
    BY EndOfRun DEF Present
  <2>2. /\ pc[p] \in {"publish", "write", "scan", "prune"}
        /\ n \in Present(Rendered(p)) \cup Removable(p)
    BY <2>1, OnlyItsNamesMove
  <2>3. CASE n \in Removable(p)
    BY <2>3, RemovableIsOwn DEF Removable
  <2>4. CASE n \in Present(Rendered(p))
    <3>1. IsWritable(found[p][n], Rendered(p)[n])
      BY <2>1, <2>2, <2>4 DEF Cleared, Present
    <3>2. StampedBy(Rendered(p)[n], job[p].render)
      BY <2>4, JobsAssumption DEF Ground, RenderTyped, RenderTypeOK, Rendered
    <3> QED BY <3>1, <3>2, WritableIsOwn
  <2> QED BY <2>2, <2>3, <2>4
<1> QED BY <1>1, GroundInvariant, SettledInvariant, PTL
        DEF RenderSafeSpec, OnlyOwnFilesChange

-----------------------------------------------------------------------------
(***************************************************************************)
(* What the gate judges.  From the listing on it builds, name by name, the *)
(* directory it will leave, and what the linter is shown stays the account *)
(* of that directory until the run ends.                                   *)
(***************************************************************************)

\* No document both names a mission and is labelled as its installation's:
\* neither writer stamps one.
NoHandLabels ==
  \A f \in Files : \A d \in f.docs :
    d.fingerprint # NoLabel => d.scope # "installation"

\* What the gate leaves out of the lint, and what it copies into it.
Leaving(p) ==
  {n \in Present(found[p]) \ Present(Rendered(p)) :
     job[p].prune /\ IsLeaving(found[p][n], job[p].render)}

Rest(p) == (Present(found[p]) \ Present(Rendered(p))) \ Leaving(p)

\* What the linter is shown at a name.
Shown(p, n) ==
  IF n \in Rest(p)
  THEN IF found[p][n].entry = "file" THEN found[p][n] ELSE Absent
  ELSE Rendered(p)[n]

\* The linter was shown what the run will leave, and no link stands beside it.
Vetted(p) ==
  /\ \A n \in Rest(p) : found[p][n].entry # "link"
  /\ \A n \in Names : judged[p][n] = Shown(p, n)

Judged(p, words) ==
  \A n \in Names : judged[p][n] # Absent => judged[p][n].lint \in words

Judges(p) ==
  /\ pc[p] \in {"resolve", "list"} \/ (pc[p] = "lock" /\ job[p].kind = "gate")
       => tolint[p] = Rendered(p)
  /\ pc[p] = "copy" =>
       /\ left[p] \subseteq Rest(p)
       /\ \A n \in Rest(p) \ left[p] : found[p][n].entry # "link"
       /\ \A n \in Names :
            tolint[p][n] = IF n \in left[p] THEN Absent ELSE Shown(p, n)
  /\ pc[p] = "drop" =>
       /\ tolint[p] = judged[p] /\ Vetted(p)
       /\ verdict[p] = "passed" => Judged(p, {"ok", "skipped"})
  /\ pc[p] \in {"preflight", "publish", "scan", "prune"} /\ verdict[p] = "passed"
       => Vetted(p) /\ Judged(p, {"ok"})

\* The linter's verdict is about one run's render, findings and command line.
LEMMA SameVetting ==
  ASSUME NEW p \in Runs, job'[p] = job[p], found'[p] = found[p]
  PROVE  /\ Rendered(p)' = Rendered(p) /\ Rest(p)' = Rest(p)
         /\ \A n \in Names : Shown(p, n)' = Shown(p, n)
         /\ judged'[p] = judged[p] =>
              /\ Vetted(p)' <=> Vetted(p)
              /\ \A words : Judged(p, words)' <=> Judged(p, words)
<1>1. Rendered(p)' = Rendered(p) /\ Rest(p)' = Rest(p)
  BY DEF Rendered, Rest, Leaving, Present
<1>2. \A n \in Names : Shown(p, n)' = Shown(p, n)
  BY <1>1 DEF Shown
<1> QED BY <1>1, <1>2 DEF Vetted, Judged

\* A run that stays judges what it judged.
LEMMA StayingJudges ==
  ASSUME NEW q \in Runs, Judges(q), Stays(q)
  PROVE  Judges(q)'
<1>1. /\ Rendered(q)' = Rendered(q) /\ Rest(q)' = Rest(q)
      /\ \A n \in Names : Shown(q, n)' = Shown(q, n)
      /\ Vetted(q)' <=> Vetted(q)
      /\ \A words : Judged(q, words)' <=> Judged(q, words)
  BY SameVetting DEF Stays
<1> QED BY <1>1 DEF Stays, Judges

\* Nor has a run that is elsewhere, and has no accepting verdict, anything to
\* answer for.
LEMMA ElsewhereJudges ==
  ASSUME NEW p \in Runs,
         pc'[p] \notin {"resolve", "list", "copy", "drop"},
         pc'[p] = "lock" => job'[p].kind # "gate",
         verdict'[p] # "passed" \/ pc'[p] \notin {"preflight", "publish", "scan", "prune"}
  PROVE  Judges(p)'
  BY DEF Judges

\* An accepted run goes on with its verdict.
LEMMA AcceptedJudges ==
  ASSUME NEW p \in Runs, Judges(p), UNCHANGED <<verdict, judged>>,
         job'[p] = job[p], found'[p] = found[p],
         pc[p] \in {"preflight", "publish", "scan", "prune"},
         pc'[p] \in {"preflight", "publish", "write", "kstage", "scan", "prune"}
  PROVE  Judges(p)'
<1>1. /\ Vetted(p)' <=> Vetted(p)
      /\ \A words : Judged(p, words)' <=> Judged(p, words)
  BY SameVetting
<1> QED BY <1>1 DEF Judges

\* Every step of a gate keeps the linter's account true.
LEMMA ProgressJudges ==
  ASSUME Ground, NEW p \in Runs, Accounts(p), Judges(p), Progress(p)
  PROVE  Judges(p)'
<1>t. /\ RenderTypeOK /\ job[p].kind \in Kinds /\ Rendered(p) \in Contents
      /\ dir \in Contents /\ found[p] \in Contents /\ tolint[p] \in Contents
  BY JobsAssumption DEF Ground, RenderTyped, RenderTypeOK, FilesTyped, Rendered
<1>s. Phased(p) /\ Decides(p)
  BY DEF Ground, Rules
<1>e. \A code, claim :
        Exit(p, code, claim) \/ Refuse(p, code) \/ End(p, code, claim)
          => Judges(p)'
  BY <1>t, ElsewhereJudges DEF Exit, Refuse, End, RenderTypeOK
<1>g. \A phase : Step(p, phase) => pc'[p] = phase /\ job'[p] = job[p]
  BY <1>t DEF Step, RenderTypeOK
<1>1. CASE LoadPlan(p) \/ MakeStaging(p)
  <2>1. /\ pc'[p] \in {"stage", "lock", "policy"}
        /\ pc'[p] = "lock" => job'[p].kind # "gate"
    BY <1>1, <1>t, <1>g DEF LoadPlan, MakeStaging, Kinds
  <2> QED BY <2>1, ElsewhereJudges
<1>2. CASE PolicyAllows(p)
  <2>1. /\ pc'[p] \in {"lock", "resolve", "mkdir"} /\ job'[p] = job[p]
        /\ pc'[p] = "resolve" => job[p].kind = "gate"
        /\ job[p].kind = "gate" => tolint'[p] = Rendered(p)
    BY <1>2, <1>t, <1>g DEF PolicyAllows, Kinds, RenderTypeOK
  <2>2. Rendered(p)' = Rendered(p)
    BY <2>1 DEF Rendered
  <2> QED BY <2>1, <2>2 DEF Judges
<1>3. CASE ResolveArgo(p)
  <2>1. /\ pc[p] = "resolve" /\ pc'[p] = "lock" /\ job'[p] = job[p] /\ tolint' = tolint
    BY <1>3, <1>g DEF ResolveArgo
  <2> QED BY <2>1 DEF Judges, Rendered
<1>4. CASE NothingToLint(p) \/ LockTimesOut(p) \/ SyntaxRejects(p) \/ NotOwned(p)
           \/ UnhashableLabel(p) \/ PublishFailed(p) \/ Succeed(p)
  BY <1>4, <1>e
  DEF NothingToLint, LockTimesOut, LockRefused, SyntaxRejects, NotOwned,
      UnhashableLabel, PublishFailed, Succeed
<1>5. CASE WaitForLock(p)
  BY <1>5, StayingJudges DEF WaitForLock, runVars, Stays
<1>6. CASE EnterLock(p)
  <2>1. /\ pc[p] = "lock" /\ verdict'[p] = verdict[p] /\ verdict[p] # "passed"
        /\ tolint' = tolint /\ job'[p] = job[p] /\ Rendered(p)' = Rendered(p)
        /\ \/ pc'[p] \in {"scan", "policy", "preflight"}
           \/ pc'[p] = "list" /\ job[p].kind = "gate"
    BY <1>6, <1>t, <1>s, <1>g DEF EnterLock, Entered, Kinds, Decides, Over, Rendered
  <2> QED BY <2>1 DEF Judges
<1>7. CASE ListOutput(p)
  <2>1. /\ pc[p] = "list" /\ pc'[p] = "copy" /\ job'[p] = job[p] /\ found'[p] = found[p]
        /\ tolint'[p] = Rendered(p) /\ dir = found[p]
    BY <1>7, <1>g DEF ListOutput, Judges, Accounts, IsReading, Reading
  <2>2. left'[p] = Rest(p)
    BY <1>7, <1>t, <2>1 DEF ListOutput, RenderTypeOK, Rest, Leaving
  <2>3. /\ Rest(p)' = Rest(p) /\ \A n \in Names : Shown(p, n)' = Shown(p, n)
    BY <2>1, SameVetting
  <2> QED BY <2>1, <2>2, <2>3 DEF Judges, Shown, Rest, Present
<1>8. ASSUME NEW n \in Names, CopyForLint(p, n) \/ SymlinkedManifest(p, n)
      PROVE  Judges(p)'
  <2>1. CASE CopyForLint(p, n)
    <3>1. /\ pc[p] = "copy" /\ pc'[p] = "copy" /\ job'[p] = job[p]
          /\ found'[p] = found[p] /\ n \in left[p] /\ dir = found[p]
          /\ left'[p] = left[p] \ {n}
      BY <1>t, <2>1 DEF CopyForLint, RenderTypeOK, Accounts, IsReading, Reading
    <3>2. /\ Rest(p)' = Rest(p) /\ \A m \in Names : Shown(p, m)' = Shown(p, m)
      BY <3>1, SameVetting
    <3>3. n \in Rest(p) /\ found[p][n] # Absent /\ left[p] \subseteq Rest(p)
      BY <3>1 DEF Judges, Rest, Present
    <3>4. found[p][n].entry # "link"
      BY <2>1, <3>1, <3>3 DEF CopyForLint
    <3>5. \A m \in Names : tolint'[p][m] =
            IF m = n THEN (IF found[p][n].entry = "file" THEN found[p][n] ELSE Absent)
                     ELSE tolint[p][m]
      BY <1>t, <2>1, <3>1, <3>3 DEF CopyForLint, RenderTypeOK, Contents
    <3>6. tolint'[p][n] = Shown(p, n)
      BY <3>3, <3>5 DEF Shown
    <3>7. \A m \in Names : tolint[p][m] = IF m \in left[p] THEN Absent ELSE Shown(p, m)
      BY <3>1 DEF Judges
    <3>8. \A m \in Rest(p) \ left'[p] : found[p][m].entry # "link"
      BY <3>1, <3>4 DEF Judges
    <3>9. \A m \in Names :
            tolint'[p][m] = IF m \in left'[p] THEN Absent ELSE Shown(p, m)
      BY <3>1, <3>5, <3>6, <3>7
    <3> QED BY <3>1, <3>2, <3>3, <3>8, <3>9 DEF Judges
  <2>2. CASE SymlinkedManifest(p, n)
    BY <2>2, <1>e DEF SymlinkedManifest
  <2> QED BY <1>8, <2>1, <2>2
<1>9. CASE LintAnswers(p)
  <2>1. /\ pc[p] = "copy" /\ left[p] = {} /\ pc'[p] = "drop" /\ job'[p] = job[p]
        /\ found'[p] = found[p] /\ judged'[p] = tolint[p] /\ tolint' = tolint
    BY <1>9, <1>t, <1>g DEF LintAnswers, Copied, RenderTypeOK
  <2>2. /\ \A n \in Rest(p) : found[p][n].entry # "link"
        /\ \A n \in Names : tolint[p][n] = Shown(p, n)
    BY <2>1 DEF Judges
  <2>3. Vetted(p)'
    BY <2>1, <2>2, SameVetting DEF Vetted
  <2>4. verdict'[p] = "passed" => Judged(p, {"ok", "skipped"})'
    <3>1. \A n \in Present(tolint[p]) : tolint[p][n].lint # "malformed"
      BY <1>9 DEF LintAnswers, SomeLint, Holds
    <3>2. verdict'[p] = "passed" =>
            \A n \in Present(tolint[p]) : tolint[p][n].lint # "rejected"
      BY <1>9, <1>t DEF LintAnswers, SomeLint, Holds, Decide, RenderTypeOK
    <3>3. \A n \in Present(tolint[p]) :
            tolint[p][n].lint \in {"ok", "malformed", "rejected", "skipped"}
      BY <1>t, EntriesAssumption DEF Contents, Present
    <3> QED BY <2>1, <3>1, <3>2, <3>3 DEF Judged, Present
  <2> QED BY <2>1, <2>3, <2>4 DEF Judges
<1>10. CASE DropCarried(p)
  <2>1. CASE verdict[p] = "passed" /\ ~SomeLint(p, "skipped") /\ Step(p, "preflight")
    <3>1. /\ pc[p] = "drop" /\ pc'[p] = "preflight" /\ UNCHANGED <<judged, found>>
          /\ job'[p] = job[p]
      BY <1>10, <1>g, <2>1 DEF DropCarried
    <3>2. tolint[p] = judged[p] /\ Vetted(p) /\ Judged(p, {"ok", "skipped"})
      BY <2>1, <3>1 DEF Judges
    <3>3. Judged(p, {"ok"})
      BY <2>1, <3>2 DEF SomeLint, Holds, Judged, Present
    <3>4. Vetted(p)' /\ Judged(p, {"ok"})'
      BY <3>1, <3>2, <3>3, SameVetting
    <3> QED BY <3>1, <3>4 DEF Judges
  <2>2. CASE pc' = [pc EXCEPT ![p] = "done"]
    BY <1>t, <2>2, ElsewhereJudges DEF RenderTypeOK
  <2> QED BY <1>10, <2>1, <2>2 DEF DropCarried
<1>11. CASE Preflight(p)
  <2>1. /\ pc[p] = "preflight" /\ pc'[p] \in {"publish", "write", "kstage"}
        /\ job'[p] = job[p] /\ UNCHANGED <<verdict, judged, found>>
    BY <1>11, <1>t, <1>g DEF Preflight, Kinds
  <2> QED BY <2>1, AcceptedJudges
<1>12. CASE MakeOutput(p) \/ WritesDone(p)
  <2>1. /\ verdict'[p] = verdict[p] /\ verdict[p] # "passed"
        /\ pc'[p] \in {"preflight", "publish", "scan"}
    BY <1>12, <1>s, <1>g DEF MakeOutput, WritesDone, Decides, Over
  <2> QED BY <2>1, ElsewhereJudges
<1>13. CASE BeginPublish(p) \/ Publishing(p)
  BY <1>13, StayingJudges DEF BeginPublish, Publishing, runVars, Stays
<1>14. CASE Published(p) \/ ScanStale(p)
  <2>1. /\ pc[p] \in {"publish", "scan"} /\ pc'[p] \in {"scan", "prune"}
        /\ job'[p] = job[p] /\ UNCHANGED <<verdict, judged, found>>
    BY <1>14, <1>g DEF Published, ScanStale
  <2> QED BY <2>1, AcceptedJudges
<1>15. ASSUME NEW n \in Names, WriteOne(p, n) \/ PruneOne(p, n) \/ PruneGone(p, n)
       PROVE  Judges(p)'
  <2>1. CASE WriteOne(p, n)
    BY <2>1, ElsewhereJudges DEF WriteOne
  <2>2. CASE PruneOne(p, n)
    BY <2>2, AcceptedJudges DEF PruneOne
  <2>3. CASE PruneGone(p, n)
    BY <2>3, <1>e DEF PruneGone
  <2> QED BY <1>15, <2>1, <2>2, <2>3
<1> QED BY <1>1, <1>2, <1>3, <1>4, <1>5, <1>6, <1>7, <1>8, <1>9, <1>10, <1>11,
           <1>12, <1>13, <1>14, <1>15 DEF Progress

AllJudge == \A p \in Runs : Judges(p)

\* At every point of every gate, what the linter was shown is what the run is
\* about to leave.
LEMMA JudgesInvariant ==
  ASSUME WorkingLock
  PROVE  RenderSafeSpec => []AllJudge
<1>1. RenderInit => AllJudge
  BY DEF RenderInit, AllJudge, Judges
<1>2. Ground /\ Settled /\ AllJudge /\ [RenderNext]_allVars => AllJudge'
  <2> SUFFICES ASSUME Ground, Settled, AllJudge, [RenderNext]_allVars PROVE AllJudge'
    OBVIOUS
  <2>1. CASE UNCHANGED allVars \/ TimePasses
    BY <2>1, NobodyMoves, StayingJudges DEF AllJudge
  <2>2. ASSUME NEW p \in Runs, RunStep(p) \/ Kill(p), NEW q \in Runs
        PROVE  Judges(q)'
    <3>1. RenderTypeOK /\ \A r \in Runs : Accounts(r) /\ Judges(r)
      BY DEF Ground, RenderTyped, Settled, AllJudge
    <3>2. CASE Progress(p)
      BY <3>1, <3>2, ProgressJudges, OthersStay, StayingJudges DEF RunStep
    <3>3. CASE Trouble(p) \/ Kill(p)
      <4>1. Judges(p)'
        BY <3>1, <3>3, TroubleEnds, ElsewhereJudges DEF Over
      <4> QED BY <3>1, <3>3, <4>1, OthersStay, StayingJudges DEF RunStep
    <3> QED BY <2>2, <3>2, <3>3 DEF RunStep
  <2> QED BY <2>1, <2>2 DEF RenderNext, AllJudge
<1> QED BY <1>1, <1>2, GroundInvariant, SettledInvariant, PTL DEF RenderSafeSpec

\* What a gate leaves out of the lint is exactly what it will remove: it looks
\* for nothing but its own mission's manifests.
LEMMA LeavingIsRemovable ==
  ASSUME NoHandLabels, NEW f \in Files, NEW r, ~r.seesUnmissioned
  PROVE  IsLeaving(f, r) <=> IsRemovable(f, r)
<1>1. IsRemovable(f, r) => IsLeaving(f, r)
  BY DEF IsRemovable, IsLeaving
<1>2. ASSUME IsLeaving(f, r) PROVE IsRemovable(f, r)
  <2>1. /\ ArtifactMission(f).owner = "mission"
        /\ IsRenderedArtifact(f)
    BY <1>2 DEF IsLeaving, IsStale, InScope
  <2>2. PICK d \in f.docs : TRUE
    BY <2>1 DEF IsRenderedArtifact
  <2>3. d.fingerprint # NoLabel /\ ArtifactMission(f).scope = d.scope
    BY <2>1, MissionIsUnanimous, AnswerSpeaksForAll
  <2>4. ArtifactMission(f).scope # "installation"
    BY <2>3 DEF NoHandLabels
  <2> QED BY <1>2, <2>4 DEF IsLeaving, IsRemovable, IsTheirs, IsHeldBack
<1> QED BY <1>1, <1>2

\* What a gate reports as linted is what the directory holds when it reports
\* success, and every manifest of it was accepted: for every number of runs and
\* every interleaving of theirs, whatever else the directory holds, unless a
\* label was changed by hand.
THEOREM LintedSetIsPublished ==
  ASSUME WorkingLock, NoHandLabels
  PROVE  RenderSafeSpec => LintedIsPublished
<1> DEFINE Lints == \A p \in Runs :
             Ends(p, 0) /\ verdict[p] = "passed" =>
               /\ Regular(dir) = judged[p]
               /\ \A n \in Present(judged[p]) : judged[p][n].lint = "ok"
<1>1. Ground /\ Settled /\ AllJudge /\ [RenderNext]_allVars => [Lints]_allVars
  <2> SUFFICES ASSUME Ground, Settled, AllJudge, [RenderNext]_allVars, NEW p \in Runs,
                      Ends(p, 0), verdict[p] = "passed"
               PROVE  /\ Regular(dir) = judged[p]
                      /\ \A n \in Present(judged[p]) : judged[p][n].lint = "ok"
    OBVIOUS
  <2>1. pc[p] \notin Over
    BY EndsOnce DEF Ground, RenderTyped, Ends
  <2>2. Accounts(p) /\ HonestEnd(p) /\ Judges(p)
    BY <2>1, EndOfRun DEF Over, Ends, AllJudge
  <2>3. pc[p] = "prune" /\ left[p] = {}
    BY <2>2 DEF HonestEnd, Ends
  <2>4. Vetted(p) /\ Judged(p, {"ok"})
    BY <2>2, <2>3 DEF Judges
  <2>5. /\ RenderTypeOK /\ judged[p] \in Contents /\ found[p] \in Contents
        /\ job[p] \in Jobs /\ job[p].kind = "gate"
    BY <2>1, <2>3 DEF Ground, RenderTyped, RenderTypeOK, Rules, Decides
  <2>6. \A n \in Names : dir[n] = IF n \in Removable(p) THEN Absent ELSE Lands(p, n)
    BY <2>2, <2>3 DEF Accounts
  <2>7. ~job[p].render.seesUnmissioned
        /\ \A n \in Present(Rendered(p)) : Rendered(p)[n].entry = "file"
    BY <2>5, JobsAssumption DEF Rendered, StampedBy
  <2>8. Removable(p) = Leaving(p)
    <3>1. \A n \in Present(found[p]) : found[p][n] \in Files
      BY <2>5 DEF Contents, Present
    <3> QED BY <2>7, <3>1, LeavingIsRemovable DEF Removable, Leaving
  <2>9. ASSUME NEW n \in Names
        PROVE  Regular(dir)[n] = judged[p][n]
    <3>1. /\ judged[p][n] = Shown(p, n)
          /\ dir[n] = IF n \in Leaving(p) THEN Absent ELSE Lands(p, n)
          /\ Regular(dir)[n] =
               IF dir[n] # Absent /\ dir[n].entry = "other" THEN Absent ELSE dir[n]
      BY <2>4, <2>6, <2>8 DEF Vetted, Regular
    <3>2. CASE n \in Present(Rendered(p))
      BY <2>7, <3>1, <3>2 DEF Shown, Rest, Leaving, Lands, Present
    <3>3. CASE n \in Leaving(p)
      BY <3>1, <3>3 DEF Shown, Rest, Leaving, Present
    <3>4. CASE n \in Rest(p)
      <4>1. /\ found[p][n] \in Files /\ found[p][n].entry # "link"
            /\ dir[n] = found[p][n] /\ dir[n] # Absent
        BY <2>4, <2>5, <3>1, <3>4 DEF Vetted, Rest, Lands, Present, Contents
      <4>2. found[p][n].entry \in {"file", "other"}
        BY <4>1, EntriesAssumption
      <4> QED BY <3>1, <3>4, <4>1, <4>2 DEF Shown
    <3>5. CASE n \notin Present(Rendered(p)) \cup Leaving(p) \cup Rest(p)
      BY <3>1, <3>5 DEF Shown, Rest, Leaving, Lands, Present
    <3> QED BY <3>2, <3>3, <3>4, <3>5
  <2>10. Regular(dir) = judged[p]
    BY <2>5, <2>9 DEF Regular, Contents
  <2> QED BY <2>4, <2>10 DEF Judged, Present
<1> QED BY <1>1, GroundInvariant, SettledInvariant, JudgesInvariant, PTL
        DEF RenderSafeSpec, LintedIsPublished
=============================================================================
