----------------------------- MODULE PublishProofs -----------------------------
(***************************************************************************)
(* What _publish guarantees under a lock that works, for every number of   *)
(* runs, every set of names and contents, every output path and every      *)
(* number of failing operations.                                           *)
(*                                                                         *)
(* The argument: the lock leaves one run at a time in _publish (Exclusive),*)
(* so what a run finds in the directory changes only by its own steps; its *)
(* lists then account for every name it has touched (Tracks), and a name   *)
(* it could not undo costs one failed operation more than the one that     *)
(* started the rollback (Counted).  With what it has installed so far      *)
(* (Ledger) that makes every publish one step of AtomicInstall.            *)
(***************************************************************************)
EXTENDS Publish, TLAPS

-----------------------------------------------------------------------------
(***************************************************************************)
(* What PublishLock guarantees for every set of runs and lock files, every *)
(* timeout and every answer of flock.  LockMutex is not inductive: that    *)
(* two holders are one needs the kernel's record of a holder to be exact,  *)
(* in both directions (NoLockout and HolderRecorded).                      *)
(***************************************************************************)

\* The initial states satisfy the invariant.
LEMMA LockInitInv == LockInit => LockInv
  BY LockAssumption
  DEF LockInit, LockInv, LockTypeOK, LockPhases, NoLockout, HolderRecorded

\* Leaving the with-block and dying both free exactly the lock files of p.
LEMMA VacatedFrees ==
  ASSUME LockInv, NEW p \in Runs
  PROVE  /\ Vacated(p) \in [Locks -> Runs \cup {NoRun}]
         /\ \A l \in Locks : Vacated(p)[l] # p
         /\ \A l \in Locks : holder[l] # p => Vacated(p)[l] = holder[l]
  BY LockAssumption DEF LockInv, LockTypeOK, Vacated

\* A step that leaves the kernel's record alone and moves one run between two
\* phases that are not "held" keeps the record exact.
LEMMA MoveKeepsRecord ==
  ASSUME LockInv, NEW p \in Runs, NEW phase \in LockPhases \ {"held"},
         lk[p] # "held", Enter(p, phase), UNCHANGED <<holder, waited, age>>
  PROVE  LockInv'
<1>1. LockTypeOK'
  BY DEF LockInv, LockTypeOK, Enter
<1>2. NoLockout'
  BY LockAssumption DEF LockInv, LockTypeOK, NoLockout, Enter
<1>3. HolderRecorded'
  BY DEF LockInv, LockTypeOK, HolderRecorded, Enter
<1> QED BY <1>1, <1>2, <1>3 DEF LockInv

\* A step that frees p's lock files and takes p out of "held".
LEMMA LeaveKeepsRecord ==
  ASSUME LockInv, NEW p \in Runs, NEW phase \in LockPhases \ {"held"},
         holder' = Vacated(p), Enter(p, phase), UNCHANGED <<waited, age>>
  PROVE  LockInv'
<1>1. LockTypeOK'
  BY VacatedFrees DEF LockInv, LockTypeOK, Enter
<1>2. NoLockout'
  <2>1. SUFFICES ASSUME NEW l \in Locks, holder'[l] # NoRun
                 PROVE  /\ lk'[holder'[l]] = "held"
                        /\ LockFile[holder'[l]] = l
    BY DEF NoLockout
  <2>2. holder'[l] = holder[l] /\ holder[l] # p
    BY <2>1 DEF LockInv, LockTypeOK, Vacated
  <2> QED BY <2>1, <2>2 DEF LockInv, LockTypeOK, NoLockout, Enter
<1>3. HolderRecorded'
  <2>1. SUFFICES ASSUME NEW q \in Runs, lk'[q] = "held"
                 PROVE  holder'[LockFile[q]] = q
    BY DEF HolderRecorded
  <2>2. q # p /\ lk[q] = "held"
    BY <2>1 DEF LockInv, LockTypeOK, Enter
  <2>3. holder[LockFile[q]] = q
    BY <2>2 DEF LockInv, HolderRecorded
  <2>4. holder'[LockFile[q]] = holder[LockFile[q]]
    BY <2>2, <2>3, VacatedFrees, LockAssumption
  <2> QED BY <2>3, <2>4
<1> QED BY <1>1, <1>2, <1>3 DEF LockInv

\* flock succeeds only on a lock file nobody holds.
LEMMA GrantKeepsRecord ==
  ASSUME LockInv, NEW p \in Runs, Grant(p)
  PROVE  LockInv'
<1> USE DEF Grant, Enter
<1>1. LockTypeOK'
  BY LockAssumption DEF LockInv, LockTypeOK, LockPhases
<1>2. NoLockout'
  <2>1. SUFFICES ASSUME NEW l \in Locks, holder'[l] # NoRun
                 PROVE  /\ lk'[holder'[l]] = "held"
                        /\ LockFile[holder'[l]] = l
    BY DEF NoLockout
  <2>2. CASE l = LockFile[p]
    BY <2>2, LockAssumption DEF LockInv, LockTypeOK
  <2>3. CASE l # LockFile[p]
    <3>1. holder'[l] = holder[l] /\ holder[l] \in Runs
      BY <2>1, <2>3 DEF LockInv, LockTypeOK
    <3>2. lk[holder[l]] = "held" /\ LockFile[holder[l]] = l
      BY <2>1, <3>1 DEF LockInv, NoLockout
    <3>3. holder[l] # p
      BY <3>2
    <3> QED BY <3>1, <3>2, <3>3 DEF LockInv, LockTypeOK
  <2> QED BY <2>2, <2>3
<1>3. HolderRecorded'
  <2>1. SUFFICES ASSUME NEW q \in Runs, lk'[q] = "held"
                 PROVE  holder'[LockFile[q]] = q
    BY DEF HolderRecorded
  <2>2. CASE q = p
    BY <2>2, LockAssumption DEF LockInv, LockTypeOK
  <2>3. CASE q # p
    <3>1. holder[LockFile[q]] = q
      BY <2>1, <2>3 DEF LockInv, LockTypeOK, HolderRecorded
    <3>2. LockFile[q] # LockFile[p]
      BY <3>1, LockAssumption
    <3> QED BY <3>1, <3>2, LockAssumption DEF LockInv, LockTypeOK
  <2> QED BY <2>2, <2>3
<1> QED BY <1>1, <1>2, <1>3 DEF LockInv

\* Time moves no lock.
LEMMA TickKeepsRecord ==
  ASSUME LockInv, Tick
  PROVE  LockInv'
<1>1. \A p \in Runs : waited'[p] \in 0 .. LockTimeout[p]
  BY LockAssumption DEF LockInv, LockTypeOK, Tick
<1>2. waited' \in [Runs -> Nat]
  BY DEF LockInv, LockTypeOK, Tick
<1>3. age' \in [Runs -> 0 .. HoldBudget]
  <2>1. ASSUME NEW p \in Runs
        PROVE  (IF lk[p] = "held" /\ age[p] < HoldBudget
                THEN age[p] + 1 ELSE age[p]) \in 0 .. HoldBudget
    BY LockAssumption DEF LockInv, LockTypeOK
  <2> QED BY <2>1 DEF Tick
<1>4. UNCHANGED <<holder, lk>>
  BY DEF Tick
<1> QED BY <1>1, <1>2, <1>3, <1>4
        DEF LockInv, LockTypeOK, NoLockout, HolderRecorded

\* Every step keeps the kernel's record exact.
LEMMA LockInvStep == LockInv /\ [LockNext]_lockVars => LockInv'
<1> SUFFICES ASSUME LockInv, [LockNext]_lockVars
             PROVE  LockInv'
  OBVIOUS
<1>1. CASE UNCHANGED lockVars
  BY <1>1 DEF lockVars, LockInv, LockTypeOK, NoLockout, HolderRecorded
<1>2. CASE Tick
  BY <1>2, TickKeepsRecord
<1>3. ASSUME NEW p \in Runs, LockStep(p)
      PROVE  LockInv'
  <2>1. CASE OpenLock(p)
    BY <2>1, MoveKeepsRecord DEF OpenLock, LockPhases
  <2>2. CASE LockUnopenable(p)
    BY <2>2, MoveKeepsRecord DEF LockUnopenable, LockPhases
  <2>3. CASE Grant(p)
    BY <2>3, GrantKeepsRecord
  <2>4. CASE Timeout(p)
    BY <2>4, MoveKeepsRecord DEF Timeout, LockPhases
  <2>5. CASE RefuseUnsupported(p)
    BY <2>5, MoveKeepsRecord DEF RefuseUnsupported, Unsupported, LockPhases
  <2>6. CASE GoOnUnlocked(p)
    BY <2>6, MoveKeepsRecord DEF GoOnUnlocked, Unsupported, LockPhases
  <2>7. CASE OtherErrno(p)
    BY <2>7, MoveKeepsRecord DEF OtherErrno, LockPhases
  <2>8. CASE Release(p)
    BY <2>8, LeaveKeepsRecord DEF Release, LockPhases
  <2>9. CASE DieLocked(p)
    BY <2>9, LeaveKeepsRecord DEF DieLocked, LockPhases
  <2> QED BY <1>3, <2>1, <2>2, <2>3, <2>4, <2>5, <2>6, <2>7, <2>8, <2>9
          DEF LockStep, LockAcquire, Attempt
<1> QED BY <1>1, <1>2, <1>3 DEF LockNext

\* The record of the kernel and the phases of the runs agree for ever.
THEOREM LockInvariant == LockSafeSpec => []LockInv
  BY LockInitInv, LockInvStep, PTL DEF LockSafeSpec

\* Every variable keeps its type: no wait runs past its own deadline and no
\* healthy holder is counted past its budget.
THEOREM LockTypeCorrect == LockSafeSpec => []LockTypeOK
<1>1. LockInv => LockTypeOK
  BY DEF LockInv
<1> QED BY <1>1, LockInvariant, PTL

\* No lock file is left held by a run that has ended, died or never entered.
THEOREM LockNeverLeftBehind == LockSafeSpec => []NoLockout
<1>1. LockInv => NoLockout
  BY DEF LockInv
<1> QED BY <1>1, LockInvariant, PTL

\* Two runs with one lock file never both hold it.
LEMMA RecordExcludes == LockInv => LockMutex
  BY DEF LockInv, HolderRecorded, LockMutex

\* At most one run at a time publishes or prunes under a lock file, however
\* many there are, whatever flock answers and whoever dies or hangs.
THEOREM LockExcludes == LockSafeSpec => []LockMutex
  BY RecordExcludes, LockInvariant, PTL

\* A run with at most one rival for its lock file, and that one healthy, and what
\* its wait is bounded by: nothing before the rival has had the lock, the time the
\* rival has held it, and one budget from then on.
RivalsOf(p) == {q \in Runs \ {p} : LockFile[q] = LockFile[p]}
HasOneHealthyRival(p) ==
  /\ \A q, r \in RivalsOf(p) : q = r
  /\ RivalsOf(p) \cap Stalled = {}
WaitsForRival(p) ==
  /\ lk[p] = "out" => waited[p] = 0
  /\ lk[p] = "waiting" /\ HasOneHealthyRival(p) =>
       /\ waited[p] <= HoldBudget
       /\ \A q \in RivalsOf(p) :
            /\ lk[q] \in {"out", "waiting"} => waited[p] = 0
            /\ lk[q] = "held" => waited[p] <= age[q]
Patient == \A p \in Runs : WaitsForRival(p)

\* A wait grows only while somebody holds the lock, who is the one rival, and by no
\* more than what that rival holds it for.
LEMMA TickKeepsPatient ==
  ASSUME LockInv, Patient, Tick
  PROVE  Patient'
<1> SUFFICES ASSUME NEW p \in Runs PROVE WaitsForRival(p)'
  BY DEF Patient
<1>1. /\ lk' = lk /\ waited[p] \in Nat /\ WaitsForRival(p)
      /\ waited'[p] = waited[p] \/ (waited'[p] = waited[p] + 1 /\ lk[p] = "waiting")
  BY LockAssumption DEF Tick, Patient, LockInv, LockTypeOK
<1>2. CASE lk[p] = "waiting" /\ HasOneHealthyRival(p)
  <2> DEFINE q == holder[LockFile[p]]
  <2>1. q # NoRun
    BY <1>2 DEF Tick, Pollable
  <2>2. q \in Runs /\ lk[q] = "held" /\ LockFile[q] = LockFile[p] /\ q # p
    BY <1>2, <2>1, LockAssumption DEF LockInv, LockTypeOK, NoLockout
  <2>3. q \in RivalsOf(p) /\ q \notin Stalled
    BY <1>2, <2>2 DEF RivalsOf, HasOneHealthyRival
  <2>4. age[q] \in 0..HoldBudget /\ age[q] # HoldBudget /\ HoldBudget \in Nat
    BY <2>2, <2>3, LockAssumption DEF Tick, Overdue, LockInv, LockTypeOK
  <2>5. age'[q] = age[q] + 1
    BY <2>2, <2>4 DEF Tick
  <2>6. waited[p] <= age[q]
    BY <1>1, <1>2, <2>2, <2>3 DEF WaitsForRival
  <2>7. waited'[p] <= age'[q] /\ waited'[p] <= HoldBudget
    BY <1>1, <2>4, <2>5, <2>6
  <2>8. \A r \in RivalsOf(p) : r = q
    BY <1>2, <2>3 DEF HasOneHealthyRival
  <2> HIDE DEF q
  <2> QED
    BY <1>1, <1>2, <2>2, <2>7, <2>8 DEF WaitsForRival, HasOneHealthyRival, RivalsOf
<1>3. CASE ~(lk[p] = "waiting" /\ HasOneHealthyRival(p))
  BY <1>1, <1>3 DEF WaitsForRival, HasOneHealthyRival, RivalsOf
<1> QED
  BY <1>2, <1>3

\* No other step lets time pass, and none leaves a rival waiting that has waited.
LEMMA LockStepKeepsPatient ==
  ASSUME LockInv, Patient, NEW r \in Runs, LockStep(r)
  PROVE  Patient'
<1> SUFFICES ASSUME NEW p \in Runs PROVE WaitsForRival(p)'
  BY DEF Patient
<1>1. WaitsForRival(p) /\ waited' = waited /\ age' = age
  BY DEF Patient, LockStep, LockAcquire, Attempt, OpenLock, LockUnopenable, Grant, Timeout, RefuseUnsupported,
         GoOnUnlocked, OtherErrno, Release, DieLocked
<1>2. \A q \in Runs \ {r} : lk'[q] = lk[q]
  BY DEF LockStep, LockAcquire, Attempt, OpenLock, LockUnopenable, Grant, Timeout, RefuseUnsupported,
         GoOnUnlocked, OtherErrno, Release, DieLocked, Enter, LockInv, LockTypeOK
<1>3. /\ lk'[r] # "out"
      /\ lk'[r] = "waiting" => lk[r] = "out"
      /\ lk'[r] = "held" => lk[r] = "waiting"
  BY DEF LockStep, LockAcquire, Attempt, OpenLock, LockUnopenable, Grant, Timeout, RefuseUnsupported,
         GoOnUnlocked, OtherErrno, Release, DieLocked, Enter, LockInv, LockTypeOK
<1>4. HoldBudget \in Nat /\ \A q \in Runs : age[q] \in 0..HoldBudget
  BY LockAssumption DEF LockInv, LockTypeOK
<1>5. lk'[p] = "out" => waited'[p] = 0
  BY <1>1, <1>2, <1>3 DEF WaitsForRival
<1>6. ASSUME lk'[p] = "waiting", HasOneHealthyRival(p)
      PROVE  /\ waited[p] <= HoldBudget
             /\ \A q \in RivalsOf(p) :
                  /\ lk'[q] \in {"out", "waiting"} => waited[p] = 0
                  /\ lk'[q] = "held" => waited[p] <= age[q]
  <2>1. CASE p = r
    <3>1. waited[p] = 0
      BY <1>1, <1>3, <1>6, <2>1 DEF WaitsForRival
    <3> QED
      BY <1>4, <3>1 DEF RivalsOf
  <2>2. CASE p # r
    <3>1. /\ waited[p] <= HoldBudget
          /\ \A q \in RivalsOf(p) :
               /\ lk[q] \in {"out", "waiting"} => waited[p] = 0
               /\ lk[q] = "held" => waited[p] <= age[q]
      BY <1>1, <1>2, <1>6, <2>2 DEF WaitsForRival
    <3>2. ASSUME NEW q \in RivalsOf(p)
          PROVE  /\ lk'[q] \in {"out", "waiting"} => waited[p] = 0
                 /\ lk'[q] = "held" => waited[p] <= age[q]
      BY <1>2, <1>3, <1>4, <3>1 DEF RivalsOf
    <3> QED
      BY <3>1, <3>2
  <2> QED
    BY <2>1, <2>2
<1> QED
  BY <1>1, <1>5, <1>6 DEF WaitsForRival, HasOneHealthyRival, RivalsOf

\* A wait that is longer than one hold is not given up to a single healthy rival,
\* however many runs use other lock files, whoever is killed and whatever flock
\* answers.
THEOREM SecondWriterAlwaysServed == LockSafeSpec => SecondWriterIsServed
<1>1. LockInit => Patient
  BY LockAssumption DEF LockInit, Patient, WaitsForRival, RivalsOf
<1>2. LockInv /\ Patient /\ [LockNext]_lockVars => Patient'
  <2> SUFFICES ASSUME LockInv, Patient, [LockNext]_lockVars PROVE Patient'
    OBVIOUS
  <2>1. CASE UNCHANGED lockVars
    BY <2>1 DEF lockVars, Patient, WaitsForRival, HasOneHealthyRival, RivalsOf
  <2>2. CASE Tick
    BY <2>2, TickKeepsPatient
  <2>3. CASE \E r \in Runs : LockStep(r)
    BY <2>3, LockStepKeepsPatient
  <2> QED
    BY <2>1, <2>2, <2>3 DEF LockNext
<1>3. LockInv /\ Patient =>
        \A p \in Runs :
          LET Rivals == {q \in Runs \ {p} : LockFile[q] = LockFile[p]}
          IN  /\ Timeout(p)
              /\ LockTimeout[p] > HoldBudget
              /\ Rivals \cap Stalled = {}
              => \E q, r \in Rivals : q # r
  <2> SUFFICES ASSUME LockInv, Patient, NEW p \in Runs,
                      Timeout(p), LockTimeout[p] > HoldBudget, RivalsOf(p) \cap Stalled = {},
                      \A q, r \in RivalsOf(p) : q = r
               PROVE  FALSE
    BY DEF RivalsOf
  <2>1. lk[p] = "waiting" /\ waited[p] >= LockTimeout[p]
    BY DEF Timeout
  <2>2. waited[p] <= HoldBudget
    BY <2>1 DEF Patient, WaitsForRival, HasOneHealthyRival
  <2>3. waited[p] \in Nat /\ LockTimeout[p] \in Nat /\ HoldBudget \in Nat
    BY LockAssumption DEF LockInv, LockTypeOK
  <2> QED
    BY <2>1, <2>2, <2>3
<1>4. LockSafeSpec => [](LockInv /\ Patient)
  BY <1>1, <1>2, LockInvariant, PTL DEF LockSafeSpec
<1> QED
  BY <1>3, <1>4, PTL DEF SecondWriterIsServed, LockSafeSpec

-----------------------------------------------------------------------------
\* One lock file for all, on a filesystem where flock works.
WorkingLock ==
  /\ LockSupport = "works"
  /\ \A p, q \in Runs : LockFile[p] = LockFile[q]

Exclusive ==
  \A p \in Runs : lk[p] # "unlocked" /\ (Mid(p) => lk[p] = "held")

\* Recoverable, name by name.
Undoes(p) ==
  \A n \in Names :
    before[p][n] = IF backup[p][n] # Absent THEN backup[p][n]
                   ELSE IF n \in published[p] THEN Absent
                   ELSE dir[n]

\* What the lists of run p say in each phase.
Tracks(p) ==
  /\ pub[p] \in {"idle", "mkdir"} =>
       backup[p] = Nothing /\ published[p] = {} /\ half[p] = {}
  /\ pub[p] = "install" =>
       /\ half[p] \subseteq todo[p]
       /\ todo[p] \subseteq Present(staged[p])
       /\ \A m, n \in half[p] : m = n
       /\ \A n \in half[p] : dir[n] = Absent
       /\ \A n \in todo[p] : n \notin published[p]
       /\ \A n \in todo[p] \ half[p] : backup[p][n] = Absent
  /\ pub[p] \in {"install", "unlink"} =>
       \A n \in published[p] : dir[n] # Absent
  /\ pub[p] = "unlink" => todo[p] \subseteq published[p]
  /\ pub[p] = "restore" => todo[p] \subseteq Present(backup[p])
  /\ Mid(p) => Undoes(p)

Failed == MaxFaults - faults

\* What the failures so far can have left undone.
Counted(p) ==
  /\ pub[p] \in {"unlink", "restore"} => Failed >= 1
  /\ pub[p] = "unlink" => published[p] = todo[p] \/ Failed >= 2
  /\ pub[p] = "restore" =>
       \/ published[p] = {} /\ Present(backup[p]) = todo[p]
       \/ Failed >= 2
  /\ pub[p] = "partial" => Failed >= 2

PublishInv ==
  /\ LockInv
  /\ PublishTypeOK
  /\ Exclusive
  /\ \A p \in Runs : Tracks(p) /\ Counted(p)

-----------------------------------------------------------------------------
\* Before any publish nothing is accounted for and nothing has failed.
LEMMA PublishInitInv == OutputInit => PublishInv
<1> SUFFICES ASSUME LockInit, DirInit, PublishInit PROVE PublishInv
  BY DEF OutputInit
<1>1. LockInv
  BY LockInitInv
<1>2. PublishTypeOK
  BY PublishAssumption
  DEF DirInit, PublishInit, PublishTypeOK, Contents, Nothing
<1>3. Exclusive
  BY DEF LockInit, PublishInit, Exclusive, Mid, MidPhases
<1>4. ASSUME NEW p \in Runs PROVE Tracks(p) /\ Counted(p)
  BY DEF PublishInit, Tracks, Counted, Mid, MidPhases
<1> QED BY <1>1, <1>2, <1>3, <1>4 DEF PublishInv

\* While one run is inside the lock no other is, and none other publishes.
LEMMA Alone ==
  ASSUME WorkingLock, PublishInv, NEW p \in Runs, NEW q \in Runs \ {p},
         Inside(p)
  PROVE  ~Inside(q) /\ ~Mid(q)
<1>1. LockMutex
  BY RecordExcludes DEF PublishInv
<1> QED BY <1>1 DEF WorkingLock, PublishInv, Exclusive, LockMutex, Inside

\* A run in the middle of _publish is inside the lock.
LEMMA MidIsInside ==
  ASSUME PublishInv, NEW p \in Runs, Mid(p)
  PROVE  Inside(p)
  BY DEF PublishInv, Exclusive, Inside

\* Every step of _publish by p is taken while p is in the middle of it.
LEMMA StepIsMid ==
  ASSUME NEW p \in Runs, PublishStep(p) \/ Stop(p)
  PROVE  Mid(p)
  BY DEF PublishStep, Stop, Mid, MidPhases, MakeOutputDir, MakeOutputDirFails,
         InstallFails, Displace, Place, Unlink, UnlinkFails, Restore,
         RestoreFails, StartRestore, RollbackIncomplete, RemoveCreated,
         RollbackComplete, Commit

\* What a run that is not publishing has recorded depends on its own lists only.
LEMMA BystanderKeeps ==
  ASSUME PublishInv, NEW q \in Runs, ~Mid(q), faults' \in Nat, faults' <= faults,
         pub'[q] = pub[q], backup'[q] = backup[q], published'[q] = published[q],
         half'[q] = half[q]
  PROVE  Tracks(q)' /\ Counted(q)'
<1>1. MaxFaults \in Nat /\ faults \in Nat
  BY PublishAssumption DEF PublishInv, PublishTypeOK
<1>2. Tracks(q) /\ Counted(q)
  BY DEF PublishInv
<1>3. Tracks(q)'
  BY <1>2 DEF Tracks, Mid, MidPhases, Nothing
<1>4. Counted(q)'
  BY <1>1, <1>2 DEF Counted, Mid, MidPhases, Failed
<1> QED BY <1>3, <1>4

\* One step of _publish keeps every variable's type; one case per operation.
LEMMA StepKeepsTypes ==
  ASSUME PublishInv, NEW p \in Runs, PublishStep(p)
  PROVE  PublishTypeOK'
<1> USE PublishAssumption
    DEF PublishInv, PublishTypeOK, Contents, Present, MidPhases, PubEnds, Goto,
        Fault
<1>1. CASE MakeOutputDir(p)
  BY <1>1 DEF MakeOutputDir
<1>2. CASE MakeOutputDirFails(p)
  BY <1>2 DEF MakeOutputDirFails
<1>3. CASE InstallFails(p)
  BY <1>3 DEF InstallFails
<1>4. CASE StartRestore(p)
  BY <1>4 DEF StartRestore
<1>5. CASE RollbackIncomplete(p)
  BY <1>5 DEF RollbackIncomplete
<1>6. CASE RemoveCreated(p)
  BY <1>6 DEF RemoveCreated
<1>7. CASE RollbackComplete(p)
  <2>1. Nothing \in [Names -> Files \cup {Absent}]
    BY DEF Nothing
  <2>2. backup' \in [Runs -> [Names -> Files \cup {Absent}]]
    BY <1>7, <2>1 DEF RollbackComplete, DiscardBackup
  <2>3. kept' = [kept EXCEPT ![p] = FALSE] \/ kept' = kept
    BY <1>7 DEF RollbackComplete, DiscardBackup
  <2>4. kept' \in [Runs -> BOOLEAN]
    BY <2>3
  <2>5. faults' \in 0 .. MaxFaults
    BY <1>7 DEF RollbackComplete, DiscardBackup
  <2> QED BY <1>7, <2>2, <2>4, <2>5 DEF RollbackComplete
<1>8. CASE Commit(p)
  <2>1. Nothing \in [Names -> Files \cup {Absent}]
    BY DEF Nothing
  <2>2. backup' \in [Runs -> [Names -> Files \cup {Absent}]]
    BY <1>8, <2>1 DEF Commit, DiscardBackup
  <2>3. kept' = [kept EXCEPT ![p] = FALSE] \/ kept' = kept
    BY <1>8 DEF Commit, DiscardBackup
  <2>4. kept' \in [Runs -> BOOLEAN]
    BY <2>3
  <2>5. faults' \in 0 .. MaxFaults
    BY <1>8 DEF Commit, DiscardBackup
  <2> QED BY <1>8, <2>2, <2>4, <2>5 DEF Commit
<1>9. ASSUME NEW n \in Names, Displace(p, n) PROVE PublishTypeOK'
  BY <1>9 DEF Displace
<1>10. ASSUME NEW n \in Names, Place(p, n) PROVE PublishTypeOK'
  BY <1>10 DEF Place
<1>11. ASSUME NEW n \in Names, Unlink(p, n) PROVE PublishTypeOK'
  BY <1>11 DEF Unlink
<1>12. ASSUME NEW n \in Names, UnlinkFails(p, n) PROVE PublishTypeOK'
  BY <1>12 DEF UnlinkFails
<1>13. ASSUME NEW n \in Names, Restore(p, n) PROVE PublishTypeOK'
  BY <1>13 DEF Restore
<1>14. ASSUME NEW n \in Names, RestoreFails(p, n) PROVE PublishTypeOK'
  BY <1>14 DEF RestoreFails
<1> QED BY <1>1, <1>2, <1>3, <1>4, <1>5, <1>6, <1>7, <1>8, <1>9, <1>10, <1>11, <1>12, <1>13, <1>14 DEF PublishStep

\* It keeps what the lists of p account for.
LEMMA StepKeepsTrack ==
  ASSUME PublishInv, NEW p \in Runs, PublishStep(p)
  PROVE  Tracks(p)'
<1> USE PublishAssumption
    DEF PublishInv, PublishTypeOK, Contents, Present, Nothing, Mid, MidPhases,
        Goto, Tracks, Undoes
<1>1. CASE MakeOutputDir(p)
  BY <1>1 DEF MakeOutputDir
<1>2. CASE MakeOutputDirFails(p)
  BY <1>2 DEF MakeOutputDirFails
<1>3. CASE InstallFails(p)
  BY <1>3 DEF InstallFails
<1>4. CASE StartRestore(p)
  BY <1>4 DEF StartRestore
<1>5. CASE RollbackIncomplete(p)
  BY <1>5 DEF RollbackIncomplete
<1>6. CASE RemoveCreated(p)
  BY <1>6 DEF RemoveCreated
<1>7. CASE RollbackComplete(p)
  BY <1>7 DEF RollbackComplete, DiscardBackup
<1>8. CASE Commit(p)
  BY <1>8 DEF Commit, DiscardBackup
<1>9. ASSUME NEW n \in Names, Displace(p, n) PROVE Tracks(p)'
  BY <1>9 DEF Displace
<1>10. ASSUME NEW n \in Names, Place(p, n) PROVE Tracks(p)'
  BY <1>10 DEF Place
<1>11. ASSUME NEW n \in Names, Unlink(p, n) PROVE Tracks(p)'
  BY <1>11 DEF Unlink
<1>12. ASSUME NEW n \in Names, UnlinkFails(p, n) PROVE Tracks(p)'
  BY <1>12 DEF UnlinkFails
<1>13. ASSUME NEW n \in Names, Restore(p, n) PROVE Tracks(p)'
  BY <1>13 DEF Restore
<1>14. ASSUME NEW n \in Names, RestoreFails(p, n) PROVE Tracks(p)'
  BY <1>14 DEF RestoreFails
<1> QED BY <1>1, <1>2, <1>3, <1>4, <1>5, <1>6, <1>7, <1>8, <1>9, <1>10, <1>11, <1>12, <1>13, <1>14 DEF PublishStep

\* And what the failed operations so far can have left undone.
LEMMA StepKeepsCount ==
  ASSUME PublishInv, NEW p \in Runs, PublishStep(p)
  PROVE  Counted(p)'
<1> USE PublishAssumption
    DEF PublishInv, PublishTypeOK, Contents, Present, Fault, Failed, Goto,
        Tracks, Counted
<1>1. CASE MakeOutputDir(p)
  BY <1>1 DEF MakeOutputDir
<1>2. CASE MakeOutputDirFails(p)
  BY <1>2 DEF MakeOutputDirFails
<1>3. CASE InstallFails(p)
  BY <1>3 DEF InstallFails
<1>4. CASE StartRestore(p)
  BY <1>4 DEF StartRestore
<1>5. CASE RollbackIncomplete(p)
  BY <1>5 DEF RollbackIncomplete, Reported, Unrestored, Unremoved
<1>6. CASE RemoveCreated(p)
  BY <1>6 DEF RemoveCreated
<1>7. CASE RollbackComplete(p)
  BY <1>7 DEF RollbackComplete, DiscardBackup
<1>8. CASE Commit(p)
  BY <1>8 DEF Commit, DiscardBackup
<1>9. ASSUME NEW n \in Names, Displace(p, n) PROVE Counted(p)'
  BY <1>9 DEF Displace
<1>10. ASSUME NEW n \in Names, Place(p, n) PROVE Counted(p)'
  BY <1>10 DEF Place
<1>11. ASSUME NEW n \in Names, Unlink(p, n) PROVE Counted(p)'
  BY <1>11 DEF Unlink
<1>12. ASSUME NEW n \in Names, UnlinkFails(p, n) PROVE Counted(p)'
  BY <1>12 DEF UnlinkFails
<1>13. ASSUME NEW n \in Names, Restore(p, n) PROVE Counted(p)'
  BY <1>13 DEF Restore
<1>14. ASSUME NEW n \in Names, RestoreFails(p, n) PROVE Counted(p)'
  BY <1>14 DEF RestoreFails
<1> QED BY <1>1, <1>2, <1>3, <1>4, <1>5, <1>6, <1>7, <1>8, <1>9, <1>10, <1>11, <1>12, <1>13, <1>14 DEF PublishStep

-----------------------------------------------------------------------------
\* A step of _publish changes the lists of the run that takes it and no other.
LEMMA StepTouchesOwnLists ==
  ASSUME PublishInv, NEW p \in Runs, PublishStep(p)
  PROVE  /\ faults' \in Nat /\ faults' <= faults
         /\ \A q \in Runs \ {p} :
              /\ pub'[q] = pub[q]
              /\ backup'[q] = backup[q]
              /\ published'[q] = published[q]
              /\ half'[q] = half[q]
<1>1. MaxFaults \in Nat /\ faults \in Nat
  BY PublishAssumption DEF PublishInv, PublishTypeOK
<1>2. /\ pub \in [Runs -> {"idle"} \cup MidPhases \cup PubEnds]
      /\ backup \in [Runs -> Contents]
      /\ published \in [Runs -> SUBSET Names]
      /\ half \in [Runs -> SUBSET Names]
  BY DEF PublishInv, PublishTypeOK
<1> USE <1>1, <1>2 DEF Goto, Fault, DiscardBackup
<1>3. CASE MakeOutputDir(p) \/ MakeOutputDirFails(p) \/ InstallFails(p)
  BY <1>3 DEF MakeOutputDir, MakeOutputDirFails, InstallFails
<1>4. CASE StartRestore(p) \/ RollbackIncomplete(p) \/ RemoveCreated(p)
  BY <1>4 DEF StartRestore, RollbackIncomplete, RemoveCreated
<1>5. CASE RollbackComplete(p) \/ Commit(p)
  BY <1>5 DEF RollbackComplete, Commit
<1>6. ASSUME NEW n \in Names, Displace(p, n) \/ Place(p, n)
      PROVE  /\ faults' \in Nat /\ faults' <= faults
             /\ \A q \in Runs \ {p} :
                  /\ pub'[q] = pub[q] /\ backup'[q] = backup[q]
                  /\ published'[q] = published[q] /\ half'[q] = half[q]
  BY <1>6 DEF Displace, Place
<1>7. ASSUME NEW n \in Names, Unlink(p, n) \/ UnlinkFails(p, n)
      PROVE  /\ faults' \in Nat /\ faults' <= faults
             /\ \A q \in Runs \ {p} :
                  /\ pub'[q] = pub[q] /\ backup'[q] = backup[q]
                  /\ published'[q] = published[q] /\ half'[q] = half[q]
  BY <1>7 DEF Unlink, UnlinkFails
<1>8. ASSUME NEW n \in Names, Restore(p, n) \/ RestoreFails(p, n)
      PROVE  /\ faults' \in Nat /\ faults' <= faults
             /\ \A q \in Runs \ {p} :
                  /\ pub'[q] = pub[q] /\ backup'[q] = backup[q]
                  /\ published'[q] = published[q] /\ half'[q] = half[q]
  BY <1>8 DEF Restore, RestoreFails
<1> QED BY <1>3, <1>4, <1>5, <1>6, <1>7, <1>8 DEF PublishStep

\* A step of _publish taken inside the lock keeps the invariant.
LEMMA PublishStepInv ==
  ASSUME WorkingLock, PublishInv, NEW p \in Runs, PublishStep(p),
         UNCHANGED lockVars
  PROVE  PublishInv'
<1>1. LockInv'
  BY LockInvStep DEF PublishInv
<1>2. PublishTypeOK'
  BY StepKeepsTypes
<1>3. Inside(p)
  BY StepIsMid, MidIsInside
<1>4. Exclusive'
  <2>1. ASSUME NEW q \in Runs PROVE lk'[q] # "unlocked" /\ (Mid(q)' => lk'[q] = "held")
    <3>1. CASE q = p
      BY <3>1, <1>3 DEF PublishInv, Exclusive, Inside, lockVars
    <3>2. CASE q # p
      BY <3>2, StepTouchesOwnLists DEF PublishInv, Exclusive, lockVars, Mid
    <3> QED BY <3>1, <3>2
  <2> QED BY <2>1 DEF Exclusive
<1>5. ASSUME NEW q \in Runs PROVE Tracks(q)' /\ Counted(q)'
  <2>1. CASE q = p
    BY <2>1, StepKeepsTrack, StepKeepsCount
  <2>2. CASE q # p
    BY <2>2, <1>3, Alone, StepTouchesOwnLists, BystanderKeeps
  <2> QED BY <2>1, <2>2
<1> QED BY <1>1, <1>2, <1>4, <1>5 DEF PublishInv

\* A run begins to publish, or has no room to, with nothing recorded of it.
LEMMA BeginInv ==
  ASSUME WorkingLock, PublishInv, NEW p \in Runs, UNCHANGED lockVars,
         \/ \E set \in Contents : PublishBegin(p, set)
         \/ PublishRefused(p)
  PROVE  PublishInv'
<1>1. LockInv'
  BY LockInvStep DEF PublishInv
<1>2. Inside(p) /\ pub[p] = "idle"
  BY DEF PublishBegin, PublishRefused
<1>3. PublishTypeOK'
  <2> USE PublishAssumption
      DEF PublishInv, PublishTypeOK, MidPhases, PubEnds, Goto
  <2>1. ASSUME NEW set \in Contents, PublishBegin(p, set)
        PROVE  PublishTypeOK'
    BY <2>1 DEF PublishBegin
  <2>2. CASE PublishRefused(p)
    BY <2>2 DEF PublishRefused, Fault
  <2> QED BY <2>1, <2>2
<1>4. /\ faults' \in Nat /\ faults' <= faults
      /\ \A q \in Runs \ {p} : pub'[q] = pub[q]
      /\ UNCHANGED <<dir, backup, published, half>>
  BY PublishAssumption
  DEF PublishInv, PublishTypeOK, Goto, Fault, PublishBegin, PublishRefused
<1>5. Exclusive'
  BY <1>2, <1>4 DEF PublishInv, Exclusive, Inside, Mid, lockVars
<1>6. ASSUME NEW q \in Runs PROVE Tracks(q)' /\ Counted(q)'
  <2>1. CASE q = p
    <3>1. Tracks(p)
      BY DEF PublishInv
    <3>2. pub'[p] \in {"mkdir", "refused"}
      BY DEF PublishInv, PublishTypeOK, Goto, PublishBegin, PublishRefused
    <3>3. pub'[p] = "mkdir" => before'[p] = dir
      BY DEF PublishInv, PublishTypeOK, Goto, PublishBegin, PublishRefused
    <3>4. Tracks(p)'
      BY <1>2, <1>4, <3>1, <3>2, <3>3
      DEF Tracks, Undoes, Mid, MidPhases, Nothing
    <3>5. Counted(p)'
      BY <3>2 DEF Counted
    <3> QED BY <2>1, <3>4, <3>5
  <2>2. CASE q # p
    BY <2>2, <1>2, <1>4, Alone, BystanderKeeps
  <2> QED BY <2>1, <2>2
<1> QED BY <1>1, <1>3, <1>5, <1>6 DEF PublishInv

\* A step of the lock alone: nobody leaves it in the middle of a publish.
LEMMA LockStepInv ==
  ASSUME WorkingLock, PublishInv, UNCHANGED pubVars,
         \/ Tick
         \/ \E p \in Runs : LockAcquire(p) \/ (~Mid(p) /\ Release(p))
  PROVE  PublishInv'
<1>1. LockInv'
  BY LockInvStep DEF PublishInv, LockNext, LockStep
<1>2. PublishTypeOK' /\ \A q \in Runs : Tracks(q)' /\ Counted(q)'
  BY DEF PublishInv, PublishTypeOK, pubVars, Tracks, Counted, Undoes, Mid, Failed
<1>3. Exclusive'
  <2>1. CASE Tick
    BY <2>1 DEF Tick, PublishInv, Exclusive, Mid, pubVars
  <2>2. ASSUME NEW p \in Runs, LockAcquire(p) \/ (~Mid(p) /\ Release(p))
        PROVE  Exclusive'
    <3>1. PICK phase \in LockPhases \ {"unlocked"} :
            lk' = [lk EXCEPT ![p] = phase] /\ (lk[p] = "held" => ~Mid(p))
      BY <2>2 DEF WorkingLock, LockAcquire, OpenLock, LockUnopenable, Attempt,
                  Grant, Timeout, RefuseUnsupported, GoOnUnlocked, Unsupported,
                  OtherErrno, Release, Enter, LockPhases
    <3> QED BY <3>1 DEF PublishInv, LockInv, LockTypeOK, Exclusive, Mid, pubVars
  <2> QED BY <2>1, <2>2
<1> QED BY <1>1, <1>2, <1>3 DEF PublishInv

\* A run that is killed releases the lock and publishes no more.
LEMMA KilledInv ==
  ASSUME WorkingLock, PublishInv, NEW p \in Runs, Killed(p)
  PROVE  PublishInv'
<1>1. LockInv'
  BY LockInvStep DEF PublishInv, Killed, LockNext, LockStep
<1>2. Inside(p)
  BY StepIsMid, MidIsInside DEF Killed
<1>3. PublishTypeOK'
  BY DEF PublishInv, PublishTypeOK, Killed, Stop, Goto, MidPhases, PubEnds
<1>4. /\ pub' = [pub EXCEPT ![p] = "killed"]
      /\ lk' = [lk EXCEPT ![p] = "dead"]
      /\ UNCHANGED <<dir, backup, published, half, faults>>
  BY DEF Killed, Stop, DieLocked, Enter, Goto
<1>5. Exclusive'
  BY <1>4 DEF PublishInv, PublishTypeOK, LockInv, LockTypeOK, Exclusive, Mid, MidPhases
<1>6. ASSUME NEW q \in Runs PROVE Tracks(q)' /\ Counted(q)'
  <2>1. CASE q = p
    <3>1. pub'[p] = "killed"
      BY <1>4 DEF PublishInv, PublishTypeOK
    <3> QED BY <2>1, <3>1 DEF Tracks, Counted, Mid, MidPhases
  <2>2. CASE q # p
    <3>1. faults' \in Nat /\ faults' <= faults
      BY <1>4, PublishAssumption DEF PublishInv, PublishTypeOK
    <3> QED BY <2>2, <1>2, <1>4, <3>1, Alone, BystanderKeeps
            DEF PublishInv, PublishTypeOK
  <2> QED BY <2>1, <2>2
<1> QED BY <1>1, <1>3, <1>5, <1>6 DEF PublishInv

\* The invariant holds for ever.
LEMMA PublishInvariant ==
  ASSUME WorkingLock
  PROVE  PublishSafeSpec => []PublishInv
<1>1. OutputInit => PublishInv
  BY PublishInitInv
<1>2. PublishInv /\ [PublishNext]_vars => PublishInv'
  <2> SUFFICES ASSUME PublishInv, [PublishNext]_vars PROVE PublishInv'
    OBVIOUS
  <2>1. CASE UNCHANGED vars
    BY <2>1 DEF vars, lockVars, pubVars, PublishInv, LockInv, LockTypeOK,
                NoLockout, HolderRecorded, PublishTypeOK, Exclusive, Tracks,
                Counted, Undoes, Mid, Failed
  <2>2. CASE Tick /\ UNCHANGED pubVars
    BY <2>2, LockStepInv
  <2>3. ASSUME NEW p \in Runs, Running(p)
        PROVE  PublishInv'
    <3>1. CASE LockAcquire(p) /\ UNCHANGED pubVars
      BY <3>1, LockStepInv
    <3>2. CASE (\E set \in StagedSets : PublishBegin(p, set)) /\ UNCHANGED lockVars
      BY <3>2, BeginInv, PublishAssumption
    <3>3. CASE PublishRefused(p) /\ UNCHANGED lockVars
      BY <3>3, BeginInv
    <3>4. CASE PublishStep(p) /\ UNCHANGED lockVars
      BY <3>4, PublishStepInv
    <3>5. CASE pub[p] \in PubEnds \ {"killed"} /\ Release(p) /\ UNCHANGED pubVars
      <4>1. ~Mid(p)
        BY <3>5 DEF Mid, MidPhases, PubEnds
      <4> QED BY <3>5, <4>1, LockStepInv
    <3> QED BY <2>3, <3>1, <3>2, <3>3, <3>4, <3>5 DEF Running
  <2>4. ASSUME NEW p \in Runs, Killed(p)
        PROVE  PublishInv'
    BY <2>4, KilledInv
  <2> QED BY <2>1, <2>2, <2>3, <2>4 DEF PublishNext
<1> QED BY <1>1, <1>2, PTL DEF PublishSafeSpec

\* Every variable of _publish keeps its type, the counter of failures and the
\* depth of the output path their bounds.
THEOREM PublishTypeCorrect ==
  ASSUME WorkingLock
  PROVE  PublishSafeSpec => []PublishTypeOK
<1>1. PublishInv => PublishTypeOK
  BY DEF PublishInv
<1> QED BY <1>1, PublishInvariant, PTL

\* Between any two operations of a publish or of its rollback, what was in the
\* output before can be rebuilt from the output, the backup and the list of
\* published files.
THEOREM PublishRecoverable ==
  ASSUME WorkingLock
  PROVE  PublishSafeSpec => []Recoverable
<1>1. PublishInv => Recoverable
  <2> SUFFICES ASSUME PublishInv, NEW p \in Runs, Mid(p)
               PROVE  Undo(p) = before[p]
    BY DEF Recoverable
  <2>1. Undoes(p) /\ before[p] \in Contents
    BY DEF PublishInv, PublishTypeOK, Tracks
  <2> QED BY <2>1 DEF Undoes, Undo, Contents
<1> QED BY <1>1, PublishInvariant, PTL

\* A rollback that one failed operation started leaves nothing undone unless a
\* second operation fails, however many files there are.
THEOREM OneFaultLeavesNoDamage ==
  ASSUME WorkingLock
  PROVE  PublishSafeSpec => []OneFaultIsUndone
<1>1. PublishInv => OneFaultIsUndone
  BY DEF PublishInv, Counted, Failed, OneFaultIsUndone
<1> QED BY <1>1, PublishInvariant, PTL

-----------------------------------------------------------------------------
(***************************************************************************)
(* Towards the abstract specification: what the directory owes to the set  *)
(* being published and to the directory found (Ledger), and how much of    *)
(* the output path exists (Grounded, Levels).  None of it is needed for    *)
(* the invariant above, which it rests on.                                 *)
(***************************************************************************)

\* What run p has put in place and displaced, against the set it was given.
Ledger(p) ==
  /\ Mid(p) => published[p] \cup Present(backup[p]) \subseteq Present(staged[p])
  /\ pub[p] = "install" =>
       /\ Present(staged[p]) = todo[p] \cup published[p]
       /\ Present(backup[p]) \subseteq published[p] \cup half[p]
       /\ \A n \in published[p] : dir[n] = staged[p][n]
  /\ pub[p] = "tidy" => published[p] = {} /\ Present(backup[p]) = {}

\* How much of the output path exists while p works on it.
Levels(p) ==
  /\ pub[p] \in {"install", "unlink", "restore"} => depth = PathLen
  /\ Mid(p) /\ before[p] # Nothing => probed[p] = PathLen
  /\ pub[p] = "tidy" => Failed >= 2 \/ depth = probed[p]

\* Files exist only in a directory that does.
Grounded == depth < PathLen => dir = Nothing

Books == Grounded /\ \A p \in Runs : Ledger(p) /\ Levels(p)

\* Before any publish the books are in order.
LEMMA BooksInit == OutputInit => Books
  BY DEF OutputInit, DirInit, PublishInit, Books, Grounded, Ledger, Levels, Mid,
         MidPhases

\* A run that is not publishing has nothing in them.
LEMMA BystanderBooks ==
  ASSUME NEW q \in Runs, ~Mid(q), pub'[q] = pub[q]
  PROVE  Ledger(q)' /\ Levels(q)'
  BY DEF Mid, MidPhases, Ledger, Levels

\* A step of _publish keeps the ledger of the run that takes it.
LEMMA StepKeepsLedger ==
  ASSUME PublishInv, NEW p \in Runs, Ledger(p), PublishStep(p)
  PROVE  Ledger(p)'
<1>1. Tracks(p) /\ Ledger(p)
  BY DEF PublishInv
<1> USE <1>1, PublishAssumption
    DEF PublishInv, PublishTypeOK, Contents, Present, Nothing, Mid, MidPhases,
        Goto, Tracks, Ledger
<1>2. CASE MakeOutputDir(p)
  BY <1>2 DEF MakeOutputDir
<1>3. CASE MakeOutputDirFails(p)
  BY <1>3 DEF MakeOutputDirFails
<1>4. CASE InstallFails(p)
  BY <1>4 DEF InstallFails
<1>5. CASE StartRestore(p)
  BY <1>5 DEF StartRestore
<1>6. CASE RollbackIncomplete(p)
  BY <1>6 DEF RollbackIncomplete
<1>7. CASE RemoveCreated(p)
  BY <1>7 DEF RemoveCreated, Reported, Unrestored, Unremoved
<1>8. CASE RollbackComplete(p)
  BY <1>8 DEF RollbackComplete
<1>9. CASE Commit(p)
  BY <1>9 DEF Commit
<1>10. ASSUME NEW n \in Names, Displace(p, n) PROVE Ledger(p)'
  BY <1>10 DEF Displace
<1>11. ASSUME NEW n \in Names, Place(p, n) PROVE Ledger(p)'
  BY <1>11 DEF Place
<1>12. ASSUME NEW n \in Names, Unlink(p, n) PROVE Ledger(p)'
  BY <1>12 DEF Unlink
<1>13. ASSUME NEW n \in Names, UnlinkFails(p, n) PROVE Ledger(p)'
  BY <1>13 DEF UnlinkFails
<1>14. ASSUME NEW n \in Names, Restore(p, n) PROVE Ledger(p)'
  BY <1>14 DEF Restore
<1>15. ASSUME NEW n \in Names, RestoreFails(p, n) PROVE Ledger(p)'
  BY <1>15 DEF RestoreFails
<1> QED BY <1>2, <1>3, <1>4, <1>5, <1>6, <1>7, <1>8, <1>9, <1>10, <1>11, <1>12,
           <1>13, <1>14, <1>15 DEF PublishStep

\* Undone in full, the directory is what it was.
LEMMA UndoneIsBefore ==
  ASSUME PublishInv, NEW p \in Runs, Mid(p), published[p] = {},
         Present(backup[p]) = {}
  PROVE  dir = before[p]
<1>1. Undoes(p) /\ dir \in Contents /\ before[p] \in Contents
  BY DEF PublishInv, PublishTypeOK, Tracks
<1>2. \A n \in Names : before[p][n] = dir[n]
  BY <1>1 DEF Undoes, Present
<1> QED BY <1>1, <1>2 DEF Contents

\* And what it keeps of the output path.
LEMMA StepKeepsLevels ==
  ASSUME PublishInv, Books, NEW p \in Runs, PublishStep(p)
  PROVE  Levels(p)' /\ Grounded'
<1>1. Levels(p) /\ Grounded
  BY DEF Books
<1>2. Tracks(p) /\ Counted(p)
  BY DEF PublishInv
<1> USE <1>1, PublishAssumption
    DEF PublishInv, PublishTypeOK, Mid, MidPhases, Goto, Failed, Fault,
        Levels, Grounded
<1>3. CASE MakeOutputDir(p)
  BY <1>3 DEF MakeOutputDir
<1>4. CASE MakeOutputDirFails(p)
  BY <1>4 DEF MakeOutputDirFails
<1>5. CASE InstallFails(p)
  BY <1>5 DEF InstallFails
<1>6. CASE StartRestore(p) \/ RollbackIncomplete(p)
  BY <1>6 DEF StartRestore, RollbackIncomplete
<1>7. CASE RemoveCreated(p)
  <2>1. dir = before[p]
    BY <1>7, UndoneIsBefore
    DEF RemoveCreated, Reported, Unrestored, Unremoved
  <2>2. Failed >= 1
    BY <1>7, <1>2 DEF RemoveCreated, Counted
  <2>3. /\ pub[p] = "restore" /\ pub' = [pub EXCEPT ![p] = "tidy"]
        /\ UNCHANGED <<dir, before, probed>>
    BY <1>7 DEF RemoveCreated
  <2>4. CASE dir = Nothing /\ depth' = probed[p] /\ UNCHANGED faults
    BY <2>3, <2>4
  <2>5. CASE dir # Nothing /\ depth' = depth /\ UNCHANGED faults
    BY <2>1, <2>3, <2>5
  <2>6. CASE dir = Nothing /\ Fault
    BY <2>2, <2>3, <2>6
  <2> QED BY <1>7, <2>4, <2>5, <2>6 DEF RemoveCreated
<1>8. CASE RollbackComplete(p) \/ Commit(p)
  BY <1>8 DEF RollbackComplete, Commit
<1>9. ASSUME NEW n \in Names, Displace(p, n) \/ Place(p, n)
      PROVE  Levels(p)' /\ Grounded'
  BY <1>9 DEF Displace, Place
<1>10. ASSUME NEW n \in Names, Unlink(p, n) \/ UnlinkFails(p, n)
       PROVE  Levels(p)' /\ Grounded'
  BY <1>10 DEF Unlink, UnlinkFails
<1>11. ASSUME NEW n \in Names, Restore(p, n) \/ RestoreFails(p, n)
       PROVE  Levels(p)' /\ Grounded'
  BY <1>11 DEF Restore, RestoreFails
<1> QED BY <1>3, <1>4, <1>5, <1>6, <1>7, <1>8, <1>9, <1>10, <1>11 DEF PublishStep

\* A step of _publish, a beginning, a kill and a step of the lock alone keep
\* the books of every run.
LEMMA PublishStepBooks ==
  ASSUME WorkingLock, PublishInv, Books, NEW p \in Runs, PublishStep(p)
  PROVE  Books'
<1>1. Inside(p)
  BY StepIsMid, MidIsInside
<1>2. ASSUME NEW q \in Runs PROVE Ledger(q)' /\ Levels(q)'
  <2>1. CASE q = p
    BY <2>1, StepKeepsLedger, StepKeepsLevels DEF Books
  <2>2. CASE q # p
    BY <2>2, <1>1, Alone, StepTouchesOwnLists, BystanderBooks
  <2> QED BY <2>1, <2>2
<1> QED BY <1>2, StepKeepsLevels DEF Books

LEMMA BeginBooks ==
  ASSUME WorkingLock, PublishInv, Books, NEW p \in Runs,
         \/ \E set \in Contents : PublishBegin(p, set)
         \/ PublishRefused(p)
  PROVE  Books'
<1>1. Inside(p) /\ pub[p] = "idle" /\ Tracks(p) /\ Grounded
  BY DEF PublishBegin, PublishRefused, PublishInv, Books
<1>2. UNCHANGED <<dir, depth>>
  BY DEF PublishBegin, PublishRefused
<1>3. Grounded'
  BY <1>1, <1>2 DEF Grounded
<1>4. ASSUME NEW q \in Runs PROVE Ledger(q)' /\ Levels(q)'
  <2>1. CASE q = p /\ PublishRefused(p)
    <3>1. pub'[p] = "refused"
      BY <2>1 DEF PublishRefused, Goto, PublishInv, PublishTypeOK
    <3> QED BY <2>1, <3>1 DEF Ledger, Levels, Mid, MidPhases
  <2>2. CASE q = p /\ \E set \in Contents : PublishBegin(p, set)
    <3>1. /\ pub'[p] = "mkdir" /\ before'[p] = dir /\ probed'[p] = depth
          /\ published'[p] = {} /\ backup'[p] = Nothing
      BY <2>2, <1>1 DEF PublishBegin, Goto, PublishInv, PublishTypeOK, Tracks
    <3>2. depth < PathLen \/ depth = PathLen
      BY PublishAssumption DEF PublishInv, PublishTypeOK
    <3> QED BY <2>2, <1>1, <3>1, <3>2
            DEF Ledger, Levels, Grounded, Present, Nothing
  <2>3. CASE q # p
    <3>1. pub'[q] = pub[q]
      BY <2>3 DEF PublishBegin, PublishRefused, Goto, PublishInv, PublishTypeOK
    <3> QED BY <2>3, <1>1, <3>1, Alone, BystanderBooks
  <2> QED BY <2>1, <2>2, <2>3
<1> QED BY <1>3, <1>4 DEF Books

LEMMA StopBooks ==
  ASSUME PublishInv, Books, NEW p \in Runs, Stop(p)
  PROVE  Books'
<1>1. /\ pub' = [pub EXCEPT ![p] = "killed"]
      /\ UNCHANGED <<dir, depth, staged, todo, half, published, backup, kept,
                     probed, before, faults>>
  BY DEF Stop, Goto
<1>2. ASSUME NEW q \in Runs PROVE Ledger(q)' /\ Levels(q)'
  BY <1>1 DEF PublishInv, PublishTypeOK, Books, Ledger, Levels, Mid, MidPhases,
              Failed, Present
<1> QED BY <1>1, <1>2 DEF Books, Grounded

LEMMA IdleBooks ==
  ASSUME Books, UNCHANGED pubVars
  PROVE  Books'
  BY DEF Books, Grounded, Ledger, Levels, Mid, Failed, Present, pubVars

LEMMA BooksInvariant ==
  ASSUME WorkingLock
  PROVE  PublishSafeSpec => []Books
<1>1. OutputInit => Books
  BY BooksInit
<1>2. PublishInv /\ Books /\ [PublishNext]_vars => Books'
  <2> SUFFICES ASSUME PublishInv, Books, [PublishNext]_vars PROVE Books'
    OBVIOUS
  <2>1. CASE UNCHANGED pubVars
    BY <2>1, IdleBooks
  <2>2. ASSUME NEW p \in Runs, Running(p), ~UNCHANGED pubVars
        PROVE  Books'
    <3>1. CASE \E set \in StagedSets : PublishBegin(p, set)
      BY <3>1, BeginBooks, PublishAssumption
    <3>2. CASE PublishRefused(p)
      BY <3>2, BeginBooks
    <3>3. CASE PublishStep(p)
      BY <3>3, PublishStepBooks
    <3> QED BY <2>2, <3>1, <3>2, <3>3 DEF Running
  <2>3. ASSUME NEW p \in Runs, Killed(p)
        PROVE  Books'
    BY <2>3, StopBooks DEF Killed
  <2> QED BY <2>1, <2>2, <2>3 DEF PublishNext, vars
<1> QED BY <1>1, <1>2, PublishInvariant, PTL DEF PublishSafeSpec

-----------------------------------------------------------------------------
\* Only one operation ends a rollback that undid everything, and it leaves the
\* output path alone.
LEMMA OnlyTidyRollsBack ==
  ASSUME PublishInv, NEW p \in Runs, Mid(p), PublishStep(p),
         pub'[p] = "rolledback"
  PROVE  RollbackComplete(p)
<1> USE DEF PublishInv, PublishTypeOK, Goto, Mid, MidPhases
<1>1. ~(MakeOutputDir(p) \/ MakeOutputDirFails(p) \/ InstallFails(p))
  BY DEF MakeOutputDir, MakeOutputDirFails, InstallFails
<1>2. ~(StartRestore(p) \/ RollbackIncomplete(p) \/ RemoveCreated(p) \/ Commit(p))
  BY DEF StartRestore, RollbackIncomplete, RemoveCreated, Commit
<1>3. ASSUME NEW n \in Names
      PROVE  ~(\/ Displace(p, n) \/ Place(p, n) \/ Unlink(p, n)
               \/ UnlinkFails(p, n) \/ Restore(p, n) \/ RestoreFails(p, n))
  BY DEF Displace, Place, Unlink, UnlinkFails, Restore, RestoreFails
<1> QED BY <1>1, <1>2, <1>3 DEF PublishStep

\* While at most one operation of the behaviour has failed, a publish that was
\* rolled back has removed every directory it created, for every depth of the
\* output path.  A second failure, of the rollback's own rmdir for one, can leave
\* some, and nothing is said of it.
THEOREM RollbackLeavesNoDirs ==
  ASSUME WorkingLock
  PROVE  PublishSafeSpec => RollbackRemovesDirs
<1> DEFINE Leaves == \A p \in Runs : Mid(p) /\ pub'[p] = "rolledback" => DepthRestored(p)
<1>1. PublishInv /\ Books /\ [PublishNext]_vars => [Leaves]_vars
  <2> SUFFICES ASSUME PublishInv, Books, PublishNext, NEW p \in Runs, Mid(p),
                      pub'[p] = "rolledback"
               PROVE  DepthRestored(p)
    OBVIOUS
  <2>1. RollbackComplete(p)
    <3>1. PublishStep(p)
      <4>1. pub[p] # "rolledback"
        BY DEF Mid, MidPhases
      <4>2. ~UNCHANGED pubVars
        BY <4>1 DEF pubVars
      <4>3. PICK q \in Runs : Running(q) \/ Killed(q)
        BY <4>2 DEF PublishNext
      <4>4. CASE Killed(q)
        <5>1. pub' = [pub EXCEPT ![q] = "killed"]
          BY <4>4 DEF Killed, Stop, Goto
        <5> QED BY <5>1, <4>1 DEF PublishInv, PublishTypeOK
      <4>5. CASE Running(q) /\ ~PublishStep(q)
        <5>1. pub' = [pub EXCEPT ![q] = "mkdir"] \/ pub' = [pub EXCEPT ![q] = "refused"]
          BY <4>5, <4>2 DEF Running, PublishBegin, PublishRefused, Goto
        <5> QED BY <5>1, <4>1 DEF PublishInv, PublishTypeOK
      <4>6. CASE PublishStep(q)
        BY <4>6, <4>1, StepTouchesOwnLists
      <4> QED BY <4>3, <4>4, <4>5, <4>6
    <3> QED BY <3>1, OnlyTidyRollsBack
  <2>2. Levels(p) /\ pub[p] = "tidy" /\ UNCHANGED <<depth, probed>>
    BY <2>1 DEF RollbackComplete, Books
  <2>3. faults' \in Nat /\ faults' <= faults
    BY <2>1, StepTouchesOwnLists DEF PublishStep
  <2>4. MaxFaults \in Nat /\ faults \in Nat
    BY PublishAssumption DEF PublishInv, PublishTypeOK
  <2>5. CASE depth = probed[p]
    BY <2>2, <2>5 DEF DepthRestored
  <2>6. CASE Failed >= 2
    BY <2>3, <2>4, <2>6 DEF Failed, DepthRestored
  <2> QED BY <2>2, <2>5, <2>6 DEF Levels
<1> QED BY <1>1, PublishInvariant, BooksInvariant, PTL
        DEF PublishSafeSpec, RollbackRemovesDirs

-----------------------------------------------------------------------------
(***************************************************************************)
(* Publish implements AtomicInstall.  The lock and the renames are         *)
(* invisible: while a run is publishing the view is what it found, and the *)
(* step that ends the publish is the abstract answer.                      *)
(***************************************************************************)

\* Whatever run is inside the lock, what the others see is the directory it
\* found while it is publishing and the directory itself when it is not; also
\* after a step that moves no other run.
LEMMA SoleView ==
  ASSUME WorkingLock, PublishInv, NEW p \in Runs, Inside(p)
  PROVE  View = IF Mid(p) THEN before[p] ELSE dir
<1>1. Publishers = IF Mid(p) THEN {p} ELSE {}
  BY Alone DEF Publishers
<1> QED BY <1>1 DEF View

LEMMA SoleViewAfter ==
  ASSUME WorkingLock, PublishInv, NEW p \in Runs, Inside(p),
         \A q \in Runs \ {p} : pub'[q] = pub[q]
  PROVE  View' = IF Mid(p)' THEN before'[p] ELSE dir'
<1>1. \A q \in Runs \ {p} : ~Mid(q)'
  BY Alone DEF Mid
<1>2. Publishers' = IF Mid(p)' THEN {p} ELSE {}
  BY <1>1 DEF Publishers
<1> QED BY <1>2 DEF View

\* What one run is told, before and after a step, is the only answer that can
\* change in it.
LEMMA OneOutcome ==
  ASSUME PublishInv, NEW p \in Runs, NEW answer,
         \A q \in Runs \ {p} : pub'[q] = pub[q],
         \/ pub'[p] \in MidPhases /\ answer = "asked"
         \/ pub'[p] = "committed" /\ answer = "installed"
         \/ pub'[p] \in {"refused", "escaped", "rolledback"} /\ answer = "unchanged"
         \/ pub'[p] = "partial" /\ answer = "damaged"
         \/ pub'[p] = "killed" /\ answer = "stopped"
  PROVE  Outcome' = [Outcome EXCEPT ![p] = answer]
<1>1. ASSUME NEW q \in Runs \ {p} PROVE Outcome'[q] = Outcome[q]
  BY <1>1 DEF Outcome, Mid
<1>2. Outcome'[p] = answer
  BY DEF Outcome, Mid, MidPhases
<1>3. /\ Outcome = [q \in Runs |-> Outcome[q]]
      /\ Outcome' = [q \in Runs |-> Outcome'[q]]
  BY DEF Outcome
<1> HIDE DEF Outcome
<1> QED BY <1>1, <1>2, <1>3

LEMMA OneReport ==
  ASSUME PublishInv, NEW p \in Runs,
         \A q \in Runs \ {p} : /\ pub'[q] = pub[q]
                               /\ published'[q] = published[q]
                               /\ backup'[q] = backup[q]
  PROVE  Report' = [Report EXCEPT ![p] = Report'[p]]
<1>1. ASSUME NEW q \in Runs \ {p} PROVE Report'[q] = Report[q]
  BY <1>1 DEF Report, Reported, Unrestored, Unremoved, Present
<1>2. /\ Report = [q \in Runs |-> Report[q]]
      /\ Report' = [q \in Runs |-> Report'[q]]
  BY DEF Report
<1> HIDE DEF Report
<1> QED BY <1>1, <1>2

\* A run that has not been told that the output is damaged has no report.
LEMMA NoReport ==
  ASSUME PublishInv, NEW p \in Runs, pub[p] # "partial", pub'[p] # "partial",
         Report' = [Report EXCEPT ![p] = Report'[p]]
  PROVE  UNCHANGED Report
<1>1. Report[p] = {} /\ Report'[p] = {}
  BY DEF Report
<1>2. Report = [q \in Runs |-> Report[q]]
  BY DEF Report
<1> HIDE DEF Report
<1> QED BY <1>1, <1>2

\* The directories at both ends of a publish.
LEMMA ViewIsContents ==
  ASSUME PublishInv, NEW p \in Runs
  PROVE  before[p] \in Contents /\ dir \in Contents
  BY DEF PublishInv, PublishTypeOK

\* Beginning is asking.
LEMMA BeginAsks ==
  ASSUME WorkingLock, PublishInv, NEW p \in Runs,
         NEW set \in StagedSets, PublishBegin(p, set)
  PROVE  Install!Ask(p)
<1>1. /\ Inside(p) /\ pub[p] = "idle"
      /\ pub' = [pub EXCEPT ![p] = "mkdir"]
      /\ staged' = [staged EXCEPT ![p] = set]
      /\ before' = [before EXCEPT ![p] = dir]
      /\ UNCHANGED <<dir, published, backup>>
  BY DEF PublishBegin, Goto
<1>2. pub'[p] = "mkdir" /\ before'[p] = dir /\ \A q \in Runs \ {p} : pub'[q] = pub[q]
  BY <1>1 DEF PublishInv, PublishTypeOK
<1>3. Outcome' = [Outcome EXCEPT ![p] = "asked"]
  BY <1>2, OneOutcome DEF MidPhases
<1>4. UNCHANGED Report
  BY <1>1, <1>2, OneReport, NoReport
<1>5. View = dir
  BY <1>1, SoleView DEF Mid, MidPhases
<1>6. View' = dir
  BY <1>1, <1>2, SoleViewAfter DEF Mid, MidPhases
<1>7. Outcome[p] = "none" /\ \A q \in Runs : Outcome[q] # "asked"
  <2>1. \A q \in Runs : ~Mid(q)
    BY <1>1, Alone DEF Mid, MidPhases
  <2> QED BY <1>1, <2>1 DEF Outcome
<1> QED BY <1>1, <1>3, <1>4, <1>5, <1>6, <1>7 DEF Install!Ask

\* Having no room to begin is declining.
LEMMA RefusalDeclines ==
  ASSUME WorkingLock, PublishInv, NEW p \in Runs,
         PublishRefused(p)
  PROVE  Install!Decline(p)
<1>1. /\ Inside(p) /\ pub[p] = "idle"
      /\ pub' = [pub EXCEPT ![p] = "refused"]
      /\ UNCHANGED <<dir, staged, published, backup>>
  BY DEF PublishRefused, Goto
<1>2. pub'[p] = "refused" /\ \A q \in Runs \ {p} : pub'[q] = pub[q]
  BY <1>1 DEF PublishInv, PublishTypeOK
<1>3. Outcome' = [Outcome EXCEPT ![p] = "unchanged"]
  BY <1>2, OneOutcome
<1>4. UNCHANGED Report
  BY <1>1, <1>2, OneReport, NoReport
<1>5. View = dir
  BY <1>1, SoleView DEF Mid, MidPhases
<1>6. View' = dir
  BY <1>1, <1>2, SoleViewAfter DEF Mid, MidPhases
<1>7. Outcome[p] = "none"
  BY <1>1 DEF Outcome, Mid, MidPhases
<1> QED BY <1>1, <1>3, <1>4, <1>5, <1>6, <1>7 DEF Install!Decline

\* No step of _publish changes what the run was given or what it found.
LEMMA StepKeepsGiven ==
  ASSUME NEW p \in Runs, PublishStep(p)
  PROVE  UNCHANGED <<before, staged>>
  BY DEF PublishStep, MakeOutputDir, MakeOutputDirFails, InstallFails, Displace,
         Place, Unlink, UnlinkFails, Restore, RestoreFails, StartRestore,
         RollbackIncomplete, RemoveCreated, RollbackComplete, Commit

\* A step of _publish goes on publishing or is one of the four that end it.
LEMMA StepGoesOnOrEnds ==
  ASSUME PublishInv, NEW p \in Runs, PublishStep(p)
  PROVE  \/ pub'[p] \in MidPhases
         \/ MakeOutputDirFails(p) /\ pub'[p] = "escaped"
         \/ RollbackIncomplete(p) /\ pub'[p] = "partial"
         \/ RollbackComplete(p) /\ pub'[p] = "rolledback"
         \/ Commit(p) /\ pub'[p] = "committed"
<1> USE DEF PublishInv, PublishTypeOK, Goto, MidPhases
<1>1. CASE MakeOutputDir(p) \/ InstallFails(p) \/ StartRestore(p) \/ RemoveCreated(p)
  BY <1>1 DEF MakeOutputDir, InstallFails, StartRestore, RemoveCreated
<1>2. CASE MakeOutputDirFails(p) \/ RollbackIncomplete(p)
  BY <1>2 DEF MakeOutputDirFails, RollbackIncomplete
<1>3. CASE RollbackComplete(p) \/ Commit(p)
  BY <1>3 DEF RollbackComplete, Commit
<1>4. ASSUME NEW n \in Names,
             \/ Displace(p, n) \/ Place(p, n) \/ Unlink(p, n)
             \/ UnlinkFails(p, n) \/ Restore(p, n) \/ RestoreFails(p, n)
      PROVE  pub'[p] \in MidPhases
  BY <1>4 DEF Displace, Place, Unlink, UnlinkFails, Restore, RestoreFails
<1> QED BY <1>1, <1>2, <1>3, <1>4 DEF PublishStep

\* A set that has been committed is there, on top of what was found.
LEMMA CommitHasLanded ==
  ASSUME PublishInv, NEW p \in Runs, Ledger(p), Commit(p)
  PROVE  \A n \in Names :
           dir[n] = IF staged[p][n] # Absent THEN staged[p][n] ELSE before[p][n]
<1> SUFFICES ASSUME NEW n \in Names
             PROVE  dir[n] = IF staged[p][n] # Absent THEN staged[p][n]
                                                     ELSE before[p][n]
  OBVIOUS
<1>1. Mid(p) /\ pub[p] = "install" /\ todo[p] = {} /\ Tracks(p)
  BY DEF Commit, Mid, MidPhases, PublishInv
<1>2. half[p] = {} /\ Present(staged[p]) = published[p]
  BY <1>1 DEF Tracks, Ledger
<1>3. Present(backup[p]) \subseteq published[p]
  BY <1>1, <1>2 DEF Ledger
<1> QED BY <1>1, <1>2, <1>3 DEF Ledger, Tracks, Undoes, Present

\* Outside its own names, and outside the ones it would report, a run in the
\* middle of a publish has changed nothing.
LEMMA ReportCovers ==
  ASSUME PublishInv, NEW p \in Runs, Ledger(p), Mid(p)
  PROVE  /\ Reported(p) \subseteq Present(staged[p])
         /\ \A n \in Names \ Reported(p) : dir[n] = before[p][n]
<1>1. Tracks(p)
  BY DEF PublishInv
<1> QED BY <1>1
        DEF Ledger, Tracks, Undoes, Reported, Unrestored, Unremoved, Present

\* Every step of a publish is invisible or answers.
LEMMA StepAnswers ==
  ASSUME WorkingLock, PublishInv, Books, NEW p \in Runs, PublishStep(p)
  PROVE  Install!Next \/ UNCHANGED Install!vars
<1>1. Mid(p) /\ Inside(p)
  BY StepIsMid, MidIsInside
<1>2. /\ UNCHANGED <<before, staged>>
      /\ \A q \in Runs \ {p} :
           /\ pub'[q] = pub[q] /\ published'[q] = published[q]
           /\ backup'[q] = backup[q]
  BY StepKeepsGiven, StepTouchesOwnLists
<1>3. /\ View = before[p]
      /\ View' = IF Mid(p)' THEN before[p] ELSE dir'
  BY <1>1, <1>2, SoleView, SoleViewAfter
<1>4. Report' = [Report EXCEPT ![p] = Report'[p]]
  BY <1>2, OneReport
<1>5. Outcome[p] = "asked" /\ Outcome = [Outcome EXCEPT ![p] = "asked"]
  BY <1>1 DEF Outcome, Mid, MidPhases
<1>6. pub[p] # "partial"
  BY <1>1 DEF Mid, MidPhases
<1>7. Tracks(p) /\ Ledger(p)
  BY DEF PublishInv, Books
<1>8. dir \in Contents /\ before[p] \in Contents /\ staged[p] \in Contents
  BY DEF PublishInv, PublishTypeOK
<1>a. CASE pub'[p] \in MidPhases
  <2>1. Outcome' = [Outcome EXCEPT ![p] = "asked"]
    BY <1>a, <1>2, OneOutcome
  <2>2. UNCHANGED Report
    BY <1>a, <1>4, <1>6, NoReport DEF MidPhases
  <2>3. View' = View
    BY <1>a, <1>3 DEF Mid
  <2> QED BY <1>2, <1>5, <2>1, <2>2, <2>3 DEF Install!vars
<1>b. CASE \/ MakeOutputDirFails(p) /\ pub'[p] = "escaped"
           \/ RollbackComplete(p) /\ pub'[p] = "rolledback"
  <2>1. Outcome' = [Outcome EXCEPT ![p] = "unchanged"]
    BY <1>b, <1>2, OneOutcome
  <2>2. UNCHANGED Report
    BY <1>b, <1>4, <1>6, NoReport
  <2>3. published[p] = {} /\ Present(backup[p]) = {} /\ dir' = dir
    BY <1>b, <1>7
    DEF MakeOutputDirFails, RollbackComplete, Tracks, Ledger, Present, Nothing
  <2>4. View' = View
    BY <1>b, <1>1, <1>3, <2>3, UndoneIsBefore DEF Mid, MidPhases
  <2> QED BY <1>2, <1>5, <2>1, <2>2, <2>4
          DEF Install!Next, Install!Unchanged, Install!Answer
<1>c. CASE Commit(p) /\ pub'[p] = "committed"
  <2>1. Outcome' = [Outcome EXCEPT ![p] = "installed"]
    BY <1>c, <1>2, OneOutcome
  <2>2. UNCHANGED Report
    BY <1>c, <1>4, <1>6, NoReport
  <2>3. /\ pub[p] = "install" /\ todo[p] = {} /\ dir' = dir
        /\ ~Mid(p)'
    BY <1>c DEF Commit, Mid, MidPhases
  <2>4. \A n \in Names :
          dir[n] = IF staged[p][n] # Absent THEN staged[p][n] ELSE before[p][n]
    BY <1>c, <1>7, CommitHasLanded
  <2>5. dir = [n \in Names |-> IF n \in Install!Wanted(p) THEN staged[p][n] ELSE before[p][n]]
    BY <2>4, <1>8 DEF Install!Wanted, Contents
  <2>6. Install!Installed(p)
    BY <1>2, <1>3, <1>5, <2>1, <2>2, <2>3, <2>5
    DEF Install!Installed, Install!Answer
  <2> QED BY <2>6 DEF Install!Next
<1>d. CASE RollbackIncomplete(p) /\ pub'[p] = "partial"
  <2>1. Outcome' = [Outcome EXCEPT ![p] = "damaged"]
    BY <1>d, <1>2, OneOutcome
  <2>2. /\ Reported(p) # {} /\ UNCHANGED <<dir, published, backup>> /\ ~Mid(p)'
    BY <1>d DEF RollbackIncomplete, Mid, MidPhases
  <2>3. Report'[p] = Reported(p)
    BY <1>d, <2>2 DEF Report, Reported, Unrestored, Unremoved, Present
  <2>4. Reported(p) \in (SUBSET Install!Wanted(p)) \ {{}}
    BY <2>2, <1>1, <1>7, ReportCovers DEF Present, Install!Wanted
  <2>5. \A n \in Names \ Reported(p) : dir[n] = before[p][n]
    BY <1>1, <1>7, ReportCovers
  <2>6. Install!AgreeOutside(View', View, Report'[p])
    BY <1>3, <2>2, <2>3, <2>5 DEF Install!AgreeOutside
  <2>7. View' \in Install!Contents
    BY <1>3, <1>8, <2>2 DEF Install!Contents, Contents
  <2>8. Report' = [Report EXCEPT ![p] = Reported(p)]
    BY <1>4, <2>3
  <2>9. Install!Damaged(p)
    BY <1>2, <1>5, <2>1, <2>4, <2>6, <2>7, <2>8
    DEF Install!Damaged, Install!Answer
  <2> QED BY <2>9 DEF Install!Next
<1> QED BY <1>a, <1>b, <1>c, <1>d, StepGoesOnOrEnds

\* A run killed while it publishes may leave any of its own names changed.
LEMMA KillAnswers ==
  ASSUME WorkingLock, PublishInv, Books, NEW p \in Runs, Stop(p)
  PROVE  Install!Stopped(p)
<1>1. Mid(p) /\ Inside(p)
  BY StepIsMid, MidIsInside
<1>2. /\ pub' = [pub EXCEPT ![p] = "killed"]
      /\ UNCHANGED <<dir, staged, published, backup, before>>
  BY DEF Stop, Goto
<1>3. pub'[p] = "killed" /\ \A q \in Runs \ {p} : pub'[q] = pub[q]
  BY <1>2 DEF PublishInv, PublishTypeOK
<1>4. View = before[p] /\ View' = dir
  BY <1>1, <1>2, <1>3, SoleView, SoleViewAfter DEF Mid, MidPhases
<1>5. Outcome' = [Outcome EXCEPT ![p] = "stopped"]
  BY <1>3, OneOutcome
<1>6. Outcome[p] = "asked"
  BY <1>1 DEF Outcome, Mid, MidPhases
<1>7. UNCHANGED Report
  BY <1>1, <1>2, <1>3, OneReport, NoReport DEF Mid, MidPhases
<1>8. Tracks(p) /\ Ledger(p) /\ dir \in Contents
  BY DEF PublishInv, PublishTypeOK, Books
<1>9. Install!AgreeOutside(dir, before[p], Install!Wanted(p))
  BY <1>1, <1>8
  DEF Install!AgreeOutside, Install!Wanted, Tracks, Undoes, Ledger, Present
<1>10. dir \in Install!Contents
  BY <1>8 DEF Install!Contents, Contents
<1> QED BY <1>2, <1>4, <1>5, <1>6, <1>7, <1>9, <1>10
        DEF Install!Stopped, Install!Answer

\* Under a working lock, publishing with renames, a backup directory and a
\* rollback is an atomic installation of the whole set, or of nothing, or a
\* damage confined to the names that are reported, for every number of runs,
\* files and failures.
THEOREM PublishInstallsAtomically ==
  ASSUME WorkingLock
  PROVE  PublishSafeSpec => InstallsAtomically
<1>1. OutputInit => Install!Init
  <2> SUFFICES ASSUME OutputInit PROVE Install!Init
    OBVIOUS
  <2>1. Publishers = {}
    BY DEF OutputInit, PublishInit, Publishers, Mid, MidPhases
  <2>2. View \in Contents
    BY <2>1 DEF View, OutputInit, DirInit
  <2>3. Outcome = [p \in Runs |-> "none"]
    BY DEF OutputInit, PublishInit, Outcome, Mid, MidPhases
  <2>4. Report = [p \in Runs |-> {}]
    BY DEF OutputInit, PublishInit, Report
  <2>5. staged = [p \in Runs |-> [n \in Names |-> Absent]]
    BY DEF OutputInit, PublishInit, Nothing
  <2> QED BY <2>2, <2>3, <2>4, <2>5 DEF Install!Init, Install!Contents, Contents
<1>2. PublishInv /\ Books /\ [PublishNext]_vars => [Install!Next]_(Install!vars)
  <2> SUFFICES ASSUME PublishInv, Books, [PublishNext]_vars
               PROVE  Install!Next \/ UNCHANGED Install!vars
    OBVIOUS
  <2>1. CASE UNCHANGED pubVars
    BY <2>1 DEF pubVars, Install!vars, View, Publishers, Outcome, Report,
                Reported, Unrestored, Unremoved, Present, Mid
  <2>2. ASSUME NEW p \in Runs, Running(p), ~UNCHANGED pubVars
        PROVE  Install!Next \/ UNCHANGED Install!vars
    <3>1. CASE \E set \in StagedSets : PublishBegin(p, set)
      BY <3>1, BeginAsks DEF Install!Next
    <3>2. CASE PublishRefused(p)
      BY <3>2, RefusalDeclines DEF Install!Next
    <3>3. CASE PublishStep(p)
      BY <3>3, StepAnswers
    <3> QED BY <2>2, <3>1, <3>2, <3>3 DEF Running
  <2>3. ASSUME NEW p \in Runs, Killed(p)
        PROVE  Install!Next
    BY <2>3, KillAnswers DEF Killed, Install!Next
  <2> QED BY <2>1, <2>2, <2>3 DEF PublishNext, vars
<1> QED BY <1>1, <1>2, PublishInvariant, BooksInvariant, PTL
        DEF PublishSafeSpec, InstallsAtomically, Install!Spec
=============================================================================
