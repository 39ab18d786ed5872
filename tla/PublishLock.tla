----------------------------- MODULE PublishLock -----------------------------
(***************************************************************************)
(* The advisory lock every command that writes an output directory takes   *)
(* around reading and changing it: cli.py, _publish_lock.                  *)
(*                                                                         *)
(* A run is one process executing one render command.  It derives a lock   *)
(* file from the output path (or --lock-key), opens it, and polls          *)
(* flock(LOCK_EX | LOCK_NB) until it is granted, until its own deadline    *)
(* passes, or until the kernel answers something that is not contention.   *)
(* The descriptor is closed when the command ends and when the process     *)
(* dies, and closing it is what frees the lock.                            *)
(***************************************************************************)
EXTENDS Naturals

CONSTANTS
  Runs,         \* the processes
  Locks,        \* the lock files
  LockFile,     \* the lock file publish_lock_path gives each run
  NoRun,        \* "nobody holds it"
  Stalled,      \* the runs that may hang while holding the lock
  LockTimeout,  \* --lock-timeout of each run, in ticks
  HoldBudget,   \* the longest a run that does not hang holds the lock, in ticks
  LockSupport   \* what flock answers on this filesystem, see Unsupported

ASSUME LockAssumption ==
  /\ NoRun \notin Runs
  /\ LockFile \in [Runs -> Locks]
  /\ Stalled \subseteq Runs
  /\ LockTimeout \in [Runs -> Nat]
  /\ HoldBudget \in Nat
  /\ LockSupport \in {"works", "transient", "none"}

VARIABLES
  holder,   \* holder[l]: the run the kernel has granted lock file l to
  lk,       \* lk[p]: where run p stands with the lock
  waited,   \* waited[p]: ticks since p started polling, up to its timeout
  age       \* age[p]: ticks p has held the lock, up to HoldBudget

lockVars == <<holder, lk, waited, age>>

LockPhases ==
  {"out", "waiting", "held", "unlocked", "refused", "released", "dead"}

LockTypeOK ==
  /\ holder \in [Locks -> Runs \cup {NoRun}]
  /\ lk \in [Runs -> LockPhases]
  /\ \A p \in Runs : waited[p] \in 0 .. LockTimeout[p]
  /\ waited \in [Runs -> Nat]
  /\ age \in [Runs -> 0 .. HoldBudget]

LockInit ==
  /\ holder = [l \in Locks |-> NoRun]
  /\ lk = [p \in Runs |-> "out"]
  /\ waited = [p \in Runs |-> 0]
  /\ age = [p \in Runs |-> 0]

-----------------------------------------------------------------------------
Enter(p, phase) == lk' = [lk EXCEPT ![p] = phase]

\* The lock directory is safe and the file opens: p starts polling.
OpenLock(p) ==
  /\ lk[p] = "out"
  /\ Enter(p, "waiting")
  /\ UNCHANGED <<holder, waited, age>>

\* An unsafe or unreadable lock directory, a file that cannot be opened or is
\* not a regular file: PublishLockUnavailable before any flock.
LockUnopenable(p) ==
  /\ lk[p] = "out"
  /\ Enter(p, "refused")
  /\ UNCHANGED <<holder, waited, age>>

\* Mistake: a shared lock instead of an exclusive one.
GrantShared(p) ==
  /\ lk[p] = "waiting"
  /\ LockSupport # "none"
  /\ holder' = [holder EXCEPT ![LockFile[p]] = p]
  /\ Enter(p, "held")
  /\ UNCHANGED <<waited, age>>

\* flock succeeds.
Grant(p) ==
  /\ lk[p] = "waiting"
  /\ LockSupport # "none"
  /\ holder[LockFile[p]] = NoRun
  /\ holder' = [holder EXCEPT ![LockFile[p]] = p]
  /\ Enter(p, "held")
  /\ UNCHANGED <<waited, age>>

\* Mistake: the deadline is rounded down to the poll before it.
TimeoutEarly(p) ==
  /\ lk[p] = "waiting"
  /\ holder[LockFile[p]] # NoRun
  /\ waited[p] + 1 >= LockTimeout[p]
  /\ Enter(p, "refused")
  /\ UNCHANGED <<holder, waited, age>>

\* Mistake: a deadline no clock reaches, as --lock-timeout nan would make.
TimeoutNever(p) ==
  /\ lk[p] = "waiting"
  /\ holder[LockFile[p]] # NoRun
  /\ waited[p] > LockTimeout[p]
  /\ Enter(p, "refused")
  /\ UNCHANGED <<holder, waited, age>>

\* flock answers EWOULDBLOCK and the deadline has passed.  Before the deadline
\* the loop sleeps and tries again, which changes nothing here.
Timeout(p) ==
  /\ lk[p] = "waiting"
  /\ holder[LockFile[p]] # NoRun
  /\ waited[p] >= LockTimeout[p]
  /\ Enter(p, "refused")
  /\ UNCHANGED <<holder, waited, age>>

\* flock answers one of _LOCK_UNSUPPORTED_ERRNOS, or there is no fcntl.  A
\* filesystem that cannot lock at all ("none") always answers so.  ENOLCK is
\* also what a kernel short of lock records answers now and then on one that
\* can ("transient").
Unsupported(p) == lk[p] = "waiting" /\ LockSupport # "works"

\* The lint gate refuses to run then; the other writers go on without the lock.
RefuseUnsupported(p) ==
  /\ Unsupported(p)
  /\ Enter(p, "refused")
  /\ UNCHANGED <<holder, waited, age>>

GoOnUnlocked(p) ==
  /\ Unsupported(p)
  /\ Enter(p, "unlocked")
  /\ UNCHANGED <<holder, waited, age>>

\* Any errno that is neither contention nor in that list.
OtherErrno(p) ==
  /\ lk[p] = "waiting"
  /\ Enter(p, "refused")
  /\ UNCHANGED <<holder, waited, age>>

Vacated(p) == [l \in Locks |-> IF holder[l] = p THEN NoRun ELSE holder[l]]

\* The with-block ends, normally or by an exception.
Release(p) ==
  /\ lk[p] \in {"held", "unlocked"}
  /\ holder' = Vacated(p)
  /\ Enter(p, "released")
  /\ UNCHANGED <<waited, age>>

\* Mistake: the lock is the existence of the file, which a dead run leaves.
DieLeavingLock(p) ==
  /\ lk[p] \in {"waiting", "held", "unlocked"}
  /\ Enter(p, "dead")
  /\ UNCHANGED <<holder, waited, age>>

\* The process is killed; the kernel closes its descriptors.
DieLocked(p) ==
  /\ lk[p] \in {"waiting", "held", "unlocked"}
  /\ holder' = Vacated(p)
  /\ Enter(p, "dead")
  /\ UNCHANGED <<waited, age>>

Overdue(p) == lk[p] = "held" /\ p \notin Stalled /\ age[p] = HoldBudget

Pollable(p) == lk[p] = "waiting" /\ holder[LockFile[p]] = NoRun

\* Mistake: a wait that is not bounded by its own deadline.
TickPastDeadline ==
  /\ waited' = [p \in Runs |->
       IF lk[p] = "waiting" THEN waited[p] + 1 ELSE waited[p]]
  /\ UNCHANGED <<holder, lk, age>>

\* Time passes.  It does not pass a healthy holder's budget before the holder
\* has released, which is what makes the holder healthy; and a tick is longer
\* than the 0.2 s a poller sleeps, so a free lock is tried before the next one.
Tick ==
  /\ \A p \in Runs : ~Overdue(p) /\ ~Pollable(p)
  /\ waited' = [p \in Runs |->
       IF lk[p] = "waiting" /\ waited[p] < LockTimeout[p]
       THEN waited[p] + 1 ELSE waited[p]]
  /\ age' = [p \in Runs |->
       IF lk[p] = "held" /\ age[p] < HoldBudget THEN age[p] + 1 ELSE age[p]]
  /\ UNCHANGED <<holder, lk>>

Attempt(p) == Grant(p) \/ Timeout(p)

\* Everything _publish_lock does before the with-block is entered or refused.
LockAcquire(p) ==
  \/ OpenLock(p) \/ LockUnopenable(p)
  \/ Attempt(p) \/ RefuseUnsupported(p) \/ GoOnUnlocked(p) \/ OtherErrno(p)

LockStep(p) == LockAcquire(p) \/ Release(p) \/ DieLocked(p)

LockNext == Tick \/ \E p \in Runs : LockStep(p)

LockSafeSpec == LockInit /\ [][LockNext]_lockVars

\* A poller keeps polling (the loop has no other exit) and time passes.  A run
\* outside Stalled gets out of the with-block.  Nothing is assumed of a stalled
\* one, nor that any error or death ever comes.
LockFairness ==
  /\ WF_lockVars(Tick)
  /\ \A p \in Runs : WF_lockVars(Attempt(p))
  /\ \A p \in Runs \ Stalled : WF_lockVars(Release(p))

LockSpec == LockSafeSpec /\ LockFairness

-----------------------------------------------------------------------------
\* Two runs never hold one lock file at a time: "a lock held by only some of a
\* directory's writers is not a lock on the directory" (cmd_render_kueue).
LockMutex ==
  \A p, q \in Runs :
    lk[p] = "held" /\ lk[q] = "held" /\ LockFile[p] = LockFile[q] => p = q

\* A lock file never outlives its holder as a lock: whoever the kernel records
\* is a run still inside the with-block.  An earlier revision "turned a race
\* into a lockout" by reading an old file as a holder.
NoLockout ==
  \A l \in Locks : holder[l] # NoRun =>
    /\ lk[holder[l]] = "held"
    /\ LockFile[holder[l]] = l

\* The other direction, needed for LockMutex to be inductive: a run that holds
\* its lock is the one recorded for it.
HolderRecorded ==
  \A p \in Runs : lk[p] = "held" => holder[LockFile[p]] = p

LockInv == LockTypeOK /\ NoLockout /\ HolderRecorded

\* The default timeout is "long enough to outlast the thing the lock is held
\* across": while at most one other run wants the same lock file and it is
\* healthy, a wait longer than one hold is never given up.
SecondWriterIsServed ==
  [][\A p \in Runs :
       LET Rivals == {q \in Runs \ {p} : LockFile[q] = LockFile[p]} IN
       /\ Timeout(p)
       /\ LockTimeout[p] > HoldBudget
       /\ Rivals \cap Stalled = {}
       => \E q, r \in Rivals : q # r]_lockVars

\* A wait ends whatever the holder does, also when it hangs for ever: the loop
\* is bounded by its own deadline and not by the holder.
WaitEnds == \A p \in Runs : lk[p] = "waiting" ~> lk[p] # "waiting"
=============================================================================
