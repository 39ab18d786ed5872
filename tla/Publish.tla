------------------------------- MODULE Publish -------------------------------
(***************************************************************************)
(* Moving a staged set of manifests into the output directory: cli.py,     *)
(* _publish and _discard_backup, by runs that each take the publish lock   *)
(* first.                                                                  *)
(*                                                                         *)
(* For each staged file the file already at its place, if any, is renamed  *)
(* into a backup directory and the staged one is renamed into the output.  *)
(* An OSError from either rename starts a rollback: unlink what this call  *)
(* published, put back what it displaced.  An operation of the rollback    *)
(* can fail too; what it could not undo is then reported by name and the   *)
(* backup directory is left standing.                                      *)
(*                                                                         *)
(* The output directory is a function from names to contents.  Its path    *)
(* has PathLen components, of which the first `depth` exist; the directory *)
(* itself exists when all do.                                              *)
(***************************************************************************)
EXTENDS PublishLock

CONSTANTS
  Names,      \* names of manifests
  Files,      \* what a name can hold
  Absent,     \* a name that holds nothing
  StagedSets, \* the sets a run may come to publish
  PathLen,    \* components of the output path that may have to be created
  MaxFaults,  \* how many operations may fail with an OSError, over all runs
  MayStop     \* whether a run may be killed or interrupted while publishing

Contents == [Names -> Files \cup {Absent}]

ASSUME PublishAssumption ==
  /\ Absent \notin Files
  /\ StagedSets \subseteq Contents
  /\ PathLen \in Nat
  /\ MaxFaults \in Nat
  /\ MayStop \in BOOLEAN

VARIABLES
  dir,        \* the output directory
  depth,      \* components of its path that exist
  pub,        \* pub[p]: where run p stands in _publish
  staged,     \* staged[p]: the set it was given
  todo,       \* todo[p]: names its current loop has still to visit
  half,       \* half[p]: the name examined and not yet replaced, at most one
  published,  \* published[p]: names now holding what p put there
  backup,     \* backup[p]: what p displaced and has not put back
  kept,       \* kept[p]: p's backup directory exists
  probed,     \* probed[p]: depth when p probed for directories to create
  before,     \* before[p]: history, the directory p found
  faults      \* OSErrors still to come

pubVars ==
  <<dir, depth, pub, staged, todo, half, published, backup, kept, probed,
    before, faults>>

Nothing == [n \in Names |-> Absent]

Present(c) == {n \in Names : c[n] # Absent}

MidPhases == {"mkdir", "install", "unlink", "restore", "tidy"}

PubEnds ==
  {"refused", "escaped", "committed", "rolledback", "partial", "killed"}

PublishTypeOK ==
  /\ dir \in Contents
  /\ depth \in 0 .. PathLen
  /\ pub \in [Runs -> {"idle"} \cup MidPhases \cup PubEnds]
  /\ staged \in [Runs -> Contents]
  /\ todo \in [Runs -> SUBSET Names]
  /\ half \in [Runs -> SUBSET Names]
  /\ published \in [Runs -> SUBSET Names]
  /\ backup \in [Runs -> Contents]
  /\ kept \in [Runs -> BOOLEAN]
  /\ probed \in [Runs -> 0 .. PathLen]
  /\ before \in [Runs -> Contents]
  /\ faults \in 0 .. MaxFaults

\* A directory that does not exist yet holds nothing.
DirInit ==
  /\ dir \in Contents
  /\ depth \in 0 .. PathLen
  /\ depth < PathLen => dir = Nothing

PublishInit ==
  /\ pub = [p \in Runs |-> "idle"]
  /\ staged = [p \in Runs |-> Nothing]
  /\ todo = [p \in Runs |-> {}]
  /\ half = [p \in Runs |-> {}]
  /\ published = [p \in Runs |-> {}]
  /\ backup = [p \in Runs |-> Nothing]
  /\ kept = [p \in Runs |-> FALSE]
  /\ probed = [p \in Runs |-> 0]
  /\ before = [p \in Runs |-> Nothing]
  /\ faults = MaxFaults

-----------------------------------------------------------------------------
Fault == faults > 0 /\ faults' = faults - 1

Inside(p) == lk[p] \in {"held", "unlocked"}

Goto(p, phase) == pub' = [pub EXCEPT ![p] = phase]

\* Probe for missing directories and make the backup directory.
PublishBegin(p, set) ==
  /\ Inside(p)
  /\ pub[p] = "idle"
  /\ staged' = [staged EXCEPT ![p] = set]
  /\ probed' = [probed EXCEPT ![p] = depth]
  /\ kept' = [kept EXCEPT ![p] = TRUE]
  /\ before' = [before EXCEPT ![p] = dir]
  /\ Goto(p, "mkdir")
  /\ UNCHANGED <<dir, depth, todo, half, published, backup, faults>>

\* The backup directory cannot be made: StagingUnavailable.
PublishRefused(p) ==
  /\ Inside(p)
  /\ pub[p] = "idle"
  /\ Fault
  /\ Goto(p, "refused")
  /\ UNCHANGED <<dir, depth, staged, todo, half, published, backup, kept,
                 probed, before>>

\* out_dir.mkdir(parents=True, exist_ok=True).
MakeOutputDir(p) ==
  /\ pub[p] = "mkdir"
  /\ depth' = PathLen
  /\ todo' = [todo EXCEPT ![p] = Present(staged[p])]
  /\ Goto(p, "install")
  /\ UNCHANGED <<dir, staged, half, published, backup, kept, probed, before,
                 faults>>

\* It fails after making some of the parents.  The call is before the try, so
\* the OSError leaves _publish with nothing undone.
MakeOutputDirFails(p) ==
  /\ pub[p] = "mkdir"
  /\ depth < PathLen
  /\ Fault
  /\ depth' \in depth .. PathLen - 1
  /\ Goto(p, "escaped")
  /\ UNCHANGED <<dir, staged, todo, half, published, backup, kept, probed,
                 before>>

\* Mistake: the old file is removed and not moved into the backup.
DisplaceUnkept(p, n) ==
  /\ pub[p] = "install"
  /\ half[p] = {}
  /\ n \in todo[p]
  /\ half' = [half EXCEPT ![p] = {n}]
  /\ dir' = [dir EXCEPT ![n] = Absent]
  /\ UNCHANGED <<depth, pub, staged, todo, published, backup, kept, probed,
                 before, faults>>

\* if target.exists(): os.replace(target, kept)
Displace(p, n) ==
  /\ pub[p] = "install"
  /\ half[p] = {}
  /\ n \in todo[p]
  /\ half' = [half EXCEPT ![p] = {n}]
  /\ backup' = [backup EXCEPT ![p][n] = dir[n]]
  /\ dir' = [dir EXCEPT ![n] = Absent]
  /\ UNCHANGED <<depth, pub, staged, todo, published, kept, probed, before,
                 faults>>

\* Mistake: only a file that replaced another is listed as published.
PlaceUnlisted(p, n) ==
  /\ pub[p] = "install"
  /\ n \in half[p]
  /\ dir' = [dir EXCEPT ![n] = staged[p][n]]
  /\ half' = [half EXCEPT ![p] = {}]
  /\ todo' = [todo EXCEPT ![p] = @ \ {n}]
  /\ published' = [published EXCEPT ![p] =
       IF backup[p][n] # Absent THEN @ \cup {n} ELSE @]
  /\ UNCHANGED <<depth, pub, staged, backup, kept, probed, before, faults>>

\* os.replace(path, target); published.append(target)
Place(p, n) ==
  /\ pub[p] = "install"
  /\ n \in half[p]
  /\ dir' = [dir EXCEPT ![n] = staged[p][n]]
  /\ half' = [half EXCEPT ![p] = {}]
  /\ todo' = [todo EXCEPT ![p] = @ \ {n}]
  /\ published' = [published EXCEPT ![p] = @ \cup {n}]
  /\ UNCHANGED <<depth, pub, staged, backup, kept, probed, before, faults>>

\* Either rename fails: the handler starts unlinking what was published.
InstallFails(p) ==
  /\ pub[p] = "install"
  /\ half[p] # {} \/ \E n \in todo[p] : dir[n] # Absent
  /\ Fault
  /\ half' = [half EXCEPT ![p] = {}]
  /\ todo' = [todo EXCEPT ![p] = published[p]]
  /\ Goto(p, "unlink")
  /\ UNCHANGED <<dir, depth, staged, published, backup, kept, probed, before>>

\* Mistake: the report is built from everything that was published.
UnlinkStillListed(p, n) ==
  /\ pub[p] = "unlink"
  /\ n \in todo[p]
  /\ dir[n] # Absent
  /\ dir' = [dir EXCEPT ![n] = Absent]
  /\ todo' = [todo EXCEPT ![p] = @ \ {n}]
  /\ UNCHANGED <<depth, pub, staged, half, published, backup, kept, probed,
                 before, faults>>

\* target.unlink() for one published file.  A file that is not there any more
\* fails like one that cannot be removed.
Unlink(p, n) ==
  /\ pub[p] = "unlink"
  /\ n \in todo[p]
  /\ dir[n] # Absent
  /\ dir' = [dir EXCEPT ![n] = Absent]
  /\ published' = [published EXCEPT ![p] = @ \ {n}]
  /\ todo' = [todo EXCEPT ![p] = @ \ {n}]
  /\ UNCHANGED <<depth, pub, staged, half, backup, kept, probed, before,
                 faults>>

UnlinkFails(p, n) ==
  /\ pub[p] = "unlink"
  /\ n \in todo[p]
  /\ IF dir[n] = Absent THEN UNCHANGED faults ELSE Fault
  /\ todo' = [todo EXCEPT ![p] = @ \ {n}]
  /\ UNCHANGED <<dir, depth, pub, staged, half, published, backup, kept,
                 probed, before>>

\* Mistake: nothing is put back before everything published is gone.
StartRestoreWhenClean(p) ==
  /\ pub[p] = "unlink"
  /\ todo[p] = {}
  /\ published[p] = {}
  /\ todo' = [todo EXCEPT ![p] = Present(backup[p])]
  /\ Goto(p, "restore")
  /\ UNCHANGED <<dir, depth, staged, half, published, backup, kept, probed,
                 before, faults>>

\* The second loop goes over what was displaced.
StartRestore(p) ==
  /\ pub[p] = "unlink"
  /\ todo[p] = {}
  /\ todo' = [todo EXCEPT ![p] = Present(backup[p])]
  /\ Goto(p, "restore")
  /\ UNCHANGED <<dir, depth, staged, half, published, backup, kept, probed,
                 before, faults>>

\* os.replace(kept, target).  A target that could not be unlinked and is now
\* overwritten by its own backup is no longer this render's.
Restore(p, n) ==
  /\ pub[p] = "restore"
  /\ n \in todo[p]
  /\ dir' = [dir EXCEPT ![n] = backup[p][n]]
  /\ backup' = [backup EXCEPT ![p][n] = Absent]
  /\ published' = [published EXCEPT ![p] = @ \ {n}]
  /\ todo' = [todo EXCEPT ![p] = @ \ {n}]
  /\ UNCHANGED <<depth, pub, staged, half, kept, probed, before, faults>>

RestoreFails(p, n) ==
  /\ pub[p] = "restore"
  /\ n \in todo[p]
  /\ Fault
  /\ todo' = [todo EXCEPT ![p] = @ \ {n}]
  /\ UNCHANGED <<dir, depth, pub, staged, half, published, backup, kept,
                 probed, before>>

\* What PublishRolledBackPartially names once both loops have run.
Unrestored(p) == Present(backup[p])
Unremoved(p) == published[p]
Reported(p) == Unrestored(p) \cup Unremoved(p)

\* Something could not be undone: it is named, and the backup directory stays.
RollbackIncomplete(p) ==
  /\ pub[p] = "restore"
  /\ todo[p] = {}
  /\ Reported(p) # {}
  /\ Goto(p, "partial")
  /\ UNCHANGED <<dir, depth, staged, todo, half, published, backup, kept,
                 probed, before, faults>>

\* shutil.rmtree(backup_dir, ignore_errors=True): a failure is reported by the
\* caller and leaves the directory.
DiscardBackup(p) ==
  /\ \/ kept' = [kept EXCEPT ![p] = FALSE] /\ UNCHANGED faults
     \/ UNCHANGED kept /\ Fault
  /\ backup' = [backup EXCEPT ![p] = Nothing]

\* Mistake: the output directory is removed and its new parents are not.
RemoveLeaf(p) ==
  /\ pub[p] = "restore"
  /\ todo[p] = {}
  /\ Reported(p) = {}
  /\ depth' = IF dir = Nothing /\ probed[p] < depth THEN depth - 1 ELSE depth
  /\ Goto(p, "tidy")
  /\ UNCHANGED <<dir, staged, todo, half, published, backup, kept, probed,
                 before, faults>>

\* Mistake: one directory too many is removed.
RemoveParentToo(p) ==
  /\ pub[p] = "restore"
  /\ todo[p] = {}
  /\ Reported(p) = {}
  /\ depth' = IF dir = Nothing THEN probed[p] - 1 ELSE depth
  /\ Goto(p, "tidy")
  /\ UNCHANGED <<dir, staged, todo, half, published, backup, kept, probed,
                 before, faults>>

\* Everything is undone.  rmdir of each directory this call created, the
\* deepest first, failures suppressed; a directory that holds something stays,
\* and so do its parents.
RemoveCreated(p) ==
  /\ pub[p] = "restore"
  /\ todo[p] = {}
  /\ Reported(p) = {}
  /\ \/ /\ depth' = IF dir = Nothing THEN probed[p] ELSE depth
        /\ UNCHANGED faults
     \/ /\ dir = Nothing
        /\ Fault
        /\ depth' \in probed[p] + 1 .. depth
  /\ Goto(p, "tidy")
  /\ UNCHANGED <<dir, staged, todo, half, published, backup, kept, probed,
                 before>>

RollbackComplete(p) ==
  /\ pub[p] = "tidy"
  /\ DiscardBackup(p)
  /\ Goto(p, "rolledback")
  /\ UNCHANGED <<dir, depth, staged, todo, half, published, probed, before>>

\* The whole set has landed.
Commit(p) ==
  /\ pub[p] = "install"
  /\ todo[p] = {}
  /\ DiscardBackup(p)
  /\ Goto(p, "committed")
  /\ UNCHANGED <<dir, depth, staged, todo, half, published, probed, before>>

\* A signal or KeyboardInterrupt between two operations.  Only OSError starts
\* the rollback.
Stop(p) ==
  /\ MayStop
  /\ pub[p] \in MidPhases
  /\ Goto(p, "killed")
  /\ UNCHANGED <<dir, depth, staged, todo, half, published, backup, kept,
                 probed, before, faults>>

PublishStep(p) ==
  \/ MakeOutputDir(p) \/ MakeOutputDirFails(p) \/ InstallFails(p)
  \/ \E n \in Names :
       \/ Displace(p, n) \/ Place(p, n)
       \/ Unlink(p, n) \/ UnlinkFails(p, n)
       \/ Restore(p, n) \/ RestoreFails(p, n)
  \/ StartRestore(p) \/ RollbackIncomplete(p)
  \/ RemoveCreated(p) \/ RollbackComplete(p) \/ Commit(p)

-----------------------------------------------------------------------------
\* A run: take the lock, publish once, leave.
Running(p) ==
  \/ LockAcquire(p) /\ UNCHANGED pubVars
  \/ (\E set \in StagedSets : PublishBegin(p, set)) /\ UNCHANGED lockVars
  \/ (PublishRefused(p) \/ PublishStep(p)) /\ UNCHANGED lockVars
  \/ pub[p] \in PubEnds \ {"killed"} /\ Release(p) /\ UNCHANGED pubVars

Killed(p) == Stop(p) /\ DieLocked(p)

PublishNext ==
  \/ Tick /\ UNCHANGED pubVars
  \/ \E p \in Runs : Running(p) \/ Killed(p)

vars == <<lockVars, pubVars>>

OutputInit == LockInit /\ DirInit /\ PublishInit

PublishSafeSpec == OutputInit /\ [][PublishNext]_vars

\* A publishing run keeps executing; errors and signals need not come.
PublishFairness ==
  \A p \in Runs : WF_vars(PublishStep(p) /\ UNCHANGED lockVars)

PublishSpec == PublishSafeSpec /\ PublishFairness

-----------------------------------------------------------------------------
Mid(p) == pub[p] \in MidPhases

\* What the directory would be if everything p has done so far were undone from
\* its backup directory and its list of published files.
Undo(p) ==
  [n \in Names |-> IF backup[p][n] # Absent THEN backup[p][n]
                   ELSE IF n \in published[p] THEN Absent
                   ELSE dir[n]]

\* At every point of a publish, between any two renames and also half-way
\* through the rollback, what was there before can be rebuilt from the
\* directory, the backup and the list of published files: "the backup is the
\* only place they still exist".
Recoverable == \A p \in Runs : Mid(p) => Undo(p) = before[p]

\* One failed operation never damages the directory: a rollback that starts
\* because of one completes, unless a second operation fails.
OneFaultIsUndone ==
  \A p \in Runs : pub[p] = "partial" => MaxFaults - faults >= 2

\* Leaving no directory behind: the output path exists to the depth the run
\* found it, unless a second operation failed.
DepthRestored(p) == MaxFaults - faults' <= 1 => depth' = probed[p]

\* A publish that was rolled back has removed every directory it created, while
\* at most one operation of the behaviour failed.
RollbackRemovesDirs ==
  [][\A p \in Runs : Mid(p) /\ pub'[p] = "rolledback" => DepthRestored(p)]_vars

\* A publish that has started ends, however many of its operations fail.
PublishEnds == \A p \in Runs : Mid(p) ~> ~Mid(p)

Publishers == {p \in Runs : Mid(p)}

\* The directory as the other runs are allowed to see it: while one run is
\* publishing, what that run found.
View ==
  IF Publishers = {} THEN dir ELSE before[CHOOSE p \in Publishers : TRUE]

Outcome ==
  [p \in Runs |->
     CASE pub[p] = "idle" -> "none"
       [] Mid(p) -> "asked"
       [] pub[p] = "committed" -> "installed"
       [] pub[p] \in {"refused", "escaped", "rolledback"} -> "unchanged"
       [] pub[p] = "partial" -> "damaged"
       [] OTHER -> "stopped"]

Report == [p \in Runs |-> IF pub[p] = "partial" THEN Reported(p) ELSE {}]

Install == INSTANCE AtomicInstall
  WITH view <- View, outcome <- Outcome, want <- staged, report <- Report

\* Under a working lock, publishing with renames, a backup and a rollback is an
\* atomic installation of the whole set, or nothing, or a damage confined to
\* the names that are reported.
InstallsAtomically == Install!Spec
=============================================================================
