--------------------------- MODULE RenderCommands ---------------------------
(***************************************************************************)
(* The commands that write an output directory, run concurrently:          *)
(*   gate    render-argo --argo-lint   (_render_argo_with_lint_gate)       *)
(*   argo    render-argo               (cmd_render_argo)                   *)
(*   kueue   render-kueue              (cmd_render_kueue)                  *)
(*                                                                         *)
(* Each run is one command, described by its job: its kind, the set of     *)
(* manifests its plan renders to, who it renders for, and --prune.  The    *)
(* lock is PublishLock's, the publish step is Publish's, and whose a file  *)
(* is comes from Ownership.  The gate lints a copy of what the directory   *)
(* will hold, and publishes only if the linter accepts it.                 *)
(*                                                                         *)
(* A manifest carries, beside what Ownership reads, what the gate's checks *)
(* would say of it: lint is "ok", "malformed" (_unreadable_documents),     *)
(* "rejected" (argo lint exits non-zero) or "skipped" (argo logs that it   *)
(* could not read the file and, with another one beside it, exits 0).      *)
(* The first two are what the checks say of a file, the third is what the  *)
(* exit status of argo says of the set, the last is only in its output.    *)
(***************************************************************************)
EXTENDS Publish, Ownership

CONSTANTS
  Jobs,     \* what a run may be asked to do
  Starts    \* what the directory may hold before the first run

VARIABLES
  job,      \* job[p]: the command line and the plan of run p
  pc,       \* pc[p]: the phase the command is in
  tolint,   \* tolint[p]: the gate's staging directory
  left,     \* left[p]: names the current loop has still to visit
  verdict,  \* verdict[p]: the verdict the run has reached, if any
  exit,     \* exit[p]: the exit code
  said,     \* said[p]: what the report says became of the directory
  judged,   \* judged[p]: history, the set the linter accepted or rejected
  found     \* found[p]: history, the directory when p entered the lock

runVars == <<job, pc, tolint, left, verdict, exit, said, judged, found>>

allVars == <<lockVars, pubVars, runVars>>

\* What of _publish's own state no other phase changes.
publishing ==
  <<pub, staged, todo, half, published, backup, kept, probed, before>>

Kinds == {"gate", "argo", "kueue"}

\* What lstat and the gate's checks can say of a directory entry.
ASSUME EntriesAssumption ==
  \A f \in Files : /\ f.entry \in {"file", "link", "other"}
                   /\ f.lint \in {"ok", "malformed", "rejected", "skipped"}

\* Every document of a rendered manifest carries the labels of its mission or,
\* in the cluster-scoped bundle, those of the installation.
StampedBy(f, r) ==
  f.entry = "file" /\ f.docs \in {{MissionDoc(r)}, {BundleDoc(r)}}

\* A job is one command line and the plan it names.  Only render-kueue looks
\* for cluster-scoped artifacts.
ASSUME JobsAssumption ==
  /\ \A j \in Jobs :
       /\ j.kind \in Kinds /\ j.set \in Contents /\ j.prune \in BOOLEAN
       /\ \A n \in Present(j.set) : StampedBy(j.set[n], j.render)
       /\ j.kind = "gate" => ~j.render.seesUnmissioned
  /\ Starts \subseteq Contents

Phases ==
  {"load", "stage", "policy", "resolve", "lock", "list", "copy", "drop",
   "mkdir", "preflight", "kstage", "publish", "write", "scan", "prune",
   "done", "dead"}

NoExit == 9

RenderTypeOK ==
  /\ job \in [Runs -> Jobs]
  /\ pc \in [Runs -> Phases]
  /\ tolint \in [Runs -> Contents]
  /\ left \in [Runs -> SUBSET Names]
  /\ verdict \in [Runs -> {"none", "invalid", "denied", "rejected", "passed"}]
  /\ exit \in [Runs -> {0, 1, 2, NoExit}]
  /\ said \in [Runs -> {"running", "traceback", "unchanged", "rolledback",
                        "modified", "done"}]
  /\ judged \in [Runs -> Contents]
  /\ found \in [Runs -> Contents]

RenderInit ==
  /\ LockInit
  /\ PublishInit
  /\ dir \in Starts
  /\ depth \in {PathLen} \cup (IF dir = Nothing THEN 0 .. PathLen ELSE {})
  /\ job \in [Runs -> Jobs]
  /\ pc = [p \in Runs |-> "load"]
  /\ tolint = [p \in Runs |-> Nothing]
  /\ left = [p \in Runs |-> {}]
  /\ verdict = [p \in Runs |-> "none"]
  /\ exit = [p \in Runs |-> NoExit]
  /\ said = [p \in Runs |-> "running"]
  /\ judged = [p \in Runs |-> Nothing]
  /\ found = [p \in Runs |-> Nothing]

-----------------------------------------------------------------------------
Rendered(p) == job[p].set

Holds(c, word) == \E n \in Present(c) : c[n].lint = word

\* The command goes on to another phase.
Step(p, phase) ==
  /\ pc' = [pc EXCEPT ![p] = phase]
  /\ UNCHANGED <<job, exit, said>>

\* SystemExit, or an exception main does not catch, or the end: the with-blocks
\* and the finally clauses close the lock.
End(p, code, claim) ==
  /\ pc' = [pc EXCEPT ![p] = "done"]
  /\ exit' = [exit EXCEPT ![p] = code]
  /\ said' = [said EXCEPT ![p] = claim]
  /\ UNCHANGED <<job, tolint, left, judged, found>>

LeaveLock(p) == IF Inside(p) THEN Release(p) ELSE UNCHANGED lockVars

Exit(p, code, claim) == End(p, code, claim) /\ LeaveLock(p)

Decide(p, v) == verdict' = [verdict EXCEPT ![p] = v]

\* An exit before or without any change to the directory.
Refuse(p, code) == Exit(p, code, "unchanged") /\ UNCHANGED <<verdict, pubVars>>

\* One operation fails with an OSError and the command reports exit code.
FailWith(p, code, claim) ==
  /\ Fault
  /\ Exit(p, code, claim)
  /\ UNCHANGED <<verdict, dir, depth, publishing>>

-----------------------------------------------------------------------------
\* load_mission_plan, before anything else.
LoadPlan(p) ==
  /\ pc[p] = "load"
  /\ Step(p, CASE job[p].kind = "gate" -> "stage"
               [] job[p].kind = "argo" -> "lock"
               [] job[p].kind = "kueue" -> "policy")
  /\ UNCHANGED <<lockVars, pubVars, tolint, left, verdict, judged, found>>

\* Mistake: an unreadable plan gets a code of its own.
BadPlanCodeThree(p) ==
  /\ pc[p] = "load"
  /\ \/ Refuse(p, 3)
     \/ /\ Decide(p, "invalid")
        /\ Exit(p, 1, "unchanged")
        /\ UNCHANGED pubVars

\* MissionPlanInvalid is a verdict, MissionPlanUnreadable is not.
BadPlan(p) ==
  /\ pc[p] = "load"
  /\ \/ Refuse(p, 2)
     \/ /\ Decide(p, "invalid")
        /\ Exit(p, 1, "unchanged")
        /\ UNCHANGED pubVars

\* The gate's staging directory, beside the output.
MakeStaging(p) ==
  /\ pc[p] = "stage"
  /\ Step(p, "policy")
  /\ UNCHANGED <<lockVars, pubVars, tolint, left, verdict, judged, found>>

StagingUnavailable(p) == pc[p] = "stage" /\ FailWith(p, 2, "unchanged")

\* enforce_policy_or_raise accepts, and the manifests are rendered: by the gate
\* into its staging directory, by render-kueue in memory.  A gate that renders
\* nothing and prunes goes straight to the lock and needs no linter.
PolicyAllows(p) ==
  /\ pc[p] = "policy"
  /\ LET reconciling == Present(Rendered(p)) = {} /\ job[p].prune IN
     Step(p, CASE job[p].kind = "gate" -> IF reconciling THEN "lock" ELSE "resolve"
               [] job[p].kind = "argo" -> "mkdir"
               [] job[p].kind = "kueue" -> "lock")
  /\ tolint' = IF job[p].kind = "gate"
               THEN [tolint EXCEPT ![p] = Rendered(p)] ELSE tolint
  /\ UNCHANGED <<lockVars, pubVars, left, verdict, judged, found>>

\* PolicyViolationError, or no usable decision.
PolicyRefuses(p) ==
  /\ pc[p] = "policy"
  /\ \/ Refuse(p, 2)
     \/ /\ Decide(p, "denied")
        /\ Exit(p, 1, "unchanged")
        /\ UNCHANGED pubVars

\* The gate cannot write a manifest into its staging directory: an OSError no
\* handler of the gate or of main catches.
RenderFails(p) ==
  pc[p] = "policy" /\ job[p].kind = "gate" /\ FailWith(p, 1, "traceback")

\* The ValueError of a renderer that has a manifest to write: a priority no
\* class has, where no policy was asked, or annotations the API server would
\* refuse.  Nothing above it catches one.  render-argo has made its output
\* directory by then.
RendererRaises(p) ==
  /\ pc[p] = IF job[p].kind = "argo" THEN "preflight" ELSE "policy"
  /\ Present(Rendered(p)) # {}
  /\ Exit(p, 1, "traceback")
  /\ UNCHANGED <<verdict, pubVars>>

\* resolve_argo_bin, then the check for an empty render.
ResolveArgo(p) ==
  /\ pc[p] = "resolve"
  /\ Present(Rendered(p)) # {}
  /\ Step(p, "lock")
  /\ UNCHANGED <<lockVars, pubVars, tolint, left, verdict, judged, found>>

NothingToLint(p) ==
  pc[p] = "resolve" /\ Present(Rendered(p)) = {} /\ Refuse(p, 2)

ArgoMissing(p) == pc[p] = "resolve" /\ Refuse(p, 2)

-----------------------------------------------------------------------------
\* The publish lock.  Inside it, an empty gate render has only the stale
\* artifacts to see to.
WaitForLock(p) ==
  /\ pc[p] = "lock"
  /\ OpenLock(p)
  /\ UNCHANGED <<pubVars, runVars>>

Entered(p) ==
  /\ Step(p, CASE job[p].kind = "gate" ->
                    IF Present(Rendered(p)) = {} THEN "scan" ELSE "list"
               [] job[p].kind = "argo" -> "policy"
               [] job[p].kind = "kueue" -> "preflight")
  /\ found' = [found EXCEPT ![p] = dir]
  /\ UNCHANGED <<pubVars, tolint, left, verdict, judged>>

\* Mistake: the gate goes on without the lock like the other writers.
EnterLockOrNot(p) ==
  /\ pc[p] = "lock"
  /\ Grant(p) \/ GoOnUnlocked(p)
  /\ Entered(p)

\* Mistake: contention is taken for a filesystem without locks.
EnterLockRegardless(p) ==
  /\ pc[p] = "lock"
  /\ \/ Grant(p)
     \/ /\ job[p].kind # "gate"
        /\ lk[p] = "waiting"
        /\ Enter(p, "unlocked")
        /\ UNCHANGED <<holder, waited, age>>
  /\ Entered(p)

EnterLock(p) ==
  /\ pc[p] = "lock"
  /\ Grant(p) \/ (job[p].kind # "gate" /\ GoOnUnlocked(p))
  /\ Entered(p)

LockRefused(p) ==
  /\ pc[p] = "lock"
  /\ End(p, 2, "unchanged")
  /\ UNCHANGED <<verdict, pubVars>>

LockTimesOut(p) == Timeout(p) /\ LockRefused(p)

LockErrs(p) ==
  /\ \/ LockUnopenable(p)
     \/ OtherErrno(p)
     \/ job[p].kind = "gate" /\ RefuseUnsupported(p)
  /\ LockRefused(p)

-----------------------------------------------------------------------------
\* A managed file whose renderer, scope or schema label cannot be put in a set.
Raising(names) ==
  \E n \in names :
    /\ dir[n] # Absent
    /\ IsRenderedArtifact(dir[n])
    /\ ArtifactMission(dir[n]).owner = "raises"

\* Whether one is among the files whose ownership the next step asks for: what
\* may be stale, in the gate's listing and in the scan, or what is in the way.
Trips(p) ==
  \/ pc[p] = "list" /\ job[p].prune /\ Raising(Names \ Present(Rendered(p)))
  \/ pc[p] = "preflight" /\ Raising(Present(Rendered(p)))
  \/ pc[p] = "scan" /\ Raising(Names \ Present(Rendered(p)))

\* The TypeError of _artifact_mission, which no command and no handler of the
\* gate catches: exit 1, wherever the run has got to.
UnhashableLabel(p) ==
  /\ Trips(p)
  /\ Exit(p, 1, "traceback")
  /\ UNCHANGED <<verdict, pubVars>>

\* Mistake: only the render itself is linted.
ListNothing(p) ==
  /\ pc[p] = "list"
  /\ ~Trips(p)
  /\ left' = [left EXCEPT ![p] = {}]
  /\ Step(p, "copy")
  /\ UNCHANGED <<lockVars, pubVars, tolint, verdict, judged, found>>

\* The gate lists the manifests in the output, less the ones it replaces and
\* the ones --prune is about to remove.  An output that does not exist yet
\* holds none.
ListOutput(p) ==
  /\ pc[p] = "list"
  /\ ~Trips(p)
  /\ left' = [left EXCEPT ![p] =
       {n \in Present(dir) \ Present(Rendered(p)) :
          ~(job[p].prune /\ IsLeaving(dir[n], job[p].render))}]
  /\ Step(p, "copy")
  /\ UNCHANGED <<lockVars, pubVars, tolint, verdict, judged, found>>

\* The rest of the listing is read one entry at a time: a symbolic link is
\* refused, what is not a regular file or is gone by now is skipped, a regular
\* file is copied into staging to be linted with the render.
CopyForLint(p, n) ==
  /\ pc[p] = "copy"
  /\ n \in left[p]
  /\ dir[n] # Absent => dir[n].entry # "link"
  /\ tolint' = [tolint EXCEPT ![p][n] =
       IF dir[n] # Absent /\ dir[n].entry = "file" THEN dir[n] ELSE Absent]
  /\ left' = [left EXCEPT ![p] = @ \ {n}]
  /\ UNCHANGED <<lockVars, pubVars, job, pc, verdict, exit, said, judged,
                 found>>

SymlinkedManifest(p, n) ==
  /\ pc[p] = "copy"
  /\ n \in left[p]
  /\ dir[n] # Absent /\ dir[n].entry = "link"
  /\ Refuse(p, 2)

SnapshotFails(p) ==
  /\ \/ pc[p] = "list" /\ depth = PathLen
     \/ pc[p] = "copy" /\ left[p] # {}
  /\ FailWith(p, 2, "unchanged")

SomeLint(p, word) == Holds(tolint[p], word)

Copied(p) == pc[p] = "copy" /\ left[p] = {}

\* _unreadable_documents finds a document kubectl would refuse.
SyntaxRejects(p) ==
  /\ Copied(p)
  /\ SomeLint(p, "malformed")
  /\ Decide(p, "rejected")
  /\ Exit(p, 1, "unchanged")
  /\ UNCHANGED pubVars

\* The staging directory cannot be listed again, which nothing catches, or one
\* of the staged files cannot be read, which counts as a document kubectl would
\* refuse.
StagedUnreadable(p) ==
  /\ Copied(p)
  /\ \/ FailWith(p, 1, "traceback")
     \/ /\ Present(tolint[p]) # {}
        /\ Fault
        /\ Decide(p, "rejected")
        /\ Exit(p, 1, "unchanged")
        /\ UNCHANGED <<dir, depth, publishing>>

\* ArgoLintUnavailable: a document that cannot be held or parsed in the stack,
\* or a linter that times out, is killed, or exits with no verdict.
LinterSilent(p) == Copied(p) /\ Refuse(p, 2)

\* argo lint answers, about the files in staging.
LintAnswers(p) ==
  /\ Copied(p)
  /\ ~SomeLint(p, "malformed")
  /\ Decide(p, IF SomeLint(p, "rejected") THEN "rejected" ELSE "passed")
  /\ judged' = [judged EXCEPT ![p] = tolint[p]]
  /\ Step(p, "drop")
  /\ UNCHANGED <<lockVars, pubVars, tolint, left, found>>

\* Mistake: exit 0 is taken for acceptance of every file.
ExitStatusAlone(p) ==
  /\ pc[p] = "drop"
  /\ tolint' = [tolint EXCEPT ![p] = Rendered(p)]
  /\ verdict[p] = "passed"
  /\ Step(p, "preflight")
  /\ UNCHANGED <<lockVars, verdict, pubVars, left, judged, found>>

\* The carried copies are removed from staging again; then the verdict counts,
\* and a file that was skipped turns an exit 0 into a rejection.
DropCarried(p) ==
  /\ pc[p] = "drop"
  /\ tolint' = [tolint EXCEPT ![p] = Rendered(p)]
  /\ IF verdict[p] = "passed" /\ ~SomeLint(p, "skipped")
     THEN Step(p, "preflight") /\ UNCHANGED <<lockVars, verdict>>
     ELSE /\ Decide(p, "rejected")
          /\ pc' = [pc EXCEPT ![p] = "done"]
          /\ exit' = [exit EXCEPT ![p] = 1]
          /\ said' = [said EXCEPT ![p] = "unchanged"]
          /\ UNCHANGED job
          /\ LeaveLock(p)
  /\ UNCHANGED <<pubVars, left, judged, found>>

\* Mistake: a cleanup that failed hides the verdict.
DropFailsFirst(p) ==
  pc[p] = "drop" /\ tolint[p] # Rendered(p) /\ FailWith(p, 2, "unchanged")

\* They cannot be.  What decides the exit code here is the linter's exit status:
\* the skipped files are looked for only afterwards.
DropFails(p) ==
  /\ pc[p] = "drop"
  /\ tolint[p] # Rendered(p)
  /\ FailWith(p, IF verdict[p] = "passed" THEN 2 ELSE 1, "unchanged")

-----------------------------------------------------------------------------
\* Mistake: only links are in the way.
AllUnlinked(p) ==
  \A n \in Present(Rendered(p)) : dir[n] # Absent => dir[n].entry # "link"

\* preflight_writable, on the entries at the names this run is about to write.
AllWritable(p) ==
  \A n \in Present(Rendered(p)) :
    dir[n] # Absent => IsWritable(dir[n], Rendered(p)[n])

Preflight(p) ==
  /\ pc[p] = "preflight"
  /\ AllWritable(p)
  /\ Step(p, CASE job[p].kind = "gate" -> "publish"
               [] job[p].kind = "argo" -> "write"
               [] job[p].kind = "kueue" -> "kstage")
  /\ left' = [left EXCEPT ![p] = Present(Rendered(p))]
  /\ UNCHANGED <<lockVars, pubVars, tolint, verdict, judged, found>>

\* The ValueError is reported by the gate and by render-kueue; render-argo lets
\* it out as a traceback.
NotOwned(p) ==
  /\ pc[p] = "preflight"
  /\ ~AllWritable(p)
  /\ ~Trips(p)
  /\ IF job[p].kind = "argo" THEN Exit(p, 1, "traceback")
                             ELSE Exit(p, 2, "unchanged")
  /\ UNCHANGED <<verdict, pubVars>>

\* The gate cannot read its staged manifest back: reported as a failed publish.
PreflightFails(p) ==
  /\ pc[p] = "preflight"
  /\ job[p].kind = "gate"
  /\ FailWith(p, 2, "rolledback")

\* render-argo's and render-kueue's own out_dir.mkdir, and render-kueue's
\* staging.
MakeOutput(p) ==
  /\ \/ pc[p] = "mkdir" /\ Step(p, "preflight")
     \/ pc[p] = "kstage" /\ Step(p, "publish")
  /\ depth' = PathLen
  /\ UNCHANGED <<lockVars, dir, publishing, faults, tolint, left, verdict,
                 judged, found>>

\* Only StagingUnavailable has a report; an OSError has none.
MakeOutputFails(p) ==
  /\ pc[p] \in {"mkdir", "kstage"}
  /\ Fault
  /\ \/ /\ pc[p] = "kstage"
        /\ Exit(p, 2, "unchanged")
        /\ UNCHANGED depth
     \/ /\ Exit(p, 1, "traceback")
        /\ depth' \in depth .. PathLen
  /\ UNCHANGED <<verdict, dir, publishing>>

\* _publish, whole: Publish's own actions.
BeginPublish(p) ==
  /\ pc[p] = "publish"
  /\ PublishBegin(p, Rendered(p)) \/ PublishRefused(p)
  /\ UNCHANGED <<lockVars, runVars>>

Publishing(p) ==
  /\ pc[p] = "publish"
  /\ PublishStep(p)
  /\ UNCHANGED <<lockVars, runVars>>

Published(p) ==
  /\ pc[p] = "publish"
  /\ pub[p] = "committed"
  /\ Step(p, "scan")
  /\ UNCHANGED <<lockVars, pubVars, tolint, left, verdict, judged, found>>

\* StagingUnavailable, PublishRolledBackPartially, or any other OSError, which
\* is reported as a rollback.
PublishFailed(p) ==
  /\ pc[p] = "publish"
  /\ pub[p] \in {"refused", "partial", "rolledback", "escaped"}
  /\ Exit(p, 2, CASE pub[p] = "refused" -> "unchanged"
                  [] pub[p] = "partial" -> "modified"
                  [] OTHER -> "rolledback")
  /\ UNCHANGED <<verdict, pubVars>>

\* render-argo writes its manifests one by one; an OSError leaves the rest.
WriteOne(p, n) ==
  /\ pc[p] = "write"
  /\ n \in left[p]
  /\ dir' = [dir EXCEPT ![n] = Rendered(p)[n]]
  /\ left' = [left EXCEPT ![p] = @ \ {n}]
  /\ UNCHANGED <<lockVars, depth, publishing, faults, job, pc, tolint, verdict,
                 exit, said, judged, found>>

WriteFails(p) ==
  pc[p] = "write" /\ left[p] # {} /\ FailWith(p, 1, "traceback")

WritesDone(p) ==
  /\ pc[p] = "write"
  /\ left[p] = {}
  /\ Step(p, "scan")
  /\ UNCHANGED <<lockVars, pubVars, tolint, left, verdict, judged, found>>

-----------------------------------------------------------------------------
\* Mistake: a render that produced nothing has nothing to prune.
ScanUnlessEmpty(p) ==
  /\ pc[p] = "scan"
  /\ ~Trips(p)
  /\ left' = [left EXCEPT ![p] =
       IF job[p].prune /\ Present(Rendered(p)) # {}
       THEN {n \in Present(dir) \ Present(Rendered(p)) :
               IsRemovable(dir[n], job[p].render)}
       ELSE {}]
  /\ Step(p, "prune")
  /\ UNCHANGED <<lockVars, pubVars, tolint, verdict, judged, found>>

\* _report_stale lists the directory and decides what to remove.
ScanStale(p) ==
  /\ pc[p] = "scan"
  /\ ~Trips(p)
  /\ left' = [left EXCEPT ![p] =
       IF job[p].prune
       THEN {n \in Present(dir) \ Present(Rendered(p)) :
               IsRemovable(dir[n], job[p].render)}
       ELSE {}]
  /\ Step(p, "prune")
  /\ UNCHANGED <<lockVars, pubVars, tolint, verdict, judged, found>>

\* Mistake: every refusal says that nothing has changed.
ScanFailsUnchanged(p) ==
  pc[p] = "scan" /\ depth = PathLen /\ FailWith(p, 2, "unchanged")

ScanFails(p) ==
  pc[p] = "scan" /\ depth = PathLen /\ FailWith(p, 2, "modified")

\* path.unlink() for each of them.
PruneOne(p, n) ==
  /\ pc[p] = "prune"
  /\ n \in left[p]
  /\ dir[n] # Absent
  /\ dir' = [dir EXCEPT ![n] = Absent]
  /\ left' = [left EXCEPT ![p] = @ \ {n}]
  /\ UNCHANGED <<lockVars, depth, publishing, faults, job, pc, tolint, verdict,
                 exit, said, judged, found>>

\* PruneIncomplete: a file that cannot be removed, or that an unlocked writer
\* has removed already.
PruneFails(p) ==
  /\ pc[p] = "prune"
  /\ left[p] # {}
  /\ FailWith(p, 2, "modified")

PruneGone(p, n) ==
  /\ pc[p] = "prune"
  /\ n \in left[p]
  /\ dir[n] = Absent
  /\ Exit(p, 2, "modified")
  /\ UNCHANGED <<verdict, pubVars>>

Succeed(p) ==
  /\ pc[p] = "prune"
  /\ left[p] = {}
  /\ Exit(p, 0, "done")
  /\ UNCHANGED <<verdict, pubVars>>

\* The process is killed, or interrupted, anywhere.
Kill(p) ==
  /\ MayStop
  /\ pc[p] \notin {"done", "dead"}
  /\ pc' = [pc EXCEPT ![p] = "dead"]
  /\ IF lk[p] \in {"waiting", "held", "unlocked"}
     THEN DieLocked(p) ELSE UNCHANGED lockVars
  /\ IF pub[p] \in MidPhases THEN Stop(p) ELSE UNCHANGED pubVars
  /\ UNCHANGED <<job, tolint, left, verdict, exit, said, judged, found>>

-----------------------------------------------------------------------------
\* What a run does when nothing fails and nobody refuses.
Progress(p) ==
  \/ LoadPlan(p) \/ MakeStaging(p) \/ PolicyAllows(p)
  \/ ResolveArgo(p) \/ NothingToLint(p)
  \/ WaitForLock(p) \/ EnterLock(p) \/ LockTimesOut(p)
  \/ ListOutput(p) \/ UnhashableLabel(p)
  \/ \E n \in Names : CopyForLint(p, n) \/ SymlinkedManifest(p, n)
  \/ SyntaxRejects(p) \/ LintAnswers(p) \/ DropCarried(p)
  \/ Preflight(p) \/ NotOwned(p) \/ MakeOutput(p)
  \/ BeginPublish(p) \/ Publishing(p) \/ Published(p) \/ PublishFailed(p)
  \/ \E n \in Names : WriteOne(p, n) \/ PruneOne(p, n) \/ PruneGone(p, n)
  \/ WritesDone(p) \/ ScanStale(p) \/ Succeed(p)

Trouble(p) ==
  \/ BadPlan(p) \/ StagingUnavailable(p) \/ PolicyRefuses(p) \/ RenderFails(p)
  \/ RendererRaises(p) \/ StagedUnreadable(p)
  \/ ArgoMissing(p) \/ LockErrs(p) \/ SnapshotFails(p) \/ LinterSilent(p)
  \/ DropFails(p) \/ PreflightFails(p) \/ MakeOutputFails(p) \/ WriteFails(p)
  \/ ScanFails(p) \/ PruneFails(p)

RunStep(p) == Progress(p) \/ Trouble(p)

TimePasses == Tick /\ UNCHANGED <<pubVars, runVars>>

RenderNext == TimePasses \/ \E p \in Runs : RunStep(p) \/ Kill(p)

RenderSafeSpec == RenderInit /\ [][RenderNext]_allVars

\* A run outside Stalled keeps executing, and time passes for those that wait.
\* Nothing makes a stalled run move again.
RenderFairness ==
  /\ WF_allVars(TimePasses)
  /\ \A p \in Runs \ Stalled : WF_allVars(Progress(p))

RenderSpec == RenderSafeSpec /\ RenderFairness

-----------------------------------------------------------------------------
Ends(p, code) == pc[p] # "done" /\ pc'[p] = "done" /\ exit'[p] = code

\* What a set holds for the linter and for kubectl: entries that are not
\* regular files are nobody's manifest.
Regular(c) ==
  [n \in Names |->
     IF c[n] # Absent /\ c[n].entry = "other" THEN Absent ELSE c[n]]

\* What the gate reports as linted is what the directory holds when it reports
\* success, its own files, the ones it left standing and nothing else, and every
\* one of them was accepted; "the state that the verdict describes is the state
\* that gets published".
LintedIsPublished ==
  [][\A p \in Runs :
       Ends(p, 0) /\ verdict[p] = "passed" =>
         /\ Regular(dir) = judged[p]
         /\ \A n \in Present(judged[p]) : judged[p][n].lint = "ok"]_allVars

\* A run that fails and says that the directory is unchanged or was rolled back
\* leaves what it found when it entered the lock, whatever the other runs do.
FailureLeavesOutput ==
  [][\A p \in Runs :
       /\ Inside(p)
       /\ Ends(p, 1) \/ Ends(p, 2)
       /\ said'[p] \in {"unchanged", "rolledback"}
       => dir' = found[p]]_allVars

\* Success means the whole rendered set is there, and with --prune that no
\* artifact this run could have removed is.
SuccessIsComplete ==
  [][\A p \in Runs : Ends(p, 0) =>
       /\ \A n \in Present(Rendered(p)) : dir'[n] = Rendered(p)[n]
       /\ job[p].prune =>
            \A n \in Present(dir') \ Present(Rendered(p)) :
              ~IsRemovable(dir'[n], job[p].render)]_allVars

\* Whose a file is, said without the rules of Ownership: managed in every
\* document, and each document of the run's mission or, with no mission, of its
\* installation.
Owns(p, f) ==
  /\ f.entry = "file"
  /\ \A d \in f.docs :
       /\ d.managed
       /\ \/ d.fingerprint = job[p].render.fingerprint
          \/ /\ d.fingerprint = NoLabel
             /\ d.ownerId = job[p].render.installation

\* However a run ends, also killed half-way, every file that is not where the
\* run found it was its own: an operator's file, a link, another mission's
\* manifest and another installation's bundle survive.
OnlyOwnFilesChange ==
  [][\A p \in Runs :
       /\ Inside(p)
       /\ pc[p] \notin {"done", "dead"}
       /\ pc'[p] \in {"done", "dead"}
       => \A n \in Present(found[p]) :
            dir'[n] = found[p][n] \/ Owns(p, found[p][n])]_allVars

\* Whose label or annotation no set can hold.
Misnamed(f) ==
  \E d \in f.docs : NotAName \in {d.renderer, d.scope, d.schema, d.ownerId}

\* What the exit code says of a run that reached a verdict.  A no of the linter,
\* the policy or the schema is exit 1 whatever fails afterwards; a set with a
\* file argo skipped is never a success, and is exit 2 only when the staged
\* copies could not be removed; exit 1 after a yes takes a managed file in the
\* directory whose ownership cannot be asked; and a gate that rendered something
\* succeeds only with a yes.
VerdictDecidesExit ==
  [][\A p \in Runs :
       pc[p] # "done" /\ pc'[p] = "done" =>
         /\ \/ verdict'[p] \in {"rejected", "denied", "invalid"}
            \/ Holds(judged[p], "rejected")
            => exit'[p] = 1
         /\ Holds(judged[p], "skipped") =>
              \/ exit'[p] = 1
              \/ exit'[p] = 2 /\ pc[p] = "drop" /\ tolint[p] # Rendered(p)
         /\ verdict'[p] = "passed" /\ exit'[p] = 1 =>
              \E n \in Present(dir) : Misnamed(dir[n])
         /\ /\ exit'[p] = 0
            /\ job[p].kind = "gate"
            /\ Present(Rendered(p)) # {}
            => verdict'[p] = "passed"]_allVars

\* "The gate promises a single JSON document on stdout and exit 2 when it cannot
\* run" (_publish_lock): it exits 1 only with a verdict.
GateExitOneIsAVerdict ==
  [][\A p \in Runs :
       job[p].kind = "gate" /\ Ends(p, 1) =>
         verdict'[p] \in {"rejected", "denied", "invalid"}]_allVars

\* A gate reads the output, reaches its verdict, publishes and prunes holding
\* the lock, on every filesystem: where the lock cannot be taken the other
\* writers go on and the gate does not.
GateActsUnderLock ==
  \A p \in Runs :
    /\ job[p].kind = "gate"
    /\ pc[p] \in {"list", "copy", "drop", "preflight", "publish", "scan",
                  "prune"}
    => lk[p] = "held"

\* A run that is not itself hung ends, also behind one that hangs for ever
\* while it holds the lock.
RunsEnd == \A p \in Runs \ Stalled : <>(pc[p] \in {"done", "dead"})

\* The lock of the commands is the lock of PublishLock: no command touches it
\* but through its actions.
UsesLock == LockSafeSpec
=============================================================================
