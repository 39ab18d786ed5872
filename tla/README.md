# A verification development of orbital-mission-compiler

The compiler reads a mission plan (YAML), checks it against a schema and a policy,
and writes Kubernetes manifests (Argo workflows, or Kueue jobs and their queues)
into an output directory. Three kinds of thing can go wrong in it, and the modules
are of three kinds:

* the *end of the pipeline* is concurrent and can fail anywhere: several commands may
  write one directory; the lint gate promises that what it checked is what is
  published; publishing is a sequence of renames; `--prune` deletes files and has to
  know whose they are;
* the *rules* exist more than once (a Rego bundle, its mirror in Python, a schema, two
  renderers and two lookups of a name), and the copies have to agree on plans of any
  shape;
* the *environment* moves while a decision is being made: a plan file that is
  replaced between loading and rendering, an `opa` that hangs or answers anything, a
  working tree that others edit while an experiment runs in it.

Paths below are relative to the repository; `cli.py` and `compiler.py` are in
`src/orbital_mission_compiler/`.

## 1. Inventory

| Component | State | Operations | Interacts with |
|---|---|---|---|
| Publish lock (`cli.py:_publish_lock`, `publish_lock_path`) | one lock file per output path or `--lock-key`, the kernel's holder, each waiter's deadline | open, poll, give up, refuse, go on unlocked, release, die | every command that writes a directory |
| Publishing (`_publish`, `_discard_backup`) | output directory, backup directory, list of published files | rename aside, rename in, roll back, remove created directories | called by the gate and by `render-kueue`, inside the lock |
| Artifact ownership (`_is_rendered_artifact` ... `preflight_writable`, `_report_stale`) | labels in the files of the directory | classify, attribute, allow a delete, allow a replacement | decides what `--prune` removes, what the gate leaves out of the lint, what a render may overwrite |
| Render commands and the lint gate (`cmd_render_argo`, `_render_argo_with_lint_gate`, `_reconcile_empty_render`, `cmd_render_kueue`, `main`) | the phase of each command, its staging directory, verdict, exit code and report | load, policy, stage, resolve argo, lock, snapshot, lint, drop, preflight, publish, scan, prune, exit | all of the above, and `argo lint` and `opa` as subprocesses |
| Policy gate (`policy.py`, `enforce_policy_or_raise`, `typed_violations_from_decision`, `cmd_policy`, `cmd_compile`) | none between calls | look for opa, run it, wait, read its decision, admit, deny, cannot decide | between loading and rendering of every command and gated tool; `opa` as a subprocess |
| Policy rules (`policies/mission_plan.rego`, `baseline_validator.py`) | none | ten rules and their structural guards, twice | must agree on every plan; judge the dump of the schema's model, not the file |
| Plan loading (`schemas.py`, `load_mission_plan`) | none | strict YAML, field validators, defaults | first step of every command |
| Compilation and naming (`compiler.py`, first half) | the table of used names | intents, disambiguation, shortening with a digest, overlaps of windows | names of the files the rest moves |
| Manifest rendering (`compiler.py`) | none | tasks and their order, which step becomes the Job, claims and templates, files | what the linter, Argo and Kueue read |
| MCP server (`mcp/server.py`) | engine, read once at import; bypass allowed or not | six stateless tools | the gate, the compiler |
| Experiment runner and provenance (`scripts/run_experiments.py`, `provenance.py`) | local variables of a run, transcripts to be filed, `<name>.txt` files | check the tree, hash, start, wait, terminate, check again, file | the git working tree and the harness process |
| Ablation (`ablation.py`) | none | a corpus of 14 plans, three arms, the table of layers | schema and rules |
| Cluster scripts, evaluation and benchmarks, contracts | | | left out |

What is hard here, in the order it was taken up:

* *Interleaving.* Two commands on one directory. Everything the gate decides is
  decided about a snapshot, and is worth nothing if another writer gets between the
  snapshot and the publish.
* *Partial failure.* Every operation on a filesystem can fail, including those of
  the rollback, of the cleanup after the lint, and of the scan after the publish;
  and each leaves a different claim true in the report.
* *Crash.* A kill between any two renames. A dead lock holder.
* *Timeouts.* A holder that hangs, a wait that is shorter than a healthy hold.
* *Whose file it is.* Two renderers, several missions (identified by a 64-bit
  digest), several installations, hand-edited files, in one directory.
* *Rules written twice.* Absent, null, false, zero, empty and wrongly typed are six
  different things to Rego, Python and pydantic, and each rule meets all of them.
* *Stale reads.* A plan is loaded, judged and rendered at three moments; a working
  tree is looked at before and after a run, by two processes.
* *Names.* Distinct identifiers normalise alike; suffixes and digests can collide with
  names that were there first.

What makes each modelled component correct:

* Lock: excludes; never left behind; bounded waits; a healthy holder is outwaited.
* Publish: all of the set or none of it, or a named remainder; the old contents
  recoverable at every point; directories it made are removed again.
* Ownership: nothing is deleted or overwritten that is not the render's own, and
  nothing it wrote is orphaned.
* Commands: what was linted is what is published; reports and exit codes are true
  whatever failed; every run ends.
* Gate: only what was judged and allowed is compiled or rendered; nothing short of a
  decision that allows is an admission; callers and engines do not contradict one
  another; every call is answered.
* Rules: both engines give one verdict; reading a plan through the schema hides no
  violation; a plan that is allowed can be rendered.
* Naming and rendering: no two objects share a name; every reference resolves in the
  file it is written to; every step is run or reported.
* Runner: what is filed can be rebuilt from the commit it names; the runner never
  finds fault with its own results; an invocation ends.

The hazards themselves, at their lines, are in `PROJECT.json`.

## 2. Modules

| Module | Models | Notes |
|---|---|---|
| `PublishLock` | `_publish_lock` | state: `holder` (the kernel), `lk`, `waited`, `age`. One action per way out of the polling loop. `LockSupport` is what flock answers on this filesystem: it works, it cannot lock at all, or it answers ENOLCK now and then. |
| `AtomicInstall` | the promise of `_publish` | abstract: a set is installed as one step, or nothing is, or what is left over is reported by name. |
| `Publish` | `_publish`, `_discard_backup` | every rename, unlink and rmdir is an action, and has a failing twin. `dir` is a function from names to contents, `depth` how much of the output path exists. `before` is a history variable. |
| `Ownership` | the ownership operators of `compiler.py`, `_report_stale`'s partition | pure operators over the labels of a file's documents. |
| `OwnershipChecks` | properties of `Ownership` | one file, and a sequence of renders looking at it. |
| `RenderCommands` | the three writing commands | extends `Publish` and `Ownership`; `pc` is the phase, in the order the code runs them. `judged` and `found` are history variables. |
| `PolicyRules` | `mission_plan.rego`, `baseline_validator.py` | two operators from a plan to its set of violations, `RegoViolations` and `BaselineViolations`, written as the two sources are. |
| `PlanSchema` | `schemas.py` | extends `PolicyRules`: `SchemaAccepts` (the validators) and `Dump` (`model_dump(mode="json")`). |
| `Compilation` | `compile_plan_to_intents`, `_workflow_name`, `analyze_timeline_conflicts` | extends `PlanSchema`. A name is the sequence of its normalised parts and a digest. |
| `Manifests` | both renderers of `compiler.py` | extends `Compilation`: workflows, Jobs, claim templates and the files they are in, as far as one object refers to another. |
| `Corpus` | the corpus and the arms of `ablation.py` | 14 plans and the layers that are to find each. |
| `PlanPipeline` | all five together | state: a plan that an author edits a field at a time. |
| `PlanGate` | `policy.py`, `typed_violations_from_decision`, `mcp/server.py`, `cmd_policy`, `cmd_compile` | extends `Manifests`; `call[c]` is how far a call is and what it holds. Others write the plan file (`FileChanges`). |
| `ExperimentRunner` | `scripts/run_experiments.py`, `emit` of `provenance.py` | one action per read of the tree, by the runner or by the harness; `Edit`, `Restore`, `CommitAll` and `Switch` are the others in the tree. |
| `MCPublishLock`, `MCPublish`, `MCOwnership`, `MCRenderCommands`, `MCPlanPipeline`, `MCPlanGate`, `MCExperimentRunner` | bounds for TLC | |
| `PublishProofs`, `OwnershipLemmas`, `OwnershipProofs`, `RenderCommandsProofs`, `PolicyLemmas`, `PlanPipelineProofs`, `PlanGateProofs`, `ExperimentRunnerProofs` | theorems | |

The gate appears twice. In `RenderCommands` it is a step with three outcomes, because
what matters there is what a run does to a directory; `PlanGate` opens that step, and
the six tools of the server take the same way through it.

`RenderCommands` uses the actions of `Publish` and of `PublishLock` as they are; it
adds none that touch their variables in another way, except the writes that are not
`_publish`'s in the code either (`WriteOne` of plain `render-argo`, `PruneOne`).

Definitions introduced by a comment `Mistake:` are not part of the model. Each is a
plausible error in the definition that follows it; putting it in that definition's
place has to violate the property named beside it in `PROJECT.json`.

Correspondence worth knowing when reading:

* A directory entry is a record: what lstat says, whether it parses, the ownership
  labels of its documents, what the linter would say of it, and which generation it
  is. Manifest text is never modelled.
* `lint` is "ok", "malformed" (the gate's own parse refuses it), "rejected" (argo
  exits non-zero) or "skipped": argo logs that it could not read the file and exits
  0 because another file beside it linted. The gate looks for that log line after it
  has removed the staged copies, and the model keeps that order (`DropCarried`,
  `DropFails`).
* A label or annotation that is a list is `NotAName`, and `ArtifactMission` then answers
  "raises": the `TypeError` ends the command wherever it asks whose the file is, in the
  gate's listing, in the preflight or in the scan after the publish (`UnhashableLabel`).
  `RendererRaises` is a renderer's `ValueError`, `StagedUnreadable` the staging directory
  that cannot be read back for the syntax check.
* `said` is the report's claim: "unchanged", "rolledback", "modified", "done", or
  "traceback" when an exception leaves the command without one.
* One fault budget, `MaxFaults`, counts the OSErrors of a behaviour over all runs.
* In the plan modules a scalar is the name of what the rules can tell apart ("absent",
  "null", "blank", "separators", a number, a quoted number, "list", ...), never its
  text. A container says what was written in its place and what it holds, so that
  `services: {a: ...}` is a plan like any other.
* `Parts(x)` is what `sanitize_k8s_name` leaves of an identifier, cut at its dashes,
  `Numeral(n)` what `str` makes of a number, and `MaxParts` how many parts stand for the
  63 characters of a label. Indices of steps start at 1 in the model and at 0 in the code.
* `Bytes(x)` is the length of an identifier in UTF-8 and `MaxAnnotations` what of the
  262 144 bytes of `_require_annotations_fit` is left for identifiers: the mission, which
  every object carries twice, and on a Job the names of its steps. The other keys and
  values are taken to have one size.
* A service that becomes a workflow is named by its place, `<<event, service>>`. The
  table of used names (`_workflow_name`) is the set of the places before it that have
  its canonical name (`UsedBefore`); `Precedes` is the order of the two loops.
* `compiler.py` writes the priority classes of a Kueue render to a file of their own,
  which refers to nothing; `KueueFiles` has the others.
* In `PlanGate`, `opposed` remembers whether anything in opa's answer was against the
  plan. In `ExperimentRunner`, `strayed` and `wandered` remember that something else
  was on disk than in the commit that will be named, `upset` that others did more than
  edit files, and `blame` what any transcript was refused for. They are history
  variables; no guard reads them.
* `Kill` ends a run anywhere. Only an OSError starts the rollback of `_publish`, so a
  `KeyboardInterrupt` in it is `Kill` too; the kernel frees the lock.

## 3. Runs

| Run | Question | Bounds |
|---|---|---|
| `PublishLock` | does the lock exclude, end its waits and survive dead holders? | 3 runs, 2 lock files, one run able to hang, ENOLCK possible |
| `Publish` | does `_publish` implement `AtomicInstall`, with two failures and kills? | 2 runs, 3 names, overlapping sets, 2 path components, 2 faults |
| `Ownership` | is what is deleted and replaced always the render's own? | 31 829 pairs of file and render; see below |
| `RenderTwo` | do two concurrent commands keep the gate's promise, true reports and other people's files? | 740 563 states: 2 runs, 9 jobs, 10 starting directories, 3 names, 1 fault, kill anywhere |
| `RenderHung` | does a run end beside one that hangs, and does a gate ever act unlocked? | 55 270 states: 2 runs, 3 jobs, 2 starting directories, 1 fault, ENOLCK possible |
| `PlanRules` | do engines, schema, naming and rendering agree on every plan? | 93 570 plans: all within 2 edits of the 14 plans of the corpus and of 2 larger ones |
| `PlanGate` | is only what was judged rendered, whatever the file and opa do? | 120 794 states: 2 calls, 3 contents and a missing file, 1 change, 3 servers |
| `Experiments` | can what is filed be rebuilt, and is the runner innocent? | 489 675 states: 2 experiments, 3 files, 3 versions, 2 branches, 2 changes by others |
| `RenderGateFails` | *violation*: does a gate exit 1 only with a verdict? | 1 run, 1 fault, jobs that render something |
| `RenderHandLabelled` | *violation*: is only what will be removed left out of the lint? | 1 run, no fault, a manifest whose scope label was changed by hand |
| `EnginesDisagree` | *violation*: do the engines decide alike on *all* inputs? | plans within 1 edit of those of the corpus |
| `ExperimentCommitted` | *violation*: does the second look at the tree see that it is another one? | as `Experiments` |

Why the bounds are enough to be interesting. Two runs exhibit every interleaving of
a writer and a rival; the third in `PublishLock` is the one that makes "at most one
rival" a real premise. Two faults is the least with which a rollback can itself
fail. Three names are one to replace, one to create and one to leave alone. Two path
components are the least for which a parent can be left behind. The files of
`Ownership` have one document with every combination of labels, or two that differ
in one label, because its rules only ever ask whether all documents agree; the three
missions include two with equal digests. The jobs of `RenderTwo` contain a gate that
shrinks, one that grows, one that renders nothing, one the linter rejects, and both
ungated commands; the starting directories contain each kind of entry (own and
stale, another mission's, an operator's file, one argo skips, a malformed one, a
link, something that is not a file, an own bundle, another installation's bundle, a
manifest with a label no set can hold).
In `RenderTwo` the lock timeout is 0, so a wait may time out as soon as it begins or
be granted later; longer waits differ only by ticks, which `PublishLock` covers.

Two edits are what it takes to hide one malformed value behind another, or to make two
services collide; the two larger plans of `PlanRules` have three occurrences, so that a
suffix can meet a name that ends in a number, and identifiers that are too long to
keep. The long identifier is five bytes where eight fit: as a mission it fits no object,
as one of a Job's two steps it fits to the byte, and as both it does not. Two calls are enough for two callers to contradict each other, and one change of
the file for each of them to have seen another content; of the contents one is fine,
one is denied by the policy alone and cannot be rendered, and one is refused by the
schema. Two changes of the tree are the least that can leave it as it was (an edit and
its undoing), which is what a runner that looks only before and after might miss; the
second branch lacks a script, so that it can vanish between two reads. Two experiments
are needed for the result of one to make the tree of the next one dirty.

Deadlock is checked where a state in which nothing moves would be an error: the lock,
publishing and the commands, whose clock can tick when every run has ended. A run that
is stuck there shows as a violation of `WaitEnds`, `PublishEnds` or `RunsEnd`. The
configurations of `PlanRules`, `EnginesDisagree`, `PlanGate`, `Experiments` and
`ExperimentCommitted` say `CHECK_DEADLOCK FALSE`: an author stops after `MaxEdits`, and
calls and invocations come to their end, which `EveryCallEnds` and `RunnerEnds` say
they do.

**Fairness.** `WF` of a poller's attempt and of the clock: the loop has no exit but a
grant, an error or the deadline. `WF` of the progress of every run outside `Stalled`:
a process that is scheduled keeps executing. Nothing is assumed of a stalled run, and
no error, refusal or kill is ever forced. `Tick` waits for a healthy holder that has
used up its budget, which is the definition of healthy, and for a free lock that is
being polled, because the poll interval (0.2 s) is shorter than the seconds in which
timeouts are given. It does not wait for a run in `Stalled`.
`PlanGate` assumes `WF` of the steps each call takes by itself, its timeout among them
(`subprocess.run` is given `OPA_TIMEOUT_SECONDS`), and `ExperimentRunner` of the
runner's steps, whose waits on the harness have timeouts as well. Nothing is assumed of
opa, of a harness, of who writes the plan file, or of the others in the working tree.

### Violations: where the code and its own words differ

* `RenderGateFails`. An OSError while writing a manifest into the staging directory ends
  the gate with a traceback and exit 1, the exit code of a rejection (`cli.py:1029`,
  `1923`). So do a renderer's `ValueError` and a label no set can hold.
* `RenderHandLabelled`. The gate leaves out of the lint every artifact `IsLeaving`, all
  that `attribute_stale` calls its own. The prune that follows sets aside whatever
  carries the installation's scope. A manifest of the run's own mission whose scope
  label was changed by hand is in both sets, so it is neither linted nor removed, and a
  directory with an invalid manifest is reported as linted. `LintedIsPublished` holds
  in `RenderTwo`, whose directories carry labels as the tool stamps them.

* `EnginesDisagree`. `baseline_validator.py:11` promises the same decision on all
  inputs. Its rule 4 looks the resource class up in a frozenset, which raises
  `TypeError` for a list or an object (`:200`), where the bundle decides. The engines
  also part on a mission id of U+001C to U+001F, blank to Python and not to Go.
  `EnginesAgree` says how far the promise holds: on every plan that is short of these
  two, and on every plan the schema accepts.
* `ExperimentCommitted`. After a run the runner looks at the worktree again and not at
  HEAD (`run_experiments.py:453`): a checkout or a commit during the run leaves a clean
  tree of another commit. `FiledIsRebuildable` says what does hold: edits alone are
  always caught.

Seen while modelling and left without a run of their own:

* a label that is a list or a mapping raises `TypeError` in `_artifact_mission` unless
  it is the mission label, whose case its docstring calls settled (`compiler.py:1744`),
  and annotations that are a list raise `AttributeError` beside it (`1791`):
  no command catches it, so a command that has linted and published ends with a
  traceback and exit 1 (`UnhashableLabel`). `VerdictDecidesExit` names this as the one way
  from a yes to exit 1;
* a plan that the schema takes and the policy allows ends a render in a `ValueError` when
  its identifiers are too long for the annotations. `AdmittedPlansRender` says that this
  and nothing else does;
* `_scan_failure_report` says that the output was modified when
  `_reconcile_empty_render` has changed nothing;
* "all of it or none of it" does not survive a `KeyboardInterrupt` (the property proved
  instead is `Recoverable`);
* ENOLCK is taken to mean that no process can lock here (`cli.py:732`); a kernel short
  of lock records says the same to one process while another holds the lock, and two
  ungated writers then go on;
* `out_dir.mkdir(parents=True)` is outside the `try` (`cli.py:1215`); when it fails
  half-way the parents it made stay, and `cli.py:1204` says they do not;
* a delete compares the raw mission id as well as its digest, a replacement the digest
  only (`compiler.py:1563`, `1989`);
* if argo skipped a file and the staged copies then cannot be removed, the gate exits 2
  and reports `"lint": "passed"`, although `cli.py:1487` says that the verdict outranks
  the cleanup: the exit code is chosen (`1491`) before the skipped file is looked for
  (`1509`). `DropFails` does the same, and `VerdictDecidesExit` names it as the one way
  from a skipped file to an exit that is not 1;
* `policy` exits 1 when opa times out or cannot be executed (`policy.py:43`, `52`,
  `cli.py:1862`), the code `cli.py:1869` keeps for a denial;
* a timed-out run, a dirty tree and a failing git leave an older `<name>.txt` where it
  is, although the comment at `run_experiments.py:481` wants no stale result; a script
  that vanishes in the middle of an invocation ends it with `FileNotFoundError` and
  files nothing of what was queued.

## 4. Proofs

All are checked by TLAPS for every value of the constants that satisfies the named
assumptions: any number of runs, calls, names, files, documents, events, services and
steps, any answer of the environment. Every safety property and action property of a
passing run is a theorem; what is left to TLC is named at the end of the section.

### The lock and publishing (`PublishProofs`)

* `LockTypeOK`, `LockMutex` and `NoLockout` are invariants of `PublishLock`
  (`LockTypeCorrect`, `LockExcludes`, `LockNeverLeftBehind`). `LockMutex` is not
  inductive. Two holders of one file are one because the kernel's record is exact in
  both directions: whoever is recorded is inside (`NoLockout`), and whoever is inside
  is recorded (`HolderRecorded`). `LockInv` joins them; one lemma per kind of step.
* `SecondWriterAlwaysServed`: a run does not give up on a single healthy rival when its
  timeout is longer than one hold. It says what never happens, so it needs no fairness,
  only the guards of `Tick` that say what healthy and polling mean. `Patient` bounds the
  wait: by nothing before the rival has had the lock, by how long the rival has held it,
  and by one budget from then on.
* Under `WorkingLock` (flock works and all runs share a lock file) `PublishTypeOK`,
  `Recoverable` and `OneFaultIsUndone` are invariants. `PublishInv` adds that only one
  run is in the middle of a publish (`Exclusive`), what its lists say in each phase
  (`Tracks`), and what its failures so far can have left (`Counted`). `Tracks` is
  needed because `Undo` is only right if a name that is still to be installed has
  neither a backup nor been published, and one that has been moved aside is absent.
  Without a lock the theorems are false, and the hypothesis says so.
* `PublishInstallsAtomically`: publishing implements `AtomicInstall`, the renames of
  one `_publish`, its rollback and a kill at any point being one step of it or none.
  `Ledger` says what a run has put in place and displaced, against the set it was
  given; under it and `Exclusive` the abstract `view` is the directory when nobody is
  publishing, and what the one publisher found when somebody is. One lemma per action
  says which abstract step it is, or that it is a stutter.
* `RollbackLeavesNoDirs`: while at most one operation of the behaviour has failed, a
  publish that was rolled back has removed the directories it made, for any depth of the
  output path. A second failure can leave some, and the theorem says nothing of it. `Levels` counts
  how much of the path exists in each phase, and `Grounded` that no file is in a
  directory that does not.

### Ownership (`OwnershipLemmas`, `OwnershipProofs`)

`DeletionIsOwned`, `ReplacementIsOwned` and `WritersTakeBackTheirOwn` for files of any
number of documents with any labels. All rest on unanimity: an answer of
`ArtifactMission` that names an owner is true of every document. The last one uses
`RendersAssumption`: digests and ids are strings, and one id has one digest.

### The commands (`RenderCommandsProofs`)

* For every answer of the filesystem: `RenderUsesLock` shows that `RenderCommands`
  implements `PublishLock` step by step, so `RenderExcludes` follows from
  `LockExcludes`. `GatesActLocked` needs that a gate never comes into a phase of the
  other commands, from which it could reach one of its own without the lock
  (`GateLocked`). `RenderTypeCorrect` needs the contents of the directory, the staging
  and the backup typed as well (`FilesTyped`): a report is about what was staged.
  `VerdictsDecideExits` is about an action property; what decides an exit code is the
  verdict and the phase together (`Rules`), and what the linter was shown when it
  answered (`Heard`).
* Under `WorkingLock`, in three layers, each an invariant relative to the one before.
  `Ground` carries `PublishInv` over to the commands and says who is inside the lock in
  which phase. `Settled` is the account of the directory: it is at every point what the
  run that holds the lock found, plus what that run says it has written (`Accounts`),
  less what it has pruned, each of which it was allowed to delete (`Cleared`).
  `AllJudge` says that what the linter is shown is what the run is about to leave.
  A step of one run disturbs none of this for another, because a run outside the lock
  owes nothing (`OutOwesNothing`) and one inside it is alone.
* From `Settled`: `FailuresLeaveOutput` (a failure that says it changed nothing, or
  that it rolled back, left what was found), `SuccessesAreComplete`, and
  `OthersFilesSurvive`, which also takes the lemmas of `OwnershipLemmas`.
* From `AllJudge`: `LintedSetIsPublished`, under one more hypothesis, `NoHandLabels`: no
  document both names a mission and is labelled as its installation's. Neither writer
  makes one, and the run `RenderHandLabelled` shows that the property fails where
  somebody else has.

### Plans (`PolicyLemmas`, `PlanPipelineProofs`)

* `EnginesAlwaysAgree` and `NormalisingNeverHides` for *every* plan, of any shape and
  whatever edits led to it. Neither needs an invariant of the behaviour: they hold of
  each plan, and are proved from the step up, one lemma for steps, services, events
  and plans each. Where the lists of a plan are no lists the engines find different
  things; what is proved there is that each of them finds something.
* `LayersAlwaysRight`: the corpus is fixed, so the proof is its evaluation, one plan
  after another, with the invariant that a plan called by the name of an entry is that
  entry.
* The theorems below rest on a lemma about this module's author and not about the code,
  `PlansKeepShape`: whatever is edited, every list of the plan stays a sequence, of things
  that have the lists they should have. Without it a service could be found where no index
  of the file points. It needs `PlansAssumption`, the same of the plans one starts from,
  which TLC evaluates.
* `ConflictsAlwaysOverlap`: two windows overlap if and only if they share the later of
  their openings.
* `AdmittedAlwaysRender`: an admitted plan is rendered exactly when its identifiers fit
  the annotations. A service of priority 0 is among what the baseline finds in the
  service, the event and the plan, so the other cause of an exception is excluded.
* `ClaimsAlwaysResolve`: the step a Job runs is a step, and has a GPU when any step has
  (`PrimaryIsAStep`, from the least member of a set of numbers); so the Job has a claim
  only when the template is rendered.
* `StepsAlwaysAccountedFor` and `NamesAlwaysDistinct` are about every sanitiser and every
  limit on the length of a name greater than two parts. A name that `ResistantName` made
  is whole or cut (`WellNamed`), and a name with more put behind it gives back the name it
  was made from and what was put behind it (`ExtendedTells`): of the three things that can
  become of it, the length of what the digest was taken of tells which it was
  (`ExtendedForms`). Two services with one canonical name are numbered differently, since
  the later one has seen all the earlier one has, and the earlier one
  (`LaterHasSeenMore`). A first occurrence is not taken for a repetition of another name,
  because its name ends in its timestamp. The hypotheses say what this takes:
  * `PartsAreSequences`: what is left of an identifier is some parts, or none
    (`compiler.py:40`);
  * `NumeralsTell`: `str` writes no two numbers alike;
  * `TimestampsTell`: a timestamp with a number behind it is no timestamp. `isoformat`
    (`compiler.py:163`) ends in the seconds and a "Z", or in the hours and minutes of an
    offset. In the first case the last part is no number. In the second the field with
    the "t" stands a fixed number of two-digit fields from the end (or of two-digit
    fields and one of six digits), so that one more field at the end moves it.

  All three are checked for the values of `MCPlanPipeline` by `MCNamesAssumption`. A digest
  is taken to differ from every other digest and from every part that is none.

### The gate and the runner (`PlanGateProofs`, `ExperimentRunnerProofs`)

* `ArtifactsAdmissible`, `OnlyDecisionsAdmit` and `OneAuthority` for any calls, requests,
  plans and servers. `GateInv` says of each call what it holds in each phase (`Shape`,
  `CallTyped`) and what its verdict is a verdict of (`Judged`). That two callers with
  different engines agree is the theorem of `PolicyLemmas` for plans the schema accepts,
  and that no opposed decision admits is a lemma about `TypedViolations` alone.
* `RunnerTypeOK`, `FiledIsRebuildable` and `OnlyOthersDirty`, for any experiments, files,
  branches and number of changes. `Traced` is the strengthening of the first: until
  somebody undoes, commits or checks out, the commit a run began on stays checked out,
  and a tree that was away from it once is dirty until the run is judged. `Blameless` is
  that of the second: while `changes = 0` the tree is that commit's, what both processes
  read of it agrees, and nothing is filed before the last run has ended.

### Only model-checked

Liveness: `WaitEnds`, `PublishEnds`, `RunsEnd`, `EveryCallEnds` and `RunnerEnds`. All
need fairness and `ENABLED`, which TLAPS cannot reason about. That a lock which does not work costs the guarantees of the commands other than
exclusion of gates is not a theorem either: it is the reason for the hypothesis
`WorkingLock`. The timestamps of the plan modules are the five of `Zoned`, and durations
the five of `Seconds`; the theorems about windows and names are about plans made of
these, in any number.

## 5. Not modelled

* What differs in the size of annotations besides identifiers (a priority of one digit or
  two), and the annotations of single tasks, which the code does not measure.
* An exit of opa other than 0 with a readable decision in its output, which
  `explain_policy` would report beside the exit code (`server.py:267-286`); the other
  callers decide nothing from the output of such a run.
* A results directory outside of git's ignore rules: `Dirty` takes the default `out/`,
  which is ignored. For another one `_dirt` forgives whatever lies under it.
* A stall in the middle of a publish is not `PublishEnds`' matter, whose fairness excludes
  it: that a rival of the stalled run ends is `RunsEnd`. That `killpg` ends the processes
  of a harness is a property of the kernel, in `GiveUp` by construction.
* `EINTR` in the polling loop, which waits like contention.
* Reads of several files in one scan are one step (the lock excludes other
  cooperating writers; an operator editing during a scan is not modelled).
* `shutil.rmtree` of the backup either removes the directory or leaves it.
* A file appearing between `exists()` and `os.replace` counts as a failed operation.
* Two containers deriving different lock files for one volume: `LockFile` is a
  constant, and the code says it cannot detect this (`cli.py:1021`).
* The strict YAML loader (duplicate keys, tags, anchors, timestamps): it is text
  processing in front of the plan the modules start from.
* Containers, affinities, quotas, tolerations and priority classes in the manifests,
  and the text of messages and reports. They are data nothing else refers to.
* The bundle path of `explain_policy`, which is checked like the plan path.
* Digests of names collide nowhere in `Compilation`; `Ownership` does model equal
  digests of mission ids.
* A grandchild of a harness that leaves its process group and keeps the pipe open; two
  invocations of the runner at once; a runner that is killed.
* The rates, intervals and tables of the ablation, the evaluation and the benchmarks:
  arithmetic over results, without state between calls.
* The scripts for a live cluster: their behaviour is the cluster's. To the runner they
  are the harness of `ExperimentRunner`. The contracts are data classes.

## 6. Plan

1. Done: lock, publish, ownership, commands; rules, schema, naming, rendering; the gate
   and its callers; the runner; the theorems of section 4, with which every safety
   property of a passing run is proved.
2. Proofs: `NoHandLabels` as an invariant of labels that only the writers stamp, in place
   of a hypothesis about all files; `FiledIsRebuildable` with the harness's reads in any
   order; `NamesDistinct` over timestamps as a constant set, in place of those of `Zoned`.
3. The commands over the contents of `Manifests`: which names two renders of one plan
   share, in place of the constants `RenderCommands` has for them.
