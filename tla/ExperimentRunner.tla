--------------------------- MODULE ExperimentRunner ---------------------------
(***************************************************************************)
(* scripts/run_experiments.py: one invocation runs the registered          *)
(* experiments one after another, each in a process of its own that prints *)
(* what it is a run of (provenance.py), and files in the tree only         *)
(* transcripts that can be cited.  Meanwhile others edit, undo, commit and *)
(* switch branches in the same working tree.                               *)
(*                                                                         *)
(* A content is a function from the tracked files to versions; a digest is *)
(* the version it is taken of.  An experiment is its place in EXPERIMENTS. *)
(***************************************************************************)
EXTENDS Naturals, Sequences

CONSTANTS
  Paths,       \* the tracked files: harness scripts, their inputs, and the rest
  Versions,    \* contents of a file, "absent" if there is none
  Scripts,     \* Scripts[e]: the harness of the experiment e
  Inputs,      \* Inputs[e]: what its input patterns match, "none" if it declares none
  Recorded,    \* the experiments with a result_path
  Branches,    \* the commits there are at first
  MaxChanges   \* how often others change the working tree

Experiments == DOMAIN Scripts
Contents == [Paths -> Versions]

ASSUME ExperimentsAssumption ==
  /\ "absent" \in Versions /\ "none" \notin Paths \cup Versions /\ MaxChanges \in Nat
  /\ Scripts \in Seq(Paths) /\ Inputs \in [Experiments -> Paths \cup {"none"}]
  /\ Recorded \subseteq Experiments
  /\ Branches \in Seq(Contents) /\ Branches # <<>>

VARIABLES
  commits, head,   \* the commits, and which of them is checked out
  disk,            \* the working tree
  unsaved,         \* experiments with a result in the tree that is not committed
  changes,
  phase, left,     \* of the invocation, and the experiments it has yet to run
  run,             \* the local variables of run(), and two of history
  harness,         \* the process, and the lines it has printed
  queue,           \* pending: the transcripts to file
  filed,           \* those written to their result_path
  out,             \* the <name>.txt of each experiment
  blame,           \* history: what was found against any transcript
  worst            \* the exit status

tree == <<commits, head, disk, unsaved, changes>>
runner == <<phase, left, run, queue, filed, out, blame, worst>>
vars == <<tree, runner, harness>>

\* What git status --porcelain lists; the results directory is ignored.
Dirty == disk # commits[head] \/ unsaved # {}

Silent == [commit |-> 0, tree |-> "none", script |-> "none", inputs |-> "none",
           rest |-> FALSE, phase |-> "none", rc |-> 0]
NoRun == [exp |-> 0, head |-> 0, script |-> "none", inputs |-> "none", clean |-> FALSE,
          unchanged |-> FALSE, strayed |-> FALSE, wandered |-> FALSE, upset |-> FALSE]

Init ==
  /\ commits = Branches /\ head \in DOMAIN Branches /\ disk = Branches[head]
  /\ unsaved = {} /\ changes = 0
  /\ phase = "idle" /\ left = {} /\ run = NoRun /\ harness = Silent
  /\ queue = {} /\ filed = {} /\ blame = {} /\ worst = 0
  /\ out = [e \in Experiments |-> "old"]

WorseOf(code) == worst' = IF code > worst THEN code ELSE worst
DigestOf(p, missing) == IF p = "none" THEN missing ELSE disk[p]

\* run() returns, and its local variables are gone: back to the loop in main.
Return(code) == phase' = "next" /\ run' = NoRun /\ harness' = Silent /\ WorseOf(code)
NotCitable(problems) == Return(2) /\ blame' = blame \cup problems

-----------------------------------------------------------------------------
\* main: --only names the experiments to run, none of them meaning all; an
\* unknown name runs nothing.
Invoke ==
  /\ phase = "idle"
  /\ \/ \E wanted \in (SUBSET Experiments) \ {{}} : left' = wanted /\ phase' = "next" /\ worst' = 0
     \/ left' = {} /\ phase' = "done" /\ worst' = 1
  /\ UNCHANGED <<tree, run, harness, queue, filed, out, blame>>

\* The first half of run(): skipped without its script, refused in a dirty tree
\* or when git cannot say.
CheckTree ==
  /\ phase = "next"
  /\ \E e \in left :
       /\ \A d \in left : e <= d
       /\ left' = left \ {e}
       /\ \/ /\ disk[Scripts[e]] = "absent"
             /\ UNCHANGED <<phase, run, harness, blame, worst>>
          \/ /\ disk[Scripts[e]] # "absent"
             /\ \E p \in {"git"} \cup IF Dirty THEN {"dirty"} ELSE {} : NotCitable({p})
          \/ /\ disk[Scripts[e]] # "absent" /\ ~Dirty
             /\ run' = [NoRun EXCEPT !.exp = e]
             /\ phase' = "head"
             /\ UNCHANGED <<harness, blame, worst>>
  /\ UNCHANGED <<tree, queue, filed, out>>

ReadHead ==
  /\ phase = "head"
  /\ \/ run' = [run EXCEPT !.head = head] /\ phase' = "hash"
        /\ UNCHANGED <<harness, blame, worst>>
     \/ NotCitable({"git"})
  /\ UNCHANGED <<tree, left, queue, filed, out>>

\* A script that is gone by now raises FileNotFoundError out of main: exit 1, and
\* nothing that was queued is filed.
HashScript ==
  /\ phase = "hash"
  /\ LET found == disk[Scripts[run.exp]]
     IN  IF found = "absent" THEN phase' = "dead" /\ worst' = 1 /\ UNCHANGED run
         ELSE phase' = "start" /\ run' = [run EXCEPT !.script = found] /\ UNCHANGED worst
  /\ UNCHANGED <<tree, left, harness, queue, filed, out, blame>>

StartHarness ==
  /\ phase = "start"
  /\ run' = [run EXCEPT !.inputs = DigestOf(Inputs[run.exp], "none"), 
                        !.strayed = (disk # commits[run.head])]
  /\ harness' = [Silent EXCEPT !.phase = "commit"]
  /\ phase' = "running"
  /\ UNCHANGED <<tree, left, queue, filed, out, blame, worst>>

-----------------------------------------------------------------------------
\* emit of provenance.py, which every harness calls first: commit and worktree
\* as git gives them, each of which it may fail to, then the two digests.
Prints(phases, new) == harness.phase = phases[1] /\ harness' = [new EXCEPT !.phase = phases[2]]

EmitCommit ==
  /\ \E c \in {0, head} : Prints(<<"commit", "tree">>, [harness EXCEPT !.commit = c])
  /\ UNCHANGED <<tree, runner>>

EmitTree ==
  /\ \E t \in {IF Dirty THEN "DIRTY" ELSE "clean", "unknown"} :
       Prints(<<"tree", "digests">>, [harness EXCEPT !.tree = t])
  /\ UNCHANGED <<tree, runner>>

EmitDigests ==
  /\ Prints(<<"digests", "work">>,
            [harness EXCEPT !.script = disk[Scripts[run.exp]],
                            !.inputs = DigestOf(Inputs[run.exp], "none")])
  /\ UNCHANGED <<tree, runner>>

\* It ends when it likes, with any status; rest stands for the lines about the
\* environment and the compiler module, which may be there or not.
HarnessEnds ==
  /\ harness.phase \in {"commit", "tree", "digests", "work"}
  /\ \E rc \in {0, 1}, rest \in BOOLEAN :
       harness' = [harness EXCEPT !.phase = "ended", !.rc = rc,
                                  !.rest = rest /\ harness.phase = "work"]
  /\ run' = [run EXCEPT !.wandered = (disk # commits[run.head])]
  /\ UNCHANGED <<tree, phase, left, queue, filed, out, blame, worst>>

-----------------------------------------------------------------------------
\* communicate(timeout): it returns, or SIGTERM is sent to the whole group.
HarnessDone ==
  /\ phase = "running" /\ harness.phase = "ended"
  /\ phase' = "after"
  /\ UNCHANGED <<tree, left, run, harness, queue, filed, out, blame, worst>>

TimesOut ==
  /\ phase = "running"
  /\ phase' = "terminating"
  /\ UNCHANGED <<tree, left, run, harness, queue, filed, out, blame, worst>>

\* Mistake: the one process that was started is killed, not its group.
KillOne ==
  /\ phase = "terminating"
  /\ phase' = "next" /\ run' = NoRun /\ WorseOf(1)
  /\ UNCHANGED <<tree, left, harness, queue, filed, out, blame>>
\* Mistake: whoever was sent SIGTERM is waited for.
WaitForTeardown ==
  /\ phase = "terminating" /\ harness.phase = "ended"
  /\ Return(1)
  /\ UNCHANGED <<tree, left, queue, filed, out, blame>>
\* Its teardown has 10 seconds, then SIGKILL ends it.  The transcript goes to
\* <name>.timed-out.txt and an older <name>.txt is left where it is.
GiveUp ==
  /\ phase = "terminating"
  /\ Return(1)
  /\ UNCHANGED <<tree, left, queue, filed, out, blame>>

\* The second half of run(): the worktree again, and the script again.  HEAD is not
\* read again.
CheckAfter ==
  /\ phase = "after"
  /\ \/ phase' = "rehash" /\ run' = [run EXCEPT !.clean = ~Dirty]
        /\ UNCHANGED <<harness, blame, worst>>
     \/ NotCitable({"git"})
  /\ UNCHANGED <<tree, left, queue, filed, out>>

HashScriptAgain ==
  /\ phase = "rehash"
  /\ LET found == disk[Scripts[run.exp]]
     IN  IF found = "absent" THEN phase' = "dead" /\ worst' = 1 /\ UNCHANGED run
         ELSE phase' = "judge" /\ run' = [run EXCEPT !.unchanged = (found = run.script)]
              /\ UNCHANGED worst
  /\ UNCHANGED <<tree, left, harness, queue, filed, out, blame>>

\* Mistake: the tree is looked at before the run only.
ProblemsAtStart ==
  {p \in {"lines", "commit", "tree", "script"} :
     \/ p = "lines" /\ ~harness.rest
     \/ p = "commit" /\ harness.commit # run.head
     \/ p = "tree" /\ harness.tree # "clean"
     \/ p = "script" /\ harness.script # run.script}
\* citability_problems, by what each is about, and the comparisons after it.  The
\* inputs are hashed a second time here.
Problems ==
  LET exp == run.exp
      declares == Inputs[exp] # "none"
      missing == harness.commit = 0 \/ harness.tree \in {"none", "unknown"}
                   \/ harness.script = "none" \/ ~harness.rest
  IN  {p \in {"lines", "commit", "tree", "moved", "script", "inputs"} :
         CASE p = "lines" -> missing \/ (declares /\ "absent" = run.inputs) \/ (declares /\ harness.inputs = "none")
           [] p = "commit" -> harness.commit \notin {0, run.head}
           [] p = "tree" -> harness.tree = "DIRTY"
           [] p = "moved" -> ~run.clean
           [] p = "script" -> harness.script \notin {"none", run.script} \/ ~run.unchanged
           [] p = "inputs" -> declares /\ {disk[Inputs[exp]], harness.inputs} \ {"none"} # {run.inputs}}

Transcript == [exp |-> run.exp, commit |-> run.head, upset |-> run.upset,
               strayed |-> run.strayed, wandered |-> run.wandered]

\* A problem keeps the transcript aside and removes an older result.
Reject ==
  /\ phase = "judge" /\ Problems # {}
  /\ NotCitable(Problems)
  /\ out' = [out EXCEPT ![run.exp] = "none"]
  /\ UNCHANGED <<tree, left, queue, filed>>

\* Mistake: a citable transcript is filed as soon as it is there.
FileAtOnce ==
  /\ phase = "judge" /\ Problems = {}
  /\ filed' = filed \cup {Transcript} /\ unsaved' = unsaved \cup {run.exp}
  /\ out' = [out EXCEPT ![run.exp] = "new"] /\ Return(0)
  /\ UNCHANGED <<commits, head, disk, changes, left, queue, blame>>
Accept ==
  /\ phase = "judge" /\ Problems = {}
  /\ out' = [out EXCEPT ![run.exp] = "new"]
  /\ queue' = IF harness.rc = 0 /\ run.exp \in Recorded THEN queue \cup {Transcript} ELSE queue
  /\ Return(IF harness.rc = 0 THEN 0 ELSE 1)
  /\ UNCHANGED <<tree, left, filed, blame>>

\* file_results, after the last experiment, in the order they ran.
FileResult ==
  /\ phase = "next" /\ left = {}
  /\ \E t \in queue :
       /\ \A u \in queue : t.exp <= u.exp
       /\ queue' = queue \ {t} /\ filed' = filed \cup {t} /\ unsaved' = unsaved \cup {t.exp}
  /\ UNCHANGED <<commits, head, disk, changes, phase, left, run, harness, out, blame, worst>>

Exit ==
  /\ phase = "next" /\ left = {} /\ queue = {}
  /\ phase' = "done"
  /\ UNCHANGED <<tree, left, run, harness, queue, filed, out, blame, worst>>

-----------------------------------------------------------------------------
\* Others in the working tree.  An edit is of one file and away from what is
\* committed; whatever else they do is remembered in upset.  strayed remembers that
\* at some moment of the run, and wandered that at its end, there was something
\* else on disk than in the commit its transcript will name.
UnderTest == phase \in {"head", "hash", "start", "running", "terminating", "after"}
Watched(upsets) ==
  run' = [run EXCEPT !.strayed = @ \/ (phase \in {"running", "terminating"} /\ disk' # commits[run.head]),
                     !.upset = @ \/ (upsets /\ UnderTest)]
Change ==
  /\ changes < MaxChanges /\ changes' = changes + 1
  /\ UNCHANGED <<phase, left, harness, queue, filed, out, blame, worst>>

Edit ==
  /\ \E p \in Paths, v \in Versions : v # commits[head][p] /\ disk' = [disk EXCEPT ![p] = v]
  /\ UNCHANGED <<commits, head, unsaved>>
  /\ Watched(FALSE) /\ Change

Restore ==
  /\ Dirty
  /\ disk' = commits[head] /\ unsaved' = {}
  /\ UNCHANGED <<commits, head>>
  /\ Watched(TRUE) /\ Change

CommitAll ==
  /\ Dirty
  /\ commits' = Append(commits, disk) /\ head' = Len(commits) + 1 /\ unsaved' = {}
  /\ UNCHANGED disk
  /\ Watched(TRUE) /\ Change

Switch ==
  /\ ~Dirty
  /\ \E k \in DOMAIN commits \ {head} : head' = k /\ disk' = commits[k]
  /\ UNCHANGED <<commits, unsaved>>
  /\ Watched(TRUE) /\ Change

-----------------------------------------------------------------------------
Proceeds ==
  \/ CheckTree \/ ReadHead \/ HashScript \/ StartHarness
  \/ HarnessDone \/ TimesOut \/ GiveUp
  \/ CheckAfter \/ HashScriptAgain \/ Reject \/ Accept \/ FileResult \/ Exit

Next ==
  \/ Invoke \/ Proceeds
  \/ EmitCommit \/ EmitTree \/ EmitDigests \/ HarnessEnds
  \/ Edit \/ Restore \/ CommitAll \/ Switch

\* The runner runs on and its clock with it; a harness is owed no fairness.
Spec == Init /\ [][Next]_vars /\ WF_vars(Proceeds)

-----------------------------------------------------------------------------
Phases == {"idle", "next", "head", "hash", "start", "running", "terminating", "after",
           "rehash", "judge", "done", "dead"}
HarnessPhases == {"none", "commit", "tree", "digests", "work", "ended"}

\* Types, and which process is where: a harness is alive only while the runner
\* waits for it, and only complete transcripts of recorded experiments are queued.
RunnerTypeOK ==
  /\ commits \in Seq(Contents) /\ head \in DOMAIN commits /\ disk \in Contents
  /\ unsaved \subseteq Recorded /\ changes \in 0..MaxChanges
  /\ phase \in Phases /\ left \subseteq Experiments /\ worst \in 0..2
  /\ harness.phase \in HarnessPhases
  /\ harness.phase \in {"commit", "tree", "digests", "work"} =>
       phase \in {"running", "terminating"}
  /\ phase \notin {"idle", "next", "done", "dead"} => run.exp \in Experiments
  /\ \A t \in queue \cup filed : t.exp \in Recorded /\ t.commit \in DOMAIN commits

\* A transcript that is filed can be rebuilt from the commit it names: nothing
\* else was on disk at any moment of the run, unless somebody undid, committed or
\* checked something out in the meantime.  Edits alone never get through, however
\* they fall between the reads of the runner and those of the harness.
FiledIsRebuildable ==
  \A t \in filed : ~t.upset => ~t.strayed

\* Nobody but others is to blame: if they left the tree alone, no transcript is
\* found to be of a dirty, moved or edited tree, because of an earlier result or
\* of anything else the runner did itself.
OnlyOthersDirty ==
  changes = 0 => blame \cap {"dirty", "commit", "tree", "moved", "script", "inputs"} = {}

\* What the second look at the worktree is for, in the words of the runner: a
\* filed transcript's run ended on the tree of the commit it names.
EndsOnItsCommit ==
  \A t \in filed : ~t.wandered

\* An invocation comes to its end, even if a harness hangs and ignores SIGTERM.
RunnerEnds == phase # "idle" ~> phase \in {"done", "dead"}
=============================================================================
