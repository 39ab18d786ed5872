------------------------ MODULE ExperimentRunnerProofs ------------------------
(***************************************************************************)
(* What is filed can be rebuilt, for any experiments, any tree and any     *)
(* number of changes that others make to it.                               *)
(***************************************************************************)
EXTENDS ExperimentRunner, TLAPS

Runs ==
  [exp : Experiments \cup {0}, head : Nat, script : Versions \cup {"none"},
   inputs : Versions \cup {"none"}, clean : BOOLEAN, unchanged : BOOLEAN,
   strayed : BOOLEAN, wandered : BOOLEAN, upset : BOOLEAN]
Outputs ==
  [commit : Nat, tree : {"none", "clean", "DIRTY", "unknown"}, script : Versions \cup {"none"},
   inputs : Versions \cup {"none"}, rest : BOOLEAN, phase : HarnessPhases, rc : {0, 1}]

Attributed == {"hash", "start", "running", "terminating", "after", "rehash", "judge"}

\* The types of the records, and a run's commit, once read, is one there is.
RunnerTyped ==
  /\ RunnerTypeOK
  /\ run \in Runs /\ harness \in Outputs
  /\ phase \in Attributed => run.head \in DOMAIN commits

LEMMA ConstantFacts ==
  /\ Experiments = 1..Len(Scripts) /\ Len(Scripts) \in Nat
  /\ \A e \in Experiments : Scripts[e] \in Paths /\ Inputs[e] \in Paths \cup {"none"}
  /\ "absent" \in Versions /\ "none" \notin Paths \cup Versions /\ MaxChanges \in Nat
  /\ Recorded \subseteq Experiments /\ Branches \in Seq(Contents) /\ Branches # <<>>
BY ExperimentsAssumption DEF Experiments

\* A digest is a version, or the mark that there is none.
LEMMA DigestTyped ==
  ASSUME RunnerTyped, NEW e \in Experiments
  PROVE  DigestOf(Inputs[e], "none") \in Versions \cup {"none"} /\ disk[Scripts[e]] \in Versions
BY ConstantFacts DEF RunnerTyped, RunnerTypeOK, DigestOf, Contents

LEMMA RunnerTypeInductive == Init => RunnerTyped
<1> SUFFICES ASSUME Init PROVE RunnerTyped
  OBVIOUS
<1>1. disk \in Contents /\ commits \in Seq(Contents) /\ head \in DOMAIN commits
  BY ConstantFacts DEF Init
<1>2. run \in Runs
  BY DEF Init, NoRun, Runs
<1>3. harness \in Outputs
  BY DEF Init, Silent, Outputs, HarnessPhases
<1> QED
  BY <1>1, <1>2, <1>3, ConstantFacts DEF Init, RunnerTyped, RunnerTypeOK, Attributed, Phases, HarnessPhases, Silent

\* Returning from run() leaves records of the right types, whatever the code.
LEMMA ReturnTyped ==
  ASSUME RunnerTyped, NEW code \in 0..2, Return(code)
  PROVE  /\ run' \in Runs /\ harness' \in Outputs /\ worst' \in 0..2
         /\ phase' = "next" /\ harness'.phase = "none"
<1>1. run' \in Runs /\ harness' \in Outputs /\ harness'.phase = "none"
  BY DEF Return, NoRun, Runs, Silent, Outputs, HarnessPhases
<1>2. worst' \in 0..2
  BY DEF Return, WorseOf, RunnerTyped, RunnerTypeOK
<1> QED
  BY <1>1, <1>2 DEF Return

\* What others do changes the run's memory of them and nothing else of the runner.
LEMMA OthersTyped ==
  ASSUME RunnerTyped, NEW upsets \in BOOLEAN, Watched(upsets), Change
  PROVE  /\ run' \in Runs /\ run'.exp = run.exp /\ run'.head = run.head
         /\ run'.clean = run.clean
         /\ phase' = phase /\ left' = left /\ harness' = harness /\ worst' = worst
         /\ queue' = queue /\ filed' = filed /\ changes' \in 0..MaxChanges
<1>1. run' \in Runs /\ run'.exp = run.exp /\ run'.head = run.head /\ run'.clean = run.clean
  BY DEF RunnerTyped, Runs, Watched, UnderTest
<1> QED
  BY <1>1, ConstantFacts DEF Change, RunnerTyped, RunnerTypeOK

LEMMA RunnerTypeStep == RunnerTyped /\ [Next]_vars => RunnerTyped'
<1> SUFFICES ASSUME RunnerTyped, [Next]_vars PROVE RunnerTyped'
  OBVIOUS
<1> USE ConstantFacts DEF Attributed, Phases, HarnessPhases
<1>1. CASE Invoke
  BY <1>1 DEF Invoke, tree, RunnerTyped, RunnerTypeOK
<1>2. CASE CheckTree
  <2> PICK e \in left :
        /\ left' = left \ {e}
        /\ \/ disk[Scripts[e]] = "absent" /\ UNCHANGED <<phase, run, harness, blame, worst>>
           \/ \E p \in {"git", "dirty"} : NotCitable({p})
           \/ run' = [NoRun EXCEPT !.exp = e] /\ phase' = "head" /\ UNCHANGED <<harness, blame, worst>>
    BY <1>2 DEF CheckTree
  <2>1. UNCHANGED <<commits, head, disk, unsaved, changes, queue, filed>> /\ phase = "next" /\ left' \subseteq Experiments
    BY <1>2 DEF CheckTree, tree, RunnerTyped, RunnerTypeOK
  <2>2. CASE UNCHANGED <<phase, run, harness, blame, worst>>
    BY <2>1, <2>2 DEF RunnerTyped, RunnerTypeOK
  <2>3. CASE \E p \in {"git", "dirty"} : NotCitable({p})
    BY <2>1, <2>3, ReturnTyped DEF NotCitable, RunnerTyped, RunnerTypeOK
  <2>4. CASE run' = [NoRun EXCEPT !.exp = e] /\ phase' = "head" /\ UNCHANGED <<harness, blame, worst>>
    <3>1. run' \in Runs /\ run'.exp \in Experiments
      BY <2>4 DEF NoRun, Runs, RunnerTyped, RunnerTypeOK
    <3> QED
      BY <2>1, <2>4, <3>1 DEF RunnerTyped, RunnerTypeOK
  <2> QED
    BY <2>2, <2>3, <2>4
<1>3. CASE ReadHead
  <2>1. CASE NotCitable({"git"})
    BY <1>3, <2>1, ReturnTyped DEF ReadHead, NotCitable, tree, RunnerTyped, RunnerTypeOK
  <2>2. CASE run' = [run EXCEPT !.head = head] /\ phase' = "hash" /\ UNCHANGED <<harness, worst>>
    <3>1. head \in Nat
      BY DEF RunnerTyped, RunnerTypeOK
    <3>2. run' \in Runs /\ run'.exp = run.exp /\ run'.head = head
      BY <2>2, <3>1 DEF Runs, RunnerTyped
    <3> QED
      BY <1>3, <2>2, <3>2 DEF ReadHead, tree, RunnerTyped, RunnerTypeOK
  <2> QED
    BY <1>3, <2>1, <2>2 DEF ReadHead
<1>4. CASE HashScript
  <2>1. disk[Scripts[run.exp]] \in Versions
    BY <1>4, DigestTyped DEF HashScript, RunnerTyped, RunnerTypeOK
  <2>2. run' \in Runs /\ run'.exp = run.exp /\ run'.head = run.head
    BY <1>4, <2>1 DEF HashScript, Runs, RunnerTyped
  <2> QED
    BY <1>4, <2>2 DEF HashScript, tree, RunnerTyped, RunnerTypeOK
<1>5. CASE StartHarness
  <2>1. DigestOf(Inputs[run.exp], "none") \in Versions \cup {"none"}
    BY <1>5, DigestTyped DEF StartHarness, RunnerTyped, RunnerTypeOK
  <2>2. run' \in Runs /\ run'.exp = run.exp /\ run'.head = run.head
    BY <1>5, <2>1 DEF StartHarness, Runs, RunnerTyped
  <2>3. harness' \in Outputs
    BY <1>5 DEF StartHarness, Silent, Outputs
  <2> QED
    BY <1>5, <2>2, <2>3 DEF StartHarness, tree, RunnerTyped, RunnerTypeOK
<1>6. CASE EmitCommit \/ EmitTree \/ EmitDigests
  <2>1. /\ UNCHANGED <<tree, runner>>
        /\ harness.phase \in {"commit", "tree", "digests"}
        /\ harness'.phase \in {"tree", "digests", "work"}
    BY <1>6 DEF EmitCommit, EmitTree, EmitDigests, Prints, RunnerTyped, Outputs
  <2>2. harness' \in Outputs
    <3>1. CASE EmitCommit
      <4>1. head \in Nat
        BY DEF RunnerTyped, RunnerTypeOK
      <4>2. PICK c \in {0, head} : Prints(<<"commit", "tree">>, [harness EXCEPT !.commit = c])
        BY <3>1 DEF EmitCommit
      <4>3. c \in Nat
        BY <4>1
      <4> QED
        BY <4>2, <4>3 DEF Prints, RunnerTyped, Outputs
    <3>2. CASE EmitTree
      <4>1. PICK t : /\ t \in {"DIRTY", "clean", "unknown"}
                     /\ harness' = [[harness EXCEPT !.tree = t] EXCEPT !.phase = "digests"]
        BY <3>2, Zenon DEF EmitTree, Prints
      <4> QED
        BY <4>1 DEF RunnerTyped, Outputs
    <3>3. CASE EmitDigests
      <4>1. run.exp \in Experiments
        BY <2>1 DEF RunnerTyped, RunnerTypeOK
      <4> QED
        BY <3>3, <4>1, DigestTyped DEF EmitDigests, Prints, RunnerTyped, Outputs
    <3> QED
      BY <1>6, <3>1, <3>2, <3>3
  <2> QED
    BY <2>1, <2>2 DEF tree, runner, RunnerTyped, RunnerTypeOK
<1>7. CASE HarnessEnds
  <2>1. run' \in Runs /\ run'.exp = run.exp /\ run'.head = run.head
    BY <1>7 DEF HarnessEnds, Runs, RunnerTyped
  <2>2. harness' \in Outputs /\ harness'.phase = "ended"
    BY <1>7 DEF HarnessEnds, Outputs, RunnerTyped
  <2> QED
    BY <1>7, <2>1, <2>2 DEF HarnessEnds, tree, RunnerTyped, RunnerTypeOK
<1>8. CASE HarnessDone \/ TimesOut
  BY <1>8 DEF HarnessDone, TimesOut, tree, RunnerTyped, RunnerTypeOK
<1>9. CASE GiveUp
  BY <1>9, ReturnTyped DEF GiveUp, tree, RunnerTyped, RunnerTypeOK
<1>10. CASE CheckAfter
  <2>1. CASE NotCitable({"git"})
    BY <1>10, <2>1, ReturnTyped DEF CheckAfter, NotCitable, tree, RunnerTyped, RunnerTypeOK
  <2>2. CASE phase' = "rehash" /\ run' = [run EXCEPT !.clean = ~Dirty] /\ UNCHANGED <<harness, worst>>
    <3>1. run' \in Runs /\ run'.exp = run.exp /\ run'.head = run.head
      BY <2>2 DEF Runs, RunnerTyped, Dirty
    <3> QED
      BY <1>10, <2>2, <3>1 DEF CheckAfter, tree, RunnerTyped, RunnerTypeOK
  <2> QED
    BY <1>10, <2>1, <2>2 DEF CheckAfter
<1>11. CASE HashScriptAgain
  <2>1. run' \in Runs /\ run'.exp = run.exp /\ run'.head = run.head
    <3>1. run' = run \/ \E b \in BOOLEAN : run' = [run EXCEPT !.unchanged = b]
      BY <1>11 DEF HashScriptAgain
    <3> QED
      BY <3>1 DEF Runs, RunnerTyped
  <2> QED
    BY <1>11, <2>1 DEF HashScriptAgain, tree, RunnerTyped, RunnerTypeOK
<1>12. CASE Reject
  BY <1>12, ReturnTyped DEF Reject, NotCitable, tree, RunnerTyped, RunnerTypeOK
<1>13. CASE Accept
  <2>1. Return(0) \/ Return(1)
    BY <1>13 DEF Accept
  <2>2. run' \in Runs /\ harness' \in Outputs /\ worst' \in 0..2 /\ phase' = "next" /\ harness'.phase = "none"
    BY <2>1, ReturnTyped
  <2>3. \A t \in queue' : t \in queue \/ (t = Transcript /\ run.exp \in Recorded)
    BY <1>13 DEF Accept
  <2>4. Transcript.exp = run.exp /\ Transcript.commit = run.head /\ run.head \in DOMAIN commits
    BY <1>13 DEF Accept, Transcript, RunnerTyped
  <2> QED
    BY <1>13, <2>2, <2>3, <2>4 DEF Accept, tree, RunnerTyped, RunnerTypeOK
<1>14. CASE FileResult
  BY <1>14 DEF FileResult, RunnerTyped, RunnerTypeOK
<1>15. CASE Exit
  BY <1>15 DEF Exit, tree, RunnerTyped, RunnerTypeOK
<1>16. CASE Edit
  <2>1. disk' \in Contents /\ UNCHANGED <<commits, head, unsaved>>
    BY <1>16 DEF Edit, Contents, RunnerTyped, RunnerTypeOK
  <2> QED
    BY <1>16, <2>1, OthersTyped DEF Edit, RunnerTyped, RunnerTypeOK
<1>17. CASE Restore
  <2>1. disk' \in Contents /\ unsaved' = {} /\ UNCHANGED <<commits, head>>
    BY <1>17 DEF Restore, RunnerTyped, RunnerTypeOK
  <2> QED
    BY <1>17, <2>1, OthersTyped DEF Restore, RunnerTyped, RunnerTypeOK
<1>18. CASE CommitAll
  <2>1. commits' \in Seq(Contents) /\ head' \in DOMAIN commits' /\ DOMAIN commits \subseteq DOMAIN commits'
    BY <1>18 DEF CommitAll, RunnerTyped, RunnerTypeOK
  <2> QED
    BY <1>18, <2>1, OthersTyped DEF CommitAll, RunnerTyped, RunnerTypeOK
<1>19. CASE Switch
  <2>1. disk' \in Contents /\ head' \in DOMAIN commits /\ UNCHANGED <<commits, unsaved>>
    BY <1>19 DEF Switch, RunnerTyped, RunnerTypeOK
  <2> QED
    BY <1>19, <2>1, OthersTyped DEF Switch, RunnerTyped, RunnerTypeOK
<1>20. CASE UNCHANGED vars
  BY <1>20 DEF vars, tree, runner, RunnerTyped, RunnerTypeOK
<1> QED
  BY <1>1, <1>2, <1>3, <1>4, <1>5, <1>6, <1>7, <1>8, <1>9, <1>10, <1>11, <1>12, <1>13, <1>14,
     <1>15, <1>16, <1>17, <1>18, <1>19, <1>20 DEF Next, Proceeds

\* The types and the whereabouts of runner and harness, for every tree, every
\* registry of experiments and every order in which runner, harness and others act.
THEOREM RunnerTypeCorrect == Spec => []RunnerTypeOK
<1>1. RunnerTyped => RunnerTypeOK
  BY DEF RunnerTyped
<1> QED
  BY <1>1, RunnerTypeInductive, RunnerTypeStep, PTL DEF Spec

-----------------------------------------------------------------------------
\* Until somebody undoes, commits or switches, the run's commit is the one that is
\* checked out, and a tree that strayed (none has before the harness is started) from it stays dirty until it is looked at.
Traced ==
  /\ (phase \in Attributed \ {"rehash", "judge"} /\ ~run.upset) =>
       /\ run.head = head
       /\ run.strayed => disk # commits[head]
  /\ phase = "head" => ~run.strayed
  /\ (phase \in {"rehash", "judge"} /\ ~run.upset /\ run.strayed) => ~run.clean
  /\ \A t \in queue \cup filed : ~t.upset => ~t.strayed

\* Phases that are left alone keep what is known of the run.
LEMMA TracedByReturn ==
  ASSUME Traced, NEW code, Return(code), UNCHANGED <<queue, filed>>
  PROVE  Traced'
BY DEF Traced, Attributed, Return, NoRun

\* An edit leaves a tree that differs from what is committed, and one that already
\* did still does.
LEMMA EditsStay ==
  ASSUME RunnerTyped, Edit
  PROVE  disk' # commits'[head'] /\ UNCHANGED <<commits, head>>
<1>1. PICK p \in Paths, v \in Versions : v # commits[head][p] /\ disk' = [disk EXCEPT ![p] = v]
  BY DEF Edit
<1>2. disk'[p] = v
  BY <1>1 DEF RunnerTyped, RunnerTypeOK, Contents
<1> QED
  BY <1>1, <1>2 DEF Edit

LEMMA TracedStep == RunnerTyped /\ Traced /\ [Next]_vars => Traced'
<1> SUFFICES ASSUME RunnerTyped, Traced, [Next]_vars PROVE Traced'
  OBVIOUS
<1> USE DEF Attributed
<1>1. CASE Invoke
  BY <1>1 DEF Invoke, tree, Traced
<1>2. CASE CheckTree
  <2>1. UNCHANGED <<tree, queue, filed>> /\ phase = "next"
    BY <1>2 DEF CheckTree
  <2>2. \/ UNCHANGED <<phase, run>>
        \/ \E p \in {"git", "dirty"} : NotCitable({p})
        \/ phase' = "head" /\ ~run'.strayed
    BY <1>2 DEF CheckTree, NoRun
  <2> QED
    BY <2>1, <2>2, TracedByReturn DEF NotCitable, tree, Traced
<1>3. CASE ReadHead
  <2>1. CASE NotCitable({"git"})
    BY <1>3, <2>1, TracedByReturn DEF ReadHead, NotCitable
  <2>2. CASE run' = [run EXCEPT !.head = head] /\ phase' = "hash"
    <3>1. run'.head = head /\ run'.strayed = run.strayed /\ run'.upset = run.upset
      BY <2>2 DEF RunnerTyped, Runs
    <3>2. ~run.strayed
      BY <1>3 DEF ReadHead, Traced, RunnerTyped
    <3> QED
      BY <1>3, <2>2, <3>1, <3>2 DEF ReadHead, tree, Traced
  <2> QED
    BY <1>3, <2>1, <2>2 DEF ReadHead
<1>4. CASE HashScript
  <2>1. run'.head = run.head /\ run'.strayed = run.strayed /\ run'.upset = run.upset
    BY <1>4 DEF HashScript, RunnerTyped, Runs
  <2> QED
    BY <1>4, <2>1 DEF HashScript, tree, Traced
<1>5. CASE StartHarness
  <2>1. /\ run'.head = run.head /\ run'.upset = run.upset
        /\ run'.strayed = (disk # commits[run.head])
    BY <1>5 DEF StartHarness, RunnerTyped, Runs
  <2> QED
    BY <1>5, <2>1 DEF StartHarness, tree, Traced
<1>6. CASE EmitCommit \/ EmitTree \/ EmitDigests
  BY <1>6 DEF EmitCommit, EmitTree, EmitDigests, tree, runner, Traced
<1>7. CASE HarnessEnds
  <2>1. run'.head = run.head /\ run'.strayed = run.strayed /\ run'.upset = run.upset /\ run'.clean = run.clean
    BY <1>7 DEF HarnessEnds, RunnerTyped, Runs
  <2> QED
    BY <1>7, <2>1 DEF HarnessEnds, tree, Traced
<1>8. CASE HarnessDone \/ TimesOut \/ Exit
  BY <1>8 DEF HarnessDone, TimesOut, Exit, tree, Traced
<1>9. CASE GiveUp
  BY <1>9, TracedByReturn DEF GiveUp
<1>10. CASE CheckAfter
  <2>1. CASE NotCitable({"git"})
    BY <1>10, <2>1, TracedByReturn DEF CheckAfter, NotCitable
  <2>2. CASE phase' = "rehash" /\ run' = [run EXCEPT !.clean = ~Dirty]
    <3>1. /\ run'.strayed = run.strayed /\ run'.upset = run.upset
          /\ run'.clean = ~Dirty
      BY <2>2 DEF RunnerTyped, Runs
    <3>2. ~run.upset /\ run.strayed => Dirty
      BY <1>10 DEF CheckAfter, Traced, Dirty
    <3> QED
      BY <1>10, <2>2, <3>1, <3>2 DEF CheckAfter, Traced
  <2> QED
    BY <1>10, <2>1, <2>2 DEF CheckAfter
<1>11. CASE HashScriptAgain
  <2>1. run'.strayed = run.strayed /\ run'.upset = run.upset /\ run'.clean = run.clean
    <3>1. run' = run \/ \E b \in BOOLEAN : run' = [run EXCEPT !.unchanged = b]
      BY <1>11 DEF HashScriptAgain
    <3> QED
      BY <3>1 DEF RunnerTyped, Runs
  <2> QED
    BY <1>11, <2>1 DEF HashScriptAgain, Traced
<1>12. CASE Reject
  BY <1>12, TracedByReturn DEF Reject, NotCitable
<1>13. CASE Accept
  <2>1. run.clean
    BY <1>13 DEF Accept, Problems
  <2>2. ~Transcript.upset => ~Transcript.strayed
    BY <1>13, <2>1 DEF Accept, Transcript, Traced
  <2>3. \A t \in queue' \cup filed' : t \in queue \cup filed \/ t = Transcript
    BY <1>13 DEF Accept
  <2>4. phase' = "next"
    BY <1>13 DEF Accept, Return
  <2> QED
    BY <2>2, <2>3, <2>4 DEF Traced
<1>14. CASE FileResult
  BY <1>14 DEF FileResult, Traced
<1>15. CASE Edit
  <2>1. UNCHANGED <<phase, queue, filed, commits, head>> /\ disk' # commits[head]
    BY <1>15, EditsStay DEF Edit, Change
  <2>2. /\ run'.head = run.head /\ run'.clean = run.clean /\ run'.upset = run.upset
        /\ phase \notin {"running", "terminating"} => run'.strayed = run.strayed
    BY <1>15 DEF Edit, Watched, RunnerTyped, Runs
  <2> QED
    BY <2>1, <2>2 DEF Traced
<1>16. CASE Restore \/ CommitAll \/ Switch
  <2>1. Watched(TRUE) /\ Change
    BY <1>16 DEF Restore, CommitAll, Switch
  <2>2. /\ UnderTest => run'.upset
        /\ phase \notin {"running", "terminating"} => run'.strayed = run.strayed
        /\ ~UnderTest => run'.upset = run.upset /\ run'.clean = run.clean
    BY <2>1 DEF Watched, UnderTest, RunnerTyped, Runs
  <2> QED
    BY <2>1, <2>2 DEF Change, UnderTest, Traced
<1>17. CASE UNCHANGED vars
  BY <1>17 DEF vars, tree, runner, Traced
<1> QED
  BY <1>1, <1>2, <1>3, <1>4, <1>5, <1>6, <1>7, <1>8, <1>9, <1>10, <1>11, <1>12, <1>13, <1>14,
     <1>15, <1>16, <1>17 DEF Next, Proceeds

\* Whatever is filed was, at every moment of its run, of the commit it names, unless
\* somebody undid, committed or switched meanwhile: for any number of edits, made
\* anywhere between the reads of the runner and of its harness.
THEOREM FiledTranscriptsAreRebuildable == Spec => []FiledIsRebuildable
<1>1. Init => Traced
  BY DEF Init, NoRun, Traced, Attributed
<1>2. Traced => FiledIsRebuildable
  BY DEF Traced, FiledIsRebuildable
<1> QED
  BY <1>1, <1>2, RunnerTypeInductive, RunnerTypeStep, TracedStep, PTL DEF Spec

-----------------------------------------------------------------------------
Accusations == {"dirty", "commit", "tree", "moved", "script", "inputs"}
ScriptOnDisk == disk[Scripts[run.exp]]
InputsOnDisk == DigestOf(Inputs[run.exp], "none")
Watching == {"running", "terminating", "after", "rehash", "judge"}

\* As long as others leave the tree alone, all that runner and harness have read of
\* it is what is still there, and no result is filed while a run is to come.
ReadsAgree ==
  /\ disk = commits[head]
  /\ (left # {} \/ phase \notin {"next", "done", "dead"}) => unsaved = {}
  /\ phase \in Attributed => run.head = head
  /\ phase \in Attributed \ {"hash"} => run.script = ScriptOnDisk
  /\ phase \in Watching => run.inputs = InputsOnDisk
  /\ phase \in {"rehash", "judge"} => run.clean
  /\ phase = "judge" => run.unchanged
  /\ phase \in Watching =>
       /\ harness.commit \in {0, head} /\ harness.tree # "DIRTY"
       /\ harness.script \in {"none", ScriptOnDisk} /\ harness.inputs \in {"none", InputsOnDisk}

Blameless == changes = 0 => ReadsAgree /\ blame \cap Accusations = {}

\* With such reads nothing but a missing line can be held against a transcript.
LEMMA NothingToBlame ==
  ASSUME RunnerTyped, ReadsAgree, phase = "judge"
  PROVE  Problems \subseteq {"lines"}
<1>1. run.exp \in Experiments
  BY DEF RunnerTyped, RunnerTypeOK
<1>2. Inputs[run.exp] # "none" => /\ InputsOnDisk = disk[Inputs[run.exp]]
                                  /\ disk[Inputs[run.exp]] \in Versions
                                  /\ "none" \notin Versions
  BY <1>1, ConstantFacts DEF InputsOnDisk, DigestOf, RunnerTyped, RunnerTypeOK, Contents
<1>3. Inputs[run.exp] # "none" => {disk[Inputs[run.exp]], harness.inputs} \ {"none"} = {run.inputs}
  BY <1>2 DEF ReadsAgree, Watching, Attributed
<1>4. /\ harness.commit \in {0, run.head} /\ harness.tree # "DIRTY" /\ run.clean
      /\ harness.script \in {"none", run.script} /\ run.unchanged
  BY DEF ReadsAgree, Watching, Attributed
<1> QED
  BY <1>3, <1>4 DEF Problems

\* A run that ends without an accusation leaves reads that agree.
LEMMA AgreesByReturn ==
  ASSUME Blameless, NEW code, Return(code), UNCHANGED <<tree, left>>,
         phase \notin {"next", "done", "dead"}, blame' \subseteq blame \cup {"lines", "git"}
  PROVE  Blameless'
<1> SUFFICES ASSUME changes = 0 PROVE ReadsAgree' /\ blame' \cap Accusations = {}
  BY DEF Blameless, tree
<1>1. ReadsAgree'
  BY DEF Blameless, ReadsAgree, Return, tree, Attributed, Watching
<1>2. blame' \cap Accusations = {}
  BY DEF Blameless, Accusations
<1> QED
  BY <1>1, <1>2

LEMMA BlamelessStep == RunnerTyped /\ Blameless /\ [Next]_vars => Blameless'
<1> SUFFICES ASSUME RunnerTyped, Blameless, [Next]_vars PROVE Blameless'
  OBVIOUS
<1>1. CASE Edit \/ Restore \/ CommitAll \/ Switch
  <2>1. changes' = changes + 1 /\ changes \in Nat
    <3>1. Change
      BY <1>1 DEF Edit, Restore, CommitAll, Switch
    <3>2. changes \in Nat
      BY ConstantFacts DEF RunnerTyped, RunnerTypeOK
    <3> QED
      BY <3>1, <3>2 DEF Change
  <2> QED
    BY <2>1 DEF Blameless
<1>2. CASE ~(Edit \/ Restore \/ CommitAll \/ Switch)
  <2> SUFFICES ASSUME changes' = 0 PROVE ReadsAgree' /\ blame' \cap Accusations = {}
    BY DEF Blameless
  <2>1. UNCHANGED <<commits, head, disk, changes>>
    <3>1. CASE Proceeds
      BY <3>1 DEF Proceeds, CheckTree, ReadHead, HashScript, StartHarness, HarnessDone, TimesOut,
         GiveUp, CheckAfter, HashScriptAgain, Reject, Accept, FileResult, Exit, tree
    <3>2. CASE Invoke \/ EmitCommit \/ EmitTree \/ EmitDigests \/ HarnessEnds \/ UNCHANGED vars
      BY <3>2 DEF Invoke, EmitCommit, EmitTree, EmitDigests, HarnessEnds, tree, vars
    <3> QED
      BY <1>2, <3>1, <3>2 DEF Next
  <2>2. ReadsAgree /\ blame \cap Accusations = {}
    BY <2>1 DEF Blameless
  <2> USE <2>1, <2>2 DEF Attributed, Watching
  <2>3. CASE Invoke \/ HarnessDone \/ TimesOut \/ Exit
    BY <2>3 DEF Invoke, HarnessDone, TimesOut, Exit, tree, ReadsAgree, ScriptOnDisk, InputsOnDisk, DigestOf
  <2>4. CASE CheckTree
    <3>1. PICK e \in left : TRUE
      BY <2>4 DEF CheckTree
    <3>2. ~Dirty /\ unsaved = {} /\ phase = "next"
      BY <2>4, <3>1 DEF ReadsAgree, Dirty, CheckTree
    <3>3. \/ UNCHANGED <<phase, run, blame>>
          \/ NotCitable({"git"})
          \/ phase' = "head" /\ UNCHANGED blame
      BY <2>4, <3>2 DEF CheckTree
    <3>4. blame' \cap Accusations = {} /\ unsaved' = {} /\ phase' \in {"next", "head"}
      BY <2>4, <3>2, <3>3 DEF CheckTree, NotCitable, Return, Accusations, tree
    <3> QED
      BY <3>4 DEF ReadsAgree
  <2>5. CASE ReadHead
    <3>1. CASE NotCitable({"git"})
      BY <2>5, <3>1, AgreesByReturn DEF ReadHead, NotCitable, Blameless
    <3>2. CASE run' = [run EXCEPT !.head = head] /\ phase' = "hash" /\ UNCHANGED blame
      BY <2>5, <3>2 DEF ReadHead, ReadsAgree, RunnerTyped, Runs, tree
    <3> QED
      BY <2>5, <3>1, <3>2 DEF ReadHead
  <2>6. CASE HashScript
    <3>1. CASE phase' = "dead"
      BY <2>6, <3>1 DEF HashScript, ReadsAgree, tree
    <3>2. CASE phase' = "start" /\ run' = [run EXCEPT !.script = ScriptOnDisk]
      <4>1. run'.exp = run.exp /\ run'.head = run.head /\ run'.script = ScriptOnDisk
        BY <3>2 DEF RunnerTyped, Runs
      <4> QED
        BY <2>6, <3>2, <4>1 DEF HashScript, ReadsAgree, ScriptOnDisk, tree
    <3> QED
      BY <2>6, <3>1, <3>2 DEF HashScript, ScriptOnDisk
  <2>7. CASE StartHarness
    <3>1. /\ run'.exp = run.exp /\ run'.head = run.head /\ run'.script = run.script
          /\ run'.inputs = InputsOnDisk
      BY <2>7 DEF StartHarness, InputsOnDisk, RunnerTyped, Runs
    <3>2. harness'.commit = 0 /\ harness'.tree = "none" /\ harness'.script = "none" /\ harness'.inputs = "none"
      BY <2>7 DEF StartHarness, Silent
    <3> QED
      BY <2>7, <3>1, <3>2 DEF StartHarness, ReadsAgree, ScriptOnDisk, InputsOnDisk, DigestOf, tree
  <2>8. CASE EmitCommit \/ EmitTree \/ EmitDigests
    <3>1. UNCHANGED <<tree, runner>> /\ phase \in {"running", "terminating"}
      BY <2>8 DEF EmitCommit, EmitTree, EmitDigests, Prints, RunnerTyped, RunnerTypeOK
    <3>2. ~Dirty
      BY <3>1 DEF ReadsAgree, Dirty
    <3>3. /\ harness'.commit \in {0, head} /\ harness'.tree # "DIRTY"
          /\ harness'.script \in {"none", ScriptOnDisk} /\ harness'.inputs \in {"none", InputsOnDisk}
      <4>1. CASE EmitCommit
        BY <3>1, <4>1 DEF EmitCommit, Prints, ReadsAgree, RunnerTyped, Outputs
      <4>2. CASE EmitTree
        BY <3>1, <3>2, <4>2 DEF EmitTree, Prints, ReadsAgree, RunnerTyped, Outputs
      <4>3. CASE EmitDigests
        BY <3>1, <4>3 DEF EmitDigests, Prints, ReadsAgree, ScriptOnDisk, InputsOnDisk, RunnerTyped, Outputs
      <4> QED
        BY <2>8, <4>1, <4>2, <4>3
    <3> QED
      BY <3>1, <3>3 DEF ReadsAgree, ScriptOnDisk, InputsOnDisk, DigestOf, tree, runner
  <2>9. CASE HarnessEnds
    <3>1. /\ run'.exp = run.exp /\ run'.head = run.head /\ run'.script = run.script
          /\ run'.inputs = run.inputs /\ run'.clean = run.clean /\ run'.unchanged = run.unchanged
      BY <2>9 DEF HarnessEnds, RunnerTyped, Runs
    <3>2. /\ harness'.commit = harness.commit /\ harness'.tree = harness.tree
          /\ harness'.script = harness.script /\ harness'.inputs = harness.inputs
      BY <2>9 DEF HarnessEnds, RunnerTyped, Outputs
    <3> QED
      BY <2>9, <3>1, <3>2 DEF HarnessEnds, ReadsAgree, ScriptOnDisk, InputsOnDisk, DigestOf, tree
  <2>10. CASE GiveUp
    BY <2>10, AgreesByReturn DEF GiveUp, Blameless
  <2>11. CASE CheckAfter
    <3>1. CASE NotCitable({"git"})
      BY <2>11, <3>1, AgreesByReturn DEF CheckAfter, NotCitable, Blameless
    <3>2. CASE phase' = "rehash" /\ run' = [run EXCEPT !.clean = ~Dirty] /\ UNCHANGED <<harness, blame>>
      <4>1. ~Dirty
        BY <2>11 DEF CheckAfter, ReadsAgree, Dirty
      <4>2. /\ run'.exp = run.exp /\ run'.head = run.head /\ run'.script = run.script
            /\ run'.inputs = run.inputs /\ run'.clean
        BY <3>2, <4>1 DEF RunnerTyped, Runs
      <4> QED
        BY <2>11, <3>2, <4>2 DEF CheckAfter, ReadsAgree, ScriptOnDisk, InputsOnDisk, DigestOf, tree
    <3> QED
      BY <2>11, <3>1, <3>2 DEF CheckAfter
  <2>12. CASE HashScriptAgain
    <3>1. CASE phase' = "dead"
      BY <2>12, <3>1 DEF HashScriptAgain, ReadsAgree, tree
    <3>2. CASE phase' = "judge" /\ run' = [run EXCEPT !.unchanged = TRUE]
      <4>1. /\ run'.exp = run.exp /\ run'.head = run.head /\ run'.script = run.script
            /\ run'.inputs = run.inputs /\ run'.clean = run.clean /\ run'.unchanged
        BY <3>2 DEF RunnerTyped, Runs
      <4> QED
        BY <2>12, <3>2, <4>1 DEF HashScriptAgain, ReadsAgree, ScriptOnDisk, InputsOnDisk, DigestOf, tree
    <3>3. phase = "rehash" /\ (ScriptOnDisk = run.script) = TRUE
      BY <2>12 DEF HashScriptAgain, ReadsAgree
    <3> QED
      BY <2>12, <3>1, <3>2, <3>3 DEF HashScriptAgain, ScriptOnDisk
  <2>13. CASE Reject
    <3>1. blame' \subseteq blame \cup {"lines", "git"}
      BY <2>13, NothingToBlame DEF Reject, NotCitable
    <3> QED
      BY <2>13, <3>1, AgreesByReturn DEF Reject, NotCitable, Blameless
  <2>14. CASE Accept
    BY <2>14, AgreesByReturn DEF Accept, Blameless
  <2>15. CASE FileResult
    BY <2>15 DEF FileResult, ReadsAgree
  <2>16. CASE UNCHANGED vars
    BY <2>16 DEF vars, tree, runner, ReadsAgree, ScriptOnDisk, InputsOnDisk, DigestOf
  <2> QED
    BY <1>2, <2>3, <2>4, <2>5, <2>6, <2>7, <2>8, <2>9, <2>10, <2>11, <2>12, <2>13, <2>14, <2>15, <2>16
       DEF Next, Proceeds
<1> QED
  BY <1>1, <1>2

\* If nobody else touches the tree, the runner never finds it dirty, moved or edited
\* by its own doing, for any number of experiments that file results.
THEOREM RunnerBlamesOnlyOthers == Spec => []OnlyOthersDirty
<1>1. Init => Blameless
  BY DEF Init, Blameless, ReadsAgree, Attributed, Watching
<1>2. Blameless => OnlyOthersDirty
  BY DEF Blameless, OnlyOthersDirty, Accusations
<1> QED
  BY <1>1, <1>2, RunnerTypeInductive, RunnerTypeStep, BlamelessStep, PTL DEF Spec
=============================================================================
