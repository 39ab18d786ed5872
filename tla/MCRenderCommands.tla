---- MODULE MCRenderCommands ----
(* Bounds for RenderCommands: one or two runs on three names.  Missions m1   *)
(* and m2 have different digests; installations i1 and i2.                   *)
EXTENDS RenderCommands, TLC

CONSTANTS r1, r2, a, b, c, f1, f2, m1, m2, i1, i2

MCFile == [p \in Runs |-> "lock"]
MCNoWait == [p \in Runs |-> 0]
MCOneTick == [p \in Runs |-> 1]

-----------------------------------------------------------------------------
Argo(m) ==
  [renderer |-> "argo", mission |-> m, installation |-> NoLabel,
   fingerprint |-> IF m = m1 THEN f1 ELSE f2,
   seesUnmissioned |-> FALSE, pruneGlobal |-> FALSE]

Kueue(m, i, global) ==
  [renderer |-> "kueue", mission |-> m, installation |-> i,
   fingerprint |-> IF m = m1 THEN f1 ELSE f2,
   seesUnmissioned |-> TRUE, pruneGlobal |-> global]

Manifest(doc, lint, gen) ==
  [entry |-> "file", readable |-> TRUE, docs |-> {doc}, lint |-> lint,
   gen |-> gen]

Of(r, lint, gen) == Manifest(MissionDoc(r), lint, gen)

Bundle(r, gen) == Manifest(BundleDoc(r), "ok", gen)

\* An operator's own file, in any of the ways an entry can be.
Theirs(entry, lint) ==
  [entry |-> entry, readable |-> lint # "malformed", docs |-> {},
   lint |-> lint, gen |-> "operator"]

-----------------------------------------------------------------------------
Job(kind, render, set, prune) ==
  [kind |-> kind, render |-> render, set |-> set @@ Nothing, prune |-> prune]

GateShrinks == Job("gate", Argo(m1), a :> Of(Argo(m1), "ok", "new"), TRUE)
GateGrows ==
  Job("gate", Argo(m1), [n \in {a, b} |-> Of(Argo(m1), "ok", "new")], FALSE)
GateEmpty == Job("gate", Argo(m1), Nothing, TRUE)
GateNothing == Job("gate", Argo(m1), Nothing, FALSE)
GateWrong == Job("gate", Argo(m2), c :> Of(Argo(m2), "rejected", "new"), FALSE)
ArgoPrunes == Job("argo", Argo(m1), b :> Of(Argo(m1), "ok", "newer"), TRUE)
ArgoWrong ==
  Job("argo", Argo(m2), [n \in {b, c} |-> Of(Argo(m2), "rejected", "new")],
      FALSE)
KueueBundle ==
  LET r == Kueue(m1, i1, FALSE) IN
  Job("kueue", r, (b :> Bundle(r, "new")) @@ (c :> Of(r, "ok", "new")), TRUE)
KueueShrinks ==
  LET r == Kueue(m1, i1, FALSE) IN
  Job("kueue", r, b :> Bundle(r, "new"), TRUE)
KueueRetires ==
  LET r == Kueue(m2, i1, TRUE) IN
  Job("kueue", r, c :> Of(r, "ok", "newer"), TRUE)

\* What earlier renders and operators left.
Previous ==
  [n \in {a, b, c} |->
     IF n = c THEN Theirs("file", "ok") ELSE Of(Argo(m1), "ok", "old")]
StaleInvalid ==
  (a :> Of(Argo(m1), "ok", "old")) @@ (b :> Of(Argo(m1), "rejected", "old"))
    @@ (c :> Of(Argo(m2), "ok", "old"))
OperatorInvalid == (b :> Theirs("file", "malformed")) @@ Nothing
OperatorSkipped == (b :> Theirs("file", "skipped")) @@ Nothing
OperatorLink == (c :> Theirs("link", "ok")) @@ Nothing
OperatorDir == (c :> Theirs("other", "ok")) @@ Nothing
OldBundle ==
  (b :> Bundle(Kueue(m1, i1, FALSE), "old"))
    @@ (c :> Of(Kueue(m1, i1, FALSE), "ok", "old")) @@ Nothing
OtherBundle == (b :> Bundle(Kueue(m2, i2, FALSE), "old")) @@ Nothing

\* A manifest of the mission that somebody has labelled as the installation's.
HandLabelled ==
  (b :> Manifest([MissionDoc(Argo(m1)) EXCEPT !.scope = "installation"],
                 "rejected", "old")) @@ Nothing

\* A managed manifest whose renderer label was made a list by hand.
Unhashable ==
  (c :> Manifest([MissionDoc(Kueue(m1, i1, FALSE)) EXCEPT !.renderer = NotAName],
                 "ok", "old")) @@ Nothing

AllStarts ==
  {Unhashable, Nothing, Previous, StaleInvalid, OperatorInvalid, OperatorSkipped,
   OperatorLink, OperatorDir, OldBundle, OtherBundle}

AllJobs ==
  {GateShrinks, GateGrows, GateEmpty, GateNothing, GateWrong, ArgoPrunes,
   ArgoWrong, KueueBundle, KueueRetires}

FilesOf(sets) == UNION {{s[n] : n \in Names} : s \in sets} \ {Absent}

SomeJobs == {GateShrinks, ArgoPrunes, KueueShrinks}
SomeStarts == {StaleInvalid, OldBundle}
HandStarts == {HandLabelled}

Rendering == {j.set : j \in AllJobs \cup SomeJobs}
MCFiles == FilesOf(AllStarts \cup Rendering)
HandFiles == FilesOf(HandStarts \cup Rendering)
====
