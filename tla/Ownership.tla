------------------------------ MODULE Ownership ------------------------------
(***************************************************************************)
(* Whose a file in the output directory is, and what a render may do to it:*)
(* compiler.py, from _is_rendered_artifact to preflight_writable, and the  *)
(* partition of _report_stale in cli.py.                                   *)
(*                                                                         *)
(* A manifest is what lstat and a read say of a directory entry:           *)
(*   entry     "file", "link" or "other"                                   *)
(*   readable  it parses, and every non-empty document is a mapping        *)
(*   docs      its documents, as the labels and annotation ownership is    *)
(*             decided by                                                  *)
(* A document's label is a name, NoLabel (absent) or NotAName (present and *)
(* a list or a mapping, which YAML allows and a set cannot hold).          *)
(*                                                                         *)
(* A render is who asks: its renderer, the mission it renders (the digest  *)
(* of the raw id, and the raw id), the installation it names, whether it   *)
(* looks for cluster-scoped artifacts and whether it may retire them.      *)
(***************************************************************************)
EXTENDS Naturals

CONSTANTS NoLabel, NotAName

\* Mistake: one managed document makes the file managed.
AnyDocRendered(f) ==
  f.entry = "file" /\ f.readable /\ \E d \in f.docs : d.managed

\* Every document of the file is output this tool wrote: every, not any.
IsRenderedArtifact(f) ==
  /\ f.entry = "file"
  /\ f.readable
  /\ f.docs # {}
  /\ \A d \in f.docs : d.managed

Stamp(d) == <<d.renderer, d.scope, d.schema, d.ownerId>>

Marks(f) == {d.fingerprint : d \in f.docs}

\* What a mapping answers about the documents of a file that agree on a stamp.
Answer(f, owner, mission) ==
  LET d == CHOOSE e \in f.docs : TRUE IN
  [owner |-> owner, mission |-> mission, renderer |-> d.renderer,
   scope |-> d.scope, ownerId |-> d.ownerId]

Unanswered(owner) ==
  [owner |-> owner, mission |-> NoLabel, renderer |-> NoLabel,
   scope |-> NoLabel, ownerId |-> NoLabel]

\* The four states of ArtifactOwner, and the TypeError a set raises for a label
\* it cannot hash.  Asked only of rendered artifacts.
ArtifactMission(f) ==
  LET named == Marks(f) \ {NoLabel} IN
  IF f.entry # "file" \/ ~f.readable \/ NotAName \in named
    THEN Unanswered("malformed")
  ELSE IF \E d \in f.docs : \E i \in 1 .. 4 : Stamp(d)[i] = NotAName
    THEN Unanswered("raises")
  ELSE IF \E d, e \in f.docs : Stamp(d) # Stamp(e)
    THEN Unanswered("mixed")
  ELSE IF \E d \in f.docs : d.schema \notin {NoLabel, "v1"}
    THEN Unanswered("malformed")
  ELSE IF named = {}
    THEN Answer(f, "unmissioned", NoLabel)
  ELSE IF \E m \in named : Marks(f) = {m}
    THEN Answer(f, "mission", CHOOSE m \in named : TRUE)
  ELSE Unanswered("mixed")

\* Mistake: the digest decides alone.
InScopeByDigest(found, r) ==
  \/ /\ found.owner = "mission"
     /\ found.mission = r.fingerprint
  \/ /\ found.owner = "unmissioned"
     /\ found.scope = "installation"
     /\ r.seesUnmissioned

\* Whether an artifact not in the render's own output is its to reconcile.
InScope(found, r) ==
  \/ /\ found.owner = "mission"
     /\ found.mission = r.fingerprint
     /\ found.ownerId \in {NoLabel, r.mission}
  \/ /\ found.owner = "unmissioned"
     /\ found.scope = "installation"
     /\ r.seesUnmissioned

\* A candidate of stale_rendered_artifacts, given that its name is not among
\* the names this render writes.
IsStale(f, r) == IsRenderedArtifact(f) /\ InScope(ArtifactMission(f), r)

\* The first half of attribute_stale's answer; the rest is reported, not removed.
IsMine(f, r) ==
  /\ ArtifactMission(f).renderer = r.renderer
  /\ ArtifactMission(f).owner \in {"mission", "unmissioned"}

\* Cluster-scoped artifacts _report_stale sets aside: another installation's
\* always, this one's without --prune-global.
IsTheirs(f, r) ==
  /\ ArtifactMission(f).scope = "installation"
  /\ ArtifactMission(f).ownerId # r.installation

IsHeldBack(f, r) ==
  /\ ArtifactMission(f).scope = "installation"
  /\ ~IsTheirs(f, r)
  /\ ~r.pruneGlobal

\* What --prune removes.
IsRemovable(f, r) ==
  IsStale(f, r) /\ IsMine(f, r) /\ ~IsTheirs(f, r) /\ ~IsHeldBack(f, r)

\* What the gate leaves out of the lint because --prune is about to remove it.
IsLeaving(f, r) == IsStale(f, r) /\ IsMine(f, r)

-----------------------------------------------------------------------------
\* The single mark or owner of a document set about to be written, if any.
TheOnly(values) == IF \E v \in values : values = {v}
                   THEN CHOOSE v \in values : TRUE ELSE NoLabel

RenderedMission(g) == TheOnly(Marks(g))
RenderedOwnerId(g) == TheOnly({d.ownerId : d \in g.docs})

\* Mistake: a bundle replaces a bundle, whichever installation wrote it.
WritableUnnamed(f, g) ==
  LET found == ArtifactMission(f) IN
  /\ f.entry # "link"
  /\ IsRenderedArtifact(f)
  /\ \/ found.owner = "mission" /\ found.mission = RenderedMission(g)
     \/ found.owner = "unmissioned" /\ RenderedMission(g) = NoLabel

\* preflight_writable, for an entry f at the path g is going to.
IsWritable(f, g) ==
  LET found == ArtifactMission(f) IN
  /\ f.entry # "link"
  /\ IsRenderedArtifact(f)
  /\ \/ found.owner = "mission" /\ found.mission = RenderedMission(g)
     \/ /\ found.owner = "unmissioned"
        /\ RenderedMission(g) = NoLabel
        /\ found.ownerId = RenderedOwnerId(g)

-----------------------------------------------------------------------------
\* What the writers stamp (_ownership_labels and the annotation beside it).
MissionDoc(r) ==
  [managed |-> TRUE, fingerprint |-> r.fingerprint, renderer |-> r.renderer,
   scope |-> "mission", schema |-> "v1", ownerId |-> r.mission]

BundleDoc(r) ==
  [managed |-> TRUE, fingerprint |-> NoLabel, renderer |-> r.renderer,
   scope |-> "installation", schema |-> "v1", ownerId |-> r.installation]

Written(doc) == [entry |-> "file", readable |-> TRUE, docs |-> {doc}]
=============================================================================
