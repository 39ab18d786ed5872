--------------------------- MODULE OwnershipChecks ---------------------------
(***************************************************************************)
(* What the ownership rules of Ownership must guarantee, stated over one   *)
(* directory entry and the renders that come to look at it.                *)
(***************************************************************************)
EXTENDS Ownership

\* One directory entry and the render looking at it; the next state is the next
\* render of that directory.
CONSTANTS Manifests, Renders

\* What a render's fields can be: a digest and a raw id are strings, one digest
\* per id; only a render that names no installation has NoLabel for it.
ASSUME RendersAssumption ==
  /\ NotAName # NoLabel
  /\ {"v1", "mission", "installation"} \cap {NoLabel, NotAName} = {}
  /\ \A r \in Renders :
       /\ {r.fingerprint, r.mission} \cap {NoLabel, NotAName} = {}
       /\ NotAName \notin {r.renderer, r.installation}
  /\ \A r, s \in Renders :
       r.mission = s.mission => r.fingerprint = s.fingerprint

VARIABLES file, asker

OwnershipInit == file \in Manifests /\ asker \in Renders

NextRender == asker' \in Renders /\ UNCHANGED file

OwnershipSpec == OwnershipInit /\ [][NextRender]_<<file, asker>>

\* What --prune removes is this render's in every document: managed, of its
\* renderer, and either of its mission by digest and by raw id where the raw id
\* is annotated, or the cluster-scoped bundle of its own installation that it
\* was told to retire.  "A digest collision cannot decide a delete on its own."
DeletionIsOwned ==
  IsRemovable(file, asker) =>
    \A d \in file.docs :
      /\ d.managed
      /\ d.renderer = asker.renderer
      /\ \/ /\ d.fingerprint = asker.fingerprint
            /\ d.ownerId \in {NoLabel, asker.mission}
         \/ /\ d.fingerprint = NoLabel
            /\ d.scope = "installation"
            /\ d.ownerId = asker.installation
            /\ asker.pruneGlobal

\* An artifact as a writer stamps it can be replaced by a later render of the
\* same kind and is removed by exactly the renders of the same mission and
\* renderer, and the bundle by exactly those of the same installation with
\* --prune-global: no artifact is orphaned ("the renderer that wrote it could
\* not take it back") and none is taken by another mission.
WritersTakeBackTheirOwn ==
  \A w \in Renders :
    LET mission == Written(MissionDoc(w))
        bundle == Written(BundleDoc(w)) IN
    /\ IsWritable(mission, mission)
    /\ IsWritable(bundle, bundle)
    /\ IsRemovable(mission, asker) <=>
         asker.mission = w.mission /\ asker.renderer = w.renderer
    /\ IsRemovable(bundle, asker) <=>
         /\ asker.renderer = w.renderer
         /\ asker.installation = w.installation
         /\ asker.seesUnmissioned
         /\ asker.pruneGlobal

\* A file a render may overwrite is managed in every document, and in every
\* document of the mission, or of the same owner and no mission, as what
\* replaces it.
ReplacementIsOwned ==
  \A g \in {Written(MissionDoc(asker)), Written(BundleDoc(asker))} :
    IsWritable(file, g) =>
      \A d \in file.docs :
        /\ d.managed
        /\ d.fingerprint = RenderedMission(g)
        /\ d.fingerprint = NoLabel => d.ownerId = RenderedOwnerId(g)
=============================================================================
