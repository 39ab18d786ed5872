---------------------------- MODULE OwnershipProofs ----------------------------
(***************************************************************************)
(* The ownership rules for every file, whatever its labels say and however *)
(* many documents it has, and every render.                                *)
(***************************************************************************)
EXTENDS OwnershipChecks, OwnershipLemmas

\* What --prune deletes belongs to the render that deletes it, in every document
\* and, where the raw mission id is recorded, by that id and not by its digest
\* alone.
THEOREM PruneDeletesOnlyOwn == OwnershipSpec => []DeletionIsOwned
<1>1. DeletionIsOwned
  <2>1. SUFFICES ASSUME IsRemovable(file, asker), NEW d \in file.docs
                 PROVE  /\ d.managed
                        /\ d.renderer = asker.renderer
                        /\ \/ /\ d.fingerprint = asker.fingerprint
                              /\ d.ownerId \in {NoLabel, asker.mission}
                           \/ /\ d.fingerprint = NoLabel
                              /\ d.scope = "installation"
                              /\ d.ownerId = asker.installation
                              /\ asker.pruneGlobal
    BY DEF DeletionIsOwned
  <2> DEFINE found == ArtifactMission(file)
  <2>2. /\ IsRenderedArtifact(file)
        /\ InScope(found, asker)
        /\ found.renderer = asker.renderer
        /\ found.owner \in {"mission", "unmissioned"}
        /\ found.scope = "installation" =>
             found.ownerId = asker.installation /\ asker.pruneGlobal
    BY <2>1 DEF IsRemovable, IsStale, IsMine, IsTheirs, IsHeldBack
  <2>3. d.managed
    BY <2>2 DEF IsRenderedArtifact
  <2>4. d.renderer = asker.renderer /\ d.scope = found.scope
        /\ d.ownerId = found.ownerId
    BY <2>2, AnswerSpeaksForAll
  <2>5. CASE found.owner = "mission"
    BY <2>2, <2>3, <2>4, <2>5, MissionIsUnanimous DEF InScope
  <2>6. CASE found.owner = "unmissioned"
    BY <2>2, <2>3, <2>4, <2>6, UnmissionedIsUnanimous DEF InScope
  <2> QED BY <2>2, <2>5, <2>6
<1> QED BY <1>1, PTL

\* A render overwrites a file only if every document of it is managed and
\* carries the mark of what replaces it or, with no mark, its owner.
THEOREM WritesReplaceOnlyOwn == OwnershipSpec => []ReplacementIsOwned
<1>1. ReplacementIsOwned
  <2>1. SUFFICES
          ASSUME NEW g \in {Written(MissionDoc(asker)), Written(BundleDoc(asker))},
                 IsWritable(file, g), NEW d \in file.docs
          PROVE  /\ d.managed
                 /\ d.fingerprint = RenderedMission(g)
                 /\ d.fingerprint = NoLabel => d.ownerId = RenderedOwnerId(g)
    BY DEF ReplacementIsOwned
  <2> DEFINE found == ArtifactMission(file)
  <2>2. /\ IsRenderedArtifact(file)
        /\ \/ found.owner = "mission" /\ found.mission = RenderedMission(g)
           \/ /\ found.owner = "unmissioned"
              /\ RenderedMission(g) = NoLabel
              /\ found.ownerId = RenderedOwnerId(g)
    BY <2>1 DEF IsWritable
  <2>3. d.managed
    BY <2>2 DEF IsRenderedArtifact
  <2>4. CASE found.owner = "mission"
    BY <2>2, <2>3, <2>4, MissionIsUnanimous
  <2>5. CASE found.owner = "unmissioned"
    BY <2>2, <2>3, <2>5, UnmissionedIsUnanimous, AnswerSpeaksForAll
  <2> QED BY <2>2, <2>4, <2>5
<1> QED BY <1>1, PTL

\* What a writer stamps on a mission's manifest names the writer.
LEMMA MissionDocAnswers ==
  ASSUME NEW w \in Renders
  PROVE  ArtifactMission(Written(MissionDoc(w))) =
           [owner |-> "mission", mission |-> w.fingerprint,
            renderer |-> w.renderer, scope |-> "mission", ownerId |-> w.mission]
<1> DEFINE d == MissionDoc(w)
<1>1. /\ d.schema = "v1" /\ d.fingerprint = w.fingerprint
      /\ d.renderer = w.renderer /\ d.scope = "mission"
      /\ d.ownerId = w.mission
  BY DEF MissionDoc
<1>2. /\ "v1" # NotAName /\ "mission" # NotAName
      /\ w.fingerprint # NotAName /\ w.fingerprint # NoLabel
      /\ w.renderer # NotAName /\ w.mission # NotAName
  BY RendersAssumption
<1> HIDE DEF d
<1>3. ArtifactMission(Written(d)) =
        [owner |-> "mission", mission |-> w.fingerprint,
         renderer |-> w.renderer, scope |-> "mission", ownerId |-> w.mission]
  BY <1>1, <1>2, OneStampAnswers
<1> QED BY <1>3 DEF d

\* What a writer stamps on a cluster-scoped bundle names its installation.
LEMMA BundleDocAnswers ==
  ASSUME NEW w \in Renders
  PROVE  ArtifactMission(Written(BundleDoc(w))) =
           [owner |-> "unmissioned", mission |-> NoLabel,
            renderer |-> w.renderer, scope |-> "installation",
            ownerId |-> w.installation]
<1> DEFINE d == BundleDoc(w)
<1>1. /\ d.schema = "v1" /\ d.fingerprint = NoLabel /\ d.renderer = w.renderer
      /\ d.scope = "installation" /\ d.ownerId = w.installation
  BY DEF BundleDoc
<1>2. /\ "v1" # NotAName /\ NoLabel # NotAName /\ "installation" # NotAName
      /\ w.renderer # NotAName /\ w.installation # NotAName
  BY RendersAssumption
<1> HIDE DEF d
<1>3. ArtifactMission(Written(d)) =
        [owner |-> "unmissioned", mission |-> NoLabel,
         renderer |-> w.renderer, scope |-> "installation",
         ownerId |-> w.installation]
  BY <1>1, <1>2, OneStampAnswers
<1> QED BY <1>3 DEF d

\* No artifact is orphaned and none is taken: what a writer stamps is replaced
\* by its own next render and removed by exactly the renders it belongs to.
THEOREM WritersKeepTheirOwn == OwnershipSpec => []WritersTakeBackTheirOwn
<1>1. OwnershipInit => asker \in Renders
  BY DEF OwnershipInit
<1>2. asker \in Renders /\ [NextRender]_<<file, asker>> => (asker \in Renders)'
  BY DEF NextRender
<1>3. asker \in Renders => WritersTakeBackTheirOwn
  <2>1. SUFFICES ASSUME asker \in Renders, NEW w \in Renders
                 PROVE
          LET mission == Written(MissionDoc(w))
              bundle == Written(BundleDoc(w)) IN
          /\ IsWritable(mission, mission)
          /\ IsWritable(bundle, bundle)
          /\ IsRemovable(mission, asker) <=>
               asker.mission = w.mission /\ asker.renderer = w.renderer
          /\ IsRemovable(bundle, asker) <=>
               /\ asker.renderer = w.renderer
               /\ asker.installation = w.installation
               /\ asker.seesUnmissioned
               /\ asker.pruneGlobal
    BY DEF WritersTakeBackTheirOwn
  <2> DEFINE mission == Written(MissionDoc(w))
             bundle == Written(BundleDoc(w))
  <2>2. /\ IsRenderedArtifact(mission) /\ mission.entry # "link"
        /\ RenderedMission(mission) = w.fingerprint
    BY WrittenIsRendered DEF MissionDoc
  <2>3. /\ IsRenderedArtifact(bundle) /\ bundle.entry # "link"
        /\ RenderedMission(bundle) = NoLabel
        /\ RenderedOwnerId(bundle) = w.installation
    BY WrittenIsRendered DEF BundleDoc
  <2>4. IsWritable(mission, mission)
    BY <2>2, MissionDocAnswers DEF IsWritable
  <2>5. IsWritable(bundle, bundle)
    BY <2>3, BundleDocAnswers DEF IsWritable
  <2>6. IsRemovable(mission, asker) <=>
          asker.mission = w.mission /\ asker.renderer = w.renderer
    <3> HIDE DEF mission
    <3> DEFINE found == ArtifactMission(mission)
    <3>1. /\ found.owner = "mission" /\ found.mission = w.fingerprint
          /\ found.renderer = w.renderer /\ found.scope = "mission"
          /\ found.ownerId = w.mission
      BY MissionDocAnswers DEF mission
    <3>2. w.mission # NoLabel
      BY RendersAssumption
    <3>3. asker.mission = w.mission => asker.fingerprint = w.fingerprint
      BY <2>1, RendersAssumption
    <3>4. IsStale(mission, asker) <=>
            asker.fingerprint = w.fingerprint /\ asker.mission = w.mission
      BY <2>2, <3>1, <3>2 DEF IsStale, InScope
    <3>5. IsMine(mission, asker) <=> asker.renderer = w.renderer
      BY <3>1 DEF IsMine
    <3>6. ~IsTheirs(mission, asker) /\ ~IsHeldBack(mission, asker)
      BY <3>1 DEF IsTheirs, IsHeldBack
    <3> QED BY <3>3, <3>4, <3>5, <3>6 DEF IsRemovable
  <2>7. IsRemovable(bundle, asker) <=>
          /\ asker.renderer = w.renderer
          /\ asker.installation = w.installation
          /\ asker.seesUnmissioned
          /\ asker.pruneGlobal
    BY <2>1, <2>3, BundleDocAnswers, RendersAssumption
    DEF IsRemovable, IsStale, InScope, IsMine, IsTheirs, IsHeldBack
  <2> QED BY <2>4, <2>5, <2>6, <2>7
<1> QED BY <1>1, <1>2, <1>3, PTL DEF OwnershipSpec
=============================================================================
