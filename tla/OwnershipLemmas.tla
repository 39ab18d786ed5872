---------------------------- MODULE OwnershipLemmas ----------------------------
(***************************************************************************)
(* What an answer of ArtifactMission says of the documents behind it.      *)
(***************************************************************************)
EXTENDS Ownership, TLAPS

\* Documents that agree on a stamp agree on each of its labels.
LEMMA StampsAgree ==
  ASSUME NEW d, NEW e, Stamp(d) = Stamp(e)
  PROVE  /\ d.renderer = e.renderer
         /\ d.scope = e.scope
         /\ d.schema = e.schema
         /\ d.ownerId = e.ownerId
  BY DEF Stamp

\* An answer that names an owner speaks for every document of the file.
LEMMA AnswerSpeaksForAll ==
  ASSUME NEW f, NEW d \in f.docs,
         ArtifactMission(f).owner \in {"mission", "unmissioned"}
  PROVE  /\ ArtifactMission(f).renderer = d.renderer
         /\ ArtifactMission(f).scope = d.scope
         /\ ArtifactMission(f).ownerId = d.ownerId
<1> DEFINE any == CHOOSE e \in f.docs : TRUE
<1>1. any \in f.docs
  OBVIOUS
<1>2. \A x, y \in f.docs : Stamp(x) = Stamp(y)
  BY DEF ArtifactMission, Unanswered
<1>3. /\ any.renderer = d.renderer
      /\ any.scope = d.scope
      /\ any.ownerId = d.ownerId
  BY <1>1, <1>2, StampsAgree
<1>4. \E o, m : ArtifactMission(f) = Answer(f, o, m)
  BY DEF ArtifactMission, Unanswered
<1>5. PICK o, m : ArtifactMission(f) = Answer(f, o, m)
  BY <1>4
<1> QED BY <1>3, <1>5 DEF Answer

\* A file is one mission's only if every document carries that mission's mark.
LEMMA MissionIsUnanimous ==
  ASSUME NEW f, NEW d \in f.docs, ArtifactMission(f).owner = "mission"
  PROVE  /\ d.fingerprint = ArtifactMission(f).mission
         /\ d.fingerprint # NoLabel
<1>1. d.fingerprint \in Marks(f)
  BY DEF Marks
<1>2. PICK m \in Marks(f) \ {NoLabel} :
        Marks(f) = {m} /\ ArtifactMission(f).mission = m
  BY DEF ArtifactMission, Unanswered, Answer
<1> QED BY <1>1, <1>2

\* A file is nobody's mission's only if no document carries a mark.
LEMMA UnmissionedIsUnanimous ==
  ASSUME NEW f, NEW d \in f.docs, ArtifactMission(f).owner = "unmissioned"
  PROVE  d.fingerprint = NoLabel
<1>1. d.fingerprint \in Marks(f)
  BY DEF Marks
<1>2. Marks(f) \ {NoLabel} = {}
  BY DEF ArtifactMission, Unanswered, Answer
<1> QED BY <1>1, <1>2

\* A file of one document that is stamped with names answers what is stamped.
LEMMA OneStampAnswers ==
  ASSUME NEW d, d.schema = "v1", "v1" # NotAName, d.fingerprint # NotAName,
         NotAName \notin {d.renderer, d.scope, d.ownerId}
  PROVE  ArtifactMission(Written(d)) =
           [owner |-> IF d.fingerprint = NoLabel THEN "unmissioned"
                                                 ELSE "mission",
            mission |-> d.fingerprint, renderer |-> d.renderer,
            scope |-> d.scope, ownerId |-> d.ownerId]
<1> DEFINE f == Written(d)
<1>1. f.entry = "file" /\ f.readable /\ f.docs = {d}
  BY DEF Written
<1>2. Marks(f) = {d.fingerprint}
  BY <1>1 DEF Marks
<1>3. \A e \in f.docs : \A i \in 1 .. 4 : Stamp(e)[i] # NotAName
  BY <1>1 DEF Stamp
<1>4. \A x, y \in f.docs : Stamp(x) = Stamp(y) /\ x.schema = "v1"
  BY <1>1
<1>5. \A o, m : Answer(f, o, m) =
        [owner |-> o, mission |-> m, renderer |-> d.renderer,
         scope |-> d.scope, ownerId |-> d.ownerId]
  BY <1>1 DEF Answer
<1>6. CASE d.fingerprint = NoLabel
  <2>1. Marks(f) \ {NoLabel} = {}
    BY <1>2, <1>6
  <2>2. ArtifactMission(f) = Answer(f, "unmissioned", NoLabel)
    BY <1>1, <1>3, <1>4, <2>1 DEF ArtifactMission
  <2> QED BY <1>5, <1>6, <2>2
<1>7. CASE d.fingerprint # NoLabel
  <2>1. Marks(f) \ {NoLabel} = {d.fingerprint}
    BY <1>2, <1>7
  <2>2. (CHOOSE m \in Marks(f) \ {NoLabel} : TRUE) = d.fingerprint
    BY <2>1
  <2>3. ArtifactMission(f) = Answer(f, "mission", d.fingerprint)
    BY <1>1, <1>2, <1>3, <1>4, <2>1, <2>2 DEF ArtifactMission
  <2> QED BY <1>5, <1>7, <2>3
<1> QED BY <1>6, <1>7

\* Every document a writer stamps is recognised as its output.
LEMMA WrittenIsRendered ==
  ASSUME NEW d, d.managed
  PROVE  /\ IsRenderedArtifact(Written(d))
         /\ Written(d).entry # "link"
         /\ RenderedMission(Written(d)) = d.fingerprint
         /\ RenderedOwnerId(Written(d)) = d.ownerId
  BY DEF IsRenderedArtifact, Written, RenderedMission, RenderedOwnerId, TheOnly,
         Marks
=============================================================================
