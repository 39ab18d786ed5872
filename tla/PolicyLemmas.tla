--------------------------- MODULE PolicyLemmas ---------------------------
(***************************************************************************)
(* Lemmas on the two policy engines and on the dump of a plan, for plans   *)
(* of any size with any value in any field.                                *)
(***************************************************************************)
EXTENDS PlanSchema, TLAPS

\* On one step, in a list of steps, the engines find the same.
LEMMA StepsAlike ==
  ASSUME NEW s, NEW at
  PROVE  RegoStep(s, at, TRUE) = BaselineStep(s, at)
BY DEF RegoStep, BaselineStep, When, Violation, IsObject, Missing

\* A landscape that is neither missing nor known is a string or it is not.
LEMMA LandscapesAlike ==
  ASSUME NEW x
  PROVE  (x \notin Missing \cup Landscapes)
           <=> \/ IsString(x) /\ x \notin Landscapes
               \/ x # "null" /\ x # "absent" /\ ~IsString(x)
BY DEF IsString, NonStrings, Numbers, Missing, Landscapes

\* What is in a list is looked at by both engines, what is not one by neither.
LEMMA ItemsAlike ==
  ASSUME NEW c, c.kind # "object"
  PROVE  /\ RegoItems(c) = AsList(c)
         /\ (DOMAIN AsList(c) # {}) => IsList(c)
         /\ LenIsZero(c) <=> (~Malformed(c) /\ AsList(c) = <<>>)
         /\ NotAList(c) <=> Malformed(c)
<1>1. RegoItems(c) = AsList(c)
  BY DEF RegoItems, AsList, IsList
<1>2. DOMAIN <<>> = {}
  OBVIOUS
<1> QED
  BY <1>1, <1>2 DEF AsList, IsList, LenIsZero, Malformed, NotAList, Missing

LEMMA ServicesAlike ==
  ASSUME NEW s, NEW at, IsObject(s) => s.steps.kind # "object"
  PROVE  RegoService(s, at, TRUE) = BaselineService(s, at)
<1>1. CASE ~IsObject(s)
  BY <1>1 DEF RegoService, BaselineService, When
<1>2. CASE IsObject(s)
  <2> DEFINE rego == UNION {RegoStep(RegoItems(s.steps)[k], Append(at, k), IsList(s.steps)) :
                             k \in DOMAIN RegoItems(s.steps)}
             mirror == UNION {BaselineStep(AsList(s.steps)[k], Append(at, k)) :
                             k \in DOMAIN AsList(s.steps)}
  <2>1. s.steps.kind # "object"
    BY <1>2
  <2>2. rego = mirror
    <3>1. RegoItems(s.steps) = AsList(s.steps)
      BY <2>1, ItemsAlike
    <3>2. ASSUME NEW k \in DOMAIN AsList(s.steps)
          PROVE  RegoStep(RegoItems(s.steps)[k], Append(at, k), IsList(s.steps))
                   = BaselineStep(AsList(s.steps)[k], Append(at, k))
      <4>1. IsList(s.steps) = TRUE
        BY <2>1, ItemsAlike DEF IsList
      <4> QED
        BY <3>1, <4>1, StepsAlike
    <3> QED
      BY <3>1, <3>2
  <2>3. When(IsString(s.landscape_type) /\ s.landscape_type \notin Landscapes, "10", at)
        \cup When(s.landscape_type # "null" /\ s.landscape_type # "absent"
                  /\ ~IsString(s.landscape_type), "10", at)
        = When(s.landscape_type \notin Missing \cup Landscapes, "10", at)
    BY LandscapesAlike DEF When
  <2>4. /\ NotAList(s.steps) <=> Malformed(s.steps)
        /\ LenIsZero(s.steps) <=> (~Malformed(s.steps) /\ AsList(s.steps) = <<>>)
    BY <2>1, ItemsAlike
  <2>5. /\ When(NotAList(s.steps), "steps not a list", at) = When(Malformed(s.steps), "steps not a list", at)
        /\ When(LenIsZero(s.steps), "9", at) = When(~Malformed(s.steps) /\ AsList(s.steps) = <<>>, "9", at)
    BY <2>4 DEF When
  <2> HIDE DEF rego, mirror
  <2>6. RegoService(s, at, TRUE) =
          When(NotAList(s.steps), "steps not a list", at)
          \cup When(s.priority = "0", "5", at)
          \cup When(LenIsZero(s.steps), "9", at)
          \cup When(IsString(s.landscape_type) /\ s.landscape_type \notin Landscapes, "10", at)
          \cup When(s.landscape_type # "null" /\ s.landscape_type # "absent"
                    /\ ~IsString(s.landscape_type), "10", at)
          \cup rego
    BY <1>2 DEF RegoService, rego
  <2>7. BaselineService(s, at) =
          When(Malformed(s.steps), "steps not a list", at)
          \cup When(s.priority = "0", "5", at)
          \cup When(~Malformed(s.steps) /\ AsList(s.steps) = <<>>, "9", at)
          \cup When(s.landscape_type \notin Missing \cup Landscapes, "10", at)
          \cup mirror
    BY <1>2 DEF BaselineService, HasZeroPriority, mirror
  <2> QED
    BY <2>2, <2>3, <2>5, <2>6, <2>7
<1> QED
  BY <1>1, <1>2

\* On one event, when its lists are lists, the engines find the same.
LEMMA EventsAlike ==
  ASSUME NEW e, NEW at,
         IsObject(e) => e.services.kind # "object",
         \A j \in DOMAIN ReachedServices(e) :
           IsObject(ReachedServices(e)[j]) => ReachedServices(e)[j].steps.kind # "object"
  PROVE  RegoEvent(e, at, TRUE) = BaselineEvent(e, at)
<1>1. CASE ~IsObject(e)
  BY <1>1 DEF RegoEvent, BaselineEvent, When
<1>2. CASE IsObject(e)
  <2> DEFINE rego == UNION {RegoService(RegoItems(e.services)[j], Append(at, j), IsList(e.services)) :
                             j \in DOMAIN RegoItems(e.services)}
             mirror == UNION {BaselineService(AsList(e.services)[j], Append(at, j)) :
                             j \in DOMAIN AsList(e.services)}
  <2>1. e.services.kind # "object"
    BY <1>2
  <2>2. rego = mirror
    <3>1. RegoItems(e.services) = AsList(e.services)
      BY <2>1, ItemsAlike
    <3>2. ASSUME NEW j \in DOMAIN AsList(e.services)
          PROVE  RegoService(RegoItems(e.services)[j], Append(at, j), IsList(e.services))
                   = BaselineService(AsList(e.services)[j], Append(at, j))
      <4>1. IsList(e.services) = TRUE
        BY <2>1, ItemsAlike DEF IsList
      <4>2. LET s == AsList(e.services)[j] IN IsObject(s) => s.steps.kind # "object"
        BY <1>2 DEF ReachedServices
      <4> QED
        BY <3>1, <4>1, <4>2, ServicesAlike
    <3> QED
      BY <3>1, <3>2
  <2>3. /\ NotAList(e.services) <=> Malformed(e.services)
        /\ LenIsZero(e.services) <=> (~Malformed(e.services) /\ AsList(e.services) = <<>>)
        /\ LenIsPositive(e.services) <=> (~Malformed(e.services) /\ AsList(e.services) # <<>>)
    BY <2>1, ItemsAlike DEF LenIsPositive, Malformed, AsList, IsList, Missing
  <2> HIDE DEF rego, mirror
  <2>4. RegoEvent(e, at, TRUE) =
          When(NotAList(e.services), "services not a list", at)
          \cup When(e.event_type = "acquisition" /\ LenIsZero(e.services), "3", at)
          \cup When(e.event_type = "download" /\ LenIsPositive(e.services), "7", at)
          \cup When(e.event_type = "download" /\ e.ground_visibility # "true", "8", at)
          \cup rego
    BY <1>2 DEF RegoEvent, rego, When
  <2>5. BaselineEvent(e, at) =
          When(Malformed(e.services), "services not a list", at)
          \cup When(e.event_type = "acquisition" /\ ~Malformed(e.services)
                    /\ AsList(e.services) = <<>>, "3", at)
          \cup When(e.event_type = "download" /\ ~Malformed(e.services)
                    /\ AsList(e.services) # <<>>, "7", at)
          \cup When(e.event_type = "download" /\ e.ground_visibility # "true", "8", at)
          \cup mirror
    BY <1>2 DEF BaselineEvent, mirror
  <2> QED
    BY <2>2, <2>3, <2>4, <2>5 DEF When
<1> QED
  BY <1>1, <1>2

\* A plan written with lists gets the same violations from both engines, unless
\* its mission is named by separators alone.
LEMMA PlansAlike ==
  ASSUME NEW p, ListsOnly(p), p.mission_id # "separators"
  PROVE  RegoViolations(p) = BaselineViolations(p)
<1> DEFINE rego == UNION {RegoEvent(RegoItems(p.events)[i], <<i>>, IsList(p.events)) :
                           i \in DOMAIN RegoItems(p.events)}
           mirror == UNION {BaselineEvent(AsList(p.events)[i], <<i>>) :
                           i \in DOMAIN AsList(p.events)}
<1>1. p.events.kind # "object"
  BY DEF ListsOnly
<1>2. rego = mirror
  <2>1. RegoItems(p.events) = AsList(p.events)
    BY <1>1, ItemsAlike
  <2>2. ASSUME NEW i \in DOMAIN AsList(p.events)
        PROVE  RegoEvent(RegoItems(p.events)[i], <<i>>, IsList(p.events))
                 = BaselineEvent(AsList(p.events)[i], <<i>>)
    <3>1. IsList(p.events) = TRUE
      BY <1>1, ItemsAlike DEF IsList
    <3>2. LET e == AsList(p.events)[i]
          IN  /\ IsObject(e) => e.services.kind # "object"
              /\ \A j \in DOMAIN ReachedServices(e) :
                   IsObject(ReachedServices(e)[j]) => ReachedServices(e)[j].steps.kind # "object"
      BY DEF ListsOnly
    <3> QED
      BY <2>1, <3>1, <3>2, EventsAlike
  <2> QED
    BY <2>1, <2>2
<1> HIDE DEF rego, mirror
<1>3. /\ NotAList(p.events) <=> Malformed(p.events)
      /\ LenIsZero(p.events) <=> (~Malformed(p.events) /\ AsList(p.events) = <<>>)
  BY <1>1, ItemsAlike
<1>4. RegoViolations(p) =
        When(p.mission_id \in Missing \cup BlankToRego, "1", <<>>)
        \cup When(LenIsZero(p.events), "2", <<>>)
        \cup When(NotAList(p.events), "events not a list", <<>>)
        \cup rego
  BY DEF RegoViolations, rego
<1>5. BaselineViolations(p) =
        When(p.mission_id \in Missing \cup BlankToPython, "1", <<>>)
        \cup When(LenIsZero(p.events), "2", <<>>)
        \cup When(NotAList(p.events), "events not a list", <<>>)
        \cup mirror
  <2>1. CASE IsList(p.events)
    <3>1. AsList(p.events) = p.events.items
      BY <2>1 DEF AsList
    <3>2. p.events.kind \notin Missing
      BY <2>1 DEF IsList, Missing
    <3> QED
      BY <2>1, <3>1, <3>2 DEF BaselineViolations, mirror, When, NotAList, LenIsZero
  <2>2. CASE ~IsList(p.events)
    <3>1. mirror = {}
      BY <1>1, <2>2, ItemsAlike DEF mirror
    <3> QED
      BY <2>2, <3>1 DEF BaselineViolations, When, NotAList, LenIsZero
  <2> QED
    BY <2>1, <2>2
<1>6. p.mission_id \in Missing \cup BlankToRego <=> p.mission_id \in Missing \cup BlankToPython
  BY DEF BlankToRego, BlankToPython
<1> QED
  BY <1>2, <1>4, <1>5, <1>6 DEF When

-----------------------------------------------------------------------------
\* An object in place of the steps is a violation to both engines, so on any
\* service at all they give one verdict.
LEMMA ServiceVerdicts ==
  ASSUME NEW s, NEW at
  PROVE  RegoService(s, at, TRUE) = {} <=> BaselineService(s, at) = {}
<1>1. CASE IsObject(s) => s.steps.kind # "object"
  BY <1>1, ServicesAlike
<1>2. CASE IsObject(s) /\ s.steps.kind = "object"
  <2>1. NotAList(s.steps) /\ Malformed(s.steps)
    BY <1>2 DEF NotAList, Malformed, IsList, Missing
  <2>2. Violation("steps not a list", at) \in RegoService(s, at, TRUE)
    BY <1>2, <2>1 DEF RegoService, When
  <2>3. Violation("steps not a list", at) \in BaselineService(s, at)
    BY <1>2, <2>1 DEF BaselineService, When
  <2> QED
    BY <2>2, <2>3
<1> QED
  BY <1>1, <1>2

\* So on any event.
LEMMA EventVerdicts ==
  ASSUME NEW e, NEW at
  PROVE  RegoEvent(e, at, TRUE) = {} <=> BaselineEvent(e, at) = {}
<1>1. CASE ~IsObject(e)
  BY <1>1 DEF RegoEvent, BaselineEvent, When
<1>2. CASE IsObject(e) /\ e.services.kind = "object"
  <2>1. NotAList(e.services) /\ Malformed(e.services)
    BY <1>2 DEF NotAList, Malformed, IsList, Missing
  <2>2. Violation("services not a list", at) \in RegoEvent(e, at, TRUE)
    BY <1>2, <2>1 DEF RegoEvent, When
  <2>3. Violation("services not a list", at) \in BaselineEvent(e, at)
    BY <1>2, <2>1 DEF BaselineEvent, When
  <2> QED
    BY <2>2, <2>3
<1>3. CASE IsObject(e) /\ e.services.kind # "object"
  <2> DEFINE rego == UNION {RegoService(RegoItems(e.services)[j], Append(at, j), IsList(e.services)) :
                             j \in DOMAIN RegoItems(e.services)}
             mirror == UNION {BaselineService(AsList(e.services)[j], Append(at, j)) :
                             j \in DOMAIN AsList(e.services)}
  <2>1. rego = {} <=> mirror = {}
    <3>1. RegoItems(e.services) = AsList(e.services)
      BY <1>3, ItemsAlike
    <3>2. ASSUME NEW j \in DOMAIN AsList(e.services)
          PROVE  RegoService(RegoItems(e.services)[j], Append(at, j), IsList(e.services)) = {}
                   <=> BaselineService(AsList(e.services)[j], Append(at, j)) = {}
      <4>1. IsList(e.services) = TRUE
        BY <1>3, ItemsAlike DEF IsList
      <4> QED
        BY <3>1, <4>1, ServiceVerdicts
    <3> QED
      BY <3>1, <3>2
  <2>2. /\ NotAList(e.services) <=> Malformed(e.services)
        /\ LenIsZero(e.services) <=> (~Malformed(e.services) /\ AsList(e.services) = <<>>)
        /\ LenIsPositive(e.services) <=> (~Malformed(e.services) /\ AsList(e.services) # <<>>)
    BY <1>3, ItemsAlike DEF LenIsPositive, Malformed, AsList, IsList, Missing
  <2> HIDE DEF rego, mirror
  <2>3. RegoEvent(e, at, TRUE) =
          When(NotAList(e.services), "services not a list", at)
          \cup When(e.event_type = "acquisition" /\ LenIsZero(e.services), "3", at)
          \cup When(e.event_type = "download" /\ LenIsPositive(e.services), "7", at)
          \cup When(e.event_type = "download" /\ e.ground_visibility # "true", "8", at)
          \cup rego
    BY <1>3 DEF RegoEvent, rego, When
  <2>4. BaselineEvent(e, at) =
          When(Malformed(e.services), "services not a list", at)
          \cup When(e.event_type = "acquisition" /\ ~Malformed(e.services)
                    /\ AsList(e.services) = <<>>, "3", at)
          \cup When(e.event_type = "download" /\ ~Malformed(e.services)
                    /\ AsList(e.services) # <<>>, "7", at)
          \cup When(e.event_type = "download" /\ e.ground_visibility # "true", "8", at)
          \cup mirror
    BY <1>3 DEF BaselineEvent, mirror
  <2> QED
    BY <2>1, <2>2, <2>3, <2>4 DEF When
<1> QED
  BY <1>1, <1>2, <1>3

\* So on any plan whose mission is not named by separators alone.
LEMMA PlanVerdicts ==
  ASSUME NEW p, p.mission_id # "separators"
  PROVE  RegoViolations(p) = {} <=> BaselineViolations(p) = {}
<1>1. p.mission_id \in Missing \cup BlankToRego <=> p.mission_id \in Missing \cup BlankToPython
  BY DEF BlankToRego, BlankToPython
<1>2. CASE IsList(p.events)
  <2> DEFINE rego == UNION {RegoEvent(RegoItems(p.events)[i], <<i>>, IsList(p.events)) :
                             i \in DOMAIN RegoItems(p.events)}
             mirror == UNION {BaselineEvent(p.events.items[i], <<i>>) :
                             i \in DOMAIN p.events.items}
  <2>1. rego = {} <=> mirror = {}
    <3>1. RegoItems(p.events) = p.events.items /\ IsList(p.events) = TRUE
      BY <1>2 DEF RegoItems, IsList
    <3>2. ASSUME NEW i \in DOMAIN p.events.items
          PROVE  RegoEvent(RegoItems(p.events)[i], <<i>>, IsList(p.events)) = {}
                   <=> BaselineEvent(p.events.items[i], <<i>>) = {}
      BY <3>1, EventVerdicts
    <3>3. rego = {} <=> \A i \in DOMAIN p.events.items :
                          RegoEvent(RegoItems(p.events)[i], <<i>>, IsList(p.events)) = {}
      BY <3>1
    <3>4. mirror = {} <=> \A i \in DOMAIN p.events.items :
                            BaselineEvent(p.events.items[i], <<i>>) = {}
      OBVIOUS
    <3> QED
      BY <3>2, <3>3, <3>4
  <2>2. p.events.kind \notin Missing
    BY <1>2 DEF IsList, Missing
  <2> HIDE DEF rego, mirror
  <2>3. RegoViolations(p) =
          When(p.mission_id \in Missing \cup BlankToRego, "1", <<>>)
          \cup When(LenIsZero(p.events), "2", <<>>)
          \cup When(NotAList(p.events), "events not a list", <<>>)
          \cup rego
    BY DEF RegoViolations, rego
  <2>4. BaselineViolations(p) =
          When(p.mission_id \in Missing \cup BlankToPython, "1", <<>>)
          \cup When(p.events.items = <<>>, "2", <<>>)
          \cup mirror
    BY <1>2, <2>2 DEF BaselineViolations, mirror
  <2> QED
    BY <1>1, <1>2, <2>1, <2>2, <2>3, <2>4 DEF When, LenIsZero, NotAList
<1>3. CASE ~IsList(p.events)
  <2>1. RegoViolations(p) # {}
    BY <1>3 DEF RegoViolations, When, LenIsZero, NotAList
  <2>2. BaselineViolations(p) # {}
    BY <1>3 DEF BaselineViolations
  <2> QED
    BY <2>1, <2>2
<1> QED
  BY <1>2, <1>3

-----------------------------------------------------------------------------
\* The dump of a step has the violations of the step.
LEMMA StepDumped ==
  ASSUME NEW s, NEW at, StepAccepted(s)
  PROVE  /\ IsObject(DumpStep(s))
         /\ DumpStep(s).resource_class \notin {"list", "object"}
         /\ RegoStep(s, at, TRUE) \subseteq RegoStep(DumpStep(s), at, TRUE)
BY DEF StepAccepted, IsObject, DumpStep, RegoStep, When, Default, OrAbsent, OrMissing,
       Missing, Classes, Accelerators

\* The dump of a service has the violations of the service and of its steps.
LEMMA ServiceDumped ==
  ASSUME NEW s, NEW at, ServiceAccepted(s)
  PROVE  /\ IsObject(DumpService(s))
         /\ IsList(DumpService(s).steps)
         /\ \A k \in DOMAIN DumpService(s).steps.items :
              LET t == DumpService(s).steps.items[k]
              IN  IsObject(t) /\ t.resource_class \notin {"list", "object"}
         /\ RegoService(s, at, TRUE) \subseteq RegoService(DumpService(s), at, TRUE)
<1> DEFINE d == DumpService(s)
           steps == s.steps.items
<1>1. /\ IsObject(s) /\ IsList(s.steps) /\ steps # <<>>
      /\ \A k \in DOMAIN steps : StepAccepted(steps[k])
  BY DEF ServiceAccepted
<1>2. /\ IsObject(d) /\ IsList(d.steps)
      /\ d.steps.items = [k \in DOMAIN steps |-> DumpStep(steps[k])]
      /\ d.priority = Unquoted(s.priority)
      /\ d.landscape_type = Default(s.landscape_type, "null")
  BY DEF DumpService, ListOf, IsObject, IsList
<1>3. RegoItems(s.steps) = steps /\ RegoItems(d.steps) = d.steps.items
  BY <1>1, <1>2 DEF RegoItems, IsList
<1>4. \A k \in DOMAIN d.steps.items :
        LET t == d.steps.items[k]
        IN  IsObject(t) /\ t.resource_class \notin {"list", "object"}
  BY <1>1, <1>2, StepDumped
<1>5. IsList(s.steps) = TRUE /\ IsList(d.steps) = TRUE
  BY <1>1, <1>2 DEF IsList
<1>6. \A k \in DOMAIN steps :
        RegoStep(steps[k], Append(at, k), TRUE) \subseteq RegoStep(d.steps.items[k], Append(at, k), TRUE)
  BY <1>1, <1>2, StepDumped
<1>7. UNION {RegoStep(RegoItems(s.steps)[k], Append(at, k), IsList(s.steps)) :
               k \in DOMAIN RegoItems(s.steps)}
      \subseteq UNION {RegoStep(RegoItems(d.steps)[k], Append(at, k), IsList(d.steps)) :
               k \in DOMAIN RegoItems(d.steps)}
  <2>1. DOMAIN d.steps.items = DOMAIN steps
    BY <1>2
  <2> HIDE DEF d, steps
  <2> QED
    BY <1>3, <1>5, <1>6, <2>1
<1>8. s.priority = "0" => d.priority = "0"
  BY <1>2 DEF Unquoted
<1>9. ~NotAList(s.steps) /\ ~LenIsZero(s.steps)
  BY <1>1 DEF NotAList, LenIsZero, IsList, Missing
<1>10. /\ d.landscape_type \in {s.landscape_type, "null"}
       /\ s.landscape_type \notin Missing => d.landscape_type = s.landscape_type
       /\ IsString(s.landscape_type) => s.landscape_type \notin Missing
  BY <1>2 DEF Default, Missing, IsString, NonStrings
<1> HIDE DEF d, steps
<1>11. RegoService(s, at, TRUE) \subseteq RegoService(d, at, TRUE)
  <2> DEFINE below == UNION {RegoStep(RegoItems(s.steps)[k], Append(at, k), IsList(s.steps)) :
                              k \in DOMAIN RegoItems(s.steps)}
             dumped == UNION {RegoStep(RegoItems(d.steps)[k], Append(at, k), IsList(d.steps)) :
                              k \in DOMAIN RegoItems(d.steps)}
  <2>1. below \subseteq dumped
    BY <1>7
  <2> HIDE DEF below, dumped
  <2>2. RegoService(s, at, TRUE) =
          When(NotAList(s.steps), "steps not a list", at)
          \cup When(s.priority = "0", "5", at)
          \cup When(LenIsZero(s.steps), "9", at)
          \cup When(IsString(s.landscape_type) /\ s.landscape_type \notin Landscapes, "10", at)
          \cup When(s.landscape_type # "null" /\ s.landscape_type # "absent"
                    /\ ~IsString(s.landscape_type), "10", at)
          \cup below
    BY <1>1 DEF RegoService, below
  <2>3. RegoService(d, at, TRUE) =
          When(NotAList(d.steps), "steps not a list", at)
          \cup When(d.priority = "0", "5", at)
          \cup When(LenIsZero(d.steps), "9", at)
          \cup When(IsString(d.landscape_type) /\ d.landscape_type \notin Landscapes, "10", at)
          \cup When(d.landscape_type # "null" /\ d.landscape_type # "absent"
                    /\ ~IsString(d.landscape_type), "10", at)
          \cup dumped
    BY <1>2 DEF RegoService, dumped
  <2>4. When(NotAList(s.steps), "steps not a list", at) = {} /\ When(LenIsZero(s.steps), "9", at) = {}
    BY <1>9 DEF When
  <2>5. When(s.priority = "0", "5", at) \subseteq When(d.priority = "0", "5", at)
    BY <1>8 DEF When
  <2>6. When(IsString(s.landscape_type) /\ s.landscape_type \notin Landscapes, "10", at)
          \subseteq When(IsString(d.landscape_type) /\ d.landscape_type \notin Landscapes, "10", at)
    BY <1>10 DEF When
  <2>7. When(s.landscape_type # "null" /\ s.landscape_type # "absent"
             /\ ~IsString(s.landscape_type), "10", at)
          \subseteq When(d.landscape_type # "null" /\ d.landscape_type # "absent"
                         /\ ~IsString(d.landscape_type), "10", at)
    BY <1>10 DEF When, Missing
  <2> QED
    BY <2>1, <2>2, <2>3, <2>4, <2>5, <2>6, <2>7
<1> QED
  BY <1>2, <1>4, <1>11 DEF d

\* The dump of an event has the violations of the event and of its services.
LEMMA EventDumped ==
  ASSUME NEW e, NEW at, EventAccepted(e)
  PROVE  /\ IsObject(DumpEvent(e))
         /\ IsList(DumpEvent(e).services)
         /\ \A j \in DOMAIN DumpEvent(e).services.items :
              LET s == DumpEvent(e).services.items[j]
              IN  /\ IsObject(s) /\ IsList(s.steps)
                  /\ \A k \in DOMAIN s.steps.items :
                       s.steps.items[k].resource_class \notin {"list", "object"}
         /\ RegoEvent(e, at, TRUE) \subseteq RegoEvent(DumpEvent(e), at, TRUE)
<1> DEFINE d == DumpEvent(e)
           services == AsList(e.services)
<1>1. /\ IsObject(e) /\ e.services.kind \in {"absent", "list"}
      /\ \A j \in DOMAIN services : ServiceAccepted(services[j])
      /\ e.event_type = "download" => services = <<>>
  BY DEF EventAccepted, DownloadComplete
<1>2. /\ IsObject(d) /\ IsList(d.services)
      /\ d.services.items = [j \in DOMAIN services |-> DumpService(services[j])]
      /\ d.event_type = e.event_type
      /\ d.ground_visibility = Default(e.ground_visibility, "false")
  BY DEF DumpEvent, ListOf, IsObject, IsList
<1>3. RegoItems(e.services) = services /\ RegoItems(d.services) = d.services.items
  BY <1>1, <1>2 DEF RegoItems, IsList, AsList
<1>4. \A j \in DOMAIN d.services.items :
        LET s == d.services.items[j]
        IN  /\ IsObject(s) /\ IsList(s.steps)
            /\ \A k \in DOMAIN s.steps.items :
                 s.steps.items[k].resource_class \notin {"list", "object"}
  BY <1>1, <1>2, ServiceDumped
<1>5. ASSUME NEW j \in DOMAIN services
      PROVE  RegoService(services[j], Append(at, j), IsList(e.services))
               \subseteq RegoService(d.services.items[j], Append(at, j), IsList(d.services))
  <2>1. IsList(e.services) = TRUE /\ IsList(d.services) = TRUE
    <3>1. DOMAIN <<>> = {}
      OBVIOUS
    <3> QED
      BY <1>2, <3>1 DEF AsList, IsList
  <2>2. ServiceAccepted(services[j]) /\ d.services.items[j] = DumpService(services[j])
    BY <1>1, <1>2
  <2> HIDE DEF d, services
  <2> QED
    BY <2>1, <2>2, ServiceDumped
<1>6. DOMAIN d.services.items = DOMAIN services
  BY <1>2
<1>7. /\ (~NotAList(e.services) /\ ~LenIsPositive(e.services)) \/ e.event_type # "download"
      /\ ~NotAList(e.services)
  BY <1>1 DEF NotAList, LenIsPositive, IsList, Missing, AsList
<1>8. LenIsZero(e.services) => LenIsZero(d.services)
  <2>1. CASE ~LenIsZero(e.services)
    BY <2>1
  <2>2. CASE LenIsZero(e.services)
    <3>1. services = <<>>
      BY <1>1, <2>2 DEF LenIsZero, AsList, IsList, Missing
    <3>2. d.services.items = <<>>
      BY <1>2, <3>1
    <3> QED
      BY <1>2, <3>2 DEF LenIsZero
  <2> QED
    BY <2>1, <2>2
<1>9. e.ground_visibility # "true" => d.ground_visibility # "true"
  BY <1>2 DEF Default
<1> HIDE DEF d, services
<1>10. RegoEvent(e, at, TRUE) \subseteq RegoEvent(d, at, TRUE)
  <2> DEFINE below == UNION {RegoService(RegoItems(e.services)[j], Append(at, j), IsList(e.services)) :
                              j \in DOMAIN RegoItems(e.services)}
             dumped == UNION {RegoService(RegoItems(d.services)[j], Append(at, j), IsList(d.services)) :
                              j \in DOMAIN RegoItems(d.services)}
  <2>1. below \subseteq dumped
    BY <1>3, <1>5, <1>6
  <2> HIDE DEF below, dumped
  <2>2. RegoEvent(e, at, TRUE) =
          When(TRUE /\ NotAList(e.services), "services not a list", at)
          \cup When(e.event_type = "acquisition" /\ LenIsZero(e.services), "3", at)
          \cup When(e.event_type = "download" /\ LenIsPositive(e.services), "7", at)
          \cup When(e.event_type = "download" /\ e.ground_visibility # "true", "8", at)
          \cup below
    BY <1>1 DEF RegoEvent, below
  <2>3. RegoEvent(d, at, TRUE) =
          When(TRUE /\ NotAList(d.services), "services not a list", at)
          \cup When(d.event_type = "acquisition" /\ LenIsZero(d.services), "3", at)
          \cup When(d.event_type = "download" /\ LenIsPositive(d.services), "7", at)
          \cup When(d.event_type = "download" /\ d.ground_visibility # "true", "8", at)
          \cup dumped
    BY <1>2 DEF RegoEvent, dumped
  <2>4. /\ When(TRUE /\ NotAList(e.services), "services not a list", at) = {}
        /\ When(e.event_type = "download" /\ LenIsPositive(e.services), "7", at) = {}
    BY <1>7 DEF When
  <2>5. When(e.event_type = "acquisition" /\ LenIsZero(e.services), "3", at)
          \subseteq When(d.event_type = "acquisition" /\ LenIsZero(d.services), "3", at)
    BY <1>2, <1>8 DEF When
  <2>6. When(e.event_type = "download" /\ e.ground_visibility # "true", "8", at)
          \subseteq When(d.event_type = "download" /\ d.ground_visibility # "true", "8", at)
    BY <1>2, <1>9 DEF When
  <2> QED
    BY <2>1, <2>2, <2>3, <2>4, <2>5, <2>6
<1> QED
  BY <1>2, <1>4, <1>10 DEF d

\* The dump of an accepted plan is written with lists, is one the mirror gives a
\* verdict on, and has every violation of the plan.
LEMMA PlanDumped ==
  ASSUME NEW p, SchemaAccepts(p)
  PROVE  /\ ListsOnly(Dump(p))
         /\ ~BaselineRaises(Dump(p))
         /\ Dump(p).mission_id # "separators"
         /\ RegoViolations(p) \subseteq RegoViolations(Dump(p))
<1> DEFINE d == Dump(p)
           events == p.events.items
<1>1. /\ p.mission_id \notin Missing \cup BlankToRego
      /\ p.mission_id # "separators"
      /\ IsList(p.events) /\ events # <<>>
      /\ \A i \in DOMAIN events : EventAccepted(events[i])
  BY DEF SchemaAccepts, Text, BlankToRego, BlankToPython, IsString, NonStrings, Missing
<1>2. /\ IsList(d.events)
      /\ d.events.items = [i \in DOMAIN events |-> DumpEvent(events[i])]
      /\ d.mission_id = p.mission_id
  BY DEF Dump, ListOf, IsList
<1>3. /\ AsList(d.events) = d.events.items
      /\ RegoItems(p.events) = events
      /\ RegoItems(d.events) = d.events.items
  BY <1>1, <1>2 DEF AsList, RegoItems, IsList
<1>4. ASSUME NEW i \in DOMAIN d.events.items
      PROVE  LET e == d.events.items[i]
             IN  /\ IsObject(e) /\ IsList(e.services)
                 /\ ReachedServices(e) = e.services.items
                 /\ \A j \in DOMAIN e.services.items :
                      LET s == e.services.items[j]
                      IN  /\ IsObject(s) /\ IsList(s.steps)
                          /\ ReachedSteps(s) = s.steps.items
                          /\ \A k \in DOMAIN s.steps.items :
                               s.steps.items[k].resource_class \notin {"list", "object"}
  <2>1. EventAccepted(events[i]) /\ d.events.items[i] = DumpEvent(events[i])
    BY <1>1, <1>2
  <2> HIDE DEF d, events
  <2> QED
    BY <2>1, EventDumped DEF ReachedServices, ReachedSteps, AsList
<1> HIDE DEF d, events
<1>5. ListsOnly(d)
  BY <1>2, <1>3, <1>4 DEF ListsOnly, IsList
<1>6. ~BaselineRaises(d)
  BY <1>3, <1>4 DEF BaselineRaises
<1>7. RegoViolations(p) \subseteq RegoViolations(d)
  <2> DEFINE below == UNION {RegoEvent(RegoItems(p.events)[i], <<i>>, IsList(p.events)) :
                              i \in DOMAIN RegoItems(p.events)}
             dumped == UNION {RegoEvent(RegoItems(d.events)[i], <<i>>, IsList(d.events)) :
                              i \in DOMAIN RegoItems(d.events)}
  <2>1. below \subseteq dumped
    <3>1. ASSUME NEW i \in DOMAIN events
          PROVE  RegoEvent(events[i], <<i>>, IsList(p.events))
                   \subseteq RegoEvent(d.events.items[i], <<i>>, IsList(d.events))
      <4>1. IsList(p.events) = TRUE /\ IsList(d.events) = TRUE
        BY <1>1, <1>2 DEF IsList
      <4>2. EventAccepted(events[i]) /\ d.events.items[i] = DumpEvent(events[i])
        BY <1>1, <1>2
      <4> QED
        BY <4>1, <4>2, EventDumped
    <3>2. DOMAIN d.events.items = DOMAIN events
      BY <1>2
    <3> QED
      BY <1>3, <3>1, <3>2
  <2> HIDE DEF below, dumped
  <2>2. RegoViolations(p) = below
    <3>1. ~NotAList(p.events) /\ ~LenIsZero(p.events)
      BY <1>1 DEF NotAList, LenIsZero, IsList, Missing, events
    <3> QED
      BY <1>1, <3>1 DEF RegoViolations, When, below
  <2>3. dumped \subseteq RegoViolations(d)
    BY DEF RegoViolations, dumped
  <2> QED
    BY <2>1, <2>2, <2>3
<1> QED
  BY <1>1, <1>2, <1>5, <1>6, <1>7 DEF d
=============================================================================
