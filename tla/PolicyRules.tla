---------------------------- MODULE PolicyRules ----------------------------
(***************************************************************************)
(* The ten deny rules and their structural guards, written twice in the    *)
(* program: the Rego bundle policies/mission_plan.rego, which opa runs,    *)
(* and its in-process mirror baseline_validator.py.                        *)
(*                                                                         *)
(* A plan is JSON as the engines receive it.  A scalar is the name of what *)
(* the rules can tell apart: "absent", "null", "true", "false", a number,  *)
(* a JSON "list" or "object" where a scalar belongs, and otherwise a       *)
(* string.  "blank" is white space; "separators" is made of the control    *)
(* characters U+001C to U+001F.  A container says what was written in its  *)
(* place and, for a list or an object, which values it holds.  A violation *)
(* is the rule it breaks and the path of the node that breaks it.          *)
(***************************************************************************)
EXTENDS Naturals, Sequences

Missing == {"absent", "null"}
Numbers == {"0", "10", "30", "60", "90", "-1"}
NonStrings == Missing \cup Numbers \cup {"true", "false", "list", "object"}
IsString(x) == x \notin NonStrings
Accelerators == {"gpu", "fpga"}
Landscapes == {"ocean", "land"}

\* Go's TrimSpace keeps U+001C to U+001F, Python's strip removes them.
BlankToRego == {"blank"}
BlankToPython == {"blank", "separators"}

Violation(rule, at) == [rule |-> rule, at |-> at]
When(condition, rule, at) == IF condition THEN {Violation(rule, at)} ELSE {}

IsObject(x) == x.kind = "object"
IsList(c) == c.kind = "list"

-----------------------------------------------------------------------------
\* The Rego bundle.  Its rules iterate over whatever can be iterated, so the
\* members of an object in place of a list are looked at too; only some of the
\* structural guards ask for an array first.
RegoItems(c) == IF c.kind \in {"list", "object"} THEN c.items ELSE <<>>

\* _len_or_zero: 0 for absent or null, undefined for what is not a list.
LenIsZero(c) == c.kind \in Missing \/ (IsList(c) /\ c.items = <<>>)
LenIsPositive(c) == IsList(c) /\ c.items # <<>>
NotAList(c) == c.kind \notin Missing /\ ~IsList(c)

RegoStep(s, at, listed) ==
  IF ~IsObject(s) THEN When(listed, "step not an object", at)
  ELSE When(s.resource_class \in Accelerators /\ s.fallback_resource_class \in Missing, "4", at)
       \cup When(/\ s.resource_class \in Accelerators
                 /\ s.fallback_resource_class \notin Missing
                 /\ s.fallback_resource_class # "cpu", "4", at)
       \cup When(s.resource_class = "cpu" /\ s.needs_acceleration = "true", "6", at)

RegoService(s, at, listed) ==
  IF ~IsObject(s) THEN When(listed, "service not an object", at)
  ELSE When(NotAList(s.steps), "steps not a list", at)
       \cup When(s.priority = "0", "5", at)
       \cup When(LenIsZero(s.steps), "9", at)
       \cup When(IsString(s.landscape_type) /\ s.landscape_type \notin Landscapes, "10", at)
       \cup When(s.landscape_type # "null" /\ s.landscape_type # "absent"
                 /\ ~IsString(s.landscape_type), "10", at)
       \cup UNION {RegoStep(RegoItems(s.steps)[k], Append(at, k), IsList(s.steps)) :
                     k \in DOMAIN RegoItems(s.steps)}

RegoEvent(e, at, listed) ==
  IF ~IsObject(e) THEN When(listed, "event not an object", at)
  ELSE When(listed /\ NotAList(e.services), "services not a list", at)
       \cup When(e.event_type = "acquisition" /\ LenIsZero(e.services), "3", at)
       \cup When(e.event_type = "download" /\ LenIsPositive(e.services), "7", at)
       \cup When(e.event_type = "download" /\ e.ground_visibility # "true", "8", at)
       \cup UNION {RegoService(RegoItems(e.services)[j], Append(at, j), IsList(e.services)) :
                     j \in DOMAIN RegoItems(e.services)}

RegoViolations(p) ==
  When(p.mission_id \in Missing \cup BlankToRego, "1", <<>>)
  \cup When(LenIsZero(p.events), "2", <<>>)
  \cup When(NotAList(p.events), "events not a list", <<>>)
  \cup UNION {RegoEvent(RegoItems(p.events)[i], <<i>>, IsList(p.events)) :
                i \in DOMAIN RegoItems(p.events)}

-----------------------------------------------------------------------------
\* The mirror.  _as_list turns absent and null into an empty list and marks
\* anything else that is not a list as malformed; the loops skip what is not one.
AsList(c) == IF IsList(c) THEN c.items ELSE <<>>
Malformed(c) == c.kind \notin Missing /\ ~IsList(c)

\* Mistake: the guard against booleans is the wrong way round.
ZeroIsFalse(s) == s.priority = "false"
HasZeroPriority(s) == s.priority = "0"

BaselineStep(s, at) ==
  IF ~IsObject(s) THEN {Violation("step not an object", at)}
  ELSE (IF s.resource_class \in Accelerators
        THEN IF s.fallback_resource_class \in Missing THEN {Violation("4", at)}
             ELSE When(s.fallback_resource_class # "cpu", "4", at)
        ELSE {})
       \cup When(s.resource_class = "cpu" /\ s.needs_acceleration = "true", "6", at)

\* Mistake: a malformed list of steps ends the evaluation of its service.
BaselineServiceStops(s, at) ==
  IF ~IsObject(s) THEN {Violation("service not an object", at)}
  ELSE IF Malformed(s.steps) THEN {Violation("steps not a list", at)}
  ELSE When(HasZeroPriority(s), "5", at)
       \cup When(AsList(s.steps) = <<>>, "9", at)
       \cup When(s.landscape_type \notin Missing \cup Landscapes, "10", at)
       \cup UNION {BaselineStep(AsList(s.steps)[k], Append(at, k)) : k \in DOMAIN AsList(s.steps)}
BaselineService(s, at) ==
  IF ~IsObject(s) THEN {Violation("service not an object", at)}
  ELSE LET steps == AsList(s.steps)
       IN  When(Malformed(s.steps), "steps not a list", at)
           \cup When(HasZeroPriority(s), "5", at)
           \cup When(~Malformed(s.steps) /\ steps = <<>>, "9", at)
           \cup When(s.landscape_type \notin Missing \cup Landscapes, "10", at)
           \cup UNION {BaselineStep(steps[k], Append(at, k)) : k \in DOMAIN steps}

BaselineEvent(e, at) ==
  IF ~IsObject(e) THEN {Violation("event not an object", at)}
  ELSE LET services == AsList(e.services)
       IN  When(Malformed(e.services), "services not a list", at)
           \cup When(e.event_type = "acquisition" /\ ~Malformed(e.services) /\ services = <<>>,
                     "3", at)
           \cup When(e.event_type = "download" /\ ~Malformed(e.services) /\ services # <<>>,
                     "7", at)
           \cup When(e.event_type = "download" /\ e.ground_visibility # "true", "8", at)
           \cup UNION {BaselineService(services[j], Append(at, j)) : j \in DOMAIN services}

BaselineViolations(p) ==
  When(p.mission_id \in Missing \cup BlankToPython, "1", <<>>)
  \cup (IF p.events.kind \in Missing THEN {Violation("2", <<>>)}
        ELSE IF ~IsList(p.events) THEN {Violation("events not a list", <<>>)}
        ELSE When(p.events.items = <<>>, "2", <<>>)
             \cup UNION {BaselineEvent(p.events.items[i], <<i>>) : i \in DOMAIN p.events.items})

\* Every step object the mirror reaches is looked up in a frozenset, which a
\* list or an object in the place of its class cannot be: violations() raises.
ReachedServices(e) == IF IsObject(e) THEN AsList(e.services) ELSE <<>>
ReachedSteps(s) == IF IsObject(s) THEN AsList(s.steps) ELSE <<>>
BaselineRaises(p) ==
  \E i \in DOMAIN AsList(p.events) :
    LET services == ReachedServices(AsList(p.events)[i])
    IN  \E j \in DOMAIN services :
          LET steps == ReachedSteps(services[j])
          IN  \E k \in DOMAIN steps :
                IsObject(steps[k]) /\ steps[k].resource_class \in {"list", "object"}

\* Every list of the plan is written as one.
ListsOnly(p) ==
  /\ p.events.kind # "object"
  /\ \A i \in DOMAIN AsList(p.events) :
       LET services == ReachedServices(AsList(p.events)[i])
       IN  /\ IsObject(AsList(p.events)[i]) => AsList(p.events)[i].services.kind # "object"
           /\ \A j \in DOMAIN services : IsObject(services[j]) => services[j].steps.kind # "object"
=============================================================================
