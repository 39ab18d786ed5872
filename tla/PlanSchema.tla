----------------------------- MODULE PlanSchema -----------------------------
(***************************************************************************)
(* The schema of a mission plan (schemas.py): which JSON it accepts, and   *)
(* the plan it makes of it, as model_dump(mode="json") hands it to the     *)
(* policy engines.  The values are those of PolicyRules, with a quoted     *)
(* number between quotes of its own ("'30'"), and each object carries      *)
(* "extra": whether it has a key the schema does not know.                 *)
(***************************************************************************)
EXTENDS PolicyRules

Text(x) == IsString(x) /\ x \notin BlankToPython
OrMissing(x, values) == x \in Missing \cup values
OrAbsent(x, values) == x \in {"absent"} \cup values

\* _plain_decimal: a quoted number is accepted when it reads as the number it
\* becomes ("'1_0'" does not).
QuotedNumbers == {"'0'", "'30'"}
Unquoted(x) == CASE x = "'0'" -> "0" [] x = "'30'" -> "30" [] OTHER -> x
NotNegative == (Numbers \cup QuotedNumbers) \ {"-1"}

Zoned == {"t0Z", "t0+2", "t0-2", "t10Z", "t20Z"}
Classes == {"cpu"} \cup Accelerators
Modes == {"sequential", "parallel"}

\* The metadata of a step is "json", or holds what JSON cannot say (binary, a
\* set, an infinity, a cycle, a key that is no string).  A selector is "labels",
\* or has a key or a value the API server refuses.
StepAccepted(s) ==
  /\ IsObject(s) /\ ~s.extra
  /\ Text(s.name) /\ Text(s.image)
  /\ OrAbsent(s.resource_class, Classes)
  /\ OrMissing(s.fallback_resource_class, Classes)
  /\ OrAbsent(s.needs_acceleration, {"true", "false"})
  /\ OrAbsent(s.metadata, {"json"})
  /\ OrAbsent(s.selector, {"labels"})

ServiceAccepted(s) ==
  /\ IsObject(s) /\ ~s.extra
  /\ Text(s.service_id)
  /\ s.priority \in NotNegative
  /\ s.landscape_type \in Missing \/ IsString(s.landscape_type)
  /\ OrAbsent(s.execution_mode, Modes)
  /\ IsList(s.steps) /\ s.steps.items # <<>>
  /\ \A k \in DOMAIN s.steps.items : StepAccepted(s.steps.items[k])

\* check_event_constraints, after the fields have been validated.
AcquisitionComplete(e) == Text(e.instrument)
\* Mistake: the visibility of the ground is left to the policy.
DownloadTimed(e) ==
  /\ e.duration_seconds \notin Missing
  /\ AsList(e.services) = <<>>
DownloadComplete(e) ==
  /\ e.duration_seconds \notin Missing
  /\ AsList(e.services) = <<>>
  /\ e.ground_visibility = "true"

EventAccepted(e) ==
  /\ IsObject(e) /\ ~e.extra
  /\ e.timestamp \in Zoned
  /\ OrMissing(e.duration_seconds, NotNegative)
  /\ e.instrument \in Missing \/ IsString(e.instrument)
  /\ OrAbsent(e.ground_visibility, {"true", "false"})
  /\ e.services.kind \in {"absent", "list"}
  /\ \A j \in DOMAIN AsList(e.services) : ServiceAccepted(AsList(e.services)[j])
  /\ \/ e.event_type = "acquisition" /\ AcquisitionComplete(e)
     \/ e.event_type = "download" /\ DownloadComplete(e)

SchemaAccepts(p) ==
  /\ ~p.extra
  /\ Text(p.mission_id)
  /\ IsList(p.events) /\ p.events.items # <<>>
  /\ \A i \in DOMAIN p.events.items : EventAccepted(p.events.items[i])

-----------------------------------------------------------------------------
\* What an accepted plan becomes: every default written out, every quoted number
\* a number.
Default(x, value) == IF x = "absent" THEN value ELSE x
ListOf(items) == [kind |-> "list", items |-> items]

\* Mistake: values that are the default are left out of the dump.
DumpStepBriefly(s) ==
  [s EXCEPT !.resource_class = IF @ = "cpu" THEN "absent" ELSE @,
            !.fallback_resource_class = Default(@, "null")]
DumpStep(s) ==
  [kind |-> "object", extra |-> FALSE, name |-> s.name, image |-> s.image,
   resource_class |-> Default(s.resource_class, "cpu"),
   fallback_resource_class |-> Default(s.fallback_resource_class, "null"),
   needs_acceleration |-> Default(s.needs_acceleration, "false"),
   metadata |-> "json", selector |-> "labels"]

DumpService(s) ==
  [kind |-> "object", extra |-> FALSE, service_id |-> s.service_id,
   priority |-> Unquoted(s.priority),
   landscape_type |-> Default(s.landscape_type, "null"),
   execution_mode |-> Default(s.execution_mode, "sequential"),
   steps |-> ListOf([k \in DOMAIN s.steps.items |-> DumpStep(s.steps.items[k])])]

DumpEvent(e) ==
  [kind |-> "object", extra |-> FALSE, event_type |-> e.event_type, timestamp |-> e.timestamp,
   duration_seconds |-> Unquoted(Default(e.duration_seconds, "null")),
   instrument |-> Default(e.instrument, "null"),
   ground_visibility |-> Default(e.ground_visibility, "false"),
   services |-> ListOf([j \in DOMAIN AsList(e.services) |-> DumpService(AsList(e.services)[j])])]

Dump(p) ==
  [extra |-> FALSE, mission_id |-> p.mission_id,
   events |-> ListOf([i \in DOMAIN p.events.items |-> DumpEvent(p.events.items[i])])]
=============================================================================
