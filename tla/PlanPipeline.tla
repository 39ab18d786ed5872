---------------------------- MODULE PlanPipeline ----------------------------
(***************************************************************************)
(* A plan while an author edits it, one field at a time, and what the      *)
(* program says of it at every point: whether the schema takes it, what    *)
(* each policy engine finds, and what would be compiled and rendered.      *)
(***************************************************************************)
EXTENDS Corpus, Manifests

CONSTANTS
  MorePlans,   \* plans to start from besides those of the corpus
  Names,       \* service ids and step names an author may write
  MaxEdits     \* how many edits a behaviour has

\* What stands where in the JSON of a plan: in every list the items in their
\* order, in every event its services, in every service its steps.
IsSequence(x) == x \in Seq({x[k] : k \in DOMAIN x})
StepsShaped(c) == "items" \in DOMAIN c /\ IsSequence(c.items)
ServicesShaped(c) ==
  /\ "items" \in DOMAIN c /\ IsSequence(c.items)
  /\ \A j \in DOMAIN c.items :
       "steps" \in DOMAIN c.items[j] /\ StepsShaped(c.items[j].steps)
EventsShaped(c) ==
  /\ "items" \in DOMAIN c /\ IsSequence(c.items)
  /\ \A i \in DOMAIN c.items :
       "services" \in DOMAIN c.items[i] /\ ServicesShaped(c.items[i].services)
PlanShaped(p) == "events" \in DOMAIN p /\ EventsShaped(p.events)

ASSUME PlansAssumption == \A p \in MorePlans : PlanShaped(p)

VARIABLES
  plan,        \* the JSON of the file
  category,    \* the corpus entry it is, or "edited"
  edits

vars == <<plan, category, edits>>

Nothing == {[kind |-> k, items |-> <<>>] : k \in {"absent", "null", "other"}}

\* Other values for a list: nothing, an object with its members, none of them,
\* or its first one twice.
ListEdits(c) ==
  Nothing \cup {[c EXCEPT !.kind = "object"], ListOf(<<>>)}
          \cup {ListOf(Append(c.items, c.items[1])) : n \in {1} \cap DOMAIN c.items}
EachItem(c, Edits(_)) == UNION {{[c EXCEPT !.items[n] = x] : x \in Edits(c.items[n])} : n \in DOMAIN c.items}

StepEdits(s) ==
  IF ~IsObject(s) THEN {}
  ELSE {[s EXCEPT !.kind = "other"], [s EXCEPT !.extra = TRUE], [s EXCEPT !.image = "blank"],
        [s EXCEPT !.metadata = "not json"], [s EXCEPT !.selector = "refused"]}
       \cup {[s EXCEPT !.name = v] : v \in Names \cup {"separators"}}
       \cup {[s EXCEPT !.resource_class = v] : v \in Classes \cup Missing \cup {"tpu", "list"}}
       \cup {[s EXCEPT !.fallback_resource_class = v] : v \in Classes \cup Missing \cup {"true"}}
       \cup {[s EXCEPT !.needs_acceleration = v] : v \in {"absent", "null", "true", "false", "yes"}}
ServiceEdits(s) ==
  IF ~IsObject(s) THEN {}
  ELSE {[s EXCEPT !.kind = "other"], [s EXCEPT !.extra = TRUE]}
       \cup {[s EXCEPT !.service_id = v] : v \in Names \cup {"null", "blank"}}
       \cup {[s EXCEPT !.priority = v] : v \in Numbers \cup QuotedNumbers \cup {"true", "null", "'1_0'"}}
       \cup {[s EXCEPT !.landscape_type = v] : v \in {"absent", "null", "land", "desert", "list"}}
       \cup {[s EXCEPT !.execution_mode = v] : v \in Modes \cup {"absent", "serial"}}
       \cup {[s EXCEPT !.steps = c] : c \in ListEdits(s.steps) \cup EachItem(s.steps, StepEdits)}
EventEdits(e) ==
  IF ~IsObject(e) THEN {}
  ELSE {[e EXCEPT !.kind = "other"], [e EXCEPT !.extra = TRUE]}
       \cup {[e EXCEPT !.event_type = v] : v \in {"acquisition", "download", "uplink", "null"}}
       \cup {[e EXCEPT !.timestamp = v] : v \in Zoned \cup {"absent", "local"}}
       \cup {[e EXCEPT !.duration_seconds = v] : v \in Numbers \cup QuotedNumbers \cup {"null", "true"}}
       \cup {[e EXCEPT !.instrument = v] : v \in {"absent", "blank", "MSI"}}
       \cup {[e EXCEPT !.ground_visibility = v] : v \in {"absent", "true", "false", "yes"}}
       \cup {[e EXCEPT !.services = c] : c \in ListEdits(e.services) \cup EachItem(e.services, ServiceEdits)}
PlanEdits(p) ==
  {[p EXCEPT !.extra = TRUE]}
  \cup {[p EXCEPT !.mission_id = v] : v \in {"absent", "null", "blank", "separators", "10", "long"}}
  \cup {[p EXCEPT !.events = c] : c \in ListEdits(p.events) \cup EachItem(p.events, EventEdits)}

Init ==
  /\ \/ \E c \in DOMAIN CorpusPlan : plan = CorpusPlan[c] /\ category = c
     \/ plan \in MorePlans /\ category = "edited"
  /\ edits = 0

AuthorEdits ==
  /\ edits < MaxEdits
  /\ edits' = edits + 1
  /\ category' = "edited"
  /\ plan' \in PlanEdits(plan)

Next == AuthorEdits
Spec == Init /\ [][Next]_vars

-----------------------------------------------------------------------------
\* The engines give one verdict on the raw plan, however malformed, and where
\* its lists are lists the same violations at the same paths: the contract of
\* baseline_validator.py:10-19, short of what EnginesDisagree shows.  On what
\* the schema let through nothing is short of it.
EnginesAgree ==
  /\ (~BaselineRaises(plan) /\ plan.mission_id # "separators") =>
       /\ (RegoViolations(plan) = {}) = (BaselineViolations(plan) = {})
       /\ ListsOnly(plan) => RegoViolations(plan) = BaselineViolations(plan)
  /\ SchemaAccepts(plan) =>
       /\ ~BaselineRaises(Dump(plan))
       /\ RegoViolations(Dump(plan)) = BaselineViolations(Dump(plan))

\* The contract as baseline_validator.py:11 words it: the same decision on all
\* inputs, the raw-JSON bypass path included.
SameDecisionOnAllInputs ==
  /\ ~BaselineRaises(plan)
  /\ (RegoViolations(plan) = {}) = (BaselineViolations(plan) = {})

\* What the policy is shown is the dump of the loaded model, not the file.
\* Writing the defaults out and reading quoted numbers hides no violation of
\* the file: so the combined arm of the ablation, and the gate, find whatever
\* either layer finds alone.
NormalisingHidesNothing ==
  /\ SchemaAccepts(plan) => RegoViolations(plan) \subseteq RegoViolations(Dump(plan))
  /\ (SchemaDetects(plan) \/ PolicyDetects(plan)) => CombinedDetects(plan)

\* Each wrong plan of the corpus is found by exactly the layers the table of
\* format_results_table names, and the right ones by none.
LayersAreRight ==
  category # "edited" =>
    /\ SchemaDetects(plan) = (category \in SchemaOnly \cup Both)
    /\ PolicyDetects(plan) = (category \in PolicyOnly \cup Both)

-----------------------------------------------------------------------------
Compiled == Intents(Dump(plan))
Renders ==
  /\ SchemaAccepts(plan)
  /\ \A n \in DOMAIN Compiled : ~ArgoRaises(Compiled[n]) /\ ~KueueRaises(Compiled[n])
FilesOf(n, fallback) ==
  ArgoFiles(Compiled[n], "ns", fallback) \cup KueueFiles(Compiled[n], "ns", fallback)
AllFiles(fallback) == UNION {FilesOf(n, fallback) : n \in DOMAIN Compiled}

\* No two intents of a plan share a name, so no file of a render overwrites
\* another and no object of it replaces another on apply: not for services that
\* repeat, for identifiers and offsets that normalise alike, for names ending in
\* a number, or for names too long to keep.  A template has one definition, and
\* the tasks of a workflow are told apart.
NamesDistinct ==
  SchemaAccepts(plan) =>
    LET compiled == Compiled
        templates == UNION {ClaimTemplates(compiled[n], "ns", TRUE) : n \in DOMAIN compiled}
    IN  /\ \A m, n \in DOMAIN compiled : m # n => compiled[m].name # compiled[n].name
        /\ \A t, u \in templates : t.name = u.name => t = u
        /\ \A n \in DOMAIN compiled : \A k, l \in DOMAIN compiled[n].steps :
             k # l => TaskName(compiled[n], k) # TaskName(compiled[n], l)

\* A conflict is reported exactly for two acquisitions that share a moment:
\* windows that touch, or are empty, share none, and one without a duration is
\* reported as skipped.
Moments(e) == {Opens(e) + n : n \in {m \in 0..90 : Opens(e) + m < Closes(e)}}
SharesMoment(a, b) == Moments(a) \cap Moments(b) # {}
ConflictsAreOverlaps ==
  SchemaAccepts(plan) =>
    LET d == Dump(plan)
        at == {i \in DOMAIN d.events.items : d.events.items[i].event_type = "acquisition"}
    IN  Conflicts(d) =
          {w \in (at \ SkippedWindows(d)) \X (at \ SkippedWindows(d)) :
             w[1] < w[2] /\ SharesMoment(d.events.items[w[1]], d.events.items[w[2]])}

\* Every claim of a workload is resolved by a template that is in the same file,
\* in the same namespace, and of the kind its route admits: "exactly" for a Job
\* Kueue admits, "firstAvailable" for the scheduler.  A workflow has the claim
\* when it has a step that can fall back.
ReferencesResolve ==
  Renders =>
    \A fallback \in BOOLEAN : \A f \in AllFiles(fallback) : \A w \in f.workload :
      /\ \A c \in w.claims : \E t \in f.templates :
           /\ t.name = c /\ t.namespace = w.namespace
           /\ t.request = IF w.kind = "Job" THEN "exactly" ELSE "firstAvailable"
      /\ \A t \in f.templates : w.kind = "Workflow" => t.name \in w.claims

\* The workflow runs every step once and, in a sequential service, in the order
\* of the plan; the Job says which steps it leaves out, and with the one it runs
\* they are all of them; and it leaves out no step that needs a GPU for one that
\* does not.
Before(w, k) == {l \in DOMAIN w.tasks : w.tasks[l].name \in w.tasks[k].depends}
StepsAccountedFor ==
  Renders =>
    \A n \in DOMAIN Compiled :
      LET intent == Compiled[n]
          w == Workflow(intent, "ns", FALSE)
          job == Job(intent, "ns", FALSE)
      IN  /\ DOMAIN w.tasks = DOMAIN intent.steps
          /\ \A k \in DOMAIN w.tasks :
               Before(w, k) = IF intent.mode = "sequential" /\ k > 1 THEN {k - 1} ELSE {}
          /\ job.reported \cup {job.runs} = DOMAIN intent.steps
          /\ job.runs \notin job.reported
          /\ (\E s \in job.reported : intent.steps[s].resource_class = "gpu") =>
               intent.steps[job.runs].resource_class = "gpu"

\* A plan the policy allows is rendered unless its identifiers are too long for
\* the annotations that carry them, which neither the schema nor the policy looks
\* at: a priority of 0, which the schema takes and the renderers refuse, never ends
\* a render in an exception after the verdict.
AdmittedPlansRender ==
  (SchemaAccepts(plan) /\ BaselineViolations(Dump(plan)) = {}) =>
    (Renders <=> \A n \in DOMAIN Compiled : ArgoFits(Compiled[n]) /\ KueueFits(Compiled[n]))
=============================================================================
