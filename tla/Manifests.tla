----------------------------- MODULE Manifests -----------------------------
(***************************************************************************)
(* What the renderers of compiler.py make of an intent, as far as one      *)
(* object refers to another: the tasks of an Argo workflow, the device     *)
(* claims of its Pods, the step a Kueue Job runs, the claim templates      *)
(* these are resolved against, and the file each object is written to.     *)
(***************************************************************************)
EXTENDS Compilation, FiniteSetsExt

CONSTANTS
  Bytes(_),       \* Bytes(x): how long an identifier is in UTF-8
  MaxAnnotations  \* how many bytes of identifiers the annotations of an object may hold

ASSUME MaxAnnotationsAssumption == MaxAnnotations \in Nat

IsGpu(s) == s.resource_class = "gpu"
IsFpga(s) == s.resource_class = "fpga"

\* _dra_fallback_steps: the one direction a driver backs.
FallsBack(s) == IsGpu(s) /\ s.fallback_resource_class = "cpu"
FallbackSteps(intent) == {k \in DOMAIN intent.steps : FallsBack(intent.steps[k])}

ClaimName(intent, device) == Extended(intent.name, <<device, "claim">>, MaxParts)

Template(name, namespace, route, request) ==
  [name |-> name, namespace |-> namespace, route |-> route, request |-> request]
FirstAvailable(intent, namespace) ==
  IF FallbackSteps(intent) = {} THEN {}
  ELSE {Template(ClaimName(intent, "accel"), namespace, "scheduler", "firstAvailable")}

\* Mistake: the template is there only if the first step asks for the device.
TemplatesOfFirst(intent, namespace, fallback) ==
  (IF fallback THEN FirstAvailable(intent, namespace) ELSE {})
  \cup (IF IsGpu(intent.steps[1])
        THEN {Template(ClaimName(intent, "gpu"), namespace, "kueue", "exactly")} ELSE {})
ClaimTemplates(intent, namespace, fallback) ==
  (IF fallback THEN FirstAvailable(intent, namespace) ELSE {})
  \cup (IF \E k \in DOMAIN intent.steps : IsGpu(intent.steps[k])
        THEN {Template(ClaimName(intent, "gpu"), namespace, "kueue", "exactly")} ELSE {})

-----------------------------------------------------------------------------
\* The Argo workflow: one template and one task for each step, named
\* step-<index>-<name>, in a chain or side by side.
TaskName(intent, k) ==
  ResistantName(<<"step", Numeral(k)>> \o Parts(intent.steps[k].name),
                <<Numeral(k), intent.steps[k].name>>, MaxParts)

\* Mistake: each task depends on the first one.
ChainOfFirst(intent, k) ==
  IF intent.mode = "sequential" /\ k > 1 THEN {TaskName(intent, 1)} ELSE {}
Depends(intent, k) ==
  IF intent.mode = "sequential" /\ k > 1 THEN {TaskName(intent, k - 1)} ELSE {}

Workflow(intent, namespace, fallback) ==
  [kind |-> "Workflow", namespace |-> namespace,
   tasks |-> [k \in DOMAIN intent.steps |->
                [name |-> TaskName(intent, k), depends |-> Depends(intent, k)]],
   claims |-> IF fallback /\ FallbackSteps(intent) # {} THEN {ClaimName(intent, "accel")} ELSE {}]

\* write_individual_workflows: the template, if any, in the file of the workflow.
ArgoFiles(intent, namespace, fallback) ==
  {[file |-> <<intent.name, "">>, workload |-> {Workflow(intent, namespace, fallback)},
    templates |-> IF fallback THEN FirstAvailable(intent, namespace) ELSE {}]}

-----------------------------------------------------------------------------
\* The Kueue Job runs one step, the first of the scarcest class there is.
With(intent, Is(_)) == {k \in DOMAIN intent.steps : Is(intent.steps[k])}
Primary(intent) ==
  IF With(intent, IsGpu) # {} THEN Min(With(intent, IsGpu))
  ELSE IF With(intent, IsFpga) # {} THEN Min(With(intent, IsFpga))
  ELSE 1

\* Mistake: the steps left out are told from the one that runs by their name.
DroppedByName(intent) ==
  {k \in DOMAIN intent.steps : intent.steps[k].name # intent.steps[Primary(intent)].name}
Dropped(intent) == DOMAIN intent.steps \ {Primary(intent)}

-----------------------------------------------------------------------------
\* What the annotations carry of the plan: the mission twice, and on a Job the
\* name of the step it runs and, between commas, those it leaves out.  The rest
\* is of one size for every plan, and a template carries the mission alone.
MissionBytes(intent) == 2 * Bytes(intent.mission)
StepBytes(intent) ==
  MapThenSumSet(LAMBDA k : Bytes(intent.steps[k].name), DOMAIN intent.steps)
  + Max({0, Cardinality(Dropped(intent)) - 1})

\* _require_annotations_fit
ArgoFits(intent) == MissionBytes(intent) <= MaxAnnotations
KueueFits(intent) == MissionBytes(intent) + StepBytes(intent) <= MaxAnnotations

\* scale_priority_orchide over the priorities of the plans: 0 is refused.
Tier(priority) ==
  CASE priority = "90" -> 1 [] priority = "60" -> 2 [] priority = "30" -> 3 [] priority = "10" -> 4
ArgoRaises(intent) == intent.priority = "0" \/ ~ArgoFits(intent)
KueueRaises(intent) == intent.priority = "0" \/ ~KueueFits(intent)

\* Mistake: a Job with a fallback asks for the device the scheduler chooses.
JobWithFallback(intent, namespace, fallback) ==
  [kind |-> "Job", namespace |-> namespace,
   runs |-> Primary(intent), reported |-> Dropped(intent), tier |-> Tier(intent.priority),
   claims |-> IF IsGpu(intent.steps[Primary(intent)])
              THEN {ClaimName(intent, IF fallback THEN "accel" ELSE "gpu")} ELSE {}]
Job(intent, namespace, fallback) ==
  [kind |-> "Job", namespace |-> namespace,
   runs |-> Primary(intent), reported |-> Dropped(intent), tier |-> Tier(intent.priority),
   claims |-> IF IsGpu(intent.steps[Primary(intent)]) THEN {ClaimName(intent, "gpu")} ELSE {}]

\* cmd_render_kueue: the template of the scheduler's route in a file of its own.
KueueFiles(intent, namespace, fallback) ==
  LET all == ClaimTemplates(intent, namespace, fallback)
      scheduler == {t \in all : t.route = "scheduler"}
  IN  {[file |-> <<intent.name, "kueue">>, workload |-> {Job(intent, namespace, fallback)},
        templates |-> all \ scheduler]}
      \cup (IF scheduler = {} THEN {}
            ELSE {[file |-> <<intent.name, "scheduler-fallback">>, workload |-> {},
                   templates |-> scheduler]})
=============================================================================
