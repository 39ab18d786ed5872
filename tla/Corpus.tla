------------------------------- MODULE Corpus -------------------------------
(***************************************************************************)
(* The plans of ablation.py, one for each way a plan is known to be wrong, *)
(* and the layer its table says finds each: the schema, the policy or both.*)
(***************************************************************************)
EXTENDS PlanSchema

ValidStep ==
  [kind |-> "object", extra |-> FALSE, name |-> "detect", image |-> "busybox",
   resource_class |-> "cpu", fallback_resource_class |-> "absent",
   needs_acceleration |-> "absent", metadata |-> "absent", selector |-> "absent"]
ValidGpuStep ==
  [ValidStep EXCEPT !.name = "gpu-detect", !.resource_class = "gpu",
                    !.needs_acceleration = "true", !.fallback_resource_class = "cpu"]
ValidService ==
  [kind |-> "object", extra |-> FALSE, service_id |-> "ship", priority |-> "30",
   landscape_type |-> "ocean", execution_mode |-> "sequential", steps |-> ListOf(<<ValidStep>>)]
ValidAcquisition ==
  [kind |-> "object", extra |-> FALSE, event_type |-> "acquisition", timestamp |-> "t0Z",
   duration_seconds |-> "absent", instrument |-> "MSI", ground_visibility |-> "false",
   services |-> ListOf(<<ValidService>>)]
ValidDownload ==
  [kind |-> "object", extra |-> FALSE, event_type |-> "download", timestamp |-> "t10Z",
   duration_seconds |-> "30", instrument |-> "absent", ground_visibility |-> "true",
   services |-> [kind |-> "absent", items |-> <<>>]]

PlanOf(events) == [extra |-> FALSE, mission_id |-> "ablation", events |-> ListOf(events)]
BasePlan == PlanOf(<<ValidAcquisition>>)
WithServices(services) == PlanOf(<<[ValidAcquisition EXCEPT !.services = ListOf(services)]>>)
WithSteps(steps) == WithServices(<<[ValidService EXCEPT !.steps = ListOf(steps)]>>)

\* generate_mutation_corpus.
CorpusPlan ==
  [valid |-> BasePlan,
   valid_download |-> PlanOf(<<ValidAcquisition, ValidDownload>>),
   acq_no_instrument |-> PlanOf(<<[ValidAcquisition EXCEPT !.instrument = "absent"]>>),
   download_no_duration |-> PlanOf(<<[ValidDownload EXCEPT !.duration_seconds = "absent"]>>),
   acq_no_services |-> WithServices(<<>>),
   gpu_no_fallback |-> WithSteps(<<[ValidGpuStep EXCEPT !.fallback_resource_class = "absent"]>>),
   zero_priority |-> WithServices(<<[ValidService EXCEPT !.priority = "0"]>>),
   cpu_acceleration |-> WithSteps(<<[ValidStep EXCEPT !.needs_acceleration = "true"]>>),
   invalid_landscape |-> WithServices(<<[ValidService EXCEPT !.landscape_type = "desert"]>>),
   empty_mission_id |-> [BasePlan EXCEPT !.mission_id = "blank"],
   empty_events |-> PlanOf(<<>>),
   download_with_services |-> PlanOf(<<[ValidDownload EXCEPT !.services = ListOf(<<ValidService>>)]>>),
   download_no_visibility |-> PlanOf(<<[ValidDownload EXCEPT !.ground_visibility = "false"]>>),
   service_no_steps |-> WithSteps(<<>>)]

\* The layer_map of format_results_table.
SchemaOnly == {"acq_no_instrument", "download_no_duration"}
PolicyOnly == {"acq_no_services", "gpu_no_fallback", "zero_priority", "cpu_acceleration", "invalid_landscape"}
Both == {"empty_mission_id", "empty_events", "download_with_services", "download_no_visibility",
         "service_no_steps"}

\* The three arms of run_ablation_study.
SchemaDetects(p) == ~SchemaAccepts(p)
PolicyDetects(p) == RegoViolations(p) # {}
CombinedDetects(p) == IF SchemaDetects(p) THEN TRUE ELSE PolicyDetects(Dump(p))
=============================================================================
