-------------------------- MODULE MCExperimentRunner --------------------------
(* Two experiments, one of which declares an input and both of which are filed:
   what it reads is another source file to the first.  The second branch lacks the
   second experiment. *)
EXTENDS ExperimentRunner

MCScripts == <<"scaling.py", "policy.py">>
MCInputs == <<"none", "rules.rego">>
First == [p \in Paths |-> "v1"]
MCBranches == <<First, [First EXCEPT !["policy.py"] = "absent", !["rules.rego"] = "v2"]>>
=============================================================================
