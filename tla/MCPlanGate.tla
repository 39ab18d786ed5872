----------------------------- MODULE MCPlanGate -----------------------------
(* Two calls on one file, and one change.  The contents are a plan that is fine,
   one with a priority of 0, which only the policy denies and the renderers cannot
   take, and one the schema refuses. *)
EXTENDS PlanGate, Corpus, TLC

MCPlans ==
  [valid |-> CorpusPlan["valid"], zero |-> CorpusPlan["zero_priority"], wrong |-> CorpusPlan["acq_no_instrument"]]
MCServers ==
  {[engine |-> "opa", bypass |-> FALSE], [engine |-> "baseline", bypass |-> TRUE],
   [engine |-> "unknown", bypass |-> FALSE]}
MCParts(x) == <<x>>
MCNumeral(n) == ToString(n)
MCBytes(x) == 1

Request(tool, skip, engine, decision) ==
  [tool |-> tool, path |-> "inside", skip |-> skip, engine |-> engine, decision |-> decision]
MCRequests ==
  [c1 |-> {Request(t, FALSE, "opa", "default") : t \in ServerTools}
          \cup {Request("compile_plan", TRUE, "opa", "default"),
                [Request("validate_plan", FALSE, "opa", "default") EXCEPT !.path = "outside"]},
   c2 |-> {Request("compile", FALSE, e, "default") : e \in {"opa", "baseline"}}
          \cup {Request("compile", TRUE, "opa", "default")}
          \cup {Request("policy", FALSE, "opa", d) : d \in {"default", "custom"}}]
=============================================================================
