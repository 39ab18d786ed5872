------------------------------ MODULE PlanGate ------------------------------
(***************************************************************************)
(* The admission gate as its callers meet it: the tools of the MCP server  *)
(* (mcp/server.py) and the commands policy and compile, running beside one *)
(* another on a plan file that others write, with an opa that may be       *)
(* missing, go away, hang, fail or answer anything (policy.py), and the    *)
(* strict reading of what it answers (typed_violations_from_decision).     *)
(*                                                                         *)
(* The contents of the file are named by the domain of Plans; what the     *)
(* schema, the engines and the renderers make of them is that of           *)
(* PlanSchema, PolicyRules and Manifests.                                  *)
(***************************************************************************)
EXTENDS Manifests

CONSTANTS
  Calls,       \* the calls that are made
  Plans,       \* Plans[x]: the JSON of the content x
  Requests,    \* Requests[c]: what the call c may ask for
  Servers,     \* how the operator may have configured the server
  Messages,    \* messages a decision of the caller's own may carry
  MaxChanges   \* how often the file is changed

VARIABLES
  file,          \* the content of the plan file, or "missing"
  server,        \* its engine, read once at import, and whether it allows a bypass
  call,          \* call[c]: how far a call is and what it holds
  changes

vars == <<file, server, call, changes>>
environment == <<file, server, changes>>

Gated == {"validate_plan", "compile_plan", "render_argo"}
ServerTools == Gated \cup {"explain_policy", "check_timeline_conflicts", "diff_plans"}
Commands == {"compile", "policy"}
Files == DOMAIN Plans \cup {"missing"}

\* path is what _validate_plan_path makes of the argument by itself; skip asks
\* for the bypass; decision is "custom" when the caller names one of its own.
\* An engine that is neither opa nor baseline is refused at each call.
ASSUME RequestsAssumption ==
  /\ \A c \in Calls : Requests[c] # {} /\ \A r \in Requests[c] :
       /\ r.tool \in ServerTools \cup Commands
       /\ r.path \in {"inside", "outside"} /\ r.skip \in BOOLEAN
       /\ r.engine \in {"opa", "baseline"} /\ r.decision \in {"default", "custom"}
       /\ r.tool \in Gated => r.decision = "default"
  /\ Servers \subseteq [engine : {"opa", "baseline", "unknown"}, bypass : BOOLEAN]
  /\ {"missing", "none"} \cap DOMAIN Plans = {} /\ MaxChanges \in Nat

\* The contents that load, and what is found in each, once loaded.
Accepted == {x \in DOMAIN Plans : SchemaAccepts(Plans[x])}
BundleFinds == [x \in Accepted |-> RegoViolations(Dump(Plans[x]))]
MirrorFinds == [x \in Accepted |-> BaselineViolations(Dump(Plans[x]))]
Unrenderable ==
  {x \in Accepted : LET intents == Intents(Dump(Plans[x]))
                    IN  \E n \in DOMAIN intents : ArgoRaises(intents[n])}

-----------------------------------------------------------------------------
\* A decision: the value opa gives, and its three fields.  A field is a list of
\* messages, absent, or not the list it has to be: "unusable".
Field(kind, items) == [kind |-> kind, items |-> items]
Fields == {Field("absent", {}), Field("unusable", {})} \cup {Field("list", s) : s \in SUBSET Messages}
NoDecision == [kind |-> "other", allow |-> "absent", deny |-> Field("absent", {}),
               violations |-> Field("absent", {})]
AnyDecision ==
  {NoDecision} \cup [kind : {"object"}, allow : {"absent", "true", "false", "unusable"},
                     deny : Fields, violations : Fields]

\* What the bundle says of a plan: deny is the projection of violations.
BundleDecision(found) ==
  [kind |-> "object", allow |-> IF found = {} THEN "true" ELSE "false",
   deny |-> Field("list", found), violations |-> Field("list", found)]

Undecided == [kind |-> "undecided", items |-> {}]
Decided(found) == [kind |-> "decided", items |-> found]

Readable(d) ==
  /\ d.kind = "object" /\ d.allow # "unusable"
  /\ d.deny.kind # "unusable" /\ d.violations.kind # "unusable"
  /\ {d.deny.kind, d.violations.kind} # {"absent"}
  /\ (d.deny.kind = "list" /\ d.violations.kind = "list") => d.deny.items = d.violations.items
Reported(d) == IF d.violations.kind = "list" THEN d.violations.items ELSE d.deny.items
Contradicts(d) ==
  (d.allow = "true" /\ Reported(d) # {}) \/ (d.allow = "false" /\ Reported(d) = {})

\* Mistake: with violations there, deny is not looked at.
ReadViolationsOnly(d) ==
  IF d.violations.kind = "list" /\ d.allow # "unusable" /\ ~Contradicts(d) THEN Decided(d.violations.items)
  ELSE IF Readable(d) /\ ~Contradicts(d) THEN Decided(Reported(d)) ELSE Undecided
TypedViolations(d) == IF Readable(d) /\ ~Contradicts(d) THEN Decided(Reported(d)) ELSE Undecided

\* Whether anything in a decision is against the plan, or it is none.
Opposes(d) ==
  \/ d.kind # "object" \/ d.allow \notin {"absent", "true"}
  \/ \E f \in {d.deny, d.violations} : f.kind = "unusable" \/ f.items # {}
  \/ d.deny.kind = "absent" /\ d.violations.kind = "absent"

-----------------------------------------------------------------------------
Idle(c) ==
  [phase |-> "idle", request |-> CHOOSE r \in Requests[c] : TRUE, plan |-> "none",
   rc |-> 0, parsed |-> FALSE, opposed |-> FALSE, verdict |-> Undecided, bypassed |-> FALSE,
   artifact |-> "none", answer |-> "none", exit |-> "none"]

Init ==
  /\ file \in Files
  /\ server \in Servers
  /\ changes = 0
  /\ call = [c \in Calls |-> Idle(c)]

Tool(c) == call[c].request.tool
IsCommand(c) == Tool(c) \in Commands

\* The engine that judges for a call.
Engine(c) ==
  CASE Tool(c) \in Gated -> server.engine
    [] Tool(c) = "compile" -> call[c].request.engine
    [] OTHER -> "opa"

Becomes(c, new) == call' = [call EXCEPT ![c] = new] /\ UNCHANGED environment
Goes(c, phase) == Becomes(c, [call[c] EXCEPT !.phase = phase])

\* The call is answered; a command ends with an exit code.
Ended(c, answer, code) ==
  [call[c] EXCEPT !.phase = "done", !.answer = answer, !.exit = IF IsCommand(c) THEN code ELSE "none"]
Answer(c, answer, code) == Becomes(c, Ended(c, answer, code))

Ask(c) ==
  /\ call[c].phase = "idle"
  /\ \E r \in Requests[c] :
       Becomes(c, [call[c] EXCEPT !.phase = IF r.tool \in Commands THEN "load" ELSE "path",
                                  !.request = r])

\* _validate_plan_path.
CheckPath(c) ==
  /\ call[c].phase = "path"
  /\ IF call[c].request.path = "inside" /\ file # "missing" THEN Goes(c, "load")
     ELSE Answer(c, "raised", "1")

\* load_mission_plan, and what each caller does with the plan.
Load(c) ==
  /\ call[c].phase = "load"
  /\ file \in Accepted
  /\ Becomes(c, [(IF Tool(c) = "check_timeline_conflicts" THEN Ended(c, "reported", "0") ELSE call[c])
                   EXCEPT !.plan = file,
                          !.phase = CASE Tool(c) = "check_timeline_conflicts" -> "done"
                                      [] Tool(c) = "diff_plans" -> "second"
                                      [] Tool(c) = "explain_policy" -> "available"
                                      [] Tool(c) = "policy" -> "ask"
                                      [] OTHER -> "judge"])

\* diff_plans reads both of its paths, one after the other.
LoadSecond(c) ==
  /\ call[c].phase = "second"
  /\ IF file \in Accepted THEN Answer(c, "reported", "0")
     ELSE Answer(c, "raised", "1")

\* MissionPlanUnreadable exits 2, MissionPlanInvalid exits 1; a tool raises.
LoadFails(c) ==
  /\ call[c].phase = "load"
  /\ \/ file = "missing" /\ Answer(c, "raised", "2")
     \/ file \notin Accepted \cup {"missing"} /\ Answer(c, "raised", "1")

\* Mistake: a bypass is honoured for whoever asks.
BypassAsked(c) == Tool(c) # "validate_plan" /\ call[c].request.skip
BypassHonoured(c) ==
  /\ Tool(c) # "validate_plan"
  /\ call[c].request.skip
  /\ IsCommand(c) \/ server.bypass

Bypass(c) ==
  /\ call[c].phase = "judge"
  /\ BypassHonoured(c)
  /\ Becomes(c, [call[c] EXCEPT !.phase = "act", !.bypassed = TRUE])

Judge(c) ==
  /\ call[c].phase = "judge"
  /\ ~BypassHonoured(c)
  /\ CASE Engine(c) = "opa" -> Goes(c, "available")
       [] Engine(c) = "baseline" ->
            Becomes(c, [call[c] EXCEPT !.phase = "decide",
                                       !.verdict = Decided(MirrorFinds[call[c].plan])])
       [] OTHER -> Answer(c, "undecided", "2")

\* The callers look for opa before they call eval_policy, which looks again: it
\* may be there or not each time.
CheckAvailable(c) ==
  /\ call[c].phase = "available"
  /\ Goes(c, "ask") \/ Answer(c, "undecided", "2")

\* What eval_policy returns: an exit code, and output with a decision in it or
\* without one.  opposed is history.
Fails(c, rc) ==
  Becomes(c, [call[c] EXCEPT !.phase = "decide", !.rc = rc, !.opposed = TRUE])
Decides(c, d) ==
  Becomes(c, [call[c] EXCEPT !.phase = "decide", !.parsed = TRUE, !.opposed = Opposes(d),
                             !.verdict = TypedViolations(d)])

StartOpa(c) ==
  /\ call[c].phase = "ask"
  /\ \/ Goes(c, "running")
     \/ Fails(c, 1)   \* it cannot be executed
     \/ Fails(c, 2)   \* it is gone

OpaAnswers(c) ==
  /\ call[c].phase = "running"
  /\ \/ \E rc \in {0, 1} : Fails(c, rc)
     \/ /\ call[c].request.decision = "default"
        /\ Decides(c, BundleDecision(BundleFinds[call[c].plan]))
     \/ /\ call[c].request.decision = "custom"
        /\ \E d \in AnyDecision : Decides(c, d)

\* Mistake: opa is waited for as long as it takes.
NoTimeout(c) == FALSE /\ UNCHANGED vars
OpaTimesOut(c) ==
  /\ call[c].phase = "running"
  /\ Fails(c, 1)

\* explain_policy hands back raw text when it has no value in it; cmd_policy ends
\* with the code of eval_policy when that is not 0.
Undecidable(c) ==
  /\ call[c].phase = "decide"
  /\ call[c].verdict = Undecided
  /\ IF Tool(c) = "explain_policy" /\ ~call[c].parsed THEN Answer(c, "raw", "none")
     ELSE Answer(c, "undecided", IF Tool(c) = "policy" /\ call[c].rc = 1 THEN "1" ELSE "2")

Denied(c) ==
  /\ call[c].phase = "decide"
  /\ call[c].verdict.items # {}
  /\ Answer(c, "denied", "1")

\* Mistake: a verdict with no violations in it is taken for one that allows.
NotDenied(c) ==
  /\ call[c].phase = "decide"
  /\ call[c].verdict.items = {}
  /\ Goes(c, "act")
Allowed(c) ==
  /\ call[c].phase = "decide"
  /\ call[c].verdict = Decided({})
  /\ IF Tool(c) \in {"validate_plan", "explain_policy", "policy"} THEN Answer(c, "admitted", "0")
     ELSE Goes(c, "act")

\* Mistake: the writer is given the path and reads the file again.
ActOnPath(c) ==
  /\ call[c].phase = "act"
  /\ file \in Accepted
  /\ Becomes(c, [Ended(c, "admitted", "0") EXCEPT !.artifact = file])
\* compile_plan returns the intents; the others render the object they judged,
\* which raises for a priority of 0 and for a mission too long to annotate with.
Act(c) ==
  /\ call[c].phase = "act"
  /\ IF Tool(c) # "compile_plan" /\ call[c].plan \in Unrenderable THEN Answer(c, "raised", "1")
     ELSE Becomes(c, [Ended(c, "admitted", "0") EXCEPT !.artifact = call[c].plan])

-----------------------------------------------------------------------------
\* Others write the file.
FileChanges ==
  /\ changes < MaxChanges
  /\ changes' = changes + 1
  /\ file' \in Files \ {file}
  /\ UNCHANGED <<server, call>>

\* The steps a call takes by itself.
Proceeds(c) ==
  \/ CheckPath(c) \/ Load(c) \/ LoadSecond(c) \/ LoadFails(c)
  \/ Bypass(c) \/ Judge(c) \/ CheckAvailable(c) \/ StartOpa(c) \/ OpaTimesOut(c)
  \/ Undecidable(c) \/ Denied(c) \/ Allowed(c) \/ Act(c)

Next ==
  \/ \E c \in Calls : Ask(c) \/ OpaAnswers(c) \/ Proceeds(c)
  \/ FileChanges

\* Python runs on, and subprocess.run gives opa OPA_TIMEOUT_SECONDS; opa itself
\* is owed no fairness.
Spec == Init /\ [][Next]_vars /\ \A c \in Calls : WF_vars(Proceeds(c))

-----------------------------------------------------------------------------
Phases == {"idle", "path", "load", "second", "judge", "available", "ask", "running",
           "decide", "act", "done"}

\* Every call holds the content it loaded, if any, and one that is done has an
\* answer; only a call that was bypassed or is past its verdict can act.
GateTypeOK ==
  /\ file \in Files /\ server \in Servers /\ changes \in 0..MaxChanges
  /\ \A c \in Calls :
       /\ call[c].phase \in Phases /\ call[c].request \in Requests[c]
       /\ call[c].plan \in Accepted \cup {"none"}
       /\ call[c].phase \in {"judge", "available", "ask", "running", "decide", "act"} =>
            call[c].plan \in Accepted
       /\ (call[c].phase = "done") = (call[c].answer # "none")
       /\ call[c].phase = "act" => call[c].bypassed \/ call[c].verdict = Decided({})

\* What is compiled or rendered is the content that was judged, whatever became
\* of the file since: either the bundle has nothing against it, or the caller
\* asked for the bypass and, on the server, its operator allows one.
ArtifactsAdmissible ==
  \A c \in Calls :
    LET a == call[c].artifact
    IN  a # "none" =>
          /\ a = call[c].plan
          /\ IF call[c].bypassed
             THEN call[c].request.skip /\ (Tool(c) \in ServerTools => server.bypass)
             ELSE call[c].request.decision = "default" => BundleFinds[a] = {}

\* No decision that says anything against a plan, in any of its fields or by not
\* being one, is reported or acted on as an admission, and neither is an opa that
\* is missing, fails, hangs or prints something else.
OnlyDecisionsAdmit ==
  \A c \in Calls :
    (call[c].answer = "admitted" /\ ~call[c].bypassed /\ Engine(c) = "opa") =>
      call[c].parsed /\ ~call[c].opposed

\* Two callers are not given opposite verdicts on one content, whichever tool
\* or command they use and whichever engine judges for each.
OneAuthority ==
  \A c, d \in Calls :
    (/\ call[c].plan = call[d].plan /\ call[c].answer = "admitted" /\ call[d].answer = "denied"
     /\ call[c].request.decision = "default" /\ call[d].request.decision = "default")
       => call[c].bypassed

\* Every call is answered, even when opa never does.
EveryCallEnds == \A c \in Calls : call[c].phase # "idle" ~> call[c].phase = "done"
=============================================================================
