---------------------------- MODULE PlanGateProofs ----------------------------
(***************************************************************************)
(* What the gate admits, for any number of calls, any contents of the file *)
(* and any changes of it, any configuration of the server and anything opa *)
(* may answer.                                                             *)
(***************************************************************************)
EXTENDS PlanGate, PolicyLemmas

CallFields == {"phase", "request", "plan", "rc", "parsed", "opposed", "verdict", "bypassed",
               "artifact", "answer", "exit"}
Shape(r) == DOMAIN r = CallFields /\ r = [x \in CallFields |-> r[x]]

Unjudged == {"idle", "path", "load", "second", "judge", "available", "ask", "running"}
EngineOf(r, s) ==
  CASE r.request.tool \in Gated -> s.engine
    [] r.request.tool = "compile" -> r.request.engine
    [] OTHER -> "opa"

\* What GateTypeOK says of one call.
CallTyped(c, r) ==
  /\ r.phase \in Phases /\ r.request \in Requests[c]
  /\ r.plan \in Accepted \cup {"none"}
  /\ r.phase \in {"judge", "available", "ask", "running", "decide", "act"} => r.plan \in Accepted
  /\ (r.phase = "done") = (r.answer # "none")
  /\ r.phase = "act" => r.bypassed \/ r.verdict = Decided({})

\* Where a verdict comes from, and what became of it: one that decides is what the
\* bundle finds in the content that was loaded, unless the caller named a decision
\* of its own; one without violations is of a decision that says nothing else.
Judged(r, s) ==
  /\ r.phase \in Unjudged => r.verdict = Undecided /\ r.bypassed = FALSE /\ r.artifact = "none"
  /\ r.verdict = Undecided \/ r.verdict = Decided(r.verdict.items)
  /\ (r.verdict # Undecided /\ r.request.decision = "default") =>
       r.plan \in Accepted /\ r.verdict = Decided(BundleFinds[r.plan])
  /\ (r.verdict = Decided({}) /\ EngineOf(r, s) = "opa") => r.parsed /\ ~r.opposed
  /\ r.bypassed => r.request.skip /\ (r.request.tool \in ServerTools => s.bypass)
  /\ r.artifact # "none" => r.artifact = r.plan /\ r.answer = "admitted"
  /\ r.answer = "admitted" => r.bypassed \/ r.verdict = Decided({})
  /\ r.answer = "denied" => r.verdict = Decided(r.verdict.items) /\ r.verdict.items # {}

Sound(c, r, s) == Shape(r) /\ CallTyped(c, r) /\ Judged(r, s)

GateInv ==
  /\ file \in Files /\ server \in Servers /\ changes \in Nat /\ changes \in 0..MaxChanges
  /\ DOMAIN call = Calls /\ call = [c \in Calls |-> call[c]]
  /\ \A c \in Calls : Sound(c, call[c], server)

\* The decisions opa can give.
WellFormed(d) ==
  /\ d.allow \in {"absent", "true", "false", "unusable"}
  /\ \A f \in {d.deny, d.violations} :
       f.kind \in {"absent", "unusable", "list"} /\ (f.kind = "absent" => f.items = {})

LEMMA DecisionsWellFormed ==
  /\ \A d \in AnyDecision : WellFormed(d)
  /\ \A found : WellFormed(BundleDecision(found))
<1>1. \A f \in Fields : f.kind \in {"absent", "unusable", "list"} /\ (f.kind = "absent" => f.items = {})
  BY DEF Fields, Field
<1>2. WellFormed(NoDecision)
  BY DEF NoDecision, WellFormed, Field
<1>3. \A found : WellFormed(BundleDecision(found))
  BY DEF BundleDecision, WellFormed, Field
<1> QED
  BY <1>1, <1>2, <1>3 DEF AnyDecision, WellFormed

\* A reading that allows is of a decision that nothing in it opposes.
LEMMA AllowedIsUnopposed ==
  ASSUME NEW d, WellFormed(d), TypedViolations(d) = Decided({})
  PROVE  ~Opposes(d)
<1>1. Readable(d) /\ ~Contradicts(d) /\ Reported(d) = {}
  BY DEF TypedViolations, Decided, Undecided
<1>2. d.violations.kind = "list" => d.violations.items = {}
  BY <1>1 DEF Reported
<1> QED
  BY <1>1, <1>2 DEF WellFormed, Readable, Contradicts, Reported, Opposes

\* A reading is a decision about its own violations, or none.
LEMMA ReadingShape ==
  ASSUME NEW d
  PROVE  LET v == TypedViolations(d)
         IN  v = Undecided \/ (v = Decided(v.items) /\ v # Undecided)
BY DEF TypedViolations, Decided, Undecided

\* The bundle's decision reads back as what it found.
LEMMA BundleReadsBack ==
  ASSUME NEW found
  PROVE  TypedViolations(BundleDecision(found)) = Decided(found)
BY DEF TypedViolations, BundleDecision, Readable, Contradicts, Reported, Field

\* On what loads, the two engines find the same.
LEMMA EnginesFindAlike ==
  ASSUME NEW x \in Accepted
  PROVE  MirrorFinds[x] = BundleFinds[x]
<1>1. SchemaAccepts(Plans[x])
  BY DEF Accepted
<1> QED
  BY <1>1, PlanDumped, PlansAlike DEF MirrorFinds, BundleFinds

\* A step that replaces one sound call by a sound one keeps all of them sound.
LEMMA OneCallMoves ==
  ASSUME GateInv, NEW c \in Calls, NEW new, Becomes(c, new), Sound(c, new, server)
  PROVE  GateInv'
<1>1. call' = [call EXCEPT ![c] = new] /\ UNCHANGED <<file, server, changes>>
  BY DEF Becomes, environment
<1>2. call'[c] = new /\ \A d \in Calls \ {c} : call'[d] = call[d]
  BY <1>1 DEF GateInv
<1>3. DOMAIN call' = Calls /\ call' = [d \in Calls |-> call'[d]]
  BY <1>1 DEF GateInv
<1>4. \A d \in Calls : Sound(d, call'[d], server)
  BY <1>2 DEF GateInv
<1> QED
  BY <1>1, <1>3, <1>4 DEF GateInv

\* A call that ends stays sound if its answer is one its verdict gives.
LEMMA SoundEnd ==
  ASSUME NEW c \in Calls, Sound(c, call[c], server), call[c].phase # "done",
         NEW answer \in {"raised", "reported", "undecided", "raw", "denied", "admitted"}, NEW code,
         answer = "admitted" => call[c].bypassed \/ call[c].verdict = Decided({}),
         answer = "denied" => call[c].verdict = Decided(call[c].verdict.items) /\ call[c].verdict.items # {}
  PROVE  Sound(c, Ended(c, answer, code), server)
<1> DEFINE r == call[c]
           new == Ended(c, answer, code)
<1>1. /\ Shape(new) /\ new.phase = "done" /\ new.answer = answer /\ new.request = r.request
      /\ new.plan = r.plan /\ new.parsed = r.parsed /\ new.opposed = r.opposed
      /\ new.verdict = r.verdict /\ new.bypassed = r.bypassed /\ new.artifact = r.artifact
  BY DEF Ended, Sound, Shape, CallFields
<1>2. r.artifact = "none"
  BY DEF Sound, Judged, CallTyped
<1> HIDE DEF new
<1>3. CallTyped(c, new)
  BY <1>1 DEF Sound, CallTyped, Phases
<1>4. Judged(new, server)
  BY <1>1, <1>2 DEF Sound, Judged, Unjudged, EngineOf
<1> QED
  BY <1>1, <1>3, <1>4 DEF Sound, new

\* So does one that goes on, with a plan if it has come so far.
LEMMA SoundMove ==
  ASSUME NEW c \in Calls, Sound(c, call[c], server), call[c].phase # "done",
         NEW phase \in Phases \ {"done"},
         phase \in Unjudged => call[c].phase \in Unjudged,
         phase \notin {"idle", "path", "load", "second"} => call[c].plan \in Accepted,
         phase = "act" => call[c].verdict = Decided({})
  PROVE  Sound(c, [call[c] EXCEPT !.phase = phase], server)
<1> DEFINE r == call[c]
           new == [call[c] EXCEPT !.phase = phase]
<1>1. /\ Shape(new) /\ new.phase = phase /\ new.answer = r.answer /\ new.request = r.request
      /\ new.plan = r.plan /\ new.parsed = r.parsed /\ new.opposed = r.opposed
      /\ new.verdict = r.verdict /\ new.bypassed = r.bypassed /\ new.artifact = r.artifact
  BY DEF Sound, Shape, CallFields
<1> HIDE DEF new
<1>2. CallTyped(c, new)
  BY <1>1 DEF Sound, CallTyped, Phases
<1>3. Judged(new, server)
  BY <1>1 DEF Sound, Judged, EngineOf
<1> QED
  BY <1>1, <1>2, <1>3 DEF Sound, new

LEMMA GateInit == Init => GateInv
<1> SUFFICES ASSUME Init PROVE GateInv
  OBVIOUS
<1>1. ASSUME NEW c \in Calls PROVE Sound(c, Idle(c), server)
  <2>1. (CHOOSE r \in Requests[c] : TRUE) \in Requests[c]
    BY RequestsAssumption
  <2> QED
    BY <2>1 DEF Sound, Shape, CallFields, CallTyped, Judged, Idle, Phases, Unjudged, Undecided, Decided
<1> QED
  <2>1. DOMAIN call = Calls /\ \A c \in Calls : call[c] = Idle(c)
    BY DEF Init
  <2>2. changes \in Nat /\ changes \in 0..MaxChanges
    BY RequestsAssumption DEF Init
  <2>3. call = [c \in Calls |-> call[c]]
    BY DEF Init
  <2> QED
    BY <1>1, <2>1, <2>2, <2>3 DEF Init, GateInv

LEMMA GateStep == GateInv /\ [Next]_vars => GateInv'
<1> SUFFICES ASSUME GateInv, [Next]_vars PROVE GateInv'
  OBVIOUS
<1>1. CASE FileChanges
  <2>1. file' \in Files /\ changes' \in Nat /\ changes' \in 0..MaxChanges /\ UNCHANGED <<server, call>>
    BY <1>1, RequestsAssumption DEF FileChanges, GateInv
  <2> QED
    BY <2>1 DEF GateInv
<1>2. CASE UNCHANGED vars
  BY <1>2 DEF vars, GateInv
<1>3. ASSUME NEW c \in Calls, Ask(c) \/ OpaAnswers(c) \/ Proceeds(c) PROVE GateInv'
  <2> DEFINE r == call[c]
  <2>0. Sound(c, r, server) /\ Shape(r) /\ CallTyped(c, r) /\ Judged(r, server) /\ file \in Files
    BY DEF GateInv, Sound
  <2> SUFFICES \E new : Becomes(c, new) /\ Sound(c, new, server)
    BY OneCallMoves
  <2>1. CASE Ask(c)
    <3>1. PICK q \in Requests[c] :
            Becomes(c, [r EXCEPT !.phase = IF q.tool \in Commands THEN "load" ELSE "path", !.request = q])
      BY <2>1 DEF Ask
    <3> DEFINE p == IF q.tool \in Commands THEN "load" ELSE "path"
               new == [r EXCEPT !.phase = p, !.request = q]
    <3>2. r.phase = "idle" /\ p \in {"load", "path"}
      BY <2>1 DEF Ask
    <3> HIDE DEF p
    <3>3. /\ Shape(new) /\ new.phase = p /\ new.answer = r.answer /\ new.request = q
          /\ new.plan = r.plan /\ new.verdict = r.verdict /\ new.bypassed = r.bypassed
          /\ new.artifact = r.artifact
      BY <2>0 DEF Shape, CallFields
    <3>4. Becomes(c, new)
      BY <3>1 DEF p
    <3> HIDE DEF new
    <3>5. CallTyped(c, new)
      BY <2>0, <3>2, <3>3 DEF CallTyped, Phases
    <3>6. Judged(new, server)
      BY <2>0, <3>2, <3>3 DEF CallTyped, Judged, Unjudged, Undecided, Decided
    <3> QED
      BY <3>3, <3>4, <3>5, <3>6 DEF Sound
  <2>2. ASSUME NEW answer \in {"raised", "reported", "undecided", "raw"}, NEW code,
               Answer(c, answer, code), r.phase # "done"
        PROVE  \E new : Becomes(c, new) /\ Sound(c, new, server)
    BY <2>0, <2>2, SoundEnd DEF Answer
  <2>3. ASSUME NEW phase \in {"load", "available", "ask", "running"}, Goes(c, phase), r.phase \in Unjudged,
               phase # "load" => r.plan \in Accepted
        PROVE  \E new : Becomes(c, new) /\ Sound(c, new, server)
    BY <2>0, <2>3, SoundMove DEF Goes, Phases, Unjudged
  <2>4. CASE CheckPath(c)
    BY <2>2, <2>3, <2>4 DEF CheckPath, Unjudged
  <2>5. CASE Load(c)
    <3> DEFINE base == IF Tool(c) = "check_timeline_conflicts" THEN Ended(c, "reported", "0") ELSE call[c]
               to == CASE Tool(c) = "check_timeline_conflicts" -> "done"
                       [] Tool(c) = "diff_plans" -> "second"
                       [] Tool(c) = "explain_policy" -> "available"
                       [] Tool(c) = "policy" -> "ask"
                       [] OTHER -> "judge"
               new == [base EXCEPT !.plan = file, !.phase = to]
    <3>1. r.phase = "load" /\ file \in Accepted /\ Becomes(c, new)
      BY <2>5 DEF Load
    <3>2. \/ base = r /\ to \in {"second", "available", "ask", "judge"}
          \/ base = Ended(c, "reported", "0") /\ to = "done"
      OBVIOUS
    <3> HIDE DEF base, to
    <3>3. /\ Shape(new) /\ new.phase = to /\ new.request = r.request /\ new.plan = file
          /\ new.verdict = r.verdict /\ new.bypassed = r.bypassed /\ new.artifact = r.artifact
          /\ new.answer = IF to = "done" THEN "reported" ELSE r.answer
      BY <2>0, <3>2 DEF Shape, Ended, CallFields
    <3> HIDE DEF new
    <3>4. CallTyped(c, new)
      BY <2>0, <3>1, <3>2, <3>3 DEF CallTyped, Phases
    <3>5. Judged(new, server)
      BY <2>0, <3>1, <3>2, <3>3 DEF CallTyped, Judged, Unjudged, Undecided, Decided
    <3> QED
      BY <3>1, <3>3, <3>4, <3>5 DEF Sound
  <2>6. CASE LoadSecond(c)
    BY <2>2, <2>6 DEF LoadSecond
  <2>7. CASE LoadFails(c)
    BY <2>2, <2>7 DEF LoadFails
  <2>8. CASE Bypass(c)
    <3> DEFINE new == [r EXCEPT !.phase = "act", !.bypassed = TRUE]
    <3>1. r.request.skip /\ (r.request.tool \in ServerTools => server.bypass)
      BY <2>8 DEF Bypass, BypassHonoured, IsCommand, Tool, ServerTools, Commands, Gated
    <3>2. /\ Shape(new) /\ new.phase = "act" /\ new.answer = r.answer /\ new.request = r.request
          /\ new.plan = r.plan /\ new.verdict = r.verdict /\ new.bypassed = TRUE /\ new.artifact = r.artifact
      BY <2>0 DEF Shape, CallFields
    <3>3. r.phase = "judge" /\ Becomes(c, new)
      BY <2>8 DEF Bypass
    <3> HIDE DEF new
    <3>4. CallTyped(c, new)
      BY <2>0, <3>2, <3>3 DEF CallTyped, Phases
    <3>5. Judged(new, server)
      BY <2>0, <3>1, <3>2, <3>3 DEF CallTyped, Judged, Unjudged, Undecided, Decided
    <3> QED
      BY <3>2, <3>3, <3>4, <3>5 DEF Sound
  <2>9. CASE Judge(c)
    <3>1. CASE Engine(c) = "opa"
      BY <2>0, <2>3, <2>9, <3>1 DEF Judge, CallTyped, Unjudged
    <3>2. CASE Engine(c) = "baseline"
      <4> DEFINE new == [r EXCEPT !.phase = "decide", !.verdict = Decided(MirrorFinds[r.plan])]
      <4>1. Becomes(c, new) /\ r.phase = "judge"
        BY <2>9, <3>2 DEF Judge
      <4>2. r.plan \in Accepted /\ MirrorFinds[r.plan] = BundleFinds[r.plan]
        BY <2>0, <4>1, EnginesFindAlike DEF CallTyped
      <4>3. EngineOf(r, server) # "opa"
        BY <3>2 DEF Engine, EngineOf, Tool
      <4>4. /\ Shape(new) /\ new.phase = "decide" /\ new.answer = r.answer /\ new.request = r.request
            /\ new.plan = r.plan /\ new.verdict = Decided(BundleFinds[r.plan])
            /\ new.bypassed = r.bypassed /\ new.artifact = r.artifact
        BY <2>0, <4>2 DEF Shape, CallFields
      <4> HIDE DEF new
      <4>5. CallTyped(c, new)
        BY <2>0, <4>1, <4>2, <4>4 DEF CallTyped, Phases
      <4>6. EngineOf(new, server) # "opa"
        BY <4>3, <4>4 DEF EngineOf
      <4>7. Judged(new, server)
        BY <2>0, <4>1, <4>2, <4>4, <4>6 DEF CallTyped, Judged, Unjudged, Decided
      <4> QED
        BY <4>1, <4>4, <4>5, <4>7 DEF Sound
    <3>3. CASE Engine(c) \notin {"opa", "baseline"}
      BY <2>2, <2>9, <3>3 DEF Judge
    <3> QED
      BY <3>1, <3>2, <3>3
  <2>10. CASE CheckAvailable(c)
    BY <2>0, <2>2, <2>3, <2>10 DEF CheckAvailable, CallTyped, Unjudged
  <2>11. ASSUME NEW rc, Fails(c, rc), r.phase \in {"ask", "running"}
         PROVE  \E new : Becomes(c, new) /\ Sound(c, new, server)
    <3> DEFINE new == [r EXCEPT !.phase = "decide", !.rc = rc, !.opposed = TRUE]
    <3>1. /\ Shape(new) /\ new.phase = "decide" /\ new.answer = r.answer /\ new.request = r.request
          /\ new.plan = r.plan /\ new.verdict = r.verdict /\ new.bypassed = r.bypassed
          /\ new.artifact = r.artifact
      BY <2>0 DEF Shape, CallFields
    <3>2. Becomes(c, new)
      BY <2>11 DEF Fails
    <3> HIDE DEF new
    <3>3. CallTyped(c, new)
      BY <2>0, <2>11, <3>1 DEF CallTyped, Phases
    <3>4. Judged(new, server)
      BY <2>0, <2>11, <3>1 DEF CallTyped, Judged, Unjudged, Undecided, Decided
    <3> QED
      BY <3>1, <3>2, <3>3, <3>4 DEF Sound
  <2>12. CASE StartOpa(c)
    BY <2>0, <2>3, <2>11, <2>12 DEF StartOpa, CallTyped, Unjudged
  <2>13. CASE OpaTimesOut(c)
    BY <2>11, <2>13 DEF OpaTimesOut
  <2>14. CASE OpaAnswers(c)
    <3>1. ASSUME NEW d, Decides(c, d), WellFormed(d), r.phase = "running",
                 r.request.decision = "default" => d = BundleDecision(BundleFinds[r.plan])
          PROVE  \E new : Becomes(c, new) /\ Sound(c, new, server)
      <4> DEFINE v == TypedViolations(d)
                 new == [r EXCEPT !.phase = "decide", !.parsed = TRUE, !.opposed = Opposes(d), !.verdict = v]
      <4>1. v = Undecided \/ (v = Decided(v.items) /\ v # Undecided)
        BY ReadingShape
      <4>2. v = Decided({}) => ~Opposes(d)
        BY <3>1, AllowedIsUnopposed
      <4>3. r.request.decision = "default" => v = Decided(BundleFinds[r.plan])
        BY <3>1, BundleReadsBack
      <4>4. r.plan \in Accepted
        BY <2>0, <3>1 DEF CallTyped
      <4>5. Becomes(c, new)
        BY <3>1 DEF Decides
      <4> HIDE DEF v
      <4>6. /\ Shape(new) /\ new.phase = "decide" /\ new.answer = r.answer /\ new.request = r.request
            /\ new.plan = r.plan /\ new.parsed = TRUE /\ new.opposed = Opposes(d) /\ new.verdict = v
            /\ new.bypassed = r.bypassed /\ new.artifact = r.artifact
        BY <2>0 DEF Shape, CallFields
      <4> HIDE DEF new
      <4>7. CallTyped(c, new)
        BY <2>0, <3>1, <4>4, <4>6 DEF CallTyped, Phases
      <4>8. Judged(new, server)
        BY <2>0, <3>1, <4>1, <4>2, <4>3, <4>4, <4>6 DEF CallTyped, Judged, Unjudged
      <4> QED
        BY <4>5, <4>6, <4>7, <4>8 DEF Sound
    <3>2. CASE \E rc \in {0, 1} : Fails(c, rc)
      BY <2>11, <2>14, <3>2 DEF OpaAnswers
    <3>3. CASE r.request.decision = "default" /\ Decides(c, BundleDecision(BundleFinds[r.plan]))
      BY <2>14, <3>1, <3>3, DecisionsWellFormed DEF OpaAnswers
    <3>4. CASE r.request.decision = "custom" /\ \E d \in AnyDecision : Decides(c, d)
      BY <2>14, <3>1, <3>4, DecisionsWellFormed DEF OpaAnswers
    <3> QED
      BY <2>14, <3>2, <3>3, <3>4 DEF OpaAnswers
  <2>15. CASE Undecidable(c)
    <3>1. PICK answer \in {"raw", "undecided"}, code \in {"none", "1", "2"} : Answer(c, answer, code)
      BY <2>15, Zenon DEF Undecidable
    <3> QED
      BY <2>2, <2>15, <3>1 DEF Undecidable
  <2>16. CASE Denied(c)
    <3>1. r.verdict = Decided(r.verdict.items) /\ r.verdict.items # {}
      BY <2>0, <2>16 DEF Denied, Judged, Undecided
    <3> QED
      BY <2>0, <2>16, <3>1, SoundEnd DEF Denied, Answer
  <2>17. CASE Allowed(c)
    <3>1. CASE Answer(c, "admitted", "0")
      BY <2>0, <2>17, <3>1, SoundEnd DEF Allowed, Answer
    <3>2. CASE Goes(c, "act")
      BY <2>0, <2>17, <3>2, SoundMove DEF Allowed, Goes, CallTyped, Phases, Unjudged
    <3> QED
      BY <2>17, <3>1, <3>2 DEF Allowed
  <2>18. CASE Act(c)
    <3>1. CASE Answer(c, "raised", "1")
      BY <2>2, <2>18, <3>1 DEF Act
    <3>2. CASE Becomes(c, [Ended(c, "admitted", "0") EXCEPT !.artifact = r.plan])
      <4> DEFINE base == Ended(c, "admitted", "0")
                 new == [base EXCEPT !.artifact = r.plan]
      <4>1. Sound(c, base, server) /\ base.answer = "admitted" /\ base.phase = "done" /\ base.plan = r.plan
        BY <2>0, <2>18, SoundEnd DEF Act, CallTyped, Ended, Shape, CallFields
      <4> HIDE DEF base
      <4>2. /\ Shape(new) /\ new.phase = "done" /\ new.answer = "admitted" /\ new.request = base.request
            /\ new.plan = base.plan /\ new.parsed = base.parsed /\ new.opposed = base.opposed
            /\ new.verdict = base.verdict /\ new.bypassed = base.bypassed /\ new.artifact = r.plan
        BY <4>1 DEF Sound, Shape, CallFields
      <4>3. Becomes(c, new)
        BY <3>2 DEF base
      <4> HIDE DEF new
      <4>4. CallTyped(c, new)
        BY <4>1, <4>2 DEF Sound, CallTyped
      <4>5. Judged(new, server)
        BY <4>1, <4>2 DEF Sound, Judged, Unjudged, EngineOf
      <4> QED
        BY <4>2, <4>3, <4>4, <4>5 DEF Sound
    <3> QED
      BY <2>18, <3>1, <3>2 DEF Act
  <2> QED
    BY <1>3, <2>1, <2>4, <2>5, <2>6, <2>7, <2>8, <2>9, <2>10, <2>12, <2>13, <2>14, <2>15, <2>16, <2>17, <2>18
       DEF Proceeds
<1> QED
  BY <1>1, <1>2, <1>3 DEF Next

\* Every call keeps its type, and only one past an allowing verdict or a bypass is
\* about to act.
THEOREM GateTypeCorrect == Spec => []GateTypeOK
<1>1. GateInv => GateTypeOK
  BY DEF GateInv, Sound, CallTyped, GateTypeOK
<1> QED
  BY <1>1, GateInit, GateStep, PTL DEF Spec

\* What is compiled or rendered was judged and admitted in the content it is made
\* of, or the bypass was asked for and allowed, however the file changes.
THEOREM ArtifactsAlwaysAdmissible == Spec => []ArtifactsAdmissible
<1>1. GateInv => ArtifactsAdmissible
  <2> SUFFICES ASSUME GateInv, NEW c \in Calls, call[c].artifact # "none"
               PROVE  /\ call[c].artifact = call[c].plan
                      /\ IF call[c].bypassed
                         THEN call[c].request.skip /\ (Tool(c) \in ServerTools => server.bypass)
                         ELSE call[c].request.decision = "default" => BundleFinds[call[c].artifact] = {}
    BY DEF ArtifactsAdmissible
  <2>1. Judged(call[c], server)
    BY DEF GateInv, Sound
  <2>2. CASE call[c].bypassed
    BY <2>1, <2>2 DEF Judged, Tool
  <2>3. CASE ~call[c].bypassed
    <3>1. call[c].verdict = Decided({}) /\ call[c].verdict # Undecided
      BY <2>1, <2>3 DEF Judged, Decided, Undecided
    <3>2. call[c].request.decision = "default" => Decided({}) = Decided(BundleFinds[call[c].plan])
      BY <2>1, <3>1 DEF Judged
    <3> QED
      BY <2>1, <2>3, <3>2 DEF Judged, Decided
  <2> QED
    BY <2>2, <2>3
<1> QED
  BY <1>1, GateInit, GateStep, PTL DEF Spec

\* Nothing that opa may answer, and no way in which it may fail, is taken for an
\* admission unless it is one in all its fields.
THEOREM NothingElseAdmits == Spec => []OnlyDecisionsAdmit
<1>1. GateInv => OnlyDecisionsAdmit
  <2>1. \A c \in Calls : Engine(c) = EngineOf(call[c], server)
    BY DEF Engine, EngineOf, Tool
  <2> QED
    BY <2>1 DEF GateInv, Sound, Judged, OnlyDecisionsAdmit
<1> QED
  BY <1>1, GateInit, GateStep, PTL DEF Spec

\* One content has one verdict, for every tool, command and engine: what the two
\* engines are proved to share on loaded plans, carried to the calls.
THEOREM OneVerdictForAll == Spec => []OneAuthority
<1>1. GateInv => OneAuthority
  <2> SUFFICES ASSUME GateInv, NEW c \in Calls, NEW d \in Calls, call[c].plan = call[d].plan,
                      call[c].answer = "admitted", call[d].answer = "denied",
                      call[c].request.decision = "default", call[d].request.decision = "default",
                      ~call[c].bypassed
               PROVE  FALSE
    BY DEF OneAuthority
  <2>1. Judged(call[c], server) /\ Judged(call[d], server)
    BY DEF GateInv, Sound
  <2>2. Decided({}) # Undecided /\ call[c].verdict = Decided({})
    BY <2>1 DEF Judged, Decided, Undecided
  <2>3. Decided({}) = Decided(BundleFinds[call[c].plan])
    BY <2>1, <2>2 DEF Judged
  <2>4. /\ call[d].verdict = Decided(call[d].verdict.items) /\ call[d].verdict # Undecided
        /\ call[d].verdict.items # {}
    BY <2>1 DEF Judged, Decided, Undecided
  <2>5. call[d].verdict = Decided(BundleFinds[call[d].plan])
    BY <2>1, <2>4 DEF Judged
  <2> QED
    BY <2>3, <2>4, <2>5 DEF Decided
<1> QED
  BY <1>1, GateInit, GateStep, PTL DEF Spec
=============================================================================
