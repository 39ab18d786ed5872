---------------------------- MODULE Compilation ----------------------------
(***************************************************************************)
(* From an accepted plan to the intents the renderers read (compiler.py):  *)
(* which services of which events become workflows, under which names, and *)
(* which acquisition windows overlap.                                      *)
(*                                                                         *)
(* A Kubernetes name is the sequence of its parts, what stands between two *)
(* dashes once the name is normalised, and the digest of the text it was   *)
(* made from when that text was too long.  Digests do not collide.         *)
(***************************************************************************)
EXTENDS PlanSchema, FiniteSets

CONSTANTS
  Parts(_),    \* Parts(x): what sanitize_k8s_name leaves of an identifier or a timestamp
  Numeral(_),  \* Numeral(n): the part a number is written as
  MaxParts     \* how many parts fit into 63 characters

ASSUME MaxPartsAssumption == MaxParts \in Nat /\ MaxParts > 2

\* Mistake: a long name is cut, and what tells it from another is cut off.
CutName(parts, text, limit) ==
  [parts |-> SubSeq(parts, 1, IF Len(parts) <= limit THEN Len(parts) ELSE limit), digest |-> <<>>]
ResistantName(parts, text, limit) ==
  IF Len(parts) <= limit THEN [parts |-> parts, digest |-> <<>>]
  ELSE [parts |-> SubSeq(parts, 1, limit - 1), digest |-> text]

\* A name with more parts behind it; a digest is one part of it.
Extended(name, more, limit) ==
  ResistantName(name.parts \o (IF name.digest = <<>> THEN <<>> ELSE <<"digest">>) \o more,
                name.parts \o name.digest \o more, limit)

-----------------------------------------------------------------------------
\* The services that become workflows, each at <<event, service>>, and the order
\* of the loops that name them.
Occurrences(p) ==
  LET events == p.events.items
  IN  UNION {{<<i, j>> : j \in DOMAIN events[i].services.items} :
               i \in {i \in DOMAIN events : events[i].event_type = "acquisition"}}
EventOf(p, o) == p.events.items[o[1]]
ServiceOf(p, o) == EventOf(p, o).services.items[o[2]]
Precedes(a, b) == a[1] < b[1] \/ (a[1] = b[1] /\ a[2] < b[2])

CanonicalName(p, o) ==
  LET id == ServiceOf(p, o).service_id
      time == EventOf(p, o).timestamp
  IN  ResistantName(Parts(p.mission_id) \o Parts(id) \o Parts(time),
                    <<p.mission_id, id, time>>, MaxParts)

\* Mistake: occurrences are counted by what the plan wrote.
UsedAsWritten(p, o) ==
  {m \in Occurrences(p) :
     /\ Precedes(m, o)
     /\ ServiceOf(p, m).service_id = ServiceOf(p, o).service_id
     /\ EventOf(p, m).timestamp = EventOf(p, o).timestamp}
UsedBefore(p, o) ==
  {m \in Occurrences(p) : Precedes(m, o) /\ CanonicalName(p, m) = CanonicalName(p, o)}

WorkflowName(p, o) ==
  LET canonical == CanonicalName(p, o)
      seen == Cardinality(UsedBefore(p, o))
  IN  IF seen = 0 THEN canonical ELSE Extended(canonical, <<Numeral(seen + 1)>>, MaxParts)

Intents(p) ==
  [o \in Occurrences(p) |->
     LET service == ServiceOf(p, o)
     IN  [name |-> WorkflowName(p, o), mission |-> p.mission_id,
          priority |-> service.priority, mode |-> service.execution_mode,
          steps |-> service.steps.items]]

-----------------------------------------------------------------------------
\* Windows of acquisition, in seconds from the first one.
Start(timestamp) ==
  CASE timestamp = "t0Z" -> 0 [] timestamp = "t0+2" -> 0 [] timestamp = "t10Z" -> 10
    [] timestamp = "t0-2" -> 14400 [] timestamp = "t20Z" -> 20
Seconds(duration) ==
  CASE duration = "0" -> 0 [] duration = "10" -> 10 [] duration = "30" -> 30
    [] duration = "60" -> 60 [] duration = "90" -> 90

IsWindow(e) == e.event_type = "acquisition" /\ e.duration_seconds # "null"
Opens(e) == Start(e.timestamp)
Closes(e) == Start(e.timestamp) + Seconds(e.duration_seconds)
Later(x, y) == IF x > y THEN x ELSE y
Earlier(x, y) == IF x < y THEN x ELSE y

\* Mistake: windows that touch are taken to overlap.
OverlapOrTouch(a, b) == Later(Opens(a), Opens(b)) <= Earlier(Closes(a), Closes(b))
Overlap(a, b) == Later(Opens(a), Opens(b)) < Earlier(Closes(a), Closes(b))

Conflicts(p) ==
  LET events == p.events.items
  IN  {w \in (DOMAIN events) \X (DOMAIN events) :
         /\ w[1] < w[2]
         /\ IsWindow(events[w[1]]) /\ IsWindow(events[w[2]])
         /\ Overlap(events[w[1]], events[w[2]])}
SkippedWindows(p) ==
  {i \in DOMAIN p.events.items :
     p.events.items[i].event_type = "acquisition" /\ p.events.items[i].duration_seconds = "null"}
=============================================================================
