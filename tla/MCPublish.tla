---- MODULE MCPublish ----
(* Bounds for Publish: two runs, three names, two contents. *)
EXTENDS Publish

CONSTANTS r1, r2, a, b, c, new1, new2

Set(m, f) == [n \in Names |-> IF n \in m THEN f ELSE Absent]

\* Overlapping and equal sets of names, one name that nobody publishes, and the
\* empty set, which render-kueue publishes for a plan without services.
MCSets == {Set({a, b}, new1), Set({b}, new2), Set({}, new1)}

MCFile == [p \in Runs |-> "lock"]
MCNoWait == [p \in Runs |-> 0]
====
