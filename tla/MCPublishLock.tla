---- MODULE MCPublishLock ----
(* Bounds for PublishLock: three runs on one or two lock files. *)
EXTENDS PublishLock, TLC

CONSTANTS r1, r2, r3, here, there

MCRuns == {r1, r2, r3}

\* r3 publishes into another directory.
MCTwoFiles == [p \in Runs |-> IF p = r3 THEN there ELSE here]

MCTimeouts == [p \in Runs |-> IF p = r1 THEN 0 ELSE 2]
====
