---------------------------- MODULE AtomicInstall ----------------------------
(***************************************************************************)
(* What publishing promises, without saying how: a run asks for a set of   *)
(* manifests to be put into the directory and gets one answer.             *)
(*   installed   every one of them is there, nothing else has changed      *)
(*   unchanged   nothing has changed                                       *)
(*   damaged     only names in the run's own report may have changed       *)
(*   stopped     the run was killed; only names of its set may have changed*)
(* One run at a time is being served.                                      *)
(***************************************************************************)
CONSTANTS Runs, Names, Files, Absent, StagedSets

Contents == [Names -> Files \cup {Absent}]

VARIABLES
  view,      \* the directory, as seen between two installations
  outcome,   \* outcome[p]: the answer run p got
  want,      \* want[p]: the set it asked for
  report     \* report[p]: the names it was told may be wrong

vars == <<view, outcome, want, report>>

Init ==
  /\ view \in Contents
  /\ outcome = [p \in Runs |-> "none"]
  /\ want = [p \in Runs |-> [n \in Names |-> Absent]]
  /\ report = [p \in Runs |-> {}]

Answer(p, a) ==
  /\ outcome[p] = "asked"
  /\ outcome' = [outcome EXCEPT ![p] = a]
  /\ UNCHANGED want

\* The two directories agree outside a set of names.
AgreeOutside(c, d, names) == \A n \in Names \ names : c[n] = d[n]

Wanted(p) == {n \in Names : want[p][n] # Absent}

Ask(p) ==
  /\ outcome[p] = "none"
  /\ \A q \in Runs : outcome[q] # "asked"
  /\ outcome' = [outcome EXCEPT ![p] = "asked"]
  /\ \E set \in StagedSets : want' = [want EXCEPT ![p] = set]
  /\ UNCHANGED <<view, report>>

Decline(p) ==
  /\ outcome[p] = "none"
  /\ outcome' = [outcome EXCEPT ![p] = "unchanged"]
  /\ UNCHANGED <<view, want, report>>

Installed(p) ==
  /\ Answer(p, "installed")
  /\ view' = [n \in Names |-> IF n \in Wanted(p) THEN want[p][n] ELSE view[n]]
  /\ UNCHANGED report

Unchanged(p) == Answer(p, "unchanged") /\ UNCHANGED <<view, report>>

Damaged(p) ==
  /\ Answer(p, "damaged")
  /\ \E names \in (SUBSET Wanted(p)) \ {{}} :
       report' = [report EXCEPT ![p] = names]
  /\ view' \in Contents
  /\ AgreeOutside(view', view, report'[p])

Stopped(p) ==
  /\ Answer(p, "stopped")
  /\ view' \in Contents
  /\ AgreeOutside(view', view, Wanted(p))
  /\ UNCHANGED report

Next ==
  \E p \in Runs :
    Ask(p) \/ Decline(p) \/ Installed(p) \/ Unchanged(p) \/ Damaged(p)
      \/ Stopped(p)

Spec == Init /\ [][Next]_vars
=============================================================================
