---- MODULE MCOwnership ----
(* Bounds for Ownership: files of one or two documents, two missions whose   *)
(* digests are equal and one whose digest is not, two installations.         *)
EXTENDS OwnershipChecks

CONSTANTS f1, f2, m1, m2, m3, i1, i2

Docs == [managed : BOOLEAN,
         fingerprint : {f1, f2, NoLabel, NotAName},
         renderer : {"argo", "kueue", NoLabel, NotAName},
         scope : {"mission", "installation", NoLabel},
         schema : {"v1", "v2", NoLabel},
         ownerId : {m1, m2, i1, i2, NoLabel}]

File(docs) == [entry |-> "file", readable |-> TRUE, docs |-> docs]

\* Two documents that differ in one field, and so every way of disagreeing.
Neighbours(d) ==
  {e \in Docs : \E k \in DOMAIN d : \A j \in DOMAIN d \ {k} : e[j] = d[j]}

\* Documents as this compiler stamps them, and as a hand edit, an older or a
\* newer version of the compiler leaves them.
Base ==
  {d \in Docs : d.managed /\ d.schema # "v2" /\ d.renderer # NotAName
     /\ d.fingerprint # NotAName}

MCManifests ==
  {File({d}) : d \in Docs}
    \cup UNION {{File({d, e}) : e \in Neighbours(d)} : d \in Base}
    \cup {[entry |-> t, readable |-> TRUE, docs |-> {d}] :
             t \in {"link", "other"}, d \in Base}
    \cup {[entry |-> "file", readable |-> b, docs |-> {}] : b \in BOOLEAN}

\* The argo renderer names no installation and never looks for the bundle.
MCRenders ==
  [renderer : {"argo"}, fingerprint : {f1}, mission : {m1, m2},
   installation : {NoLabel}, seesUnmissioned : {FALSE}, pruneGlobal : {FALSE}]
  \cup
  [renderer : {"kueue"}, fingerprint : {f1}, mission : {m1},
   installation : {i1, i2}, seesUnmissioned : {TRUE}, pruneGlobal : BOOLEAN]
  \cup
  [renderer : {"kueue"}, fingerprint : {f2}, mission : {m3},
   installation : {i1}, seesUnmissioned : {TRUE}, pruneGlobal : {TRUE}]
====
