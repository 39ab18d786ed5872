--------------------------- MODULE MCPlanPipeline ---------------------------
(* Plans of one to three occurrences with up to two edits.  Of the names, two
   normalise to the same parts, one ends in what a repeated name is given as its
   suffix, and one is too long to be kept: as a mission it
   is too long for the annotations of any object, as one of two steps it just fits
   into those of a Job, and twice it does not. *)
EXTENDS PlanPipeline, TLC

MCNames == {"ship", "Ship_2", "ship-2", "long"}
MCParts(x) ==
  CASE x = "ship" -> <<"ship">>
    [] x \in {"Ship_2", "ship-2"} -> <<"ship", "2">>
    [] x = "long" -> <<"a", "b", "c", "d", "e", "f", "g">>
    [] x = "t0Z" -> <<"t0", "0z">>
    [] x \in {"t0+2", "t0-2"} -> <<"t2", "0", "02", "00">>
    [] x = "t10Z" -> <<"t0", "10z">>
    [] x = "t20Z" -> <<"t0", "20z">>
    [] OTHER -> <<x>>
MCNumeral(n) == ToString(n)
MCBytes(x) == IF x = "long" THEN 5 ELSE 1

\* What the theorems about names ask of Parts and Numeral, of these values: the
\* parts are sequences, numbers are told apart, and a timestamp with the number of
\* a repetition behind it is no timestamp.
ASSUME MCNamesAssumption ==
  LET before == {MCParts(x) : x \in MCNames \cup {"t0Z", "t0+2"}}
  IN  /\ \A x \in MCNames \cup Zoned : IsSequence(MCParts(x))
      /\ \A m, n \in 0..12 : MCNumeral(m) = MCNumeral(n) => m = n
      /\ \A t, u \in Zoned : \A n \in 2..12 : \A x, y \in before :
           x \o MCParts(t) \o <<MCNumeral(n)>> # y \o MCParts(u)

Named(id) == [ValidService EXCEPT !.service_id = id]
Gpu(id) == [Named(id) EXCEPT !.steps = ListOf(<<ValidStep, ValidGpuStep>>)]
At(time, services) == [ValidAcquisition EXCEPT !.timestamp = time, !.duration_seconds = "10", !.services = ListOf(services)]
MCMorePlans ==
  {PlanOf(<<At("t0Z", <<Named("ship"), Gpu("ship-2")>>), At("t10Z", <<Named("ship")>>)>>),
   PlanOf(<<At("t0+2", <<Gpu("long"), Named("long")>>)>>)}
=============================================================================
