--------------------------- MODULE PlanPipelineProofs ---------------------------
(***************************************************************************)
(* What is true of every plan an author can make of the corpus by any      *)
(* number of edits, with any number of events, services and steps: the     *)
(* two policy engines agree, the layers of the ablation find what its      *)
(* table says, the windows reported as conflicts are those that overlap,   *)
(* and what is compiled and rendered from an accepted plan names, claims   *)
(* and runs what it should. The argument rests on one invariant,           *)
(* PlanShaped: the lists of a plan stay sequences of what belongs in       *)
(* them, so a service is found where the compiler looks for it. What is    *)
(* said of names is said of any sanitiser and any limit on their length,   *)
(* under the hypotheses PartsAreSequences, NumeralsTell and                *)
(* TimestampsTell.                                                         *)
(***************************************************************************)
EXTENDS PlanPipeline, PolicyLemmas, SequenceTheorems, WellFoundedInduction, FiniteSetTheorems

-----------------------------------------------------------------------------
(***************************************************************************)
(* Sequences.                                                              *)
(***************************************************************************)

\* A sequence is one of its own members, whatever set they were said to be of.
LEMMA Sequences == ASSUME NEW S, NEW x \in Seq(S) PROVE IsSequence(x)
<1>1. x \in [1..Len(x) -> S] /\ Len(x) \in Nat /\ DOMAIN x = 1..Len(x)
  BY LenProperties
<1>2. x \in [1..Len(x) -> {x[k] : k \in DOMAIN x}]
  BY <1>1
<1>3. Seq({x[k] : k \in DOMAIN x}) = UNION {[1..n -> {x[k] : k \in DOMAIN x}] : n \in Nat}
  BY SeqDef
<1> QED
  BY <1>1, <1>2, <1>3 DEF IsSequence

\* What an author does to a list leaves a list, of the same members or of edited
\* ones.
LEMMA SequenceEdits ==
  ASSUME NEW x, IsSequence(x)
  PROVE  /\ IsSequence(<<>>)
         /\ \A n \in DOMAIN x : \A v :
              LET y == [x EXCEPT ![n] = v]
              IN  /\ IsSequence(y) /\ DOMAIN y = DOMAIN x /\ y[n] = v
                  /\ \A m \in DOMAIN x : m # n => y[m] = x[m]
         /\ 1 \in DOMAIN x =>
              LET y == Append(x, x[1])
              IN  IsSequence(y) /\ \A m \in DOMAIN y : \E n \in DOMAIN x : y[m] = x[n]
<1> DEFINE S == {x[k] : k \in DOMAIN x}
<1>1. x \in Seq(S) /\ Len(x) \in Nat /\ DOMAIN x = 1..Len(x)
  BY LenProperties DEF IsSequence
<1>2. IsSequence(<<>>)
  BY EmptySeq, Sequences
<1>3. ASSUME NEW n \in DOMAIN x, NEW v
      PROVE  LET y == [x EXCEPT ![n] = v]
             IN  /\ IsSequence(y) /\ DOMAIN y = DOMAIN x /\ y[n] = v
                 /\ \A m \in DOMAIN x : m # n => y[m] = x[m]
  <2>1. x \in Seq(S \cup {v})
    BY <1>1, SeqMonotonic
  <2>2. [x EXCEPT ![n] = v] \in Seq(S \cup {v})
    BY <2>1, <1>1, ExceptSeq
  <2>3. IsSequence([x EXCEPT ![n] = v])
    BY <2>2, Sequences
  <2>4. x = [k \in DOMAIN x |-> x[k]]
    BY <1>1
  <2> QED
    BY <2>3, <2>4
<1>4. ASSUME 1 \in DOMAIN x
      PROVE  LET y == Append(x, x[1])
             IN  IsSequence(y) /\ \A m \in DOMAIN y : \E n \in DOMAIN x : y[m] = x[n]
  <2> DEFINE y == Append(x, x[1])
  <2>1. x[1] \in S
    BY <1>4
  <2>2. /\ y \in Seq(S) /\ Len(y) = Len(x) + 1
        /\ \A i \in 1..Len(x) : y[i] = x[i]
        /\ y[Len(x) + 1] = x[1]
    BY <1>1, <2>1, AppendProperties
  <2>3. DOMAIN y = 1..(Len(x) + 1)
    BY <2>2, LenProperties
  <2>4. IsSequence(y)
    BY <2>2, Sequences
  <2>5. ASSUME NEW m \in DOMAIN y
        PROVE  \E n \in DOMAIN x : y[m] = x[n]
    <3>1. CASE m = Len(x) + 1
      BY <3>1, <2>2, <1>4
    <3>2. CASE m # Len(x) + 1
      <4>1. m \in 1..Len(x)
        BY <3>2, <2>3, <1>1
      <4> QED
        BY <4>1, <2>2, <1>1
    <3> QED
      BY <3>1, <3>2
  <2> QED
    BY <2>4, <2>5
<1> QED
  BY <1>2, <1>3, <1>4

\* What joining two sequences gives, place by place.
LEMMA Joined ==
  ASSUME NEW x, NEW y, IsSequence(x), IsSequence(y)
  PROVE  /\ IsSequence(x \o y)
         /\ Len(x) \in Nat /\ Len(y) \in Nat /\ Len(x \o y) = Len(x) + Len(y)
         /\ \A i \in 1..Len(x) : (x \o y)[i] = x[i]
         /\ \A i \in 1..Len(y) : (x \o y)[Len(x) + i] = y[i]
<1> DEFINE S == {x[k] : k \in DOMAIN x} \cup {y[k] : k \in DOMAIN y}
<1>1. x \in Seq(S) /\ y \in Seq(S)
  BY SeqMonotonic DEF IsSequence
<1> HIDE DEF S
<1>2. Len(x) \in Nat /\ Len(y) \in Nat
  BY <1>1, LenProperties
<1>3. /\ x \o y \in Seq(S) /\ Len(x \o y) = Len(x) + Len(y)
      /\ \A i \in 1..(Len(x) + Len(y)) : (x \o y)[i] = IF i <= Len(x) THEN x[i] ELSE y[i - Len(x)]
  BY <1>1, ConcatProperties
<1>4. IsSequence(x \o y)
  BY <1>3, Sequences
<1>5. ASSUME NEW i \in 1..Len(x) PROVE (x \o y)[i] = x[i]
  BY <1>2, <1>3
<1>6. ASSUME NEW i \in 1..Len(y) PROVE (x \o y)[Len(x) + i] = y[i]
  <2>1. Len(x) + i \in 1..(Len(x) + Len(y)) /\ ~(Len(x) + i <= Len(x)) /\ (Len(x) + i) - Len(x) = i
    BY <1>2
  <2> QED
    BY <1>3, <2>1
<1> QED
  BY <1>2, <1>3, <1>4, <1>5, <1>6

\* What is left of a sequence that is cut.
LEMMA Shortened ==
  ASSUME NEW x, IsSequence(x), NEW n \in Nat, n <= Len(x)
  PROVE  /\ IsSequence(SubSeq(x, 1, n)) /\ Len(SubSeq(x, 1, n)) = n
         /\ \A i \in 1..n : SubSeq(x, 1, n)[i] = x[i]
<1> DEFINE S == {x[k] : k \in DOMAIN x}
<1>1. x \in Seq(S)
  BY DEF IsSequence
<1> HIDE DEF S
<1>2. Len(x) \in Nat /\ \A i \in 1..n : x[i] \in S
  BY <1>1, LenProperties, ElementOfSeq
<1>3. /\ SubSeq(x, 1, n) \in Seq(S)
      /\ Len(SubSeq(x, 1, n)) = IF 1 <= n THEN n - 1 + 1 ELSE 0
      /\ \A i \in 1..(n - 1 + 1) : SubSeq(x, 1, n)[i] = x[1 + i - 1]
  BY <1>2, SubSeqProperties
<1>4. IsSequence(SubSeq(x, 1, n))
  BY <1>3, Sequences
<1> QED
  BY <1>3, <1>4

\* Sequences of one length that agree at every place are one sequence.
LEMMA SameSequence ==
  ASSUME NEW x, NEW y, IsSequence(x), IsSequence(y), Len(x) = Len(y),
         \A i \in 1..Len(x) : x[i] = y[i]
  PROVE  x = y
<1> DEFINE S == {x[k] : k \in DOMAIN x} \cup {y[k] : k \in DOMAIN y}
<1>1. x \in Seq(S) /\ y \in Seq(S)
  BY SeqMonotonic DEF IsSequence
<1> HIDE DEF S
<1> QED
  BY <1>1, SeqEqual

\* Literal sequences.
LEMMA Literals ==
  /\ IsSequence(<<>>) /\ Len(<<>>) = 0
  /\ \A a : IsSequence(<<a>>) /\ Len(<<a>>) = 1 /\ <<a>>[1] = a
  /\ \A a, b : IsSequence(<<a, b>>) /\ Len(<<a, b>>) = 2 /\ <<a, b>>[1] = a /\ <<a, b>>[2] = b
  /\ \A a, b, c : IsSequence(<<a, b, c>>) /\ Len(<<a, b, c>>) = 3
<1>1. IsSequence(<<>>) /\ Len(<<>>) = 0
  BY EmptySeq, Sequences
<1>2. \A a : IsSequence(<<a>>) /\ Len(<<a>>) = 1 /\ <<a>>[1] = a
  <2> TAKE a
  <2>1. <<a>> \in Seq({a}) /\ Len(<<a>>) = 1 /\ <<a>>[1] = a
    OBVIOUS
  <2>2. IsSequence(<<a>>)
    BY <2>1, Sequences
  <2> QED
    BY <2>1, <2>2
<1>3. \A a, b : IsSequence(<<a, b>>) /\ Len(<<a, b>>) = 2 /\ <<a, b>>[1] = a /\ <<a, b>>[2] = b
  <2> TAKE a, b
  <2>1. <<a, b>> \in Seq({a, b}) /\ Len(<<a, b>>) = 2 /\ <<a, b>>[1] = a /\ <<a, b>>[2] = b
    OBVIOUS
  <2>2. IsSequence(<<a, b>>)
    BY <2>1, Sequences
  <2> QED
    BY <2>1, <2>2
<1>4. \A a, b, c : IsSequence(<<a, b, c>>) /\ Len(<<a, b, c>>) = 3
  <2> TAKE a, b, c
  <2>1. <<a, b, c>> \in Seq({a, b, c}) /\ Len(<<a, b, c>>) = 3
    OBVIOUS
  <2>2. IsSequence(<<a, b, c>>)
    BY <2>1, Sequences
  <2> QED
    BY <2>1, <2>2
<1> QED
  BY <1>1, <1>2, <1>3, <1>4

\* Two sequences joined from parts of the same length are joined from the same.
LEMMA SplitSame ==
  ASSUME NEW x, NEW y, NEW u, NEW v,
         IsSequence(x), IsSequence(y), IsSequence(u), IsSequence(v),
         Len(y) = Len(v), x \o y = u \o v
  PROVE  x = u /\ y = v
<1>1. /\ Len(x) \in Nat /\ Len(y) \in Nat /\ Len(x \o y) = Len(x) + Len(y)
      /\ \A i \in 1..Len(x) : (x \o y)[i] = x[i]
      /\ \A i \in 1..Len(y) : (x \o y)[Len(x) + i] = y[i]
  <2>1. Len(x) \in Nat /\ Len(y) \in Nat /\ Len(x \o y) = Len(x) + Len(y)
    BY Joined
  <2>2. \A i \in 1..Len(x) : (x \o y)[i] = x[i]
    BY Joined
  <2>3. \A i \in 1..Len(y) : (x \o y)[Len(x) + i] = y[i]
    BY Joined
  <2> QED
    BY <2>1, <2>2, <2>3
<1>2. /\ Len(u) \in Nat /\ Len(v) \in Nat /\ Len(u \o v) = Len(u) + Len(v)
      /\ \A i \in 1..Len(u) : (u \o v)[i] = u[i]
      /\ \A i \in 1..Len(v) : (u \o v)[Len(u) + i] = v[i]
  <2>1. Len(u) \in Nat /\ Len(v) \in Nat /\ Len(u \o v) = Len(u) + Len(v)
    BY Joined
  <2>2. \A i \in 1..Len(u) : (u \o v)[i] = u[i]
    BY Joined
  <2>3. \A i \in 1..Len(v) : (u \o v)[Len(u) + i] = v[i]
    BY Joined
  <2> QED
    BY <2>1, <2>2, <2>3
<1>3. Len(x) = Len(u)
  BY <1>1, <1>2
<1>4. x = u
  <2>1. \A i \in 1..Len(x) : x[i] = u[i]
    BY <1>1, <1>2, <1>3
  <2> QED
    BY <2>1, <1>3, SameSequence
<1>5. y = v
  <2>1. \A i \in 1..Len(y) : y[i] = v[i]
    BY <1>1, <1>2, <1>3
  <2> QED
    BY <2>1, SameSequence
<1> QED
  BY <1>4, <1>5

\* What stands behind the same is the same.
LEMMA SplitBehind ==
  ASSUME NEW x, NEW y, NEW v, IsSequence(x), IsSequence(y), IsSequence(v), x \o y = x \o v
  PROVE  y = v
<1>1. Len(x) \in Nat /\ Len(y) \in Nat /\ Len(v) \in Nat
  BY Joined
<1>2. Len(x \o y) = Len(x) + Len(y) /\ Len(x \o v) = Len(x) + Len(v)
  BY Joined
<1>3. Len(y) = Len(v)
  BY <1>1, <1>2
<1> QED
  BY <1>3, SplitSame

\* A set of numbers that is not empty has a least one, which is the one Min names.
LEMMA LeastMember ==
  ASSUME NEW S \in SUBSET Nat, S # {}
  PROVE  Min(S) \in S
<1> DEFINE less == {ss \in Nat \X Nat : ss[1] < ss[2]}
<1>1. IsWellFoundedOn(less, Nat)
  BY NatLessThanWellFounded DEF OpToRel
<1> HIDE DEF less
<1>2. PICK x \in S : \A y \in S : <<y, x>> \notin less
  BY <1>1, WFMin
<1>3. \A y \in S : x <= y
  <2> TAKE y \in S
  <2>1. x \in Nat /\ y \in Nat /\ <<y, x>> \in Nat \X Nat
    OBVIOUS
  <2>2. ~(y < x)
    BY <1>2, <2>1 DEF less
  <2> QED
    BY <2>1, <2>2
<1>4. \E m \in S : \A y \in S : m =< y
  BY <1>3
<1> QED
  BY <1>4, Zenon DEF Min

-----------------------------------------------------------------------------
(***************************************************************************)
(* The shape of a plan: its lists are sequences, of what belongs in them.  *)
(***************************************************************************)

\* A list as the schema and the dump write it holds its items.
LEMMA Lists == \A items : /\ "items" \in DOMAIN ListOf(items) /\ ListOf(items).items = items
BY DEF ListOf

\* What stands in the place of a list of steps keeps its shape when the author
\* puts something else there, or edits one of them.
LEMMA StepsKeepShape ==
  ASSUME NEW c, StepsShaped(c),
         NEW d \in ListEdits(c) \cup EachItem(c, StepEdits)
  PROVE  StepsShaped(d)
<1>1. "items" \in DOMAIN c /\ IsSequence(c.items)
  BY DEF StepsShaped
<1>2. CASE d \in Nothing
  BY <1>2, <1>1, SequenceEdits DEF Nothing, StepsShaped
<1>3. CASE d = [c EXCEPT !.kind = "object"]
  BY <1>3, <1>1 DEF StepsShaped
<1>4. CASE d = ListOf(<<>>)
  BY <1>4, <1>1, SequenceEdits, Lists DEF StepsShaped
<1>5. CASE 1 \in DOMAIN c.items /\ d = ListOf(Append(c.items, c.items[1]))
  BY <1>5, <1>1, SequenceEdits, Lists DEF StepsShaped
<1>6. CASE \E n \in DOMAIN c.items : \E x : d = [c EXCEPT !.items[n] = x]
  <2>1. PICK n \in DOMAIN c.items : \E x : d = [c EXCEPT !.items[n] = x]
    BY <1>6
  <2>2. PICK x : d = [c EXCEPT !.items[n] = x]
    BY <2>1
  <2>3. "items" \in DOMAIN d /\ d.items = [c.items EXCEPT ![n] = x]
    BY <2>2, <1>1
  <2> QED
    BY <2>3, <1>1, SequenceEdits DEF StepsShaped
<1> QED
  BY <1>2, <1>3, <1>4, <1>5, <1>6 DEF ListEdits, EachItem

\* An edit of a service leaves its steps alone, or puts others in their place.
LEMMA ServiceKeepsShape ==
  ASSUME NEW s, "steps" \in DOMAIN s, StepsShaped(s.steps), NEW t \in ServiceEdits(s)
  PROVE  "steps" \in DOMAIN t /\ StepsShaped(t.steps)
<1>1. CASE \E c \in ListEdits(s.steps) \cup EachItem(s.steps, StepEdits) : t = [s EXCEPT !.steps = c]
  <2>1. PICK c \in ListEdits(s.steps) \cup EachItem(s.steps, StepEdits) : t = [s EXCEPT !.steps = c]
    BY <1>1
  <2>2. StepsShaped(c)
    BY StepsKeepShape
  <2>3. "steps" \in DOMAIN t /\ t.steps = c
    BY <2>1
  <2> QED
    BY <2>2, <2>3
<1>2. CASE \E f \in {"kind", "extra", "service_id", "priority", "landscape_type", "execution_mode"} :
             \E v : t = [s EXCEPT ![f] = v]
  <2>1. PICK f \in {"kind", "extra", "service_id", "priority", "landscape_type", "execution_mode"} :
          \E v : t = [s EXCEPT ![f] = v]
    BY <1>2
  <2>2. PICK v : t = [s EXCEPT ![f] = v]
    BY <2>1
  <2>3. "steps" \in DOMAIN t /\ t.steps = s.steps
    BY <2>2
  <2> QED
    BY <2>3
<1> QED
  BY <1>1, <1>2 DEF ServiceEdits

\* The same of a list of services.
LEMMA ServicesKeepShape ==
  ASSUME NEW c, ServicesShaped(c),
         NEW d \in ListEdits(c) \cup EachItem(c, ServiceEdits)
  PROVE  ServicesShaped(d)
<1>1. /\ "items" \in DOMAIN c /\ IsSequence(c.items)
      /\ \A j \in DOMAIN c.items : "steps" \in DOMAIN c.items[j] /\ StepsShaped(c.items[j].steps)
  BY DEF ServicesShaped
<1>2. CASE d \in Nothing
  BY <1>2, <1>1, SequenceEdits DEF Nothing, ServicesShaped
<1>3. CASE d = [c EXCEPT !.kind = "object"]
  BY <1>3, <1>1 DEF ServicesShaped
<1>4. CASE d = ListOf(<<>>)
  BY <1>4, <1>1, SequenceEdits, Lists DEF ServicesShaped
<1>5. CASE 1 \in DOMAIN c.items /\ d = ListOf(Append(c.items, c.items[1]))
  <2>1. d.items = Append(c.items, c.items[1]) /\ "items" \in DOMAIN d
    BY <1>5, Lists
  <2> HIDE DEF ListOf
  <2> QED
    BY <2>1, <1>5, <1>1, SequenceEdits DEF ServicesShaped
<1>6. CASE \E n \in DOMAIN c.items : \E x \in ServiceEdits(c.items[n]) : d = [c EXCEPT !.items[n] = x]
  <2>0. PICK n \in DOMAIN c.items : \E x \in ServiceEdits(c.items[n]) : d = [c EXCEPT !.items[n] = x]
    BY <1>6
  <2>1. PICK x \in ServiceEdits(c.items[n]) : d = [c EXCEPT !.items[n] = x]
    BY <2>0
  <2>2. "items" \in DOMAIN d /\ d.items = [c.items EXCEPT ![n] = x]
    BY <2>1, <1>1
  <2>3. "steps" \in DOMAIN x /\ StepsShaped(x.steps)
    BY <1>1, ServiceKeepsShape
  <2> HIDE DEF ServiceEdits
  <2> QED
    BY <2>2, <2>3, <1>1, SequenceEdits DEF ServicesShaped
<1> QED
  BY <1>2, <1>3, <1>4, <1>5, <1>6 DEF ListEdits, EachItem

\* The same one level up, of an event and its services.
LEMMA EventKeepsShape ==
  ASSUME NEW e, "services" \in DOMAIN e, ServicesShaped(e.services), NEW f \in EventEdits(e)
  PROVE  "services" \in DOMAIN f /\ ServicesShaped(f.services)
<1> DEFINE others == {"kind", "extra", "event_type", "timestamp", "duration_seconds", "instrument",
                      "ground_visibility"}
<1>1. CASE \E c \in ListEdits(e.services) \cup EachItem(e.services, ServiceEdits) :
             f = [e EXCEPT !.services = c]
  <2>1. PICK c \in ListEdits(e.services) \cup EachItem(e.services, ServiceEdits) :
          f = [e EXCEPT !.services = c]
    BY <1>1
  <2>2. ServicesShaped(c)
    BY ServicesKeepShape
  <2>3. "services" \in DOMAIN f /\ f.services = c
    BY <2>1
  <2> QED
    BY <2>2, <2>3
<1>2. CASE \E x \in others : \E v : f = [e EXCEPT ![x] = v]
  <2>1. PICK x \in others : \E v : f = [e EXCEPT ![x] = v]
    BY <1>2
  <2>2. PICK v : f = [e EXCEPT ![x] = v]
    BY <2>1
  <2>3. "services" \in DOMAIN f /\ f.services = e.services
    BY <2>2
  <2> QED
    BY <2>3
<1> QED
  BY <1>1, <1>2 DEF EventEdits

\* The same of a list of events.
LEMMA EventsKeepShape ==
  ASSUME NEW c, EventsShaped(c),
         NEW d \in ListEdits(c) \cup EachItem(c, EventEdits)
  PROVE  EventsShaped(d)
<1>1. /\ "items" \in DOMAIN c /\ IsSequence(c.items)
      /\ \A i \in DOMAIN c.items :
           "services" \in DOMAIN c.items[i] /\ ServicesShaped(c.items[i].services)
  BY DEF EventsShaped
<1>2. CASE d \in Nothing
  BY <1>2, <1>1, SequenceEdits DEF Nothing, EventsShaped
<1>3. CASE d = [c EXCEPT !.kind = "object"]
  BY <1>3, <1>1 DEF EventsShaped
<1>4. CASE d = ListOf(<<>>)
  BY <1>4, <1>1, SequenceEdits, Lists DEF EventsShaped
<1>5. CASE 1 \in DOMAIN c.items /\ d = ListOf(Append(c.items, c.items[1]))
  <2>1. d.items = Append(c.items, c.items[1]) /\ "items" \in DOMAIN d
    BY <1>5, Lists
  <2> QED
    BY <2>1, <1>5, <1>1, SequenceEdits DEF EventsShaped
<1>6. CASE \E n \in DOMAIN c.items : \E x \in EventEdits(c.items[n]) : d = [c EXCEPT !.items[n] = x]
  <2>0. PICK n \in DOMAIN c.items : \E x \in EventEdits(c.items[n]) : d = [c EXCEPT !.items[n] = x]
    BY <1>6
  <2>1. PICK x \in EventEdits(c.items[n]) : d = [c EXCEPT !.items[n] = x]
    BY <2>0
  <2>2. "items" \in DOMAIN d /\ d.items = [c.items EXCEPT ![n] = x]
    BY <2>1, <1>1
  <2>3. "services" \in DOMAIN x /\ ServicesShaped(x.services)
    BY <1>1, EventKeepsShape
  <2> QED
    BY <2>2, <2>3, <1>1, SequenceEdits DEF EventsShaped
<1> QED
  BY <1>2, <1>3, <1>4, <1>5, <1>6 DEF ListEdits, EachItem

\* Whatever one edit does to a plan, it is still one whose lists are lists.
LEMMA PlanKeepsShape ==
  ASSUME NEW p, PlanShaped(p), NEW q \in PlanEdits(p)
  PROVE  PlanShaped(q)
<1>1. CASE \E c \in ListEdits(p.events) \cup EachItem(p.events, EventEdits) : q = [p EXCEPT !.events = c]
  <2>1. PICK c \in ListEdits(p.events) \cup EachItem(p.events, EventEdits) : q = [p EXCEPT !.events = c]
    BY <1>1
  <2>2. EventsShaped(c)
    BY EventsKeepShape DEF PlanShaped
  <2>3. "events" \in DOMAIN q /\ q.events = c
    BY <2>1 DEF PlanShaped
  <2> QED
    BY <2>2, <2>3 DEF PlanShaped
<1>2. CASE \E x \in {"extra", "mission_id"} : \E v : q = [p EXCEPT ![x] = v]
  <2>1. PICK x \in {"extra", "mission_id"} : \E v : q = [p EXCEPT ![x] = v]
    BY <1>2
  <2>2. PICK v : q = [p EXCEPT ![x] = v]
    BY <2>1
  <2>3. "events" \in DOMAIN q /\ q.events = p.events
    BY <2>2 DEF PlanShaped
  <2> QED
    BY <2>3 DEF PlanShaped
<1> QED
  BY <1>1, <1>2 DEF PlanEdits

\* A plan written with events each of which has a list of services, or nothing in
\* its place, each service with its steps.
LEMMA WrittenInShape ==
  /\ StepsShaped(ListOf(<<>>)) /\ \A s : StepsShaped(ListOf(<<s>>))
  /\ ServicesShaped([kind |-> "absent", items |-> <<>>]) /\ ServicesShaped(ListOf(<<>>))
  /\ \A s : ("steps" \in DOMAIN s /\ StepsShaped(s.steps)) => ServicesShaped(ListOf(<<s>>))
  /\ EventsShaped(ListOf(<<>>))
  /\ \A e : ("services" \in DOMAIN e /\ ServicesShaped(e.services)) => EventsShaped(ListOf(<<e>>))
  /\ \A e, f : (/\ "services" \in DOMAIN e /\ ServicesShaped(e.services)
                /\ "services" \in DOMAIN f /\ ServicesShaped(f.services)) => EventsShaped(ListOf(<<e, f>>))
<1>1. /\ IsSequence(<<>>) /\ DOMAIN <<>> = {}
  <2>1. IsSequence(<<>>)
    BY EmptySeq, Sequences
  <2>2. DOMAIN <<>> = {}
    OBVIOUS
  <2> QED
    BY <2>1, <2>2
<1>2. \A s : IsSequence(<<s>>) /\ DOMAIN <<s>> = {1} /\ <<s>>[1] = s
  <2> TAKE s
  <2>1. <<s>> \in Seq({s})
    OBVIOUS
  <2>2. IsSequence(<<s>>)
    BY <2>1, Sequences
  <2>3. DOMAIN <<s>> = {1} /\ <<s>>[1] = s
    OBVIOUS
  <2> QED
    BY <2>2, <2>3
<1>3. \A s, t : IsSequence(<<s, t>>) /\ DOMAIN <<s, t>> = {1, 2} /\ <<s, t>>[1] = s /\ <<s, t>>[2] = t
  <2> TAKE s, t
  <2>1. <<s, t>> \in Seq({s, t})
    OBVIOUS
  <2>2. IsSequence(<<s, t>>)
    BY <2>1, Sequences
  <2>3. DOMAIN <<s, t>> = {1, 2} /\ <<s, t>>[1] = s /\ <<s, t>>[2] = t
    OBVIOUS
  <2> QED
    BY <2>2, <2>3
<1>4. StepsShaped(ListOf(<<>>)) /\ \A s : StepsShaped(ListOf(<<s>>))
  BY <1>1, <1>2, Lists DEF StepsShaped
<1>5. ServicesShaped([kind |-> "absent", items |-> <<>>]) /\ ServicesShaped(ListOf(<<>>))
  BY <1>1, Lists DEF ServicesShaped
<1>6. \A s : ("steps" \in DOMAIN s /\ StepsShaped(s.steps)) => ServicesShaped(ListOf(<<s>>))
  BY <1>2, Lists DEF ServicesShaped
<1>7. EventsShaped(ListOf(<<>>))
  BY <1>1, Lists DEF EventsShaped
<1>8. \A e : ("services" \in DOMAIN e /\ ServicesShaped(e.services)) => EventsShaped(ListOf(<<e>>))
  BY <1>2, Lists DEF EventsShaped
<1>9. \A e, f : (/\ "services" \in DOMAIN e /\ ServicesShaped(e.services)
                 /\ "services" \in DOMAIN f /\ ServicesShaped(f.services)) => EventsShaped(ListOf(<<e, f>>))
  BY <1>3, Lists DEF EventsShaped
<1> QED
  BY <1>4, <1>5, <1>6, <1>7, <1>8, <1>9

\* Every plan of the corpus has the shape.
LEMMA CorpusInShape == \A c \in DOMAIN CorpusPlan : PlanShaped(CorpusPlan[c])
<1>1. \A s : "steps" \in DOMAIN [ValidService EXCEPT !.steps = s]
             /\ [ValidService EXCEPT !.steps = s].steps = s
  BY DEF ValidService
<1>2. \A v : LET s == [ValidService EXCEPT !.priority = v] IN "steps" \in DOMAIN s /\ StepsShaped(s.steps)
  BY WrittenInShape DEF ValidService
<1>3. \A v : LET s == [ValidService EXCEPT !.landscape_type = v] IN "steps" \in DOMAIN s /\ StepsShaped(s.steps)
  BY WrittenInShape DEF ValidService
<1>4. "steps" \in DOMAIN ValidService /\ StepsShaped(ValidService.steps)
  BY WrittenInShape DEF ValidService
<1>5. \A e : ("services" \in DOMAIN e /\ ServicesShaped(e.services)) => PlanShaped(PlanOf(<<e>>))
  BY WrittenInShape DEF PlanShaped, PlanOf
<1>6. "services" \in DOMAIN ValidAcquisition /\ ServicesShaped(ValidAcquisition.services)
  BY WrittenInShape, <1>4 DEF ValidAcquisition
<1>7. "services" \in DOMAIN ValidDownload /\ ServicesShaped(ValidDownload.services)
  BY WrittenInShape DEF ValidDownload
<1>8. \A x \in {"instrument", "duration_seconds", "ground_visibility"} : \A v :
        /\ LET e == [ValidAcquisition EXCEPT ![x] = v] IN "services" \in DOMAIN e /\ ServicesShaped(e.services)
        /\ LET e == [ValidDownload EXCEPT ![x] = v] IN "services" \in DOMAIN e /\ ServicesShaped(e.services)
  <2> TAKE x \in {"instrument", "duration_seconds", "ground_visibility"}
  <2> TAKE v
  <2>1. /\ "services" \in DOMAIN [ValidAcquisition EXCEPT ![x] = v]
        /\ [ValidAcquisition EXCEPT ![x] = v].services = ValidAcquisition.services
    BY <1>6
  <2>2. /\ "services" \in DOMAIN [ValidDownload EXCEPT ![x] = v]
        /\ [ValidDownload EXCEPT ![x] = v].services = ValidDownload.services
    BY <1>7
  <2> QED
    BY <1>6, <1>7, <2>1, <2>2
<1>9. \A c : ServicesShaped(c) =>
        /\ PlanShaped(PlanOf(<<[ValidAcquisition EXCEPT !.services = c]>>))
        /\ PlanShaped(PlanOf(<<[ValidDownload EXCEPT !.services = c]>>))
  <2> TAKE c
  <2>1. /\ "services" \in DOMAIN [ValidAcquisition EXCEPT !.services = c]
        /\ [ValidAcquisition EXCEPT !.services = c].services = c
    BY <1>6
  <2>2. /\ "services" \in DOMAIN [ValidDownload EXCEPT !.services = c]
        /\ [ValidDownload EXCEPT !.services = c].services = c
    BY <1>7
  <2> QED
    BY <1>5, <2>1, <2>2
<1>10. \A s : ("steps" \in DOMAIN s /\ StepsShaped(s.steps)) => PlanShaped(WithServices(<<s>>))
  BY WrittenInShape, <1>9 DEF WithServices
<1>11. \A c : StepsShaped(ListOf(c)) => PlanShaped(WithSteps(c))
  BY <1>1, <1>10 DEF WithSteps
<1>12. PlanShaped(BasePlan) /\ PlanShaped([BasePlan EXCEPT !.mission_id = "blank"])
  <2>1. PlanShaped(BasePlan)
    BY <1>5, <1>6 DEF BasePlan
  <2>2. "events" \in DOMAIN [BasePlan EXCEPT !.mission_id = "blank"]
        /\ [BasePlan EXCEPT !.mission_id = "blank"].events = BasePlan.events
    BY DEF BasePlan, PlanOf
  <2> QED
    BY <2>1, <2>2 DEF PlanShaped
<1>13. PlanShaped(PlanOf(<<ValidAcquisition, ValidDownload>>)) /\ PlanShaped(PlanOf(<<>>))
  BY <1>6, <1>7, WrittenInShape DEF PlanShaped, PlanOf
<1>14. PlanShaped(WithServices(<<>>)) /\ PlanShaped(WithSteps(<<>>))
  BY <1>9, <1>11, WrittenInShape DEF WithServices
<1>15. \A s : PlanShaped(WithSteps(<<s>>))
  BY <1>11, WrittenInShape
<1>16. PlanShaped(PlanOf(<<[ValidDownload EXCEPT !.services = ListOf(<<ValidService>>)]>>))
  BY <1>4, <1>9, WrittenInShape
<1>17. /\ PlanShaped(PlanOf(<<[ValidAcquisition EXCEPT !.instrument = "absent"]>>))
       /\ PlanShaped(PlanOf(<<[ValidDownload EXCEPT !.duration_seconds = "absent"]>>))
       /\ PlanShaped(PlanOf(<<[ValidDownload EXCEPT !.ground_visibility = "false"]>>))
  BY <1>5, <1>8
<1>18. /\ PlanShaped(WithServices(<<[ValidService EXCEPT !.priority = "0"]>>))
       /\ PlanShaped(WithServices(<<[ValidService EXCEPT !.landscape_type = "desert"]>>))
  BY <1>10, <1>2, <1>3
<1> QED
  BY <1>12, <1>13, <1>14, <1>15, <1>16, <1>17, <1>18 DEF CorpusPlan

\* Whatever an author does to a plan, one field at a time, its lists stay lists of
\* what belongs in them, so the positions at which services and steps are found
\* are those of the file.
LEMMA PlansKeepShape == Spec => []PlanShaped(plan)
<1>1. Init => PlanShaped(plan)
  BY CorpusInShape, PlansAssumption DEF Init
<1>2. PlanShaped(plan) /\ [Next]_vars => PlanShaped(plan)'
  <2> SUFFICES ASSUME PlanShaped(plan), [Next]_vars
               PROVE  PlanShaped(plan')
    BY DEF PlanShaped, EventsShaped, ServicesShaped, StepsShaped, IsSequence
  <2>1. CASE AuthorEdits
    BY <2>1, PlanKeepsShape DEF AuthorEdits
  <2>2. CASE UNCHANGED vars
    BY <2>2 DEF vars
  <2> QED
    BY <2>1, <2>2 DEF Next
<1> QED
  BY <1>1, <1>2, PTL DEF Spec

-----------------------------------------------------------------------------
(***************************************************************************)
(* The policy engines.                                                     *)
(***************************************************************************)

\* The two engines give one verdict on the raw JSON of any plan, and the same
\* violations on a plan written with lists and on the dump of an accepted one.
THEOREM EnginesAlwaysAgree == Spec => []EnginesAgree
<1>1. EnginesAgree
  <2>1. ASSUME plan.mission_id # "separators"
        PROVE  (RegoViolations(plan) = {}) = (BaselineViolations(plan) = {})
    BY <2>1, PlanVerdicts
  <2>2. ASSUME plan.mission_id # "separators", ListsOnly(plan)
        PROVE  RegoViolations(plan) = BaselineViolations(plan)
    BY <2>2, PlansAlike
  <2>3. ASSUME SchemaAccepts(plan)
        PROVE  /\ ~BaselineRaises(Dump(plan))
               /\ RegoViolations(Dump(plan)) = BaselineViolations(Dump(plan))
    BY <2>3, PlanDumped, PlansAlike
  <2> QED
    BY <2>1, <2>2, <2>3 DEF EnginesAgree
<1> QED
  BY <1>1, PTL

\* Loading a plan and dumping it hides no violation of the file, so the gate and
\* the combined arm of the ablation find whatever either layer finds.
THEOREM NormalisingNeverHides == Spec => []NormalisingHidesNothing
<1>1. NormalisingHidesNothing
  <2>1. SchemaAccepts(plan) => RegoViolations(plan) \subseteq RegoViolations(Dump(plan))
    BY PlanDumped
  <2> QED
    BY <2>1 DEF NormalisingHidesNothing, SchemaDetects, PolicyDetects, CombinedDetects
<1> QED
  BY <1>1, PTL

-----------------------------------------------------------------------------
(***************************************************************************)
(* The corpus of the ablation.                                             *)
(***************************************************************************)

\* What the schema and the bundle say of a plan of one event is what they say of
\* the event.
LEMMA OneEvent ==
  ASSUME NEW e
  PROVE  /\ SchemaAccepts(PlanOf(<<e>>)) <=> EventAccepted(e)
         /\ RegoViolations(PlanOf(<<e>>)) = RegoEvent(e, <<1>>, TRUE)
<1> DEFINE p == PlanOf(<<e>>)
<1>1. /\ p.extra = FALSE /\ p.mission_id = "ablation" /\ p.events.kind = "list" /\ p.events.items = <<e>>
      /\ DOMAIN <<e>> = {1} /\ <<e>>[1] = e /\ <<e>> # <<>>
  BY DEF PlanOf, ListOf
<1> HIDE DEF p
<1>2. SchemaAccepts(p) <=> EventAccepted(e)
  BY <1>1 DEF SchemaAccepts, Text, IsString, NonStrings, Missing, Numbers, BlankToPython, IsList
<1>3. RegoItems(p.events) = <<e>> /\ IsList(p.events)
  BY <1>1 DEF RegoItems, IsList
<1>4. /\ When(p.mission_id \in Missing \cup BlankToRego, "1", <<>>) = {}
      /\ When(LenIsZero(p.events), "2", <<>>) = {}
      /\ When(NotAList(p.events), "events not a list", <<>>) = {}
  BY <1>1 DEF When, Missing, BlankToRego, LenIsZero, NotAList, IsList
<1>5. UNION {RegoEvent(RegoItems(p.events)[i], <<i>>, IsList(p.events)) : i \in DOMAIN RegoItems(p.events)}
        = RegoEvent(e, <<1>>, TRUE)
  <2>1. {RegoEvent(RegoItems(p.events)[i], <<i>>, IsList(p.events)) : i \in DOMAIN RegoItems(p.events)}
          = {RegoEvent(e, <<1>>, TRUE)}
    BY <1>1, <1>3
  <2> QED
    BY <2>1
<1> QED
  BY <1>2, <1>4, <1>5 DEF RegoViolations, p

\* The same of an acquisition of one service.
LEMMA OneService ==
  ASSUME NEW s
  PROVE  LET e == [ValidAcquisition EXCEPT !.services = ListOf(<<s>>)]
         IN  /\ EventAccepted(e) <=> ServiceAccepted(s)
             /\ RegoEvent(e, <<1>>, TRUE) = RegoService(s, Append(<<1>>, 1), TRUE)
<1> DEFINE e == [ValidAcquisition EXCEPT !.services = ListOf(<<s>>)]
<1>1. /\ e.kind = "object" /\ e.extra = FALSE /\ e.event_type = "acquisition" /\ e.timestamp = "t0Z"
      /\ e.duration_seconds = "absent" /\ e.instrument = "MSI" /\ e.ground_visibility = "false"
      /\ e.services.kind = "list" /\ e.services.items = <<s>>
      /\ DOMAIN <<s>> = {1} /\ <<s>>[1] = s /\ <<s>> # <<>>
  BY DEF ValidAcquisition, ListOf
<1> HIDE DEF e
<1>2. AsList(e.services) = <<s>> /\ RegoItems(e.services) = <<s>> /\ IsList(e.services) /\ IsObject(e)
  BY <1>1 DEF AsList, RegoItems, IsList, IsObject
<1>3. EventAccepted(e) <=> ServiceAccepted(s)
  BY <1>1, <1>2
     DEF EventAccepted, Zoned, OrMissing, OrAbsent, Missing, AcquisitionComplete, Text, IsString, NonStrings,
         Numbers, BlankToPython
<1>4. /\ When(TRUE /\ NotAList(e.services), "services not a list", <<1>>) = {}
      /\ When(e.event_type = "acquisition" /\ LenIsZero(e.services), "3", <<1>>) = {}
      /\ When(e.event_type = "download" /\ LenIsPositive(e.services), "7", <<1>>) = {}
      /\ When(e.event_type = "download" /\ e.ground_visibility # "true", "8", <<1>>) = {}
  BY <1>1, <1>2 DEF When, NotAList, LenIsZero, Missing
<1>5. UNION {RegoService(RegoItems(e.services)[j], Append(<<1>>, j), IsList(e.services)) :
               j \in DOMAIN RegoItems(e.services)}
        = RegoService(s, Append(<<1>>, 1), TRUE)
  <2>1. {RegoService(RegoItems(e.services)[j], Append(<<1>>, j), IsList(e.services)) :
               j \in DOMAIN RegoItems(e.services)}
          = {RegoService(s, Append(<<1>>, 1), TRUE)}
    BY <1>1, <1>2
  <2> QED
    BY <2>1
<1>6. RegoEvent(e, <<1>>, TRUE) = RegoService(s, Append(<<1>>, 1), TRUE)
  BY <1>2, <1>4, <1>5 DEF RegoEvent
<1> QED
  BY <1>3, <1>6 DEF e

\* The same of a service of one step.
LEMMA OneStep ==
  ASSUME NEW t, NEW at
  PROVE  LET s == [ValidService EXCEPT !.steps = ListOf(<<t>>)]
         IN  /\ ServiceAccepted(s) <=> StepAccepted(t)
             /\ RegoService(s, at, TRUE) = RegoStep(t, Append(at, 1), TRUE)
<1> DEFINE s == [ValidService EXCEPT !.steps = ListOf(<<t>>)]
<1>1. /\ s.kind = "object" /\ s.extra = FALSE /\ s.service_id = "ship" /\ s.priority = "30"
      /\ s.landscape_type = "ocean" /\ s.execution_mode = "sequential"
      /\ s.steps.kind = "list" /\ s.steps.items = <<t>>
      /\ DOMAIN <<t>> = {1} /\ <<t>>[1] = t /\ <<t>> # <<>>
  BY DEF ValidService, ListOf
<1> HIDE DEF s
<1>2. RegoItems(s.steps) = <<t>> /\ IsList(s.steps) /\ IsObject(s)
  BY <1>1 DEF RegoItems, IsList, IsObject
<1>3. ServiceAccepted(s) <=> StepAccepted(t)
  BY <1>1, <1>2
     DEF ServiceAccepted, OrAbsent, Missing, Text, IsString, NonStrings, Numbers, BlankToPython, NotNegative,
         QuotedNumbers, Modes
<1>4. /\ When(NotAList(s.steps), "steps not a list", at) = {}
      /\ When(s.priority = "0", "5", at) = {}
      /\ When(LenIsZero(s.steps), "9", at) = {}
      /\ When(IsString(s.landscape_type) /\ s.landscape_type \notin Landscapes, "10", at) = {}
      /\ When(s.landscape_type # "null" /\ s.landscape_type # "absent" /\ ~IsString(s.landscape_type), "10", at) = {}
  BY <1>1, <1>2 DEF When, NotAList, LenIsZero, Missing, Landscapes, IsString, NonStrings, Numbers
<1>5. UNION {RegoStep(RegoItems(s.steps)[k], Append(at, k), IsList(s.steps)) : k \in DOMAIN RegoItems(s.steps)}
        = RegoStep(t, Append(at, 1), TRUE)
  <2>1. {RegoStep(RegoItems(s.steps)[k], Append(at, k), IsList(s.steps)) : k \in DOMAIN RegoItems(s.steps)}
          = {RegoStep(t, Append(at, 1), TRUE)}
    BY <1>1, <1>2
  <2> QED
    BY <2>1
<1>6. RegoService(s, at, TRUE) = RegoStep(t, Append(at, 1), TRUE)
  BY <1>2, <1>4, <1>5 DEF RegoService
<1> QED
  BY <1>3, <1>6 DEF s

\* The plans whose one step is wrong, and the valid one.
LEMMA StepsJudged ==
  /\ \A at : StepAccepted(ValidStep) /\ RegoStep(ValidStep, at, TRUE) = {}
  /\ LET t == [ValidGpuStep EXCEPT !.fallback_resource_class = "absent"]
     IN  StepAccepted(t) /\ \A at : RegoStep(t, at, TRUE) # {}
  /\ LET t == [ValidStep EXCEPT !.needs_acceleration = "true"]
     IN  StepAccepted(t) /\ \A at : RegoStep(t, at, TRUE) # {}
<1>1. \A t : /\ t.kind = "object" /\ t.extra = FALSE /\ t.image = "busybox"
             /\ t.name \in {"detect", "gpu-detect"} /\ t.resource_class \in Classes
             /\ t.fallback_resource_class = "absent" /\ t.needs_acceleration \in {"absent", "true", "false"}
             /\ t.metadata = "absent" /\ t.selector = "absent"
             => StepAccepted(t)
  BY DEF StepAccepted, IsObject, Text, IsString, NonStrings, Missing, Numbers, BlankToPython, OrAbsent, OrMissing
<1>2. StepAccepted(ValidStep) /\ \A at : RegoStep(ValidStep, at, TRUE) = {}
  BY <1>1 DEF ValidStep, Classes, RegoStep, IsObject, Accelerators, When, Missing
<1>3. LET t == [ValidGpuStep EXCEPT !.fallback_resource_class = "absent"]
      IN  StepAccepted(t) /\ \A at : RegoStep(t, at, TRUE) # {}
  <2> DEFINE t == [ValidGpuStep EXCEPT !.fallback_resource_class = "absent"]
  <2>1. /\ t.kind = "object" /\ t.extra = FALSE /\ t.image = "busybox" /\ t.name = "gpu-detect"
        /\ t.resource_class = "gpu" /\ t.fallback_resource_class = "absent" /\ t.needs_acceleration = "true"
        /\ t.metadata = "absent" /\ t.selector = "absent"
    BY DEF ValidGpuStep, ValidStep
  <2> HIDE DEF t
  <2>2. StepAccepted(t)
    BY <1>1, <2>1 DEF Classes, Accelerators
  <2>3. \A at : When(t.resource_class \in Accelerators /\ t.fallback_resource_class \in Missing, "4", at) # {}
    BY <2>1 DEF When, Accelerators, Missing
  <2> QED
    BY <2>1, <2>2, <2>3 DEF RegoStep, IsObject, t
<1>4. LET t == [ValidStep EXCEPT !.needs_acceleration = "true"]
      IN  StepAccepted(t) /\ \A at : RegoStep(t, at, TRUE) # {}
  <2> DEFINE t == [ValidStep EXCEPT !.needs_acceleration = "true"]
  <2>1. /\ t.kind = "object" /\ t.extra = FALSE /\ t.image = "busybox" /\ t.name = "detect"
        /\ t.resource_class = "cpu" /\ t.fallback_resource_class = "absent" /\ t.needs_acceleration = "true"
        /\ t.metadata = "absent" /\ t.selector = "absent"
    BY DEF ValidStep
  <2> HIDE DEF t
  <2>2. StepAccepted(t)
    BY <1>1, <2>1 DEF Classes
  <2>3. \A at : When(t.resource_class = "cpu" /\ t.needs_acceleration = "true", "6", at) # {}
    BY <2>1 DEF When
  <2> QED
    BY <2>1, <2>2, <2>3 DEF RegoStep, IsObject, t
<1> QED
  BY <1>2, <1>3, <1>4

\* The service of the corpus itself, and those that are wrong: two of them to the
\* policy alone, the one without steps to the schema too.
LEMMA ServicesJudged ==
  /\ ServiceAccepted(ValidService) /\ \A at : RegoService(ValidService, at, TRUE) = {}
  /\ LET s == [ValidService EXCEPT !.priority = "0"]
     IN  ServiceAccepted(s) /\ \A at : RegoService(s, at, TRUE) # {}
  /\ LET s == [ValidService EXCEPT !.landscape_type = "desert"]
     IN  ServiceAccepted(s) /\ \A at : RegoService(s, at, TRUE) # {}
  /\ LET s == [ValidService EXCEPT !.steps = ListOf(<<>>)]
     IN  ~ServiceAccepted(s) /\ \A at : RegoService(s, at, TRUE) # {}
<1>1. ValidService = [ValidService EXCEPT !.steps = ListOf(<<ValidStep>>)]
  <2> DEFINE v == ListOf(<<ValidStep>>)
  <2>1. ValidService = [x \in DOMAIN ValidService |-> ValidService[x]] /\ ValidService.steps = v
    BY DEF ValidService
  <2> HIDE DEF v
  <2> QED
    BY <2>1 DEF v
<1>2. ServiceAccepted(ValidService) /\ \A at : RegoService(ValidService, at, TRUE) = {}
  BY <1>1, OneStep, StepsJudged
<1>3. /\ ValidService.kind = "object" /\ ValidService.extra = FALSE /\ ValidService.service_id = "ship"
      /\ ValidService.priority = "30" /\ ValidService.landscape_type = "ocean"
      /\ ValidService.execution_mode = "sequential"
  BY DEF ValidService
<1>4. LET s == [ValidService EXCEPT !.priority = "0"]
      IN  ServiceAccepted(s) /\ \A at : RegoService(s, at, TRUE) # {}
  <2> DEFINE s == [ValidService EXCEPT !.priority = "0"]
  <2>1. /\ s.kind = "object" /\ s.extra = FALSE /\ s.service_id = ValidService.service_id /\ s.priority = "0"
        /\ s.landscape_type = ValidService.landscape_type /\ s.execution_mode = ValidService.execution_mode
        /\ s.steps = ValidService.steps
    BY <1>3 DEF ValidService
  <2> HIDE DEF s
  <2>2. ServiceAccepted(s)
    BY <1>2, <2>1 DEF ServiceAccepted, IsObject, NotNegative, Numbers, QuotedNumbers
  <2>3. \A at : When(s.priority = "0", "5", at) # {}
    BY <2>1 DEF When
  <2> QED
    BY <2>1, <2>2, <2>3 DEF RegoService, IsObject, s
<1>5. LET s == [ValidService EXCEPT !.landscape_type = "desert"]
      IN  ServiceAccepted(s) /\ \A at : RegoService(s, at, TRUE) # {}
  <2> DEFINE s == [ValidService EXCEPT !.landscape_type = "desert"]
  <2>1. /\ s.kind = "object" /\ s.extra = FALSE /\ s.service_id = ValidService.service_id
        /\ s.priority = ValidService.priority /\ s.landscape_type = "desert"
        /\ s.execution_mode = ValidService.execution_mode /\ s.steps = ValidService.steps
    BY <1>3 DEF ValidService
  <2> HIDE DEF s
  <2>2. IsString(s.landscape_type) /\ s.landscape_type \notin Landscapes
    BY <2>1 DEF IsString, NonStrings, Missing, Numbers, Landscapes
  <2>3. ServiceAccepted(s)
    BY <1>2, <2>1, <2>2 DEF ServiceAccepted, IsObject
  <2>4. \A at : When(IsString(s.landscape_type) /\ s.landscape_type \notin Landscapes, "10", at) # {}
    BY <2>2 DEF When
  <2> QED
    BY <2>1, <2>3, <2>4 DEF RegoService, IsObject, s
<1>6. LET s == [ValidService EXCEPT !.steps = ListOf(<<>>)]
      IN  ~ServiceAccepted(s) /\ \A at : RegoService(s, at, TRUE) # {}
  <2> DEFINE s == [ValidService EXCEPT !.steps = ListOf(<<>>)]
  <2>1. s.kind = "object" /\ s.steps.kind = "list" /\ s.steps.items = <<>>
    BY DEF ValidService, ListOf
  <2> HIDE DEF s
  <2>2. ~ServiceAccepted(s)
    BY <2>1 DEF ServiceAccepted
  <2>3. \A at : When(LenIsZero(s.steps), "9", at) # {}
    BY <2>1 DEF When, LenIsZero, IsList
  <2> QED
    BY <2>1, <2>2, <2>3 DEF RegoService, IsObject, s
<1> QED
  BY <1>2, <1>4, <1>5, <1>6

\* The acquisitions of the corpus: without an instrument, which the schema alone
\* asks for, and without services, which the policy alone asks for.
LEMMA AcquisitionsJudged ==
  /\ EventAccepted(ValidAcquisition) /\ RegoEvent(ValidAcquisition, <<1>>, TRUE) = {}
  /\ LET e == [ValidAcquisition EXCEPT !.instrument = "absent"]
     IN  ~EventAccepted(e) /\ RegoEvent(e, <<1>>, TRUE) = {}
  /\ LET e == [ValidAcquisition EXCEPT !.services = ListOf(<<>>)]
     IN  EventAccepted(e) /\ RegoEvent(e, <<1>>, TRUE) # {}
<1>1. ValidAcquisition = [ValidAcquisition EXCEPT !.services = ListOf(<<ValidService>>)]
  <2> DEFINE v == ListOf(<<ValidService>>)
  <2>1. ValidAcquisition = [x \in DOMAIN ValidAcquisition |-> ValidAcquisition[x]] /\ ValidAcquisition.services = v
    BY DEF ValidAcquisition
  <2> HIDE DEF v
  <2> QED
    BY <2>1 DEF v
<1>2. EventAccepted(ValidAcquisition) /\ RegoEvent(ValidAcquisition, <<1>>, TRUE) = {}
  BY <1>1, OneService, ServicesJudged
<1>3. LET e == [ValidAcquisition EXCEPT !.instrument = "absent"]
      IN  ~EventAccepted(e) /\ RegoEvent(e, <<1>>, TRUE) = {}
  <2> DEFINE e == [ValidAcquisition EXCEPT !.instrument = "absent"]
             v == ValidAcquisition
  <2>1. /\ e.kind = v.kind /\ e.event_type = v.event_type /\ e.instrument = "absent"
        /\ e.services = v.services /\ e.ground_visibility = v.ground_visibility
        /\ e.event_type = "acquisition"
    BY DEF ValidAcquisition
  <2> HIDE DEF e, v
  <2>2. ~EventAccepted(e)
    BY <2>1 DEF EventAccepted, AcquisitionComplete, Text, IsString, NonStrings, Missing
  <2>3. RegoEvent(e, <<1>>, TRUE) = RegoEvent(v, <<1>>, TRUE)
    BY <2>1 DEF RegoEvent, IsObject
  <2> QED
    BY <1>2, <2>2, <2>3 DEF e, v
<1>4. LET e == [ValidAcquisition EXCEPT !.services = ListOf(<<>>)]
      IN  EventAccepted(e) /\ RegoEvent(e, <<1>>, TRUE) # {}
  <2> DEFINE e == [ValidAcquisition EXCEPT !.services = ListOf(<<>>)]
  <2>1. /\ e.kind = "object" /\ e.extra = FALSE /\ e.event_type = "acquisition" /\ e.timestamp = "t0Z"
        /\ e.duration_seconds = "absent" /\ e.instrument = "MSI" /\ e.ground_visibility = "false"
        /\ e.services.kind = "list" /\ e.services.items = <<>> /\ DOMAIN <<>> = {}
    BY DEF ValidAcquisition, ListOf
  <2> HIDE DEF e
  <2>2. EventAccepted(e)
    BY <2>1
       DEF EventAccepted, IsObject, AsList, IsList, Zoned, OrMissing, OrAbsent, Missing, AcquisitionComplete, Text,
           IsString, NonStrings, Numbers, BlankToPython
  <2>3. When(e.event_type = "acquisition" /\ LenIsZero(e.services), "3", <<1>>) # {}
    BY <2>1 DEF When, LenIsZero, IsList
  <2> QED
    BY <2>1, <2>2, <2>3 DEF RegoEvent, IsObject, e
<1> QED
  BY <1>2, <1>3, <1>4

\* The downloads: without a duration, which the schema alone asks for, with a
\* service, and out of sight of the ground.
LEMMA DownloadsJudged ==
  /\ EventAccepted(ValidDownload) /\ \A at : RegoEvent(ValidDownload, at, TRUE) = {}
  /\ LET e == [ValidDownload EXCEPT !.duration_seconds = "absent"]
     IN  ~EventAccepted(e) /\ RegoEvent(e, <<1>>, TRUE) = {}
  /\ LET e == [ValidDownload EXCEPT !.services = ListOf(<<ValidService>>)]
     IN  ~EventAccepted(e) /\ RegoEvent(e, <<1>>, TRUE) # {}
  /\ LET e == [ValidDownload EXCEPT !.ground_visibility = "false"]
     IN  ~EventAccepted(e) /\ RegoEvent(e, <<1>>, TRUE) # {}
<1> DEFINE v == ValidDownload
<1>1. /\ v.kind = "object" /\ v.extra = FALSE /\ v.event_type = "download" /\ v.timestamp = "t10Z"
      /\ v.duration_seconds = "30" /\ v.instrument = "absent" /\ v.ground_visibility = "true"
      /\ v.services.kind = "absent" /\ v.services.items = <<>>
  BY DEF ValidDownload
<1> DEFINE unhurried == [v EXCEPT !.duration_seconds = "absent"]
           serving == [v EXCEPT !.services = ListOf(<<ValidService>>)]
           unseen == [v EXCEPT !.ground_visibility = "false"]
<1>2. /\ unhurried.kind = v.kind /\ unhurried.event_type = v.event_type /\ unhurried.duration_seconds = "absent"
      /\ unhurried.ground_visibility = v.ground_visibility /\ unhurried.services = v.services
  BY DEF ValidDownload
<1>3. /\ serving.kind = v.kind /\ serving.event_type = v.event_type
      /\ serving.services.kind = "list" /\ serving.services.items = <<ValidService>>
  BY DEF ValidDownload, ListOf
<1>4. unseen.kind = v.kind /\ unseen.event_type = v.event_type /\ unseen.ground_visibility = "false"
  BY DEF ValidDownload
<1>5. DOMAIN <<>> = {} /\ <<ValidService>> # <<>>
  OBVIOUS
<1> HIDE DEF v, unhurried, serving, unseen
<1>6. EventAccepted(v)
  BY <1>1, <1>5
     DEF EventAccepted, IsObject, AsList, IsList, Zoned, OrMissing, OrAbsent, Missing, DownloadComplete, NotNegative,
         Numbers, QuotedNumbers
<1>7. ASSUME NEW e, e.kind = v.kind, e.event_type = v.event_type,
             e.ground_visibility = v.ground_visibility, e.services = v.services
      PROVE  \A at : RegoEvent(e, at, TRUE) = {}
  <2> TAKE at
  <2>1. RegoItems(e.services) = <<>> /\ IsObject(e)
    BY <1>1, <1>7 DEF RegoItems, IsObject
  <2>2. /\ When(TRUE /\ NotAList(e.services), "services not a list", at) = {}
        /\ When(e.event_type = "acquisition" /\ LenIsZero(e.services), "3", at) = {}
        /\ When(e.event_type = "download" /\ LenIsPositive(e.services), "7", at) = {}
        /\ When(e.event_type = "download" /\ e.ground_visibility # "true", "8", at) = {}
    BY <1>1, <1>7 DEF When, NotAList, LenIsPositive, Missing, IsList
  <2>3. UNION {RegoService(RegoItems(e.services)[j], Append(at, j), IsList(e.services)) :
                 j \in DOMAIN RegoItems(e.services)} = {}
    BY <1>5, <2>1
  <2> QED
    BY <2>1, <2>2, <2>3 DEF RegoEvent
<1>8. ~EventAccepted(unhurried)
  BY <1>1, <1>2 DEF EventAccepted, DownloadComplete, Missing
<1>9. ~EventAccepted(serving) /\ RegoEvent(serving, <<1>>, TRUE) # {}
  <2>1. AsList(serving.services) # <<>> /\ LenIsPositive(serving.services)
    BY <1>3, <1>5 DEF AsList, IsList, LenIsPositive
  <2>2. ~EventAccepted(serving)
    BY <1>1, <1>3, <2>1 DEF EventAccepted, DownloadComplete
  <2>3. When(serving.event_type = "download" /\ LenIsPositive(serving.services), "7", <<1>>) # {}
    BY <1>1, <1>3, <2>1 DEF When
  <2> QED
    BY <1>1, <1>3, <2>2, <2>3 DEF RegoEvent, IsObject
<1>10. ~EventAccepted(unseen) /\ RegoEvent(unseen, <<1>>, TRUE) # {}
  <2>1. ~EventAccepted(unseen)
    BY <1>1, <1>4 DEF EventAccepted, DownloadComplete
  <2>2. When(unseen.event_type = "download" /\ unseen.ground_visibility # "true", "8", <<1>>) # {}
    BY <1>1, <1>4 DEF When
  <2> QED
    BY <1>1, <1>4, <2>1, <2>2 DEF RegoEvent, IsObject
<1> QED
  BY <1>2, <1>6, <1>7, <1>8, <1>9, <1>10 DEF v, unhurried, serving, unseen

\* What the table says of an entry of the corpus.
Judged(c) ==
  /\ SchemaDetects(CorpusPlan[c]) = (c \in SchemaOnly \cup Both)
  /\ PolicyDetects(CorpusPlan[c]) = (c \in PolicyOnly \cup Both)

\* The table is right about each of them.
LEMMA CorpusJudged == \A c \in DOMAIN CorpusPlan : Judged(c)
<1>1. \A s : /\ SchemaAccepts(WithServices(<<s>>)) <=> ServiceAccepted(s)
             /\ RegoViolations(WithServices(<<s>>)) = RegoService(s, Append(<<1>>, 1), TRUE)
  BY OneEvent, OneService DEF WithServices
<1>2. \A t : /\ SchemaAccepts(WithSteps(<<t>>)) <=> StepAccepted(t)
             /\ RegoViolations(WithSteps(<<t>>)) = RegoStep(t, Append(Append(<<1>>, 1), 1), TRUE)
  BY <1>1, OneStep DEF WithSteps
<1>3. CorpusPlan.valid = PlanOf(<<ValidAcquisition>>)
  BY DEF CorpusPlan, BasePlan
<1>4. Judged("valid")
  <2>1. SchemaAccepts(CorpusPlan.valid) /\ RegoViolations(CorpusPlan.valid) = {}
    BY <1>3, OneEvent, AcquisitionsJudged
  <2> QED
    BY <2>1 DEF Judged, SchemaDetects, PolicyDetects, SchemaOnly, PolicyOnly, Both
<1>5. Judged("valid_download")
  <2> DEFINE p == PlanOf(<<ValidAcquisition, ValidDownload>>)
             es == <<ValidAcquisition, ValidDownload>>
  <2>1. /\ p.extra = FALSE /\ p.mission_id = "ablation" /\ p.events.kind = "list" /\ p.events.items = es
        /\ DOMAIN es = {1, 2} /\ es[1] = ValidAcquisition /\ es[2] = ValidDownload /\ es # <<>>
    BY DEF PlanOf, ListOf
  <2> HIDE DEF p, es
  <2>2. SchemaAccepts(p)
    <3>1. \A i \in DOMAIN p.events.items : EventAccepted(p.events.items[i])
      BY <2>1, AcquisitionsJudged, DownloadsJudged
    <3> QED
      BY <2>1, <3>1 DEF SchemaAccepts, Text, IsString, NonStrings, Missing, Numbers, BlankToPython, IsList
  <2>3. RegoViolations(p) = {}
    <3>1. RegoItems(p.events) = es /\ IsList(p.events)
      BY <2>1 DEF RegoItems, IsList
    <3>2. /\ When(p.mission_id \in Missing \cup BlankToRego, "1", <<>>) = {}
          /\ When(LenIsZero(p.events), "2", <<>>) = {}
          /\ When(NotAList(p.events), "events not a list", <<>>) = {}
      BY <2>1 DEF When, Missing, BlankToRego, LenIsZero, NotAList, IsList
    <3>3. \A i \in DOMAIN es : RegoEvent(es[i], <<i>>, TRUE) = {}
      BY <2>1, AcquisitionsJudged, DownloadsJudged
    <3>4. UNION {RegoEvent(RegoItems(p.events)[i], <<i>>, IsList(p.events)) : i \in DOMAIN RegoItems(p.events)} = {}
      BY <3>1, <3>3
    <3> QED
      BY <3>2, <3>4 DEF RegoViolations
  <2>4. CorpusPlan.valid_download = p
    BY DEF CorpusPlan, p
  <2> QED
    BY <2>2, <2>3, <2>4 DEF Judged, SchemaDetects, PolicyDetects, SchemaOnly, PolicyOnly, Both
<1>6. Judged("acq_no_instrument") /\ Judged("download_no_duration")
  <2>1. /\ CorpusPlan.acq_no_instrument = PlanOf(<<[ValidAcquisition EXCEPT !.instrument = "absent"]>>)
        /\ CorpusPlan.download_no_duration = PlanOf(<<[ValidDownload EXCEPT !.duration_seconds = "absent"]>>)
    BY DEF CorpusPlan
  <2>2. /\ ~SchemaAccepts(CorpusPlan.acq_no_instrument) /\ RegoViolations(CorpusPlan.acq_no_instrument) = {}
        /\ ~SchemaAccepts(CorpusPlan.download_no_duration) /\ RegoViolations(CorpusPlan.download_no_duration) = {}
    BY <2>1, OneEvent, AcquisitionsJudged, DownloadsJudged
  <2> QED
    BY <2>2 DEF Judged, SchemaDetects, PolicyDetects, SchemaOnly, PolicyOnly, Both
<1>7. Judged("acq_no_services")
  <2>1. CorpusPlan.acq_no_services = PlanOf(<<[ValidAcquisition EXCEPT !.services = ListOf(<<>>)]>>)
    BY DEF CorpusPlan, WithServices
  <2>2. SchemaAccepts(CorpusPlan.acq_no_services) /\ RegoViolations(CorpusPlan.acq_no_services) # {}
    BY <2>1, OneEvent, AcquisitionsJudged
  <2> QED
    BY <2>2 DEF Judged, SchemaDetects, PolicyDetects, SchemaOnly, PolicyOnly, Both
<1>8. Judged("gpu_no_fallback") /\ Judged("cpu_acceleration")
  <2>1. /\ CorpusPlan.gpu_no_fallback = WithSteps(<<[ValidGpuStep EXCEPT !.fallback_resource_class = "absent"]>>)
        /\ CorpusPlan.cpu_acceleration = WithSteps(<<[ValidStep EXCEPT !.needs_acceleration = "true"]>>)
    BY DEF CorpusPlan
  <2>2. /\ SchemaAccepts(CorpusPlan.gpu_no_fallback) /\ RegoViolations(CorpusPlan.gpu_no_fallback) # {}
        /\ SchemaAccepts(CorpusPlan.cpu_acceleration) /\ RegoViolations(CorpusPlan.cpu_acceleration) # {}
    BY <1>2, <2>1, StepsJudged
  <2> QED
    BY <2>2 DEF Judged, SchemaDetects, PolicyDetects, SchemaOnly, PolicyOnly, Both
<1>9. Judged("zero_priority") /\ Judged("invalid_landscape")
  <2>1. /\ CorpusPlan.zero_priority = WithServices(<<[ValidService EXCEPT !.priority = "0"]>>)
        /\ CorpusPlan.invalid_landscape = WithServices(<<[ValidService EXCEPT !.landscape_type = "desert"]>>)
    BY DEF CorpusPlan
  <2>2. /\ SchemaAccepts(CorpusPlan.zero_priority) /\ RegoViolations(CorpusPlan.zero_priority) # {}
        /\ SchemaAccepts(CorpusPlan.invalid_landscape) /\ RegoViolations(CorpusPlan.invalid_landscape) # {}
    BY <1>1, <2>1, ServicesJudged
  <2> QED
    BY <2>2 DEF Judged, SchemaDetects, PolicyDetects, SchemaOnly, PolicyOnly, Both
<1>10. Judged("empty_mission_id")
  <2> DEFINE p == [BasePlan EXCEPT !.mission_id = "blank"]
  <2>1. p.mission_id = "blank"
    BY DEF BasePlan, PlanOf
  <2>2. CorpusPlan.empty_mission_id = p
    BY DEF CorpusPlan
  <2> HIDE DEF p
  <2>3. ~SchemaAccepts(p)
    BY <2>1 DEF SchemaAccepts, Text, BlankToPython
  <2>4. When(p.mission_id \in Missing \cup BlankToRego, "1", <<>>) # {}
    BY <2>1 DEF When, BlankToRego
  <2>5. RegoViolations(p) # {}
    BY <2>4 DEF RegoViolations
  <2> QED
    BY <2>2, <2>3, <2>5 DEF Judged, SchemaDetects, PolicyDetects, SchemaOnly, PolicyOnly, Both
<1>11. Judged("empty_events")
  <2> DEFINE p == PlanOf(<<>>)
  <2>1. p.events.kind = "list" /\ p.events.items = <<>>
    BY DEF PlanOf, ListOf
  <2>2. CorpusPlan.empty_events = p
    BY DEF CorpusPlan
  <2> HIDE DEF p
  <2>3. ~SchemaAccepts(p)
    BY <2>1 DEF SchemaAccepts
  <2>4. When(LenIsZero(p.events), "2", <<>>) # {}
    BY <2>1 DEF When, LenIsZero, IsList
  <2>5. RegoViolations(p) # {}
    BY <2>4 DEF RegoViolations
  <2> QED
    BY <2>2, <2>3, <2>5 DEF Judged, SchemaDetects, PolicyDetects, SchemaOnly, PolicyOnly, Both
<1>12. Judged("download_with_services") /\ Judged("download_no_visibility")
  <2>1. /\ CorpusPlan.download_with_services
             = PlanOf(<<[ValidDownload EXCEPT !.services = ListOf(<<ValidService>>)]>>)
        /\ CorpusPlan.download_no_visibility = PlanOf(<<[ValidDownload EXCEPT !.ground_visibility = "false"]>>)
    BY DEF CorpusPlan
  <2>2. /\ ~SchemaAccepts(CorpusPlan.download_with_services) /\ RegoViolations(CorpusPlan.download_with_services) # {}
        /\ ~SchemaAccepts(CorpusPlan.download_no_visibility) /\ RegoViolations(CorpusPlan.download_no_visibility) # {}
    BY <2>1, OneEvent, DownloadsJudged
  <2> QED
    BY <2>2 DEF Judged, SchemaDetects, PolicyDetects, SchemaOnly, PolicyOnly, Both
<1>13. Judged("service_no_steps")
  <2>1. CorpusPlan.service_no_steps = WithServices(<<[ValidService EXCEPT !.steps = ListOf(<<>>)]>>)
    BY DEF CorpusPlan, WithSteps
  <2>2. ~SchemaAccepts(CorpusPlan.service_no_steps) /\ RegoViolations(CorpusPlan.service_no_steps) # {}
    BY <1>1, <2>1, ServicesJudged
  <2> QED
    BY <2>2 DEF Judged, SchemaDetects, PolicyDetects, SchemaOnly, PolicyOnly, Both
<1>14. DOMAIN CorpusPlan =
         {"valid", "valid_download", "acq_no_instrument", "download_no_duration", "acq_no_services",
          "gpu_no_fallback", "zero_priority", "cpu_acceleration", "invalid_landscape", "empty_mission_id",
          "empty_events", "download_with_services", "download_no_visibility", "service_no_steps"}
  BY DEF CorpusPlan
<1> QED
  BY <1>4, <1>5, <1>6, <1>7, <1>8, <1>9, <1>10, <1>11, <1>12, <1>13, <1>14

\* A plan still called by the name of its entry is the plan of that entry, whose
\* layers are those of the table.
THEOREM LayersAlwaysRight == Spec => []LayersAreRight
<1> DEFINE Unedited == category # "edited" => category \in DOMAIN CorpusPlan /\ plan = CorpusPlan[category]
<1>1. Init => Unedited
  BY DEF Init
<1>2. Unedited /\ [Next]_vars => Unedited'
  BY DEF Next, AuthorEdits, vars
<1>3. Unedited => LayersAreRight
  BY CorpusJudged DEF LayersAreRight, Judged
<1> QED
  BY <1>1, <1>2, <1>3, PTL DEF Spec

-----------------------------------------------------------------------------
(***************************************************************************)
(* The windows of a plan.                                                  *)
(***************************************************************************)

\* The moments of a window are those from its opening until just before its closing.
LEMMA MomentsOfWindow ==
  ASSUME NEW e, Opens(e) \in Nat, Seconds(e.duration_seconds) \in 0..90
  PROVE  /\ Closes(e) \in Nat
         /\ \A x \in Nat : x \in Moments(e) <=> (Opens(e) <= x /\ x < Closes(e))
         /\ Moments(e) \subseteq Nat
<1> DEFINE opens == Opens(e)
           length == Seconds(e.duration_seconds)
<1>1. Closes(e) = opens + length
  BY DEF Closes, Opens
<1>2. Moments(e) = {opens + n : n \in {m \in 0..90 : opens + m < Closes(e)}}
  BY DEF Moments
<1> HIDE DEF opens, length
<1>3. opens \in Nat /\ length \in 0..90
  BY DEF opens, length
<1>4. ASSUME NEW x \in Nat
      PROVE  x \in Moments(e) <=> (opens <= x /\ x < Closes(e))
  <2>1. ASSUME x \in Moments(e) PROVE opens <= x /\ x < Closes(e)
    BY <2>1, <1>2, <1>3, <1>1
  <2>2. ASSUME opens <= x, x < Closes(e) PROVE x \in Moments(e)
    <3>1. x - opens \in 0..90 /\ opens + (x - opens) = x
      BY <2>2, <1>1, <1>3
    <3> QED
      BY <3>1, <2>2, <1>2
  <2> QED
    BY <2>1, <2>2
<1>5. Moments(e) \subseteq Nat
  BY <1>2, <1>3
<1> QED
  BY <1>1, <1>3, <1>4, <1>5 DEF opens

\* Two windows overlap when they share a moment, the later of the two openings.
LEMMA OverlapIsSharing ==
  ASSUME NEW a, NEW b,
         Opens(a) \in Nat, Seconds(a.duration_seconds) \in 0..90,
         Opens(b) \in Nat, Seconds(b.duration_seconds) \in 0..90
  PROVE  Overlap(a, b) <=> SharesMoment(a, b)
<1> DEFINE from == Later(Opens(a), Opens(b))
           until == Earlier(Closes(a), Closes(b))
<1>1. /\ from \in Nat /\ Opens(a) <= from /\ Opens(b) <= from
      /\ \A x \in Nat : (Opens(a) <= x /\ Opens(b) <= x) => from <= x
  BY DEF Later
<1>2. Closes(a) \in Nat /\ Closes(b) \in Nat
  BY MomentsOfWindow
<1>3. /\ until \in Nat
      /\ \A x \in Nat : x < until <=> (x < Closes(a) /\ x < Closes(b))
  BY <1>2 DEF Earlier
<1>4. Overlap(a, b) <=> from < until
  BY DEF Overlap
<1>5. SharesMoment(a, b) <=>
        \E x \in Nat : Opens(a) <= x /\ x < Closes(a) /\ Opens(b) <= x /\ x < Closes(b)
  BY MomentsOfWindow DEF SharesMoment
<1> HIDE DEF from, until
<1> QED
  BY <1>1, <1>2, <1>3, <1>4, <1>5

\* When an event of an accepted plan opens, and for how long.
LEMMA WindowsDumped ==
  ASSUME NEW e, EventAccepted(e), IsWindow(DumpEvent(e))
  PROVE  /\ Opens(DumpEvent(e)) \in Nat
         /\ Seconds(DumpEvent(e).duration_seconds) \in 0..90
<1>1. /\ DumpEvent(e).timestamp = e.timestamp
      /\ DumpEvent(e).duration_seconds = Unquoted(Default(e.duration_seconds, "null"))
  BY DEF DumpEvent
<1>2. e.timestamp \in Zoned /\ OrMissing(e.duration_seconds, NotNegative)
  BY DEF EventAccepted
<1>3. Opens(DumpEvent(e)) \in Nat
  BY <1>1, <1>2 DEF Opens, Start, Zoned
<1>4. DumpEvent(e).duration_seconds \in {"0", "10", "30", "60", "90"}
  BY <1>1, <1>2
     DEF IsWindow, OrMissing, Missing, NotNegative, Numbers, QuotedNumbers, Unquoted, Default
<1>5. Seconds(DumpEvent(e).duration_seconds) \in 0..90
  BY <1>4 DEF Seconds
<1> QED
  BY <1>3, <1>5

\* A conflict is reported for no two acquisitions but those that share a moment,
\* and for all of those, in a plan of any number of events.
THEOREM ConflictsAlwaysOverlap == Spec => []ConflictsAreOverlaps
<1>1. ConflictsAreOverlaps
  <2> SUFFICES ASSUME SchemaAccepts(plan)
               PROVE  LET d == Dump(plan)
                          at == {i \in DOMAIN d.events.items : d.events.items[i].event_type = "acquisition"}
                      IN  Conflicts(d) =
                            {w \in (at \ SkippedWindows(d)) \X (at \ SkippedWindows(d)) :
                               w[1] < w[2] /\ SharesMoment(d.events.items[w[1]], d.events.items[w[2]])}
    BY DEF ConflictsAreOverlaps
  <2> DEFINE d == Dump(plan)
             events == d.events.items
             at == {i \in DOMAIN events : events[i].event_type = "acquisition"}
             timed == {i \in DOMAIN events : IsWindow(events[i])}
  <2>1. at \ SkippedWindows(d) = timed
    BY DEF SkippedWindows, IsWindow
  <2>2. \A i \in DOMAIN events : \E e : EventAccepted(e) /\ events[i] = DumpEvent(e)
    <3>1. events = [i \in DOMAIN plan.events.items |-> DumpEvent(plan.events.items[i])]
      BY DEF Dump, ListOf
    <3>2. \A i \in DOMAIN plan.events.items : EventAccepted(plan.events.items[i])
      BY DEF SchemaAccepts
    <3> HIDE DEF events
    <3> QED
      BY <3>1, <3>2
  <2>3. Conflicts(d) = {w \in (DOMAIN events) \X (DOMAIN events) :
                          /\ w[1] < w[2]
                          /\ IsWindow(events[w[1]]) /\ IsWindow(events[w[2]])
                          /\ Overlap(events[w[1]], events[w[2]])}
    BY DEF Conflicts
  <2> HIDE DEF events, d
  <2>4. \A i \in timed : Opens(events[i]) \in Nat /\ Seconds(events[i].duration_seconds) \in 0..90
    BY <2>2, WindowsDumped
  <2>5. \A i, j \in timed : Overlap(events[i], events[j]) <=> SharesMoment(events[i], events[j])
    BY <2>4, OverlapIsSharing
  <2>6. Conflicts(d) = {w \in timed \X timed : w[1] < w[2] /\ SharesMoment(events[w[1]], events[w[2]])}
    <3>1. \A w : w \in (DOMAIN events) \X (DOMAIN events) /\ IsWindow(events[w[1]]) /\ IsWindow(events[w[2]])
                  <=> w \in timed \X timed
      OBVIOUS
    <3>2. \A w \in timed \X timed : Overlap(events[w[1]], events[w[2]]) <=> SharesMoment(events[w[1]], events[w[2]])
      BY <2>5
    <3> HIDE DEF timed
    <3> QED
      BY <2>3, <3>1, <3>2
  <2> QED
    BY <2>1, <2>6 DEF d, events
<1> QED
  BY <1>1, PTL

-----------------------------------------------------------------------------
(***************************************************************************)
(* The services of a plan and their intents.                               *)
(***************************************************************************)

\* An occurrence is the place of a service of an acquisition.
LEMMA OccurrencesArePlaces ==
  ASSUME NEW p, NEW o
  PROVE  o \in Occurrences(p) <=>
           \E i \in DOMAIN p.events.items :
             /\ p.events.items[i].event_type = "acquisition"
             /\ \E j \in DOMAIN p.events.items[i].services.items : o = <<i, j>>
<1> DEFINE events == p.events.items
           acquisitions == {i \in DOMAIN events : events[i].event_type = "acquisition"}
           At(i) == {<<i, j>> : j \in DOMAIN events[i].services.items}
<1>1. Occurrences(p) = UNION {At(i) : i \in acquisitions}
  BY DEF Occurrences
<1>2. o \in UNION {At(i) : i \in acquisitions} <=> \E i \in acquisitions : o \in At(i)
  <2> HIDE DEF At, acquisitions
  <2> QED
    OBVIOUS
<1>3. \A i : o \in At(i) <=> \E j \in DOMAIN events[i].services.items : o = <<i, j>>
  OBVIOUS
<1> QED
  BY <1>1, <1>2, <1>3

\* What stands at an occurrence of the dump of an accepted plan: the dump of an
\* acquisition and of a service of it, with its steps.
LEMMA OccurrencesDumped ==
  ASSUME NEW p, SchemaAccepts(p), PlanShaped(p), NEW o \in Occurrences(Dump(p))
  PROVE  /\ o = <<o[1], o[2]>> /\ o[1] \in Nat /\ o[2] \in Nat
         /\ EventAccepted(EventOf(p, o)) /\ ServiceAccepted(ServiceOf(p, o))
         /\ o[1] \in DOMAIN p.events.items /\ o[2] \in DOMAIN EventOf(p, o).services.items
         /\ IsList(EventOf(p, o).services) /\ EventOf(p, o).event_type = "acquisition"
         /\ EventOf(Dump(p), o) = DumpEvent(EventOf(p, o))
         /\ ServiceOf(Dump(p), o) = DumpService(ServiceOf(p, o))
         /\ IsSequence(ServiceOf(p, o).steps.items)
<1> DEFINE d == Dump(p)
<1>1. d.events.items = [i \in DOMAIN p.events.items |-> DumpEvent(p.events.items[i])]
  BY DEF Dump, ListOf
<1>2. \A i \in DOMAIN p.events.items :
        /\ d.events.items[i].event_type = p.events.items[i].event_type
        /\ d.events.items[i].services.items =
             [j \in DOMAIN AsList(p.events.items[i].services) |->
                DumpService(AsList(p.events.items[i].services)[j])]
  <2>1. \A e : /\ DumpEvent(e).event_type = e.event_type
                /\ DumpEvent(e).services.items =
                     [j \in DOMAIN AsList(e.services) |-> DumpService(AsList(e.services)[j])]
    BY DEF DumpEvent, ListOf
  <2> HIDE DEF d
  <2> QED
    BY <1>1, <2>1
<1>3. PICK i \in DOMAIN d.events.items :
        /\ d.events.items[i].event_type = "acquisition"
        /\ \E j \in DOMAIN d.events.items[i].services.items : o = <<i, j>>
  BY OccurrencesArePlaces
<1> HIDE DEF d
<1>4. i \in DOMAIN p.events.items
  BY <1>1, <1>3
<1>5. PICK j \in DOMAIN AsList(p.events.items[i].services) : o = <<i, j>>
  BY <1>2, <1>3, <1>4
<1>6. o = <<i, j>> /\ o[1] = i /\ o[2] = j
  BY <1>5
<1>7. EventOf(p, o) = p.events.items[i] /\ EventOf(d, o) = d.events.items[i]
  BY <1>6 DEF EventOf
<1>8. IsList(EventOf(p, o).services) /\ AsList(EventOf(p, o).services) = EventOf(p, o).services.items
  <2>1. CASE IsList(EventOf(p, o).services)
    BY <2>1 DEF AsList
  <2>2. CASE ~IsList(EventOf(p, o).services)
    <3>1. AsList(p.events.items[i].services) = <<>>
      BY <2>2, <1>7 DEF AsList
    <3>2. DOMAIN <<>> = {}
      OBVIOUS
    <3> QED
      BY <3>1, <3>2, <1>5
  <2> QED
    BY <2>1, <2>2
<1>9. EventAccepted(EventOf(p, o))
  BY <1>4, <1>7 DEF SchemaAccepts
<1>10. j \in DOMAIN EventOf(p, o).services.items
  BY <1>5, <1>7, <1>8
<1>11. ServiceOf(p, o) = EventOf(p, o).services.items[j]
  BY <1>6 DEF ServiceOf
<1>12. ServiceAccepted(ServiceOf(p, o))
  BY <1>8, <1>9, <1>10, <1>11 DEF EventAccepted
<1>13. EventOf(d, o) = DumpEvent(EventOf(p, o))
  BY <1>1, <1>4, <1>7
<1>14. ServiceOf(d, o) = DumpService(ServiceOf(p, o))
  <2>1. ServiceOf(d, o) = d.events.items[i].services.items[j]
    BY <1>6, <1>7 DEF ServiceOf
  <2>2. d.events.items[i].services.items[j] = DumpService(AsList(p.events.items[i].services)[j])
    BY <1>2, <1>4, <1>5
  <2> QED
    BY <2>1, <2>2, <1>7, <1>8, <1>11
<1>15. IsSequence(p.events.items) /\ ServicesShaped(p.events.items[i].services)
  BY <1>4 DEF PlanShaped, EventsShaped
<1>16. IsSequence(EventOf(p, o).services.items) /\ StepsShaped(ServiceOf(p, o).steps)
  BY <1>15, <1>7, <1>10, <1>11 DEF ServicesShaped
<1>17. \A x : IsSequence(x) => DOMAIN x \subseteq Nat
  BY LenProperties DEF IsSequence
<1>18. i \in Nat /\ j \in Nat
  BY <1>4, <1>10, <1>15, <1>16, <1>17
<1>19. IsSequence(ServiceOf(p, o).steps.items)
  BY <1>16 DEF StepsShaped
<1> QED
  BY <1>3, <1>4, <1>6, <1>7, <1>8, <1>9, <1>10, <1>12, <1>13, <1>14, <1>18, <1>19, <1>2 DEF d

\* The intent at an occurrence, and the dump of the step it has at each place.
LEMMA IntentsDumped ==
  ASSUME NEW p, SchemaAccepts(p), PlanShaped(p), NEW o \in Occurrences(Dump(p))
  PROVE  LET intent == Intents(Dump(p))[o]
             steps == ServiceOf(p, o).steps.items
         IN  /\ intent.name = WorkflowName(Dump(p), o)
             /\ intent.priority = Unquoted(ServiceOf(p, o).priority)
             /\ intent.steps = [k \in DOMAIN steps |-> DumpStep(steps[k])]
             /\ Len(steps) \in Nat /\ Len(steps) > 0 /\ DOMAIN intent.steps = 1..Len(steps)
<1> DEFINE service == ServiceOf(Dump(p), o)
           steps == ServiceOf(p, o).steps.items
<1>1. service = DumpService(ServiceOf(p, o)) /\ IsSequence(steps) /\ steps # <<>>
  BY OccurrencesDumped DEF ServiceAccepted
<1>2. service.priority = Unquoted(ServiceOf(p, o).priority)
      /\ service.steps.items = [k \in DOMAIN steps |-> DumpStep(steps[k])]
  BY <1>1 DEF DumpService, ListOf
<1>3. Intents(Dump(p))[o] =
        [name |-> WorkflowName(Dump(p), o), mission |-> Dump(p).mission_id,
         priority |-> service.priority,
         mode |-> service.execution_mode, steps |-> service.steps.items]
  BY DEF Intents
<1>4. Len(steps) \in Nat /\ Len(steps) > 0 /\ DOMAIN steps = 1..Len(steps)
  BY <1>1, LenProperties, EmptySeq DEF IsSequence
<1> HIDE DEF service, steps
<1> QED
  BY <1>2, <1>3, <1>4 DEF steps

\* What the baseline finds at a service is among what it finds in the plan.
LEMMA AdmittedPriorities ==
  ASSUME NEW p, SchemaAccepts(p), PlanShaped(p), BaselineViolations(Dump(p)) = {},
         NEW o \in Occurrences(Dump(p))
  PROVE  ServiceOf(Dump(p), o).priority # "0"
<1> DEFINE d == Dump(p)
           e == EventOf(d, o)
           s == ServiceOf(d, o)
           at == Append(<<o[1]>>, o[2])
<1>1. /\ e = DumpEvent(EventOf(p, o)) /\ s = DumpService(ServiceOf(p, o))
      /\ o[1] \in DOMAIN p.events.items /\ o[2] \in DOMAIN EventOf(p, o).services.items
      /\ IsList(EventOf(p, o).services)
  BY OccurrencesDumped
<1>2. IsObject(e) /\ IsList(e.services)
      /\ DOMAIN e.services.items = DOMAIN EventOf(p, o).services.items
  BY <1>1 DEF DumpEvent, ListOf, IsObject, IsList, AsList
<1>3. IsObject(s)
  BY <1>1 DEF DumpService, IsObject
<1>4. IsList(d.events) /\ o[1] \in DOMAIN d.events.items
  BY <1>1 DEF Dump, ListOf, IsList
<1>5. e = d.events.items[o[1]] /\ s = e.services.items[o[2]]
  BY DEF EventOf, ServiceOf
<1> HIDE DEF d, e, s, at
<1>6. d.events.kind \notin Missing
  BY <1>4 DEF IsList, Missing
<1>7. BaselineEvent(e, <<o[1]>>) \subseteq BaselineViolations(d)
  <2> DEFINE found == UNION {BaselineEvent(d.events.items[i], <<i>>) : i \in DOMAIN d.events.items}
  <2>1. found \subseteq BaselineViolations(d)
    BY <1>4, <1>6 DEF BaselineViolations
  <2>2. BaselineEvent(e, <<o[1]>>) \subseteq found
    BY <1>4, <1>5
  <2> QED
    BY <2>1, <2>2
<1>8. BaselineService(s, at) \subseteq BaselineEvent(e, <<o[1]>>)
  <2> DEFINE found == UNION {BaselineService(e.services.items[j], Append(<<o[1]>>, j)) :
                               j \in DOMAIN e.services.items}
  <2>1. AsList(e.services) = e.services.items
    BY <1>2 DEF AsList
  <2>2. found \subseteq BaselineEvent(e, <<o[1]>>)
    BY <1>2, <2>1 DEF BaselineEvent
  <2>3. BaselineService(s, at) \subseteq found
    BY <1>1, <1>2, <1>5 DEF at
  <2> QED
    BY <2>2, <2>3
<1>9. When(HasZeroPriority(s), "5", at) \subseteq BaselineService(s, at)
  BY <1>3 DEF BaselineService
<1>10. When(HasZeroPriority(s), "5", at) = {}
  BY <1>7, <1>8, <1>9 DEF d
<1> QED
  BY <1>10 DEF When, HasZeroPriority, s, d

\* The verdict keeps a priority of 0 from the renderers: a plan the policy admits,
\* whatever its services, steps and names, is rendered when its identifiers fit
\* into the annotations and refused when they do not.
THEOREM AdmittedAlwaysRender == Spec => []AdmittedPlansRender
<1>1. PlanShaped(plan) => AdmittedPlansRender
  <2> SUFFICES ASSUME PlanShaped(plan), SchemaAccepts(plan), BaselineViolations(Dump(plan)) = {}
               PROVE  Renders <=> \A n \in DOMAIN Compiled :
                                    ArgoFits(Compiled[n]) /\ KueueFits(Compiled[n])
    BY DEF AdmittedPlansRender
  <2>1. DOMAIN Compiled = Occurrences(Dump(plan))
    BY DEF Compiled, Intents
  <2>2. \A o \in DOMAIN Compiled : Compiled[o].priority = ServiceOf(Dump(plan), o).priority
    BY DEF Compiled, Intents
  <2>3. \A o \in DOMAIN Compiled : Compiled[o].priority # "0"
    BY <2>1, <2>2, AdmittedPriorities
  <2>4. \A o \in DOMAIN Compiled :
          /\ ArgoRaises(Compiled[o]) <=> ~ArgoFits(Compiled[o])
          /\ KueueRaises(Compiled[o]) <=> ~KueueFits(Compiled[o])
    BY <2>3 DEF ArgoRaises, KueueRaises
  <2> QED
    BY <2>4 DEF Renders
<1> QED
  BY <1>1, PlansKeepShape, PTL

\* The step a Job runs is one of its intent, and no step before another class runs
\* when there is one with a GPU.
LEMMA PrimaryIsAStep ==
  ASSUME NEW intent, NEW n \in Nat \ {0}, DOMAIN intent.steps = 1..n
  PROVE  /\ Primary(intent) \in DOMAIN intent.steps
         /\ (\E k \in DOMAIN intent.steps : IsGpu(intent.steps[k])) <=> IsGpu(intent.steps[Primary(intent)])
<1> DEFINE gpus == {k \in DOMAIN intent.steps : IsGpu(intent.steps[k])}
           fpgas == {k \in DOMAIN intent.steps : IsFpga(intent.steps[k])}
<1>1. Primary(intent) = IF gpus # {} THEN Min(gpus) ELSE IF fpgas # {} THEN Min(fpgas) ELSE 1
  BY DEF Primary, With
<1>2. gpus \in SUBSET Nat /\ fpgas \in SUBSET Nat
  OBVIOUS
<1>3. 1 \in DOMAIN intent.steps
  OBVIOUS
<1> HIDE DEF gpus, fpgas
<1>4. (gpus # {} => Min(gpus) \in gpus) /\ (fpgas # {} => Min(fpgas) \in fpgas)
  BY <1>2, LeastMember
<1>5. CASE gpus # {}
  BY <1>5, <1>1, <1>4 DEF gpus
<1>6. CASE gpus = {}
  <2>1. Primary(intent) \in DOMAIN intent.steps
    BY <1>6, <1>1, <1>3, <1>4 DEF fpgas
  <2> QED
    BY <1>6, <2>1 DEF gpus
<1> QED
  BY <1>5, <1>6

-----------------------------------------------------------------------------
(***************************************************************************)
(* The claims of a manifest.                                               *)
(***************************************************************************)

\* What ReferencesResolve says of a file.
Resolved(f) ==
  \A w \in f.workload :
    /\ \A c \in w.claims : \E t \in f.templates :
         /\ t.name = c /\ t.namespace = w.namespace
         /\ t.request = IF w.kind = "Job" THEN "exactly" ELSE "firstAvailable"
    /\ \A t \in f.templates : w.kind = "Workflow" => t.name \in w.claims

\* The claims of a Workflow's file are those its templates define.
LEMMA WorkflowsResolve ==
  ASSUME NEW intent, NEW namespace, NEW fallback \in BOOLEAN, NEW f \in ArgoFiles(intent, namespace, fallback)
  PROVE  Resolved(f)
<1> DEFINE t == Template(ClaimName(intent, "accel"), namespace, "scheduler", "firstAvailable")
           offered == IF fallback THEN FirstAvailable(intent, namespace) ELSE {}
<1>1. f = [file |-> <<intent.name, "">>, workload |-> {Workflow(intent, namespace, fallback)},
           templates |-> offered]
  BY DEF ArgoFiles
<1>2. offered = IF fallback /\ FallbackSteps(intent) # {} THEN {t} ELSE {}
  BY DEF FirstAvailable
<1>3. t.name = ClaimName(intent, "accel") /\ t.namespace = namespace /\ t.request = "firstAvailable"
  BY DEF Template
<1>4. LET w == Workflow(intent, namespace, fallback)
      IN  /\ w.kind = "Workflow" /\ w.namespace = namespace
          /\ w.claims = IF fallback /\ FallbackSteps(intent) # {} THEN {ClaimName(intent, "accel")} ELSE {}
  BY DEF Workflow
<1> HIDE DEF t, offered
<1>5. f.workload = {Workflow(intent, namespace, fallback)} /\ f.templates = offered
  BY <1>1
<1> QED
  BY <1>2, <1>3, <1>4, <1>5 DEF Resolved

\* So are those of the two files of a Job, for an intent of any number of steps.
LEMMA JobsResolve ==
  ASSUME NEW intent, NEW n \in Nat \ {0}, DOMAIN intent.steps = 1..n,
         NEW namespace, NEW fallback \in BOOLEAN, NEW f \in KueueFiles(intent, namespace, fallback)
  PROVE  Resolved(f)
<1> DEFINE t == Template(ClaimName(intent, "gpu"), namespace, "kueue", "exactly")
           all == ClaimTemplates(intent, namespace, fallback)
           scheduler == {u \in all : u.route = "scheduler"}
           w == Job(intent, namespace, fallback)
<1>1. \/ f = [file |-> <<intent.name, "kueue">>, workload |-> {w}, templates |-> all \ scheduler]
      \/ f = [file |-> <<intent.name, "scheduler-fallback">>, workload |-> {}, templates |-> scheduler]
  BY DEF KueueFiles
<1>2. IsGpu(intent.steps[Primary(intent)]) => t \in all
  <2>1. IsGpu(intent.steps[Primary(intent)]) => \E k \in DOMAIN intent.steps : IsGpu(intent.steps[k])
    BY PrimaryIsAStep
  <2> QED
    BY <2>1 DEF ClaimTemplates
<1>3. /\ t.name = ClaimName(intent, "gpu") /\ t.namespace = namespace /\ t.request = "exactly"
      /\ t.route # "scheduler"
  BY DEF Template
<1>4. /\ w.kind = "Job" /\ w.namespace = namespace
      /\ w.claims = IF IsGpu(intent.steps[Primary(intent)]) THEN {ClaimName(intent, "gpu")} ELSE {}
  BY DEF Job
<1> HIDE DEF t, all, w
<1>5. CASE f.workload = {}
  BY <1>5 DEF Resolved
<1>6. CASE f.workload = {w} /\ f.templates = all \ scheduler
  BY <1>2, <1>3, <1>4, <1>6 DEF Resolved
<1> QED
  BY <1>1, <1>5, <1>6

\* Whatever devices the steps of a service ask for and however the scheduler may
\* fall back, no workload is rendered whose claim the file beside it leaves
\* undefined, or defines as the wrong kind.
THEOREM ClaimsAlwaysResolve == Spec => []ReferencesResolve
<1>1. PlanShaped(plan) => ReferencesResolve
  <2> SUFFICES ASSUME PlanShaped(plan), Renders, NEW fallback \in BOOLEAN, NEW f \in AllFiles(fallback)
               PROVE  Resolved(f)
    BY DEF ReferencesResolve, Resolved
  <2>1. SchemaAccepts(plan)
    BY DEF Renders
  <2>2. PICK o \in DOMAIN Compiled : f \in FilesOf(o, fallback)
    BY DEF AllFiles
  <2>3. o \in Occurrences(Dump(plan))
    BY <2>2 DEF Compiled, Intents
  <2>4. PICK n \in Nat \ {0} : DOMAIN Compiled[o].steps = 1..n
    <3> DEFINE steps == ServiceOf(plan, o).steps.items
    <3>1. Len(steps) \in Nat /\ Len(steps) > 0 /\ DOMAIN Compiled[o].steps = 1..Len(steps)
      BY <2>1, <2>3, IntentsDumped DEF Compiled
    <3> QED
      BY <3>1
  <2>5. f \in ArgoFiles(Compiled[o], "ns", fallback) \/ f \in KueueFiles(Compiled[o], "ns", fallback)
    BY <2>2 DEF FilesOf
  <2> QED
    BY <2>4, <2>5, WorkflowsResolve, JobsResolve
<1> QED
  BY <1>1, PlansKeepShape, PTL

-----------------------------------------------------------------------------
(***************************************************************************)
(* Names.                                                                  *)
(***************************************************************************)

\* Every identifier leaves some parts, maybe none, and no two numbers are written
\* alike: sanitize_k8s_name makes a string of any string, and str() a numeral of
\* any number.
PartsAreSequences == \A x : IsSequence(Parts(x))
NumeralsTell == \A m, n \in Nat : Numeral(m) = Numeral(n) => m = n

\* No two steps of a workflow have one task name: the name begins with the index
\* of the step, and so does the text a long name's digest is made from.
LEMMA TaskNamesTell ==
  ASSUME PartsAreSequences, NumeralsTell,
         NEW intent, NEW k \in Nat, NEW l \in Nat, TaskName(intent, k) = TaskName(intent, l)
  PROVE  k = l
<1> DEFINE parts(n) == <<"step", Numeral(n)>> \o Parts(intent.steps[n].name)
           text(n) == <<Numeral(n), intent.steps[n].name>>
<1>1. \A n : IsSequence(parts(n)) /\ Len(parts(n)) >= 2 /\ parts(n)[2] = Numeral(n)
  <2> TAKE n
  <2> DEFINE head == <<"step", Numeral(n)>>
             tail == Parts(intent.steps[n].name)
  <2>1. IsSequence(head) /\ Len(head) = 2 /\ head[2] = Numeral(n)
    BY Literals
  <2>2. IsSequence(tail)
    BY DEF PartsAreSequences
  <2> HIDE DEF head, tail
  <2>3. /\ IsSequence(head \o tail) /\ Len(tail) \in Nat /\ Len(head \o tail) = 2 + Len(tail)
        /\ (head \o tail)[2] = Numeral(n)
    <3>1. /\ IsSequence(head \o tail) /\ Len(tail) \in Nat /\ Len(head \o tail) = Len(head) + Len(tail)
          /\ \A i \in 1..Len(head) : (head \o tail)[i] = head[i]
      BY <2>1, <2>2, Joined
    <3>2. 2 \in 1..Len(head)
      BY <2>1
    <3> QED
      BY <3>1, <3>2, <2>1
  <2>4. Len(head \o tail) >= 2
    BY <2>3
  <2>5. parts(n) = head \o tail
    BY DEF head, tail
  <2> HIDE DEF parts
  <2> QED
    BY <2>3, <2>4, <2>5
<1>2. \A n : TaskName(intent, n) = ResistantName(parts(n), text(n), MaxParts)
  BY DEF TaskName
<1>3. \A n : text(n) # <<>> /\ text(n)[1] = Numeral(n)
  BY Literals
<1> HIDE DEF parts, text
<1>4. \A n : /\ TaskName(intent, n).parts = parts(n) /\ TaskName(intent, n).digest = <<>>
             \/ TaskName(intent, n).digest = text(n)
  BY <1>2 DEF ResistantName
<1>5. Numeral(k) = Numeral(l)
  BY <1>1, <1>3, <1>4
<1> QED
  BY <1>5 DEF NumeralsTell

\* For a service of any number of steps: each is run, in its order where there is
\* one, and a Job leaves out no step it does not report.
THEOREM StepsAlwaysAccountedFor ==
  ASSUME PartsAreSequences, NumeralsTell
  PROVE  Spec => []StepsAccountedFor
<1>1. PlanShaped(plan) => StepsAccountedFor
  <2> SUFFICES ASSUME PlanShaped(plan), Renders, NEW o \in DOMAIN Compiled
               PROVE  LET intent == Compiled[o]
                          w == Workflow(intent, "ns", FALSE)
                          job == Job(intent, "ns", FALSE)
                      IN  /\ DOMAIN w.tasks = DOMAIN intent.steps
                          /\ \A k \in DOMAIN w.tasks :
                               Before(w, k) = IF intent.mode = "sequential" /\ k > 1 THEN {k - 1} ELSE {}
                          /\ job.reported \cup {job.runs} = DOMAIN intent.steps
                          /\ job.runs \notin job.reported
                          /\ (\E s \in job.reported : intent.steps[s].resource_class = "gpu") =>
                               intent.steps[job.runs].resource_class = "gpu"
    BY DEF StepsAccountedFor
  <2> DEFINE intent == Compiled[o]
             w == Workflow(intent, "ns", FALSE)
             job == Job(intent, "ns", FALSE)
  <2>1. PICK n \in Nat \ {0} : DOMAIN intent.steps = 1..n
    <3> DEFINE steps == ServiceOf(plan, o).steps.items
    <3>1. SchemaAccepts(plan) /\ o \in Occurrences(Dump(plan))
      BY DEF Renders, Compiled, Intents
    <3>2. Len(steps) \in Nat /\ Len(steps) > 0 /\ DOMAIN intent.steps = 1..Len(steps)
      BY <3>1, IntentsDumped DEF Compiled
    <3> QED
      BY <3>2
  <2> HIDE DEF intent
  <2>2. w.tasks = [k \in DOMAIN intent.steps |->
                     [name |-> TaskName(intent, k), depends |-> Depends(intent, k)]]
    BY DEF Workflow
  <2>3. job.reported = DOMAIN intent.steps \ {Primary(intent)} /\ job.runs = Primary(intent)
    BY DEF Job, Dropped
  <2> HIDE DEF w, job
  <2>4. ASSUME NEW k \in DOMAIN w.tasks
        PROVE  Before(w, k) = IF intent.mode = "sequential" /\ k > 1 THEN {k - 1} ELSE {}
    <3>1. k \in 1..n /\ DOMAIN w.tasks = 1..n
      BY <2>1, <2>2
    <3>2. Before(w, k) = {l \in 1..n : TaskName(intent, l) \in Depends(intent, k)}
      BY <2>1, <2>2, <3>1 DEF Before
    <3>3. CASE ~(intent.mode = "sequential" /\ k > 1)
      BY <3>2, <3>3 DEF Depends
    <3>4. CASE intent.mode = "sequential" /\ k > 1
      <4>1. k - 1 \in 1..n
        BY <3>1, <3>4
      <4>2. \A l \in 1..n : TaskName(intent, l) = TaskName(intent, k - 1) <=> l = k - 1
        BY <4>1, TaskNamesTell
      <4>3. Before(w, k) = {l \in 1..n : TaskName(intent, l) = TaskName(intent, k - 1)}
        BY <3>2, <3>4 DEF Depends
      <4> QED
        BY <4>1, <4>2, <4>3, <3>4
    <3> QED
      BY <3>3, <3>4
  <2>5. /\ Primary(intent) \in DOMAIN intent.steps
        /\ (\E k \in DOMAIN intent.steps : intent.steps[k].resource_class = "gpu")
             <=> intent.steps[Primary(intent)].resource_class = "gpu"
    BY <2>1, PrimaryIsAStep DEF IsGpu
  <2>6. job.reported \cup {job.runs} = DOMAIN intent.steps /\ job.runs \notin job.reported
    BY <2>3, <2>5
  <2> QED
    BY <2>2, <2>3, <2>4, <2>5, <2>6 DEF intent, w, job
<1> QED
  BY <1>1, PlansKeepShape, PTL

\* A timestamp with the number of a repetition behind it is no timestamp: isoformat
\* ends one in its seconds and a "Z", or in the minutes of its offset, which two
\* other fields of two digits stand before.
TimestampsTell ==
  \A t, u \in Zoned : \A n \in Nat : n > 1 =>
    \A x, y : (IsSequence(x) /\ IsSequence(y)) =>
      (x \o Parts(t)) \o <<Numeral(n)>> # y \o Parts(u)

\* A name as ResistantName makes it: whole, or cut with the digest of what it was.
WellNamed(name) ==
  /\ name = [parts |-> name.parts, digest |-> name.digest]
  /\ IsSequence(name.parts) /\ IsSequence(name.digest)
  /\ \/ name.digest = <<>> /\ Len(name.parts) <= MaxParts
     \/ Len(name.digest) >= 3 /\ Len(name.parts) = MaxParts - 1

\* What ResistantName makes of parts and of the text their digest is made from.
LEMMA NamesWellMade ==
  ASSUME NEW parts, IsSequence(parts), NEW text, IsSequence(text), Len(text) >= 3
  PROVE  LET name == ResistantName(parts, text, MaxParts)
         IN  /\ WellNamed(name)
             /\ Len(parts) <= MaxParts => name.parts = parts /\ name.digest = <<>>
             /\ ~(Len(parts) <= MaxParts) =>
                  name.parts = SubSeq(parts, 1, MaxParts - 1) /\ name.digest = text
<1> DEFINE name == ResistantName(parts, text, MaxParts)
<1>1. MaxParts - 1 \in Nat /\ Len(parts) \in Nat
  BY MaxPartsAssumption, LenProperties DEF IsSequence
<1>2. CASE Len(parts) <= MaxParts
  <2>1. name = [parts |-> parts, digest |-> <<>>]
    BY <1>2 DEF ResistantName
  <2>2. name.parts = parts /\ name.digest = <<>> /\ name = [parts |-> name.parts, digest |-> name.digest]
    BY <2>1
  <2> HIDE DEF name
  <2>3. IsSequence(name.parts) /\ IsSequence(name.digest) /\ Len(name.parts) <= MaxParts
    <3>1. IsSequence(<<>>)
      BY Literals
    <3> QED
      BY <1>2, <2>2, <3>1
  <2>4. WellNamed(name)
    BY <2>2, <2>3 DEF WellNamed
  <2> QED
    BY <1>2, <2>2, <2>4 DEF name
<1>3. CASE ~(Len(parts) <= MaxParts)
  <2> DEFINE short == SubSeq(parts, 1, MaxParts - 1)
  <2>1. name = [parts |-> short, digest |-> text]
    BY <1>3 DEF ResistantName
  <2> HIDE DEF short
  <2>2. /\ name.parts = short /\ name.digest = text
        /\ name = [parts |-> name.parts, digest |-> name.digest]
    BY <2>1
  <2>3. MaxParts - 1 <= Len(parts)
    BY <1>1, <1>3, MaxPartsAssumption
  <2>4. IsSequence(short) /\ Len(short) = MaxParts - 1
    BY <1>1, <2>3, Shortened DEF short
  <2> HIDE DEF name
  <2>5. WellNamed(name)
    BY <2>2, <2>4 DEF WellNamed
  <2> QED
    BY <1>3, <2>2, <2>5 DEF name, short
<1> QED
  BY <1>2, <1>3

\* The three things that become of a name with more behind it, told apart by the
\* length of what its digest was made from.
LEMMA ExtendedForms ==
  ASSUME NEW name, WellNamed(name), NEW more, IsSequence(more), Len(more) >= 1
  PROVE  LET longer == Extended(name, more, MaxParts)
         IN  /\ WellNamed(longer)
             /\ \/ /\ name.digest = <<>> /\ longer.digest = <<>>
                   /\ longer.parts = name.parts \o more
                \/ /\ name.digest = <<>> /\ longer.digest = name.parts \o more
                   /\ Len(longer.digest) > MaxParts
                   /\ Len(longer.digest) <= MaxParts + Len(more)
                \/ /\ Len(name.digest) >= 3 /\ Len(name.parts) = MaxParts - 1
                   /\ longer.digest = (name.parts \o name.digest) \o more
                   /\ longer.parts = name.parts
                   /\ Len(longer.digest) > MaxParts + Len(more)
<1> DEFINE longer == Extended(name, more, MaxParts)
           whole == name.parts \o more
           text == (name.parts \o name.digest) \o more
<1>1. /\ IsSequence(name.parts) /\ IsSequence(name.digest)
      /\ Len(name.parts) \in Nat /\ Len(name.digest) \in Nat /\ Len(more) \in Nat
  BY LenProperties DEF WellNamed, IsSequence
<1>2. IsSequence(text) /\ Len(text) = Len(name.parts) + Len(name.digest) + Len(more)
  <2>1. IsSequence(name.parts \o name.digest)
        /\ Len(name.parts \o name.digest) = Len(name.parts) + Len(name.digest)
    BY <1>1, Joined
  <2> QED
    BY <1>1, <2>1, Joined
<1>3. CASE name.digest = <<>>
  <2>1. name.parts \o <<>> = name.parts
    BY <1>1, ConcatEmptySeq DEF IsSequence
  <2>2. longer = ResistantName(whole, whole, MaxParts)
    BY <1>3, <2>1 DEF Extended
  <2>3. IsSequence(whole) /\ Len(whole) = Len(name.parts) + Len(more) /\ Len(name.parts) <= MaxParts
    BY <1>1, <1>3, Joined, Literals DEF WellNamed
  <2> HIDE DEF longer, whole
  <2>4. CASE Len(whole) <= MaxParts
    <3>1. longer = [parts |-> whole, digest |-> <<>>]
      BY <2>2, <2>4 DEF ResistantName
    <3>2. longer.parts = whole /\ longer.digest = <<>>
          /\ longer = [parts |-> longer.parts, digest |-> longer.digest]
      BY <3>1
    <3>3. WellNamed(longer)
      BY <2>3, <2>4, <3>2, Literals DEF WellNamed
    <3> QED
      BY <1>3, <3>2, <3>3 DEF longer, whole
  <2>5. CASE ~(Len(whole) <= MaxParts)
    <3>1. Len(whole) >= 3 /\ Len(whole) > MaxParts /\ Len(whole) <= MaxParts + Len(more)
      BY <1>1, <2>3, <2>5, MaxPartsAssumption
    <3>2. WellNamed(longer) /\ longer.digest = whole
      BY <2>2, <2>3, <2>5, <3>1, NamesWellMade
    <3> QED
      BY <1>3, <3>1, <3>2 DEF longer, whole
  <2> QED
    BY <2>4, <2>5
<1>4. CASE name.digest # <<>>
  <2>1. Len(name.digest) >= 3 /\ Len(name.parts) = MaxParts - 1
    BY <1>4 DEF WellNamed
  <2> DEFINE all == (name.parts \o <<"digest">>) \o more
  <2>2. longer = ResistantName(all, text, MaxParts)
    BY <1>4 DEF Extended
  <2>3. /\ IsSequence(all) /\ Len(all) = Len(name.parts) + 1 + Len(more)
        /\ \A i \in 1..Len(name.parts) : all[i] = name.parts[i]
    <3>1. /\ IsSequence(name.parts \o <<"digest">>)
          /\ Len(name.parts \o <<"digest">>) = Len(name.parts) + 1
          /\ \A i \in 1..Len(name.parts) : (name.parts \o <<"digest">>)[i] = name.parts[i]
      BY <1>1, Joined, Literals
    <3>2. /\ IsSequence(all)
          /\ Len(all) = Len(name.parts \o <<"digest">>) + Len(more)
          /\ \A i \in 1..Len(name.parts \o <<"digest">>) : all[i] = (name.parts \o <<"digest">>)[i]
      BY <1>1, <3>1, Joined
    <3>3. \A i \in 1..Len(name.parts) : i \in 1..Len(name.parts \o <<"digest">>)
      BY <1>1, <3>1
    <3> HIDE DEF all
    <3> QED
      BY <3>1, <3>2, <3>3
  <2> HIDE DEF all, longer, text
  <2>4. ~(Len(all) <= MaxParts) /\ Len(text) >= 3 /\ Len(text) > MaxParts + Len(more)
    BY <1>1, <1>2, <2>1, <2>3, MaxPartsAssumption
  <2>5. WellNamed(longer) /\ longer.digest = text /\ longer.parts = SubSeq(all, 1, MaxParts - 1)
    BY <1>2, <2>2, <2>3, <2>4, NamesWellMade
  <2>6. SubSeq(all, 1, MaxParts - 1) = name.parts
    <3>1. MaxParts - 1 \in Nat /\ MaxParts - 1 <= Len(all)
      BY <1>1, <2>1, <2>3, MaxPartsAssumption
    <3>2. /\ IsSequence(SubSeq(all, 1, MaxParts - 1)) /\ Len(SubSeq(all, 1, MaxParts - 1)) = MaxParts - 1
          /\ \A i \in 1..(MaxParts - 1) : SubSeq(all, 1, MaxParts - 1)[i] = all[i]
      BY <2>3, <3>1, Shortened
    <3>3. \A i \in 1..(MaxParts - 1) : SubSeq(all, 1, MaxParts - 1)[i] = name.parts[i]
      BY <2>1, <2>3, <3>2
    <3> QED
      BY <1>1, <2>1, <3>2, <3>3, SameSequence
  <2> QED
    BY <2>1, <2>4, <2>5, <2>6 DEF longer, text
<1> QED
  BY <1>3, <1>4

\* Names with equally much behind them are alike only if all of it is: a longer
\* name gives back the name it was made from and what was put behind it.
LEMMA ExtendedTells ==
  ASSUME NEW a, WellNamed(a), NEW b, WellNamed(b),
         NEW x, NEW y, IsSequence(x), IsSequence(y), Len(x) = Len(y), Len(x) >= 1,
         Extended(a, x, MaxParts) = Extended(b, y, MaxParts)
  PROVE  a = b /\ x = y
<1> DEFINE longer == Extended(a, x, MaxParts)
<1>1. /\ a = [parts |-> a.parts, digest |-> a.digest] /\ b = [parts |-> b.parts, digest |-> b.digest]
      /\ IsSequence(a.parts) /\ IsSequence(b.parts) /\ IsSequence(a.digest) /\ IsSequence(b.digest)
  BY DEF WellNamed
<1>2. \/ a.digest = <<>> /\ longer.digest = <<>> /\ longer.parts = a.parts \o x
      \/ /\ a.digest = <<>> /\ longer.digest = a.parts \o x
         /\ Len(longer.digest) > MaxParts /\ Len(longer.digest) <= MaxParts + Len(x)
      \/ /\ Len(a.digest) >= 3 /\ Len(a.parts) = MaxParts - 1
         /\ longer.digest = (a.parts \o a.digest) \o x /\ longer.parts = a.parts
         /\ Len(longer.digest) > MaxParts + Len(x)
  BY ExtendedForms
<1>3. \/ b.digest = <<>> /\ longer.digest = <<>> /\ longer.parts = b.parts \o y
      \/ /\ b.digest = <<>> /\ longer.digest = b.parts \o y
         /\ Len(longer.digest) > MaxParts /\ Len(longer.digest) <= MaxParts + Len(x)
      \/ /\ Len(b.digest) >= 3 /\ Len(b.parts) = MaxParts - 1
         /\ longer.digest = (b.parts \o b.digest) \o y /\ longer.parts = b.parts
         /\ Len(longer.digest) > MaxParts + Len(x)
  <2>1. longer = Extended(b, y, MaxParts) /\ Len(y) >= 1
    OBVIOUS
  <2> HIDE DEF longer
  <2> QED
    BY <2>1, ExtendedForms
<1> HIDE DEF longer
<1>4. Len(<<>>) = 0 /\ IsSequence(longer.digest) /\ Len(longer.digest) \in Nat /\ Len(x) \in Nat
  <2>1. IsSequence(longer.digest)
    BY ExtendedForms DEF WellNamed, longer
  <2> QED
    BY <2>1, Literals, LenProperties DEF IsSequence
<1>5. CASE longer.digest = <<>>
  <2>0. ~(Len(longer.digest) > MaxParts) /\ ~(Len(longer.digest) > MaxParts + Len(x))
    BY <1>4, <1>5, MaxPartsAssumption
  <2>1. a.digest = <<>> /\ b.digest = <<>> /\ a.parts \o x = b.parts \o y
    BY <1>2, <1>3, <2>0
  <2>2. a.parts = b.parts /\ x = y
    BY <1>1, <2>1, SplitSame
  <2> QED
    BY <1>1, <2>1, <2>2
<1>6. CASE longer.digest # <<>> /\ Len(longer.digest) <= MaxParts + Len(x)
  <2>0. ~(Len(longer.digest) > MaxParts + Len(x))
    BY <1>4, <1>6, MaxPartsAssumption
  <2>1. a.digest = <<>> /\ b.digest = <<>> /\ a.parts \o x = b.parts \o y
    BY <1>2, <1>3, <1>6, <2>0
  <2>2. a.parts = b.parts /\ x = y
    BY <1>1, <2>1, SplitSame
  <2> QED
    BY <1>1, <2>1, <2>2
<1>7. CASE Len(longer.digest) > MaxParts + Len(x)
  <2>0. longer.digest # <<>> /\ ~(Len(longer.digest) <= MaxParts + Len(x))
    BY <1>4, <1>7, MaxPartsAssumption
  <2>1. /\ (a.parts \o a.digest) \o x = (b.parts \o b.digest) \o y /\ a.parts = b.parts
    BY <1>2, <1>3, <2>0
  <2>2. a.parts = b.parts /\ (a.parts \o a.digest) \o x = (a.parts \o b.digest) \o y
    BY <2>1
  <2>3. PICK p, q : p = a.parts \o a.digest /\ q = a.parts \o b.digest
    OBVIOUS
  <2>4. /\ IsSequence(p) /\ IsSequence(q) /\ IsSequence(x) /\ IsSequence(y)
        /\ p \o x = q \o y /\ Len(x) = Len(y)
    BY <1>1, <2>2, <2>3, Joined
  <2>5. p = q
    BY ONLY <2>4, SplitSame
  <2>6. x = y
    BY <2>4, <2>5, SplitBehind
  <2>7. a.digest = b.digest
    BY <1>1, <2>3, <2>5, SplitBehind
  <2> QED
    BY <1>1, <2>2, <2>6, <2>7
<1> QED
  BY <1>4, <1>5, <1>6, <1>7, MaxPartsAssumption

\* The parts a name is made of before anything is cut or counted.
IdentityOf(p, o) == Parts(p.mission_id) \o Parts(ServiceOf(p, o).service_id)
TimeOf(p, o) == EventOf(p, o).timestamp

\* A canonical name is whole, and all the identity and the time, or has a digest
\* made from three identifiers.
LEMMA CanonicalForms ==
  ASSUME PartsAreSequences, NEW p, NEW o
  PROVE  /\ IsSequence(IdentityOf(p, o)) /\ IsSequence(Parts(TimeOf(p, o)))
         /\ WellNamed(CanonicalName(p, o))
         /\ \/ /\ CanonicalName(p, o).digest = <<>>
               /\ CanonicalName(p, o).parts = IdentityOf(p, o) \o Parts(TimeOf(p, o))
            \/ Len(CanonicalName(p, o).digest) = 3
<1> DEFINE parts == IdentityOf(p, o) \o Parts(TimeOf(p, o))
           text == <<p.mission_id, ServiceOf(p, o).service_id, TimeOf(p, o)>>
<1>1. IsSequence(IdentityOf(p, o)) /\ IsSequence(Parts(TimeOf(p, o)))
  BY Joined DEF PartsAreSequences, IdentityOf
<1>2. IsSequence(parts)
  BY <1>1, Joined
<1>3. IsSequence(text) /\ Len(text) = 3
  BY Literals
<1>4. CanonicalName(p, o) = ResistantName(parts, text, MaxParts)
  BY DEF CanonicalName, IdentityOf, TimeOf
<1> HIDE DEF text, parts
<1>5. Len(text) >= 3
  BY <1>3
<1>6. /\ WellNamed(CanonicalName(p, o))
      /\ \/ CanonicalName(p, o).digest = <<>> /\ CanonicalName(p, o).parts = parts
         \/ CanonicalName(p, o).digest = text
  <2> DEFINE name == ResistantName(parts, text, MaxParts)
  <2>1. /\ WellNamed(name)
        /\ Len(parts) <= MaxParts => name.parts = parts /\ name.digest = <<>>
        /\ ~(Len(parts) <= MaxParts) => name.digest = text
    BY <1>2, <1>3, <1>5, NamesWellMade
  <2> HIDE DEF name
  <2>2. CASE Len(parts) <= MaxParts
    BY <1>4, <2>1, <2>2 DEF name
  <2>3. CASE ~(Len(parts) <= MaxParts)
    BY <1>4, <2>1, <2>3 DEF name
  <2> QED
    BY <2>2, <2>3
<1> QED
  BY <1>1, <1>3, <1>6 DEF parts

\* A plan has finitely many services, so those before one can be counted.
LEMMA OccurrencesFinite ==
  ASSUME NEW p, SchemaAccepts(p), PlanShaped(p)
  PROVE  IsFiniteSet(Occurrences(Dump(p)))
<1> DEFINE items == Dump(p).events.items
           D(i) == DOMAIN items[i].services.items
           at == [i \in DOMAIN items |-> {i} \X D(i)]
           family == {at[i] : i \in DOMAIN items}
<1>1. \A x : IsSequence(x) => IsFiniteSet(DOMAIN x)
  <2> TAKE x
  <2> HAVE IsSequence(x)
  <2>1. Len(x) \in Nat /\ DOMAIN x = 1..Len(x)
    BY LenProperties DEF IsSequence
  <2> QED
    BY <2>1, FS_Interval
<1>2. items = [i \in DOMAIN p.events.items |-> DumpEvent(p.events.items[i])]
  BY DEF Dump, ListOf
<1>3. \A i \in DOMAIN p.events.items : IsSequence(AsList(p.events.items[i].services))
  <2>1. IsSequence(<<>>)
    BY Literals
  <2>2. \A i \in DOMAIN p.events.items : IsSequence(p.events.items[i].services.items)
    BY DEF PlanShaped, EventsShaped, ServicesShaped
  <2> QED
    BY <2>1, <2>2 DEF AsList
<1>4. \A e : DOMAIN DumpEvent(e).services.items = DOMAIN AsList(e.services)
  BY DEF DumpEvent, ListOf
<1>5. IsFiniteSet(DOMAIN items) /\ \A i \in DOMAIN items : IsFiniteSet(D(i))
  <2>1. IsFiniteSet(DOMAIN p.events.items)
    BY <1>1 DEF PlanShaped, EventsShaped
  <2> HIDE DEF items
  <2> QED
    BY <1>1, <1>2, <1>3, <1>4, <2>1
<1> HIDE DEF items, D
<1>6. \A i \in DOMAIN items : IsFiniteSet({i} \X D(i))
  BY <1>5, FS_Singleton, FS_Product
<1>7. IsFiniteSet(family)
  <2>1. at \in Surjection(DOMAIN items, family)
    BY DEF Surjection
  <2> HIDE DEF at, family
  <2> QED
    BY <1>5, <2>1, FS_Surjection
<1>8. \A s \in family : IsFiniteSet(s)
  BY <1>6
<1>9. IsFiniteSet(UNION family)
  <2> HIDE DEF family
  <2> QED
    BY <1>7, <1>8, FS_UNION
<1>10. Occurrences(Dump(p)) \subseteq UNION family
  <2> SUFFICES ASSUME NEW o \in Occurrences(Dump(p)) PROVE o \in UNION family
    OBVIOUS
  <2>1. PICK i \in DOMAIN items : \E j \in D(i) : o = <<i, j>>
    BY OccurrencesArePlaces DEF items, D
  <2>2. o \in at[i]
    BY <2>1
  <2>3. at[i] \in family
    OBVIOUS
  <2> HIDE DEF at, family
  <2> QED
    BY <2>2, <2>3
<1> QED
  BY <1>9, <1>10, FS_Subset

\* Of two services with one canonical name the later one has seen more of them, for
\* it has seen the earlier one.
LEMMA LaterHasSeenMore ==
  ASSUME NEW p, SchemaAccepts(p), PlanShaped(p),
         NEW a \in Occurrences(Dump(p)), NEW b \in Occurrences(Dump(p)),
         Precedes(a, b), CanonicalName(Dump(p), a) = CanonicalName(Dump(p), b)
  PROVE  /\ Cardinality(UsedBefore(Dump(p), a)) \in Nat
         /\ Cardinality(UsedBefore(Dump(p), b)) \in Nat
         /\ Cardinality(UsedBefore(Dump(p), a)) < Cardinality(UsedBefore(Dump(p), b))
<1> DEFINE before == UsedBefore(Dump(p), a)
           later == UsedBefore(Dump(p), b)
<1>1. before \subseteq Occurrences(Dump(p)) /\ later \subseteq Occurrences(Dump(p))
  BY DEF UsedBefore
<1>2. IsFiniteSet(before) /\ IsFiniteSet(later)
  BY <1>1, OccurrencesFinite, FS_Subset
<1>3. \A o \in Occurrences(Dump(p)) : o[1] \in Nat /\ o[2] \in Nat
  BY OccurrencesDumped
<1>4. before \subseteq later
  <2> SUFFICES ASSUME NEW m \in before PROVE m \in later
    OBVIOUS
  <2>1. m \in Occurrences(Dump(p)) /\ Precedes(m, a) /\ CanonicalName(Dump(p), m) = CanonicalName(Dump(p), a)
    BY DEF UsedBefore
  <2>2. Precedes(m, b)
    BY <1>3, <2>1 DEF Precedes
  <2> QED
    BY <2>1, <2>2 DEF UsedBefore
<1>5. a \in later /\ a \notin before
  <2>1. ~Precedes(a, a)
    BY <1>3 DEF Precedes
  <2> QED
    BY <2>1 DEF UsedBefore
<1> HIDE DEF before, later
<1>6. Cardinality(before) \in Nat /\ Cardinality(later) \in Nat
  BY <1>2, FS_CardinalityType
<1>7. Cardinality(before) <= Cardinality(later) /\ Cardinality(before) # Cardinality(later)
  BY <1>2, <1>4, <1>5, FS_Subset
<1> QED
  BY <1>6, <1>7 DEF before, later

\* Whatever a plan calls its services and however often it repeats one, no two of
\* its workflows have a name in common.
LEMMA WorkflowNamesTell ==
  ASSUME PartsAreSequences, NumeralsTell, TimestampsTell,
         NEW p, SchemaAccepts(p), PlanShaped(p),
         NEW a \in Occurrences(Dump(p)), NEW b \in Occurrences(Dump(p)), a # b
  PROVE  WorkflowName(Dump(p), a) # WorkflowName(Dump(p), b)
<1> DEFINE d == Dump(p)
           seen(o) == Cardinality(UsedBefore(d, o))
           name(o) == CanonicalName(d, o)
<1>1. \A o \in Occurrences(d) : /\ o = <<o[1], o[2]>> /\ o[1] \in Nat /\ o[2] \in Nat
                                /\ TimeOf(d, o) \in Zoned
  <2> TAKE o \in Occurrences(d)
  <2>1. /\ o = <<o[1], o[2]>> /\ o[1] \in Nat /\ o[2] \in Nat
        /\ EventAccepted(EventOf(p, o)) /\ EventOf(d, o) = DumpEvent(EventOf(p, o))
    BY OccurrencesDumped
  <2>2. TimeOf(d, o) \in Zoned
    BY <2>1 DEF EventAccepted, DumpEvent, TimeOf
  <2> QED
    BY <2>1, <2>2
<1>2. Precedes(a, b) \/ Precedes(b, a)
  BY <1>1 DEF Precedes
<1>3. name(a) = name(b) => seen(a) # seen(b)
  <2>1. ASSUME name(a) = name(b), Precedes(a, b) PROVE seen(a) # seen(b)
    <3>1. seen(a) \in Nat /\ seen(b) \in Nat /\ seen(a) < seen(b)
      BY <2>1, LaterHasSeenMore
    <3> QED
      BY <3>1
  <2>2. ASSUME name(a) = name(b), Precedes(b, a) PROVE seen(a) # seen(b)
    <3>1. seen(a) \in Nat /\ seen(b) \in Nat /\ seen(b) < seen(a)
      BY <2>2, LaterHasSeenMore
    <3> QED
      BY <3>1
  <2> QED
    BY <1>2, <2>1, <2>2
<1>4. \A o : WorkflowName(d, o) =
               IF seen(o) = 0 THEN name(o) ELSE Extended(name(o), <<Numeral(seen(o) + 1)>>, MaxParts)
  BY DEF WorkflowName
<1>5. \A o : WellNamed(name(o))
  BY CanonicalForms
<1>6. \A o \in Occurrences(d) : seen(o) \in Nat
  <2> TAKE o \in Occurrences(d)
  <2>1. UsedBefore(d, o) \subseteq Occurrences(d)
    BY DEF UsedBefore
  <2> QED
    BY <2>1, OccurrencesFinite, FS_Subset, FS_CardinalityType
<1>7. \A n : IsSequence(<<Numeral(n)>>) /\ Len(<<Numeral(n)>>) = 1
  BY Literals
<1>8. ASSUME NEW o \in Occurrences(d), NEW q \in Occurrences(d), seen(q) # 0
      PROVE  name(o) # Extended(name(q), <<Numeral(seen(q) + 1)>>, MaxParts)
  <2> DEFINE suffix == <<Numeral(seen(q) + 1)>>
             longer == Extended(name(q), suffix, MaxParts)
  <2>1. \/ name(q).digest = <<>> /\ longer.digest = <<>> /\ longer.parts = name(q).parts \o suffix
        \/ Len(longer.digest) > MaxParts
    <3>1. IsSequence(suffix) /\ Len(suffix) = 1
      BY <1>7
    <3> HIDE DEF suffix
    <3>2. Len(suffix) >= 1
      BY <3>1
    <3>3. /\ WellNamed(longer)
          /\ \/ name(q).digest = <<>> /\ longer.digest = <<>> /\ longer.parts = name(q).parts \o suffix
             \/ Len(longer.digest) > MaxParts
             \/ Len(longer.digest) > MaxParts + Len(suffix)
      BY <1>5, <3>1, <3>2, ExtendedForms
    <3>4. Len(longer.digest) \in Nat
      BY <3>3, LenProperties DEF WellNamed, IsSequence
    <3>5. Len(longer.digest) > MaxParts + Len(suffix) => Len(longer.digest) > MaxParts
      BY <3>1, <3>4, MaxPartsAssumption
    <3> QED
      BY <3>3, <3>5
  <2>2. \/ name(o).digest = <<>> /\ name(o).parts = IdentityOf(d, o) \o Parts(TimeOf(d, o))
        \/ Len(name(o).digest) = 3
    BY CanonicalForms
  <2>3. \/ name(q).digest = <<>> /\ name(q).parts = IdentityOf(d, q) \o Parts(TimeOf(d, q))
        \/ Len(name(q).digest) = 3
    BY CanonicalForms
  <2>4. Len(<<>>) = 0 /\ ~(0 > MaxParts) /\ ~(3 > MaxParts)
    BY Literals, MaxPartsAssumption
  <2> SUFFICES ASSUME name(o) = longer PROVE FALSE
    OBVIOUS
  <2> HIDE DEF longer, name
  <2>5. name(o).digest = <<>> /\ name(q).digest = <<>> /\ name(o).parts = name(q).parts \o suffix
    BY <2>1, <2>2, <2>4
  <2>6. IdentityOf(d, o) \o Parts(TimeOf(d, o)) = (IdentityOf(d, q) \o Parts(TimeOf(d, q))) \o suffix
    <3>1. Len(name(o).digest) # 3 /\ Len(name(q).digest) # 3
      BY <2>4, <2>5
    <3>2. name(o).parts = IdentityOf(d, o) \o Parts(TimeOf(d, o))
      BY <2>2, <3>1
    <3>3. name(q).parts = IdentityOf(d, q) \o Parts(TimeOf(d, q))
      BY <2>3, <3>1
    <3> QED
      BY <2>5, <3>2, <3>3
  <2>7. IsSequence(IdentityOf(d, o)) /\ IsSequence(IdentityOf(d, q))
    BY CanonicalForms
  <2>8. seen(q) + 1 \in Nat /\ seen(q) + 1 > 1
    BY <1>6, <1>8
  <2>9. PICK n, t, u, x, y :
          /\ n = seen(q) + 1 /\ t = TimeOf(d, q) /\ u = TimeOf(d, o)
          /\ x = IdentityOf(d, q) /\ y = IdentityOf(d, o)
    OBVIOUS
  <2>10. /\ n \in Nat /\ n > 1 /\ t \in Zoned /\ u \in Zoned /\ IsSequence(x) /\ IsSequence(y)
         /\ (x \o Parts(t)) \o <<Numeral(n)>> = y \o Parts(u)
    BY <1>1, <2>6, <2>7, <2>8, <2>9
  <2> QED
    BY ONLY TimestampsTell, <2>10 DEF TimestampsTell
<1>9. CASE seen(a) = 0 /\ seen(b) = 0
  BY <1>3, <1>4, <1>9
<1>10. CASE seen(a) = 0 /\ seen(b) # 0
  BY <1>4, <1>8, <1>10
<1>11. CASE seen(a) # 0 /\ seen(b) = 0
  BY <1>4, <1>8, <1>11
<1>12. CASE seen(a) # 0 /\ seen(b) # 0
  <2> DEFINE x == <<Numeral(seen(a) + 1)>>
             y == <<Numeral(seen(b) + 1)>>
  <2>1. WorkflowName(d, a) = Extended(name(a), x, MaxParts) /\ WorkflowName(d, b) = Extended(name(b), y, MaxParts)
    BY <1>4, <1>12
  <2>2. x = y => seen(a) = seen(b)
    <3>1. x[1] = Numeral(seen(a) + 1) /\ y[1] = Numeral(seen(b) + 1)
      BY Literals
    <3>2. seen(a) \in Nat /\ seen(b) \in Nat
      BY <1>6
    <3> HIDE DEF x, y, seen
    <3>3. x = y => Numeral(seen(a) + 1) = Numeral(seen(b) + 1)
      BY <3>1
    <3>4. Numeral(seen(a) + 1) = Numeral(seen(b) + 1) => seen(a) + 1 = seen(b) + 1
      BY <3>2 DEF NumeralsTell
    <3> QED
      BY <3>2, <3>3, <3>4
  <2>3. IsSequence(x) /\ IsSequence(y) /\ Len(x) = Len(y) /\ Len(x) >= 1
    BY <1>7
  <2> HIDE DEF x, y, name
  <2>4. ASSUME Extended(name(a), x, MaxParts) = Extended(name(b), y, MaxParts)
        PROVE  name(a) = name(b) /\ x = y
    BY <1>5, <2>3, <2>4, ExtendedTells
  <2> QED
    BY <1>3, <2>1, <2>2, <2>4
<1> QED
  BY <1>9, <1>10, <1>11, <1>12

\* A workflow's name, repeated or not, is one that ResistantName made.
LEMMA WorkflowNamesWellMade ==
  ASSUME PartsAreSequences, NEW p, NEW o
  PROVE  WellNamed(WorkflowName(p, o))
<1> DEFINE canonical == CanonicalName(p, o)
           seen == Cardinality(UsedBefore(p, o))
           suffix == <<Numeral(seen + 1)>>
<1>1. WellNamed(canonical)
  BY CanonicalForms
<1>2. IsSequence(suffix) /\ Len(suffix) >= 1
  <2>1. IsSequence(suffix) /\ Len(suffix) = 1
    BY Literals
  <2> HIDE DEF suffix
  <2> QED
    BY <2>1
<1>3. WorkflowName(p, o) = IF seen = 0 THEN canonical ELSE Extended(canonical, suffix, MaxParts)
  BY DEF WorkflowName
<1> HIDE DEF canonical, seen, suffix
<1>4. WellNamed(Extended(canonical, suffix, MaxParts))
  BY <1>1, <1>2, ExtendedForms
<1> QED
  BY <1>1, <1>3, <1>4

\* Two claims have one name only when they are the same device's claim of intents
\* with one name.
LEMMA ClaimNamesTell ==
  ASSUME NEW m, NEW n, WellNamed(m.name), WellNamed(n.name), NEW v, NEW w,
         ClaimName(m, v) = ClaimName(n, w)
  PROVE  m.name = n.name /\ v = w
<1> DEFINE x == <<v, "claim">>
           y == <<w, "claim">>
<1>1. /\ IsSequence(x) /\ Len(x) = 2 /\ x[1] = v
      /\ IsSequence(y) /\ Len(y) = 2 /\ y[1] = w
  BY Literals
<1>2. Extended(m.name, x, MaxParts) = Extended(n.name, y, MaxParts)
  BY DEF ClaimName
<1> HIDE DEF x, y
<1>3. Len(x) = Len(y) /\ Len(x) >= 1
  BY <1>1
<1>4. m.name = n.name /\ x = y
  BY <1>1, <1>2, <1>3, ExtendedTells
<1> QED
  BY <1>1, <1>4

\* Of the templates of two intents, two with one name are one template.
LEMMA TemplatesTell ==
  ASSUME NEW m, NEW n, WellNamed(m.name), WellNamed(n.name),
         NEW t \in ClaimTemplates(m, "ns", TRUE), NEW u \in ClaimTemplates(n, "ns", TRUE), t.name = u.name
  PROVE  t = u
<1> DEFINE Fallback(i) == Template(ClaimName(i, "accel"), "ns", "scheduler", "firstAvailable")
           Exact(i) == Template(ClaimName(i, "gpu"), "ns", "kueue", "exactly")
<1>1. t \in {Fallback(m), Exact(m)} /\ u \in {Fallback(n), Exact(n)}
  BY DEF ClaimTemplates, FirstAvailable
<1>2. \A i : Fallback(i).name = ClaimName(i, "accel") /\ Exact(i).name = ClaimName(i, "gpu")
  BY DEF Template
<1>3. ClaimName(m, "accel") # ClaimName(n, "gpu") /\ ClaimName(m, "gpu") # ClaimName(n, "accel")
  BY ClaimNamesTell
<1>4. ClaimName(m, "accel") = ClaimName(n, "accel") => Fallback(m) = Fallback(n)
  OBVIOUS
<1>5. ClaimName(m, "gpu") = ClaimName(n, "gpu") => Exact(m) = Exact(n)
  OBVIOUS
<1> HIDE DEF Fallback, Exact
<1> QED
  BY <1>1, <1>2, <1>3, <1>4, <1>5

\* No two workflows of a plan, no two different templates and no two tasks of a
\* workflow have one name, for any number of services and steps under any names,
\* whatever part of them Kubernetes leaves and wherever it cuts them.
THEOREM NamesAlwaysDistinct ==
  ASSUME PartsAreSequences, NumeralsTell, TimestampsTell
  PROVE  Spec => []NamesDistinct
<1>1. PlanShaped(plan) => NamesDistinct
  <2> SUFFICES ASSUME PlanShaped(plan), SchemaAccepts(plan)
               PROVE  LET compiled == Compiled
                          templates == UNION {ClaimTemplates(compiled[n], "ns", TRUE) : n \in DOMAIN compiled}
                      IN  /\ \A m, n \in DOMAIN compiled : m # n => compiled[m].name # compiled[n].name
                          /\ \A t, u \in templates : t.name = u.name => t = u
                          /\ \A n \in DOMAIN compiled : \A k, l \in DOMAIN compiled[n].steps :
                               k # l => TaskName(compiled[n], k) # TaskName(compiled[n], l)
    BY DEF NamesDistinct
  <2> DEFINE compiled == Compiled
             templates == UNION {ClaimTemplates(compiled[n], "ns", TRUE) : n \in DOMAIN compiled}
  <2>1. DOMAIN compiled = Occurrences(Dump(plan))
    BY DEF Compiled, Intents
  <2>2. \A o \in DOMAIN compiled : compiled[o].name = WorkflowName(Dump(plan), o)
    BY <2>1, IntentsDumped DEF Compiled
  <2>3. \A o \in DOMAIN compiled : DOMAIN compiled[o].steps \subseteq Nat
    <3> TAKE o \in DOMAIN compiled
    <3> DEFINE steps == ServiceOf(plan, o).steps.items
    <3>1. Len(steps) \in Nat /\ DOMAIN compiled[o].steps = 1..Len(steps)
      BY <2>1, IntentsDumped DEF Compiled
    <3> QED
      BY <3>1
  <2> HIDE DEF compiled
  <2>4. \A m, n \in DOMAIN compiled : m # n => compiled[m].name # compiled[n].name
    BY <2>1, <2>2, WorkflowNamesTell
  <2>5. \A n \in DOMAIN compiled : WellNamed(compiled[n].name)
    BY <2>2, WorkflowNamesWellMade
  <2>6. ASSUME NEW t \in templates, NEW u \in templates, t.name = u.name PROVE t = u
    <3>1. PICK m \in DOMAIN compiled : t \in ClaimTemplates(compiled[m], "ns", TRUE)
      OBVIOUS
    <3>2. PICK n \in DOMAIN compiled : u \in ClaimTemplates(compiled[n], "ns", TRUE)
      OBVIOUS
    <3> QED
      BY <2>5, <2>6, <3>1, <3>2, TemplatesTell
  <2>7. \A n \in DOMAIN compiled : \A k, l \in DOMAIN compiled[n].steps :
          k # l => TaskName(compiled[n], k) # TaskName(compiled[n], l)
    BY <2>3, TaskNamesTell
  <2> QED
    BY <2>4, <2>6, <2>7 DEF compiled
<1> QED
  BY <1>1, PlansKeepShape, PTL
================================================================================
