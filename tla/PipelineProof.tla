---------------------------- MODULE PipelineProof ----------------------------
(***************************************************************************)
(* Theorems about Pipeline, for every set of Ids and of Essential drivers  *)
(* and all bounds: the writs are answered in turn, the king's count of     *)
(* events is that of the log, no ovum is in two places or computed twice   *)
(* or out of its driver's order, the serf's backlog fits its buffer, an    *)
(* exit leaves nothing behind, and the pipeline implements EventLog.       *)
(*                                                                         *)
(* The king is told the number of no event: it pairs answers with writs    *)
(* and counts.  So the invariant counts the answers between the two        *)
(* processes (Talk, Counts), and what either does moves both sides of an   *)
(* equation.  PInv adds this to the invariant of the serf, which MarsProof *)
(* proves kept by every step of the serf whoever sends its tasks.          *)
(***************************************************************************)
EXTENDS Pipeline, MarsProof, FiniteSetTheorems

-----------------------------------------------------------------------------
(* The invariant. *)

Eggs == [id : Ids, drv : 1 .. NDrivers, try : Nat]
AnyEgg == [id : Ids \cup {NoId}, drv : 0 .. NDrivers + 1, try : Nat]
Writs == [tag : {"poke", "peek", "live", "exit"}, egg : AnyEgg]

\* The king's variables, and what it may ask of a serf.
KingOK ==
    /\ psat \in Up \cup {"down"}
    /\ plan \in Seq(Eggs) /\ peeks \in Seq(Ids) /\ writs \in Seq(Writs)
    /\ eve \in Nat /\ ova \in Seq(0 .. NDrivers + 1) /\ crashes \in Nat
    /\ psat = "down" => plan = <<>> /\ writs = <<>>
    /\ \A i \in 1 .. Len(inn) : inn[i].tag # "save"

\* Ovum x was, is or will be computed before y, as o says whose they are.
Before(o, x, y) ==
    /\ x # y
    /\ o[x] = o[y] /\ o[x] \notin Essential => x < y

\* The events s, the ova among the tasks ts and those planned in pl, in a line.
Line(o, s, ts, pl) ==
    /\ \A i \in 1 .. Len(s) :
         /\ s[i] \in 1 .. Len(o)
         /\ \A j \in 1 .. Len(s) : i < j => Before(o, s[i], s[j])
         /\ \A j \in 1 .. Len(ts) : ts[j].tag = "poke" => Before(o, s[i], ts[j].id)
         /\ \A j \in 1 .. Len(pl) : Before(o, s[i], pl[j].id)
    /\ \A i \in 1 .. Len(ts) : ts[i].tag = "poke" =>
         /\ ts[i].id \in 1 .. Len(o)
         /\ \A j \in 1 .. Len(ts) :
              i < j /\ ts[j].tag = "poke" => Before(o, ts[i].id, ts[j].id)
         /\ \A j \in 1 .. Len(pl) : Before(o, ts[i].id, pl[j].id)
    /\ \A i \in 1 .. Len(pl) :
         /\ pl[i].id \in 1 .. Len(o) /\ o[pl[i].id] = pl[i].drv
         /\ \A j \in 1 .. Len(pl) : i < j => Before(o, pl[i].id, pl[j].id)

\* The tasks a serf is there to take.
Tasks == IF sat = "down" THEN <<>> ELSE inn

LineInv == Line(ova, log, Tasks, plan) /\ Line(ova, state, Tasks, plan)

\* An ovum is sent once and no longer planned.
Sent(o, ws, pl) ==
    \A i \in 1 .. Len(ws) : ws[i].tag = "poke" =>
        /\ ws[i].egg.id \in Ids
        /\ ws[i].egg.id \in 1 .. Len(o) /\ o[ws[i].egg.id] = ws[i].egg.drv
        /\ \A j \in 1 .. Len(ws) : i < j /\ ws[j].tag = "poke" =>
             ws[i].egg.id # ws[j].egg.id
        /\ \A j \in 1 .. Len(pl) : ws[i].egg.id # pl[j].id

\* There is room for the writs; an exit is the last of them.
Room(ws, ps) ==
    \A i \in 1 .. Len(ws) :
        IF ws[i].tag = "exit" THEN i = Len(ws) /\ ps = "done" ELSE i <= WorkBatch

\* The answers ans and the tasks ts, one behind the other, belong to the writs
\* ws in turn, and the events answered are those after the first e.
Nth(ans) == Count(ans, ToWrits, Len(ans))
Dones(ans) == Count(ans, {"done"}, Len(ans))
TaskOf(w) == [tag |-> w.tag, id |-> w.egg.id]

Talk(ans, ts, ws, e) ==
    /\ \A i \in 1 .. Len(ans) :
         /\ ans[i].tag \in ToWrits =>
              LET k == Count(ans, ToWrits, i) IN
              k \in 1 .. Len(ws) /\ Fits(ans[i], ws[k])
         /\ ans[i].tag = "done" => ans[i].eve = e + Count(ans, {"done"}, i)
    /\ Nth(ans) + Len(ts) <= Len(ws)
    /\ \A i \in 1 .. Len(ts) : ts[i] = TaskOf(ws[Nth(ans) + i])

\* Until an exit is sent every writ is answered or to be taken.
Even(ans, ts, ws, ps) ==
    sat # "down" /\ ps # "done" => Nth(ans) + Len(ts) = Len(ws)

\* What failed is no event.
Failed(ans) ==
    \A i \in 1 .. Len(ans) : ans[i].tag = "bail" =>
        /\ \A k \in 1 .. Len(log) : log[k] # ans[i].id
        /\ \A k \in 1 .. Len(state) : state[k] # ans[i].id

\* Until %ripe is heard nothing but the end was asked for, and nothing is known.
Unripe(ans) == sat = "boot" \/ \E i \in 1 .. Len(ans) : ans[i].tag = "ripe"
Exits(ws) == \A i \in 1 .. Len(ws) : ws[i].tag = "exit"

Ripe(ans, ws, e, ps) ==
    /\ sat = "boot" => ans = <<>>
    /\ \A i \in 1 .. Len(ans) : ans[i].tag = "ripe" => i = 1 /\ ans[i].eve = Len(log)
    /\ ps = "init" /\ sat # "down" => Unripe(ans)
    /\ Unripe(ans) \/ ps = "init" => ps \in {"init", "done"} /\ e = 0 /\ Exits(ws)
    /\ Unripe(ans) /\ sat \in Running => dun = Len(state)

\* The king's count goes on through the answers to that of the serf.
Counts(ans, e) ==
    /\ e <= Len(log)
    /\ sat \in Running /\ ~Unripe(ans) => Len(state) = e + Dones(ans) /\ e <= dun

\* An event whose answer is lost leaves a writ that is not answered any more.
Unanswered(ans, ws) == \E i \in 1 .. Len(ws) : i > Nth(ans) /\ ws[i].tag = "poke"

Ended(ans, ws, e, ps) ==
    sat = "down" =>
        /\ \/ e = 0 /\ Exits(ws) /\ ps \in {"init", "done"}
           \/ Len(log) <= e + Dones(ans)
           \/ Unanswered(ans, ws)
        /\ crashes = 0 => snap = log \/ Unanswered(ans, ws)

\* What the answers, tasks and writs say of the king and the serf.
Agree(ans, ts, ws, e, ps) ==
    /\ Talk(ans, ts, ws, e) /\ Even(ans, ts, ws, ps)
    /\ Failed(ans) /\ Ripe(ans, ws, e, ps) /\ Counts(ans, e) /\ Ended(ans, ws, e, ps)

KingInv ==
    psat \in Up =>
        /\ Sent(ova, writs, plan) /\ Room(writs, psat)
        /\ Agree(Answers, Tasks, writs, eve, psat)

\* The answer to an event leaves when the event is known to be in the log; that
\* of the last event has not left before.
HeldInv ==
    sat \in Running =>
        /\ \A i \in 1 .. Len(out) : out[i].tag = "done" => out[i].eve <= dun
        /\ Len(state) > dun =>
             \E k \in 1 .. Len(gif) : gif[k].tag = "done" /\ gif[k].eve = Len(state)

\* What is computed and what is to be computed fits.
BacklogInv ==
    sat # "down" =>
        /\ Len(state) <= dun + WorkBatch
        /\ \A i \in 1 .. Len(inn) :
             inn[i].tag = "poke" => Len(state) + i <= dun + WorkBatch

PInv == IInv /\ KingOK /\ LineInv /\ KingInv /\ HeldInv /\ BacklogInv
-----------------------------------------------------------------------------
(* Counting. *)

\* Those counted are finitely many.
LEMMA CountType ==
    ASSUME NEW s, NEW tags, NEW i \in Nat
    PROVE  /\ Count(s, tags, i) \in Nat
           /\ IsFiniteSet({j \in 1 .. i : s[j].tag \in tags})
<1> DEFINE A == {j \in 1 .. i : s[j].tag \in tags}
<1>1. IsFiniteSet(1 .. i)
  BY FS_Interval
<1>2. A \in SUBSET (1 .. i)
  OBVIOUS
<1>3. IsFiniteSet(A)
  BY <1>1, <1>2, FS_Subset
<1> QED
  BY <1>3, FS_CardinalityType DEF Count

\* Of none, none.
LEMMA CountZero ==
    ASSUME NEW s, NEW tags
    PROVE  Count(s, tags, 0) = 0
<1>1. {j \in 1 .. 0 : s[j].tag \in tags} = {}
  OBVIOUS
<1> QED
  BY <1>1, FS_EmptySet DEF Count

\* One more counts if its tag does.
LEMMA CountStep ==
    ASSUME NEW s, NEW tags, NEW i \in Nat
    PROVE  Count(s, tags, i + 1) =
             Count(s, tags, i) + IF s[i + 1].tag \in tags THEN 1 ELSE 0
<1> DEFINE A == {j \in 1 .. i : s[j].tag \in tags}
           B == {j \in 1 .. i + 1 : s[j].tag \in tags}
<1>1. IsFiniteSet(A) /\ Cardinality(A) \in Nat
  BY CountType DEF Count
<1>2. CASE s[i + 1].tag \in tags
  <2>1. B = A \cup {i + 1} /\ i + 1 \notin A
    BY <1>2
  <2>2. Cardinality(A \cup {i + 1}) = Cardinality(A) + 1
    BY <1>1, <2>1, FS_AddElement
  <2> QED
    BY <1>2, <2>1, <2>2 DEF Count
<1>3. CASE s[i + 1].tag \notin tags
  <2>1. B = A
    BY <1>3
  <2> QED
    BY <1>1, <1>3, <2>1 DEF Count
<1> QED
  BY <1>2, <1>3

\* Only the tags of the first i count.
LEMMA CountSame ==
    ASSUME NEW s, NEW t, NEW tags, NEW i \in Nat,
           \A j \in 1 .. i : s[j] = t[j]
    PROVE  Count(s, tags, i) = Count(t, tags, i)
<1>1. {j \in 1 .. i : s[j].tag \in tags} = {j \in 1 .. i : t[j].tag \in tags}
  OBVIOUS
<1> QED
  BY <1>1 DEF Count

\* More of them, or of more kinds, count for no less.
LEMMA CountMore ==
    ASSUME NEW s, NEW a, NEW b, a \subseteq b, NEW i \in Nat, NEW k \in Nat, i <= k
    PROVE  Count(s, a, i) <= Count(s, b, k)
<1> DEFINE A == {j \in 1 .. i : s[j].tag \in a}
           B == {j \in 1 .. k : s[j].tag \in b}
<1>1. A \in SUBSET B
  OBVIOUS
<1>2. IsFiniteSet(B)
  BY CountType
<1>3. Cardinality(A) <= Cardinality(B)
  BY <1>1, <1>2, FS_Subset
<1> QED
  BY <1>3 DEF Count

\* If the first i count for less than the first k, one that counts is between.
LEMMA CountBetween ==
    ASSUME NEW s, NEW tags, NEW i \in Nat, NEW k \in Nat,
           Count(s, tags, i) < Count(s, tags, k)
    PROVE  \E j \in i + 1 .. k : s[j].tag \in tags
<1> SUFFICES ASSUME \A j \in i + 1 .. k : s[j].tag \notin tags PROVE FALSE
  OBVIOUS
<1> DEFINE A == {j \in 1 .. i : s[j].tag \in tags}
           B == {j \in 1 .. k : s[j].tag \in tags}
<1>1. B \in SUBSET A
  OBVIOUS
<1>2. IsFiniteSet(A)
  BY CountType
<1>3. Cardinality(B) <= Cardinality(A)
  BY <1>1, <1>2, FS_Subset
<1>4. Cardinality(A) \in Nat /\ Cardinality(B) \in Nat
  BY CountType DEF Count
<1> QED
  BY <1>3, <1>4 DEF Count

\* Where no tag counts.
LEMMA CountNone ==
    ASSUME NEW s, NEW tags, NEW i \in Nat, \A j \in 1 .. i : s[j].tag \notin tags
    PROVE  Count(s, tags, i) = 0
<1>1. {j \in 1 .. i : s[j].tag \in tags} = {}
  OBVIOUS
<1> QED
  BY <1>1, FS_EmptySet DEF Count

\* Without the first.
LEMMA CountTail ==
    ASSUME NEW s \in Seq(Gift), s # <<>>, NEW tags, NEW i \in Nat, i < Len(s)
    PROVE  Count(s, tags, i + 1) =
             Count(Tail(s), tags, i) + IF Head(s).tag \in tags THEN 1 ELSE 0
<1> DEFINE A == {j \in 1 .. i : Tail(s)[j].tag \in tags}
           B == {j \in 2 .. i + 1 : s[j].tag \in tags}
           C == {j \in 1 .. i + 1 : s[j].tag \in tags}
           f == [j \in A |-> j + 1]
<1>1. \A j \in 1 .. i : Tail(s)[j] = s[j + 1]
  OBVIOUS
<1>2. Head(s) = s[1]
  OBVIOUS
<1>3. IsFiniteSet(A) /\ Cardinality(A) \in Nat
  BY CountType DEF Count
<1>4. f \in Bijection(A, B)
  <2>1. f \in [A -> B]
    BY <1>1
  <2>2. \A j, k \in A : f[j] = f[k] => j = k
    OBVIOUS
  <2>3. \A k \in B : \E j \in A : f[j] = k
    <3> TAKE k \in B
    <3>1. k - 1 \in A
      BY <1>1
    <3>2. f[k - 1] = k
      BY <3>1
    <3> QED
      BY <3>1, <3>2
  <2> HIDE DEF f, A, B
  <2> QED
    BY <2>1, <2>2, <2>3 DEF Bijection, Injection, Surjection, IsInjective
<1>5. IsFiniteSet(B) /\ Cardinality(B) = Cardinality(A)
  <2>1. ExistsBijection(A, B)
    BY <1>4 DEF ExistsBijection
  <2> QED
    BY <1>3, <2>1, FS_Bijection
<1>6. /\ Count(s, tags, i + 1) = Cardinality(C)
      /\ Count(Tail(s), tags, i) = Cardinality(A)
  BY DEF Count
<1>7. CASE Head(s).tag \in tags
  <2>1. C = B \cup {1} /\ 1 \notin B
    BY <1>2, <1>7
  <2>2. Cardinality(B \cup {1}) = Cardinality(B) + 1
    BY <1>5, <2>1, FS_AddElement
  <2> QED
    BY <1>5, <1>6, <1>7, <2>1, <2>2
<1>8. CASE Head(s).tag \notin tags
  <2>1. C = B
    BY <1>2, <1>8
  <2> HIDE DEF A, B, C
  <2> QED
    BY <1>3, <1>5, <1>6, <1>8, <2>1
<1> QED
  BY <1>7, <1>8
-----------------------------------------------------------------------------
(* Rows of anything. *)

\* The first is taken.
LEMMA RowTail ==
    ASSUME NEW S, NEW s \in Seq(S), s # <<>>
    PROVE  /\ Tail(s) \in Seq(S) /\ Head(s) \in S /\ Head(s) = s[1]
           /\ Len(s) \in Nat \ {0} /\ Len(Tail(s)) = Len(s) - 1
           /\ \A i \in 1 .. Len(s) - 1 : Tail(s)[i] = s[i + 1]
OBVIOUS

\* One is added at the end.
LEMMA RowAppend ==
    ASSUME NEW S, NEW s \in Seq(S), NEW x \in S
    PROVE  /\ Append(s, x) \in Seq(S) /\ Len(s) \in Nat
           /\ Len(Append(s, x)) = Len(s) + 1
           /\ Append(s, x)[Len(s) + 1] = x
           /\ \A i \in 1 .. Len(s) : Append(s, x)[i] = s[i]
OBVIOUS

\* One row behind another.
LEMMA RowConcat ==
    ASSUME NEW S, NEW s \in Seq(S), NEW t \in Seq(S)
    PROVE  /\ s \o t \in Seq(S) /\ Len(s) \in Nat /\ Len(t) \in Nat
           /\ Len(s \o t) = Len(s) + Len(t)
           /\ \A i \in 1 .. Len(s) : (s \o t)[i] = s[i]
           /\ \A i \in Len(s) + 1 .. Len(s) + Len(t) : (s \o t)[i] = t[i - Len(s)]
OBVIOUS

\* The first m of a row.
LEMMA RowPart ==
    ASSUME NEW S, NEW s \in Seq(S), NEW m \in 0 .. Len(s)
    PROVE  /\ SubSeq(s, 1, m) \in Seq(S) /\ Len(s) \in Nat
           /\ Len(SubSeq(s, 1, m)) = m
           /\ \A i \in 1 .. m : SubSeq(s, 1, m)[i] = s[i]
OBVIOUS

\* What is behind the first m.
LEMMA RowRest ==
    ASSUME NEW S, NEW s \in Seq(S), NEW m \in 0 .. Len(s)
    PROVE  /\ SubSeq(s, m + 1, Len(s)) \in Seq(S) /\ Len(s) \in Nat
           /\ Len(SubSeq(s, m + 1, Len(s))) = Len(s) - m
           /\ \A i \in 1 .. Len(s) - m : SubSeq(s, m + 1, Len(s))[i] = s[i + m]
OBVIOUS

-----------------------------------------------------------------------------
(* How many are answered, after one more answer, or one less. *)

\* One more answer leaves the counts up to the others as they were.
LEMMA CountAppend ==
    ASSUME NEW ans \in Seq(Gift), NEW g \in Gift, NEW tags
    PROVE  /\ \A i \in 0 .. Len(ans) :
                Count(Append(ans, g), tags, i) = Count(ans, tags, i)
           /\ Count(Append(ans, g), tags, Len(ans) + 1) =
                Count(ans, tags, Len(ans)) + IF g.tag \in tags THEN 1 ELSE 0
<1> DEFINE t == Append(ans, g)
<1>1. /\ Len(ans) \in Nat /\ t[Len(ans) + 1] = g
      /\ \A i \in 1 .. Len(ans) : t[i] = ans[i]
  BY RowAppend
<1> HIDE DEF t
<1>2. ASSUME NEW i \in 0 .. Len(ans)
      PROVE  Count(t, tags, i) = Count(ans, tags, i)
  <2>1. i \in Nat /\ \A j \in 1 .. i : t[j] = ans[j]
    BY <1>1
  <2> QED
    BY <2>1, CountSame
<1>3. Count(t, tags, Len(ans) + 1) =
        Count(t, tags, Len(ans)) + IF g.tag \in tags THEN 1 ELSE 0
  BY <1>1, CountStep
<1>4. Len(ans) \in 0 .. Len(ans)
  BY <1>1
<1>5. Count(t, tags, Len(ans)) = Count(ans, tags, Len(ans))
  BY <1>2, <1>4
<1> QED
  BY <1>2, <1>3, <1>5 DEF t

\* In the first m answers the counts are those in all of them.
LEMMA CountPart ==
    ASSUME NEW ans \in Seq(Gift), NEW m \in 0 .. Len(ans), NEW tags
    PROVE  \A i \in 0 .. m : Count(SubSeq(ans, 1, m), tags, i) = Count(ans, tags, i)
<1> DEFINE t == SubSeq(ans, 1, m)
<1>1. Len(ans) \in Nat /\ \A i \in 1 .. m : t[i] = ans[i]
  BY RowPart
<1> HIDE DEF t
<1>2. ASSUME NEW i \in 0 .. m
      PROVE  Count(t, tags, i) = Count(ans, tags, i)
  <2>1. i \in Nat /\ \A j \in 1 .. i : t[j] = ans[j]
    BY <1>1
  <2> QED
    BY <2>1, CountSame
<1> QED
  BY <1>2 DEF t

\* The counts are numbers and grow along the row.
LEMMA NthType ==
    ASSUME NEW ans \in Seq(Gift)
    PROVE  /\ Nth(ans) \in Nat /\ Dones(ans) \in Nat /\ Dones(ans) <= Nth(ans)
           /\ \A i \in 0 .. Len(ans) :
                /\ Count(ans, ToWrits, i) \in Nat /\ Count(ans, ToWrits, i) <= Nth(ans)
                /\ Count(ans, {"done"}, i) \in Nat /\ Count(ans, {"done"}, i) <= Dones(ans)
<1>1. Len(ans) \in Nat
  OBVIOUS
<1>2. {"done"} \subseteq ToWrits /\ ToWrits \subseteq ToWrits
      /\ {"done"} \subseteq {"done"}
  BY DEF ToWrits, GiftTags
<1>3. ASSUME NEW i \in 0 .. Len(ans)
      PROVE  /\ Count(ans, ToWrits, i) \in Nat
             /\ Count(ans, ToWrits, i) <= Count(ans, ToWrits, Len(ans))
             /\ Count(ans, {"done"}, i) \in Nat
             /\ Count(ans, {"done"}, i) <= Count(ans, {"done"}, Len(ans))
  <2>1. i \in Nat /\ i <= Len(ans)
    BY <1>1
  <2> QED
    BY <1>1, <1>2, <2>1, CountType, CountMore
<1>4. /\ Count(ans, ToWrits, Len(ans)) \in Nat
      /\ Count(ans, {"done"}, Len(ans)) \in Nat
      /\ Count(ans, {"done"}, Len(ans)) <= Count(ans, ToWrits, Len(ans))
  <2>1. Len(ans) <= Len(ans)
    BY <1>1
  <2>2. Count(ans, {"done"}, Len(ans)) <= Count(ans, ToWrits, Len(ans))
    BY <1>1, <1>2, <2>1, CountMore
  <2> QED
    BY <1>1, <2>2, CountType
<1>5. /\ Nth(ans) = Count(ans, ToWrits, Len(ans))
      /\ Dones(ans) = Count(ans, {"done"}, Len(ans))
  BY DEF Nth, Dones
<1> QED
  BY <1>3, <1>4, <1>5

\* One more answer is given.
LEMMA NthAppend ==
    ASSUME NEW ans \in Seq(Gift), NEW g \in Gift
    PROVE  /\ Nth(Append(ans, g)) = Nth(ans) + IF g.tag \in ToWrits THEN 1 ELSE 0
           /\ Dones(Append(ans, g)) = Dones(ans) + IF g.tag = "done" THEN 1 ELSE 0
<1>1. Len(Append(ans, g)) = Len(ans) + 1
  BY RowAppend
<1> QED
  BY <1>1, CountAppend DEF Nth, Dones

\* The oldest answer is taken.
LEMMA NthTail ==
    ASSUME NEW ans \in Seq(Gift), ans # <<>>
    PROVE  /\ Nth(ans) = Nth(Tail(ans)) + IF Head(ans).tag \in ToWrits THEN 1 ELSE 0
           /\ Dones(ans) = Dones(Tail(ans)) + IF Head(ans).tag = "done" THEN 1 ELSE 0
<1>1. Len(ans) \in Nat \ {0} /\ Len(Tail(ans)) = Len(ans) - 1
  BY RowTail
<1> DEFINE n == Len(ans) - 1
<1>2. n \in Nat /\ n < Len(ans) /\ Len(ans) = n + 1 /\ Len(Tail(ans)) = n
  BY <1>1
<1> HIDE DEF n
<1>3. \A tags : Count(ans, tags, n + 1) =
          Count(Tail(ans), tags, n) + IF Head(ans).tag \in tags THEN 1 ELSE 0
  BY <1>2, CountTail
<1>4. Head(ans).tag \in {"done"} <=> Head(ans).tag = "done"
  OBVIOUS
<1> QED
  BY <1>2, <1>3, <1>4 DEF Nth, Dones

\* An answer belongs to a writ, and its tag says whether it counts.
LEMMA NthPositive ==
    ASSUME NEW ans \in Seq(Gift), NEW i \in 1 .. Len(ans), NEW tags,
           ans[i].tag \in tags
    PROVE  /\ Count(ans, tags, i) = Count(ans, tags, i - 1) + 1
           /\ Count(ans, tags, i - 1) \in Nat
<1>1. Len(ans) \in Nat /\ i - 1 \in Nat
  OBVIOUS
<1>2. Count(ans, tags, (i - 1) + 1) =
        Count(ans, tags, i - 1) + IF ans[(i - 1) + 1].tag \in tags THEN 1 ELSE 0
  BY <1>1, CountStep
<1>3. (i - 1) + 1 = i
  BY <1>1
<1> QED
  BY <1>1, <1>2, <1>3, CountType
-----------------------------------------------------------------------------
(* The conversation. *)

\* One answer of Talk.
LEMMA TalkAt ==
    ASSUME NEW ans, NEW ts, NEW ws, NEW e, Talk(ans, ts, ws, e),
           NEW i \in 1 .. Len(ans)
    PROVE  /\ ans[i].tag \in ToWrits =>
                /\ Count(ans, ToWrits, i) \in 1 .. Len(ws)
                /\ Fits(ans[i], ws[Count(ans, ToWrits, i)])
           /\ ans[i].tag = "done" => ans[i].eve = e + Count(ans, {"done"}, i)
BY DEF Talk

\* The first answer belongs to the first writ, and if it is of an event, to the
\* next; without the two the rest goes on.
LEMMA TalkHear ==
    ASSUME NEW ans \in Seq(Gift), NEW ts \in Seq(Task), NEW ws \in Seq(Writs),
           NEW e \in Nat, Talk(ans, ts, ws, e), ans # <<>>, Head(ans).tag \in ToWrits,
           NEW f \in Nat, f = IF Head(ans).tag = "done" THEN e + 1 ELSE e
    PROVE  /\ ws # <<>> /\ Fits(Head(ans), Head(ws))
           /\ Head(ans).tag = "done" => Head(ans).eve = e + 1
           /\ Talk(Tail(ans), ts, Tail(ws), f)
<1> DEFINE a == Tail(ans)
           v == Tail(ws)
<1>1. /\ a \in Seq(Gift) /\ Head(ans) = ans[1]
      /\ Len(ans) \in Nat \ {0} /\ Len(a) = Len(ans) - 1
      /\ \A i \in 1 .. Len(ans) - 1 : a[i] = ans[i + 1]
  BY RowTail
<1>2. ASSUME NEW tags
      PROVE  Count(ans, tags, 1) = IF Head(ans).tag \in tags THEN 1 ELSE 0
  <2>1. Count(ans, tags, 0 + 1) =
          Count(ans, tags, 0) + IF ans[0 + 1].tag \in tags THEN 1 ELSE 0
    BY CountStep
  <2> QED
    BY <1>1, <2>1, CountZero
<1>3. Count(ans, ToWrits, 1) = 1 /\ 1 \in 1 .. Len(ans)
  BY <1>1, <1>2
<1>4. 1 \in 1 .. Len(ws) /\ Fits(ans[1], ws[1])
  BY <1>1, <1>3, TalkAt
<1>5. ws # <<>>
  BY <1>4
<1>6. /\ v \in Seq(Writs) /\ Head(ws) = ws[1]
      /\ Len(ws) \in Nat \ {0} /\ Len(v) = Len(ws) - 1
      /\ \A i \in 1 .. Len(ws) - 1 : v[i] = ws[i + 1]
  BY <1>5, RowTail
<1>7. Head(ans).tag = "done" => Head(ans).eve = e + 1
  <2>1. Head(ans).tag = "done" => Count(ans, {"done"}, 1) = 1
    BY <1>2
  <2> QED
    BY <1>1, <1>3, <2>1, TalkAt
<1> HIDE DEF a, v
<1>8. ASSUME NEW i \in 1 .. Len(a), a[i].tag \in ToWrits
      PROVE  /\ Count(a, ToWrits, i) \in 1 .. Len(v)
             /\ Fits(a[i], v[Count(a, ToWrits, i)])
  <2>1. i \in Nat /\ i < Len(ans) /\ i + 1 \in 1 .. Len(ans) /\ a[i] = ans[i + 1]
    BY <1>1
  <2>2. Count(ans, ToWrits, i + 1) = Count(a, ToWrits, i) + 1
    BY <1>1, <2>1, CountTail DEF a
  <2>3. Count(a, ToWrits, i) \in Nat /\ Count(a, ToWrits, i) > 0
    <3>1. /\ Count(a, ToWrits, i) = Count(a, ToWrits, i - 1) + 1
          /\ Count(a, ToWrits, i - 1) \in Nat
      BY <1>1, <1>8, NthPositive
    <3> QED
      BY <3>1
  <2>4. /\ Count(ans, ToWrits, i + 1) \in 1 .. Len(ws)
        /\ Fits(ans[i + 1], ws[Count(ans, ToWrits, i + 1)])
    BY <1>8, <2>1, TalkAt
  <2>5. Count(a, ToWrits, i) \in 1 .. Len(ws) - 1
    BY <1>6, <2>2, <2>3, <2>4
  <2> QED
    BY <1>6, <2>1, <2>2, <2>4, <2>5
<1>9. ASSUME NEW i \in 1 .. Len(a), a[i].tag = "done"
      PROVE  a[i].eve = f + Count(a, {"done"}, i)
  <2>1. i \in Nat /\ i < Len(ans) /\ i + 1 \in 1 .. Len(ans) /\ a[i] = ans[i + 1]
    BY <1>1
  <2>2. Count(ans, {"done"}, i + 1) =
          Count(a, {"done"}, i) + IF Head(ans).tag \in {"done"} THEN 1 ELSE 0
    BY <1>1, <2>1, CountTail DEF a
  <2>3. Count(a, {"done"}, i) \in Nat
    BY <2>1, CountType
  <2>4. a[i].eve = e + Count(ans, {"done"}, i + 1)
    BY <1>9, <2>1, TalkAt
  <2> QED
    BY <2>2, <2>3, <2>4
<1>10. Nth(ans) = Nth(a) + 1 /\ Nth(a) \in Nat
  BY <1>1, NthTail, NthType DEF a
<1>11. Nth(a) + Len(ts) <= Len(v)
  <2>1. Nth(ans) + Len(ts) <= Len(ws) /\ Len(ts) \in Nat
    BY DEF Talk
  <2> QED
    BY <1>6, <1>10, <2>1
<1>12. ASSUME NEW i \in 1 .. Len(ts)
       PROVE  ts[i] = TaskOf(v[Nth(a) + i])
  <2>1. ts[i] = TaskOf(ws[Nth(ans) + i])
    BY DEF Talk
  <2>2. Nth(a) + i \in 1 .. Len(ws) - 1 /\ (Nth(a) + i) + 1 = Nth(ans) + i
    <3>1. Len(v) = Len(ws) - 1 /\ Len(ws) \in Nat /\ Len(ts) \in Nat
      BY <1>6
    <3>2. i \in Nat /\ i >= 1 /\ i <= Len(ts)
      BY <3>1
    <3>3. PICK x \in Nat : x = Nth(a) /\ Nth(ans) = x + 1
      BY <1>10
    <3>4. PICK l \in Nat : l = Len(ws) /\ x + Len(ts) <= l - 1
      BY <1>11, <3>1, <3>3
    <3>5. x + i \in 1 .. l - 1 /\ (x + i) + 1 = (x + 1) + i
      BY <3>1, <3>2, <3>4
    <3> QED
      BY <3>3, <3>4, <3>5, Zenon
  <2>3. v[Nth(a) + i] = ws[(Nth(a) + i) + 1]
    BY <1>6, <2>2
  <2> QED
    BY <2>1, <2>2, <2>3
<1>13. Talk(a, ts, v, f)
  BY <1>8, <1>9, <1>11, <1>12 DEF Talk
<1> QED
  BY <1>1, <1>4, <1>5, <1>6, <1>7, <1>13 DEF a, v

\* An answer to no writ is passed over.
LEMMA TalkSkip ==
    ASSUME NEW ans \in Seq(Gift), NEW ts \in Seq(Task), NEW ws \in Seq(Writs),
           NEW e \in Nat, Talk(ans, ts, ws, e), ans # <<>>, Head(ans).tag \notin ToWrits
    PROVE  Talk(Tail(ans), ts, ws, e)
<1> DEFINE a == Tail(ans)
<1>1. /\ a \in Seq(Gift) /\ Head(ans) = ans[1]
      /\ Len(ans) \in Nat \ {0} /\ Len(a) = Len(ans) - 1
      /\ \A i \in 1 .. Len(ans) - 1 : a[i] = ans[i + 1]
  BY RowTail
<1>2. Head(ans).tag # "done"
  BY DEF ToWrits, GiftTags
<1> HIDE DEF a
<1>3. ASSUME NEW i \in 1 .. Len(a)
      PROVE  /\ i + 1 \in 1 .. Len(ans) /\ a[i] = ans[i + 1]
             /\ Count(ans, ToWrits, i + 1) = Count(a, ToWrits, i)
             /\ Count(ans, {"done"}, i + 1) = Count(a, {"done"}, i)
  <2>1. i \in Nat /\ i < Len(ans) /\ i + 1 \in 1 .. Len(ans) /\ a[i] = ans[i + 1]
    BY <1>1
  <2>2. /\ Count(ans, ToWrits, i + 1) = Count(a, ToWrits, i) + 0
        /\ Count(ans, {"done"}, i + 1) = Count(a, {"done"}, i) + 0
    BY <1>1, <1>2, <2>1, CountTail DEF a
  <2>3. Count(a, ToWrits, i) \in Nat /\ Count(a, {"done"}, i) \in Nat
    BY <2>1, CountType
  <2> QED
    BY <2>1, <2>2, <2>3
<1>4. Nth(a) = Nth(ans)
  <2>1. Nth(ans) = Nth(a) + 0
    BY NthTail DEF a
  <2>2. Nth(a) \in Nat
    BY <1>1, NthType
  <2> QED
    BY <2>1, <2>2
<1>5. \A i \in 1 .. Len(a) :
        /\ a[i].tag \in ToWrits =>
             /\ Count(a, ToWrits, i) \in 1 .. Len(ws)
             /\ Fits(a[i], ws[Count(a, ToWrits, i)])
        /\ a[i].tag = "done" => a[i].eve = e + Count(a, {"done"}, i)
  BY <1>3, TalkAt
<1>6. Nth(a) + Len(ts) <= Len(ws) /\ \A i \in 1 .. Len(ts) : ts[i] = TaskOf(ws[Nth(a) + i])
  BY <1>4 DEF Talk
<1>7. Talk(a, ts, ws, e)
  BY <1>5, <1>6 DEF Talk
<1> QED
  BY <1>7 DEF a

\* New writs are behind the others, and their tasks behind those not taken.
LEMMA TalkSend ==
    ASSUME NEW ans \in Seq(Gift), NEW ts \in Seq(Task), NEW ws \in Seq(Writs),
           NEW e \in Nat, Talk(ans, ts, ws, e), NEW new \in Seq(Writs),
           NEW more \in Seq(Task), Len(more) = Len(new),
           \A i \in 1 .. Len(new) : more[i] = TaskOf(new[i])
    PROVE  /\ Nth(ans) + Len(ts) = Len(ws) => Talk(ans, ts \o more, ws \o new, e)
           /\ ts = <<>> => Talk(ans, ts, ws \o new, e)
<1> DEFINE v == ws \o new
           u == ts \o more
<1>1. /\ v \in Seq(Writs) /\ Len(ws) \in Nat /\ Len(new) \in Nat
      /\ Len(v) = Len(ws) + Len(new)
      /\ \A i \in 1 .. Len(ws) : v[i] = ws[i]
      /\ \A i \in Len(ws) + 1 .. Len(ws) + Len(new) : v[i] = new[i - Len(ws)]
  BY RowConcat
<1>2. /\ u \in Seq(Task) /\ Len(ts) \in Nat /\ Len(more) \in Nat
      /\ Len(u) = Len(ts) + Len(more)
      /\ \A i \in 1 .. Len(ts) : u[i] = ts[i]
      /\ \A i \in Len(ts) + 1 .. Len(ts) + Len(more) : u[i] = more[i - Len(ts)]
  BY RowConcat
<1> HIDE DEF u, v
<1>3. \A i \in 1 .. Len(ans) :
        /\ ans[i].tag \in ToWrits =>
             /\ Count(ans, ToWrits, i) \in 1 .. Len(v)
             /\ Fits(ans[i], v[Count(ans, ToWrits, i)])
        /\ ans[i].tag = "done" => ans[i].eve = e + Count(ans, {"done"}, i)
  <2> TAKE i \in 1 .. Len(ans)
  <2>1. ASSUME Count(ans, ToWrits, i) \in 1 .. Len(ws)
        PROVE  /\ Count(ans, ToWrits, i) \in 1 .. Len(v)
               /\ v[Count(ans, ToWrits, i)] = ws[Count(ans, ToWrits, i)]
    BY <1>1, <2>1
  <2> QED
    BY <2>1, TalkAt
<1>4. Nth(ans) \in Nat /\ Nth(ans) + Len(ts) <= Len(ws)
      /\ \A i \in 1 .. Len(ts) : ts[i] = TaskOf(ws[Nth(ans) + i])
  BY NthType DEF Talk
<1>5. ASSUME ts = <<>>
      PROVE  Talk(ans, ts, v, e)
  <2>1. Nth(ans) + Len(ts) <= Len(v) /\ Len(ts) = 0
    BY <1>1, <1>2, <1>4, <1>5
  <2> QED
    BY <1>2, <1>3, <2>1 DEF Talk
<1>6. ASSUME Nth(ans) + Len(ts) = Len(ws)
      PROVE  Talk(ans, u, v, e)
  <2>1. Nth(ans) + Len(u) <= Len(v)
    BY <1>1, <1>2, <1>4, <1>6
  <2>2. ASSUME NEW i \in 1 .. Len(u)
        PROVE  u[i] = TaskOf(v[Nth(ans) + i])
    <3>1. CASE i <= Len(ts)
      <4>1. i \in 1 .. Len(ts) /\ Nth(ans) + i \in 1 .. Len(ws)
        BY <1>1, <1>2, <1>4, <3>1
      <4> QED
        BY <1>1, <1>2, <1>4, <4>1
    <3>2. CASE i > Len(ts)
      <4>1. /\ i \in Len(ts) + 1 .. Len(ts) + Len(more) /\ i - Len(ts) \in 1 .. Len(new)
            /\ Nth(ans) + i \in Len(ws) + 1 .. Len(ws) + Len(new)
            /\ (Nth(ans) + i) - Len(ws) = i - Len(ts)
        BY <1>1, <1>2, <1>4, <1>6, <3>2, SMTT(30)
      <4>2. u[i] = more[i - Len(ts)] /\ v[Nth(ans) + i] = new[i - Len(ts)]
        BY <1>1, <1>2, <4>1
      <4> QED
        BY <4>1, <4>2
    <3> QED
      BY <1>2, <3>1, <3>2
  <2> QED
    BY <1>3, <2>1, <2>2 DEF Talk
<1> QED
  BY <1>5, <1>6 DEF u, v

\* The first task is answered, behind all other answers.
LEMMA TalkAnswer ==
    ASSUME NEW ans \in Seq(Gift), NEW ts \in Seq(Task), NEW ws \in Seq(Writs),
           NEW e \in Nat, Talk(ans, ts, ws, e), ts # <<>>,
           NEW g \in Gift, g.tag \in ToWrits, g.id = Head(ts).id,
           Head(ts).tag = IF g.tag \in {"done", "bail"} THEN "poke" ELSE g.tag,
           g.tag = "done" => g.eve = e + (Dones(ans) + 1)
    PROVE  Talk(Append(ans, g), Tail(ts), ws, e)
<1> DEFINE a == Append(ans, g)
           u == Tail(ts)
           n == Len(ans) + 1
<1>1. /\ a \in Seq(Gift) /\ Len(ans) \in Nat /\ Len(a) = n /\ a[n] = g
      /\ \A i \in 1 .. Len(ans) : a[i] = ans[i]
  BY RowAppend
<1>2. /\ u \in Seq(Task) /\ Head(ts) = ts[1] /\ Len(ts) \in Nat \ {0}
      /\ Len(u) = Len(ts) - 1
      /\ \A i \in 1 .. Len(ts) - 1 : u[i] = ts[i + 1]
  BY RowTail
<1>3. /\ \A i \in 0 .. Len(ans) : Count(a, ToWrits, i) = Count(ans, ToWrits, i)
      /\ \A i \in 0 .. Len(ans) : Count(a, {"done"}, i) = Count(ans, {"done"}, i)
      /\ Count(a, ToWrits, n) = Count(ans, ToWrits, Len(ans)) + 1
      /\ g.tag = "done" => Count(a, {"done"}, n) = Count(ans, {"done"}, Len(ans)) + 1
  <2>1. ASSUME NEW tags
        PROVE  /\ \A i \in 0 .. Len(ans) : Count(a, tags, i) = Count(ans, tags, i)
               /\ g.tag \in tags => Count(a, tags, n) = Count(ans, tags, Len(ans)) + 1
    <3>1. /\ \A i \in 0 .. Len(ans) : Count(a, tags, i) = Count(ans, tags, i)
          /\ Count(a, tags, n) = Count(ans, tags, Len(ans)) + IF g.tag \in tags THEN 1 ELSE 0
      BY CountAppend, Zenon
    <3> QED
      BY <3>1, Zenon
  <2> HIDE DEF a, n
  <2> QED
    BY <2>1
<1>4. /\ Nth(ans) = Count(ans, ToWrits, Len(ans))
      /\ Dones(ans) = Count(ans, {"done"}, Len(ans))
      /\ Nth(a) = Count(a, ToWrits, Len(a))
  BY DEF Nth, Dones
<1>5. Nth(ans) \in Nat /\ Nth(ans) + Len(ts) <= Len(ws)
      /\ \A i \in 1 .. Len(ts) : ts[i] = TaskOf(ws[Nth(ans) + i])
      /\ Len(ws) \in Nat
  BY NthType DEF Talk
<1> HIDE DEF a, u, n
<1>6. /\ Nth(ans) + 1 \in 1 .. Len(ws)
      /\ ts[1] = TaskOf(ws[Nth(ans) + 1])
  BY <1>2, <1>5
<1>7. Fits(g, ws[Nth(ans) + 1])
  BY <1>2, <1>6 DEF Fits, TaskOf
<1>8. ASSUME NEW i \in 1 .. Len(a)
      PROVE  /\ a[i].tag \in ToWrits =>
                  /\ Count(a, ToWrits, i) \in 1 .. Len(ws)
                  /\ Fits(a[i], ws[Count(a, ToWrits, i)])
             /\ a[i].tag = "done" => a[i].eve = e + Count(a, {"done"}, i)
  <2>1. CASE i \in 1 .. Len(ans)
    <3>1. i \in 0 .. Len(ans) /\ a[i] = ans[i]
      BY <1>1, <2>1
    <3>2. /\ Count(a, ToWrits, i) = Count(ans, ToWrits, i)
          /\ Count(a, {"done"}, i) = Count(ans, {"done"}, i)
      BY <1>3, <3>1
    <3> QED
      BY <2>1, <3>1, <3>2, TalkAt
  <2>2. CASE i = n
    BY <1>1, <1>3, <1>4, <1>6, <1>7, <2>2
  <2> QED
    BY <1>1, <2>1, <2>2 DEF n
<1>9. Nth(a) = Nth(ans) + 1
  BY <1>1, <1>3, <1>4
<1>10. Nth(a) + Len(u) <= Len(ws)
  BY <1>2, <1>5, <1>9
<1>11. ASSUME NEW i \in 1 .. Len(u)
       PROVE  u[i] = TaskOf(ws[Nth(a) + i])
  <2>1. i \in 1 .. Len(ts) - 1 /\ i + 1 \in 1 .. Len(ts)
    BY <1>2
  <2>2. u[i] = ts[i + 1] /\ Nth(ans) + (i + 1) = Nth(a) + i
    BY <1>2, <1>5, <1>9, <2>1
  <2> QED
    BY <1>5, <2>1, <2>2
<1>12. Talk(a, u, ws, e)
  BY <1>8, <1>10, <1>11 DEF Talk
<1> QED
  BY <1>12 DEF a, u

\* An answer to no writ comes behind the others.
LEMMA TalkAside ==
    ASSUME NEW ans \in Seq(Gift), NEW ts \in Seq(Task), NEW ws \in Seq(Writs),
           NEW e \in Nat, Talk(ans, ts, ws, e), NEW g \in Gift, g.tag \notin ToWrits
    PROVE  Talk(Append(ans, g), ts, ws, e)
<1> DEFINE a == Append(ans, g)
<1>1. /\ a \in Seq(Gift) /\ Len(ans) \in Nat
      /\ Len(a) = Len(ans) + 1 /\ a[Len(ans) + 1] = g
      /\ \A i \in 1 .. Len(ans) : a[i] = ans[i]
  BY RowAppend
<1>2. \A tags : \A i \in 0 .. Len(ans) : Count(a, tags, i) = Count(ans, tags, i)
  BY CountAppend, SMTT(30)
<1>3. Nth(a) = Nth(ans)
  BY NthAppend, NthType
<1>4. g.tag # "done"
  BY DEF ToWrits, GiftTags
<1> HIDE DEF a
<1>5. ASSUME NEW i \in 1 .. Len(a)
      PROVE  /\ a[i].tag \in ToWrits =>
                  /\ Count(a, ToWrits, i) \in 1 .. Len(ws)
                  /\ Fits(a[i], ws[Count(a, ToWrits, i)])
             /\ a[i].tag = "done" => a[i].eve = e + Count(a, {"done"}, i)
  <2>1. CASE i \in 1 .. Len(ans)
    <3>1. i \in 0 .. Len(ans) /\ a[i] = ans[i]
      BY <1>1, <2>1
    <3>2. /\ Count(a, ToWrits, i) = Count(ans, ToWrits, i)
          /\ Count(a, {"done"}, i) = Count(ans, {"done"}, i)
      BY <1>2, <3>1
    <3> QED
      BY <2>1, <3>1, <3>2, TalkAt
  <2>2. CASE i = Len(ans) + 1
    BY <1>1, <1>4, <2>2
  <2> QED
    BY <1>1, <2>1, <2>2
<1>6. Nth(a) + Len(ts) <= Len(ws) /\ \A i \in 1 .. Len(ts) : ts[i] = TaskOf(ws[Nth(a) + i])
  BY <1>3 DEF Talk
<1>7. Talk(a, ts, ws, e)
  BY <1>5, <1>6 DEF Talk
<1> QED
  BY <1>7 DEF a

\* A serf that ends leaves a part of the answers and takes no task.
LEMMA TalkPart ==
    ASSUME NEW ans \in Seq(Gift), NEW ts \in Seq(Task), NEW ws \in Seq(Writs),
           NEW e \in Nat, Talk(ans, ts, ws, e), NEW m \in 0 .. Len(ans)
    PROVE  /\ Talk(SubSeq(ans, 1, m), <<>>, ws, e)
           /\ Nth(SubSeq(ans, 1, m)) = Count(ans, ToWrits, m)
           /\ Dones(SubSeq(ans, 1, m)) = Count(ans, {"done"}, m)
<1> DEFINE a == SubSeq(ans, 1, m)
<1>1. /\ a \in Seq(Gift) /\ Len(ans) \in Nat /\ Len(a) = m
      /\ \A i \in 1 .. m : a[i] = ans[i]
  BY RowPart
<1>2. /\ \A i \in 0 .. m : Count(a, ToWrits, i) = Count(ans, ToWrits, i)
      /\ \A i \in 0 .. m : Count(a, {"done"}, i) = Count(ans, {"done"}, i)
  BY CountPart
<1> HIDE DEF a
<1>3. m \in 0 .. m
  OBVIOUS
<1>4. Nth(a) = Count(ans, ToWrits, m) /\ Dones(a) = Count(ans, {"done"}, m)
  BY <1>1, <1>2, <1>3 DEF Nth, Dones
<1>5. ASSUME NEW i \in 1 .. Len(a)
      PROVE  /\ a[i].tag \in ToWrits =>
                  /\ Count(a, ToWrits, i) \in 1 .. Len(ws)
                  /\ Fits(a[i], ws[Count(a, ToWrits, i)])
             /\ a[i].tag = "done" => a[i].eve = e + Count(a, {"done"}, i)
  <2>1. i \in 0 .. m /\ i \in 1 .. Len(ans) /\ a[i] = ans[i]
    BY <1>1
  <2>2. /\ Count(a, ToWrits, i) = Count(ans, ToWrits, i)
        /\ Count(a, {"done"}, i) = Count(ans, {"done"}, i)
    BY <1>2, <2>1
  <2> QED
    BY <2>1, <2>2, TalkAt
<1>6. Nth(a) + Len(<<>>) <= Len(ws) /\ Len(<<>>) = 0
  <2>1. m \in 0 .. Len(ans)
    OBVIOUS
  <2>2. Count(ans, ToWrits, m) \in Nat /\ Count(ans, ToWrits, m) <= Nth(ans)
    BY <2>1, NthType
  <2>3. Nth(ans) + Len(ts) <= Len(ws) /\ Nth(ans) \in Nat /\ Len(ts) \in Nat /\ Len(ws) \in Nat
    BY NthType DEF Talk
  <2> QED
    BY <1>4, <2>2, <2>3
<1>7. Talk(a, <<>>, ws, e)
  BY <1>5, <1>6 DEF Talk
<1> QED
  BY <1>4, <1>7 DEF a
-----------------------------------------------------------------------------
(* The line of ova. *)

\* InsertAt() moves what is behind the place and nothing else.
LEMMA RowInsert ==
    ASSUME NEW S, NEW s \in Seq(S), NEW e \in S, NEW k \in 1 .. Len(s) + 1
    PROVE  /\ InsertAt(s, k, e) \in Seq(S) /\ Len(s) \in Nat
           /\ Len(InsertAt(s, k, e)) = Len(s) + 1
           /\ \A i \in 1 .. k - 1 : InsertAt(s, k, e)[i] = s[i]
           /\ InsertAt(s, k, e)[k] = e
           /\ \A i \in k + 1 .. Len(s) + 1 : InsertAt(s, k, e)[i] = s[i - 1]
<1> DEFINE a == SubSeq(s, 1, k - 1)
           b == SubSeq(s, k, Len(s))
           c == a \o <<e>>
           q == c \o b
<1>1. /\ a \in Seq(S) /\ Len(a) = k - 1 /\ Len(s) \in Nat /\ k \in Nat
      /\ \A i \in 1 .. k - 1 : a[i] = s[i]
  <2>1. Len(s) \in Nat /\ k \in Nat /\ k - 1 \in 0 .. Len(s)
    OBVIOUS
  <2> QED
    BY <2>1, RowPart
<1>2. /\ b \in Seq(S) /\ Len(b) = Len(s) - (k - 1)
      /\ \A i \in 1 .. Len(s) - (k - 1) : b[i] = s[i + (k - 1)]
  <2>1. PICK m \in 0 .. Len(s) : m = k - 1 /\ m + 1 = k
    BY <1>1
  <2>2. /\ SubSeq(s, m + 1, Len(s)) \in Seq(S)
        /\ Len(SubSeq(s, m + 1, Len(s))) = Len(s) - m
        /\ \A i \in 1 .. Len(s) - m : SubSeq(s, m + 1, Len(s))[i] = s[i + m]
    BY RowRest
  <2> QED
    BY <2>1, <2>2
<1>3. <<e>> \in Seq(S) /\ Len(<<e>>) = 1 /\ <<e>>[1] = e
  OBVIOUS
<1> HIDE DEF a, b
<1>4. /\ c \in Seq(S) /\ Len(c) = k
      /\ \A i \in 1 .. k - 1 : c[i] = s[i]
      /\ c[k] = e
  <2>1. /\ c \in Seq(S) /\ Len(c) = Len(a) + Len(<<e>>)
        /\ \A i \in 1 .. Len(a) : c[i] = a[i]
        /\ \A i \in Len(a) + 1 .. Len(a) + Len(<<e>>) : c[i] = <<e>>[i - Len(a)]
    BY <1>1, <1>3, RowConcat
  <2>2. k \in Len(a) + 1 .. Len(a) + Len(<<e>>) /\ k - Len(a) = 1
    BY <1>1, <1>3
  <2>3. c[k] = <<e>>[k - Len(a)]
    BY <2>1, <2>2
  <2>4. c[k] = e
    BY <1>3, <2>2, <2>3
  <2> HIDE DEF c
  <2> QED
    BY <1>1, <1>3, <2>1, <2>4
<1> HIDE DEF c
<1>5. /\ q \in Seq(S) /\ Len(q) = Len(c) + Len(b)
      /\ \A i \in 1 .. Len(c) : q[i] = c[i]
      /\ \A i \in Len(c) + 1 .. Len(c) + Len(b) : q[i] = b[i - Len(c)]
  BY <1>2, <1>4, RowConcat
<1>6. InsertAt(s, k, e) = q
  BY DEF InsertAt, a, b, c
<1> HIDE DEF q
<1>7. ASSUME NEW i \in k + 1 .. Len(s) + 1
      PROVE  q[i] = s[i - 1]
  <2>1. /\ i \in Len(c) + 1 .. Len(c) + Len(b)
        /\ i - Len(c) \in 1 .. Len(s) - (k - 1) /\ (i - Len(c)) + (k - 1) = i - 1
    BY <1>1, <1>2, <1>4
  <2>2. q[i] = b[i - Len(c)] /\ b[i - Len(c)] = s[(i - Len(c)) + (k - 1)]
    BY <1>2, <1>5, <2>1
  <2> QED
    BY <2>1, <2>2
<1>8. Len(q) = Len(s) + 1 /\ \A i \in 1 .. k - 1 : q[i] = s[i]
  BY <1>1, <1>2, <1>4, <1>5
<1>9. q[k] = e
  BY <1>1, <1>4, <1>5
<1> QED
  BY <1>1, <1>5, <1>6, <1>7, <1>8, <1>9

\* The events of a part of the line.
LEMMA LineBegins ==
    ASSUME NEW o, NEW a \in Seq(Ids), NEW b \in Seq(Ids), NEW ts, NEW pl,
           Line(o, b, ts, pl), Begins(a, b)
    PROVE  Line(o, a, ts, pl)
<1>1. \A i \in 1 .. Len(a) : i \in 1 .. Len(b) /\ a[i] = b[i]
  BY DEF Begins
<1>2. /\ \A i \in 1 .. Len(ts) : ts[i].tag = "poke" =>
           /\ ts[i].id \in 1 .. Len(o)
           /\ \A j \in 1 .. Len(ts) :
                i < j /\ ts[j].tag = "poke" => Before(o, ts[i].id, ts[j].id)
           /\ \A j \in 1 .. Len(pl) : Before(o, ts[i].id, pl[j].id)
      /\ \A i \in 1 .. Len(pl) :
           /\ pl[i].id \in 1 .. Len(o) /\ o[pl[i].id] = pl[i].drv
           /\ \A j \in 1 .. Len(pl) : i < j => Before(o, pl[i].id, pl[j].id)
  BY DEF Line
<1>3. ASSUME NEW i \in 1 .. Len(a)
      PROVE  /\ a[i] \in 1 .. Len(o)
             /\ \A j \in 1 .. Len(a) : i < j => Before(o, a[i], a[j])
             /\ \A j \in 1 .. Len(ts) : ts[j].tag = "poke" => Before(o, a[i], ts[j].id)
             /\ \A j \in 1 .. Len(pl) : Before(o, a[i], pl[j].id)
  BY <1>1 DEF Line
<1> QED
  BY <1>2, <1>3 DEF Line

\* Tasks, or plans, that are given up.
LEMMA LineLess ==
    ASSUME NEW o, NEW s, NEW ts, NEW pl, Line(o, s, ts, pl)
    PROVE  Line(o, s, <<>>, pl) /\ Line(o, s, ts, <<>>)
<1>1. Len(<<>>) = 0
  OBVIOUS
<1> QED
  BY <1>1 DEF Line

\* More ova than those of the line.
LEMMA LineMore ==
    ASSUME NEW D, NEW o \in Seq(D), NEW p \in Seq(D), Begins(o, p),
           NEW s \in Seq(Ids), NEW ts \in Seq(Task), NEW pl \in Seq(Eggs),
           Line(o, s, ts, pl)
    PROVE  Line(p, s, ts, pl)
<1>1. \A x, y \in 1 .. Len(o) : Before(o, x, y) => Before(p, x, y)
  BY DEF Before, Begins
<1>2. \A x \in 1 .. Len(o) : x \in 1 .. Len(p) /\ p[x] = o[x]
  BY DEF Begins
<1>3. /\ \A i \in 1 .. Len(s) : s[i] \in 1 .. Len(o)
      /\ \A i \in 1 .. Len(ts) : ts[i].tag = "poke" => ts[i].id \in 1 .. Len(o)
      /\ \A i \in 1 .. Len(pl) : pl[i].id \in 1 .. Len(o)
  BY DEF Line
<1>4. ASSUME NEW i \in 1 .. Len(s)
      PROVE  /\ s[i] \in 1 .. Len(p)
             /\ \A j \in 1 .. Len(s) : i < j => Before(p, s[i], s[j])
             /\ \A j \in 1 .. Len(ts) : ts[j].tag = "poke" => Before(p, s[i], ts[j].id)
             /\ \A j \in 1 .. Len(pl) : Before(p, s[i], pl[j].id)
  BY <1>1, <1>2, <1>3 DEF Line
<1>5. ASSUME NEW i \in 1 .. Len(ts), ts[i].tag = "poke"
      PROVE  /\ ts[i].id \in 1 .. Len(p)
             /\ \A j \in 1 .. Len(ts) :
                  i < j /\ ts[j].tag = "poke" => Before(p, ts[i].id, ts[j].id)
             /\ \A j \in 1 .. Len(pl) : Before(p, ts[i].id, pl[j].id)
  BY <1>1, <1>2, <1>3, <1>5 DEF Line
<1>6. ASSUME NEW i \in 1 .. Len(pl)
      PROVE  /\ pl[i].id \in 1 .. Len(p) /\ p[pl[i].id] = pl[i].drv
             /\ \A j \in 1 .. Len(pl) : i < j => Before(p, pl[i].id, pl[j].id)
  BY <1>1, <1>2, <1>3 DEF Line
<1> QED
  BY <1>4, <1>5, <1>6 DEF Line

\* The first task is taken, and computed if it is an ovum.
LEMMA LineTake ==
    ASSUME NEW o, NEW s \in Seq(Ids), NEW ts \in Seq(Task), NEW pl,
           Line(o, s, ts, pl), ts # <<>>
    PROVE  /\ Line(o, s, Tail(ts), pl)
           /\ Head(ts).tag = "poke" /\ Head(ts).id \in Ids =>
                /\ \A i \in 1 .. Len(s) : s[i] # Head(ts).id
                /\ Line(o, Append(s, Head(ts).id), Tail(ts), pl)
<1> DEFINE u == Tail(ts)
           x == Head(ts).id
           t == Append(s, x)
<1>1. /\ u \in Seq(Task) /\ Head(ts) = ts[1]
      /\ Len(ts) \in Nat \ {0} /\ Len(u) = Len(ts) - 1
      /\ \A i \in 1 .. Len(ts) - 1 : u[i] = ts[i + 1]
  BY RowTail
<1>2. \A i \in 1 .. Len(u) : i + 1 \in 1 .. Len(ts) /\ u[i] = ts[i + 1] /\ 1 < i + 1
  BY <1>1
<1>3. \A i, j \in 1 .. Len(u) : i < j => i + 1 < j + 1
  BY <1>1
<1>4. 1 \in 1 .. Len(ts)
  BY <1>1
<1> HIDE DEF u
<1>5. \A i \in 1 .. Len(u) : u[i].tag = "poke" =>
         /\ u[i].id \in 1 .. Len(o)
         /\ \A j \in 1 .. Len(u) :
              i < j /\ u[j].tag = "poke" => Before(o, u[i].id, u[j].id)
         /\ \A j \in 1 .. Len(pl) : Before(o, u[i].id, pl[j].id)
  BY <1>2, <1>3 DEF Line
<1>6. Line(o, s, u, pl)
  BY <1>2, <1>5 DEF Line
<1>7. ASSUME Head(ts).tag = "poke", x \in Ids
      PROVE  /\ \A i \in 1 .. Len(s) : s[i] # x
             /\ Line(o, t, u, pl)
  <2>1. /\ x \in 1 .. Len(o)
        /\ \A i \in 1 .. Len(s) : Before(o, s[i], x)
        /\ \A j \in 1 .. Len(pl) : Before(o, x, pl[j].id)
    BY <1>1, <1>4, <1>7 DEF Line
  <2>2. \A j \in 1 .. Len(u) : u[j].tag = "poke" => Before(o, x, u[j].id)
    BY <1>1, <1>2, <1>4, <1>7 DEF Line
  <2>3. /\ t \in Seq(Ids) /\ Len(s) \in Nat /\ Len(t) = Len(s) + 1
        /\ t[Len(s) + 1] = x
        /\ \A i \in 1 .. Len(s) : t[i] = s[i]
    BY <1>7, RowAppend
  <2> HIDE DEF t, x
  <2>4. ASSUME NEW i \in 1 .. Len(t)
        PROVE  (i \in 1 .. Len(s) /\ t[i] = s[i]) \/ (i = Len(t) /\ t[i] = x)
    BY <2>3
  <2>5. ASSUME NEW i \in 1 .. Len(t)
        PROVE  /\ t[i] \in 1 .. Len(o)
               /\ \A j \in 1 .. Len(u) : u[j].tag = "poke" => Before(o, t[i], u[j].id)
               /\ \A j \in 1 .. Len(pl) : Before(o, t[i], pl[j].id)
    BY <1>6, <2>1, <2>2, <2>4 DEF Line
  <2>6. ASSUME NEW i \in 1 .. Len(t), NEW j \in 1 .. Len(t), i < j
        PROVE  Before(o, t[i], t[j])
    <3>1. i \in 1 .. Len(s) /\ t[i] = s[i]
      BY <2>3, <2>6
    <3>2. CASE j \in 1 .. Len(s) /\ t[j] = s[j]
      BY <1>6, <2>6, <3>1, <3>2 DEF Line
    <3>3. CASE t[j] = x
      BY <2>1, <3>1, <3>3
    <3> QED
      BY <2>4, <3>2, <3>3
  <2>7. \A i \in 1 .. Len(pl) :
           /\ pl[i].id \in 1 .. Len(o) /\ o[pl[i].id] = pl[i].drv
           /\ \A j \in 1 .. Len(pl) : i < j => Before(o, pl[i].id, pl[j].id)
    BY DEF Line
  <2>8. Line(o, t, u, pl)
    BY <1>5, <2>5, <2>6, <2>7 DEF Line
  <2>9. \A i \in 1 .. Len(s) : s[i] # x
    BY <2>1 DEF Before
  <2> QED
    BY <2>8, <2>9
<1> QED
  BY <1>6, <1>7 DEF u

\* An ovum e takes its place at the k-th of those planned.
LEMMA LineInsert ==
    ASSUME NEW o, NEW s \in Seq(Ids), NEW ts \in Seq(Task), NEW pl \in Seq(Eggs),
           Line(o, s, ts, pl), NEW e \in Eggs, NEW k \in 1 .. Len(pl) + 1,
           e.id \in 1 .. Len(o), o[e.id] = e.drv,
           \A i \in 1 .. Len(s) : Before(o, s[i], e.id),
           \A i \in 1 .. Len(ts) : ts[i].tag = "poke" => Before(o, ts[i].id, e.id),
           \A i \in 1 .. k - 1 : Before(o, pl[i].id, e.id),
           \A i \in k .. Len(pl) : Before(o, e.id, pl[i].id)
    PROVE  Line(o, s, ts, InsertAt(pl, k, e))
<1> DEFINE q == InsertAt(pl, k, e)
<1>1. /\ q \in Seq(Eggs) /\ Len(pl) \in Nat /\ Len(q) = Len(pl) + 1
      /\ \A i \in 1 .. k - 1 : q[i] = pl[i]
      /\ q[k] = e
      /\ \A i \in k + 1 .. Len(pl) + 1 : q[i] = pl[i - 1]
  BY RowInsert
<1> HIDE DEF q
<1>2. ASSUME NEW i \in 1 .. Len(q)
      PROVE  \/ i \in 1 .. k - 1 /\ i \in 1 .. Len(pl) /\ q[i] = pl[i]
             \/ i = k /\ q[i] = e
             \/ i - 1 \in k .. Len(pl) /\ i - 1 \in 1 .. Len(pl) /\ q[i] = pl[i - 1]
  <2>1. i \in 1 .. k - 1 \/ i = k \/ i \in k + 1 .. Len(pl) + 1
    BY <1>1
  <2>2. CASE i \in 1 .. k - 1
    BY <1>1, <2>2
  <2>3. CASE i = k
    BY <1>1, <2>3
  <2>4. CASE i \in k + 1 .. Len(pl) + 1
    BY <1>1, <2>4
  <2> QED
    BY <2>1, <2>2, <2>3, <2>4
<1>3. /\ \A i, j \in 1 .. Len(pl) : i < j => Before(o, pl[i].id, pl[j].id)
      /\ \A i \in 1 .. Len(pl) : pl[i].id \in 1 .. Len(o) /\ o[pl[i].id] = pl[i].drv
      /\ \A i \in 1 .. Len(s), j \in 1 .. Len(pl) : Before(o, s[i], pl[j].id)
      /\ \A i \in 1 .. Len(ts), j \in 1 .. Len(pl) :
           ts[i].tag = "poke" => Before(o, ts[i].id, pl[j].id)
  BY DEF Line
<1>4. ASSUME NEW j \in 1 .. Len(q)
      PROVE  /\ q[j].id \in 1 .. Len(o) /\ o[q[j].id] = q[j].drv
             /\ \A i \in 1 .. Len(s) : Before(o, s[i], q[j].id)
             /\ \A i \in 1 .. Len(ts) : ts[i].tag = "poke" => Before(o, ts[i].id, q[j].id)
  BY <1>2, <1>3
<1>5. ASSUME NEW i \in 1 .. Len(q), NEW j \in 1 .. Len(q), i < j
      PROVE  Before(o, q[i].id, q[j].id)
  <2>1. CASE i \in 1 .. k - 1 /\ i \in 1 .. Len(pl) /\ q[i] = pl[i]
    <3>1. CASE j \in 1 .. k - 1 /\ j \in 1 .. Len(pl) /\ q[j] = pl[j]
      BY <1>3, <1>5, <2>1, <3>1
    <3>2. CASE j = k /\ q[j] = e
      BY <2>1, <3>2
    <3>3. CASE j - 1 \in k .. Len(pl) /\ j - 1 \in 1 .. Len(pl) /\ q[j] = pl[j - 1]
      <4>1. i < j - 1
        BY <2>1, <3>3
      <4> QED
        BY <1>3, <2>1, <3>3, <4>1
    <3> QED
      BY <1>2, <3>1, <3>2, <3>3
  <2>2. CASE i = k /\ q[i] = e
    <3>1. j - 1 \in k .. Len(pl) /\ q[j] = pl[j - 1]
      BY <1>2, <1>5, <2>2
    <3> QED
      BY <2>2, <3>1
  <2>3. CASE i - 1 \in k .. Len(pl) /\ i - 1 \in 1 .. Len(pl) /\ q[i] = pl[i - 1]
    <3>1. j - 1 \in 1 .. Len(pl) /\ q[j] = pl[j - 1] /\ i - 1 < j - 1
      BY <1>2, <1>5, <2>3
    <3> QED
      BY <1>3, <2>3, <3>1
  <2> QED
    BY <1>2, <2>1, <2>2, <2>3
<1>6. Line(o, s, ts, q)
  BY <1>4, <1>5 DEF Line
<1> QED
  BY <1>6 DEF q
-----------------------------------------------------------------------------
(* Writs that are sent. *)

\* The ova among the writs new are from the first n of pl, in their order.
Drawn(new, pl, n) ==
    \E f \in [1 .. Len(new) -> Nat] :
        \A k \in 1 .. Len(new) : new[k].tag = "poke" =>
            /\ f[k] \in 1 .. n /\ new[k].egg = pl[f[k]]
            /\ \A j \in 1 .. Len(new) : k < j /\ new[j].tag = "poke" => f[k] < f[j]

\* One of two rows, one behind the other.
LEMMA RowEither ==
    ASSUME NEW S, NEW s \in Seq(S), NEW t \in Seq(S), NEW i \in 1 .. Len(s \o t)
    PROVE  \/ i \in 1 .. Len(s) /\ (s \o t)[i] = s[i]
           \/ i - Len(s) \in 1 .. Len(t) /\ (s \o t)[i] = t[i - Len(s)] /\ i > Len(s)
<1>1. /\ Len(s) \in Nat /\ Len(t) \in Nat /\ Len(s \o t) = Len(s) + Len(t)
      /\ \A k \in 1 .. Len(s) : (s \o t)[k] = s[k]
      /\ \A k \in Len(s) + 1 .. Len(s) + Len(t) : (s \o t)[k] = t[k - Len(s)]
  BY RowConcat
<1>2. i \in 1 .. Len(s) \/ i \in Len(s) + 1 .. Len(s) + Len(t)
  BY <1>1
<1>3. CASE i \in 1 .. Len(s)
  BY <1>1, <1>3
<1>4. CASE i \in Len(s) + 1 .. Len(s) + Len(t)
  <2>1. i - Len(s) \in 1 .. Len(t) /\ i > Len(s)
    BY <1>1, <1>4
  <2> QED
    BY <1>1, <1>4, <2>1
<1> QED
  BY <1>2, <1>3, <1>4

\* Ova that are sent keep their place in the line.
LEMMA LineSend ==
    ASSUME NEW o, NEW s \in Seq(Ids), NEW ts \in Seq(Task), NEW pl \in Seq(Eggs),
           Line(o, s, ts, pl), NEW n \in 0 .. Len(pl),
           NEW new \in Seq(Writs), Drawn(new, pl, n),
           NEW more \in Seq(Task), Len(more) = Len(new),
           \A i \in 1 .. Len(new) : more[i] = TaskOf(new[i])
    PROVE  /\ Line(o, s, ts \o more, SubSeq(pl, n + 1, Len(pl)))
           /\ Line(o, s, ts, SubSeq(pl, n + 1, Len(pl)))
<1> DEFINE u == ts \o more
           r == SubSeq(pl, n + 1, Len(pl))
<1>1. PICK f \in [1 .. Len(new) -> Nat] :
        \A k \in 1 .. Len(new) : new[k].tag = "poke" =>
            /\ f[k] \in 1 .. n /\ new[k].egg = pl[f[k]]
            /\ \A j \in 1 .. Len(new) : k < j /\ new[j].tag = "poke" => f[k] < f[j]
  BY DEF Drawn
<1>2. ASSUME NEW k \in 1 .. Len(more), more[k].tag = "poke"
      PROVE  /\ f[k] \in 1 .. n /\ f[k] \in 1 .. Len(pl) /\ more[k].id = pl[f[k]].id
             /\ \A j \in 1 .. Len(more) : k < j /\ more[j].tag = "poke" => f[k] < f[j]
  <2>1. ASSUME NEW j \in 1 .. Len(more)
        PROVE  /\ j \in 1 .. Len(new)
               /\ more[j].tag = new[j].tag /\ more[j].id = new[j].egg.id
    <3>1. j \in 1 .. Len(new)
      OBVIOUS
    <3>2. more[j] = TaskOf(new[j])
      BY <3>1
    <3> QED
      BY <3>1, <3>2 DEF TaskOf
  <2>2. k \in 1 .. Len(new) /\ new[k].tag = "poke" /\ more[k].id = new[k].egg.id
    BY <1>2, <2>1
  <2>3. /\ f[k] \in 1 .. n /\ new[k].egg = pl[f[k]]
        /\ \A j \in 1 .. Len(new) : k < j /\ new[j].tag = "poke" => f[k] < f[j]
    BY <1>1, <2>2
  <2>4. f[k] \in 1 .. Len(pl)
    BY <2>3
  <2> QED
    BY <2>1, <2>2, <2>3, <2>4
<1>3. /\ Len(ts) \in Nat
      /\ r \in Seq(Eggs) /\ Len(r) = Len(pl) - n /\ Len(pl) \in Nat
      /\ \A i \in 1 .. Len(pl) - n : r[i] = pl[i + n]
  BY RowRest
<1>4. ASSUME NEW i \in 1 .. Len(u)
      PROVE  \/ i \in 1 .. Len(ts) /\ u[i] = ts[i]
             \/ i - Len(ts) \in 1 .. Len(more) /\ u[i] = more[i - Len(ts)] /\ i > Len(ts)
  BY RowEither
<1> HIDE DEF u, r
<1>5. \A i \in 1 .. Len(r) : i + n \in 1 .. Len(pl) /\ r[i] = pl[i + n] /\ i + n > n
  BY <1>3
<1>6. /\ \A i, j \in 1 .. Len(pl) : i < j => Before(o, pl[i].id, pl[j].id)
      /\ \A i \in 1 .. Len(pl) : pl[i].id \in 1 .. Len(o) /\ o[pl[i].id] = pl[i].drv
      /\ \A i \in 1 .. Len(s), j \in 1 .. Len(pl) : Before(o, s[i], pl[j].id)
      /\ \A i \in 1 .. Len(ts), j \in 1 .. Len(pl) :
           ts[i].tag = "poke" => Before(o, ts[i].id, pl[j].id)
  BY DEF Line
<1>7. \A i \in 1 .. Len(r) :
         /\ r[i].id \in 1 .. Len(o) /\ o[r[i].id] = r[i].drv
         /\ \A j \in 1 .. Len(r) : i < j => Before(o, r[i].id, r[j].id)
  <2>1. \A i, j \in 1 .. Len(r) : i < j => i + n < j + n
    BY <1>3
  <2> QED
    BY <1>5, <1>6, <2>1
<1>8. ASSUME NEW i \in 1 .. Len(s)
      PROVE  /\ s[i] \in 1 .. Len(o)
             /\ \A j \in 1 .. Len(s) : i < j => Before(o, s[i], s[j])
             /\ \A j \in 1 .. Len(ts) : ts[j].tag = "poke" => Before(o, s[i], ts[j].id)
             /\ \A j \in 1 .. Len(r) : Before(o, s[i], r[j].id)
  BY <1>5, <1>6 DEF Line
<1>9. ASSUME NEW i \in 1 .. Len(ts), ts[i].tag = "poke"
      PROVE  /\ ts[i].id \in 1 .. Len(o)
             /\ \A j \in 1 .. Len(ts) :
                  i < j /\ ts[j].tag = "poke" => Before(o, ts[i].id, ts[j].id)
             /\ \A j \in 1 .. Len(r) : Before(o, ts[i].id, r[j].id)
  BY <1>5, <1>6, <1>9 DEF Line
<1>10. Line(o, s, ts, r)
  BY <1>7, <1>8, <1>9 DEF Line
<1>11. ASSUME NEW i \in 1 .. Len(u), u[i].tag = "poke"
       PROVE  /\ u[i].id \in 1 .. Len(o)
              /\ \A j \in 1 .. Len(s) : Before(o, s[j], u[i].id)
              /\ \A j \in 1 .. Len(r) : Before(o, u[i].id, r[j].id)
  <2>1. CASE i \in 1 .. Len(ts) /\ u[i] = ts[i]
    BY <1>8, <1>9, <1>11, <2>1
  <2>2. CASE i - Len(ts) \in 1 .. Len(more) /\ u[i] = more[i - Len(ts)] /\ i > Len(ts)
    <3>1. PICK q : q = f[i - Len(ts)]
      OBVIOUS
    <3>2. q \in 1 .. n /\ q \in 1 .. Len(pl) /\ u[i].id = pl[q].id
      BY <1>2, <1>11, <2>2, <3>1
    <3>3. \A j \in 1 .. Len(r) : q < j + n
      BY <1>3, <3>2
    <3> QED
      BY <1>5, <1>6, <3>2, <3>3
  <2> QED
    BY <1>4, <2>1, <2>2
<1>12. ASSUME NEW i \in 1 .. Len(u), u[i].tag = "poke",
              NEW j \in 1 .. Len(u), u[j].tag = "poke", i < j
       PROVE  Before(o, u[i].id, u[j].id)
  <2>1. CASE j \in 1 .. Len(ts) /\ u[j] = ts[j]
    <3>1. i \in 1 .. Len(ts) /\ u[i] = ts[i]
      BY <1>3, <1>4, <1>12, <2>1
    <3> QED
      BY <1>9, <1>12, <2>1, <3>1
  <2>2. CASE j - Len(ts) \in 1 .. Len(more) /\ u[j] = more[j - Len(ts)] /\ j > Len(ts)
    <3>1. f[j - Len(ts)] \in 1 .. Len(pl) /\ u[j].id = pl[f[j - Len(ts)]].id
      BY <1>2, <1>12, <2>2
    <3>2. CASE i \in 1 .. Len(ts) /\ u[i] = ts[i]
      BY <1>6, <1>12, <3>1, <3>2
    <3>3. CASE i - Len(ts) \in 1 .. Len(more) /\ u[i] = more[i - Len(ts)] /\ i > Len(ts)
      <4>1. f[i - Len(ts)] \in 1 .. Len(pl) /\ u[i].id = pl[f[i - Len(ts)]].id
        BY <1>2, <1>12, <3>3
      <4>2. i - Len(ts) < j - Len(ts)
        BY <1>3, <1>12
      <4>3. f[i - Len(ts)] < f[j - Len(ts)]
        BY <1>2, <1>12, <2>2, <3>3, <4>2
      <4> QED
        BY <1>6, <3>1, <4>1, <4>3
    <3> QED
      BY <1>4, <3>2, <3>3
  <2> QED
    BY <1>4, <2>1, <2>2
<1>13. Line(o, s, u, r)
  <2>1. \A i \in 1 .. Len(s) :
          /\ s[i] \in 1 .. Len(o)
          /\ \A j \in 1 .. Len(s) : i < j => Before(o, s[i], s[j])
          /\ \A j \in 1 .. Len(u) : u[j].tag = "poke" => Before(o, s[i], u[j].id)
          /\ \A j \in 1 .. Len(r) : Before(o, s[i], r[j].id)
    BY <1>8, <1>11
  <2>2. \A i \in 1 .. Len(u) : u[i].tag = "poke" =>
          /\ u[i].id \in 1 .. Len(o)
          /\ \A j \in 1 .. Len(u) :
               i < j /\ u[j].tag = "poke" => Before(o, u[i].id, u[j].id)
          /\ \A j \in 1 .. Len(r) : Before(o, u[i].id, r[j].id)
    BY <1>11, <1>12
  <2> QED
    BY <1>7, <2>1, <2>2 DEF Line
<1> QED
  BY <1>10, <1>13 DEF u, r

\* Ovum x is sent at once.
LEMMA LineOne ==
    ASSUME NEW o, NEW s \in Seq(Ids), NEW ts \in Seq(Task), NEW pl \in Seq(Eggs),
           Line(o, s, ts, pl), NEW t \in Task, NEW x \in 1 .. Len(o), t.id = x,
           \A i \in 1 .. Len(s) : Before(o, s[i], x),
           \A i \in 1 .. Len(ts) : ts[i].tag = "poke" => Before(o, ts[i].id, x),
           \A i \in 1 .. Len(pl) : Before(o, x, pl[i].id)
    PROVE  Line(o, s, ts \o <<t>>, pl)
<1> DEFINE u == ts \o <<t>>
<1>1. /\ u = Append(ts, t) /\ Append(ts, t) \in Seq(Task) /\ Len(ts) \in Nat
      /\ Len(Append(ts, t)) = Len(ts) + 1
      /\ Append(ts, t)[Len(ts) + 1] = t
      /\ \A i \in 1 .. Len(ts) : Append(ts, t)[i] = ts[i]
  OBVIOUS
<1>2. /\ Len(u) = Len(ts) + 1 /\ u[Len(ts) + 1] = t
      /\ \A i \in 1 .. Len(ts) : u[i] = ts[i]
  BY <1>1
<1> HIDE DEF u
<1>3. ASSUME NEW i \in 1 .. Len(u)
      PROVE  (i \in 1 .. Len(ts) /\ u[i] = ts[i]) \/ (i = Len(u) /\ u[i] = t)
  BY <1>1, <1>2
<1>4. ASSUME NEW i \in 1 .. Len(u), u[i].tag = "poke"
      PROVE  /\ u[i].id \in 1 .. Len(o)
             /\ \A j \in 1 .. Len(s) : Before(o, s[j], u[i].id)
             /\ \A j \in 1 .. Len(pl) : Before(o, u[i].id, pl[j].id)
  <2>1. CASE i \in 1 .. Len(ts) /\ u[i] = ts[i]
    BY <1>4, <2>1 DEF Line
  <2>2. CASE u[i] = t
    BY <2>2
  <2> QED
    BY <1>3, <2>1, <2>2
<1>5. ASSUME NEW i \in 1 .. Len(u), u[i].tag = "poke",
             NEW j \in 1 .. Len(u), u[j].tag = "poke", i < j
      PROVE  Before(o, u[i].id, u[j].id)
  <2>1. i \in 1 .. Len(ts) /\ u[i] = ts[i]
    BY <1>1, <1>2, <1>3, <1>5
  <2>2. CASE j \in 1 .. Len(ts) /\ u[j] = ts[j]
    BY <1>5, <2>1, <2>2 DEF Line
  <2>3. CASE u[j] = t
    BY <1>5, <2>1, <2>3
  <2> QED
    BY <1>3, <2>2, <2>3
<1>6. \A i \in 1 .. Len(s) :
        /\ s[i] \in 1 .. Len(o)
        /\ \A j \in 1 .. Len(s) : i < j => Before(o, s[i], s[j])
        /\ \A j \in 1 .. Len(pl) : Before(o, s[i], pl[j].id)
  BY DEF Line
<1>7. \A i \in 1 .. Len(pl) :
         /\ pl[i].id \in 1 .. Len(o) /\ o[pl[i].id] = pl[i].drv
         /\ \A j \in 1 .. Len(pl) : i < j => Before(o, pl[i].id, pl[j].id)
  BY DEF Line
<1>8. Line(o, s, u, pl)
  BY <1>4, <1>5, <1>6, <1>7 DEF Line
<1> QED
  BY <1>8 DEF u
\* Halves of odd and even numbers.
LEMMA Halves ==
    ASSUME NEW k \in Nat
    PROVE  /\ k % 2 = 1 => (k + 1) \div 2 \in Nat /\ 2 * ((k + 1) \div 2) = k + 1
           /\ k % 2 # 1 => k \div 2 \in Nat /\ 2 * (k \div 2) = k
OBVIOUS

\* Each of the row t comes from the row p, of a, or the row q, of b, and what comes
\* from p has kept its order.
InTurn(t, p, q, a, b) ==
    \E f \in [1 .. a + b -> Nat] :
        \A k \in 1 .. a + b :
            /\ \/ f[k] \in 1 .. a /\ t[k] = p[f[k]]
               \/ f[k] \in 1 .. b /\ t[k] = q[f[k]]
            /\ \A j \in 1 .. a + b : k < j =>
                 \/ f[k] < f[j]
                 \/ f[j] \in 1 .. b /\ t[j] = q[f[j]]

\* _pier_work_send(): ova and scries alternate, and each keeps its order.
LEMMA MergeFacts ==
    ASSUME NEW p \in Seq(Writs), NEW q \in Seq(Writs)
    PROVE  /\ Pier!Merge(p, q) \in Seq(Writs)
           /\ Len(Pier!Merge(p, q)) = Len(p) + Len(q)
           /\ InTurn(Pier!Merge(p, q), p, q, Len(p), Len(q))
<1> DEFINE M == Pier!Merge(p, q)
           n == Len(p) + Len(q)
<1>1. PICK m : m = IF Len(p) < Len(q) THEN Len(p) ELSE Len(q)
  OBVIOUS
<1>2. /\ Len(p) \in Nat /\ Len(q) \in Nat /\ n \in Nat
      /\ m \in Nat /\ m <= Len(p) /\ m <= Len(q) /\ (m = Len(p) \/ m = Len(q))
  BY <1>1
<1>3. M = [k \in 1 .. n |->
             IF k <= 2 * m
             THEN IF k % 2 = 1 THEN p[(k + 1) \div 2] ELSE q[k \div 2]
             ELSE IF Len(p) > m THEN p[k - m] ELSE q[k - m]]
  BY <1>1 DEF Pier!Merge
<1>4. PICK f : f = [k \in 1 .. n |->
                      IF k <= 2 * m THEN IF k % 2 = 1 THEN (k + 1) \div 2 ELSE k \div 2
                      ELSE k - m]
  OBVIOUS
<1> HIDE DEF M
<1>5. ASSUME NEW k \in 1 .. n, k <= 2 * m, k % 2 = 1
      PROVE  /\ f[k] \in 1 .. m /\ 2 * f[k] = k + 1
             /\ f[k] \in 1 .. Len(p) /\ M[k] = p[f[k]]
  <2>1. f[k] = (k + 1) \div 2 /\ M[k] = p[(k + 1) \div 2]
    BY <1>3, <1>4, <1>5
  <2>2. k \in Nat
    BY <1>2
  <2>3. (k + 1) \div 2 \in Nat /\ 2 * ((k + 1) \div 2) = k + 1
    BY <1>5, <2>2, Halves
  <2>4. f[k] \in Nat /\ 2 * f[k] = k + 1
    BY <2>1, <2>3
  <2> QED
    BY <1>2, <1>5, <2>1, <2>2, <2>4, SMTT(30)
<1>6. ASSUME NEW k \in 1 .. n, k <= 2 * m, k % 2 # 1
      PROVE  /\ f[k] \in 1 .. m /\ 2 * f[k] = k
             /\ f[k] \in 1 .. Len(q) /\ M[k] = q[f[k]]
  <2>1. f[k] = k \div 2 /\ M[k] = q[k \div 2]
    BY <1>3, <1>4, <1>6
  <2>2. f[k] \in Nat /\ 2 * f[k] = k
    BY <1>2, <1>6, <2>1, Halves
  <2> QED
    BY <1>2, <1>6, <2>1, <2>2
<1>7. ASSUME NEW k \in 1 .. n, k > 2 * m
      PROVE  /\ f[k] = k - m /\ f[k] \in Nat
             /\ \/ f[k] \in 1 .. Len(p) /\ M[k] = p[f[k]]
                \/ f[k] \in 1 .. Len(q) /\ M[k] = q[f[k]]
  <2>1. f[k] = k - m
    BY <1>2, <1>4, <1>7
  <2>2. CASE Len(p) > m
    <3>1. M[k] = p[k - m] /\ m = Len(q)
      BY <1>2, <1>3, <1>7, <2>2
    <3> QED
      BY <1>2, <1>7, <2>1, <3>1
  <2>3. CASE ~(Len(p) > m)
    <3>1. M[k] = q[k - m] /\ m = Len(p)
      BY <1>2, <1>3, <1>7, <2>3
    <3> QED
      BY <1>2, <1>7, <2>1, <3>1
  <2> QED
    BY <2>2, <2>3
<1>8. ASSUME NEW k \in 1 .. n
      PROVE  /\ f[k] \in Nat
             /\ \/ f[k] \in 1 .. Len(p) /\ M[k] = p[f[k]]
                \/ f[k] \in 1 .. Len(q) /\ M[k] = q[f[k]]
             /\ \/ k <= 2 * m /\ f[k] <= m /\ 2 * f[k] = k + 1
                     /\ f[k] \in 1 .. Len(p) /\ M[k] = p[f[k]]
                \/ k <= 2 * m /\ f[k] <= m /\ 2 * f[k] = k
                     /\ f[k] \in 1 .. Len(q) /\ M[k] = q[f[k]]
                \/ k > 2 * m /\ f[k] = k - m
  <2>1. CASE k <= 2 * m /\ k % 2 = 1
    BY <1>2, <1>5, <2>1
  <2>2. CASE k <= 2 * m /\ k % 2 # 1
    BY <1>2, <1>6, <2>2
  <2>3. CASE k > 2 * m
    BY <1>7, <2>3
  <2> QED
    BY <1>2, <2>1, <2>2, <2>3
<1>9. ASSUME NEW k \in 1 .. n, NEW j \in 1 .. n, k < j
      PROVE  f[k] < f[j] \/ (f[j] \in 1 .. Len(q) /\ M[j] = q[f[j]])
  <2>1. /\ f[k] \in Nat /\ f[j] \in Nat /\ k \in Nat /\ j \in Nat
    BY <1>2, <1>8
  <2>2. \/ k <= 2 * m /\ f[k] <= m /\ (2 * f[k] = k + 1 \/ 2 * f[k] = k)
        \/ k > 2 * m /\ f[k] = k - m
    BY <1>8
  <2>3. CASE j <= 2 * m /\ f[j] <= m /\ 2 * f[j] = j + 1
    BY <1>2, <1>9, <2>1, <2>2, <2>3, SMTT(30)
  <2>4. CASE j <= 2 * m /\ f[j] <= m /\ 2 * f[j] = j
             /\ f[j] \in 1 .. Len(q) /\ M[j] = q[f[j]]
    BY <2>4
  <2>5. CASE j > 2 * m /\ f[j] = j - m
    BY <1>2, <1>9, <2>1, <2>2, <2>5
  <2> QED
    BY <1>8, <2>3, <2>4, <2>5
<1>10. f \in [1 .. n -> Nat]
  BY <1>4, <1>8
<1>11. /\ M \in Seq(Writs) /\ Len(M) = n
  <2>1. ASSUME NEW k \in 1 .. n PROVE M[k] \in Writs
    BY <1>8
  <2>2. M \in [1 .. n -> Writs]
    BY <1>3, <2>1
  <2> QED
    BY <1>2, <2>2
<1>12. InTurn(M, p, q, Len(p), Len(q))
  BY <1>8, <1>9, <1>10 DEF InTurn
<1> QED
  BY <1>11, <1>12 DEF M
\* The writs that are made of ova and of scries.
LEMMA PokesPeeks ==
    ASSUME NEW p \in Seq(Eggs), NEW q \in Seq(Ids)
    PROVE  /\ Pier!Pokes(p) \in Seq(Writs) /\ Len(Pier!Pokes(p)) = Len(p)
           /\ \A i \in 1 .. Len(p) :
                Pier!Pokes(p)[i].tag = "poke" /\ Pier!Pokes(p)[i].egg = p[i]
           /\ Pier!Peeks(q) \in Seq(Writs) /\ Len(Pier!Peeks(q)) = Len(q)
           /\ \A i \in 1 .. Len(q) : Pier!Peeks(q)[i].tag = "peek"
<1>1. Eggs \subseteq AnyEgg
  BY DriversAssumption DEF Eggs, AnyEgg
<1>2. ASSUME NEW x \in Ids
      PROVE  Pier!Egg(x, Pier!Scry) \in AnyEgg
  BY DriversAssumption DEF Pier!Egg, Pier!Scry, AnyEgg
<1>3. \A i \in 1 .. Len(p) : Pier!Writ("poke", p[i]) \in Writs
  BY <1>1 DEF Pier!Writ, Writs
<1>4. \A i \in 1 .. Len(q) : Pier!Writ("peek", Pier!Egg(q[i], Pier!Scry)) \in Writs
  BY <1>2 DEF Pier!Writ, Writs
<1>5. /\ Pier!Pokes(p) = [i \in 1 .. Len(p) |-> Pier!Writ("poke", p[i])]
      /\ Pier!Peeks(q) =
           [i \in 1 .. Len(q) |-> Pier!Writ("peek", Pier!Egg(q[i], Pier!Scry))]
  BY DEF Pier!Pokes, Pier!Peeks
<1>6. /\ Len(p) \in Nat /\ Len(q) \in Nat
      /\ \A i \in 1 .. Len(p) :
           Pier!Pokes(p)[i].tag = "poke" /\ Pier!Pokes(p)[i].egg = p[i]
      /\ \A i \in 1 .. Len(q) : Pier!Peeks(q)[i].tag = "peek"
  BY <1>5 DEF Pier!Writ
<1>7. Pier!Pokes(p) \in Seq(Writs) /\ Len(Pier!Pokes(p)) = Len(p)
  BY <1>3, <1>5, <1>6
<1>8. Pier!Peeks(q) \in Seq(Writs) /\ Len(Pier!Peeks(q)) = Len(q)
  BY <1>4, <1>5, <1>6
<1> QED
  BY <1>6, <1>7, <1>8

\* _pier_work_send(): n and m of the queues pl and pk are sent behind pre.
Batch(pl, pk, n, m, pre) ==
    pre \o Pier!Merge(Pier!Pokes(SubSeq(pl, 1, n)), Pier!Peeks(SubSeq(pk, 1, m)))

\* What _pier_work_send() sends: the first n of the ova and no exit.
LEMMA WorkWrits ==
    ASSUME NEW pl \in Seq(Eggs), NEW pk \in Seq(Ids), NEW n \in 0 .. Len(pl),
           NEW m \in 0 .. Len(pk), NEW pre \in Seq(Writs),
           \A i \in 1 .. Len(pre) : pre[i].tag = "live"
    PROVE  /\ Batch(pl, pk, n, m, pre) \in Seq(Writs)
           /\ Len(Batch(pl, pk, n, m, pre)) = Len(pre) + (n + m)
           /\ \A i \in 1 .. Len(Batch(pl, pk, n, m, pre)) :
                Batch(pl, pk, n, m, pre)[i].tag # "exit"
           /\ Drawn(Batch(pl, pk, n, m, pre), pl, n)
<1> DEFINE a == SubSeq(pl, 1, n)
           b == SubSeq(pk, 1, m)
           p == Pier!Pokes(a)
           q == Pier!Peeks(b)
           M == Pier!Merge(p, q)
           new == Batch(pl, pk, n, m, pre)
<1>1. /\ a \in Seq(Eggs) /\ Len(a) = n /\ \A i \in 1 .. n : a[i] = pl[i]
      /\ Len(pl) \in Nat
  BY RowPart
<1>2. b \in Seq(Ids) /\ Len(b) = m /\ Len(pk) \in Nat
  BY RowPart
<1> HIDE DEF a, b
<1>3. /\ p \in Seq(Writs) /\ Len(p) = n
      /\ \A i \in 1 .. n : p[i].tag = "poke" /\ p[i].egg = pl[i]
      /\ q \in Seq(Writs) /\ Len(q) = m
      /\ \A i \in 1 .. m : q[i].tag = "peek"
  BY <1>1, <1>2, PokesPeeks
<1>4. new = pre \o M
  BY DEF a, b, Batch
<1> HIDE DEF p, q, new
<1>5. M \in Seq(Writs) /\ Len(M) = Len(p) + Len(q) /\ InTurn(M, p, q, Len(p), Len(q))
  BY <1>3, MergeFacts
<1> HIDE DEF M
<1>6. PICK f \in [1 .. n + m -> Nat] :
           \A k \in 1 .. n + m :
               /\ \/ f[k] \in 1 .. n /\ M[k] = p[f[k]]
                  \/ f[k] \in 1 .. m /\ M[k] = q[f[k]]
               /\ \A j \in 1 .. n + m : k < j =>
                    \/ f[k] < f[j]
                    \/ f[j] \in 1 .. m /\ M[j] = q[f[j]]
  <2>1. InTurn(M, p, q, n, m)
    BY <1>3, <1>5
  <2> QED
    BY <2>1 DEF InTurn
<1>7. ASSUME NEW k \in 1 .. n + m
      PROVE  /\ M[k].tag \in {"poke", "peek"}
             /\ M[k].tag = "poke" =>
                  /\ f[k] \in 1 .. n /\ M[k].egg = pl[f[k]]
                  /\ \A j \in 1 .. n + m : k < j /\ M[j].tag = "poke" => f[k] < f[j]
  <2>1. CASE f[k] \in 1 .. n /\ M[k] = p[f[k]]
    BY <1>3, <1>6, <2>1
  <2>2. CASE f[k] \in 1 .. m /\ M[k] = q[f[k]]
    BY <1>3, <2>2
  <2> QED
    BY <1>6, <2>1, <2>2
<1>8. /\ new \in Seq(Writs) /\ Len(pre) \in Nat /\ Len(new) = Len(pre) + (n + m)
      /\ n + m \in Nat
  <2>1. Len(M) = n + m /\ M \in Seq(Writs)
    BY <1>3, <1>5
  <2>2. pre \o M \in Seq(Writs) /\ Len(pre) \in Nat /\ Len(pre \o M) = Len(pre) + Len(M)
    BY <2>1, RowConcat
  <2>3. n + m \in Nat
    OBVIOUS
  <2> QED
    BY <1>4, <2>1, <2>2, <2>3
<1>9. ASSUME NEW i \in 1 .. Len(new)
      PROVE  \/ new[i].tag = "live"
             \/ i - Len(pre) \in 1 .. n + m /\ new[i] = M[i - Len(pre)] /\ i > Len(pre)
  <2>1. Len(M) = n + m /\ M \in Seq(Writs)
    BY <1>3, <1>5
  <2>2. \/ i \in 1 .. Len(pre) /\ new[i] = pre[i]
        \/ i - Len(pre) \in 1 .. Len(M) /\ new[i] = M[i - Len(pre)] /\ i > Len(pre)
    BY <1>4, <2>1, RowEither
  <2> QED
    BY <2>1, <2>2
<1>10. PICK h : h = [i \in 1 .. Len(new) |-> IF i > Len(pre) THEN f[i - Len(pre)] ELSE 0]
  OBVIOUS
<1>11. ASSUME NEW i \in 1 .. Len(new)
       PROVE  h[i] \in Nat
  <2>1. CASE i > Len(pre)
    <3>1. i - Len(pre) \in 1 .. n + m /\ h[i] = f[i - Len(pre)]
      BY <1>8, <1>10, <2>1
    <3> QED
      BY <3>1
  <2>2. CASE ~(i > Len(pre))
    BY <1>10, <2>2
  <2> QED
    BY <2>1, <2>2
<1>12. h \in [1 .. Len(new) -> Nat]
  BY <1>10, <1>11
<1>13. ASSUME NEW k \in 1 .. Len(new), new[k].tag = "poke"
       PROVE  /\ h[k] \in 1 .. n /\ new[k].egg = pl[h[k]]
              /\ \A j \in 1 .. Len(new) : k < j /\ new[j].tag = "poke" => h[k] < h[j]
  <2>1. k - Len(pre) \in 1 .. n + m /\ new[k] = M[k - Len(pre)] /\ h[k] = f[k - Len(pre)]
    BY <1>9, <1>10, <1>13
  <2>2. h[k] \in 1 .. n /\ new[k].egg = pl[h[k]]
    BY <1>7, <1>13, <2>1
  <2>3. ASSUME NEW j \in 1 .. Len(new), k < j, new[j].tag = "poke"
        PROVE  h[k] < h[j]
    <3>1. j - Len(pre) \in 1 .. n + m /\ new[j] = M[j - Len(pre)] /\ h[j] = f[j - Len(pre)]
      BY <1>9, <1>10, <2>3
    <3>2. k - Len(pre) < j - Len(pre)
      BY <1>8, <2>3
    <3> QED
      BY <1>7, <1>13, <2>1, <2>3, <3>1, <3>2
  <2> QED
    BY <2>2, <2>3
<1>14. Drawn(new, pl, n)
  BY <1>12, <1>13 DEF Drawn
<1>15. \A i \in 1 .. Len(new) : new[i].tag # "exit"
  BY <1>7, <1>9
<1> QED
  BY <1>8, <1>14, <1>15 DEF new

\* _lord_writ_new(): a writ and a task each.
LEMMA Dispatched ==
    ASSUME inn \in Seq(Task), NEW ws \in Seq(Writs), NEW new \in Seq(Writs),
           Pier!Dispatch(ws, new)
    PROVE  /\ writs' = ws \o new
           /\ \E more \in Seq(Task) :
                /\ Len(more) = Len(new) /\ inn' = inn \o more
                /\ \A i \in 1 .. Len(new) : more[i] = TaskOf(new[i])
<1>1. PICK more : more = [i \in 1 .. Len(new) |->
                            [tag |-> new[i].tag, id |-> new[i].egg.id]]
  OBVIOUS
<1>2. ASSUME NEW i \in 1 .. Len(new)
      PROVE  more[i] = TaskOf(new[i]) /\ more[i] \in Task
  <2>1. new[i] \in Writs
    OBVIOUS
  <2>2. TaskOf(new[i]) \in Task
    BY <2>1 DEF TaskOf, Task, TaskTags, Writs, AnyEgg
  <2>3. more[i] = TaskOf(new[i])
    BY <1>1 DEF TaskOf
  <2> QED
    BY <2>2, <2>3
<1>3. more \in Seq(Task) /\ Len(more) = Len(new)
  BY <1>1, <1>2
<1>4. writs' = ws \o new /\ inn' = inn \o more
  BY <1>1 DEF Pier!Dispatch
<1> QED
  BY <1>2, <1>3, <1>4
-----------------------------------------------------------------------------
(* Ova that are sent, and the room for them. *)

\* What Sent says of one writ, and of two.
LEMMA SentAt ==
    ASSUME NEW o, NEW ws, NEW pl, Sent(o, ws, pl), NEW i \in 1 .. Len(ws),
           ws[i].tag = "poke"
    PROVE  /\ ws[i].egg.id \in Ids
           /\ ws[i].egg.id \in 1 .. Len(o) /\ o[ws[i].egg.id] = ws[i].egg.drv
           /\ \A j \in 1 .. Len(ws) : i < j /\ ws[j].tag = "poke" =>
                ws[i].egg.id # ws[j].egg.id
           /\ \A j \in 1 .. Len(pl) : ws[i].egg.id # pl[j].id
BY DEF Sent

\* The first is answered.
LEMMA SentTail ==
    ASSUME NEW o, NEW ws \in Seq(Writs), NEW pl, Sent(o, ws, pl), ws # <<>>
    PROVE  /\ Sent(o, Tail(ws), pl)
           /\ Head(ws).tag = "poke" =>
                /\ Head(ws).egg.id \in Ids
                /\ Head(ws).egg.id \in 1 .. Len(o)
                /\ o[Head(ws).egg.id] = Head(ws).egg.drv
                /\ \A j \in 1 .. Len(Tail(ws)) : Tail(ws)[j].tag = "poke" =>
                     Head(ws).egg.id # Tail(ws)[j].egg.id
                /\ \A j \in 1 .. Len(pl) : Head(ws).egg.id # pl[j].id
<1> DEFINE v == Tail(ws)
<1>1. /\ Head(ws) = ws[1] /\ Len(ws) \in Nat \ {0} /\ Len(v) = Len(ws) - 1
      /\ \A i \in 1 .. Len(ws) - 1 : v[i] = ws[i + 1]
  BY RowTail
<1> HIDE DEF v
<1>2. ASSUME NEW i \in 1 .. Len(v)
      PROVE  i + 1 \in 1 .. Len(ws) /\ v[i] = ws[i + 1] /\ i + 1 > 1
  BY <1>1
<1>3. Sent(o, v, pl)
  <2> SUFFICES ASSUME NEW i \in 1 .. Len(v), v[i].tag = "poke"
               PROVE  /\ v[i].egg.id \in Ids
                      /\ v[i].egg.id \in 1 .. Len(o) /\ o[v[i].egg.id] = v[i].egg.drv
                      /\ \A j \in 1 .. Len(v) : i < j /\ v[j].tag = "poke" =>
                           v[i].egg.id # v[j].egg.id
                      /\ \A j \in 1 .. Len(pl) : v[i].egg.id # pl[j].id
    BY DEF Sent
  <2>1. PICK k \in 1 .. Len(ws) : k = i + 1 /\ v[i] = ws[k]
    BY <1>2
  <2>2. /\ ws[k].egg.id \in Ids
        /\ ws[k].egg.id \in 1 .. Len(o) /\ o[ws[k].egg.id] = ws[k].egg.drv
        /\ \A j \in 1 .. Len(ws) : k < j /\ ws[j].tag = "poke" =>
             ws[k].egg.id # ws[j].egg.id
        /\ \A j \in 1 .. Len(pl) : ws[k].egg.id # pl[j].id
    BY <2>1, SentAt
  <2>3. ASSUME NEW j \in 1 .. Len(v), i < j, v[j].tag = "poke"
        PROVE  v[i].egg.id # v[j].egg.id
    <3>1. j + 1 \in 1 .. Len(ws) /\ v[j] = ws[j + 1] /\ k < j + 1
      BY <1>1, <1>2, <2>1, <2>3
    <3> QED
      BY <2>1, <2>2, <2>3, <3>1
  <2> QED
    BY <2>1, <2>2, <2>3
<1>4. ASSUME ws[1].tag = "poke"
      PROVE  /\ ws[1].egg.id \in Ids
             /\ ws[1].egg.id \in 1 .. Len(o) /\ o[ws[1].egg.id] = ws[1].egg.drv
             /\ \A j \in 1 .. Len(v) : v[j].tag = "poke" => ws[1].egg.id # v[j].egg.id
             /\ \A j \in 1 .. Len(pl) : ws[1].egg.id # pl[j].id
  <2>1. 1 \in 1 .. Len(ws)
    BY <1>1
  <2>2. /\ ws[1].egg.id \in Ids
        /\ ws[1].egg.id \in 1 .. Len(o) /\ o[ws[1].egg.id] = ws[1].egg.drv
        /\ \A j \in 1 .. Len(ws) : 1 < j /\ ws[j].tag = "poke" =>
             ws[1].egg.id # ws[j].egg.id
        /\ \A j \in 1 .. Len(pl) : ws[1].egg.id # pl[j].id
    BY <1>4, <2>1, SentAt
  <2> QED
    BY <1>2, <2>2
<1> QED
  BY <1>1, <1>3, <1>4 DEF v

\* More ova are planned.
LEMMA SentMore ==
    ASSUME NEW D, NEW o \in Seq(D), NEW p \in Seq(D), Begins(o, p),
           NEW ws, NEW pl, Sent(o, ws, pl)
    PROVE  Sent(p, ws, pl)
<1>1. \A x \in 1 .. Len(o) : x \in 1 .. Len(p) /\ p[x] = o[x]
  BY DEF Begins
<1> SUFFICES ASSUME NEW i \in 1 .. Len(ws), ws[i].tag = "poke"
             PROVE  /\ ws[i].egg.id \in Ids
                    /\ ws[i].egg.id \in 1 .. Len(p) /\ p[ws[i].egg.id] = ws[i].egg.drv
                    /\ \A j \in 1 .. Len(ws) : i < j /\ ws[j].tag = "poke" =>
                         ws[i].egg.id # ws[j].egg.id
                    /\ \A j \in 1 .. Len(pl) : ws[i].egg.id # pl[j].id
  BY DEF Sent
<1>2. /\ ws[i].egg.id \in Ids
      /\ ws[i].egg.id \in 1 .. Len(o) /\ o[ws[i].egg.id] = ws[i].egg.drv
      /\ \A j \in 1 .. Len(ws) : i < j /\ ws[j].tag = "poke" =>
           ws[i].egg.id # ws[j].egg.id
      /\ \A j \in 1 .. Len(pl) : ws[i].egg.id # pl[j].id
  BY SentAt
<1> QED
  BY <1>1, <1>2

\* One ovum is planned that no writ is about.
LEMMA SentInsert ==
    ASSUME NEW o, NEW ws, NEW pl \in Seq(Eggs), Sent(o, ws, pl),
           NEW e \in Eggs, NEW k \in 1 .. Len(pl) + 1,
           \A i \in 1 .. Len(ws) : ws[i].tag = "poke" => ws[i].egg.id # e.id
    PROVE  Sent(o, ws, InsertAt(pl, k, e))
<1> DEFINE q == InsertAt(pl, k, e)
<1>1. /\ Len(pl) \in Nat /\ Len(q) = Len(pl) + 1
      /\ \A i \in 1 .. k - 1 : q[i] = pl[i]
      /\ q[k] = e
      /\ \A i \in k + 1 .. Len(pl) + 1 : q[i] = pl[i - 1]
  BY RowInsert
<1> HIDE DEF q
<1>2. ASSUME NEW j \in 1 .. Len(q)
      PROVE  q[j] = e \/ \E i \in 1 .. Len(pl) : q[j] = pl[i]
  <2>1. CASE j \in 1 .. k - 1
    BY <1>1, <2>1
  <2>2. CASE j = k
    BY <1>1, <2>2
  <2>3. CASE j \in k + 1 .. Len(pl) + 1
    <3>1. j - 1 \in 1 .. Len(pl) /\ q[j] = pl[j - 1]
      BY <1>1, <2>3
    <3> QED
      BY <3>1
  <2> QED
    BY <1>1, <2>1, <2>2, <2>3
<1>3. ASSUME NEW i \in 1 .. Len(ws), ws[i].tag = "poke", NEW j \in 1 .. Len(q)
      PROVE  ws[i].egg.id # q[j].id
  <2>1. \A l \in 1 .. Len(pl) : ws[i].egg.id # pl[l].id
    BY <1>3, SentAt
  <2> QED
    BY <1>2, <1>3, <2>1
<1>4. Sent(o, ws, q)
  BY <1>3 DEF Sent
<1> QED
  BY <1>4 DEF q

\* Nothing is planned.
LEMMA SentLess ==
    ASSUME NEW o, NEW ws, NEW pl, Sent(o, ws, pl)
    PROVE  Sent(o, ws, <<>>)
<1>1. Len(<<>>) = 0
  OBVIOUS
<1> QED
  BY <1>1 DEF Sent

\* Planned ova are sent.
LEMMA SentSend ==
    ASSUME NEW o, NEW ws \in Seq(Writs), NEW pl \in Seq(Eggs), Sent(o, ws, pl),
           NEW s, NEW ts, Line(o, s, ts, pl), \A i \in 1 .. Len(pl) : pl[i].id \in Ids,
           NEW n \in 0 .. Len(pl), NEW new \in Seq(Writs), Drawn(new, pl, n)
    PROVE  Sent(o, ws \o new, SubSeq(pl, n + 1, Len(pl)))
<1> DEFINE v == ws \o new
           q == SubSeq(pl, n + 1, Len(pl))
<1>1. PICK f \in [1 .. Len(new) -> Nat] :
        \A k \in 1 .. Len(new) : new[k].tag = "poke" =>
            /\ f[k] \in 1 .. n /\ new[k].egg = pl[f[k]]
            /\ \A j \in 1 .. Len(new) : k < j /\ new[j].tag = "poke" => f[k] < f[j]
  BY DEF Drawn
<1>2. /\ Len(pl) \in Nat /\ Len(q) = Len(pl) - n
      /\ \A i \in 1 .. Len(pl) - n : q[i] = pl[i + n]
  BY RowRest
<1>3. /\ Len(ws) \in Nat /\ Len(new) \in Nat /\ Len(v) = Len(ws) + Len(new)
  BY RowConcat
<1>4. ASSUME NEW i \in 1 .. Len(v)
      PROVE  \/ i \in 1 .. Len(ws) /\ v[i] = ws[i]
             \/ i - Len(ws) \in 1 .. Len(new) /\ v[i] = new[i - Len(ws)] /\ i > Len(ws)
  BY RowEither
<1> HIDE DEF v, q
<1>5. \A i, j \in 1 .. Len(pl) : i < j => pl[i].id # pl[j].id
  BY DEF Line, Before
<1>6. \A i \in 1 .. Len(pl) : pl[i].id \in 1 .. Len(o) /\ o[pl[i].id] = pl[i].drv
  BY DEF Line
<1>7. ASSUME NEW j \in 1 .. Len(q)
      PROVE  j + n \in 1 .. Len(pl) /\ q[j] = pl[j + n] /\ j + n > n
  BY <1>2
<1>8. ASSUME NEW i \in 1 .. Len(v), v[i].tag = "poke"
      PROVE  /\ v[i].egg.id \in Ids
             /\ v[i].egg.id \in 1 .. Len(o) /\ o[v[i].egg.id] = v[i].egg.drv
             /\ \A j \in 1 .. Len(v) : i < j /\ v[j].tag = "poke" =>
                  v[i].egg.id # v[j].egg.id
             /\ \A j \in 1 .. Len(q) : v[i].egg.id # q[j].id
  <2>1. CASE i \in 1 .. Len(ws) /\ v[i] = ws[i]
    <3>1. /\ ws[i].egg.id \in Ids
          /\ ws[i].egg.id \in 1 .. Len(o) /\ o[ws[i].egg.id] = ws[i].egg.drv
          /\ \A j \in 1 .. Len(ws) : i < j /\ ws[j].tag = "poke" =>
               ws[i].egg.id # ws[j].egg.id
          /\ \A j \in 1 .. Len(pl) : ws[i].egg.id # pl[j].id
      BY <1>8, <2>1, SentAt
    <3>2. ASSUME NEW j \in 1 .. Len(v), i < j, v[j].tag = "poke"
          PROVE  v[i].egg.id # v[j].egg.id
      <4>1. CASE j \in 1 .. Len(ws) /\ v[j] = ws[j]
        BY <2>1, <3>1, <3>2, <4>1
      <4>2. CASE j - Len(ws) \in 1 .. Len(new) /\ v[j] = new[j - Len(ws)]
        <5>1. PICK k \in 1 .. Len(new) : k = j - Len(ws) /\ v[j] = new[k]
          BY <4>2
        <5>2. f[k] \in 1 .. Len(pl) /\ new[k].egg = pl[f[k]]
          BY <1>1, <1>2, <3>2, <5>1
        <5> QED
          BY <2>1, <3>1, <5>1, <5>2
      <4> QED
        BY <1>4, <4>1, <4>2
    <3>3. \A j \in 1 .. Len(q) : v[i].egg.id # q[j].id
      BY <1>7, <2>1, <3>1
    <3> QED
      BY <2>1, <3>1, <3>2, <3>3
  <2>2. CASE i - Len(ws) \in 1 .. Len(new) /\ v[i] = new[i - Len(ws)] /\ i > Len(ws)
    <3>1. PICK k \in 1 .. Len(new) : k = i - Len(ws) /\ v[i] = new[k]
      BY <2>2
    <3>2. /\ f[k] \in 1 .. n /\ f[k] \in 1 .. Len(pl) /\ new[k].egg = pl[f[k]]
          /\ \A j \in 1 .. Len(new) : k < j /\ new[j].tag = "poke" =>
               f[k] < f[j] /\ f[j] \in 1 .. Len(pl) /\ new[j].egg = pl[f[j]]
      <4>1. \A x \in 1 .. n : x \in 1 .. Len(pl)
        BY <1>2
      <4>2. /\ f[k] \in 1 .. n /\ new[k].egg = pl[f[k]]
            /\ \A j \in 1 .. Len(new) : k < j /\ new[j].tag = "poke" => f[k] < f[j]
        BY <1>1, <1>8, <3>1
      <4>3. \A j \in 1 .. Len(new) : new[j].tag = "poke" =>
               f[j] \in 1 .. n /\ new[j].egg = pl[f[j]]
        BY <1>1
      <4> QED
        BY <4>1, <4>2, <4>3
    <3>3. ASSUME NEW j \in 1 .. Len(v), i < j, v[j].tag = "poke"
          PROVE  v[i].egg.id # v[j].egg.id
      <4>1. PICK l \in 1 .. Len(new) : l = j - Len(ws) /\ v[j] = new[l] /\ k < l
        <5>1. CASE j \in 1 .. Len(ws)
          BY <1>3, <2>2, <3>3, <5>1
        <5>2. CASE j - Len(ws) \in 1 .. Len(new) /\ v[j] = new[j - Len(ws)]
          <6>1. k < j - Len(ws)
            BY <1>3, <2>2, <3>1, <3>3
          <6> QED
            BY <5>2, <6>1
        <5> QED
          BY <1>4, <5>1, <5>2
      <4>2. f[k] < f[l] /\ f[l] \in 1 .. Len(pl) /\ new[l].egg = pl[f[l]]
        BY <3>2, <3>3, <4>1
      <4> QED
        BY <1>5, <3>1, <3>2, <4>1, <4>2
    <3>4. ASSUME NEW j \in 1 .. Len(q)
          PROVE  v[i].egg.id # q[j].id
      <4>1. j + n \in 1 .. Len(pl) /\ q[j] = pl[j + n] /\ f[k] < j + n
        BY <1>2, <1>7, <3>2
      <4> QED
        BY <1>5, <3>1, <3>2, <4>1, SMTT(30)
    <3> QED
      BY <1>6, <3>1, <3>2, <3>3, <3>4
  <2> QED
    BY <1>4, <2>1, <2>2
<1>9. Sent(o, v, q)
  BY <1>8 DEF Sent
<1> QED
  BY <1>9 DEF v, q

\* One writ is sent whose ovum was not planned.
LEMMA SentOne ==
    ASSUME NEW o, NEW ws \in Seq(Writs), NEW pl, Sent(o, ws, pl),
           NEW w \in Writs,
           w.tag = "poke" =>
             /\ w.egg.id \in Ids
             /\ w.egg.id \in 1 .. Len(o) /\ o[w.egg.id] = w.egg.drv
             /\ \A i \in 1 .. Len(ws) : ws[i].tag = "poke" => ws[i].egg.id # w.egg.id
             /\ \A i \in 1 .. Len(pl) : pl[i].id # w.egg.id
    PROVE  Sent(o, ws \o <<w>>, pl)
<1> DEFINE v == ws \o <<w>>
<1>1. v = Append(ws, w)
  OBVIOUS
<1>2. /\ Len(ws) \in Nat /\ Len(v) = Len(ws) + 1 /\ v[Len(ws) + 1] = w
      /\ \A i \in 1 .. Len(ws) : v[i] = ws[i]
  BY <1>1, RowAppend
<1> HIDE DEF v
<1>3. ASSUME NEW i \in 1 .. Len(v)
      PROVE  \/ i \in 1 .. Len(ws) /\ v[i] = ws[i]
             \/ i = Len(ws) + 1 /\ v[i] = w
  BY <1>2
<1>4. ASSUME NEW i \in 1 .. Len(v), v[i].tag = "poke"
      PROVE  /\ v[i].egg.id \in Ids
             /\ v[i].egg.id \in 1 .. Len(o) /\ o[v[i].egg.id] = v[i].egg.drv
             /\ \A j \in 1 .. Len(v) : i < j /\ v[j].tag = "poke" =>
                  v[i].egg.id # v[j].egg.id
             /\ \A j \in 1 .. Len(pl) : v[i].egg.id # pl[j].id
  <2>1. CASE i \in 1 .. Len(ws) /\ v[i] = ws[i]
    <3>1. /\ ws[i].egg.id \in Ids
          /\ ws[i].egg.id \in 1 .. Len(o) /\ o[ws[i].egg.id] = ws[i].egg.drv
          /\ \A j \in 1 .. Len(ws) : i < j /\ ws[j].tag = "poke" =>
               ws[i].egg.id # ws[j].egg.id
          /\ \A j \in 1 .. Len(pl) : ws[i].egg.id # pl[j].id
      BY <1>4, <2>1, SentAt
    <3>2. ASSUME NEW j \in 1 .. Len(v), i < j, v[j].tag = "poke"
          PROVE  v[i].egg.id # v[j].egg.id
      <4>1. CASE j \in 1 .. Len(ws) /\ v[j] = ws[j]
        BY <2>1, <3>1, <3>2, <4>1
      <4>2. CASE v[j] = w
        BY <1>4, <2>1, <3>2, <4>2
      <4> QED
        BY <1>3, <4>1, <4>2
    <3> QED
      BY <2>1, <3>1, <3>2
  <2>2. CASE i = Len(ws) + 1 /\ v[i] = w
    <3>1. \A j \in 1 .. Len(v) : ~(i < j)
      BY <1>2, <2>2
    <3> QED
      BY <1>4, <2>2, <3>1
  <2> QED
    BY <1>3, <2>1, <2>2
<1>5. Sent(o, v, pl)
  BY <1>4 DEF Sent
<1> QED
  BY <1>5 DEF v

\* One place is free again.
LEMMA RoomTail ==
    ASSUME NEW ws \in Seq(Writs), ws # <<>>, NEW ps, Room(ws, ps)
    PROVE  /\ Room(Tail(ws), ps)
           /\ Head(ws).tag # "exit" /\ ps # "done" => Len(Tail(ws)) + 1 <= WorkBatch
<1> DEFINE v == Tail(ws)
<1>1. /\ Len(ws) \in Nat \ {0} /\ Len(v) = Len(ws) - 1
      /\ \A i \in 1 .. Len(ws) - 1 : v[i] = ws[i + 1]
  BY RowTail
<1> HIDE DEF v
<1>2. \A i \in 1 .. Len(ws) :
        IF ws[i].tag = "exit" THEN i = Len(ws) /\ ps = "done" ELSE i <= WorkBatch
  BY DEF Room
<1>3. Room(v, ps)
  <2> SUFFICES ASSUME NEW i \in 1 .. Len(v)
               PROVE  IF v[i].tag = "exit" THEN i = Len(v) /\ ps = "done"
                                           ELSE i <= WorkBatch
    BY DEF Room
  <2>1. i + 1 \in 1 .. Len(ws) /\ v[i] = ws[i + 1]
    BY <1>1
  <2>2. IF ws[i + 1].tag = "exit" THEN i + 1 = Len(ws) /\ ps = "done"
                                  ELSE i + 1 <= WorkBatch
    BY <1>2, <2>1
  <2> QED
    BY <1>1, <2>1, <2>2, WorkBatchAssumption
<1>4. ps # "done" => Len(v) + 1 <= WorkBatch
  <2>1. Len(ws) \in 1 .. Len(ws)
    BY <1>1
  <2> QED
    BY <1>1, <1>2, <2>1
<1> QED
  BY <1>3, <1>4 DEF v

\* Until the king is done no exit is sent.
LEMMA RoomLen ==
    ASSUME NEW ws \in Seq(Writs), NEW ps, Room(ws, ps), ps # "done"
    PROVE  Len(ws) <= WorkBatch /\ \A i \in 1 .. Len(ws) : ws[i].tag # "exit"
<1>1. \A i \in 1 .. Len(ws) :
        IF ws[i].tag = "exit" THEN i = Len(ws) /\ ps = "done" ELSE i <= WorkBatch
  BY DEF Room
<1>2. CASE Len(ws) = 0
  BY <1>2, WorkBatchAssumption
<1>3. CASE Len(ws) # 0
  <2>1. Len(ws) \in 1 .. Len(ws)
    BY <1>3
  <2> QED
    BY <1>1, <2>1
<1> QED
  BY <1>2, <1>3

\* More writs, where there is room.
LEMMA RoomSend ==
    ASSUME NEW ws \in Seq(Writs), NEW ps, Room(ws, ps), ps # "done",
           NEW new \in Seq(Writs), \A i \in 1 .. Len(new) : new[i].tag # "exit",
           Len(ws) + Len(new) <= WorkBatch, NEW r
    PROVE  Room(ws \o new, r)
<1> DEFINE v == ws \o new
<1>1. Len(ws) \in Nat /\ Len(new) \in Nat /\ Len(v) = Len(ws) + Len(new)
  BY RowConcat
<1>2. \A i \in 1 .. Len(ws) : ws[i].tag # "exit"
  BY RoomLen
<1>3. ASSUME NEW i \in 1 .. Len(v)
      PROVE  v[i].tag # "exit" /\ i <= WorkBatch
  <2>1. \/ i \in 1 .. Len(ws) /\ v[i] = ws[i]
        \/ i - Len(ws) \in 1 .. Len(new) /\ v[i] = new[i - Len(ws)] /\ i > Len(ws)
    BY RowEither
  <2>2. i <= WorkBatch
    BY <1>1, WorkBatchAssumption
  <2> HIDE DEF v
  <2> QED
    BY <1>2, <2>1, <2>2
<1> HIDE DEF v
<1>4. Room(v, r)
  BY <1>3 DEF Room
<1> QED
  BY <1>4 DEF v

\* The exit is the last.
LEMMA RoomExit ==
    ASSUME NEW ws \in Seq(Writs), NEW ps, Room(ws, ps), ps # "done",
           NEW w \in Writs, w.tag = "exit"
    PROVE  Room(ws \o <<w>>, "done")
<1> DEFINE v == ws \o <<w>>
<1>1. v = Append(ws, w)
  OBVIOUS
<1>2. /\ Len(ws) \in Nat /\ Len(v) = Len(ws) + 1 /\ v[Len(ws) + 1] = w
      /\ \A i \in 1 .. Len(ws) : v[i] = ws[i]
  BY <1>1, RowAppend
<1> HIDE DEF v
<1>3. \A i \in 1 .. Len(ws) : ws[i].tag # "exit"
  BY RoomLen
<1>4. \A i \in 1 .. Len(ws) :
        IF ws[i].tag = "exit" THEN i = Len(ws) /\ ps = "done" ELSE i <= WorkBatch
  BY DEF Room
<1>5. ASSUME NEW i \in 1 .. Len(v)
      PROVE  IF v[i].tag = "exit" THEN i = Len(v) ELSE i <= WorkBatch
  <2>1. \/ i \in 1 .. Len(ws) /\ v[i] = ws[i]
        \/ i = Len(v) /\ v[i] = w
    BY <1>2
  <2> QED
    BY <1>3, <1>4, <2>1
<1>6. Room(v, "done")
  BY <1>5 DEF Room
<1> QED
  BY <1>6 DEF v
-----------------------------------------------------------------------------
(* The king hears an answer, and sends writs. *)

\* A writ that is answered is no exit.
LEMMA FitsTag ==
    ASSUME NEW g \in Gift, NEW w, Fits(g, w), g.tag \in ToWrits
    PROVE  w.tag # "exit"
BY DEF Fits, ToWrits, GiftTags

\* The answer to the oldest writ.
LEMMA AgreeHear ==
    ASSUME NEW ans \in Seq(Gift), NEW ts \in Seq(Task), NEW ws \in Seq(Writs),
           NEW e \in Nat, NEW ps, Agree(ans, ts, ws, e, ps), log \in Seq(Ids),
           ans # <<>>, Head(ans).tag \in ToWrits,
           Head(ans).tag = "done" => /\ Head(ans).eve <= Len(log)
                                     /\ sat \in Running => Head(ans).eve <= dun,
           NEW f \in Nat, f = IF Head(ans).tag = "done" THEN e + 1 ELSE e
    PROVE  /\ ws # <<>> /\ Fits(Head(ans), Head(ws)) /\ ps # "init"
           /\ f <= Len(log)
           /\ Agree(Tail(ans), ts, Tail(ws), f, ps)
<1> DEFINE a == Tail(ans)
           v == Tail(ws)
           h == Head(ans)
<1>1. /\ a \in Seq(Gift) /\ h \in Gift /\ h = ans[1]
      /\ Len(ans) \in Nat \ {0} /\ Len(a) = Len(ans) - 1
      /\ \A i \in 1 .. Len(ans) - 1 : a[i] = ans[i + 1]
  BY RowTail
<1>2. /\ Talk(ans, ts, ws, e) /\ Even(ans, ts, ws, ps)
      /\ Failed(ans) /\ Ripe(ans, ws, e, ps) /\ Counts(ans, e) /\ Ended(ans, ws, e, ps)
  BY DEF Agree
<1>3. /\ ws # <<>> /\ Fits(h, Head(ws)) /\ (h.tag = "done" => h.eve = e + 1)
      /\ Talk(a, ts, v, f)
  BY <1>2, TalkHear
<1>4. /\ v \in Seq(Writs) /\ Head(ws) = ws[1]
      /\ Len(ws) \in Nat \ {0} /\ Len(v) = Len(ws) - 1
      /\ \A i \in 1 .. Len(ws) - 1 : v[i] = ws[i + 1]
  BY <1>3, RowTail
<1>5. /\ Nth(ans) = Nth(a) + 1 /\ Nth(a) \in Nat
      /\ Dones(ans) = Dones(a) + (IF h.tag = "done" THEN 1 ELSE 0) /\ Dones(a) \in Nat
  <2>1. /\ Nth(ans) = Nth(a) + IF h.tag \in ToWrits THEN 1 ELSE 0
        /\ Dones(ans) = Dones(a) + IF h.tag = "done" THEN 1 ELSE 0
    BY NthTail
  <2>2. Nth(a) \in Nat /\ Dones(a) \in Nat
    BY <1>1, NthType
  <2> QED
    BY <2>1, <2>2
<1>6. e + Dones(ans) = f + Dones(a)
  BY <1>5
<1>7. ~Exits(ws)
  <2>1. ws[1].tag # "exit" /\ 1 \in 1 .. Len(ws)
    BY <1>1, <1>3, <1>4, FitsTag
  <2> QED
    BY <2>1 DEF Exits
<1> HIDE DEF a, v, h
<1>8. ~Unripe(ans) /\ ps # "init" /\ sat # "boot"
  BY <1>2, <1>7 DEF Ripe, Unripe
<1>9. Even(a, ts, v, ps)
  BY <1>2, <1>4, <1>5, SMTT(30) DEF Even
<1>10. ASSUME NEW i \in 1 .. Len(a)
       PROVE  i + 1 \in 1 .. Len(ans) /\ a[i] = ans[i + 1]
  BY <1>1
<1>11. Failed(a)
  BY <1>2, <1>10 DEF Failed
<1>12. ~Unripe(a)
  BY <1>8, <1>10 DEF Unripe
<1>13. Ripe(a, v, f, ps)
  <2>1. \A i \in 1 .. Len(a) : a[i].tag # "ripe"
    BY <1>12 DEF Unripe
  <2> QED
    BY <1>8, <1>12, <2>1 DEF Ripe
<1>14. Counts(a, f)
  <2>1. f <= Len(log) /\ (sat \in Running => f <= dun)
    <3>1. e <= Len(log) /\ (sat \in Running => e <= dun)
      BY <1>2, <1>8 DEF Counts
    <3>2. h.tag = "done" => e + 1 <= Len(log) /\ (sat \in Running => e + 1 <= dun)
      BY <1>3 DEF h
    <3>3. CASE h.tag = "done"
      BY <3>2, <3>3 DEF h
    <3>4. CASE h.tag # "done"
      BY <3>1, <3>4 DEF h
    <3> QED
      BY <3>3, <3>4
  <2>2. sat \in Running => Len(state) = f + Dones(a)
    BY <1>2, <1>6, <1>8 DEF Counts
  <2> QED
    BY <2>1, <2>2 DEF Counts
<1>15. Unanswered(ans, ws) => Unanswered(a, v)
  <2> SUFFICES ASSUME NEW i \in 1 .. Len(ws), i > Nth(ans), ws[i].tag = "poke"
               PROVE  Unanswered(a, v)
    BY DEF Unanswered
  <2>1. i - 1 \in 1 .. Len(v) /\ v[i - 1] = ws[i] /\ i - 1 > Nth(a)
    BY <1>4, <1>5
  <2> QED
    BY <2>1 DEF Unanswered
<1>16. Ended(a, v, f, ps)
  BY <1>2, <1>6, <1>7, <1>15 DEF Ended
<1>17. Agree(a, ts, v, f, ps)
  BY <1>3, <1>9, <1>11, <1>13, <1>14, <1>16 DEF Agree
<1>18. f <= Len(log)
  BY <1>14 DEF Counts
<1> QED
  BY <1>3, <1>8, <1>17, <1>18 DEF a, v, h

\* A %sync is no writ's.
LEMMA AgreeSkip ==
    ASSUME NEW ans \in Seq(Gift), NEW ts \in Seq(Task), NEW ws \in Seq(Writs),
           NEW e \in Nat, NEW ps, Agree(ans, ts, ws, e, ps),
           ans # <<>>, Head(ans).tag = "sync"
    PROVE  Agree(Tail(ans), ts, ws, e, ps)
<1> DEFINE a == Tail(ans)
           h == Head(ans)
<1>1. /\ a \in Seq(Gift) /\ h = ans[1]
      /\ Len(ans) \in Nat \ {0} /\ Len(a) = Len(ans) - 1
      /\ \A i \in 1 .. Len(ans) - 1 : a[i] = ans[i + 1]
  BY RowTail
<1>2. /\ Talk(ans, ts, ws, e) /\ Even(ans, ts, ws, ps)
      /\ Failed(ans) /\ Ripe(ans, ws, e, ps) /\ Counts(ans, e) /\ Ended(ans, ws, e, ps)
  BY DEF Agree
<1>3. "sync" \notin ToWrits
  BY DEF ToWrits, GiftTags
<1>4. Talk(a, ts, ws, e)
  BY <1>2, <1>3, TalkSkip
<1>5. Nth(ans) = Nth(a) /\ Dones(ans) = Dones(a)
  <2>1. /\ Nth(ans) = Nth(a) + IF h.tag \in ToWrits THEN 1 ELSE 0
        /\ Dones(ans) = Dones(a) + IF h.tag = "done" THEN 1 ELSE 0
    BY NthTail
  <2>2. Nth(a) \in Nat /\ Dones(a) \in Nat
    BY <1>1, NthType
  <2> QED
    BY <1>3, <2>1, <2>2
<1> HIDE DEF a, h
<1>6. ASSUME NEW i \in 1 .. Len(a)
      PROVE  i + 1 \in 1 .. Len(ans) /\ i + 1 # 1 /\ a[i] = ans[i + 1]
  BY <1>1
<1>7. sat # "boot" /\ \A i \in 1 .. Len(ans) : ans[i].tag = "ripe" => i = 1
  BY <1>2 DEF Ripe
<1>8. /\ \A i \in 1 .. Len(a) : a[i].tag # "ripe"
      /\ \A i \in 1 .. Len(ans) : ans[i].tag # "ripe"
  BY <1>1, <1>6, <1>7 DEF h
<1>9. ~Unripe(a) /\ ~Unripe(ans)
  BY <1>7, <1>8 DEF Unripe
<1>10. Even(a, ts, ws, ps)
  BY <1>2, <1>5 DEF Even
<1>11. Failed(a)
  BY <1>2, <1>6 DEF Failed
<1>12. Ripe(a, ws, e, ps)
  BY <1>2, <1>7, <1>8, <1>9 DEF Ripe
<1>13. Counts(a, e)
  BY <1>2, <1>5, <1>9 DEF Counts
<1>14. Ended(a, ws, e, ps)
  BY <1>2, <1>5 DEF Ended, Unanswered
<1>15. Agree(a, ts, ws, e, ps)
  BY <1>4, <1>10, <1>11, <1>12, <1>13, <1>14 DEF Agree
<1> QED
  BY <1>15 DEF a

\* Talk of no events does not say how many there are.
LEMMA TalkNoWrits ==
    ASSUME NEW ans, NEW ts, NEW e, Talk(ans, ts, <<>>, e), NEW f
    PROVE  /\ \A i \in 1 .. Len(ans) : ans[i].tag \notin ToWrits
           /\ Talk(ans, ts, <<>>, f)
<1>1. Len(<<>>) = 0 /\ "done" \in ToWrits
  BY DEF ToWrits, GiftTags
<1>2. \A i \in 1 .. Len(ans) : ans[i].tag \notin ToWrits
  BY <1>1 DEF Talk
<1>3. Talk(ans, ts, <<>>, f)
  BY <1>1, <1>2 DEF Talk
<1> QED
  BY <1>2, <1>3

\* %ripe: the king learns how many events there are.
LEMMA AgreeRipe ==
    ASSUME IInv, NEW ans \in Seq(Gift), NEW ts \in Seq(Task),
           NEW e \in Nat, Agree(ans, ts, <<>>, e, "init"),
           ans # <<>>, Head(ans).tag = "ripe"
    PROVE  /\ e = 0 /\ Head(ans).eve = Len(log)
           /\ Agree(Tail(ans), ts, <<>>, Len(log), "wyrd")
<1> DEFINE a == Tail(ans)
           h == Head(ans)
           N == Len(log)
<1>1. /\ a \in Seq(Gift) /\ h = ans[1]
      /\ Len(ans) \in Nat \ {0} /\ Len(a) = Len(ans) - 1
      /\ \A i \in 1 .. Len(ans) - 1 : a[i] = ans[i + 1]
  BY RowTail
<1>2. /\ Talk(ans, ts, <<>>, e) /\ Even(ans, ts, <<>>, "init")
      /\ Failed(ans) /\ Ripe(ans, <<>>, e, "init") /\ Counts(ans, e)
      /\ Ended(ans, <<>>, e, "init")
  BY DEF Agree
<1>3. "ripe" \notin ToWrits /\ "done" \in ToWrits /\ <<>> \in Seq(Writs) /\ Len(<<>>) = 0
  BY DEF ToWrits, GiftTags
<1>4. Talk(a, ts, <<>>, e)
  BY <1>2, <1>3, TalkSkip
<1>5. Talk(a, ts, <<>>, N) /\ \A i \in 1 .. Len(a) : a[i].tag \notin ToWrits
  BY <1>4, TalkNoWrits
<1>6. Nth(ans) = Nth(a)
  <2>1. Nth(ans) = Nth(a) + IF h.tag \in ToWrits THEN 1 ELSE 0
    BY NthTail
  <2>2. Nth(a) \in Nat
    BY <1>1, NthType
  <2> QED
    BY <1>3, <2>1, <2>2
<1>7. Dones(a) = 0
  <2>1. \A i \in 1 .. Len(a) : a[i].tag \notin {"done"}
    BY <1>3, <1>5
  <2>2. Len(a) \in Nat
    BY <1>1
  <2> QED
    BY <2>1, <2>2, CountNone DEF Dones
<1>8. log \in Seq(Ids) /\ state \in Seq(Ids) /\ dun \in Nat /\ len \in Nat /\ N \in Nat
  BY Known
<1> HIDE DEF a, h, N
<1>9. ASSUME NEW i \in 1 .. Len(a)
      PROVE  i + 1 \in 1 .. Len(ans) /\ i + 1 # 1 /\ a[i] = ans[i + 1]
  BY <1>1
<1>10. /\ sat # "boot"
       /\ \A i \in 1 .. Len(ans) : ans[i].tag = "ripe" => i = 1 /\ ans[i].eve = Len(log)
  BY <1>2 DEF Ripe
<1>11. Unripe(ans) /\ h.eve = N /\ 1 \in 1 .. Len(ans)
  BY <1>1, <1>10 DEF h, N, Unripe
<1>12. \A i \in 1 .. Len(a) : a[i].tag # "ripe"
  BY <1>9, <1>10
<1>13. ~Unripe(a)
  BY <1>10, <1>12 DEF Unripe
<1>14. e = 0 /\ (sat \in Running => dun = Len(state))
  BY <1>2, <1>11 DEF Ripe
<1>15. Even(a, ts, <<>>, "wyrd")
  BY <1>2, <1>6 DEF Even
<1>16. Failed(a)
  BY <1>2, <1>9 DEF Failed
<1>17. Ripe(a, <<>>, N, "wyrd")
  BY <1>10, <1>12, <1>13 DEF Ripe
<1>18. Counts(a, N)
  <2>1. ASSUME sat \in Running
        PROVE  Len(state) = N /\ N <= dun
    <3>1. /\ Len(log) = IF ted = "yes" THEN dun + len ELSE dun
          /\ Begins(log, state)
          /\ ted # "idle" => len > 0 /\ dun + len <= Len(state)
      BY <2>1 DEF IInv, WriterOK
    <3>2. ted = "idle"
      BY <1>8, <1>14, <2>1, <3>1
    <3> QED
      BY <1>14, <2>1, <3>1, <3>2, <1>8 DEF N
  <2> QED
    BY <1>7, <1>8, <2>1 DEF Counts, N
<1>19. Ended(a, <<>>, N, "wyrd")
  <2>1. ~Unanswered(ans, <<>>)
    BY <1>3 DEF Unanswered
  <2>2. sat = "down" => Len(log) <= N + Dones(a)
    BY <1>7, <1>8 DEF N
  <2> QED
    BY <1>2, <2>1, <2>2 DEF Ended
<1>20. Agree(a, ts, <<>>, N, "wyrd")
  BY <1>5, <1>15, <1>16, <1>17, <1>18, <1>19 DEF Agree
<1> QED
  BY <1>11, <1>14, <1>20 DEF a, h, N
\* Writs are sent, and the tasks with them to a serf that is there.
LEMMA AgreeSend ==
    ASSUME inn \in Seq(Task), NEW ans \in Seq(Gift), NEW ws \in Seq(Writs),
           NEW e \in Nat, NEW ps, Agree(ans, Tasks, ws, e, ps), ps # "done",
           NEW new \in Seq(Writs), NEW more \in Seq(Task), Len(more) = Len(new),
           \A i \in 1 .. Len(new) : more[i] = TaskOf(new[i]),
           NEW r, (ps # "init" /\ r # "init") \/ (r = "done" /\ Exits(new))
    PROVE  Agree(ans, IF sat = "down" THEN <<>> ELSE inn \o more, ws \o new, e, r)
<1> DEFINE v == ws \o new
           ts == IF sat = "down" THEN <<>> ELSE inn \o more
<1>1. /\ Talk(ans, Tasks, ws, e) /\ Even(ans, Tasks, ws, ps)
      /\ Failed(ans) /\ Ripe(ans, ws, e, ps) /\ Counts(ans, e) /\ Ended(ans, ws, e, ps)
  BY DEF Agree
<1>2. /\ v \in Seq(Writs) /\ Len(ws) \in Nat /\ Len(new) \in Nat
      /\ Len(v) = Len(ws) + Len(new)
      /\ \A i \in 1 .. Len(ws) : v[i] = ws[i]
  BY RowConcat
<1>3. Nth(ans) \in Nat
  BY NthType
<1>4. Talk(ans, ts, v, e) /\ (sat # "down" => Nth(ans) + Len(ts) = Len(v))
  <2>1. CASE sat = "down"
    <3>1. Tasks = <<>> /\ ts = <<>> /\ <<>> \in Seq(Task)
      BY <2>1 DEF Tasks
    <3>2. Talk(ans, <<>>, v, e)
      BY <1>1, <3>1, TalkSend
    <3> QED
      BY <2>1, <3>1, <3>2
  <2>2. CASE sat # "down"
    <3>1. Tasks = inn /\ ts = inn \o more
      BY <2>2 DEF Tasks
    <3>2. Nth(ans) + Len(inn) = Len(ws)
      BY <1>1, <2>2, <3>1 DEF Even
    <3>3. Talk(ans, inn \o more, v, e)
      BY <1>1, <3>1, <3>2, TalkSend
    <3>4. Len(inn \o more) = Len(inn) + Len(more) /\ Len(inn) \in Nat
      BY RowConcat
    <3> HIDE DEF v, ts
    <3>5. Nth(ans) + Len(inn \o more) = Len(v)
      <4>1. Len(inn \o more) = Len(inn) + Len(new)
        BY <3>4
      <4>2. Len(v) = (Nth(ans) + Len(inn)) + Len(new)
        BY <1>2, <3>2
      <4>3. \A x, y, z \in Nat : x + (y + z) = (x + y) + z
        OBVIOUS
      <4>4. Nth(ans) + (Len(inn) + Len(new)) = (Nth(ans) + Len(inn)) + Len(new)
        BY <1>2, <1>3, <3>4, <4>3
      <4> QED
        BY <4>1, <4>2, <4>4
    <3> QED
      BY <3>1, <3>3, <3>5
  <2> QED
    BY <2>1, <2>2
<1>5. Even(ans, ts, v, r)
  BY <1>4 DEF Even
<1>6. Exits(ws) /\ Exits(new) => Exits(v)
  <2>1. ASSUME NEW i \in 1 .. Len(v)
        PROVE  \/ i \in 1 .. Len(ws) /\ v[i] = ws[i]
               \/ i - Len(ws) \in 1 .. Len(new) /\ v[i] = new[i - Len(ws)]
    BY RowEither
  <2> HIDE DEF v
  <2> QED
    BY <2>1 DEF Exits
<1> HIDE DEF v, ts
<1>7. Unripe(ans) \/ ps = "init" => e = 0 /\ Exits(ws) /\ ps = "init"
  BY <1>1 DEF Ripe
<1>8. Ripe(ans, v, e, r)
  <2>1. CASE ps # "init" /\ r # "init"
    <3>1. ~Unripe(ans)
      BY <1>7, <2>1
    <3> QED
      BY <1>1, <2>1, <3>1 DEF Ripe
  <2>2. CASE r = "done" /\ Exits(new)
    <3>1. Unripe(ans) => e = 0 /\ Exits(v)
      BY <1>6, <1>7, <2>2
    <3> QED
      BY <1>1, <2>2, <3>1 DEF Ripe
  <2> QED
    BY <2>1, <2>2
<1>9. Unanswered(ans, ws) => Unanswered(ans, v)
  <2>1. \A i \in 1 .. Len(ws) : i \in 1 .. Len(v) /\ v[i] = ws[i]
    BY <1>2
  <2> QED
    BY <2>1 DEF Unanswered
<1>10. Ended(ans, v, e, r)
  <2>1. CASE ps # "init"
    BY <1>1, <1>9, <2>1 DEF Ended
  <2>2. CASE r = "done" /\ Exits(new)
    BY <1>1, <1>6, <1>9, <2>2 DEF Ended
  <2> QED
    BY <2>1, <2>2
<1>11. Agree(ans, ts, v, e, r)
  BY <1>1, <1>4, <1>5, <1>8, <1>10 DEF Agree
<1> QED
  BY <1>11 DEF v, ts

\* What the king leaves alone.
LEMMA AgreeStays ==
    ASSUME UNCHANGED <<serfVars, crashes>>,
           NEW ans, NEW ts, NEW ws, NEW e, NEW ps, Agree(ans, ts, ws, e, ps),
           Answers' = ans, Tasks' = ts, writs' = ws, eve' = e, psat' = ps
    PROVE  Agree(Answers, Tasks, writs, eve, psat)'
<1>1. /\ sat' = sat /\ state' = state /\ log' = log /\ snap' = snap /\ dun' = dun
      /\ crashes' = crashes
  BY DEF serfVars
<1>2. Talk(Answers, Tasks, writs, eve)'
  BY DEF Agree, Talk, Nth, Count
<1>3. Even(Answers, Tasks, writs, psat)'
  BY <1>1 DEF Agree, Even, Nth, Count
<1>4. Failed(Answers)'
  BY <1>1 DEF Agree, Failed
<1>5. Unripe(Answers)' <=> Unripe(ans)
  BY <1>1 DEF Unripe
<1>6. Ripe(Answers, writs, eve, psat)'
  BY <1>1, <1>5 DEF Agree, Ripe, Exits
<1>7. Counts(Answers, eve)'
  BY <1>1, <1>5 DEF Agree, Counts, Dones, Count
<1>8. Ended(Answers, writs, eve, psat)'
  BY <1>1 DEF Agree, Ended, Exits, Dones, Count, Unanswered, Nth
<1> QED
  BY <1>2, <1>3, <1>4, <1>6, <1>7, <1>8 DEF Agree

\* The king changes nothing of the serf's but what is in the pipes.
LEMMA PipesInv ==
    ASSUME IInv, UNCHANGED serfVars, inn' \in Seq(Task), TasksOK',
           out' = out \/ (out # <<>> /\ out' = Tail(out)) \/ out' = <<>>
    PROVE  IInv' /\ (HeldInv => HeldInv')
<1>1. /\ sat' = sat /\ state' = state /\ log' = log /\ snap' = snap /\ dun' = dun
      /\ len' = len /\ ted' = ted /\ sav' = sav /\ gif' = gif
  BY DEF serfVars
<1>2. /\ out' \in Seq(Gift)
      /\ \A i \in 1 .. Len(out') : \E k \in 1 .. Len(out) : out'[i] = out[k]
  <2>1. out \in Seq(Gift)
    BY Known
  <2>2. CASE out' = out
    BY <2>1, <2>2, SMTT(30)
  <2>3. CASE out # <<>> /\ out' = Tail(out)
    <3>1. /\ Tail(out) \in Seq(Gift) /\ Len(Tail(out)) = Len(out) - 1
          /\ Len(out) \in Nat
          /\ \A i \in 1 .. Len(out) - 1 : Tail(out)[i] = out[i + 1]
      BY <2>1, <2>3, RowTail
    <3>2. \A i \in 1 .. Len(Tail(out)) : i + 1 \in 1 .. Len(out)
      BY <3>1
    <3> QED
      BY <2>3, <3>1, <3>2
  <2>4. CASE out' = <<>>
    BY <2>4
  <2> QED
    BY <2>2, <2>3, <2>4
<1>3. TypeOK' /\ EmptyOK' /\ WriterOK'
  BY <1>1, <1>2 DEF IInv, TypeOK, EmptyOK, WriterOK
<1>4. Told(gif, state)' /\ SnapshotBehindLog'
  BY <1>1 DEF IInv, SnapshotBehindLog, Told
<1>5. EffectsDurable'
  BY <1>1, <1>2 DEF IInv, EffectsDurable
<1>6. HeldInv => HeldInv'
  BY <1>1, <1>2 DEF HeldInv, Running
<1> QED
  BY <1>3, <1>4, <1>5, <1>6 DEF IInv

\* What the tasks in the pipe are after more of them.
LEMMA TasksMore ==
    ASSUME inn \in Seq(Task), NEW new \in Seq(Writs), NEW more \in Seq(Task),
           Len(more) = Len(new), \A i \in 1 .. Len(new) : more[i] = TaskOf(new[i]),
           TasksOK, \A i \in 1 .. Len(inn) : inn[i].tag # "save",
           \A i \in 1 .. Len(new) : new[i].tag = "poke" => new[i].egg.id \in Ids,
           inn' = inn \o more
    PROVE  /\ inn' \in Seq(Task) /\ TasksOK'
           /\ \A i \in 1 .. Len(inn') : inn'[i].tag # "save"
<1>1. inn' \in Seq(Task)
  BY RowConcat
<1>2. ASSUME NEW i \in 1 .. Len(more)
      PROVE  more[i].tag # "save" /\ (more[i].tag = "poke" => more[i].id \in Ids)
  <2>1. new[i] \in Writs /\ more[i] = TaskOf(new[i]) /\ i \in 1 .. Len(new)
    OBVIOUS
  <2>2. new[i].tag # "save"
    BY <2>1 DEF Writs
  <2> QED
    BY <2>1, <2>2 DEF TaskOf
<1>3. ASSUME NEW i \in 1 .. Len(inn')
      PROVE  inn'[i].tag # "save" /\ (inn'[i].tag = "poke" => inn'[i].id \in Ids)
  <2>1. \/ i \in 1 .. Len(inn) /\ inn'[i] = inn[i]
        \/ i - Len(inn) \in 1 .. Len(more) /\ inn'[i] = more[i - Len(inn)]
    BY RowEither
  <2> QED
    BY <1>2, <2>1 DEF TasksOK
<1>4. TasksOK'
  BY <1>3 DEF TasksOK
<1> QED
  BY <1>1, <1>3, <1>4

\* There is room for what is computed and for what the writs ask.
LEMMA BacklogKing ==
    ASSUME IInv, NEW ans \in Seq(Gift), NEW ts \in Seq(Task), NEW ws \in Seq(Writs),
           NEW e \in Nat, NEW ps, Agree(ans, ts, ws, e, ps), Room(ws, ps),
           sat # "down", NEW i \in 1 .. Len(ts), ts[i].tag = "poke"
    PROVE  Len(state) + i <= dun + WorkBatch
<1>1. Talk(ans, ts, ws, e) /\ Ripe(ans, ws, e, ps) /\ Counts(ans, e)
  BY DEF Agree
<1>2. Nth(ans) \in Nat /\ Dones(ans) \in Nat /\ Dones(ans) <= Nth(ans)
  BY NthType
<1>3. /\ Len(ts) \in Nat /\ Len(ws) \in Nat /\ dun \in Nat /\ Len(state) \in Nat
      /\ sat \in Sats
  BY Known DEF IInv, TypeOK
<1>4. ts[i] = TaskOf(ws[Nth(ans) + i]) /\ Nth(ans) + i \in 1 .. Len(ws)
  BY <1>1, <1>2, <1>3 DEF Talk
<1>5. Nth(ans) + i <= WorkBatch
  BY <1>4 DEF TaskOf, Room
<1>6. Len(state) <= dun + Nth(ans)
  <2>1. CASE sat = "boot"
    <3>1. state = <<>>
      BY <2>1 DEF IInv, EmptyOK
    <3> QED
      BY <1>2, <1>3, <3>1
  <2>2. CASE sat \in Running /\ Unripe(ans)
    BY <1>1, <1>2, <1>3, <2>2 DEF Ripe
  <2>3. CASE sat \in Running /\ ~Unripe(ans)
    <3>1. Len(state) = e + Dones(ans) /\ e <= dun
      BY <1>1, <2>3 DEF Counts
    <3> QED
      BY <1>2, <1>3, <3>1
  <2> QED
    BY <1>3, <2>1, <2>2, <2>3 DEF Sats, Running
<1> QED
  BY <1>2, <1>3, <1>5, <1>6, WorkBatchAssumption
-----------------------------------------------------------------------------
(* The steps of the king. *)

\* What PInv says, in the words of the lemmas above.
LEMMA KingKnown ==
    ASSUME PInv
    PROVE  /\ inn \in Seq(Task) /\ TasksOK /\ \A i \in 1 .. Len(inn) : inn[i].tag # "save"
           /\ plan \in Seq(Eggs) /\ peeks \in Seq(Ids) /\ writs \in Seq(Writs)
           /\ eve \in Nat /\ ova \in Seq(0 .. NDrivers + 1) /\ crashes \in Nat
           /\ Tasks \in Seq(Task) /\ Answers \in Seq(Gift)
           /\ state \in Seq(Ids) /\ log \in Seq(Ids)
           /\ out \in Seq(Gift) /\ gif \in Seq(Gift)
<1>1. inn \in Seq(Task) /\ TasksOK /\ state \in Seq(Ids) /\ log \in Seq(Ids)
      /\ out \in Seq(Gift) /\ gif \in Seq(Gift)
  BY Known DEF PInv, IInv
<1>2. Tasks \in Seq(Task)
  BY <1>1 DEF Tasks
<1>3. Answers \in Seq(Gift)
  BY <1>1, RowConcat DEF Answers
<1> QED
  BY <1>1, <1>2, <1>3 DEF PInv, KingOK

\* A king that goes on: ws is pending, new is sent, and the answers are in order.
LEMMA KingKeeps ==
    ASSUME PInv, UNCHANGED <<serfVars, crashes>>, psat' \in Up,
           plan' \in Seq(Eggs), peeks' \in Seq(Ids),
           eve' \in Nat, ova' \in Seq(0 .. NDrivers + 1),
           NEW ws \in Seq(Writs), NEW new \in Seq(Writs), writs' = ws \o new,
           NEW more \in Seq(Task), Len(more) = Len(new), inn' = inn \o more,
           \A i \in 1 .. Len(new) : more[i] = TaskOf(new[i]),
           out' = out \/ (out # <<>> /\ out' = Tail(out)),
           NEW ts, ts = IF sat = "down" THEN <<>> ELSE inn \o more,
           Line(ova', log, ts, plan'), Line(ova', state, ts, plan'),
           Sent(ova', writs', plan'), Room(writs', psat'),
           Agree(out' \o gif, ts, writs', eve', psat')
    PROVE  PInv'
<1>1. /\ sat' = sat /\ state' = state /\ log' = log /\ snap' = snap /\ dun' = dun
      /\ gif' = gif /\ crashes' = crashes /\ UNCHANGED serfVars
  BY DEF serfVars
<1>2. /\ writs' \in Seq(Writs) /\ Len(ws) \in Nat /\ Len(new) \in Nat
      /\ Len(writs') = Len(ws) + Len(new)
      /\ \A i \in Len(ws) + 1 .. Len(ws) + Len(new) : writs'[i] = new[i - Len(ws)]
  BY RowConcat
<1>3. ASSUME NEW i \in 1 .. Len(new), new[i].tag = "poke"
      PROVE  new[i].egg.id \in Ids
  <2>1. Len(ws) + i \in Len(ws) + 1 .. Len(ws) + Len(new) /\ (Len(ws) + i) - Len(ws) = i
    BY <1>2
  <2>2. Len(ws) + i \in 1 .. Len(writs') /\ writs'[Len(ws) + i] = new[i]
    BY <1>2, <2>1
  <2>3. writs'[Len(ws) + i].egg.id \in Ids
    BY <1>3, <2>2 DEF Sent
  <2> QED
    BY <2>2, <2>3
<1>4. /\ inn' \in Seq(Task) /\ TasksOK'
      /\ \A i \in 1 .. Len(inn') : inn'[i].tag # "save"
  BY <1>3, KingKnown, TasksMore
<1>5. IInv' /\ HeldInv'
  BY <1>1, <1>4, PipesInv DEF PInv
<1>6. Tasks' = ts /\ Answers' = out' \o gif
  BY <1>1 DEF Tasks, Answers
<1>7. KingOK'
  <2>1. psat' # "down" /\ psat' \in Up \cup {"down"} /\ crashes' \in Nat
    BY <1>1, KingKnown DEF Up
  <2> QED
    BY <1>2, <1>4, <2>1 DEF KingOK
<1>8. LineInv'
  BY <1>1, <1>6 DEF LineInv
<1>9. KingInv'
  <2>1. Agree(Answers, Tasks, writs, eve, psat)'
    BY <1>1, <1>6, AgreeStays
  <2>2. Sent(ova, writs, plan)' /\ Room(writs, psat)'
    BY DEF Sent, Room
  <2> QED
    BY <2>1, <2>2 DEF KingInv
<1>10. BacklogInv'
  <2> SUFFICES ASSUME sat # "down"
               PROVE  /\ Len(state) <= dun + WorkBatch
                      /\ \A i \in 1 .. Len(inn') :
                           inn'[i].tag = "poke" => Len(state) + i <= dun + WorkBatch
    BY <1>1 DEF BacklogInv
  <2>1. Len(state) <= dun + WorkBatch
    BY DEF PInv, BacklogInv
  <2>2. ts = inn' /\ ts \in Seq(Task)
    BY <1>4
  <2>3. out' \o gif \in Seq(Gift)
    <3>1. out' \in Seq(Gift) /\ gif \in Seq(Gift)
      BY <1>5, KingKnown DEF IInv, TypeOK
    <3> QED
      BY <3>1, RowConcat
  <2>4. IInv
    BY DEF PInv
  <2> QED
    BY <1>2, <2>1, <2>2, <2>3, <2>4, BacklogKing
<1> QED
  BY <1>5, <1>7, <1>8, <1>9, <1>10 DEF PInv

\* A king that sends nothing.
LEMMA KingListens ==
    ASSUME PInv, UNCHANGED <<serfVars, crashes, inn>>, psat' \in Up,
           plan' \in Seq(Eggs), peeks' \in Seq(Ids), writs' \in Seq(Writs),
           eve' \in Nat, ova' \in Seq(0 .. NDrivers + 1),
           out' = out \/ (out # <<>> /\ out' = Tail(out)),
           Line(ova', log, Tasks, plan'), Line(ova', state, Tasks, plan'),
           Sent(ova', writs', plan'), Room(writs', psat'),
           Agree(out' \o gif, Tasks, writs', eve', psat')
    PROVE  PInv'
<1>1. /\ <<>> \in Seq(Writs) /\ <<>> \in Seq(Task) /\ Len(<<>>) = 0
      /\ writs' = writs' \o <<>>
  OBVIOUS
<1>2. inn' = inn \o <<>>
  BY KingKnown
<1>3. Tasks = IF sat = "down" THEN <<>> ELSE inn \o <<>>
  BY KingKnown DEF Tasks
<1>4. PICK w : w = writs'
  OBVIOUS
<1>5. PICK t : t = Tasks
  OBVIOUS
<1>6. PICK z : z = <<>>
  OBVIOUS
<1>7. PICK n : n = <<>>
  OBVIOUS
<1>8. w \in Seq(Writs) /\ n \in Seq(Writs) /\ z \in Seq(Task) /\ writs' = w \o n
      /\ Len(n) = Len(z) /\ inn' = inn \o z
      /\ (\A i \in 1 .. Len(n) : z[i] = TaskOf(n[i]))
      /\ t = IF sat = "down" THEN <<>> ELSE inn \o z
  BY <1>1, <1>2, <1>3, <1>4, <1>5, <1>6, <1>7
<1>9. /\ Line(ova', log, t, plan') /\ Line(ova', state, t, plan')
      /\ Agree(out' \o gif, t, writs', eve', psat')
  BY <1>5
<1> QED
  BY <1>8, <1>9, KingKeeps

\* u3_king_done(), or a fault.
LEMMA EndKeeps ==
    ASSUME PInv, UNCHANGED serfVars, crashes' \in Nat, eve' \in Nat,
           NEW x, Pier!End(x)
    PROVE  PInv'
<1>1. /\ sat' = sat /\ state' = state /\ log' = log /\ dun' = dun
  BY DEF serfVars
<1>2. /\ psat' = "down" /\ plan' = <<>> /\ peeks' = <<>> /\ writs' = <<>>
      /\ out' = <<>> /\ ova' = ova /\ inn' = inn
  BY DEF Pier!End
<1>3. inn' \in Seq(Task) /\ TasksOK'
  BY <1>2, KingKnown DEF TasksOK
<1>4. IInv' /\ HeldInv'
  BY <1>2, <1>3, PipesInv DEF PInv
<1>5. KingOK'
  BY <1>2, KingKnown DEF KingOK
<1>6. LineInv'
  <2>1. Line(ova, log, Tasks, <<>>) /\ Line(ova, state, Tasks, <<>>)
    BY LineLess DEF PInv, LineInv
  <2>2. Tasks' = Tasks
    BY <1>1, <1>2 DEF Tasks
  <2> QED
    BY <1>1, <1>2, <2>1, <2>2 DEF LineInv
<1>7. KingInv'
  BY <1>2 DEF KingInv, Up
<1>8. BacklogInv'
  BY <1>1, <1>2 DEF PInv, BacklogInv
<1> QED
  BY <1>4, <1>5, <1>6, <1>7, <1>8 DEF PInv
-----------------------------------------------------------------------------
(* Ova that are planned. *)

\* An ovum that is new comes after all there are.
LEMMA FreshAfter ==
    ASSUME NEW D, NEW o \in Seq(D), NEW d \in D, NEW x, x = Len(o) + 1
    PROVE  /\ Append(o, d) \in Seq(D) /\ Begins(o, Append(o, d))
           /\ x \in 1 .. Len(Append(o, d)) /\ x \notin 1 .. Len(o)
           /\ Append(o, d)[x] = d
           /\ \A y \in 1 .. Len(o) : Append(o, d)[y] = o[y]
           /\ \A y \in 1 .. Len(o) : Before(Append(o, d), y, x)
<1> DEFINE p == Append(o, d)
<1>1. /\ p \in Seq(D) /\ Len(o) \in Nat /\ Len(p) = Len(o) + 1 /\ p[Len(o) + 1] = d
      /\ \A i \in 1 .. Len(o) : p[i] = o[i]
  BY RowAppend
<1> HIDE DEF p
<1>2. /\ Begins(o, p) /\ x \in 1 .. Len(p) /\ x \notin 1 .. Len(o) /\ p[x] = d
  BY <1>1 DEF Begins
<1>3. \A y \in 1 .. Len(o) : Before(p, y, x)
  BY <1>1 DEF Before
<1> QED
  BY <1>1, <1>2, <1>3 DEF p

\* All that a line is of.
LEMMA LineKnown ==
    ASSUME NEW o, NEW s, NEW ts, NEW pl, Line(o, s, ts, pl)
    PROVE  /\ \A i \in 1 .. Len(s) : s[i] \in 1 .. Len(o)
           /\ \A i \in 1 .. Len(ts) : ts[i].tag = "poke" => ts[i].id \in 1 .. Len(o)
           /\ \A i \in 1 .. Len(pl) : pl[i].id \in 1 .. Len(o) /\ o[pl[i].id] = pl[i].drv
BY DEF Line

\* A new ovum at the end of its driver's queue.
LEMMA LinePlan ==
    ASSUME NEW D, NEW o \in Seq(D), NEW s \in Seq(Ids), NEW ts \in Seq(Task),
           NEW pl \in Seq(Eggs), Line(o, s, ts, pl), NEW e \in Eggs,
           e.id = Len(o) + 1, e.drv \in D, NEW k \in 1 .. Len(pl) + 1,
           \A i \in k .. Len(pl) : pl[i].drv # e.drv
    PROVE  Line(Append(o, e.drv), s, ts, InsertAt(pl, k, e))
<1>1. PICK p : p = Append(o, e.drv)
  OBVIOUS
<1>2. PICK x : x = e.id
  OBVIOUS
<1>3. /\ p \in Seq(D) /\ Begins(o, p)
      /\ x \in 1 .. Len(p) /\ x \notin 1 .. Len(o) /\ p[x] = e.drv
      /\ \A y \in 1 .. Len(o) : p[y] = o[y]
      /\ \A y \in 1 .. Len(o) : Before(p, y, x)
  BY <1>1, <1>2, FreshAfter
<1>4. Line(p, s, ts, pl)
  BY <1>3, LineMore
<1>5. /\ \A i \in 1 .. Len(s) : Before(p, s[i], x)
      /\ \A i \in 1 .. Len(ts) : ts[i].tag = "poke" => Before(p, ts[i].id, x)
      /\ \A i \in 1 .. Len(pl) : Before(p, pl[i].id, x)
  BY <1>3, LineKnown
<1>6. /\ \A i \in 1 .. k - 1 : i \in 1 .. Len(pl)
      /\ \A i \in k .. Len(pl) : i \in 1 .. Len(pl)
  OBVIOUS
<1>7. ASSUME NEW i \in k .. Len(pl)
      PROVE  Before(p, x, pl[i].id)
  <2>1. pl[i].id \in 1 .. Len(o) /\ o[pl[i].id] = pl[i].drv
    BY <1>6, LineKnown
  <2>2. pl[i].drv # e.drv
    OBVIOUS
  <2>3. x # pl[i].id /\ p[x] # p[pl[i].id]
    BY <1>3, <2>1, <2>2
  <2> QED
    BY <2>3 DEF Before
<1> QED
  BY <1>1, <1>2, <1>3, <1>4, <1>5, <1>6, <1>7, LineInsert

\* A new ovum that is sent at once, of a driver that has nothing planned.
LEMMA LineNew ==
    ASSUME NEW D, NEW o \in Seq(D), NEW s \in Seq(Ids), NEW ts \in Seq(Task),
           NEW pl \in Seq(Eggs), Line(o, s, ts, pl), NEW t \in Task,
           t.id = Len(o) + 1, NEW d \in D, \A i \in 1 .. Len(pl) : pl[i].drv # d
    PROVE  /\ Line(Append(o, d), s, ts, pl)
           /\ Line(Append(o, d), s, ts \o <<t>>, pl)
<1>1. PICK p : p = Append(o, d)
  OBVIOUS
<1>2. PICK x : x = t.id
  OBVIOUS
<1>3. /\ p \in Seq(D) /\ Begins(o, p)
      /\ x \in 1 .. Len(p) /\ x \notin 1 .. Len(o) /\ p[x] = d
      /\ \A y \in 1 .. Len(o) : p[y] = o[y]
      /\ \A y \in 1 .. Len(o) : Before(p, y, x)
  BY <1>1, <1>2, FreshAfter
<1>4. Line(p, s, ts, pl)
  BY <1>3, LineMore
<1>5. /\ \A i \in 1 .. Len(s) : Before(p, s[i], x)
      /\ \A i \in 1 .. Len(ts) : ts[i].tag = "poke" => Before(p, ts[i].id, x)
  BY <1>3, LineKnown
<1>6. ASSUME NEW i \in 1 .. Len(pl)
      PROVE  Before(p, x, pl[i].id)
  <2>1. pl[i].id \in 1 .. Len(o) /\ o[pl[i].id] = pl[i].drv
    BY LineKnown
  <2>2. x # pl[i].id /\ p[x] # p[pl[i].id]
    BY <1>3, <2>1
  <2> QED
    BY <2>2 DEF Before
<1> QED
  BY <1>1, <1>2, <1>3, <1>4, <1>5, <1>6, LineOne

\* The first ova of the drivers, when nothing else is planned.
LEMMA LineBorn ==
    ASSUME NEW D, NEW o \in Seq(D), NEW b \in Seq(D), NEW s \in Seq(Ids),
           NEW ts \in Seq(Task), NEW old \in Seq(Eggs), Line(o, s, ts, old),
           NEW pl \in Seq(Eggs), Len(pl) = Len(b),
           \A i \in 1 .. Len(b) : pl[i].id = Len(o) + i /\ pl[i].drv = b[i]
    PROVE  Line(o \o b, s, ts, pl)
<1>1. PICK p : p = o \o b
  OBVIOUS
<1>2. /\ p \in Seq(D) /\ Len(o) \in Nat /\ Len(b) \in Nat /\ Len(p) = Len(o) + Len(b)
      /\ \A i \in 1 .. Len(o) : p[i] = o[i]
      /\ \A i \in Len(o) + 1 .. Len(o) + Len(b) : p[i] = b[i - Len(o)]
  BY <1>1, RowConcat
<1>3. Begins(o, p)
  BY <1>2 DEF Begins
<1>4. Line(o, s, ts, <<>>) /\ <<>> \in Seq(Eggs)
  BY LineLess
<1>5. Line(p, s, ts, <<>>)
  BY <1>2, <1>3, <1>4, LineMore
<1>6. ASSUME NEW i \in 1 .. Len(pl)
      PROVE  /\ pl[i].id \in 1 .. Len(p) /\ pl[i].id > Len(o) /\ p[pl[i].id] = pl[i].drv
             /\ \A y \in 1 .. Len(o) : Before(p, y, pl[i].id)
             /\ \A j \in 1 .. Len(pl) : i < j => Before(p, pl[i].id, pl[j].id)
  <2>1. /\ pl[i].id = Len(o) + i /\ pl[i].drv = b[i] /\ i \in Nat \ {0}
        /\ Len(o) + i \in Len(o) + 1 .. Len(o) + Len(b) /\ (Len(o) + i) - Len(o) = i
    BY <1>2
  <2>2. p[Len(o) + i] = b[i]
    BY <1>2, <2>1
  <2>3. ASSUME NEW y \in 1 .. Len(o)
        PROVE  Before(p, y, pl[i].id)
    <3>1. y < pl[i].id /\ y # pl[i].id
      BY <1>2, <2>1
    <3> QED
      BY <3>1 DEF Before
  <2>4. ASSUME NEW j \in 1 .. Len(pl), i < j
        PROVE  Before(p, pl[i].id, pl[j].id)
    <3>1. pl[j].id = Len(o) + j
      OBVIOUS
    <3>2. pl[i].id < pl[j].id /\ pl[i].id # pl[j].id
      BY <1>2, <2>1, <2>4, <3>1
    <3> QED
      BY <3>2 DEF Before
  <2>5. pl[i].id \in 1 .. Len(p) /\ pl[i].id > Len(o)
    BY <1>2, <2>1
  <2> QED
    BY <2>1, <2>2, <2>3, <2>4, <2>5
<1>7. /\ \A i \in 1 .. Len(s) : s[i] \in 1 .. Len(o)
      /\ \A i \in 1 .. Len(ts) : ts[i].tag = "poke" => ts[i].id \in 1 .. Len(o)
  BY LineKnown
<1>8. /\ \A i \in 1 .. Len(s) :
           /\ s[i] \in 1 .. Len(p)
           /\ \A j \in 1 .. Len(s) : i < j => Before(p, s[i], s[j])
           /\ \A j \in 1 .. Len(ts) : ts[j].tag = "poke" => Before(p, s[i], ts[j].id)
      /\ \A i \in 1 .. Len(ts) : ts[i].tag = "poke" =>
           /\ ts[i].id \in 1 .. Len(p)
           /\ \A j \in 1 .. Len(ts) :
                i < j /\ ts[j].tag = "poke" => Before(p, ts[i].id, ts[j].id)
  BY <1>5 DEF Line
<1>9. Line(p, s, ts, pl)
  BY <1>6, <1>7, <1>8 DEF Line
<1> QED
  BY <1>1, <1>9

\* No writ is about an ovum that is new.
LEMMA SentBorn ==
    ASSUME NEW D, NEW o \in Seq(D), NEW b \in Seq(D), NEW ws \in Seq(Writs),
           NEW old, Sent(o, ws, old),
           NEW pl \in Seq(Eggs), Len(pl) = Len(b),
           \A i \in 1 .. Len(b) : pl[i].id = Len(o) + i
    PROVE  Sent(o \o b, ws, pl)
<1>1. PICK p : p = o \o b
  OBVIOUS
<1>2. /\ p \in Seq(D) /\ Len(o) \in Nat /\ Len(b) \in Nat /\ Len(p) = Len(o) + Len(b)
      /\ \A i \in 1 .. Len(o) : p[i] = o[i]
  BY <1>1, RowConcat
<1>3. Begins(o, p)
  BY <1>2 DEF Begins
<1>4. Sent(o, ws, <<>>)
  BY SentLess
<1>5. Sent(p, ws, <<>>)
  BY <1>2, <1>3, <1>4, SentMore
<1>6. ASSUME NEW i \in 1 .. Len(ws), ws[i].tag = "poke", NEW j \in 1 .. Len(pl)
      PROVE  ws[i].egg.id # pl[j].id
  <2>1. ws[i].egg.id \in 1 .. Len(o)
    BY <1>4, <1>6, SentAt
  <2>2. pl[j].id = Len(o) + j /\ j \in Nat \ {0}
    BY <1>2
  <2> QED
    BY <1>2, <2>1, <2>2
<1>7. Sent(p, ws, pl)
  BY <1>5, <1>6 DEF Sent
<1> QED
  BY <1>1, <1>7

\* A task that is no event is no part of the line.
LEMMA LineAside ==
    ASSUME NEW o, NEW s, NEW ts \in Seq(Task), NEW pl, Line(o, s, ts, pl),
           NEW t \in Task, t.tag # "poke"
    PROVE  Line(o, s, ts \o <<t>>, pl)
<1>1. PICK u : u = ts \o <<t>>
  OBVIOUS
<1>2. u = Append(ts, t)
  BY <1>1
<1>3. /\ Len(ts) \in Nat /\ Len(u) = Len(ts) + 1 /\ u[Len(ts) + 1] = t
      /\ \A i \in 1 .. Len(ts) : u[i] = ts[i]
  BY <1>2, RowAppend
<1>4. ASSUME NEW i \in 1 .. Len(u), u[i].tag = "poke"
      PROVE  i \in 1 .. Len(ts) /\ u[i] = ts[i]
  BY <1>3, <1>4
<1>5. \A i \in 1 .. Len(s) :
         /\ s[i] \in 1 .. Len(o)
         /\ \A j \in 1 .. Len(s) : i < j => Before(o, s[i], s[j])
         /\ \A j \in 1 .. Len(u) : u[j].tag = "poke" => Before(o, s[i], u[j].id)
         /\ \A j \in 1 .. Len(pl) : Before(o, s[i], pl[j].id)
  BY <1>4 DEF Line
<1>6. \A i \in 1 .. Len(u) : u[i].tag = "poke" =>
         /\ u[i].id \in 1 .. Len(o)
         /\ \A j \in 1 .. Len(u) :
              i < j /\ u[j].tag = "poke" => Before(o, u[i].id, u[j].id)
         /\ \A j \in 1 .. Len(pl) : Before(o, u[i].id, pl[j].id)
  BY <1>4 DEF Line
<1>7. \A i \in 1 .. Len(pl) :
         /\ pl[i].id \in 1 .. Len(o) /\ o[pl[i].id] = pl[i].drv
         /\ \A j \in 1 .. Len(pl) : i < j => Before(o, pl[i].id, pl[j].id)
  BY DEF Line
<1>8. Line(o, s, u, pl)
  BY <1>5, <1>6, <1>7 DEF Line
<1> QED
  BY <1>1, <1>8
\* _pier_work_send(): some of the queues, and no more than there is room for.
LEMMA WorkDrawn ==
    ASSUME peeks \in Seq(Ids), NEW pl \in Seq(Eggs), NEW ws, NEW pre \in Seq(Writs),
           \A i \in 1 .. Len(pre) : pre[i].tag = "live",
           Pier!WorkSend(pl, ws, pre)
    PROVE  \E n \in 0 .. Len(pl), m \in Nat, new \in Seq(Writs) :
             /\ Len(new) = Len(pre) + (n + m)
             /\ n + m <= Pier!Room(Len(ws) + Len(pre))
             /\ \A i \in 1 .. Len(new) : new[i].tag # "exit"
             /\ Drawn(new, pl, n)
             /\ Pier!Dispatch(ws, new)
             /\ plan' = SubSeq(pl, n + 1, Len(pl))
             /\ peeks' \in Seq(Ids)
<1>1. PICK n \in 0 .. Len(pl), m \in 0 .. Len(peeks) :
        /\ Pier!Share(n, Len(pl), m, Len(peeks), Pier!Room(Len(ws) + Len(pre)))
        /\ Pier!Dispatch(ws, pre \o Pier!Merge(Pier!Pokes(SubSeq(pl, 1, n)),
                                               Pier!Peeks(SubSeq(peeks, 1, m))))
        /\ plan' = SubSeq(pl, n + 1, Len(pl))
        /\ peeks' = SubSeq(peeks, m + 1, Len(peeks))
  BY DEF Pier!WorkSend
<1>2. PICK new : new = Batch(pl, peeks, n, m, pre)
  OBVIOUS
<1>3. /\ new \in Seq(Writs) /\ Len(new) = Len(pre) + (n + m)
      /\ \A i \in 1 .. Len(new) : new[i].tag # "exit"
      /\ Drawn(new, pl, n)
  BY <1>2, WorkWrits
<1>4. Pier!Dispatch(ws, new)
  BY <1>1, <1>2 DEF Batch
<1>5. n + m <= Pier!Room(Len(ws) + Len(pre)) /\ m \in Nat
  BY <1>1 DEF Pier!Share
<1>6. peeks' \in Seq(Ids)
  BY <1>1, RowRest
<1> QED
  BY <1>1, <1>3, <1>4, <1>5, <1>6

\* A pier that works sends what there is room for.
LEMMA WorkKeeps ==
    ASSUME PInv, UNCHANGED <<serfVars, crashes>>, psat' = "work",
           NEW pl \in Seq(Eggs), NEW ws \in Seq(Writs), NEW pre \in Seq(Writs),
           \A i \in 1 .. Len(pre) : pre[i].tag = "live",
           Pier!WorkSend(pl, ws, pre),
           eve' \in Nat, ova' \in Seq(0 .. NDrivers + 1),
           out' = out \/ (out # <<>> /\ out' = Tail(out)),
           Line(ova', log, Tasks, pl), Line(ova', state, Tasks, pl), Sent(ova', ws, pl),
           NEW ps \in {"wyrd", "work"}, Room(ws, ps), Len(ws) + Len(pre) <= WorkBatch,
           Agree(out' \o gif, Tasks, ws, eve', ps)
    PROVE  PInv'
<1>1. PICK n \in 0 .. Len(pl), m \in Nat, new \in Seq(Writs) :
        /\ Len(new) = Len(pre) + (n + m)
        /\ n + m <= Pier!Room(Len(ws) + Len(pre))
        /\ \A i \in 1 .. Len(new) : new[i].tag # "exit"
        /\ Drawn(new, pl, n)
        /\ Pier!Dispatch(ws, new)
        /\ plan' = SubSeq(pl, n + 1, Len(pl))
        /\ peeks' \in Seq(Ids)
  BY KingKnown, WorkDrawn
<1>3. /\ new \in Seq(Writs) /\ Len(new) = Len(pre) + (n + m)
      /\ \A i \in 1 .. Len(new) : new[i].tag # "exit"
      /\ Drawn(new, pl, n)
  BY <1>1
<1>4. Pier!Dispatch(ws, new)
  BY <1>1
<1>5. /\ writs' = ws \o new
      /\ \E more \in Seq(Task) :
           /\ Len(more) = Len(new) /\ inn' = inn \o more
           /\ \A i \in 1 .. Len(new) : more[i] = TaskOf(new[i])
  BY <1>3, <1>4, KingKnown, Dispatched
<1>6. PICK more \in Seq(Task) :
           /\ Len(more) = Len(new) /\ inn' = inn \o more
           /\ \A i \in 1 .. Len(new) : more[i] = TaskOf(new[i])
  BY <1>5
<1>7. PICK ts : ts = IF sat = "down" THEN <<>> ELSE inn \o more
  OBVIOUS
<1>8. plan' \in Seq(Eggs) /\ peeks' \in Seq(Ids)
  <2>1. SubSeq(pl, n + 1, Len(pl)) \in Seq(Eggs)
    BY RowRest
  <2> QED
    BY <1>1, <2>1
<1>9. ASSUME NEW s \in Seq(Ids), Line(ova', s, Tasks, pl)
      PROVE  Line(ova', s, ts, plan')
  <2>1. CASE sat = "down"
    <3>1. Tasks = ts
      BY <1>7, <2>1 DEF Tasks
    <3>2. Line(ova', s, Tasks, SubSeq(pl, n + 1, Len(pl)))
      BY <1>3, <1>6, <1>9, KingKnown, LineSend
    <3> QED
      BY <1>1, <3>1, <3>2
  <2>2. CASE sat # "down"
    <3>1. ts = Tasks \o more
      BY <1>7, <2>2 DEF Tasks
    <3>2. Line(ova', s, Tasks \o more, SubSeq(pl, n + 1, Len(pl)))
      BY <1>3, <1>6, <1>9, KingKnown, LineSend
    <3> QED
      BY <1>1, <3>1, <3>2
  <2> QED
    BY <2>1, <2>2
<1>10. Line(ova', log, ts, plan') /\ Line(ova', state, ts, plan')
  BY <1>9, KingKnown
<1>11. Sent(ova', writs', plan')
  <2>1. \A i \in 1 .. Len(pl) : pl[i].id \in Ids
    <3>1. \A i \in 1 .. Len(pl) : pl[i] \in Eggs
      OBVIOUS
    <3> QED
      BY <3>1 DEF Eggs
  <2>2. Sent(ova', ws \o new, SubSeq(pl, n + 1, Len(pl)))
    BY <1>3, <2>1, SentSend
  <2> QED
    BY <1>1, <1>5, <2>2
<1>12. Room(writs', "work")
  <2>1. Len(ws) + Len(new) <= WorkBatch
    <3>1. n + m <= Pier!Room(Len(ws) + Len(pre)) /\ n \in Nat /\ m \in Nat
      BY <1>1
    <3>2. Len(ws) \in Nat /\ Len(pre) \in Nat
      OBVIOUS
    <3>3. CASE Len(ws) + Len(pre) < WorkBatch
      <4>1. n + m <= WorkBatch - (Len(ws) + Len(pre))
        BY <3>1, <3>3 DEF Pier!Room
      <4> QED
        BY <1>3, <3>1, <3>2, <4>1, WorkBatchAssumption
    <3>4. CASE ~(Len(ws) + Len(pre) < WorkBatch)
      <4>1. n + m <= 0
        BY <3>1, <3>4 DEF Pier!Room
      <4> QED
        BY <1>3, <3>1, <3>2, <4>1, WorkBatchAssumption
    <3> QED
      BY <3>3, <3>4
  <2>2. ps # "done"
    OBVIOUS
  <2> QED
    BY <1>3, <1>5, <2>1, <2>2, RoomSend
<1>13. Agree(out' \o gif, ts, writs', eve', "work")
  <2>1. PICK ans : ans = out' \o gif
    OBVIOUS
  <2>2. ans \in Seq(Gift)
    <3>1. out' \in Seq(Gift)
      BY KingKnown, RowTail
    <3> QED
      BY <2>1, <3>1, KingKnown, RowConcat
  <2>3. ps # "done" /\ ps # "init"
    OBVIOUS
  <2>4. Agree(ans, Tasks, ws, eve', ps)
    BY <2>1
  <2>5. PICK e \in Nat : e = eve'
    OBVIOUS
  <2>6. Agree(ans, IF sat = "down" THEN <<>> ELSE inn \o more, ws \o new, e, "work")
    BY <1>3, <1>6, <2>2, <2>3, <2>4, <2>5, KingKnown, AgreeSend
  <2> QED
    BY <1>5, <1>7, <2>1, <2>5, <2>6
<1>14. psat' \in Up
  BY DEF Up
<1> QED
  BY <1>3, <1>5, <1>6, <1>7, <1>8, <1>10, <1>11, <1>12, <1>13, <1>14, KingKeeps

\* One writ is sent that is not of the queues.
LEMMA OneKeeps ==
    ASSUME PInv, UNCHANGED <<serfVars, crashes, plan, peeks>>, psat' \in Up,
           NEW ws \in Seq(Writs), NEW w \in Writs, Pier!Dispatch(ws, <<w>>),
           eve' \in Nat, ova' \in Seq(0 .. NDrivers + 1),
           out' = out \/ (out # <<>> /\ out' = Tail(out)),
           NEW ps, Agree(out' \o gif, Tasks, ws, eve', ps), ps # "done",
           (ps # "init" /\ psat' # "init") \/ (psat' = "done" /\ w.tag = "exit"),
           Sent(ova', writs', plan), Room(writs', psat'),
           \A s \in Seq(Ids) : Line(ova, s, Tasks, plan) =>
             Line(ova', s, Tasks, plan) /\ Line(ova', s, Tasks \o <<TaskOf(w)>>, plan)
    PROVE  PInv'
<1>1. PICK new : new = <<w>>
  OBVIOUS
<1>2. new \in Seq(Writs) /\ Len(new) = 1 /\ new[1] = w /\ Pier!Dispatch(ws, new)
  BY <1>1
<1>3. /\ writs' = ws \o new
      /\ \E more \in Seq(Task) :
           /\ Len(more) = Len(new) /\ inn' = inn \o more
           /\ \A i \in 1 .. Len(new) : more[i] = TaskOf(new[i])
  BY <1>2, KingKnown, Dispatched
<1>4. PICK more \in Seq(Task) :
           /\ Len(more) = Len(new) /\ inn' = inn \o more
           /\ \A i \in 1 .. Len(new) : more[i] = TaskOf(new[i])
  BY <1>3
<1>5. more = <<TaskOf(w)>>
  <2>1. Len(more) = 1 /\ more[1] = TaskOf(w)
    BY <1>2, <1>4
  <2> QED
    BY <2>1
<1>6. PICK ts : ts = IF sat = "down" THEN <<>> ELSE inn \o more
  OBVIOUS
<1>7. ASSUME NEW s \in Seq(Ids), Line(ova, s, Tasks, plan)
      PROVE  Line(ova', s, ts, plan')
  <2>1. Line(ova', s, Tasks, plan) /\ Line(ova', s, Tasks \o <<TaskOf(w)>>, plan)
    BY <1>7
  <2>2. ts = Tasks \/ ts = Tasks \o <<TaskOf(w)>>
    BY <1>5, <1>6 DEF Tasks
  <2> QED
    BY <2>1, <2>2
<1>8. Line(ova', log, ts, plan') /\ Line(ova', state, ts, plan')
  BY <1>7, KingKnown DEF PInv, LineInv
<1>9. Agree(out' \o gif, ts, writs', eve', psat')
  <2>1. PICK ans : ans = out' \o gif
    OBVIOUS
  <2>2. ans \in Seq(Gift)
    <3>1. out' \in Seq(Gift)
      BY KingKnown, RowTail
    <3> QED
      BY <2>1, <3>1, KingKnown, RowConcat
  <2>3. Agree(ans, Tasks, ws, eve', ps)
    BY <2>1
  <2>4. PICK e \in Nat : e = eve'
    OBVIOUS
  <2>5. PICK r : r = psat'
    OBVIOUS
  <2>6. (ps # "init" /\ r # "init") \/ (r = "done" /\ Exits(new))
    BY <1>2, <2>5 DEF Exits
  <2>7. Agree(ans, IF sat = "down" THEN <<>> ELSE inn \o more, ws \o new, e, r)
    BY <1>2, <1>4, <2>2, <2>3, <2>4, <2>6, KingKnown, AgreeSend
  <2> QED
    BY <1>3, <1>6, <2>1, <2>4, <2>5, <2>7
<1>10. plan' \in Seq(Eggs) /\ peeks' \in Seq(Ids) /\ Sent(ova', writs', plan')
  BY KingKnown
<1> QED
  BY <1>2, <1>3, <1>4, <1>6, <1>8, <1>9, <1>10, KingKeeps

\* An exit is sent.
LEMMA ExitKeeps ==
    ASSUME PInv, UNCHANGED <<serfVars, crashes, plan, peeks, ova>>, psat' = "done",
           NEW ws \in Seq(Writs),
           Pier!Dispatch(ws, <<Pier!Writ("exit", Pier!NoEgg)>>),
           eve' \in Nat, out' = out \/ (out # <<>> /\ out' = Tail(out)),
           NEW ps, ps # "done", Agree(out' \o gif, Tasks, ws, eve', ps),
           Sent(ova, ws, plan), Room(ws, ps)
    PROVE  PInv'
<1>1. PICK w : w = Pier!Writ("exit", Pier!NoEgg)
  OBVIOUS
<1>2. w \in Writs /\ w.tag = "exit"
  <2>1. w = [tag |-> "exit", egg |-> [id |-> NoId, drv |-> 0, try |-> 0]]
    BY <1>1 DEF Pier!Writ, Pier!Egg, Pier!NoEgg, Pier!Wyrd
  <2> QED
    BY <2>1, DriversAssumption DEF Writs, AnyEgg
<1>3. TaskOf(w) \in Task /\ TaskOf(w).tag # "poke"
  BY <1>2 DEF TaskOf, Task, TaskTags, Writs, AnyEgg
<1>4. writs' = ws \o <<w>> /\ Pier!Dispatch(ws, <<w>>)
  BY <1>1 DEF Pier!Dispatch
<1>5. Sent(ova', writs', plan)
  <2>1. Sent(ova, ws \o <<w>>, plan)
    BY <1>2, SentOne
  <2> QED
    BY <1>4, <2>1
<1>6. Room(writs', psat')
  BY <1>2, <1>4, RoomExit
<1>7. Tasks \in Seq(Task) /\ ova \in Seq(0 .. NDrivers + 1)
  BY KingKnown
<1>8. ASSUME NEW s \in Seq(Ids), Line(ova, s, Tasks, plan)
      PROVE  Line(ova', s, Tasks, plan) /\ Line(ova', s, Tasks \o <<TaskOf(w)>>, plan)
  BY <1>3, <1>7, <1>8, LineAside
<1>9. "done" \in Up
  BY DEF Up
<1> QED
  BY <1>2, <1>4, <1>5, <1>6, <1>7, <1>8, <1>9, OneKeeps
-----------------------------------------------------------------------------
(* The answers, one handler after the other. *)

\* What is known of the answer the king hears.
LEMMA Hearing ==
    ASSUME PInv, NEW tag, Pier!Hears(tag)
    PROVE  /\ out # <<>> /\ Head(out).tag = tag /\ psat \in Up
           /\ Answers # <<>> /\ Head(Answers) = Head(out)
           /\ Tail(Answers) = Tail(out) \o gif /\ Head(out) \in Gift
           /\ Agree(Answers, Tasks, writs, eve, psat)
           /\ Sent(ova, writs, plan) /\ Room(writs, psat)
           /\ tag = "done" => /\ Head(out).eve \in 1 .. Len(log)
                              /\ log[Head(out).eve] = Head(out).id
                              /\ sat \in Running => Head(out).eve <= dun
<1>1. out # <<>> /\ Head(out).tag = tag /\ psat \in Up
  BY DEF Pier!Hears, Pier!Up, Up
<1>2. out \in Seq(Gift) /\ gif \in Seq(Gift)
  BY KingKnown
<1>3. Head(out) = out[1] /\ Head(out) \in Gift /\ Len(out) \in Nat \ {0}
  BY <1>1, <1>2
<1>4. /\ out \o gif # <<>> /\ Head(out \o gif) = Head(out)
      /\ Tail(out \o gif) = Tail(out) \o gif
  BY <1>1, <1>2
<1>5. /\ Agree(Answers, Tasks, writs, eve, psat)
      /\ Sent(ova, writs, plan) /\ Room(writs, psat)
  BY <1>1 DEF PInv, KingInv
<1>6. ASSUME tag = "done"
      PROVE  /\ Head(out).eve \in 1 .. Len(log)
             /\ log[Head(out).eve] = Head(out).id
             /\ sat \in Running => Head(out).eve <= dun
  <2>1. 1 \in 1 .. Len(out) /\ out[1].tag = "done"
    BY <1>1, <1>3, <1>6
  <2>2. out[1].eve \in 1 .. Len(log) /\ log[out[1].eve] = out[1].id
    BY <2>1 DEF PInv, IInv, EffectsDurable
  <2>3. sat \in Running => out[1].eve <= dun
    BY <2>1 DEF PInv, HeldInv
  <2> QED
    BY <1>3, <2>2, <2>3
<1> QED
  BY <1>1, <1>3, <1>4, <1>5, <1>6 DEF Answers

\* _lord_writ_need(): the answer to the oldest writ is taken with it.
LEMMA HearingWrit ==
    ASSUME PInv, NEW tag \in ToWrits, Pier!Hears(tag),
           NEW f \in Nat, f = IF tag = "done" THEN eve + 1 ELSE eve
    PROVE  /\ writs # <<>> /\ Fits(Head(out), Head(writs)) /\ psat # "init"
           /\ Head(writs) \in Writs /\ Tail(writs) \in Seq(Writs)
           /\ f <= Len(log)
           /\ Agree(Tail(out) \o gif, Tasks, Tail(writs), f, psat)
           /\ Sent(ova, Tail(writs), plan) /\ Room(Tail(writs), psat)
           /\ psat # "done" => Len(Tail(writs)) + 1 <= WorkBatch
<1>1. /\ out # <<>> /\ Head(out).tag = tag /\ psat \in Up
      /\ Answers # <<>> /\ Head(Answers) = Head(out)
      /\ Tail(Answers) = Tail(out) \o gif /\ Head(out) \in Gift
      /\ Agree(Answers, Tasks, writs, eve, psat)
      /\ Sent(ova, writs, plan) /\ Room(writs, psat)
      /\ tag = "done" => /\ Head(out).eve \in 1 .. Len(log)
                         /\ log[Head(out).eve] = Head(out).id
                         /\ sat \in Running => Head(out).eve <= dun
  BY Hearing
<1>2. /\ Tasks \in Seq(Task) /\ Answers \in Seq(Gift) /\ writs \in Seq(Writs)
      /\ eve \in Nat /\ log \in Seq(Ids)
  BY KingKnown
<1>3. Head(Answers).tag = "done" => /\ Head(Answers).eve <= Len(log)
                                    /\ sat \in Running => Head(Answers).eve <= dun
  BY <1>1
<1>4. /\ writs # <<>> /\ Fits(Head(out), Head(writs)) /\ psat # "init"
      /\ f <= Len(log)
      /\ Agree(Tail(Answers), Tasks, Tail(writs), f, psat)
  BY <1>1, <1>2, <1>3, AgreeHear
<1>5. Head(writs) \in Writs /\ Tail(writs) \in Seq(Writs)
  BY <1>2, <1>4, RowTail
<1>6. Sent(ova, Tail(writs), plan)
  BY <1>1, <1>2, <1>4, SentTail
<1>7. Head(writs).tag # "exit"
  BY <1>1, <1>4, FitsTag
<1>8. Room(Tail(writs), psat) /\ (psat # "done" => Len(Tail(writs)) + 1 <= WorkBatch)
  BY <1>1, <1>2, <1>4, <1>7, RoomTail
<1> QED
  BY <1>1, <1>4, <1>5, <1>6, <1>8

\* _pier_wyrd_init().
LEMMA WyrdKeeps ==
    ASSUME PInv, UNCHANGED <<serfVars, crashes, plan, peeks>>, psat' = "wyrd",
           NEW ws \in Seq(Writs), Pier!WyrdInit(ws), eve' \in Nat,
           out # <<>>, out' = Tail(out), Sent(ova, ws, plan), Room(ws, "wyrd"),
           Len(ws) + 1 <= WorkBatch, Agree(out' \o gif, Tasks, ws, eve', "wyrd")
    PROVE  PInv'
<1>1. PICK x : x = Len(ova) + 1
  OBVIOUS
<1>2. PICK w : w = Pier!Writ("poke", Pier!Egg(x, Pier!Wyrd))
  OBVIOUS
<1>3. x \in Ids /\ ova' = Append(ova, 0) /\ Pier!Dispatch(ws, <<w>>)
  BY <1>1, <1>2 DEF Pier!WyrdInit, Pier!NextId, Pier!Wyrd
<1>4. /\ w \in Writs /\ w.tag = "poke" /\ w.egg.id = x /\ w.egg.drv = 0
      /\ TaskOf(w) \in Task /\ TaskOf(w).id = x
  <2>1. w = [tag |-> "poke", egg |-> [id |-> x, drv |-> 0, try |-> 0]]
    BY <1>2 DEF Pier!Writ, Pier!Egg, Pier!Wyrd
  <2>2. w \in Writs
    BY <1>3, <2>1, DriversAssumption DEF Writs, AnyEgg
  <2>3. w.tag = "poke" /\ w.egg.id = x /\ w.egg.drv = 0
    BY <2>1
  <2>4. TaskOf(w) = [tag |-> "poke", id |-> x]
    BY <2>3 DEF TaskOf
  <2> QED
    BY <1>3, <2>2, <2>3, <2>4 DEF Task, TaskTags
<1>5. /\ ova \in Seq(0 .. NDrivers + 1) /\ 0 \in 0 .. NDrivers + 1
      /\ plan \in Seq(Eggs) /\ Tasks \in Seq(Task)
      /\ state \in Seq(Ids) /\ log \in Seq(Ids)
  <2>1. 0 \in 0 .. NDrivers + 1
    BY DriversAssumption
  <2> QED
    BY <2>1, KingKnown
<1>6. /\ ova' \in Seq(0 .. NDrivers + 1) /\ Begins(ova, ova')
      /\ x \in 1 .. Len(ova') /\ x \notin 1 .. Len(ova) /\ ova'[x] = 0
  <2>1. PICK D : D = 0 .. NDrivers + 1
    OBVIOUS
  <2>2. ova \in Seq(D) /\ 0 \in D
    BY <1>5, <2>1
  <2>3. /\ Append(ova, 0) \in Seq(D) /\ Begins(ova, Append(ova, 0))
        /\ x \in 1 .. Len(Append(ova, 0)) /\ x \notin 1 .. Len(ova)
        /\ Append(ova, 0)[x] = 0
    BY <1>1, <2>2, FreshAfter
  <2> QED
    BY <1>3, <2>1, <2>3
<1>7. \A i \in 1 .. Len(plan) : plan[i].drv # 0
  <2>1. \A i \in 1 .. Len(plan) : plan[i] \in Eggs
    BY <1>5
  <2> QED
    BY <2>1, DriversAssumption DEF Eggs
<1>8. ASSUME NEW s \in Seq(Ids), Line(ova, s, Tasks, plan)
      PROVE  Line(ova', s, Tasks, plan) /\ Line(ova', s, Tasks \o <<TaskOf(w)>>, plan)
  <2>1. /\ Line(Append(ova, 0), s, Tasks, plan)
        /\ Line(Append(ova, 0), s, Tasks \o <<TaskOf(w)>>, plan)
    BY <1>1, <1>4, <1>5, <1>7, <1>8, LineNew
  <2> QED
    BY <1>3, <2>1
<1>9. writs' = ws \o <<w>>
  BY <1>3 DEF Pier!Dispatch
<1>10. Sent(ova', writs', plan)
  <2>1. PICK p : p = ova'
    OBVIOUS
  <2>2. Sent(p, ws, plan)
    BY <1>5, <1>6, <2>1, SentMore
  <2>3. \A i \in 1 .. Len(ws) : ws[i].tag = "poke" => ws[i].egg.id # x
    BY <1>6, SentAt
  <2>4. \A i \in 1 .. Len(plan) : plan[i].id # x
    BY <1>6, LineKnown DEF PInv, LineInv
  <2>5. Sent(p, ws \o <<w>>, plan)
    BY <1>3, <1>4, <1>6, <2>1, <2>2, <2>3, <2>4, SentOne
  <2> QED
    BY <1>9, <2>1, <2>5
<1>11. Room(writs', "wyrd")
  <2>1. PICK new : new = <<w>>
    OBVIOUS
  <2>2. new \in Seq(Writs) /\ Len(new) = 1 /\ \A i \in 1 .. Len(new) : new[i].tag # "exit"
    BY <1>4, <2>1
  <2>3. "wyrd" # "done" /\ Len(ws) + Len(new) <= WorkBatch
    BY <2>2
  <2>4. Room(ws \o new, "wyrd")
    BY <2>2, <2>3, RoomSend
  <2> QED
    BY <1>9, <2>1, <2>4
<1>12. "wyrd" \in Up /\ "wyrd" # "init" /\ "wyrd" # "done"
  BY DEF Up
<1> QED
  BY <1>3, <1>4, <1>6, <1>8, <1>10, <1>11, <1>12, OneKeeps

\* %ripe finds no writ but an exit.
LEMMA RipeKeeps ==
    PInv /\ Pier!_lord_plea_ripe /\ UNCHANGED <<serfVars, crashes>> => PInv'
<1> SUFFICES ASSUME PInv, Pier!_lord_plea_ripe, UNCHANGED <<serfVars, crashes>>
             PROVE  PInv'
  OBVIOUS
<1>1. Pier!Hears("ripe")
  BY DEF Pier!_lord_plea_ripe
<1>2. /\ out # <<>> /\ Head(out).tag = "ripe" /\ psat \in Up
      /\ Answers # <<>> /\ Head(Answers) = Head(out)
      /\ Tail(Answers) = Tail(out) \o gif /\ Head(out) \in Gift
      /\ Agree(Answers, Tasks, writs, eve, psat)
      /\ Sent(ova, writs, plan) /\ Room(writs, psat)
  BY <1>1, Hearing
<1>3. /\ Tasks \in Seq(Task) /\ Answers \in Seq(Gift) /\ writs \in Seq(Writs)
      /\ eve \in Nat /\ log \in Seq(Ids) /\ ova \in Seq(0 .. NDrivers + 1)
      /\ plan \in Seq(Eggs) /\ peeks \in Seq(Ids) /\ crashes \in Nat
  BY KingKnown
<1>4. Head(out).eve \in Nat
  BY <1>2 DEF Gift
<1>5. CASE psat = "done" /\ eve' = Head(out).eve /\ Pier!End("null lord")
  BY <1>3, <1>4, <1>5, EndKeeps
<1>6. CASE /\ psat = "init"
           /\ psat' = "wyrd"
           /\ eve' = Head(out).eve
           /\ \/ Pier!WyrdInit(writs)
              \/ /\ Pier!Dispatch(writs, <<Pier!Writ("peek", Pier!NoEgg)>>)
                 /\ UNCHANGED ova
           /\ out' = Tail(out)
           /\ UNCHANGED <<plan, peeks>>
  <2>1. writs = <<>>
    <3>1. Exits(writs)
      BY <1>2, <1>6 DEF Agree, Ripe
    <3>2. \A i \in 1 .. Len(writs) : writs[i].tag # "exit"
      BY <1>2, <1>3, <1>6, RoomLen
    <3>3. Len(writs) = 0
      <4>1. 1 \notin 1 .. Len(writs)
        BY <3>1, <3>2 DEF Exits
      <4> QED
        BY <1>3, <4>1
    <3> QED
      BY <1>3, <3>3
  <2>2. Agree(Answers, Tasks, <<>>, eve, "init")
    BY <1>2, <1>6, <2>1
  <2>3. /\ eve = 0 /\ Head(Answers).eve = Len(log)
        /\ Agree(Tail(Answers), Tasks, <<>>, Len(log), "wyrd")
    BY <1>2, <1>3, <2>2, AgreeRipe DEF PInv
  <2>4. eve' = Len(log) /\ eve' \in Nat
    BY <1>2, <1>3, <1>6, <2>3
  <2>5. Agree(out' \o gif, Tasks, writs, eve', "wyrd")
    BY <1>2, <1>6, <2>1, <2>3, <2>4
  <2>6. Len(writs) + 1 <= WorkBatch /\ Room(writs, "wyrd")
    BY <2>1, WorkBatchAssumption DEF Room
  <2>7. CASE Pier!WyrdInit(writs)
    BY <1>2, <1>3, <1>6, <2>4, <2>5, <2>6, <2>7, WyrdKeeps
  <2>8. CASE Pier!Dispatch(writs, <<Pier!Writ("peek", Pier!NoEgg)>>) /\ ova' = ova
    <3>1. PICK w : w = Pier!Writ("peek", Pier!NoEgg)
      OBVIOUS
    <3>2. w \in Writs /\ w.tag = "peek"
      <4>1. w = [tag |-> "peek", egg |-> [id |-> NoId, drv |-> 0, try |-> 0]]
        BY <3>1 DEF Pier!Writ, Pier!Egg, Pier!NoEgg, Pier!Wyrd
      <4> QED
        BY <4>1, DriversAssumption DEF Writs, AnyEgg
    <3>3. TaskOf(w) \in Task /\ TaskOf(w).tag # "poke"
      BY <3>2 DEF TaskOf, Task, TaskTags, Writs, AnyEgg
    <3>4. writs' = writs \o <<w>> /\ Pier!Dispatch(writs, <<w>>)
      BY <2>8, <3>1 DEF Pier!Dispatch
    <3>5. Sent(ova', writs', plan)
      BY <1>2, <1>3, <2>8, <3>2, <3>4, SentOne
    <3>6. Room(writs', psat')
      <4>1. writs' = <<w>>
        BY <2>1, <3>2, <3>4
      <4>2. Len(writs') = 1 /\ writs'[1].tag # "exit"
        BY <3>2, <4>1
      <4> QED
        BY <4>2, WorkBatchAssumption DEF Room
    <3>7. ASSUME NEW s \in Seq(Ids), Line(ova, s, Tasks, plan)
          PROVE  Line(ova', s, Tasks, plan) /\ Line(ova', s, Tasks \o <<TaskOf(w)>>, plan)
      BY <1>3, <2>8, <3>3, <3>7, LineAside
    <3>8. "wyrd" \in Up /\ "wyrd" # "init" /\ "wyrd" # "done"
      BY DEF Up
    <3> QED
      BY <1>2, <1>3, <1>6, <2>4, <2>5, <2>8, <3>2, <3>4, <3>5, <3>6, <3>7, <3>8, OneKeeps
  <2> QED
    BY <1>6, <2>7, <2>8
<1> QED
  BY <1>5, <1>6 DEF Pier!_lord_plea_ripe

\* The answer about +boot.
LEMMA BootScryKeeps ==
    PInv /\ Pier!_boot_scry_cb /\ UNCHANGED <<serfVars, crashes>> => PInv'
<1> SUFFICES ASSUME PInv, Pier!_boot_scry_cb, UNCHANGED <<serfVars, crashes>>
             PROVE  PInv'
  OBVIOUS
<1>1. Pier!Hears("peek")
  BY DEF Pier!_boot_scry_cb
<1>2. eve \in Nat /\ crashes \in Nat /\ ova \in Seq(0 .. NDrivers + 1)
  BY KingKnown
<1>3. "peek" \in ToWrits /\ "peek" # "done"
  BY DEF ToWrits, GiftTags
<1>4. /\ Tail(writs) \in Seq(Writs)
      /\ Agree(Tail(out) \o gif, Tasks, Tail(writs), eve, psat)
      /\ Sent(ova, Tail(writs), plan) /\ Room(Tail(writs), psat)
      /\ psat # "done" => Len(Tail(writs)) + 1 <= WorkBatch
  BY <1>1, <1>2, <1>3, HearingWrit
<1>5. out # <<>>
  BY <1>1 DEF Pier!Hears
<1>6. ASSUME NEW x, Pier!End(x), eve' = eve
      PROVE  PInv'
  BY <1>2, <1>6, EndKeeps
<1>7. CASE /\ psat = "wyrd" /\ Pier!WyrdInit(Tail(writs)) /\ out' = Tail(out)
           /\ UNCHANGED <<psat, plan, peeks, eve>>
  BY <1>2, <1>4, <1>5, <1>7, WyrdKeeps
<1> QED
  BY <1>6, <1>7 DEF Pier!_boot_scry_cb

\* The drivers start.
LEMMA WyrdDoneKeeps ==
    PInv /\ Pier!_pier_on_lord_wyrd_done /\ UNCHANGED <<serfVars, crashes>> => PInv'
<1> SUFFICES ASSUME PInv, Pier!_pier_on_lord_wyrd_done, UNCHANGED <<serfVars, crashes>>
             PROVE  PInv'
  OBVIOUS
<1>1. Pier!Hears("done") /\ eve' = eve + 1
  BY DEF Pier!_pier_on_lord_wyrd_done, Pier!WyrdAnswered
<1>2. /\ eve \in Nat /\ crashes \in Nat /\ ova \in Seq(0 .. NDrivers + 1)
      /\ plan \in Seq(Eggs) /\ Tasks \in Seq(Task)
      /\ state \in Seq(Ids) /\ log \in Seq(Ids)
  BY KingKnown
<1>3. "done" \in ToWrits /\ eve' \in Nat
  BY <1>1, <1>2 DEF ToWrits, GiftTags
<1>4. /\ Tail(writs) \in Seq(Writs)
      /\ Agree(Tail(out) \o gif, Tasks, Tail(writs), eve', psat)
      /\ Sent(ova, Tail(writs), plan) /\ Room(Tail(writs), psat)
      /\ psat # "done" => Len(Tail(writs)) + 1 <= WorkBatch
  <2>1. PICK f \in Nat : f = eve + 1
    BY <1>2
  <2>2. f = IF "done" = "done" THEN eve + 1 ELSE eve
    BY <2>1
  <2>3. /\ Tail(writs) \in Seq(Writs)
        /\ Agree(Tail(out) \o gif, Tasks, Tail(writs), f, psat)
        /\ Sent(ova, Tail(writs), plan) /\ Room(Tail(writs), psat)
        /\ psat # "done" => Len(Tail(writs)) + 1 <= WorkBatch
    BY <1>1, <1>3, <2>2, HearingWrit
  <2> QED
    BY <1>1, <2>1, <2>3
<1>5. out # <<>>
  BY <1>1 DEF Pier!Hears
<1>6. ASSUME NEW x, Pier!End(x)
      PROVE  PInv'
  BY <1>2, <1>3, <1>6, EndKeeps
<1>7. ASSUME NEW born \in [1 .. Cardinality(Essential) -> Essential],
             psat = "wyrd", psat' = "work",
             \A i \in DOMAIN born : Len(ova) + i \in Ids,
             ova' = ova \o born,
             Pier!WorkSend([i \in DOMAIN born |-> Pier!Egg(Len(ova) + i, born[i])],
                           Tail(writs), <<>>),
             out' = Tail(out)
      PROVE  PInv'
  <2>1. PICK pl : pl = [i \in DOMAIN born |-> Pier!Egg(Len(ova) + i, born[i])]
    OBVIOUS
  <2>2. Cardinality(Essential) \in Nat
    <3>1. IsFiniteSet(1 .. NDrivers)
      BY DriversAssumption, FS_Interval
    <3>2. IsFiniteSet(Essential)
      BY <3>1, DriversAssumption, FS_Subset
    <3> QED
      BY <3>2, FS_CardinalityType
  <2>3. DOMAIN born = 1 .. Cardinality(Essential)
    OBVIOUS
  <2>4. \A d \in Essential : d \in 1 .. NDrivers /\ d \in 0 .. NDrivers + 1
    BY DriversAssumption
  <2>5. /\ born \in Seq(0 .. NDrivers + 1) /\ Len(born) = Cardinality(Essential)
        /\ DOMAIN born = 1 .. Len(born)
    <3>1. PICK D : D = 0 .. NDrivers + 1
      OBVIOUS
    <3>2. PICK k \in Nat : k = Cardinality(Essential)
      BY <2>2
    <3>3. \A i \in 1 .. k : born[i] \in D
      BY <2>4, <3>1, <3>2
    <3>4. born \in [1 .. k -> D]
      BY <3>2, <3>3
    <3>5. born \in Seq(D) /\ Len(born) = k
      BY <3>4
    <3> QED
      BY <2>3, <3>1, <3>2, <3>5
  <2>6. ASSUME NEW i \in 1 .. Len(born)
        PROVE  pl[i] \in Eggs /\ pl[i].id = Len(ova) + i /\ pl[i].drv = born[i]
    <3>1. pl[i] = [id |-> Len(ova) + i, drv |-> born[i], try |-> 0]
      BY <2>1, <2>5 DEF Pier!Egg
    <3>2. Len(ova) + i \in Ids /\ born[i] \in 1 .. NDrivers
      BY <1>7, <2>3, <2>4, <2>5
    <3> QED
      BY <3>1, <3>2 DEF Eggs
  <2>7. pl \in Seq(Eggs) /\ Len(pl) = Len(born)
    <3>1. Len(born) \in Nat
      BY <2>5
    <3>2. pl = [i \in 1 .. Len(born) |-> pl[i]]
      BY <2>1, <2>5
    <3> QED
      BY <2>6, <3>1, <3>2
  <2>8. ASSUME NEW s \in Seq(Ids), Line(ova, s, Tasks, plan)
        PROVE  Line(ova', s, Tasks, pl)
    <3>1. Line(ova \o born, s, Tasks, pl)
      BY <1>2, <2>5, <2>6, <2>7, <2>8, LineBorn
    <3> QED
      BY <1>7, <3>1
  <2>9. Line(ova', log, Tasks, pl) /\ Line(ova', state, Tasks, pl)
    BY <1>2, <2>8 DEF PInv, LineInv
  <2>10. Sent(ova', Tail(writs), pl)
    <3>1. Sent(ova \o born, Tail(writs), pl)
      BY <1>2, <1>4, <2>5, <2>6, <2>7, SentBorn
    <3> QED
      BY <1>7, <3>1
  <2>11. ova' \in Seq(0 .. NDrivers + 1)
    <3>1. ova \o born \in Seq(0 .. NDrivers + 1)
      BY <1>2, <2>5, RowConcat
    <3> QED
      BY <1>7, <3>1
  <2>12. PICK pre \in Seq(Writs) : pre = <<>> /\ Len(pre) = 0
    <3>1. <<>> \in Seq(Writs) /\ Len(<<>>) = 0
      OBVIOUS
    <3> QED
      BY <3>1
  <2>13. Pier!WorkSend(pl, Tail(writs), pre)
    BY <1>7, <2>1, <2>12
  <2>14. /\ Len(Tail(writs)) + Len(pre) <= WorkBatch
         /\ \A i \in 1 .. Len(pre) : pre[i].tag = "live"
    <3>1. Len(Tail(writs)) \in Nat /\ Len(Tail(writs)) + 1 <= WorkBatch
      BY <1>4, <1>7
    <3> QED
      BY <2>12, <3>1, WorkBatchAssumption
  <2>15. /\ "wyrd" \in {"wyrd", "work"} /\ Room(Tail(writs), "wyrd")
         /\ Agree(out' \o gif, Tasks, Tail(writs), eve', "wyrd")
    BY <1>4, <1>7
  <2> QED
    BY <1>3, <1>4, <1>5, <1>7, <2>7, <2>9, <2>10, <2>11, <2>13, <2>14, <2>15, WorkKeeps
<1>8. Pier!Cardinality(Essential) = Cardinality(Essential)
  BY DEF Pier!Cardinality, Cardinality
<1>9. \/ \E born \in [1 .. Cardinality(Essential) -> Essential] :
            /\ psat = "wyrd" /\ psat' = "work"
            /\ \A i \in DOMAIN born : Len(ova) + i \in Ids
            /\ ova' = ova \o born
            /\ Pier!WorkSend([i \in DOMAIN born |-> Pier!Egg(Len(ova) + i, born[i])],
                             Tail(writs), <<>>)
            /\ out' = Tail(out)
      \/ \E x \in {"bail", "assert"} : Pier!End(x)
  BY <1>8, Zenon DEF Pier!_pier_on_lord_wyrd_done
<1> QED
  BY <1>6, <1>7, <1>9

\* A %wyrd that fails.
LEMMA WyrdBailKeeps ==
    PInv /\ Pier!_pier_on_lord_wyrd_bail /\ UNCHANGED <<serfVars, crashes>> => PInv'
<1> SUFFICES ASSUME PInv, Pier!_pier_on_lord_wyrd_bail, UNCHANGED <<serfVars, crashes>>
             PROVE  PInv'
  OBVIOUS
<1>1. eve \in Nat /\ crashes \in Nat
  BY KingKnown
<1>2. eve' = eve
  BY DEF Pier!_pier_on_lord_wyrd_bail
<1>3. ASSUME NEW x, Pier!End(x)
      PROVE  PInv'
  BY <1>1, <1>2, <1>3, EndKeeps
<1> QED
  BY <1>3 DEF Pier!_pier_on_lord_wyrd_bail

\* An answer that only takes its writ away, or none.
LEMMA RestKeeps ==
    PInv /\ Pier!_lord_plea_rest /\ UNCHANGED <<serfVars, crashes>> => PInv'
<1> SUFFICES ASSUME PInv, Pier!_lord_plea_rest, UNCHANGED <<serfVars, crashes>>
             PROVE  PInv'
  OBVIOUS
<1>1. /\ out' = Tail(out) /\ UNCHANGED <<psat, plan, peeks, eve, ova, inn>>
      /\ psat \in Up
  BY DEF Pier!_lord_plea_rest, Pier!Up, Up
<1>2. /\ eve \in Nat /\ crashes \in Nat /\ ova \in Seq(0 .. NDrivers + 1)
      /\ plan \in Seq(Eggs) /\ peeks \in Seq(Ids) /\ writs \in Seq(Writs)
      /\ Tasks \in Seq(Task) /\ Answers \in Seq(Gift)
  BY KingKnown
<1>3. Line(ova, log, Tasks, plan) /\ Line(ova, state, Tasks, plan)
  BY DEF PInv, LineInv
<1>4. ASSUME NEW tag \in {"peek", "live"}, Pier!Hears(tag), writs' = Tail(writs)
      PROVE  PInv'
  <2>1. tag \in ToWrits /\ tag # "done"
    BY DEF ToWrits, GiftTags
  <2>2. /\ Tail(writs) \in Seq(Writs)
        /\ Agree(Tail(out) \o gif, Tasks, Tail(writs), eve, psat)
        /\ Sent(ova, Tail(writs), plan) /\ Room(Tail(writs), psat)
    BY <1>2, <1>4, <2>1, HearingWrit
  <2>3. out # <<>>
    BY <1>4 DEF Pier!Hears
  <2> QED
    BY <1>1, <1>2, <1>3, <1>4, <2>2, <2>3, KingListens
<1>5. ASSUME Pier!Hears("sync"), writs' = writs
      PROVE  PInv'
  <2>1. /\ out # <<>> /\ Head(out).tag = "sync"
        /\ Answers # <<>> /\ Head(Answers) = Head(out)
        /\ Tail(Answers) = Tail(out) \o gif
        /\ Agree(Answers, Tasks, writs, eve, psat)
        /\ Sent(ova, writs, plan) /\ Room(writs, psat)
    BY <1>5, Hearing
  <2>2. Agree(Tail(Answers), Tasks, writs, eve, psat)
    BY <1>2, <2>1, AgreeSkip
  <2> QED
    BY <1>1, <1>2, <1>3, <1>5, <2>1, <2>2, KingListens
<1> QED
  BY <1>4, <1>5 DEF Pier!_lord_plea_rest

\* Nothing is sent.
LEMMA DispatchNone ==
    ASSUME inn \in Seq(Task), NEW ws \in Seq(Writs), Pier!Dispatch(ws, <<>>)
    PROVE  writs' = ws /\ inn' = inn
<1>1. PICK new \in Seq(Writs) : new = <<>> /\ Len(new) = 0
  <2>1. <<>> \in Seq(Writs) /\ Len(<<>>) = 0
    OBVIOUS
  <2> QED
    BY <2>1
<1>2. Pier!Dispatch(ws, new)
  BY <1>1
<1>3. /\ writs' = ws \o new
      /\ \E more \in Seq(Task) : Len(more) = Len(new) /\ inn' = inn \o more
  BY <1>2, Dispatched
<1>4. PICK more \in Seq(Task) : Len(more) = 0 /\ inn' = inn \o more
  BY <1>1, <1>3
<1>5. more = <<>>
  BY <1>4
<1>6. ws \o <<>> = ws /\ inn \o <<>> = inn
  OBVIOUS
<1> QED
  BY <1>1, <1>3, <1>4, <1>5, <1>6

\* The effects of an event.
LEMMA WorkDoneKeeps ==
    PInv /\ Pier!_pier_on_lord_work_done /\ UNCHANGED <<serfVars, crashes>> => PInv'
<1> SUFFICES ASSUME PInv, Pier!_pier_on_lord_work_done, UNCHANGED <<serfVars, crashes>>
             PROVE  PInv'
  OBVIOUS
<1>1. Pier!Hears("done") /\ eve' = eve + 1
  BY DEF Pier!_pier_on_lord_work_done, Pier!WorkAnswered
<1>2. /\ eve \in Nat /\ crashes \in Nat /\ ova \in Seq(0 .. NDrivers + 1)
      /\ plan \in Seq(Eggs) /\ peeks \in Seq(Ids) /\ Tasks \in Seq(Task)
      /\ state \in Seq(Ids) /\ log \in Seq(Ids) /\ inn \in Seq(Task)
  BY KingKnown
<1>3. "done" \in ToWrits /\ eve' \in Nat
  BY <1>1, <1>2 DEF ToWrits, GiftTags
<1>4. /\ Tail(writs) \in Seq(Writs)
      /\ Agree(Tail(out) \o gif, Tasks, Tail(writs), eve', psat)
      /\ Sent(ova, Tail(writs), plan) /\ Room(Tail(writs), psat)
      /\ psat # "done" => Len(Tail(writs)) + 1 <= WorkBatch
  <2>1. PICK f \in Nat : f = eve + 1
    BY <1>2
  <2>2. f = IF "done" = "done" THEN eve + 1 ELSE eve
    BY <2>1
  <2>3. /\ Tail(writs) \in Seq(Writs)
        /\ Agree(Tail(out) \o gif, Tasks, Tail(writs), f, psat)
        /\ Sent(ova, Tail(writs), plan) /\ Room(Tail(writs), psat)
        /\ psat # "done" => Len(Tail(writs)) + 1 <= WorkBatch
    BY <1>1, <1>3, <2>2, HearingWrit
  <2> QED
    BY <1>1, <2>1, <2>3
<1>5. out # <<>> /\ psat \in Up
  BY <1>1 DEF Pier!Hears, Pier!Up, Up
<1>6. Line(ova, log, Tasks, plan) /\ Line(ova, state, Tasks, plan)
  BY DEF PInv, LineInv
<1>7. ASSUME NEW x, Pier!End(x)
      PROVE  PInv'
  BY <1>2, <1>3, <1>7, EndKeeps
<1>8. ASSUME psat = "work", psat' = "work", out' = Tail(out), ova' = ova,
             NEW pre \in Seq(Writs), Len(pre) <= 1,
             \A i \in 1 .. Len(pre) : pre[i].tag = "live",
             Pier!WorkSend(plan, Tail(writs), pre)
      PROVE  PInv'
  <2>1. Len(Tail(writs)) + Len(pre) <= WorkBatch
    <3>1. /\ Len(Tail(writs)) \in Nat /\ Len(Tail(writs)) + 1 <= WorkBatch
          /\ Len(pre) \in Nat
      BY <1>4, <1>8
    <3> QED
      BY <1>8, <3>1, WorkBatchAssumption
  <2>2. /\ "work" \in {"wyrd", "work"} /\ Room(Tail(writs), "work")
        /\ Agree(out' \o gif, Tasks, Tail(writs), eve', "work")
    BY <1>4, <1>8
  <2>3. /\ Line(ova', log, Tasks, plan) /\ Line(ova', state, Tasks, plan)
        /\ Sent(ova', Tail(writs), plan) /\ ova' \in Seq(0 .. NDrivers + 1)
    BY <1>2, <1>4, <1>6, <1>8
  <2> QED
    BY <1>2, <1>3, <1>4, <1>5, <1>8, <2>1, <2>2, <2>3, WorkKeeps
<1>9. ASSUME psat' = psat, out' = Tail(out), ova' = ova, plan' = plan, peeks' = peeks,
             Pier!Dispatch(Tail(writs), <<>>)
      PROVE  PInv'
  <2>1. writs' = Tail(writs) /\ inn' = inn
    BY <1>2, <1>4, <1>9, DispatchNone
  <2> QED
    BY <1>2, <1>3, <1>4, <1>5, <1>6, <1>9, <2>1, KingListens
<1>10. ASSUME psat = "work", psat' = "done", out' = Tail(out), ova' = ova,
              plan' = plan, peeks' = peeks,
              Pier!Dispatch(Tail(writs), <<Pier!Writ("exit", Pier!NoEgg)>>)
       PROVE  PInv'
  <2>1. PICK ws \in Seq(Writs) : ws = Tail(writs)
    BY <1>4
  <2>2. /\ Pier!Dispatch(ws, <<Pier!Writ("exit", Pier!NoEgg)>>)
        /\ Sent(ova, ws, plan) /\ Room(ws, "work")
        /\ Agree(out' \o gif, Tasks, ws, eve', "work")
    BY <1>4, <1>10, <2>1
  <2> QED
    BY <1>3, <1>5, <1>10, <2>2, ExitKeeps
<1>11. ASSUME NEW now, NEW pre, psat' = now, out' = Tail(out), ova' = ova,
              IF now = "work" THEN Pier!WorkSend(plan, Tail(writs), pre)
              ELSE Pier!Dispatch(Tail(writs), pre) /\ UNCHANGED <<plan, peeks>>,
              \/ now = psat /\ pre = <<>>
              \/ psat = "work" /\ now = "done" /\ pre = <<Pier!Writ("exit", Pier!NoEgg)>>
              \/ psat = "work" /\ now = "work" /\ pre = <<Pier!Writ("live", Pier!NoEgg)>>
       PROVE  PInv'
  <2>1. CASE now = psat /\ pre = <<>>
    <3>1. pre \in Seq(Writs) /\ Len(pre) = 0
      BY <2>1
    <3>2. CASE now = "work"
      <4>1. psat = "work" /\ psat' = "work" /\ out' = Tail(out) /\ ova' = ova
        BY <1>11, <2>1, <3>2
      <4>2. Pier!WorkSend(plan, Tail(writs), pre)
        BY <1>11, <3>2
      <4>3. Len(pre) <= 1 /\ \A i \in 1 .. Len(pre) : pre[i].tag = "live"
        BY <3>1
      <4> QED
        BY <1>8, <3>1, <4>1, <4>2, <4>3
    <3>3. CASE now # "work"
      BY <1>9, <1>11, <2>1, <3>3
    <3> QED
      BY <3>2, <3>3
  <2>2. CASE psat = "work" /\ now = "done" /\ pre = <<Pier!Writ("exit", Pier!NoEgg)>>
    BY <1>10, <1>11, <2>2
  <2>3. CASE psat = "work" /\ now = "work" /\ pre = <<Pier!Writ("live", Pier!NoEgg)>>
    <3>1. PICK w : w = Pier!Writ("live", Pier!NoEgg)
      OBVIOUS
    <3>2. w \in Writs /\ w.tag = "live"
      <4>1. w = [tag |-> "live", egg |-> [id |-> NoId, drv |-> 0, try |-> 0]]
        BY <3>1 DEF Pier!Writ, Pier!Egg, Pier!NoEgg, Pier!Wyrd
      <4> QED
        BY <4>1, DriversAssumption DEF Writs, AnyEgg
    <3>3. pre \in Seq(Writs) /\ Len(pre) <= 1 /\ \A i \in 1 .. Len(pre) : pre[i].tag = "live"
      BY <2>3, <3>1, <3>2
    <3> QED
      BY <1>8, <1>11, <2>3, <3>3
  <2> QED
    BY <1>11, <2>1, <2>2, <2>3
<1>12. \/ \E x \in {"null lord"} : Pier!End(x)
       \/ /\ out' = Tail(out) /\ ova' = ova
          /\ \E now \in {psat, "done", "work"},
                pre \in {<<>>, <<Pier!Writ("exit", Pier!NoEgg)>>,
                         <<Pier!Writ("live", Pier!NoEgg)>>} :
               /\ psat' = now
               /\ IF now = "work" THEN Pier!WorkSend(plan, Tail(writs), pre)
                  ELSE Pier!Dispatch(Tail(writs), pre) /\ UNCHANGED <<plan, peeks>>
               /\ \/ now = psat /\ pre = <<>>
                  \/ psat = "work" /\ now = "done" /\ pre = <<Pier!Writ("exit", Pier!NoEgg)>>
                  \/ psat = "work" /\ now = "work" /\ pre = <<Pier!Writ("live", Pier!NoEgg)>>
  BY Zenon DEF Pier!_pier_on_lord_work_done
<1> QED
  BY <1>7, <1>11, <1>12

\* An ovum that is tried again goes anywhere in the line, if it is retried at all.
LEMMA LineRetry ==
    ASSUME NEW o, NEW s \in Seq(Ids), NEW ts \in Seq(Task), NEW pl \in Seq(Eggs),
           Line(o, s, ts, pl), NEW e \in Eggs, NEW k \in 1 .. Len(pl) + 1,
           e.id \in 1 .. Len(o), o[e.id] = e.drv, e.drv \in Essential,
           \A i \in 1 .. Len(s) : s[i] # e.id,
           \A i \in 1 .. Len(ts) : ts[i].tag = "poke" => ts[i].id # e.id,
           \A i \in 1 .. Len(pl) : pl[i].id # e.id
    PROVE  Line(o, s, ts, InsertAt(pl, k, e))
<1>1. \A y : y # e.id => Before(o, y, e.id) /\ Before(o, e.id, y)
  BY DEF Before
<1>2. /\ \A i \in 1 .. k - 1 : i \in 1 .. Len(pl)
      /\ \A i \in k .. Len(pl) : i \in 1 .. Len(pl)
  OBVIOUS
<1>3. /\ \A i \in 1 .. Len(s) : Before(o, s[i], e.id)
      /\ \A i \in 1 .. Len(ts) : ts[i].tag = "poke" => Before(o, ts[i].id, e.id)
      /\ \A i \in 1 .. k - 1 : Before(o, pl[i].id, e.id)
      /\ \A i \in k .. Len(pl) : Before(o, e.id, pl[i].id)
  BY <1>1, <1>2
<1> QED
  BY <1>3, LineInsert

\* One more try.
LEMMA Retried ==
    ASSUME NEW egg \in AnyEgg, egg.id \in Ids, egg.drv \in Essential,
           NEW e, e = [egg EXCEPT !.try = @ + 1]
    PROVE  e \in Eggs /\ e.id = egg.id /\ e.drv = egg.drv
<1>1. egg.drv \in 1 .. NDrivers
  BY DriversAssumption
<1>2. e.id = egg.id /\ e.drv = egg.drv /\ e.try = egg.try + 1
  BY DEF AnyEgg
<1>3. e \in [id : Ids, drv : 1 .. NDrivers, try : Nat]
  BY <1>1 DEF AnyEgg
<1> QED
  BY <1>2, <1>3 DEF Eggs

\* The ovum that failed is nowhere else: it may be tried again.
LEMMA FailedAside ==
    ASSUME PInv, Pier!Hears("bail"), NEW egg, egg = Head(writs).egg
    PROVE  /\ egg \in AnyEgg /\ egg.id \in Ids
           /\ egg.id \in 1 .. Len(ova) /\ ova[egg.id] = egg.drv
           /\ \A i \in 1 .. Len(log) : log[i] # egg.id
           /\ \A i \in 1 .. Len(state) : state[i] # egg.id
           /\ \A i \in 1 .. Len(Tasks) : Tasks[i].tag = "poke" => Tasks[i].id # egg.id
           /\ \A i \in 1 .. Len(Tail(writs)) : Tail(writs)[i].tag = "poke" =>
                Tail(writs)[i].egg.id # egg.id
           /\ \A i \in 1 .. Len(plan) : plan[i].id # egg.id
<1>1. /\ out # <<>> /\ Head(out).tag = "bail"
      /\ Answers # <<>> /\ Head(Answers) = Head(out)
      /\ Head(out) \in Gift /\ Agree(Answers, Tasks, writs, eve, psat)
      /\ Sent(ova, writs, plan)
  BY Hearing
<1>2. /\ writs \in Seq(Writs) /\ eve \in Nat /\ Tasks \in Seq(Task)
      /\ Answers \in Seq(Gift) /\ gif \in Seq(Gift) /\ out \in Seq(Gift)
  BY KingKnown
<1>3. PICK f \in Nat : f = eve
  BY <1>2
<1>4. "bail" \in ToWrits /\ f = IF "bail" = "done" THEN eve + 1 ELSE eve
  BY <1>3 DEF ToWrits, GiftTags
<1>5. /\ writs # <<>> /\ Fits(Head(out), Head(writs))
      /\ Head(writs) \in Writs /\ Tail(writs) \in Seq(Writs)
      /\ Agree(Tail(out) \o gif, Tasks, Tail(writs), f, psat)
  BY <1>4, HearingWrit
<1>6. Head(writs).tag = "poke" /\ egg.id = Head(out).id
  BY <1>1, <1>5 DEF Fits
<1>7. /\ egg.id \in Ids
      /\ egg.id \in 1 .. Len(ova) /\ ova[egg.id] = egg.drv
      /\ \A j \in 1 .. Len(Tail(writs)) : Tail(writs)[j].tag = "poke" =>
           egg.id # Tail(writs)[j].egg.id
      /\ \A j \in 1 .. Len(plan) : egg.id # plan[j].id
  BY <1>1, <1>2, <1>5, <1>6, SentTail
<1>8. /\ \A i \in 1 .. Len(log) : log[i] # egg.id
      /\ \A i \in 1 .. Len(state) : state[i] # egg.id
  <2>1. 1 \in 1 .. Len(Answers) /\ Answers[1] = Head(out)
    BY <1>1, <1>2, RowTail
  <2>2. Failed(Answers)
    BY <1>1 DEF Agree
  <2> QED
    BY <1>1, <1>6, <2>1, <2>2 DEF Failed
<1>10. \A i \in 1 .. Len(Tasks) : Tasks[i].tag = "poke" => Tasks[i].id # egg.id
  <2>1. PICK ans \in Seq(Gift) : ans = Tail(out) \o gif
    <3>1. Tail(out) \in Seq(Gift)
      BY <1>1, <1>2
    <3>2. Tail(out) \o gif \in Seq(Gift)
      BY <1>2, <3>1, RowConcat
    <3> QED
      BY <3>2
  <2>2. Talk(ans, Tasks, Tail(writs), f)
    BY <1>5, <2>1 DEF Agree
  <2>3. PICK n \in Nat : n = Nth(ans)
    BY NthType
  <2>4. /\ n + Len(Tasks) <= Len(Tail(writs))
        /\ \A i \in 1 .. Len(Tasks) : Tasks[i] = TaskOf(Tail(writs)[n + i])
    BY <2>2, <2>3 DEF Talk
  <2>5. Len(Tasks) \in Nat /\ Len(Tail(writs)) \in Nat
    BY <1>2, <1>5
  <2>6. \A i \in 1 .. Len(Tasks) : n + i \in 1 .. Len(Tail(writs))
    BY <2>3, <2>4, <2>5
  <2>7. ASSUME NEW i \in 1 .. Len(Tasks), Tasks[i].tag = "poke"
        PROVE  Tasks[i].id # egg.id
    <3>1. PICK j \in 1 .. Len(Tail(writs)) : Tasks[i] = TaskOf(Tail(writs)[j])
      BY <2>4, <2>6
    <3>2. Tail(writs)[j].tag = "poke" /\ Tasks[i].id = Tail(writs)[j].egg.id
      BY <2>7, <3>1 DEF TaskOf
    <3> QED
      BY <1>7, <3>2
  <2> QED
    BY <2>7
<1>9. egg \in AnyEgg
  BY <1>5 DEF Writs
<1> QED
  BY <1>7, <1>8, <1>9, <1>10

\* An ovum fails: it is tried again, dropped, or the end of the king.
LEMMA WorkBailKeeps ==
    PInv /\ Pier!_pier_on_lord_work_bail /\ UNCHANGED <<serfVars, crashes>> => PInv'
<1> SUFFICES ASSUME PInv, Pier!_pier_on_lord_work_bail, UNCHANGED <<serfVars, crashes>>
             PROVE  PInv'
  OBVIOUS
<1>1. Pier!Hears("bail") /\ eve' = eve
  BY DEF Pier!_pier_on_lord_work_bail, Pier!WorkAnswered
<1>2. /\ eve \in Nat /\ crashes \in Nat /\ ova \in Seq(0 .. NDrivers + 1)
      /\ plan \in Seq(Eggs) /\ peeks \in Seq(Ids) /\ Tasks \in Seq(Task)
      /\ state \in Seq(Ids) /\ log \in Seq(Ids) /\ inn \in Seq(Task)
  BY KingKnown
<1>3. "bail" \in ToWrits /\ eve' \in Nat
  BY <1>1, <1>2 DEF ToWrits, GiftTags
<1>4. /\ Tail(writs) \in Seq(Writs) /\ psat # "init"
      /\ Agree(Tail(out) \o gif, Tasks, Tail(writs), eve, psat)
      /\ Sent(ova, Tail(writs), plan) /\ Room(Tail(writs), psat)
      /\ psat # "done" => Len(Tail(writs)) + 1 <= WorkBatch
  <2>1. PICK f \in Nat : f = eve
    BY <1>2
  <2>2. f = IF "bail" = "done" THEN eve + 1 ELSE eve
    BY <2>1
  <2>3. /\ Tail(writs) \in Seq(Writs) /\ psat # "init"
        /\ Agree(Tail(out) \o gif, Tasks, Tail(writs), f, psat)
        /\ Sent(ova, Tail(writs), plan) /\ Room(Tail(writs), psat)
        /\ psat # "done" => Len(Tail(writs)) + 1 <= WorkBatch
    BY <1>1, <1>3, <2>2, HearingWrit
  <2> QED
    BY <2>1, <2>3
<1>5. out # <<>> /\ psat \in Up
  BY <1>1 DEF Pier!Hears, Pier!Up, Up
<1>6. Line(ova, log, Tasks, plan) /\ Line(ova, state, Tasks, plan)
  BY DEF PInv, LineInv
<1>7. ASSUME NEW pl \in Seq(Eggs), Line(ova, log, Tasks, pl), Line(ova, state, Tasks, pl),
             Sent(ova, Tail(writs), pl),
             IF psat = "work" THEN Pier!WorkSend(pl, Tail(writs), <<>>)
             ELSE Pier!Dispatch(Tail(writs), <<>>) /\ plan' = pl /\ UNCHANGED peeks,
             out' = Tail(out), psat' = psat, ova' = ova
      PROVE  PInv'
  <2>1. CASE psat = "work"
    <3>1. PICK pre \in Seq(Writs) : pre = <<>> /\ Len(pre) = 0
      <4>1. <<>> \in Seq(Writs) /\ Len(<<>>) = 0
        OBVIOUS
      <4> QED
        BY <4>1
    <3>2. Pier!WorkSend(pl, Tail(writs), pre) /\ psat' = "work"
      BY <1>7, <2>1, <3>1
    <3>3. Len(Tail(writs)) + Len(pre) <= WorkBatch
      <4>1. Len(Tail(writs)) \in Nat /\ Len(Tail(writs)) + 1 <= WorkBatch
        BY <1>4, <2>1
      <4> QED
        BY <3>1, <4>1, WorkBatchAssumption
    <3>4. /\ "work" \in {"wyrd", "work"} /\ Room(Tail(writs), "work")
          /\ Agree(out' \o gif, Tasks, Tail(writs), eve', "work")
      BY <1>1, <1>4, <1>7, <2>1
    <3>5. /\ Line(ova', log, Tasks, pl) /\ Line(ova', state, Tasks, pl)
          /\ Sent(ova', Tail(writs), pl) /\ ova' \in Seq(0 .. NDrivers + 1)
      BY <1>2, <1>7
    <3>6. \A i \in 1 .. Len(pre) : pre[i].tag = "live"
      BY <3>1
    <3> QED
      BY <1>3, <1>4, <1>5, <1>7, <3>2, <3>3, <3>4, <3>5, <3>6, WorkKeeps
  <2>2. CASE psat # "work"
    <3>1. writs' = Tail(writs) /\ inn' = inn
      <4>1. Pier!Dispatch(Tail(writs), <<>>)
        BY <1>7, <2>2
      <4> QED
        BY <1>2, <1>4, <4>1, DispatchNone
    <3>2. plan' = pl /\ peeks' = peeks
      BY <1>7, <2>2
    <3>3. Agree(out' \o gif, Tasks, writs', eve', psat')
      BY <1>1, <1>4, <1>7, <3>1
    <3>4. /\ Line(ova', log, Tasks, plan') /\ Line(ova', state, Tasks, plan')
          /\ Sent(ova', writs', plan') /\ Room(writs', psat')
          /\ plan' \in Seq(Eggs) /\ peeks' \in Seq(Ids) /\ writs' \in Seq(Writs)
          /\ ova' \in Seq(0 .. NDrivers + 1) /\ psat' \in Up
          /\ out' = out \/ (out # <<>> /\ out' = Tail(out))
      BY <1>2, <1>4, <1>5, <1>7, <3>1, <3>2
    <3> QED
      BY <1>3, <3>1, <3>3, <3>4, KingListens
  <2> QED
    BY <2>1, <2>2
<1> DEFINE egg == Head(writs).egg
<1>8. egg = Head(writs).egg
  OBVIOUS
<1>9. \/ \E x \in {"bail"} : Pier!End(x)
       \/ /\ out' = Tail(out) /\ UNCHANGED <<psat, live, ova>>
          /\ \/ /\ egg.drv \in Essential
                /\ \E n \in 0 .. Len(plan) :
                     IF psat = "work"
                     THEN Pier!WorkSend(Pier!InsertAt(plan, n + 1, [egg EXCEPT !.try = @ + 1]),
                                        Tail(writs), <<>>)
                     ELSE /\ Pier!Dispatch(Tail(writs), <<>>)
                          /\ plan' = Pier!InsertAt(plan, n + 1, [egg EXCEPT !.try = @ + 1])
                          /\ UNCHANGED peeks
             \/ IF psat = "work" THEN Pier!WorkSend(plan, Tail(writs), <<>>)
                ELSE Pier!Dispatch(Tail(writs), <<>>) /\ plan' = plan /\ UNCHANGED peeks
  BY Zenon DEF Pier!_pier_on_lord_work_bail
<1> HIDE DEF egg
<1>10. ASSUME egg.drv \in Essential, NEW n \in 0 .. Len(plan),
             NEW e, e = [egg EXCEPT !.try = @ + 1],
             NEW pl, pl = InsertAt(plan, n + 1, e),
             IF psat = "work" THEN Pier!WorkSend(pl, Tail(writs), <<>>)
             ELSE Pier!Dispatch(Tail(writs), <<>>) /\ plan' = pl /\ UNCHANGED peeks,
             out' = Tail(out), psat' = psat, ova' = ova
      PROVE  PInv'
  <2>1. /\ egg \in AnyEgg /\ egg.id \in Ids
        /\ egg.id \in 1 .. Len(ova) /\ ova[egg.id] = egg.drv
        /\ \A i \in 1 .. Len(log) : log[i] # egg.id
        /\ \A i \in 1 .. Len(state) : state[i] # egg.id
        /\ \A i \in 1 .. Len(Tasks) : Tasks[i].tag = "poke" => Tasks[i].id # egg.id
        /\ \A i \in 1 .. Len(Tail(writs)) : Tail(writs)[i].tag = "poke" =>
             Tail(writs)[i].egg.id # egg.id
        /\ \A i \in 1 .. Len(plan) : plan[i].id # egg.id
    BY <1>1, <1>8, FailedAside
  <2>2. e \in Eggs /\ e.id = egg.id /\ e.drv = egg.drv
    BY <1>10, <2>1, Retried
  <2>3. PICK k \in 1 .. Len(plan) + 1 : k = n + 1
    BY <1>2, <1>10
  <2>4. pl = InsertAt(plan, k, e)
    BY <1>10, <2>3
  <2>5. pl \in Seq(Eggs)
    BY <1>2, <2>2, <2>4, RowInsert
  <2>6. ASSUME NEW s \in Seq(Ids), Line(ova, s, Tasks, plan),
               \A i \in 1 .. Len(s) : s[i] # egg.id
        PROVE  Line(ova, s, Tasks, pl)
    <3>1. /\ e.id \in 1 .. Len(ova) /\ ova[e.id] = e.drv /\ e.drv \in Essential
          /\ \A i \in 1 .. Len(s) : s[i] # e.id
          /\ \A i \in 1 .. Len(Tasks) : Tasks[i].tag = "poke" => Tasks[i].id # e.id
          /\ \A i \in 1 .. Len(plan) : plan[i].id # e.id
      BY <1>10, <2>1, <2>2, <2>6
    <3> QED
      BY <1>2, <2>2, <2>4, <2>6, <3>1, LineRetry
  <2>7. Line(ova, log, Tasks, pl) /\ Line(ova, state, Tasks, pl)
    BY <1>2, <1>6, <2>1, <2>6
  <2>8. Sent(ova, Tail(writs), pl)
    BY <1>2, <1>4, <2>1, <2>2, <2>4, SentInsert
  <2> QED
    BY <1>7, <1>10, <2>5, <2>7, <2>8
<1>11. ASSUME NEW x, Pier!End(x)
       PROVE  PInv'
  BY <1>2, <1>3, <1>11, EndKeeps
<1>12. CASE /\ out' = Tail(out) /\ UNCHANGED <<psat, live, ova>>
            /\ egg.drv \in Essential
            /\ \E n \in 0 .. Len(plan) :
                 IF psat = "work"
                 THEN Pier!WorkSend(Pier!InsertAt(plan, n + 1, [egg EXCEPT !.try = @ + 1]),
                                    Tail(writs), <<>>)
                 ELSE /\ Pier!Dispatch(Tail(writs), <<>>)
                      /\ plan' = Pier!InsertAt(plan, n + 1, [egg EXCEPT !.try = @ + 1])
                      /\ UNCHANGED peeks
  <2>1. PICK n \in 0 .. Len(plan) :
               IF psat = "work"
               THEN Pier!WorkSend(Pier!InsertAt(plan, n + 1, [egg EXCEPT !.try = @ + 1]),
                                  Tail(writs), <<>>)
               ELSE /\ Pier!Dispatch(Tail(writs), <<>>)
                    /\ plan' = Pier!InsertAt(plan, n + 1, [egg EXCEPT !.try = @ + 1])
                    /\ UNCHANGED peeks
    BY <1>12
  <2>2. PICK e : e = [egg EXCEPT !.try = @ + 1]
    OBVIOUS
  <2>3. PICK pl : pl = InsertAt(plan, n + 1, e)
    OBVIOUS
  <2>4. Pier!InsertAt(plan, n + 1, e) = InsertAt(plan, n + 1, e)
    BY DEF Pier!InsertAt, InsertAt
  <2>5. IF psat = "work" THEN Pier!WorkSend(pl, Tail(writs), <<>>)
        ELSE Pier!Dispatch(Tail(writs), <<>>) /\ plan' = pl /\ UNCHANGED peeks
    BY <2>1, <2>2, <2>3, <2>4
  <2> QED
    BY <1>10, <1>12, <2>2, <2>3, <2>5
<1>13. CASE /\ out' = Tail(out) /\ UNCHANGED <<psat, live, ova>>
            /\ IF psat = "work" THEN Pier!WorkSend(plan, Tail(writs), <<>>)
               ELSE Pier!Dispatch(Tail(writs), <<>>) /\ plan' = plan /\ UNCHANGED peeks
  BY <1>2, <1>4, <1>6, <1>7, <1>13
<1> QED
  BY <1>9, <1>11, <1>12, <1>13

-----------------------------------------------------------------------------
(* The king's other steps. *)

\* What a king that goes on knows.
LEMMA UpKnown ==
    ASSUME PInv, psat \in Up
    PROVE  /\ Sent(ova, writs, plan) /\ Room(writs, psat)
           /\ Agree(out \o gif, Tasks, writs, eve, psat)
           /\ Line(ova, log, Tasks, plan) /\ Line(ova, state, Tasks, plan)
  BY DEF PInv, KingInv, LineInv, Answers

\* _pier_work_afte_cb(), _pier_work_idle_cb().
LEMMA IdleKeeps ==
    PInv /\ Pier!_pier_work /\ UNCHANGED <<serfVars, crashes>> => PInv'
<1> SUFFICES ASSUME PInv, Pier!_pier_work, UNCHANGED <<serfVars, crashes>>
             PROVE  PInv'
  OBVIOUS
<1>1. /\ psat = "work" /\ psat' = "work" /\ eve' = eve /\ ova' = ova /\ out' = out
      /\ Pier!WorkSend(plan, writs, <<>>)
  BY DEF Pier!_pier_work
<1>2. /\ eve \in Nat /\ ova \in Seq(0 .. NDrivers + 1)
      /\ plan \in Seq(Eggs) /\ writs \in Seq(Writs)
  BY KingKnown
<1>3. /\ Sent(ova, writs, plan) /\ Room(writs, "work")
      /\ Agree(out \o gif, Tasks, writs, eve, "work")
      /\ Line(ova, log, Tasks, plan) /\ Line(ova, state, Tasks, plan)
  BY <1>1, UpKnown DEF Up
<1>4. PICK pre \in Seq(Writs) : pre = <<>> /\ Len(pre) = 0
  <2>1. <<>> \in Seq(Writs) /\ Len(<<>>) = 0
    OBVIOUS
  <2> QED
    BY <2>1
<1>5. \A i \in 1 .. Len(pre) : pre[i].tag = "live"
  BY <1>4
<1>6. Len(writs) + Len(pre) <= WorkBatch
  <2>1. "work" # "done" /\ Len(writs) \in Nat
    BY <1>2
  <2>2. Len(writs) <= WorkBatch
    BY <1>2, <1>3, <2>1, RoomLen
  <2> QED
    BY <1>4, <2>1, <2>2
<1>7. Pier!WorkSend(plan, writs, pre) /\ "work" \in {"wyrd", "work"}
  BY <1>1, <1>4
<1>8. /\ eve' \in Nat /\ ova' \in Seq(0 .. NDrivers + 1)
      /\ Line(ova', log, Tasks, plan) /\ Line(ova', state, Tasks, plan)
      /\ Sent(ova', writs, plan) /\ Agree(out' \o gif, Tasks, writs, eve', "work")
  BY <1>1, <1>2, <1>3
<1> QED
  BY <1>1, <1>2, <1>3, <1>5, <1>6, <1>7, <1>8, WorkKeeps

\* u3_auto_plan().
LEMMA PlanKeeps ==
    ASSUME PInv, NEW d \in 1 .. NDrivers, Pier!u3_auto_plan(d),
           UNCHANGED <<serfVars, crashes>>
    PROVE  PInv'
<1>1. /\ psat = "work" /\ psat' = psat /\ eve' = eve /\ out' = out /\ inn' = inn
      /\ peeks' = peeks /\ writs' = writs /\ ova' = Append(ova, d)
  BY DEF Pier!u3_auto_plan
<1>2. PICK n \in 0 .. Len(plan) :
        /\ Pier!NextId \in Ids /\ Pier!QueueTail(plan, d, n)
        /\ plan' = Pier!InsertAt(plan, n + 1, Pier!Egg(Pier!NextId, d))
  BY DEF Pier!u3_auto_plan
<1>3. PICK e : e = Pier!Egg(Pier!NextId, d)
  OBVIOUS
<1>4. /\ e \in Eggs /\ e.drv = d /\ e.id = Len(ova) + 1
  <2>1. e = [id |-> Len(ova) + 1, drv |-> d, try |-> 0] /\ Len(ova) + 1 \in Ids
    BY <1>2, <1>3 DEF Pier!Egg, Pier!NextId
  <2> QED
    BY <2>1 DEF Eggs
<1>5. /\ eve \in Nat /\ peeks \in Seq(Ids) /\ ova \in Seq(0 .. NDrivers + 1)
      /\ plan \in Seq(Eggs) /\ writs \in Seq(Writs) /\ Tasks \in Seq(Task)
      /\ state \in Seq(Ids) /\ log \in Seq(Ids)
  BY KingKnown
<1>6. PICK k \in 1 .. Len(plan) + 1 : k = n + 1
  BY <1>2, <1>5
<1>7. plan' = InsertAt(plan, k, e)
  BY <1>2, <1>3, <1>6 DEF Pier!InsertAt, InsertAt
<1>8. \A i \in k .. Len(plan) : plan[i].drv # d
  <2>1. \A i \in n + 1 .. Len(plan) : plan[i].drv > d
    BY <1>2 DEF Pier!QueueTail
  <2>2. \A i \in n + 1 .. Len(plan) : plan[i].drv \in Nat /\ d \in Nat
    <3>1. \A i \in 1 .. Len(plan) : plan[i] \in Eggs
      BY <1>5
    <3>2. \A i \in n + 1 .. Len(plan) : i \in 1 .. Len(plan)
      BY <1>2
    <3> QED
      BY <3>1, <3>2, DriversAssumption DEF Eggs
  <2> QED
    BY <1>6, <2>1, <2>2
<1>9. /\ Sent(ova, writs, plan) /\ Room(writs, psat)
      /\ Agree(out \o gif, Tasks, writs, eve, psat)
      /\ Line(ova, log, Tasks, plan) /\ Line(ova, state, Tasks, plan)
      /\ psat \in Up
  BY <1>1, UpKnown DEF Up
<1>10. PICK D : D = 0 .. NDrivers + 1
  OBVIOUS
<1>11. d \in D /\ e.drv \in D /\ ova \in Seq(D)
  BY <1>4, <1>5, <1>10, DriversAssumption
<1>12. Line(ova', log, Tasks, plan') /\ Line(ova', state, Tasks, plan')
  <2>1. \A i \in k .. Len(plan) : plan[i].drv # e.drv
    BY <1>4, <1>8
  <2>2. \A s \in Seq(Ids) : Line(ova, s, Tasks, plan) =>
          Line(Append(ova, e.drv), s, Tasks, InsertAt(plan, k, e))
    BY <1>4, <1>5, <1>11, <2>1, LinePlan
  <2> QED
    BY <1>1, <1>4, <1>5, <1>7, <1>9, <2>2
<1>13. /\ Append(ova, d) \in Seq(D) /\ Begins(ova, Append(ova, d))
       /\ Len(ova) + 1 \notin 1 .. Len(ova)
  <2>1. PICK x : x = Len(ova) + 1
    OBVIOUS
  <2>2. /\ Append(ova, d) \in Seq(D) /\ Begins(ova, Append(ova, d))
        /\ x \notin 1 .. Len(ova)
    BY <1>11, <2>1, FreshAfter
  <2> QED
    BY <2>1, <2>2
<1>14. Sent(ova', writs', plan')
  <2>1. PICK p : p = ova'
    OBVIOUS
  <2>2. p \in Seq(D) /\ Begins(ova, p)
    BY <1>1, <1>13, <2>1
  <2>3. Sent(p, writs, plan)
    BY <1>9, <1>11, <2>2, SentMore
  <2>4. \A i \in 1 .. Len(writs) : writs[i].tag = "poke" => writs[i].egg.id # e.id
    BY <1>4, <1>9, <1>13, SentAt
  <2>5. Sent(p, writs, InsertAt(plan, k, e))
    BY <1>4, <1>5, <2>3, <2>4, SentInsert
  <2> QED
    BY <1>1, <1>7, <2>1, <2>5
<1>15. plan' \in Seq(Eggs)
  BY <1>4, <1>5, <1>7, RowInsert
<1>16. /\ eve' \in Nat /\ peeks' \in Seq(Ids) /\ ova' \in Seq(0 .. NDrivers + 1)
       /\ writs' \in Seq(Writs) /\ Room(writs', psat') /\ psat' \in Up
       /\ Agree(out' \o gif, Tasks, writs', eve', psat')
  BY <1>1, <1>5, <1>9, <1>10, <1>13
<1> QED
  BY <1>1, <1>12, <1>14, <1>15, <1>16, KingListens

\* u3_pier_peek().
LEMMA PeekKeeps ==
    PInv /\ Pier!u3_pier_peek /\ UNCHANGED <<serfVars, crashes>> => PInv'
<1> SUFFICES ASSUME PInv, Pier!u3_pier_peek, UNCHANGED <<serfVars, crashes>>
             PROVE  PInv'
  OBVIOUS
<1>1. /\ psat = "work" /\ psat' = psat /\ eve' = eve /\ out' = out /\ inn' = inn
      /\ plan' = plan /\ writs' = writs /\ ova' = Append(ova, Pier!Scry)
      /\ Pier!NextId \in Ids /\ peeks' = Append(peeks, Pier!NextId)
  BY DEF Pier!u3_pier_peek
<1>2. /\ eve \in Nat /\ peeks \in Seq(Ids) /\ ova \in Seq(0 .. NDrivers + 1)
      /\ plan \in Seq(Eggs) /\ writs \in Seq(Writs) /\ Tasks \in Seq(Task)
      /\ state \in Seq(Ids) /\ log \in Seq(Ids)
  BY KingKnown
<1>3. /\ Sent(ova, writs, plan) /\ Room(writs, psat)
      /\ Agree(out \o gif, Tasks, writs, eve, psat)
      /\ Line(ova, log, Tasks, plan) /\ Line(ova, state, Tasks, plan)
      /\ psat \in Up
  BY <1>1, UpKnown DEF Up
<1>4. PICK D : D = 0 .. NDrivers + 1
  OBVIOUS
<1>5. PICK d \in D : d = Pier!Scry
  BY <1>4, DriversAssumption DEF Pier!Scry
<1>6. PICK x : x = Len(ova) + 1
  OBVIOUS
<1>7. PICK p : p = ova'
  OBVIOUS
<1>8. p \in Seq(D) /\ Begins(ova, p) /\ ova \in Seq(D)
  <2>1. ova \in Seq(D)
    BY <1>2, <1>4
  <2>2. Append(ova, d) \in Seq(D) /\ Begins(ova, Append(ova, d))
    BY <1>6, <2>1, FreshAfter
  <2> QED
    BY <1>1, <1>5, <1>7, <2>1, <2>2
<1>9. Line(p, log, Tasks, plan) /\ Line(p, state, Tasks, plan)
  BY <1>2, <1>3, <1>8, LineMore
<1>10. Sent(p, writs, plan)
  BY <1>3, <1>8, SentMore
<1>11. /\ Line(ova', log, Tasks, plan') /\ Line(ova', state, Tasks, plan')
       /\ Sent(ova', writs', plan')
  BY <1>1, <1>7, <1>9, <1>10
<1>12. peeks' \in Seq(Ids)
  BY <1>1, <1>2
<1>13. /\ eve' \in Nat /\ plan' \in Seq(Eggs) /\ ova' \in Seq(0 .. NDrivers + 1)
       /\ writs' \in Seq(Writs) /\ Room(writs', psat') /\ psat' \in Up
       /\ Agree(out' \o gif, Tasks, writs', eve', psat')
  BY <1>1, <1>2, <1>3, <1>4, <1>7, <1>8
<1> QED
  BY <1>1, <1>11, <1>12, <1>13, KingListens

\* u3_pier_exit().
LEMMA AskExitKeeps ==
    PInv /\ Pier!u3_pier_exit /\ UNCHANGED <<serfVars, crashes>> => PInv'
<1> SUFFICES ASSUME PInv, Pier!u3_pier_exit, UNCHANGED <<serfVars, crashes>>
             PROVE  PInv'
  OBVIOUS
<1>1. /\ psat \in {"init", "wyrd", "work"} /\ psat' = "done"
      /\ Pier!Dispatch(writs, <<Pier!Writ("exit", Pier!NoEgg)>>)
      /\ plan' = plan /\ peeks' = peeks /\ eve' = eve /\ ova' = ova /\ out' = out
  BY DEF Pier!u3_pier_exit
<1>2. eve \in Nat /\ writs \in Seq(Writs)
  BY KingKnown
<1>3. /\ Sent(ova, writs, plan) /\ Room(writs, psat) /\ psat # "done"
      /\ Agree(out \o gif, Tasks, writs, eve, psat)
  BY <1>1, UpKnown DEF Up
<1>4. eve' \in Nat /\ Agree(out' \o gif, Tasks, writs, eve', psat)
  BY <1>1, <1>2, <1>3
<1> QED
  BY <1>1, <1>2, <1>3, <1>4, ExitKeeps

\* _lord_on_serf_exit(), _lord_on_serf_bail(), or a signal.
LEMMA KingEnds ==
    ASSUME PInv, UNCHANGED serfVars, crashes' \in Nat,
           Pier!_lord_on_serf_exit \/ Pier!_lord_on_serf_bail \/ Pier!Killed
    PROVE  PInv'
<1>1. eve' = eve /\ \E x : Pier!End(x)
  BY DEF Pier!_lord_on_serf_exit, Pier!_lord_on_serf_bail, Pier!Killed
<1>2. eve' \in Nat
  BY <1>1, KingKnown
<1> QED
  BY <1>1, <1>2, EndKeeps

\* Every answer the king hears.
LEMMA HearKeeps ==
    PInv /\ Pier!Hear /\ UNCHANGED <<serfVars, crashes>> => PInv'
  BY RipeKeeps, BootScryKeeps, WyrdDoneKeeps, WyrdBailKeeps, WorkDoneKeeps,
     WorkBailKeeps, RestKeeps
     DEF Pier!Hear

\* Every step of the king.
LEMMA KingStepKeeps == PInv /\ KingStep => PInv'
<1> SUFFICES ASSUME PInv, KingStep PROVE PInv'
  OBVIOUS
<1>1. UNCHANGED <<serfVars, crashes>>
  BY DEF KingStep
<1>2. UNCHANGED serfVars /\ crashes' \in Nat
  BY <1>1, KingKnown
<1>3. CASE Pier!Hear
  BY <1>1, <1>3, HearKeeps
<1>4. CASE Pier!_pier_work
  BY <1>1, <1>4, IdleKeeps
<1>5. CASE \E d \in 1 .. NDrivers : Pier!u3_auto_plan(d)
  BY <1>1, <1>5, PlanKeeps
<1>6. CASE Pier!u3_pier_peek
  BY <1>1, <1>6, PeekKeeps
<1>7. CASE Pier!u3_pier_exit
  BY <1>1, <1>7, AskExitKeeps
<1>8. CASE Pier!_lord_on_serf_exit \/ Pier!_lord_on_serf_bail
  BY <1>2, <1>8, KingEnds
<1> QED
  BY <1>3, <1>4, <1>5, <1>6, <1>7, <1>8 DEF KingStep

\* uv_spawn(): a king and a serf that know nothing.
LEMMA StartKeeps == PInv /\ Start => PInv'
<1> SUFFICES ASSUME PInv, Start PROVE PInv'
  OBVIOUS
<1>1. /\ sat = "down" /\ sat' = "boot" /\ inn' = <<>> /\ out' = <<>>
      /\ state' = state /\ log' = log /\ snap' = snap /\ dun' = dun /\ gif' = gif
      /\ crashes' = crashes
  BY DEF Start, Spawn
<1>2. /\ psat = "down" /\ psat' = "init" /\ eve' = 0 /\ plan' = plan /\ peeks' = peeks
      /\ writs' = writs /\ ova' = ova
  BY DEF Start, Pier!u3_pier_stay
<1>3. IInv'
  BY SpawnInv DEF PInv, Start
<1>4. /\ plan = <<>> /\ writs = <<>> /\ state = <<>> /\ gif = <<>> /\ dun = 0
  BY <1>1, <1>2 DEF PInv, KingOK, IInv, EmptyOK
<1>5. /\ ova \in Seq(0 .. NDrivers + 1) /\ log \in Seq(Ids) /\ crashes \in Nat
      /\ peeks \in Seq(Ids) /\ plan \in Seq(Eggs) /\ writs \in Seq(Writs)
  BY KingKnown
<1>6. KingOK'
  BY <1>1, <1>2, <1>4, <1>5 DEF KingOK, Up
<1>7. LineInv'
  <2>1. Tasks = <<>> /\ Tasks' = <<>>
    BY <1>1 DEF Tasks
  <2> QED
    BY <1>1, <1>2, <2>1 DEF PInv, LineInv
<1>8. KingInv'
  <2>1. /\ Answers' = <<>> /\ Tasks' = <<>> /\ writs' = <<>> /\ plan' = <<>>
        /\ Len(<<>>) = 0
    BY <1>1, <1>2, <1>4 DEF Answers, Tasks
  <2>2. Nth(Answers)' = 0
    BY <2>1, CountZero DEF Nth
  <2>3. Talk(Answers, Tasks, writs, eve)'
    BY <2>1, <2>2 DEF Talk
  <2>4. Even(Answers, Tasks, writs, psat)'
    BY <2>1, <2>2 DEF Even
  <2>5. Failed(Answers)'
    BY <2>1 DEF Failed
  <2>6. Ripe(Answers, writs, eve, psat)'
    BY <1>1, <1>2, <2>1 DEF Ripe, Unripe, Exits, Running
  <2>7. Counts(Answers, eve)'
    <3>1. Len(log') \in Nat
      BY <1>1, <1>5
    <3>2. sat' \notin Running
      BY <1>1 DEF Running
    <3> QED
      BY <1>2, <3>1, <3>2 DEF Counts
  <2>8. Ended(Answers, writs, eve, psat)'
    BY <1>1 DEF Ended
  <2>9. Sent(ova, writs, plan)' /\ Room(writs, psat)'
    BY <2>1 DEF Sent, Room
  <2> QED
    BY <2>3, <2>4, <2>5, <2>6, <2>7, <2>8, <2>9 DEF KingInv, Agree
<1>9. HeldInv'
  BY <1>1 DEF HeldInv, Running
<1>10. BacklogInv'
  BY <1>1, <1>4, WorkBatchAssumption DEF BacklogInv
<1> QED
  BY <1>3, <1>6, <1>7, <1>8, <1>9, <1>10 DEF PInv

-----------------------------------------------------------------------------
(* The steps of the serf. *)

\* A step of the serf keeps what is the king's.
LEMMA SerfKeeps ==
    ASSUME PInv, IInv', UNCHANGED kingVars, crashes' \in Nat,
           \A i \in 1 .. Len(inn') : inn'[i].tag # "save",
           LineInv', HeldInv', BacklogInv',
           psat \in Up => Agree(Answers, Tasks, writs, eve, psat)'
    PROVE  PInv'
<1>1. /\ psat' = psat /\ plan' = plan /\ peeks' = peeks /\ writs' = writs
      /\ eve' = eve /\ ova' = ova
  BY DEF kingVars
<1>2. KingOK'
  BY <1>1 DEF PInv, KingOK
<1>3. Sent(ova, writs, plan)' <=> Sent(ova, writs, plan)
  BY <1>1
<1>4. Room(writs, psat)' <=> Room(writs, psat)
  BY <1>1
<1>5. KingInv'
  BY <1>1, <1>3, <1>4 DEF PInv, KingInv
<1> QED
  BY <1>2, <1>5 DEF PInv

\* _mars_flush(): what is not sent is held back.
LEMMA SendAnswers ==
    ASSUME NEW gs \in Seq(Gift), NEW d \in Nat, out \in Seq(Gift), Send(gs, d)
    PROVE  out' \o gif' = out \o gs
<1>1. PICK n \in 0 .. Len(gs) :
        out' = out \o SubSeq(gs, 1, n) /\ gif' = SubSeq(gs, n + 1, Len(gs))
  BY DEF Send
<1>2. PICK a \in Seq(Gift) : /\ a = SubSeq(gs, 1, n) /\ Len(a) = n
                             /\ \A i \in 1 .. n : a[i] = gs[i]
  BY RowPart
<1>3. PICK b \in Seq(Gift) : /\ b = SubSeq(gs, n + 1, Len(gs)) /\ Len(b) = Len(gs) - n
                             /\ \A i \in 1 .. Len(gs) - n : b[i] = gs[i + n]
  <2>1. /\ SubSeq(gs, n + 1, Len(gs)) \in Seq(Gift)
        /\ Len(SubSeq(gs, n + 1, Len(gs))) = Len(gs) - n
        /\ \A i \in 1 .. Len(gs) - n : SubSeq(gs, n + 1, Len(gs))[i] = gs[i + n]
    BY RowRest
  <2> QED
    BY <2>1
<1>4. a \o b = gs
  <2>1. /\ a \o b \in Seq(Gift) /\ Len(a \o b) = Len(a) + Len(b)
        /\ \A i \in 1 .. Len(a) : (a \o b)[i] = a[i]
        /\ \A i \in Len(a) + 1 .. Len(a) + Len(b) : (a \o b)[i] = b[i - Len(a)]
    BY RowConcat
  <2>2. Len(a \o b) = Len(gs) /\ Len(gs) \in Nat
    <3>1. Len(a) = n /\ Len(b) = Len(gs) - n /\ Len(gs) \in Nat /\ n \in Nat
      BY <1>2, <1>3
    <3> QED
      BY <2>1, <3>1
  <2>3. ASSUME NEW i \in 1 .. Len(gs)
        PROVE  (a \o b)[i] = gs[i]
    <3>1. CASE i <= n
      BY <1>2, <2>1, <3>1
    <3>2. CASE i > n
      <4>1. i \in n + 1 .. n + Len(b) /\ i - n \in 1 .. Len(gs) - n /\ (i - n) + n = i
        BY <1>2, <1>3, <2>2, <3>2
      <4> QED
        BY <1>2, <1>3, <2>1, <4>1
    <3> QED
      BY <1>2, <3>1, <3>2, <2>2
  <2>4. PICK c \in Seq(Gift) : c = a \o b
    BY <2>1
  <2>5. Len(c) = Len(gs) /\ \A i \in 1 .. Len(gs) : c[i] = gs[i]
    BY <2>2, <2>3, <2>4
  <2>6. c = gs
    BY <2>5
  <2> QED
    BY <2>4, <2>6
<1>5. (out \o a) \o b = out \o (a \o b)
  OBVIOUS
<1> QED
  BY <1>1, <1>2, <1>3, <1>4, <1>5

\* One answer more, wherever it waits.
LEMMA AppendAnswers ==
    ASSUME out \in Seq(Gift), gif \in Seq(Gift), NEW g \in Gift, NEW gs, gs = Append(gif, g)
    PROVE  out \o gs = Append(Answers, g)
  BY DEF Answers

\* A held answer is still held, or its event is in the log.
LEMMA HeldFlush ==
    ASSUME IInv, HeldInv, sat \in Running,
           NEW s, NEW st \in Seq(Ids), NEW d \in Nat, NEW gs \in Seq(Gift),
           dun <= d, d <= Len(st), Flush(s, st, d, gs), state' = st, dun' = d,
           Len(st) > d => \E k \in 1 .. Len(gs) : gs[k].tag = "done" /\ gs[k].eve = Len(st)
    PROVE  HeldInv'
<1>1. PICK all \in Seq(Gift) :
        /\ Send(all, d)
        /\ Len(st) > d => all = gs
  <2>1. CASE s = "save" /\ d = Len(st)
    <3>1. Append(gs, Message("sync", NoId, Len(st))) \in Seq(Gift)
      <4>1. "sync" \in GiftTags /\ NoId \in Ids \cup {NoId} /\ Len(st) \in Nat
        BY DEF GiftTags
      <4>2. Message("sync", NoId, Len(st)) \in Gift
        BY <4>1, MessageTyped
      <4> QED
        BY <4>2
    <3>2. Send(Append(gs, Message("sync", NoId, Len(st))), d)
      BY <2>1 DEF Flush
    <3>3. ~(Len(st) > d)
      BY <2>1
    <3> QED
      BY <3>1, <3>2, <3>3
  <2>2. CASE ~(s = "save" /\ d = Len(st))
    <3>1. Send(gs, d)
      BY <2>2 DEF Flush
    <3> QED
      BY <3>1
  <2> QED
    BY <2>1, <2>2
<1>2. PICK n \in 0 .. Len(all) :
        /\ Sends(n, all, d)
        /\ out' = out \o SubSeq(all, 1, n) /\ gif' = SubSeq(all, n + 1, Len(all))
  BY <1>1 DEF Send
<1>3. /\ out \in Seq(Gift) /\ dun \in Nat
      /\ \A i \in 1 .. Len(out) : out[i].eve \in Nat
  <2>1. out \in Seq(Gift) /\ dun \in Nat
    BY Known
  <2>2. \A i \in 1 .. Len(out) : out[i] \in Gift
    BY <2>1
  <2> QED
    BY <2>1, <2>2 DEF Gift
<1>4. ASSUME NEW i \in 1 .. Len(out'), out'[i].tag = "done"
      PROVE  out'[i].eve <= d
  <2>1. PICK a \in Seq(Gift) : /\ a = SubSeq(all, 1, n) /\ Len(a) = n
                               /\ \A j \in 1 .. n : a[j] = all[j]
    <3>1. /\ SubSeq(all, 1, n) \in Seq(Gift) /\ Len(SubSeq(all, 1, n)) = n
          /\ \A j \in 1 .. n : SubSeq(all, 1, n)[j] = all[j]
      BY RowPart
    <3> QED
      BY <3>1
  <2>2. out' = out \o a
    BY <1>2, <2>1
  <2>3. \/ i \in 1 .. Len(out) /\ out'[i] = out[i]
        \/ i - Len(out) \in 1 .. Len(a) /\ out'[i] = a[i - Len(out)]
    BY <1>3, <2>2, RowEither
  <2>4. CASE i \in 1 .. Len(out) /\ out'[i] = out[i]
    <3>1. out[i].eve <= dun
      BY <1>4, <2>4 DEF HeldInv
    <3> QED
      BY <1>3, <2>4, <3>1
  <2>5. CASE i - Len(out) \in 1 .. Len(a) /\ out'[i] = a[i - Len(out)]
    <3>1. PICK j \in 1 .. n : out'[i] = all[j]
      BY <2>1, <2>5
    <3> QED
      BY <1>2, <1>4, <3>1 DEF Sends, MaySend
  <2> QED
    BY <2>3, <2>4, <2>5
<1>5. ASSUME Len(st) > d
      PROVE  \E k \in 1 .. Len(gif') : gif'[k].tag = "done" /\ gif'[k].eve = Len(st)
  <2>1. PICK k \in 1 .. Len(all) : all[k].tag = "done" /\ all[k].eve = Len(st)
    BY <1>1, <1>5
  <2>2. k > n
    <3>1. k \in 1 .. n => all[k].eve <= d
      BY <1>2, <2>1 DEF Sends, MaySend
    <3>2. Len(st) \in Nat /\ n \in Nat
      OBVIOUS
    <3> QED
      BY <1>5, <2>1, <3>1, <3>2
  <2>3. /\ Len(gif') = Len(all) - n /\ Len(all) \in Nat
        /\ \A i \in 1 .. Len(all) - n : gif'[i] = all[i + n]
    BY <1>2, RowRest
  <2>4. k - n \in 1 .. Len(gif') /\ (k - n) + n = k
    BY <2>2, <2>3
  <2> QED
    BY <2>1, <2>3, <2>4
<1> QED
  BY <1>4, <1>5 DEF HeldInv

\* A task is answered, behind all other answers.
LEMMA AgreeAnswer ==
    ASSUME state \in Seq(Ids), log \in Seq(Ids), sat = "work",
           NEW ans \in Seq(Gift), NEW ts \in Seq(Task), NEW ws \in Seq(Writs),
           NEW e \in Nat, NEW ps, Agree(ans, ts, ws, e, ps),
           NEW o, NEW pl, Sent(o, ws, pl), Line(o, log, ts, pl), Line(o, state, ts, pl),
           ts # <<>>, Head(ts).tag = "poke" => Head(ts).id \in Ids,
           NEW g \in Gift, g.tag \in ToWrits, g.id = Head(ts).id,
           Head(ts).tag = IF g.tag \in {"done", "bail"} THEN "poke" ELSE g.tag,
           g.tag = "done" => g.eve = Len(state) + 1,
           sat' = "work", log' = log, dun' = dun,
           state' = IF g.tag = "done" THEN Append(state, g.id) ELSE state,
           Answers' = Append(ans, g), Tasks' = Tail(ts),
           writs' = ws, eve' = e, psat' = ps
    PROVE  Agree(Answers, Tasks, writs, eve, psat)'
<1>1. /\ Talk(ans, ts, ws, e) /\ Even(ans, ts, ws, ps)
      /\ Failed(ans) /\ Ripe(ans, ws, e, ps) /\ Counts(ans, e)
  BY DEF Agree
<1>2. /\ Nth(ans) \in Nat /\ Dones(ans) \in Nat
      /\ \A i \in 0 .. Len(ans) : Count(ans, ToWrits, i) \in Nat
                                  /\ Count(ans, ToWrits, i) <= Nth(ans)
  BY NthType
<1>3. /\ Tail(ts) \in Seq(Task) /\ Head(ts) = ts[1] /\ Head(ts) \in Task
      /\ Len(ts) \in Nat \ {0} /\ Len(Tail(ts)) = Len(ts) - 1
  BY RowTail
<1>4. Len(ws) \in Nat /\ Len(ans) \in Nat /\ Len(state) \in Nat
  OBVIOUS
<1>5. PICK n : n = Nth(ans) + 1
  OBVIOUS
<1>6. n \in 1 .. Len(ws) /\ Head(ts) = TaskOf(ws[n])
  BY <1>1, <1>2, <1>3, <1>4, <1>5, SMTT(30) DEF Talk
<1>7. Head(ts).tag = ws[n].tag /\ Head(ts).id = ws[n].egg.id /\ ws[n].tag # "exit"
  <2>1. g.tag # "exit"
    BY DEF ToWrits, GiftTags
  <2> QED
    BY <1>6, <2>1 DEF TaskOf
<1>8. ~Unripe(ans) /\ ps # "init"
  BY <1>1, <1>6, <1>7 DEF Ripe, Exits
<1>9. Len(state) = e + Dones(ans) /\ e <= dun
  BY <1>1, <1>8 DEF Counts, Running
<1>10. /\ Append(ans, g) \in Seq(Gift) /\ Len(Append(ans, g)) = Len(ans) + 1
       /\ Append(ans, g)[Len(ans) + 1] = g
       /\ \A i \in 1 .. Len(ans) : Append(ans, g)[i] = ans[i]
  BY RowAppend
<1>11. /\ Nth(Append(ans, g)) = Nth(ans) + 1
       /\ Dones(Append(ans, g)) = Dones(ans) + IF g.tag = "done" THEN 1 ELSE 0
  BY NthAppend
<1>12. PICK all : all = Append(ans, g)
  OBVIOUS
<1>13. /\ \A i \in 1 .. Len(all) : \/ i \in 1 .. Len(ans) /\ all[i] = ans[i]
                                   \/ i = Len(ans) + 1 /\ all[i] = g
       /\ Nth(all) = Nth(ans) + 1 /\ Len(all) = Len(ans) + 1
       /\ Dones(all) = Dones(ans) + IF g.tag = "done" THEN 1 ELSE 0
       /\ Answers' = all
  BY <1>4, <1>10, <1>11, <1>12
<1>14. Talk(Answers, Tasks, writs, eve)'
  <2>1. g.tag = "done" => g.eve = e + (Dones(ans) + 1)
    BY <1>2, <1>9
  <2>2. Talk(Append(ans, g), Tail(ts), ws, e)
    BY <1>1, <2>1, TalkAnswer
  <2> QED
    BY <2>2
<1>15. Even(Answers, Tasks, writs, psat)'
  <2>1. ps # "done" => Nth(ans) + Len(ts) = Len(ws)
    BY <1>1 DEF Even
  <2>2. ps # "done" => Nth(all) + Len(Tail(ts)) = Len(ws)
    BY <1>2, <1>3, <1>13, <2>1, SMTT(30)
  <2> QED
    BY <1>13, <2>2 DEF Even
<1>16. Failed(Answers)'
  <2>1. \A i \in 1 .. Len(log) : log[i] # g.id \/ Head(ts).tag # "poke"
    BY LineTake
  <2>2. \A i \in 1 .. Len(state) : state[i] # g.id \/ Head(ts).tag # "poke"
    BY LineTake
  <2>3. ASSUME NEW i \in 1 .. Len(ans), ans[i].tag = "bail", g.tag = "done"
        PROVE  ans[i].id # g.id
    <3>1. "bail" \in ToWrits
      BY DEF ToWrits, GiftTags
    <3>2. PICK k : k = Count(ans, ToWrits, i)
      OBVIOUS
    <3>3. k \in 1 .. Len(ws) /\ Fits(ans[i], ws[k])
      BY <1>1, <2>3, <3>1, <3>2, TalkAt
    <3>4. ws[k].tag = "poke" /\ ws[k].egg.id = ans[i].id /\ ws[n].tag = "poke"
      BY <1>7, <2>3, <3>3 DEF Fits
    <3>5. k < n
      BY <1>2, <1>4, <1>5, <3>2, <3>3
    <3>6. ws[k].egg.id # ws[n].egg.id
      BY <1>6, <3>3, <3>4, <3>5, SentAt, SMTT(30)
    <3> QED
      BY <1>7, <3>4, <3>6
  <2>4. ASSUME NEW i \in 1 .. Len(all), all[i].tag = "bail"
        PROVE  \A k \in 1 .. Len(state') : state'[k] # all[i].id
    <3>1. CASE i = Len(ans) + 1 /\ all[i] = g
      BY <2>2, <2>4, <3>1
    <3>2. CASE i \in 1 .. Len(ans) /\ all[i] = ans[i] /\ g.tag # "done"
      BY <1>1, <2>4, <3>2 DEF Failed
    <3>3. CASE i \in 1 .. Len(ans) /\ all[i] = ans[i] /\ g.tag = "done"
      <4>1. \A k \in 1 .. Len(state) : state[k] # all[i].id
        BY <1>1, <2>4, <3>3 DEF Failed
      <4>2. g.id # all[i].id
        BY <2>3, <2>4, <3>3
      <4>3. state' = Append(state, g.id) /\ g.id \in Ids
        BY <3>3
      <4>4. /\ Len(state') = Len(state) + 1 /\ state'[Len(state) + 1] = g.id
            /\ \A k \in 1 .. Len(state) : state'[k] = state[k]
        BY <4>3
      <4> QED
        BY <1>4, <4>1, <4>2, <4>4
    <3> QED
      BY <1>13, <3>1, <3>2, <3>3
  <2>5. ASSUME NEW i \in 1 .. Len(all), all[i].tag = "bail"
        PROVE  \A k \in 1 .. Len(log) : log[k] # all[i].id
    <3>1. CASE i = Len(ans) + 1 /\ all[i] = g
      BY <2>1, <2>5, <3>1
    <3>2. CASE i \in 1 .. Len(ans) /\ all[i] = ans[i]
      BY <1>1, <2>5, <3>2 DEF Failed
    <3> QED
      BY <1>13, <3>1, <3>2
  <2> QED
    BY <1>13, <2>4, <2>5 DEF Failed
<1>17. g.tag # "ripe" /\ \A i \in 1 .. Len(all) : all[i].tag # "ripe"
  <2>1. g.tag # "ripe"
    BY DEF ToWrits, GiftTags
  <2>2. \A i \in 1 .. Len(ans) : ans[i].tag # "ripe"
    BY <1>8 DEF Unripe
  <2> QED
    BY <1>13, <2>1, <2>2
<1>18. ~Unripe(Answers)'
  BY <1>13, <1>17 DEF Unripe
<1>19. Ripe(Answers, writs, eve, psat)'
  BY <1>8, <1>13, <1>17, <1>18 DEF Ripe
<1>20. Counts(Answers, eve)'
  <2>1. Len(state') = e + Dones(all)
    <3>1. CASE g.tag = "done"
      <4>1. state' = Append(state, g.id) /\ g.id \in Ids
        BY <3>1
      <4>2. Len(state') = Len(state) + 1
        BY <4>1
      <4> QED
        BY <1>2, <1>9, <1>13, <3>1, <4>2
    <3>2. CASE g.tag # "done"
      BY <1>2, <1>9, <1>13, <3>2
    <3> QED
      BY <3>1, <3>2
  <2>2. e <= Len(log)
    BY <1>1 DEF Counts
  <2> QED
    BY <1>9, <1>13, <2>1, <2>2 DEF Counts
<1>21. Ended(Answers, writs, eve, psat)'
  BY DEF Ended
<1> QED
  BY <1>14, <1>15, <1>16, <1>19, <1>20, <1>21 DEF Agree

\* The exit is the last task.
LEMMA TalkExit ==
    ASSUME NEW ans \in Seq(Gift), NEW ts \in Seq(Task), NEW ws \in Seq(Writs),
           NEW e, NEW ps, Talk(ans, ts, ws, e), Room(ws, ps),
           ts # <<>>, Head(ts).tag = "exit"
    PROVE  Tail(ts) = <<>> /\ ps = "done" /\ Talk(ans, <<>>, ws, e)
<1>1. Nth(ans) \in Nat
  BY NthType
<1>2. /\ Head(ts) = ts[1] /\ Len(ts) \in Nat \ {0} /\ Len(ws) \in Nat
      /\ Tail(ts) \in Seq(Task) /\ Len(Tail(ts)) = Len(ts) - 1
  BY RowTail
<1>3. PICK n : n = Nth(ans) + 1
  OBVIOUS
<1>4. /\ Nth(ans) + Len(ts) <= Len(ws) /\ ts[1] = TaskOf(ws[n])
  BY <1>2, <1>3 DEF Talk
<1>5. n \in 1 .. Len(ws) /\ ws[n].tag = "exit"
  BY <1>1, <1>2, <1>3, <1>4 DEF TaskOf
<1>6. n = Len(ws) /\ ps = "done"
  BY <1>5 DEF Room
<1>7. Len(ts) = 1
  BY <1>1, <1>2, <1>3, <1>4, <1>6
<1>8. Tail(ts) = <<>>
  <2>1. PICK t \in Seq(Task) : t = Tail(ts)
    BY <1>2
  <2>2. Len(t) = 0
    BY <1>2, <1>7, <2>1
  <2>3. t = <<>>
    BY <2>2
  <2> QED
    BY <2>1, <2>3
<1>9. Talk(ans, <<>>, ws, e)
  <2>1. /\ Len(<<>>) = 0 /\ Nth(ans) + 0 <= Len(ws)
    BY <1>1, <1>2, <1>4
  <2> QED
    BY <2>1 DEF Talk
<1> QED
  BY <1>6, <1>8, <1>9

\* A step that answers no writ.
LEMMA AgreeQuiet ==
    ASSUME IInv, IInv', sat \in Running, sat' \in Running,
           state' = state, Begins(log, log'), dun <= dun', dun' <= Len(log'),
           NEW ans \in Seq(Gift), NEW ts \in Seq(Task), NEW ws \in Seq(Writs),
           NEW e \in Nat, NEW ps, Agree(ans, ts, ws, e, ps), Room(ws, ps),
           NEW g \in Gift, g.tag = "sync",
           NEW all, all = ans \/ all = Append(ans, g),
           NEW rest, rest = ts \/ (ts # <<>> /\ Head(ts).tag = "exit" /\ rest = Tail(ts)),
           Answers' = all, Tasks' = rest, writs' = ws, eve' = e, psat' = ps
    PROVE  Agree(Answers, Tasks, writs, eve, psat)'
<1>1. /\ Talk(ans, ts, ws, e) /\ Even(ans, ts, ws, ps)
      /\ Failed(ans) /\ Ripe(ans, ws, e, ps) /\ Counts(ans, e)
  BY DEF Agree
<1>2. /\ sat # "down" /\ sat # "boot" /\ sat' # "down" /\ sat' # "boot"
  BY DEF Running
<1>3. /\ state \in Seq(Ids) /\ log \in Seq(Ids) /\ log' \in Seq(Ids)
      /\ dun \in Nat /\ dun' \in Nat
      /\ dun <= Len(log) /\ Begins(log, state)
  BY Known DEF IInv, TypeOK
<1>4. /\ Len(log) \in Nat /\ Len(log') \in Nat /\ Len(state) \in Nat
      /\ Len(log) <= Len(log') /\ Len(log) <= Len(state)
  BY <1>3 DEF Begins
<1>5. dun' <= Len(log') /\ Begins(log', state')
  <2>1. Begins(log, state)'
    BY DEF IInv, WriterOK
  <2>2. Begins(log', state')
    BY <2>1 DEF Begins
  <2> QED
    BY <2>2
<1>6. Len(log') <= Len(state) /\ \A k \in 1 .. Len(log') : log'[k] = state[k]
  BY <1>5 DEF Begins
<1>7. /\ Len(ans) \in Nat
      /\ \A i \in 1 .. Len(all) : \/ i \in 1 .. Len(ans) /\ all[i] = ans[i]
                                  \/ all[i].tag = "sync"
      /\ Len(ans) <= Len(all) /\ \A i \in 1 .. Len(ans) : all[i] = ans[i]
      /\ Nth(all) = Nth(ans) /\ Dones(all) = Dones(ans)
      /\ Talk(all, ts, ws, e)
      /\ all \in Seq(Gift)
  <2>0. Len(ans) \in Nat
    OBVIOUS
  <2>1. CASE all = ans
    BY <1>1, <2>0, <2>1
  <2>2. CASE all = Append(ans, g)
    <3>1. g.tag \notin ToWrits /\ g.tag # "done"
      BY DEF ToWrits
    <3>2. /\ Nth(Append(ans, g)) = Nth(ans) /\ Dones(Append(ans, g)) = Dones(ans)
      <4>1. /\ Nth(Append(ans, g)) = Nth(ans) + 0 /\ Dones(Append(ans, g)) = Dones(ans) + 0
        BY <3>1, NthAppend
      <4>2. Nth(ans) \in Nat /\ Dones(ans) \in Nat
        BY NthType
      <4> QED
        BY <4>1, <4>2
    <3>3. Talk(Append(ans, g), ts, ws, e)
      BY <1>1, <3>1, TalkAside
    <3>4. /\ Append(ans, g) \in Seq(Gift) /\ Len(Append(ans, g)) = Len(ans) + 1
          /\ Append(ans, g)[Len(ans) + 1] = g
          /\ \A i \in 1 .. Len(ans) : Append(ans, g)[i] = ans[i]
      BY RowAppend
    <3>5. \A i \in 1 .. Len(ans) + 1 : i \in 1 .. Len(ans) \/ i = Len(ans) + 1
      BY <2>0
    <3> QED
      BY <2>0, <2>2, <3>2, <3>3, <3>4, <3>5
  <2> QED
    BY <2>1, <2>2
<1>8. /\ Talk(all, rest, ws, e)
      /\ ps # "done" => rest = ts
  <2>1. CASE rest = ts
    BY <1>7, <2>1
  <2>2. CASE ts # <<>> /\ Head(ts).tag = "exit" /\ rest = Tail(ts)
    <3>1. Tail(ts) = <<>> /\ ps = "done" /\ Talk(all, <<>>, ws, e)
      BY <1>7, <2>2, TalkExit
    <3> QED
      BY <2>2, <3>1
  <2> QED
    BY <2>1, <2>2
<1>9. Even(Answers, Tasks, writs, psat)'
  <2>1. ps # "done" => Nth(all) + Len(rest) = Len(ws)
    BY <1>1, <1>2, <1>7, <1>8 DEF Even
  <2> QED
    BY <2>1 DEF Even
<1>10. Failed(Answers)'
  <2>1. ASSUME NEW i \in 1 .. Len(all), all[i].tag = "bail"
        PROVE  /\ \A k \in 1 .. Len(state) : state[k] # all[i].id
               /\ \A k \in 1 .. Len(log') : log'[k] # all[i].id
    <3>1. i \in 1 .. Len(ans) /\ all[i] = ans[i]
      BY <1>7, <2>1
    <3>2. \A k \in 1 .. Len(state) : state[k] # all[i].id
      BY <1>1, <2>1, <3>1 DEF Failed
    <3>3. \A k \in 1 .. Len(log') : k \in 1 .. Len(state)
      BY <1>4, <1>6
    <3> QED
      BY <1>6, <3>2, <3>3
  <2> QED
    BY <2>1 DEF Failed
<1>11. Unripe(Answers)' <=> Unripe(ans)
  <2>1. \A i \in 1 .. Len(ans) : i \in 1 .. Len(all)
    <3>1. Len(all) \in Nat
      BY <1>7
    <3> QED
      BY <1>7, <3>1
  <2>2. (\E i \in 1 .. Len(all) : all[i].tag = "ripe") <=>
        (\E i \in 1 .. Len(ans) : ans[i].tag = "ripe")
    BY <1>7, <2>1
  <2> QED
    BY <1>2, <2>2 DEF Unripe
<1>12. Unripe(ans) => Len(log') = Len(log) /\ dun' = Len(state)
  <2>1. Unripe(ans) => dun = Len(state)
    BY <1>1 DEF Ripe
  <2> QED
    BY <1>3, <1>4, <1>5, <1>6, <2>1
<1>13. Ripe(Answers, writs, eve, psat)'
  <2>1. \A i \in 1 .. Len(ans) : ans[i].tag = "ripe" => i = 1 /\ ans[i].eve = Len(log)
    BY <1>1 DEF Ripe
  <2>2. \A i \in 1 .. Len(ans) : ans[i].tag = "ripe" => Unripe(ans)
    BY DEF Unripe
  <2>3. \A i \in 1 .. Len(all) : all[i].tag = "ripe" => i = 1 /\ all[i].eve = Len(log')
    BY <1>7, <1>12, <2>1, <2>2
  <2>4. /\ ps = "init" => Unripe(ans)
        /\ Unripe(ans) \/ ps = "init" => ps \in {"init", "done"} /\ e = 0 /\ Exits(ws)
    BY <1>1, <1>2 DEF Ripe
  <2> QED
    BY <1>2, <1>11, <1>12, <2>3, <2>4 DEF Ripe, Exits
<1>14. Counts(Answers, eve)'
  <2>1. e <= Len(log) /\ (~Unripe(ans) => Len(state) = e + Dones(ans) /\ e <= dun)
    BY <1>1 DEF Counts
  <2>2. e <= Len(log') /\ (~Unripe(ans) => Len(state) = e + Dones(all) /\ e <= dun')
    BY <1>3, <1>4, <1>7, <2>1
  <2> QED
    BY <1>11, <2>2 DEF Counts
<1>15. Ended(Answers, writs, eve, psat)'
  BY <1>2 DEF Ended
<1>16. Talk(Answers, Tasks, writs, eve)'
  BY <1>8
<1> QED
  BY <1>9, <1>10, <1>13, <1>14, <1>15, <1>16 DEF Agree

\* An answer to an event that is lost leaves a writ.
LEMMA LostDone ==
    ASSUME NEW ans \in Seq(Gift), NEW ts \in Seq(Task), NEW ws \in Seq(Writs),
           NEW e \in Nat, Talk(ans, ts, ws, e), NEW m \in 0 .. Len(ans),
           NEW j \in m + 1 .. Len(ans), ans[j].tag = "done"
    PROVE  Unanswered(SubSeq(ans, 1, m), ws)
<1>1. m \in Nat /\ j \in 1 .. Len(ans) /\ "done" \in ToWrits
  BY DEF ToWrits, GiftTags
<1>2. PICK k : k = Count(ans, ToWrits, j)
  OBVIOUS
<1>3. k \in 1 .. Len(ws) /\ Fits(ans[j], ws[k])
  BY <1>1, <1>2, TalkAt
<1>4. ws[k].tag = "poke"
  BY <1>3 DEF Fits
<1>5. PICK i \in Nat : i = j - 1 /\ m <= i
  BY <1>1
<1>6. Count(ans, ToWrits, j) = Count(ans, ToWrits, j - 1) + 1
  BY <1>1, NthPositive
<1>7. Count(ans, ToWrits, m) <= Count(ans, ToWrits, i)
  BY <1>1, <1>5, CountMore
<1>8. Count(ans, ToWrits, m) \in Nat /\ Count(ans, ToWrits, i) \in Nat
  BY <1>1, <1>5, CountType
<1>9. Nth(SubSeq(ans, 1, m)) = Count(ans, ToWrits, m)
  BY TalkPart
<1>10. k > Nth(SubSeq(ans, 1, m))
  BY <1>2, <1>5, <1>6, <1>7, <1>8, <1>9
<1> QED
  BY <1>3, <1>4, <1>10 DEF Unanswered

\* The serf ends, and with it what it held back and had not yet written.
LEMMA AgreeEnds ==
    ASSUME IInv, sat # "down", sat' = "down", log' = log, state' = <<>>,
           NEW ans \in Seq(Gift), NEW ts \in Seq(Task), NEW ws \in Seq(Writs),
           NEW e \in Nat, NEW ps, Agree(ans, ts, ws, e, ps), NEW m \in 0 .. Len(ans),
           Answers' = SubSeq(ans, 1, m), Tasks' = <<>>, writs' = ws, eve' = e, psat' = ps,
           crashes' = 0 =>
             snap' = log \/ \E j \in m + 1 .. Len(ans) : ans[j].tag = "done"
    PROVE  Agree(Answers, Tasks, writs, eve, psat)'
<1>1. /\ Talk(ans, ts, ws, e) /\ Failed(ans) /\ Ripe(ans, ws, e, ps) /\ Counts(ans, e)
  BY DEF Agree
<1>2. PICK part : part = SubSeq(ans, 1, m)
  OBVIOUS
<1>3. /\ part \in Seq(Gift) /\ Len(part) = m /\ Len(ans) \in Nat
      /\ \A i \in 1 .. m : i \in 1 .. Len(ans) /\ part[i] = ans[i]
  <2>1. /\ SubSeq(ans, 1, m) \in Seq(Gift) /\ Len(SubSeq(ans, 1, m)) = m /\ Len(ans) \in Nat
        /\ \A i \in 1 .. m : SubSeq(ans, 1, m)[i] = ans[i]
    BY RowPart
  <2>2. \A i \in 1 .. m : i \in 1 .. Len(ans)
    BY <2>1
  <2> QED
    BY <1>2, <2>1, <2>2
<1>4. /\ Talk(part, <<>>, ws, e) /\ Dones(part) = Count(ans, {"done"}, m)
  BY <1>1, <1>2, TalkPart
<1>5. (\E j \in m + 1 .. Len(ans) : ans[j].tag = "done") => Unanswered(part, ws)
  BY <1>1, <1>2, LostDone
<1>6. Answers' = part /\ sat' \notin Running /\ sat' # "boot"
  BY <1>2 DEF Running
<1>7. Talk(Answers, Tasks, writs, eve)'
  BY <1>4, <1>6
<1>8. Even(Answers, Tasks, writs, psat)'
  BY DEF Even
<1>9. Failed(Answers)'
  <2>1. Len(state') = 0
    OBVIOUS
  <2>2. \A i \in 1 .. Len(part) : part[i].tag = "bail" =>
          \A k \in 1 .. Len(log) : log[k] # part[i].id
    BY <1>1, <1>3 DEF Failed
  <2> QED
    BY <1>6, <2>1, <2>2 DEF Failed
<1>10. Unripe(Answers)' => Unripe(ans)
  <2>1. (\E i \in 1 .. Len(part) : part[i].tag = "ripe") =>
        (\E i \in 1 .. Len(ans) : ans[i].tag = "ripe")
    BY <1>3
  <2> QED
    BY <1>6, <2>1 DEF Unripe
<1>11. Ripe(Answers, writs, eve, psat)'
  <2>1. \A i \in 1 .. Len(part) : part[i].tag = "ripe" => i = 1 /\ part[i].eve = Len(log)
    BY <1>1, <1>3 DEF Ripe
  <2>2. Unripe(ans) \/ ps = "init" => ps \in {"init", "done"} /\ e = 0 /\ Exits(ws)
    BY <1>1 DEF Ripe
  <2> QED
    BY <1>6, <1>10, <2>1, <2>2 DEF Ripe, Exits
<1>12. Counts(Answers, eve)'
  BY <1>1, <1>6 DEF Counts
<1>13. \/ e = 0 /\ Exits(ws) /\ ps \in {"init", "done"}
       \/ Len(log) <= e + Dones(part)
       \/ Unanswered(part, ws)
  <2>1. CASE Unripe(ans)
    BY <1>1, <2>1 DEF Ripe
  <2>2. CASE ~Unripe(ans)
    <3>1. sat \in Running
      <4>1. sat \in Sats
        BY DEF IInv, TypeOK
      <4>2. sat # "boot"
        BY <2>2 DEF Unripe
      <4> QED
        BY <4>1, <4>2 DEF Sats, Running
    <3>2. Len(state) = e + Dones(ans)
      BY <1>1, <2>2, <3>1 DEF Counts
    <3>3. Len(log) <= Len(state) /\ Len(log) \in Nat
      <4>1. log \in Seq(Ids) /\ Begins(log, state)
        BY <3>1, Known
      <4> QED
        BY <4>1 DEF Begins
    <3>4. CASE Count(ans, {"done"}, m) < Count(ans, {"done"}, Len(ans))
      <4>1. m \in Nat /\ Len(ans) \in Nat
        OBVIOUS
      <4>2. \E j \in m + 1 .. Len(ans) : ans[j].tag \in {"done"}
        BY <3>4, <4>1, CountBetween
      <4> QED
        BY <1>5, <4>2
    <3>5. CASE ~(Count(ans, {"done"}, m) < Count(ans, {"done"}, Len(ans)))
      <4>1. m \in Nat /\ Len(ans) \in Nat
        OBVIOUS
      <4>2. Count(ans, {"done"}, m) \in Nat /\ Count(ans, {"done"}, Len(ans)) \in Nat
        BY <4>1, CountType
      <4>3. Dones(ans) <= Dones(part) /\ Dones(ans) \in Nat /\ Dones(part) \in Nat
        BY <1>4, <3>5, <4>2 DEF Dones
      <4> QED
        BY <3>2, <3>3, <4>3
    <3> QED
      BY <3>4, <3>5
  <2> QED
    BY <2>1, <2>2
<1>14. crashes' = 0 => snap' = log \/ Unanswered(part, ws)
  BY <1>5
<1>15. Ended(Answers, writs, eve, psat)'
  <2>1. Unanswered(Answers, writs)' <=> Unanswered(part, ws)
    BY <1>6
  <2>2. Dones(Answers)' = Dones(part) /\ (Exits(writs)' <=> Exits(ws))
    BY <1>6
  <2> QED
    BY <1>13, <1>14, <2>1, <2>2 DEF Ended
<1> QED
  BY <1>7, <1>8, <1>9, <1>11, <1>12, <1>15 DEF Agree

\* %ripe is the first answer.
LEMMA AgreeRipens ==
    ASSUME IInv', sat = "boot", sat' = "work", log' = log, dun' = Len(log),
           log \in Seq(Ids), state' \in Seq(Ids), Len(state') = Len(log),
           NEW ts \in Seq(Task), NEW ws \in Seq(Writs),
           NEW e \in Nat, NEW ps, Agree(Answers, ts, ws, e, ps),
           NEW g \in Gift, g.tag = "ripe", g.eve = Len(log),
           NEW all, all = Append(<<>>, g),
           Answers' = all, Tasks' = ts, writs' = ws, eve' = e, psat' = ps
    PROVE  Agree(Answers, Tasks, writs, eve, psat)'
<1>1. PICK none \in Seq(Gift) : none = <<>> /\ Len(none) = 0
  <2>1. <<>> \in Seq(Gift) /\ Len(<<>>) = 0
    OBVIOUS
  <2> QED
    BY <2>1
<1>2. Answers = none
  BY <1>1 DEF Agree, Ripe
<1>3. /\ Talk(none, ts, ws, e) /\ Even(none, ts, ws, ps)
      /\ Ripe(none, ws, e, ps) /\ Counts(none, e) /\ Unripe(none)
  BY <1>2 DEF Agree, Unripe
<1>4. all = Append(none, g) /\ g.tag \notin ToWrits /\ g.tag # "done"
  BY <1>1 DEF ToWrits
<1>5. /\ all \in Seq(Gift) /\ Len(all) = 1 /\ all[1] = g
      /\ \A i \in 1 .. Len(all) : i = 1
  <2>1. /\ Append(none, g) \in Seq(Gift) /\ Len(Append(none, g)) = Len(none) + 1
        /\ Append(none, g)[Len(none) + 1] = g
    BY RowAppend
  <2> QED
    BY <1>1, <1>4, <2>1
<1>6. Nth(all) = Nth(none) /\ Dones(all) = Dones(none)
  <2>1. Nth(Append(none, g)) = Nth(none) + 0 /\ Dones(Append(none, g)) = Dones(none) + 0
    BY <1>4, NthAppend
  <2>2. Nth(none) \in Nat /\ Dones(none) \in Nat
    BY NthType
  <2>3. Nth(none) + 0 = Nth(none) /\ Dones(none) + 0 = Dones(none)
    BY <2>2
  <2>4. Nth(Append(none, g)) = Nth(none) /\ Dones(Append(none, g)) = Dones(none)
    BY <2>1, <2>3, Zenon
  <2> QED
    BY <1>4, <2>4, Zenon
<1>7. Talk(all, ts, ws, e)
  <2>1. Talk(Append(none, g), ts, ws, e)
    BY <1>3, <1>4, TalkAside
  <2> QED
    BY <1>4, <2>1
<1>8. Even(Answers, Tasks, writs, psat)'
  <2>1. ps # "done" => Nth(all) + Len(ts) = Len(ws)
    BY <1>3, <1>6 DEF Even
  <2> QED
    BY <2>1 DEF Even
<1>9. Failed(Answers)'
  BY <1>5 DEF Failed
<1>10. Unripe(Answers)'
  BY <1>5 DEF Unripe
<1>11. Ripe(Answers, writs, eve, psat)'
  <2>1. ps \in {"init", "done"} /\ e = 0 /\ Exits(ws)
    BY <1>3 DEF Ripe
  <2> QED
    BY <1>5, <1>10, <2>1 DEF Ripe, Exits
<1>12. Counts(Answers, eve)'
  BY <1>3, <1>10 DEF Counts
<1>13. Ended(Answers, writs, eve, psat)'
  BY DEF Ended
<1>14. Talk(Answers, Tasks, writs, eve)'
  BY <1>7
<1> QED
  BY <1>8, <1>9, <1>11, <1>12, <1>13, <1>14 DEF Agree

\* _cw_work().
LEMMA BootKeeps ==
    PInv /\ u3_mars_work /\ UNCHANGED <<kingVars, crashes>> => PInv'
<1> SUFFICES ASSUME PInv, u3_mars_work, UNCHANGED <<kingVars, crashes>>
             PROVE  PInv'
  OBVIOUS
<1>1. /\ sat = "boot" /\ sat' = "work" /\ log' = log /\ dun' = Len(log)
      /\ state' = snap \o SubSeq(log, Len(snap) + 1, Len(log))
      /\ out' = Append(out, Message("ripe", NoId, Len(state')))
      /\ gif' = gif /\ inn' = inn
  BY DEF u3_mars_work
<1>2. IInv'
  BY WorkInv DEF PInv
<1>3. /\ log \in Seq(Ids) /\ snap \in Seq(Ids) /\ Begins(snap, log)
      /\ out \in Seq(Gift) /\ gif \in Seq(Gift)
  BY Known DEF PInv
<1>4. gif = <<>> /\ state = <<>> /\ dun = 0
  BY <1>1 DEF PInv, IInv, EmptyOK
<1>5. state' \in Seq(Ids) /\ Len(state') = Len(log) /\ Begins(state', log)
  <2>1. Len(snap) \in 0 .. Len(log) /\ Len(log) \in Nat
    BY <1>3 DEF Begins
  <2>2. PICK b \in Seq(Ids) : /\ b = SubSeq(log, Len(snap) + 1, Len(log))
                              /\ Len(b) = Len(log) - Len(snap)
                              /\ \A i \in 1 .. Len(b) : b[i] = log[i + Len(snap)]
    <3>1. PICK k : k = Len(snap)
      OBVIOUS
    <3>2. k \in 0 .. Len(log)
      BY <2>1, <3>1
    <3>3. /\ SubSeq(log, k + 1, Len(log)) \in Seq(Ids)
          /\ Len(SubSeq(log, k + 1, Len(log))) = Len(log) - k
          /\ \A i \in 1 .. Len(log) - k : SubSeq(log, k + 1, Len(log))[i] = log[i + k]
      BY <1>3, <3>2, RowRest
    <3> QED
      BY <3>1, <3>3
  <2>3. state' = snap \o b
    BY <1>1, <2>2
  <2>4. /\ snap \o b \in Seq(Ids) /\ Len(snap \o b) = Len(snap) + Len(b)
        /\ \A i \in 1 .. Len(snap) : (snap \o b)[i] = snap[i]
        /\ \A i \in Len(snap) + 1 .. Len(snap) + Len(b) : (snap \o b)[i] = b[i - Len(snap)]
    BY <1>3, RowConcat
  <2>5. Len(state') = Len(log)
    BY <2>1, <2>2, <2>3, <2>4
  <2>6. ASSUME NEW i \in 1 .. Len(log)
        PROVE  state'[i] = log[i]
    <3>1. CASE i <= Len(snap)
      BY <1>3, <2>1, <2>3, <2>4, <3>1 DEF Begins
    <3>2. CASE i > Len(snap)
      <4>1. /\ i \in Len(snap) + 1 .. Len(snap) + Len(b) /\ i - Len(snap) \in 1 .. Len(b)
            /\ (i - Len(snap)) + Len(snap) = i
        BY <2>1, <2>2, <3>2
      <4> QED
        BY <2>2, <2>3, <2>4, <4>1
    <3> QED
      BY <2>1, <3>1, <3>2
  <2> QED
    BY <2>1, <2>3, <2>4, <2>5, <2>6 DEF Begins
<1>6. PICK g \in Gift : g = Message("ripe", NoId, Len(state'))
                        /\ g.tag = "ripe" /\ g.eve = Len(log)
  <2>1. "ripe" \in GiftTags /\ NoId \in Ids \cup {NoId} /\ Len(log) \in Nat
    BY <1>3 DEF GiftTags
  <2>2. Message("ripe", NoId, Len(log)) \in Gift
    BY <2>1, MessageTyped
  <2> QED
    BY <1>5, <2>2 DEF Message
<1>7. \A i \in 1 .. Len(inn') : inn'[i].tag # "save"
  BY <1>1, KingKnown
<1>8. LineInv'
  <2>1. Line(ova, log, Tasks, plan)
    BY DEF PInv, LineInv
  <2>2. Tasks' = Tasks /\ ova' = ova /\ plan' = plan
    BY <1>1 DEF Tasks, kingVars
  <2>3. PICK st \in Seq(Ids) : st = state'
    BY <1>5
  <2>4. Line(ova, st, Tasks, plan)
    BY <1>3, <1>5, <2>1, <2>3, LineBegins
  <2> QED
    BY <1>1, <2>1, <2>2, <2>3, <2>4 DEF LineInv
<1>9. HeldInv'
  <2>1. EffectsDurable'
    BY <1>2 DEF IInv
  <2>2. \A i \in 1 .. Len(out') : out'[i].tag = "done" => out'[i].eve \in 1 .. Len(log)
    BY <1>1, <2>1 DEF EffectsDurable
  <2>3. \A i \in 1 .. Len(out') : out'[i].tag = "done" => out'[i].eve <= dun'
    BY <1>1, <1>3, <2>2
  <2>4. ~(Len(state') > dun')
    BY <1>1, <1>3, <1>5
  <2> QED
    BY <2>3, <2>4 DEF HeldInv
<1>10. BacklogInv'
  <2>1. Len(log) \in Nat /\ WorkBatch \in Nat /\ inn' = inn
    BY <1>1, <1>3, WorkBatchAssumption
  <2>2. \A i \in 1 .. Len(inn) : inn[i].tag = "poke" => i <= WorkBatch
    <3>1. \A i \in 1 .. Len(inn) : inn[i].tag = "poke" => Len(state) + i <= dun + WorkBatch
      BY <1>1 DEF PInv, BacklogInv
    <3>2. Len(state) = 0
      BY <1>4
    <3> QED
      BY <1>4, <2>1, <3>1, <3>2
  <2>3. Len(state') <= dun' + WorkBatch
    BY <1>1, <1>5, <2>1
  <2>4. \A i \in 1 .. Len(inn') : inn'[i].tag = "poke" => Len(state') + i <= dun' + WorkBatch
    BY <1>1, <1>5, <2>1, <2>2
  <2> QED
    BY <2>3, <2>4 DEF BacklogInv
<1>11. ASSUME psat \in Up
       PROVE  Agree(Answers, Tasks, writs, eve, psat)'
  <2>1. Agree(Answers, Tasks, writs, eve, psat)
    BY <1>11 DEF PInv, KingInv
  <2>2. Answers = <<>>
    BY <1>1, <2>1 DEF Agree, Ripe
  <2>3. out = <<>>
    BY <1>3, <1>4, <2>2 DEF Answers
  <2>4. Answers' = Append(<<>>, g)
    BY <1>1, <1>4, <1>6, <2>3 DEF Answers
  <2>5. Tasks' = Tasks /\ writs' = writs /\ eve' = eve /\ psat' = psat
    BY <1>1 DEF Tasks, kingVars
  <2>6. Tasks \in Seq(Task) /\ writs \in Seq(Writs) /\ eve \in Nat
    BY KingKnown
  <2>7. PICK all : all = Append(<<>>, g)
    OBVIOUS
  <2> QED
    BY <1>1, <1>2, <1>3, <1>5, <1>6, <2>1, <2>4, <2>5, <2>6, <2>7, AgreeRipens
<1>12. crashes' \in Nat
  BY KingKnown
<1> QED
  BY <1>2, <1>7, <1>8, <1>9, <1>10, <1>11, <1>12, SerfKeeps

\* Rows are the same if what they are of is.
LEMMA SameRow ==
    ASSUME NEW p \in Seq(Gift), NEW q \in Seq(Gift), Len(p) = Len(q),
           \A i \in 1 .. Len(p) : p[i] = q[i]
    PROVE  p = q
  OBVIOUS

\* Part of a row that begins with a is part of the whole.
LEMMA PartOfPart ==
    ASSUME NEW a \in Seq(Gift), NEW b \in Seq(Gift), NEW n \in 0 .. Len(b),
           NEW k \in 0 .. Len(a \o SubSeq(b, 1, n))
    PROVE  /\ k \in 0 .. Len(a \o b)
           /\ SubSeq(a \o SubSeq(b, 1, n), 1, k) = SubSeq(a \o b, 1, k)
<1>1. PICK c \in Seq(Gift) : /\ c = SubSeq(b, 1, n) /\ Len(c) = n
                             /\ \A i \in 1 .. n : c[i] = b[i]
  <2>1. /\ SubSeq(b, 1, n) \in Seq(Gift) /\ Len(SubSeq(b, 1, n)) = n
        /\ \A i \in 1 .. n : SubSeq(b, 1, n)[i] = b[i]
    BY RowPart
  <2> QED
    BY <2>1
<1>2. PICK x \in Seq(Gift) : /\ x = a \o b /\ Len(x) = Len(a) + Len(b)
                             /\ \A i \in 1 .. Len(a) : x[i] = a[i]
                             /\ \A i \in Len(a) + 1 .. Len(a) + Len(b) : x[i] = b[i - Len(a)]
  <2>1. /\ a \o b \in Seq(Gift) /\ Len(a \o b) = Len(a) + Len(b)
        /\ \A i \in 1 .. Len(a) : (a \o b)[i] = a[i]
        /\ \A i \in Len(a) + 1 .. Len(a) + Len(b) : (a \o b)[i] = b[i - Len(a)]
    BY RowConcat
  <2> QED
    BY <2>1
<1>3. PICK y \in Seq(Gift) : /\ y = a \o c /\ Len(y) = Len(a) + Len(c)
                             /\ \A i \in 1 .. Len(a) : y[i] = a[i]
                             /\ \A i \in Len(a) + 1 .. Len(a) + Len(c) : y[i] = c[i - Len(a)]
  <2>1. /\ a \o c \in Seq(Gift) /\ Len(a \o c) = Len(a) + Len(c)
        /\ \A i \in 1 .. Len(a) : (a \o c)[i] = a[i]
        /\ \A i \in Len(a) + 1 .. Len(a) + Len(c) : (a \o c)[i] = c[i - Len(a)]
    BY RowConcat
  <2> QED
    BY <2>1
<1>4. Len(a) \in Nat /\ Len(b) \in Nat /\ n \in Nat /\ n <= Len(b)
  OBVIOUS
<1>5. k \in 0 .. Len(y) /\ Len(y) <= Len(x)
  BY <1>1, <1>2, <1>3, <1>4
<1>6. k \in 0 .. Len(x) /\ Len(x) \in Nat /\ Len(y) \in Nat
  BY <1>5
<1>7. \A i \in 1 .. Len(y) : y[i] = x[i]
  <2>1. ASSUME NEW i \in 1 .. Len(y)
        PROVE  y[i] = x[i]
    <3>1. CASE i <= Len(a)
      BY <1>2, <1>3, <1>4, <3>1
    <3>2. CASE i > Len(a)
      <4>1. /\ i \in Len(a) + 1 .. Len(a) + Len(c) /\ i \in Len(a) + 1 .. Len(a) + Len(b)
            /\ i - Len(a) \in 1 .. n
        BY <1>1, <1>3, <1>4, <3>2
      <4> QED
        BY <1>1, <1>2, <1>3, <4>1
    <3> QED
      BY <1>4, <3>1, <3>2
  <2> QED
    BY <2>1
<1>8. PICK p \in Seq(Gift) : /\ p = SubSeq(y, 1, k) /\ Len(p) = k
                             /\ \A i \in 1 .. k : p[i] = y[i]
  <2>1. /\ SubSeq(y, 1, k) \in Seq(Gift) /\ Len(SubSeq(y, 1, k)) = k
        /\ \A i \in 1 .. k : SubSeq(y, 1, k)[i] = y[i]
    BY <1>5, RowPart
  <2> QED
    BY <2>1
<1>9. PICK q \in Seq(Gift) : /\ q = SubSeq(x, 1, k) /\ Len(q) = k
                             /\ \A i \in 1 .. k : q[i] = x[i]
  <2>1. /\ SubSeq(x, 1, k) \in Seq(Gift) /\ Len(SubSeq(x, 1, k)) = k
        /\ \A i \in 1 .. k : SubSeq(x, 1, k)[i] = x[i]
    BY <1>6, RowPart
  <2> QED
    BY <2>1
<1>10. p = q
  <2>1. \A i \in 1 .. k : p[i] = q[i]
    BY <1>5, <1>6, <1>7, <1>8, <1>9
  <2>2. Len(p) = Len(q) /\ \A i \in 1 .. Len(p) : p[i] = q[i]
    BY <1>8, <1>9, <2>1
  <2> QED
    BY <2>2, SameRow
<1> QED
  BY <1>1, <1>2, <1>3, <1>6, <1>8, <1>9, <1>10

\* What libuv had not yet written is lost with what was held back.
LEMMA LosePart ==
    ASSUME out \in Seq(Gift), gif \in Seq(Gift), LoseOutput(out)
    PROVE  \E m \in 0 .. Len(out) : m \in 0 .. Len(Answers) /\ out' = SubSeq(Answers, 1, m)
<1>1. PICK m \in 0 .. Len(out) : out' = SubSeq(out, 1, m)
  BY DEF LoseOutput
<1>2. PICK b \in Seq(Gift) : b = gif
  OBVIOUS
<1>3. PICK z : z = 0
  OBVIOUS
<1>4. out \o SubSeq(b, 1, z) = out
  <2>1. SubSeq(b, 1, 0) = <<>>
    OBVIOUS
  <2>2. out \o <<>> = out
    OBVIOUS
  <2> QED
    BY <1>3, <2>1, <2>2
<1>5. z \in 0 .. Len(b)
  BY <1>3
<1>6. m \in 0 .. Len(out \o SubSeq(b, 1, z))
  BY <1>4
<1>7. /\ m \in 0 .. Len(out \o b)
      /\ SubSeq(out \o SubSeq(b, 1, z), 1, m) = SubSeq(out \o b, 1, m)
  BY <1>5, <1>6, PartOfPart
<1> QED
  BY <1>1, <1>2, <1>4, <1>7 DEF Answers

\* The serf ends.
LEMMA EndsKeeps ==
    ASSUME PInv, IInv', UNCHANGED kingVars, crashes' \in Nat, sat # "down",
           NEW s, End(log, s), NEW m \in 0 .. Len(Answers), out' = SubSeq(Answers, 1, m),
           psat \in Up /\ crashes' = 0 =>
             s = log \/ \E j \in m + 1 .. Len(Answers) : Answers[j].tag = "done"
    PROVE  PInv'
<1>1. /\ sat' = "down" /\ log' = log /\ snap' = s /\ state' = <<>> /\ dun' = 0
      /\ gif' = <<>> /\ inn' = <<>>
  BY DEF End
<1>2. /\ psat' = psat /\ plan' = plan /\ writs' = writs /\ eve' = eve /\ ova' = ova
  BY DEF kingVars
<1>3. /\ Tasks \in Seq(Task) /\ Answers \in Seq(Gift) /\ writs \in Seq(Writs)
      /\ eve \in Nat /\ log \in Seq(Ids)
  BY KingKnown
<1>4. Tasks' = <<>>
  BY <1>1 DEF Tasks
<1>5. Answers' = SubSeq(Answers, 1, m)
  <2>1. PICK p \in Seq(Gift) : p = SubSeq(Answers, 1, m)
    <3>1. SubSeq(Answers, 1, m) \in Seq(Gift)
      BY <1>3, RowPart
    <3> QED
      BY <3>1
  <2>2. p \o <<>> = p
    OBVIOUS
  <2> QED
    BY <1>1, <2>1, <2>2 DEF Answers
<1>6. LineInv'
  <2>1. Line(ova, log, <<>>, plan)
    BY LineLess DEF PInv, LineInv
  <2>2. PICK z \in Seq(Ids) : z = <<>> /\ Len(z) = 0
    <3>1. <<>> \in Seq(Ids) /\ Len(<<>>) = 0
      OBVIOUS
    <3> QED
      BY <3>1
  <2>3. Begins(z, log)
    <3>1. Len(log) \in Nat
      BY <1>3
    <3> QED
      BY <2>2, <3>1 DEF Begins
  <2>4. Line(ova, z, <<>>, plan)
    BY <1>3, <2>1, <2>3, LineBegins
  <2> QED
    BY <1>1, <1>2, <1>4, <2>1, <2>2, <2>4 DEF LineInv
<1>7. HeldInv' /\ BacklogInv'
  BY <1>1 DEF HeldInv, BacklogInv, Running
<1>8. ASSUME psat \in Up
      PROVE  Agree(Answers, Tasks, writs, eve, psat)'
  <2>1. Agree(Answers, Tasks, writs, eve, psat) /\ IInv
    BY <1>8 DEF PInv, KingInv
  <2>2. PICK ans \in Seq(Gift) : ans = Answers
    BY <1>3
  <2>3. crashes' = 0 => snap' = log \/ \E j \in m + 1 .. Len(ans) : ans[j].tag = "done"
    BY <1>1, <1>8, <2>2
  <2>4. Agree(ans, Tasks, writs, eve, psat) /\ m \in 0 .. Len(ans)
        /\ Answers' = SubSeq(ans, 1, m)
    BY <1>5, <2>1, <2>2
  <2> QED
    BY <1>1, <1>2, <1>3, <1>4, <2>1, <2>3, <2>4, AgreeEnds
<1>9. \A i \in 1 .. Len(inn') : inn'[i].tag # "save"
  BY <1>1
<1> QED
  BY <1>6, <1>7, <1>8, <1>9, SerfKeeps

\* An awaited exit: the snapshot holds all there is.
LEMMA FlushExitKeeps ==
    ASSUME PInv, IInv', UNCHANGED kingVars, crashes' \in Nat, sat \in Running,
           NEW s, NEW d \in Nat, d <= Len(log), FlushExit(s, state, d, gif)
    PROVE  PInv'
<1>1. /\ d = Len(state) /\ End(log, state)
      /\ \E n \in 0 .. Len(gif) : LoseOutput(out \o SubSeq(gif, 1, n))
  BY DEF FlushExit
<1>2. /\ state \in Seq(Ids) /\ log \in Seq(Ids) /\ Begins(log, state)
      /\ out \in Seq(Gift) /\ gif \in Seq(Gift)
  BY Known DEF PInv
<1>3. state = log
  <2>1. Len(log) = Len(state) /\ \A i \in 1 .. Len(log) : log[i] = state[i]
    BY <1>1, <1>2 DEF Begins
  <2> QED
    BY <1>2, <2>1, SMTT(30)
<1>4. PICK n \in 0 .. Len(gif) : LoseOutput(out \o SubSeq(gif, 1, n))
  BY <1>1
<1>5. PICK k \in 0 .. Len(out \o SubSeq(gif, 1, n)) :
        out' = SubSeq(out \o SubSeq(gif, 1, n), 1, k)
  BY <1>4 DEF LoseOutput
<1>6. k \in 0 .. Len(Answers) /\ out' = SubSeq(Answers, 1, k)
  BY <1>2, <1>5, PartOfPart DEF Answers
<1>7. sat # "down"
  BY DEF Running
<1> QED
  BY <1>1, <1>3, <1>6, <1>7, EndsKeeps

\* A step of a serf that goes on and answers no writ.
LEMMA QuietKeeps ==
    ASSUME PInv, IInv', HeldInv', UNCHANGED <<kingVars, crashes>>,
           sat \in Running, sat' \in Running,
           state' = state, Begins(log, log'), dun <= dun', dun' <= Len(log'),
           NEW g \in Gift, g.tag = "sync",
           Answers' = Answers \/ Answers' = Append(Answers, g),
           inn' = inn \/ (inn # <<>> /\ Head(inn).tag = "exit" /\ inn' = Tail(inn))
    PROVE  PInv'
<1>1. /\ psat' = psat /\ plan' = plan /\ writs' = writs /\ eve' = eve /\ ova' = ova
      /\ crashes' \in Nat
  BY KingKnown DEF kingVars
<1>2. /\ inn \in Seq(Task) /\ Tasks \in Seq(Task) /\ Answers \in Seq(Gift)
      /\ writs \in Seq(Writs) /\ eve \in Nat /\ state \in Seq(Ids)
      /\ \A i \in 1 .. Len(inn) : inn[i].tag # "save"
  BY KingKnown
<1>3. Tasks = inn /\ Tasks' = inn' /\ sat # "down"
  BY DEF Tasks, Running
<1>4. /\ Len(inn) \in Nat /\ Len(inn') \in Nat
      /\ \A i \in 1 .. Len(inn') :
           \E j \in 1 .. Len(inn) : i <= j /\ inn'[i] = inn[j]
  <2>1. CASE inn' = inn
    <3>1. \A i \in 1 .. Len(inn) : i <= i
      BY <1>2, SMTT(30)
    <3> QED
      BY <1>2, <2>1, <3>1
  <2>2. CASE inn # <<>> /\ inn' = Tail(inn)
    <3>1. /\ Tail(inn) \in Seq(Task) /\ Len(inn) \in Nat /\ Len(Tail(inn)) = Len(inn) - 1
          /\ \A i \in 1 .. Len(inn) - 1 : Tail(inn)[i] = inn[i + 1]
      BY <1>2, <2>2, RowTail
    <3>2. \A i \in 1 .. Len(inn) - 1 : i + 1 \in 1 .. Len(inn) /\ i <= i + 1
      BY <3>1
    <3>3. Len(Tail(inn)) \in Nat
      BY <3>1
    <3> QED
      BY <2>2, <3>1, <3>2, <3>3
  <2> QED
    BY <2>1, <2>2
<1>5. \A i \in 1 .. Len(inn') : inn'[i].tag # "save"
  BY <1>2, <1>4
<1>6. LineInv'
  <2>1. Line(ova, state, inn, plan)
    BY <1>3 DEF PInv, LineInv
  <2>2. Line(ova, state, inn', plan)
    <3>1. CASE inn' = inn
      BY <2>1, <3>1
    <3>2. CASE inn # <<>> /\ inn' = Tail(inn)
      BY <1>2, <2>1, <3>2, LineTake
    <3> QED
      BY <3>1, <3>2
  <2>3. log' \in Seq(Ids) /\ Begins(log, state)'
    BY DEF IInv, TypeOK, WriterOK
  <2>4. PICK l \in Seq(Ids) : l = log'
    BY <2>3
  <2>5. Begins(l, state)
    BY <2>3, <2>4 DEF Begins
  <2>6. Line(ova, l, inn', plan)
    BY <1>2, <2>2, <2>5, LineBegins
  <2> QED
    BY <1>1, <1>3, <2>2, <2>4, <2>6 DEF LineInv
<1>7. BacklogInv'
  <2>1. /\ Len(state) <= dun + WorkBatch
        /\ \A j \in 1 .. Len(inn) : inn[j].tag = "poke" => Len(state) + j <= dun + WorkBatch
    BY <1>3 DEF PInv, BacklogInv
  <2>2. /\ dun \in Nat /\ dun' \in Nat /\ Len(state) \in Nat /\ WorkBatch \in Nat
    BY <1>2, WorkBatchAssumption DEF PInv, IInv, TypeOK
  <2>3. Len(state) <= dun' + WorkBatch
    BY <2>1, <2>2
  <2>4. ASSUME NEW i \in 1 .. Len(inn'), inn'[i].tag = "poke"
        PROVE  Len(state) + i <= dun' + WorkBatch
    <3>1. PICK j \in 1 .. Len(inn) : i <= j /\ inn'[i] = inn[j]
      BY <1>4
    <3>2. Len(state) + j <= dun + WorkBatch
      BY <2>1, <2>4, <3>1
    <3> QED
      BY <1>4, <2>2, <3>1, <3>2
  <2> QED
    BY <2>3, <2>4 DEF BacklogInv
<1>8. ASSUME psat \in Up
      PROVE  Agree(Answers, Tasks, writs, eve, psat)'
  <2>1. /\ Agree(Answers, Tasks, writs, eve, psat) /\ Room(writs, psat) /\ IInv
    BY <1>8 DEF PInv, KingInv
  <2>2. PICK all : all = Answers'
    OBVIOUS
  <2>3. PICK rest : rest = inn'
    OBVIOUS
  <2>4. /\ all = Answers \/ all = Append(Answers, g)
        /\ rest = Tasks \/ (Tasks # <<>> /\ Head(Tasks).tag = "exit" /\ rest = Tail(Tasks))
        /\ Answers' = all /\ Tasks' = rest
    BY <1>3, <2>2, <2>3
  <2> QED
    BY <1>1, <1>2, <2>1, <2>4, AgreeQuiet
<1> QED
  BY <1>1, <1>5, <1>6, <1>7, <1>8, SerfKeeps

\* A task is taken and answered.
LEMMA TakeKeeps ==
    ASSUME PInv, IInv', HeldInv', UNCHANGED <<kingVars, crashes>>,
           sat = "work", sat' = "work", log' = log, dun' = dun,
           inn # <<>>, inn' = Tail(inn),
           NEW g \in Gift, g.tag \in ToWrits, g.id = Head(inn).id,
           Head(inn).tag = IF g.tag \in {"done", "bail"} THEN "poke" ELSE g.tag,
           g.tag = "done" => g.eve = Len(state) + 1,
           state' = IF g.tag = "done" THEN Append(state, g.id) ELSE state,
           Answers' = Append(Answers, g)
    PROVE  PInv'
<1>1. /\ psat' = psat /\ plan' = plan /\ writs' = writs /\ eve' = eve /\ ova' = ova
      /\ crashes' \in Nat
  BY KingKnown DEF kingVars
<1>2. /\ inn \in Seq(Task) /\ Tasks \in Seq(Task) /\ Answers \in Seq(Gift)
      /\ writs \in Seq(Writs) /\ eve \in Nat /\ state \in Seq(Ids) /\ log \in Seq(Ids)
      /\ TasksOK /\ \A i \in 1 .. Len(inn) : inn[i].tag # "save"
  BY KingKnown
<1>3. Tasks = inn /\ Tasks' = inn'
  BY DEF Tasks
<1>4. /\ Tail(inn) \in Seq(Task) /\ Head(inn) = inn[1]
      /\ Len(inn) \in Nat \ {0} /\ Len(Tail(inn)) = Len(inn) - 1
      /\ \A i \in 1 .. Len(inn) - 1 : Tail(inn)[i] = inn[i + 1]
  BY <1>2, RowTail
<1>5. \A i \in 1 .. Len(inn') : i + 1 \in 1 .. Len(inn) /\ inn'[i] = inn[i + 1]
  BY <1>4
<1>6. \A i \in 1 .. Len(inn') : inn'[i].tag # "save"
  BY <1>2, <1>5
<1>7. Head(inn).tag = "poke" => Head(inn).id \in Ids
  BY <1>2, <1>4 DEF TasksOK
<1>8. g.tag = "done" => Head(inn).tag = "poke"
  OBVIOUS
<1>9. LineInv'
  <2>1. Line(ova, log, inn, plan) /\ Line(ova, state, inn, plan)
    BY <1>3 DEF PInv, LineInv
  <2>2. Line(ova, log, Tail(inn), plan)
    BY <1>2, <2>1, LineTake
  <2>3. Line(ova, state', Tail(inn), plan)
    <3>1. /\ Line(ova, state, Tail(inn), plan)
          /\ Head(inn).tag = "poke" /\ Head(inn).id \in Ids =>
               Line(ova, Append(state, Head(inn).id), Tail(inn), plan)
      BY <1>2, <2>1, LineTake
    <3>2. CASE g.tag = "done"
      BY <1>7, <1>8, <3>1, <3>2
    <3>3. CASE g.tag # "done"
      BY <3>1, <3>3
    <3> QED
      BY <3>2, <3>3
  <2> QED
    BY <1>1, <1>3, <2>2, <2>3 DEF LineInv
<1>10. BacklogInv'
  <2>1. /\ Len(state) <= dun + WorkBatch
        /\ \A j \in 1 .. Len(inn) : inn[j].tag = "poke" => Len(state) + j <= dun + WorkBatch
    BY DEF PInv, BacklogInv
  <2>2. dun \in Nat /\ Len(state) \in Nat /\ WorkBatch \in Nat
    BY <1>2, WorkBatchAssumption DEF PInv, IInv, TypeOK
  <2>3. Len(state') <= Len(state) + 1 /\ Len(state') \in Nat
        /\ (g.tag # "done" => Len(state') = Len(state))
    <3>1. CASE g.tag = "done"
      <4>1. state' = Append(state, g.id) /\ g.id \in Ids
        BY <1>7, <3>1
      <4>2. Len(state') = Len(state) + 1
        BY <1>2, <4>1
      <4> QED
        BY <2>2, <3>1, <4>2
    <3>2. CASE g.tag # "done"
      BY <2>2, <3>2
    <3> QED
      BY <3>1, <3>2
  <2>4. Len(state') <= dun' + WorkBatch
    <3>1. CASE g.tag = "done"
      <4>1. 1 \in 1 .. Len(inn) /\ inn[1].tag = "poke"
        BY <1>4, <1>8, <3>1
      <4>2. Len(state) + 1 <= dun + WorkBatch
        BY <2>1, <4>1
      <4> QED
        BY <2>2, <2>3, <4>2
    <3>2. CASE g.tag # "done"
      BY <2>1, <2>3, <3>2
    <3> QED
      BY <3>1, <3>2
  <2>5. ASSUME NEW i \in 1 .. Len(inn'), inn'[i].tag = "poke"
        PROVE  Len(state') + i <= dun' + WorkBatch
    <3>1. PICK j \in 1 .. Len(inn) : j = i + 1 /\ inn'[i] = inn[j]
      BY <1>5
    <3>2. Len(state) + j <= dun + WorkBatch
      BY <2>1, <2>5, <3>1
    <3>3. i \in Nat /\ j \in Nat
      BY <3>1
    <3> QED
      BY <2>2, <2>3, <3>1, <3>2, <3>3
  <2> QED
    BY <2>4, <2>5 DEF BacklogInv
<1>11. ASSUME psat \in Up
       PROVE  Agree(Answers, Tasks, writs, eve, psat)'
  <2>1. /\ Agree(Answers, Tasks, writs, eve, psat) /\ Sent(ova, writs, plan)
        /\ Line(ova, log, Tasks, plan) /\ Line(ova, state, Tasks, plan)
    BY <1>11 DEF PInv, KingInv, LineInv
  <2>2. PICK ts \in Seq(Task) : ts = Tasks
    BY <1>2
  <2>3. PICK ans \in Seq(Gift) : ans = Answers
    BY <1>2
  <2>4. /\ Agree(ans, ts, writs, eve, psat)
        /\ Line(ova, log, ts, plan) /\ Line(ova, state, ts, plan)
        /\ ts # <<>> /\ (Head(ts).tag = "poke" => Head(ts).id \in Ids)
        /\ g.id = Head(ts).id
        /\ Head(ts).tag = IF g.tag \in {"done", "bail"} THEN "poke" ELSE g.tag
        /\ Answers' = Append(ans, g) /\ Tasks' = Tail(ts)
    BY <1>3, <1>7, <2>1, <2>2, <2>3
  <2> QED
    BY <1>1, <1>2, <2>1, <2>4, AgreeAnswer
<1> QED
  BY <1>1, <1>6, <1>9, <1>10, <1>11, SerfKeeps

\* kick_poke_done, an event.
LEMMA EventKeeps ==
    PInv /\ kick_poke_done /\ UNCHANGED <<kingVars, crashes>> => PInv'
<1> SUFFICES ASSUME PInv, kick_poke_done, UNCHANGED <<kingVars, crashes>>
             PROVE  PInv'
  OBVIOUS
<1>1. PICK id : id = Head(inn).id
  OBVIOUS
<1>2. PICK st : st = Append(state, id)
  OBVIOUS
<1>3. PICK e : e = Len(st)
  OBVIOUS
<1>4. PICK g : g = Message("done", id, e)
  OBVIOUS
<1>5. /\ sat = "work" /\ inn # <<>> /\ Head(inn).tag = "poke"
      /\ state' = st /\ Flush("work", st, dun, Append(gif, g))
      /\ inn' = Tail(inn) /\ log' = log /\ dun' = dun
  BY <1>1, <1>2, <1>3, <1>4 DEF kick_poke_done, Kick
<1>6. /\ inn \in Seq(Task) /\ TasksOK /\ state \in Seq(Ids) /\ log \in Seq(Ids)
      /\ out \in Seq(Gift) /\ gif \in Seq(Gift)
  BY KingKnown
<1>7. dun \in Nat /\ Begins(log, state) /\ dun <= Len(log) /\ sat \in Running
  BY <1>5, Known DEF PInv, Running
<1>8. id \in Ids
  <2>1. 1 \in 1 .. Len(inn) /\ Head(inn) = inn[1]
    BY <1>5, <1>6
  <2> QED
    BY <1>1, <1>5, <1>6, <2>1 DEF TasksOK
<1>9. st \in Seq(Ids) /\ e = Len(state) + 1 /\ e \in Nat /\ Len(state) \in Nat
  BY <1>2, <1>3, <1>6, <1>8
<1>10. g \in Gift /\ g.tag = "done" /\ g.id = id /\ g.eve = e
  <2>1. "done" \in GiftTags /\ id \in Ids \cup {NoId}
    BY <1>8 DEF GiftTags
  <2>2. Message("done", id, e) \in Gift
    BY <1>9, <2>1, MessageTyped
  <2> QED
    BY <1>4, <2>2 DEF Message
<1>11. PICK gs \in Seq(Gift) : gs = Append(gif, g)
  <2>1. Append(gif, g) \in Seq(Gift)
    BY <1>6, <1>10, RowAppend
  <2> QED
    BY <2>1
<1>12. Send(gs, dun) /\ sat' = "work"
  BY <1>5, <1>11 DEF Flush
<1>13. Answers' = Append(Answers, g)
  <2>1. out' \o gif' = out \o gs
    BY <1>6, <1>7, <1>12, SendAnswers
  <2>2. out \o gs = Append(Answers, g)
    BY <1>6, <1>10, <1>11, AppendAnswers
  <2> QED
    BY <2>1, <2>2 DEF Answers
<1>14. IInv'
  BY PokeDoneInv DEF PInv
<1>15. HeldInv'
  <2>1. /\ Len(gif) + 1 \in 1 .. Len(gs) /\ gs[Len(gif) + 1] = g
    BY <1>6, <1>10, <1>11
  <2>2. \E k \in 1 .. Len(gs) : gs[k].tag = "done" /\ gs[k].eve = Len(st)
    BY <1>3, <1>10, <2>1
  <2>3. dun <= Len(st)
    <3>1. Len(log) <= Len(state) /\ Len(log) \in Nat
      BY <1>6, <1>7 DEF Begins
    <3> QED
      BY <1>3, <1>7, <1>9, <3>1
  <2>4. dun <= dun /\ HeldInv /\ IInv /\ Flush("work", st, dun, gs)
    BY <1>5, <1>7, <1>11 DEF PInv
  <2> QED
    BY <1>5, <1>7, <1>9, <2>2, <2>3, <2>4, HeldFlush
<1>16. "done" \in ToWrits
  BY DEF ToWrits, GiftTags
<1>17. /\ g.tag \in ToWrits /\ g.id = Head(inn).id
       /\ Head(inn).tag = IF g.tag \in {"done", "bail"} THEN "poke" ELSE g.tag
       /\ g.tag = "done" => g.eve = Len(state) + 1
       /\ state' = IF g.tag = "done" THEN Append(state, g.id) ELSE state
  BY <1>1, <1>2, <1>5, <1>9, <1>10, <1>16
<1> QED
  BY <1>5, <1>10, <1>12, <1>13, <1>14, <1>15, <1>17, TakeKeeps

\* Any other task that is answered.
LEMMA OtherKeeps ==
    ASSUME PInv, NEW tag, NEW answer \in {"bail", "peek", "live"}, kick_rest(tag, answer),
           tag = IF answer = "bail" THEN "poke" ELSE answer,
           UNCHANGED <<kingVars, crashes>>
    PROVE  PInv'
<1>1. PICK g : g = Message(answer, Head(inn).id, 0)
  OBVIOUS
<1>2. /\ sat = "work" /\ inn # <<>> /\ Head(inn).tag = tag
      /\ Flush("work", state, dun, Append(gif, g)) /\ state' = state
      /\ inn' = Tail(inn) /\ log' = log /\ dun' = dun
  BY <1>1 DEF kick_rest, Kick
<1>3. /\ inn \in Seq(Task) /\ state \in Seq(Ids) /\ log \in Seq(Ids)
      /\ out \in Seq(Gift) /\ gif \in Seq(Gift)
  BY KingKnown
<1>4. dun \in Nat /\ Begins(log, state) /\ dun <= Len(log) /\ sat \in Running
  BY <1>2, Known DEF PInv, Running
<1>5. answer \in GiftTags \ {"done"} /\ answer \in GiftTags /\ answer \in ToWrits
  BY DEF GiftTags, ToWrits
<1>6. g \in Gift /\ g.tag = answer /\ g.id = Head(inn).id
  <2>1. Head(inn) \in Task
    BY <1>2, <1>3
  <2>2. Head(inn).id \in Ids \cup {NoId} /\ 0 \in Nat
    BY <2>1 DEF Task
  <2>3. Message(answer, Head(inn).id, 0) \in Gift
    BY <1>5, <2>2, MessageTyped
  <2> QED
    BY <1>1, <2>3 DEF Message
<1>7. PICK gs \in Seq(Gift) : gs = Append(gif, g)
  <2>1. Append(gif, g) \in Seq(Gift)
    BY <1>3, <1>6, RowAppend
  <2> QED
    BY <2>1
<1>8. Send(gs, dun) /\ sat' = "work"
  BY <1>2, <1>7 DEF Flush
<1>9. Answers' = Append(Answers, g)
  <2>1. out' \o gif' = out \o gs
    BY <1>3, <1>4, <1>8, SendAnswers
  <2>2. out \o gs = Append(Answers, g)
    BY <1>3, <1>6, <1>7, AppendAnswers
  <2> QED
    BY <2>1, <2>2 DEF Answers
<1>10. IInv'
  BY <1>5, RestInv DEF PInv
<1>11. HeldInv'
  <2>1. ASSUME Len(state) > dun
        PROVE  \E k \in 1 .. Len(gs) : gs[k].tag = "done" /\ gs[k].eve = Len(state)
    <3>1. PICK k \in 1 .. Len(gif) : gif[k].tag = "done" /\ gif[k].eve = Len(state)
      BY <1>4, <2>1 DEF PInv, HeldInv
    <3>2. k \in 1 .. Len(gs) /\ gs[k] = gif[k]
      BY <1>3, <1>6, <1>7
    <3> QED
      BY <3>1, <3>2
  <2>2. dun <= Len(state)
    <3>1. Len(log) <= Len(state) /\ Len(log) \in Nat /\ Len(state) \in Nat
      BY <1>3, <1>4 DEF Begins
    <3> QED
      BY <1>4, <3>1
  <2>3. dun <= dun /\ HeldInv /\ IInv /\ Flush("work", state, dun, gs)
    BY <1>2, <1>4, <1>7 DEF PInv
  <2> QED
    BY <1>2, <1>3, <1>4, <2>1, <2>2, <2>3, HeldFlush
<1>12. /\ g.tag \in ToWrits /\ g.tag # "done"
       /\ Head(inn).tag = IF g.tag \in {"done", "bail"} THEN "poke" ELSE g.tag
       /\ state' = IF g.tag = "done" THEN Append(state, g.id) ELSE state
  BY <1>2, <1>5, <1>6
<1> QED
  BY <1>2, <1>6, <1>8, <1>9, <1>10, <1>11, <1>12, TakeKeeps

\* _mars_flush() behind a handler that answers no task.
LEMMA FlushKeeps ==
    ASSUME PInv, IInv', UNCHANGED <<kingVars, crashes>>, sat \in Running,
           NEW s \in Running, NEW d \in Nat, dun <= d, d <= Len(log),
           Flush(s, state, d, gif), state' = state, log' = log, dun' = d,
           inn' = inn \/ (inn # <<>> /\ Head(inn).tag = "exit" /\ inn' = Tail(inn))
    PROVE  PInv'
<1>1. /\ state \in Seq(Ids) /\ log \in Seq(Ids) /\ out \in Seq(Gift) /\ gif \in Seq(Gift)
  BY KingKnown
<1>2. dun \in Nat /\ Begins(log, state)
  BY Known DEF PInv
<1>3. d <= Len(state) /\ Len(log) \in Nat /\ Len(state) \in Nat
  <2>1. Len(log) <= Len(state) /\ Len(log) \in Nat /\ Len(state) \in Nat
    BY <1>1, <1>2 DEF Begins
  <2> QED
    BY <2>1
<1>4. sat' \in Running
  BY DEF Flush, Running
<1>5. PICK g \in Gift : g = Message("sync", NoId, Len(state)) /\ g.tag = "sync"
  <2>1. "sync" \in GiftTags /\ NoId \in Ids \cup {NoId}
    BY DEF GiftTags
  <2>2. Message("sync", NoId, Len(state)) \in Gift
    BY <1>3, <2>1, MessageTyped
  <2> QED
    BY <2>2 DEF Message
<1>6. Answers' = Answers \/ Answers' = Append(Answers, g)
  <2>1. CASE s = "save" /\ d = Len(state)
    <3>1. PICK gs \in Seq(Gift) : gs = Append(gif, g)
      <4>1. Append(gif, g) \in Seq(Gift)
        BY <1>1, <1>5, RowAppend
      <4> QED
        BY <4>1
    <3>2. Send(gs, d)
      BY <1>5, <2>1, <3>1 DEF Flush
    <3>3. out' \o gif' = out \o gs
      BY <1>1, <3>2, SendAnswers
    <3>4. out \o gs = Append(Answers, g)
      BY <1>1, <1>5, <3>1, AppendAnswers
    <3> QED
      BY <3>3, <3>4 DEF Answers
  <2>2. CASE ~(s = "save" /\ d = Len(state))
    <3>1. Send(gif, d)
      BY <2>2 DEF Flush
    <3>2. out' \o gif' = out \o gif
      BY <1>1, <3>1, SendAnswers
    <3> QED
      BY <3>2 DEF Answers
  <2> QED
    BY <2>1, <2>2
<1>7. HeldInv'
  <2>1. ASSUME Len(state) > d
        PROVE  \E k \in 1 .. Len(gif) : gif[k].tag = "done" /\ gif[k].eve = Len(state)
    <3>1. Len(state) > dun
      BY <1>2, <1>3, <2>1
    <3> QED
      BY <3>1 DEF PInv, HeldInv
  <2> QED
    BY <1>1, <1>3, <2>1, HeldFlush DEF PInv
<1>8. Begins(log, log')
  BY <1>3 DEF Begins
<1>9. dun <= dun' /\ dun' <= Len(log')
  OBVIOUS
<1> QED
  BY <1>4, <1>5, <1>6, <1>7, <1>8, <1>9, QuietKeeps

\* kick_exit().
LEMMA TakeExitKeeps ==
    PInv /\ kick_exit /\ UNCHANGED <<kingVars, crashes>> => PInv'
<1> SUFFICES ASSUME PInv, kick_exit, UNCHANGED <<kingVars, crashes>>
             PROVE  PInv'
  OBVIOUS
<1>1. IInv' /\ crashes' \in Nat /\ UNCHANGED kingVars
  BY ExitInv, KingKnown DEF PInv
<1>2. sat = "work" /\ sat \in Running /\ inn # <<>> /\ Head(inn).tag = "exit"
  BY DEF kick_exit, Kick, Running
<1>3. dun \in Nat /\ dun <= Len(log)
  BY <1>2, Known DEF PInv
<1>4. CASE /\ Flush("exit", state, dun, gif) /\ inn' = Tail(inn)
           /\ UNCHANGED <<state, log, dun, len, ted>>
  <2>1. "exit" \in Running /\ dun <= dun
    BY <1>3 DEF Running
  <2> QED
    BY <1>1, <1>2, <1>3, <1>4, <2>1, FlushKeeps
<1>5. CASE FlushExit("exit", state, dun, gif)
  BY <1>1, <1>2, <1>3, <1>5, FlushExitKeeps
<1> QED
  BY <1>4, <1>5 DEF kick_exit

\* The snapshot timer.
LEMMA TimerKeeps ==
    PInv /\ _mars_timer_cb /\ UNCHANGED <<kingVars, crashes>> => PInv'
<1> SUFFICES ASSUME PInv, _mars_timer_cb, UNCHANGED <<kingVars, crashes>>
             PROVE  PInv'
  OBVIOUS
<1>1. IInv' /\ crashes' \in Nat /\ UNCHANGED kingVars
  BY TimerInv, KingKnown DEF PInv
<1>2. sat \in Running
  BY DEF _mars_timer_cb, Running
<1>3. dun \in Nat /\ dun <= Len(log) /\ dun <= dun
  BY <1>2, Known DEF PInv
<1>4. PICK s \in Running : s = IF Len(state) > sav THEN "save" ELSE sat
  BY <1>2 DEF Running
<1>5. CASE Flush(s, state, dun, gif) /\ UNCHANGED <<state, log, dun, len, ted, inn>>
  BY <1>1, <1>2, <1>3, <1>5, FlushKeeps
<1>6. CASE FlushExit(s, state, dun, gif)
  BY <1>1, <1>2, <1>3, <1>6, FlushExitKeeps
<1> QED
  BY <1>4, <1>5, <1>6 DEF _mars_timer_cb

\* The writer thread.
LEMMA CommitKeeps ==
    PInv /\ _disk_commit_cb /\ UNCHANGED <<kingVars, crashes>> => PInv'
<1> SUFFICES ASSUME PInv, _disk_commit_cb, UNCHANGED <<kingVars, crashes>>
             PROVE  PInv'
  OBVIOUS
<1>1. IInv' /\ crashes' \in Nat /\ UNCHANGED kingVars
  BY CommitInv, KingKnown DEF PInv
<1>2. /\ ted = "busy" /\ sat' = sat /\ state' = state /\ dun' = dun /\ gif' = gif
      /\ inn' = inn /\ out' = out
      /\ log' = log \/ log' = log \o SubSeq(state, dun + 1, dun + len)
  BY DEF _disk_commit_cb
<1>3. sat \in Running
  <2>1. sat \notin {"down", "boot"} /\ sat \in Sats
    BY <1>2 DEF PInv, IInv, EmptyOK, TypeOK
  <2> QED
    BY <2>1 DEF Sats, Running
<1>4. /\ state \in Seq(Ids) /\ log \in Seq(Ids) /\ dun \in Nat /\ len \in Nat
      /\ dun <= Len(log)
  BY <1>3, Known DEF PInv
<1>5. Begins(log, log')
  <2>1. CASE log' = log
    BY <1>4, <2>1 DEF Begins
  <2>2. CASE log' = log \o SubSeq(state, dun + 1, dun + len)
    <3>1. dun + len <= Len(state)
      BY <1>2, <1>3 DEF PInv, IInv, WriterOK
    <3>2. PICK b \in Seq(Ids) : b = SubSeq(state, dun + 1, dun + len)
      BY <1>4, <3>1, BatchPart
    <3>3. /\ log \o b \in Seq(Ids) /\ Len(log \o b) = Len(log) + Len(b)
          /\ \A i \in 1 .. Len(log) : (log \o b)[i] = log[i]
      BY <1>4, RowConcat
    <3>4. Len(log) \in Nat /\ Len(b) \in Nat
      BY <1>4
    <3> QED
      BY <2>2, <3>2, <3>3, <3>4 DEF Begins
  <2> QED
    BY <1>2, <2>1, <2>2
<1>6. dun <= dun' /\ dun' <= Len(log')
  <2>1. Len(log) <= Len(log') /\ Len(log) \in Nat /\ log' \in Seq(Ids)
    BY <1>1, <1>4, <1>5 DEF Begins, IInv, TypeOK
  <2>2. Len(log') \in Nat
    BY <2>1
  <2> QED
    BY <1>2, <1>4, <2>1, <2>2
<1>7. HeldInv'
  BY <1>2 DEF PInv, HeldInv
<1>8. Answers' = Answers
  BY <1>2 DEF Answers
<1>9. PICK g \in Gift : g.tag = "sync"
  <2>1. "sync" \in GiftTags /\ NoId \in Ids \cup {NoId} /\ 0 \in Nat
    BY DEF GiftTags
  <2>2. Message("sync", NoId, 0) \in Gift
    BY <2>1, MessageTyped
  <2> QED
    BY <2>2 DEF Message
<1> QED
  BY <1>1, <1>2, <1>3, <1>5, <1>6, <1>7, <1>8, <1>9, QuietKeeps

\* The loop hears of it, or the write has failed and the serf ends.
LEMMA AfterKeeps ==
    PInv /\ _disk_commit_after_cb /\ UNCHANGED <<kingVars, crashes>> => PInv'
<1> SUFFICES ASSUME PInv, _disk_commit_after_cb, UNCHANGED <<kingVars, crashes>>
             PROVE  PInv'
  OBVIOUS
<1>1. IInv' /\ crashes' \in Nat /\ UNCHANGED kingVars
  BY AfterInv, KingKnown DEF PInv
<1>2. sat \in Running
  <2>1. sat \notin {"down", "boot"} /\ sat \in Sats
    BY DEF PInv, IInv, EmptyOK, TypeOK, _disk_commit_after_cb
  <2> QED
    BY <2>1 DEF Sats, Running
<1>3. /\ state \in Seq(Ids) /\ log \in Seq(Ids) /\ dun \in Nat /\ len \in Nat
      /\ out \in Seq(Gift) /\ gif \in Seq(Gift)
  BY <1>2, Known DEF PInv
<1>4. ASSUME ted = "yes"
      PROVE  dun + len = Len(log)
  BY <1>2, <1>4 DEF PInv, IInv, WriterOK
<1>5. PICK d \in Nat : d = dun + len
  BY <1>3
<1>6. dun <= d
  BY <1>3, <1>5
<1>7. CASE /\ ted = "yes" /\ dun' = d /\ Flush(sat, state, d, gif)
           /\ UNCHANGED <<state, log, inn>>
  <2>1. d <= Len(log)
    BY <1>4, <1>5, <1>7
  <2> QED
    BY <1>1, <1>2, <1>6, <1>7, <2>1, FlushKeeps
<1>8. CASE ted = "yes" /\ FlushExit(sat, state, d, gif)
  <2>1. d <= Len(log)
    BY <1>4, <1>5, <1>8
  <2> QED
    BY <1>1, <1>2, <1>8, <2>1, FlushExitKeeps
<1>9. CASE ted = "no" /\ End(log, snap) /\ LoseOutput(out)
  <2>1. PICK m \in 0 .. Len(out) : m \in 0 .. Len(Answers) /\ out' = SubSeq(Answers, 1, m)
    BY <1>3, <1>9, LosePart
  <2>2. Len(state) > dun
    <3>1. len > 0 /\ dun + len <= Len(state)
      BY <1>2, <1>9 DEF PInv, IInv, WriterOK
    <3> QED
      BY <1>3, <3>1
  <2>3. PICK k \in 1 .. Len(gif) : gif[k].tag = "done"
    BY <1>2, <2>2 DEF PInv, HeldInv
  <2>4. PICK j \in m + 1 .. Len(Answers) : Answers[j].tag = "done"
    <3>1. /\ Len(out \o gif) = Len(out) + Len(gif) /\ Len(out) \in Nat /\ Len(gif) \in Nat
          /\ \A i \in Len(out) + 1 .. Len(out) + Len(gif) : (out \o gif)[i] = gif[i - Len(out)]
      BY <1>3, RowConcat
    <3>2. PICK j : j = Len(out) + k
      OBVIOUS
    <3>3. j \in Len(out) + 1 .. Len(out) + Len(gif) /\ j - Len(out) = k
      BY <3>1, <3>2
    <3>4. (out \o gif)[j] = gif[k]
      BY <3>1, <3>3
    <3>5. j \in m + 1 .. Len(out \o gif)
      BY <3>1, <3>3
    <3> QED
      BY <2>3, <3>4, <3>5 DEF Answers
  <2>5. sat # "down"
    BY <1>2 DEF Running
  <2>6. psat \in Up /\ crashes' = 0 =>
          snap = log \/ \E i \in m + 1 .. Len(Answers) : Answers[i].tag = "done"
    BY <2>4
  <2> QED
    BY <1>1, <1>9, <2>1, <2>5, <2>6, EndsKeeps
<1> QED
  BY <1>5, <1>7, <1>8, <1>9 DEF _disk_commit_after_cb

\* Every step of the serf.
LEMMA SerfStepKeeps == PInv /\ SerfStep => PInv'
<1> SUFFICES ASSUME PInv, SerfStep PROVE PInv'
  OBVIOUS
<1>1. UNCHANGED <<kingVars, crashes>> /\ Serf
  BY DEF SerfStep
<1>2. CASE u3_mars_work
  BY <1>1, <1>2, BootKeeps
<1>3. CASE kick_poke_done
  BY <1>1, <1>3, EventKeeps
<1>4. CASE kick_poke_bail
  BY <1>1, <1>4, OtherKeeps DEF kick_poke_bail
<1>5. CASE kick_peek
  BY <1>1, <1>5, OtherKeeps DEF kick_peek
<1>6. CASE kick_live
  BY <1>1, <1>6, OtherKeeps DEF kick_live
<1>7. CASE kick_sync
  \* The pier asks for no snapshot.
  <2>1. inn # <<>> /\ Head(inn).tag = "save"
    BY <1>7 DEF kick_sync, Kick
  <2>2. inn \in Seq(Task) /\ \A i \in 1 .. Len(inn) : inn[i].tag # "save"
    BY KingKnown
  <2>3. 1 \in 1 .. Len(inn) /\ Head(inn) = inn[1]
    BY <2>1, <2>2
  <2> QED
    BY <2>1, <2>2, <2>3
<1>8. CASE kick_exit
  BY <1>1, <1>8, TakeExitKeeps
<1>9. CASE _mars_timer_cb
  BY <1>1, <1>9, TimerKeeps
<1>10. CASE _disk_commit_cb
  BY <1>1, <1>10, CommitKeeps
<1>11. CASE _disk_commit_after_cb
  BY <1>1, <1>11, AfterKeeps
<1> QED
  BY <1>1, <1>2, <1>3, <1>4, <1>5, <1>6, <1>7, <1>8, <1>9, <1>10, <1>11 DEF Serf

\* The serf is killed, or finds its king gone.
LEMMA DieKeeps ==
    ASSUME PInv, Die, UNCHANGED kingVars, crashes' \in Nat, psat \in Up => crashes' # 0
    PROVE  PInv'
<1>1. sat # "down" /\ End(log, snap) /\ LoseOutput(out)
  BY DEF Die
<1>2. IInv'
  BY <1>1, DeathInv DEF PInv
<1>3. out \in Seq(Gift) /\ gif \in Seq(Gift)
  BY KingKnown
<1>4. PICK m \in 0 .. Len(out) : m \in 0 .. Len(Answers) /\ out' = SubSeq(Answers, 1, m)
  BY <1>1, <1>3, LosePart
<1>5. psat \in Up /\ crashes' = 0 =>
        snap = log \/ \E i \in m + 1 .. Len(Answers) : Answers[i].tag = "done"
  OBVIOUS
<1> QED
  BY <1>1, <1>2, <1>4, <1>5, EndsKeeps

\* Before the first start.
LEMMA PipelineStart == PipelineInit => PInv
<1> SUFFICES ASSUME PipelineInit PROVE PInv
  OBVIOUS
<1>1. /\ sat = "down" /\ state = <<>> /\ log = <<>> /\ inn = <<>>
  BY DEF PipelineInit, Init
<1>2. /\ psat = "down" /\ plan = <<>> /\ peeks = <<>> /\ writs = <<>> /\ eve = 0
      /\ ova = <<>> /\ crashes = 0
  BY DEF PipelineInit, Pier!Init
<1>3. IInv
  BY StartInv DEF PipelineInit
<1>4. KingOK
  BY <1>1, <1>2 DEF KingOK
<1>5. LineInv
  BY <1>1, <1>2 DEF LineInv, Line, Tasks
<1>6. KingInv /\ HeldInv /\ BacklogInv
  BY <1>1, <1>2 DEF KingInv, HeldInv, BacklogInv, Up, Running
<1> QED
  BY <1>3, <1>4, <1>5, <1>6 DEF PInv

\* Nothing happens.
LEMMA SameKeeps ==
    ASSUME PInv, IInv', UNCHANGED <<marsVars, kingVars, crashes>>
    PROVE  PInv'
<1>1. /\ sat' = sat /\ state' = state /\ log' = log /\ snap' = snap /\ dun' = dun
      /\ gif' = gif /\ inn' = inn /\ out' = out
  BY DEF marsVars
<1>2. /\ psat' = psat /\ plan' = plan /\ writs' = writs /\ eve' = eve /\ ova' = ova
      /\ UNCHANGED kingVars
  BY DEF kingVars
<1>3. crashes' = crashes /\ crashes' \in Nat /\ \A i \in 1 .. Len(inn') : inn'[i].tag # "save"
  BY <1>1, KingKnown
<1>4. UNCHANGED <<serfVars, crashes>>
  BY <1>3 DEF marsVars, serfVars
<1>5. Answers' = Answers /\ Tasks' = Tasks
  BY <1>1 DEF Answers, Tasks
<1>6. LineInv'
  BY <1>1, <1>2, <1>5 DEF PInv, LineInv, Line, Before
<1>7. HeldInv' /\ BacklogInv'
  BY <1>1 DEF PInv, HeldInv, BacklogInv
<1>8. ASSUME psat \in Up
      PROVE  Agree(Answers, Tasks, writs, eve, psat)'
  <2>1. Agree(Answers, Tasks, writs, eve, psat)
    BY <1>8 DEF PInv, KingInv
  <2> QED
    BY <1>2, <1>4, <1>5, <2>1, AgreeStays
<1> QED
  BY <1>2, <1>3, <1>6, <1>7, <1>8, SerfKeeps

\* Every step of either process.
LEMMA PipelineStep == PInv /\ [PipelineNext]_allVars => PInv'
<1> SUFFICES ASSUME PInv, [PipelineNext]_allVars PROVE PInv'
  OBVIOUS
<1>1. CASE Start
  BY <1>1, StartKeeps
<1>2. CASE KingStep
  BY <1>2, KingStepKeeps
<1>3. CASE SerfStep
  BY <1>3, SerfStepKeeps
<1>4. CASE SerfAlone
  <2>1. psat = "down" /\ Die /\ UNCHANGED kingVars /\ crashes' = crashes
    BY <1>4 DEF SerfAlone
  <2>2. crashes' \in Nat /\ psat \notin Up
    BY <2>1, KingKnown DEF Up
  <2> QED
    BY <2>1, <2>2, DieKeeps
<1>5. CASE Kill
  <2>1. crashes' = crashes + 1
    BY <1>5 DEF Kill
  <2>2. crashes' \in Nat /\ crashes' # 0
    BY <2>1, KingKnown
  <2>3. CASE Die /\ UNCHANGED kingVars
    BY <2>2, <2>3, DieKeeps
  <2>4. CASE Pier!Killed /\ UNCHANGED serfVars
    BY <2>2, <2>4, KingEnds
  <2> QED
    BY <1>5, <2>3, <2>4 DEF Kill
<1>6. CASE UNCHANGED allVars
  <2>1. UNCHANGED <<marsVars, kingVars, crashes>>
    BY <1>6 DEF allVars
  <2>2. IInv'
    BY <2>1, StepInv DEF PInv
  <2> QED
    BY <2>1, <2>2, SameKeeps
<1> QED
  BY <1>1, <1>2, <1>3, <1>4, <1>5, <1>6 DEF PipelineNext
-----------------------------------------------------------------------------
(* What follows. *)

\* The invariant of the pipeline: the king's queues, the writs, what is in the
\* pipes, and the serf's events and log agree with each other.
THEOREM PipelineInductive == PipelineSpec => []PInv
<1> QED
  BY PipelineStart, PipelineStep, PTL DEF PipelineSpec

\* The serf of a real king: no effect leaves it before its event is in the log.
THEOREM PipelineDurable == PipelineSpec => []EffectsDurable
<1>1. PInv => EffectsDurable
  BY DEF PInv, IInv
<1> QED
  BY <1>1, PipelineInductive, PTL

\* u3m_save(): with a real king too, a snapshot holds no event the log lacks.
THEOREM PipelineSnapshots == PipelineSpec => []SnapshotBehindLog
<1>1. PInv => SnapshotBehindLog
  BY DEF PInv, IInv
<1> QED
  BY <1>1, PipelineInductive, PTL

\* _lord_writ_need(): whatever is killed, every answer on its way belongs to the
\* writ it will meet, and every task to one behind those.
THEOREM WritsAnsweredInTurn == PipelineSpec => []AnswersMatch
<1>1. PInv => AnswersMatch
  <2> SUFFICES ASSUME PInv, psat \in Up
               PROVE  LET N(i) == Count(Answers, ToWrits, i)
                          n == N(Len(Answers)) IN
                        /\ \A i \in DOMAIN Answers : Answers[i].tag \in ToWrits =>
                             N(i) \in DOMAIN writs /\ Fits(Answers[i], writs[N(i)])
                        /\ sat # "down" => \A i \in DOMAIN inn :
                             /\ n + i \in DOMAIN writs
                             /\ inn[i] = [tag |-> writs[n + i].tag,
                                          id |-> writs[n + i].egg.id]
                        /\ \A i \in DOMAIN Answers : Answers[i].tag = "ripe" =>
                             i = 1 /\ psat \in {"init", "done"}
    BY DEF AnswersMatch
  <2>1. Answers \in Seq(Gift) /\ writs \in Seq(Writs) /\ inn \in Seq(Task)
    BY KingKnown
  <2>2. /\ DOMAIN Answers = 1 .. Len(Answers) /\ DOMAIN writs = 1 .. Len(writs)
        /\ DOMAIN inn = 1 .. Len(inn) /\ Len(Answers) \in Nat /\ Len(inn) \in Nat
        /\ Len(writs) \in Nat
    BY <2>1
  <2>3. Talk(Answers, Tasks, writs, eve) /\ Ripe(Answers, writs, eve, psat)
    BY DEF PInv, KingInv, Agree
  <2>4. ASSUME NEW i \in 1 .. Len(Answers), Answers[i].tag \in ToWrits
        PROVE  /\ Count(Answers, ToWrits, i) \in 1 .. Len(writs)
               /\ Fits(Answers[i], writs[Count(Answers, ToWrits, i)])
    BY <2>3, <2>4 DEF Talk
  <2>5. ASSUME sat # "down", NEW i \in 1 .. Len(inn)
        PROVE  /\ Nth(Answers) + i \in 1 .. Len(writs)
               /\ inn[i] = TaskOf(writs[Nth(Answers) + i])
    <3>1. Nth(Answers) \in Nat
      BY <2>2, CountType DEF Nth
    <3>2. Tasks = inn
      BY <2>5 DEF Tasks
    <3>3. Nth(Answers) + Len(inn) <= Len(writs)
      BY <2>3, <3>2 DEF Talk
    <3>4. inn[i] = TaskOf(writs[Nth(Answers) + i])
      BY <2>3, <3>2 DEF Talk
    <3> QED
      BY <2>2, <3>1, <3>3, <3>4
  <2>6. ASSUME NEW i \in 1 .. Len(Answers), Answers[i].tag = "ripe"
        PROVE  i = 1 /\ psat \in {"init", "done"}
    BY <2>3, <2>6 DEF Ripe, Unripe
  <2> QED
    BY <2>2, <2>4, <2>5, <2>6 DEF Nth, TaskOf
<1> QED
  BY <1>1, PipelineInductive, PTL

\* god_u->eve_d++: the king's count is that of the log at every fact it hears.
THEOREM KingCountsEvents == PipelineSpec => []EveCounts
<1>1. PInv => EveCounts
  <2> SUFFICES ASSUME PInv, psat \in Up, NEW i \in DOMAIN Answers,
                      Answers[i].tag = "done"
               PROVE  Answers[i].eve = eve + Count(Answers, {"done"}, i)
    BY DEF EveCounts
  <2>1. i \in 1 .. Len(Answers)
    BY KingKnown
  <2>2. Talk(Answers, Tasks, writs, eve)
    BY DEF PInv, KingInv, Agree
  <2> QED
    BY <2>1, <2>2 DEF Talk
<1> QED
  BY <1>1, PipelineInductive, PTL

\* u3_auto_plan(), u3_auto_redo(): the events of a driver that does not retry are
\* computed and logged in the order they were planned, through every restart.
THEOREM DriverOrderKept == PipelineSpec => []OrderKept
<1>1. PInv => OrderKept
  <2> SUFFICES ASSUME PInv, NEW i \in DOMAIN log, NEW j \in DOMAIN log, i < j,
                      ova[log[i]] = ova[log[j]], ova[log[i]] \notin Essential
               PROVE  log[i] < log[j]
    BY DEF OrderKept
  <2>1. i \in 1 .. Len(log) /\ j \in 1 .. Len(log)
    BY KingKnown, SMTT(30)
  <2>2. Line(ova, log, Tasks, plan)
    BY DEF PInv, LineInv
  <2>3. Before(ova, log[i], log[j])
    BY <2>1, <2>2 DEF Line
  <2> QED
    BY <2>3 DEF Before
<1> QED
  BY <1>1, PipelineInductive, PTL

\* u3_auto_redo(): an ovum is planned, or sent, or in the log, and that once.
THEOREM OvumOnce == PipelineSpec => []OvumInOnePlace
<1>1. PInv => OvumInOnePlace
  <2> SUFFICES ASSUME PInv PROVE OvumInOnePlace
    OBVIOUS
  <2>1. /\ DOMAIN plan = 1 .. Len(plan) /\ DOMAIN writs = 1 .. Len(writs)
        /\ DOMAIN log = 1 .. Len(log) /\ Len(plan) \in Nat /\ Len(writs) \in Nat
    BY KingKnown
  <2>2. Line(ova, log, Tasks, plan)
    BY DEF PInv, LineInv
  <2>3. Sent(ova, writs, plan)
    <3>1. CASE psat \in Up
      BY <3>1 DEF PInv, KingInv
    <3>2. CASE psat \notin Up
      <4>1. writs = <<>>
        BY <3>2 DEF PInv, KingOK
      <4> QED
        BY <4>1 DEF Sent
    <3> QED
      BY <3>1, <3>2
  <2>4. ASSUME NEW i \in DOMAIN writs, NEW j \in DOMAIN writs,
               writs[i].tag = "poke", writs[j].tag = "poke",
               writs[i].egg.id = writs[j].egg.id
        PROVE  i = j
    <3>1. ~(i < j) /\ ~(j < i)
      BY <2>1, <2>3, <2>4 DEF Sent
    <3> QED
      BY <2>1, <3>1
  <2>5. ASSUME NEW i \in DOMAIN plan, NEW j \in DOMAIN plan, plan[i].id = plan[j].id
        PROVE  i = j
    <3>1. ASSUME NEW k \in DOMAIN plan, NEW l \in DOMAIN plan, k < l
          PROVE  plan[k].id # plan[l].id
      <4>1. Before(ova, plan[k].id, plan[l].id)
        BY <2>1, <2>2, <3>1 DEF Line
      <4> QED
        BY <4>1 DEF Before
    <3>2. ~(i < j) /\ ~(j < i)
      BY <2>5, <3>1
    <3> QED
      BY <2>1, <3>2
  <2>6. ASSUME NEW i \in DOMAIN writs, writs[i].tag = "poke", NEW j \in DOMAIN plan
        PROVE  writs[i].egg.id # plan[j].id
    BY <2>1, <2>3, <2>6 DEF Sent
  <2>7. ASSUME NEW k \in DOMAIN log, NEW j \in DOMAIN plan
        PROVE  log[k] # plan[j].id
    <3>1. Before(ova, log[k], plan[j].id)
      BY <2>1, <2>2 DEF Line
    <3> QED
      BY <3>1 DEF Before
  <2> QED
    BY <2>4, <2>5, <2>6, <2>7 DEF OvumInOnePlace
<1> QED
  BY <1>1, PipelineInductive, PTL

\* PIER_WORK_BATCH bounds what the serf computes ahead of its log, and so the
\* batch of _disk_batch() stays within hit_w.
THEOREM BacklogIsBounded == PipelineSpec => []BacklogBounded
<1>1. PInv => BacklogBounded
  <2> SUFFICES ASSUME PInv PROVE Len(state) - dun <= WorkBatch
    BY DEF BacklogBounded
  <2>1. state \in Seq(Ids) /\ dun \in Nat /\ Len(state) \in Nat
    BY Known DEF PInv
  <2>2. CASE sat # "down"
    <3>1. Len(state) <= dun + WorkBatch
      BY <2>2 DEF PInv, BacklogInv
    <3> QED
      BY <2>1, <3>1, WorkBatchAssumption
  <2>3. CASE sat = "down"
    <3>1. state = <<>>
      BY <2>3 DEF PInv, IInv, EmptyOK
    <3>2. Len(state) = 0
      BY <3>1
    <3> QED
      BY <2>1, <3>2, WorkBatchAssumption
  <2> QED
    BY <2>2, <2>3
<1> QED
  BY <1>1, PipelineInductive, PTL
\* A king that ends with status 0 was waiting for the end of its serf.
LEMMA EndsOk ==
    ASSUME PInv, [PipelineNext]_allVars, psat # "down", psat' = "down", xit' = "ok"
    PROVE  sat = "down" /\ Pier!_lord_on_serf_exit /\ UNCHANGED <<serfVars, crashes>>
<1>1. psat \in Up
  BY DEF PInv, KingOK
<1>2. CASE UNCHANGED allVars \/ SerfStep \/ SerfAlone
  BY <1>2 DEF allVars, SerfStep, SerfAlone, kingVars
<1>3. CASE Start
  BY <1>3 DEF Start, Pier!u3_pier_stay
<1>4. CASE Kill
  BY <1>4 DEF Kill, kingVars, Pier!Killed, Pier!End
<1>5. CASE KingStep
  <2>1. ASSUME Pier!Hear
        PROVE  FALSE
    <3>1. CASE Pier!_lord_plea_ripe
      BY <3>1 DEF Pier!_lord_plea_ripe, Pier!End
    <3>2. CASE Pier!_boot_scry_cb
      BY <3>2 DEF Pier!_boot_scry_cb, Pier!End
    <3>3. CASE Pier!_pier_on_lord_wyrd_done
      BY <3>3 DEF Pier!_pier_on_lord_wyrd_done, Pier!End
    <3>4. CASE Pier!_pier_on_lord_wyrd_bail
      BY <3>4 DEF Pier!_pier_on_lord_wyrd_bail, Pier!End
    <3>5. CASE Pier!_pier_on_lord_work_done
      BY <3>5 DEF Pier!_pier_on_lord_work_done, Pier!End
    <3>6. CASE Pier!_pier_on_lord_work_bail
      BY <3>6 DEF Pier!_pier_on_lord_work_bail, Pier!End
    <3>7. CASE Pier!_lord_plea_rest
      BY <3>7 DEF Pier!_lord_plea_rest
    <3> QED
      BY <2>1, <3>1, <3>2, <3>3, <3>4, <3>5, <3>6, <3>7 DEF Pier!Hear
  <2>2. ASSUME NEW d, Pier!u3_auto_plan(d)
        PROVE  FALSE
    BY <2>2 DEF Pier!u3_auto_plan
  <2>3. ASSUME Pier!_pier_work \/ Pier!u3_pier_peek \/ Pier!u3_pier_exit
        PROVE  FALSE
    BY <2>3 DEF Pier!_pier_work, Pier!u3_pier_peek, Pier!u3_pier_exit
  <2>4. ASSUME Pier!_lord_on_serf_bail
        PROVE  FALSE
    BY <2>4 DEF Pier!_lord_on_serf_bail, Pier!End
  <2> QED
    BY <1>5, <2>1, <2>2, <2>3, <2>4 DEF KingStep
<1> QED
  BY <1>2, <1>3, <1>4, <1>5 DEF PipelineNext

\* u3_pier_exit(): a king that leaves with status 0 has heard of all the log
\* holds, or of nothing; if nothing was killed the snapshot holds it too.
THEOREM ExitIsClean == PipelineSpec => CleanExit
<1>1. PInv /\ [PipelineNext]_allVars =>
        [psat # "down" /\ psat' = "down" /\ xit' = "ok"
           => eve \in {0, Len(log)} /\ (crashes = 0 => snap = log)]_allVars
  <2> SUFFICES ASSUME PInv, [PipelineNext]_allVars,
                      psat # "down", psat' = "down", xit' = "ok"
               PROVE  eve \in {0, Len(log)} /\ (crashes = 0 => snap = log)
    OBVIOUS
  <2>1. sat = "down" /\ Pier!_lord_on_serf_exit
    BY EndsOk
  <2>2. psat \in Up /\ writs # <<>> /\ Head(writs).tag = "exit"
    BY <2>1 DEF Pier!_lord_on_serf_exit, Pier!Need, Pier!End, PInv, KingOK
  <2>3. /\ Room(writs, psat) /\ Talk(Answers, Tasks, writs, eve)
        /\ Counts(Answers, eve) /\ Ended(Answers, writs, eve, psat)
    BY <2>2 DEF PInv, KingInv, Agree
  <2>4. writs \in Seq(Writs) /\ Answers \in Seq(Gift) /\ eve \in Nat /\ log \in Seq(Ids)
    BY KingKnown
  <2>5. Len(writs) = 1 /\ writs[1].tag = "exit"
    <3>1. 1 \in 1 .. Len(writs) /\ Head(writs) = writs[1]
      BY <2>2, <2>4
    <3> QED
      BY <2>2, <2>3, <3>1 DEF Room
  <2>6. \A i \in 1 .. Len(Answers) : Answers[i].tag \notin {"done"}
    <3> SUFFICES ASSUME NEW i \in 1 .. Len(Answers), Answers[i].tag = "done"
                 PROVE  FALSE
      OBVIOUS
    <3>1. Answers[i].tag \in ToWrits
      BY DEF ToWrits, GiftTags
    <3>2. PICK k \in 1 .. Len(writs) : Fits(Answers[i], writs[k])
      BY <2>3, <3>1 DEF Talk
    <3> QED
      BY <2>5, <3>2 DEF Fits
  <2>7. Dones(Answers) = 0
    <3>1. Len(Answers) \in Nat
      BY <2>4
    <3> QED
      BY <2>6, <3>1, CountNone DEF Dones
  <2>8. ~Unanswered(Answers, writs)
    BY <2>5 DEF Unanswered
  <2>9. eve = 0 \/ Len(log) <= eve + Dones(Answers)
    BY <2>1, <2>3, <2>8 DEF Ended
  <2>10. crashes = 0 => snap = log
    BY <2>1, <2>3, <2>8 DEF Ended
  <2>11. eve <= Len(log) /\ Len(log) \in Nat
    BY <2>3, <2>4 DEF Counts
  <2> QED
    BY <2>4, <2>7, <2>9, <2>10, <2>11
<1> QED
  BY <1>1, PipelineInductive, PTL DEF PipelineSpec, CleanExit

-----------------------------------------------------------------------------
(* The pipeline implements EventLog. *)

\* A row that begins with another has it as a prefix.
LEMMA BeginsPrefix ==
    ASSUME NEW s \in Seq(Ids), NEW t \in Seq(Ids), Begins(s, t)
    PROVE  ELog!IsPrefix(s, t)
<1>1. /\ Len(s) <= Len(t) /\ \A i \in 1 .. Len(s) : s[i] = t[i]
      /\ Len(s) \in Nat /\ Len(t) \in Nat
  BY DEF Begins
<1>2. SubSeq(s, 1, Len(s)) = SubSeq(t, 1, Len(s))
  BY <1>1
<1> QED
  BY <1>1, <1>2 DEF ELog!IsPrefix

\* The writer thread writes a batch, or nothing.
LEMMA CommitStep ==
    ASSUME PInv, PInv', _disk_commit_cb, eve' = eve
    PROVE  ELog!Commit \/ UNCHANGED <<log, eve>>
<1>1. CASE log' = log
  BY <1>1
<1>2. CASE log' = log \o SubSeq(state, dun + 1, dun + len)
  <2>1. sat \in Running
    <3>1. sat \notin {"down", "boot"} /\ sat \in Sats
      BY DEF _disk_commit_cb, PInv, IInv, EmptyOK, TypeOK
    <3> QED
      BY <3>1 DEF Sats, Running
  <2>2. /\ state \in Seq(Ids) /\ log \in Seq(Ids) /\ log' \in Seq(Ids)
        /\ dun \in Nat /\ len \in Nat
    BY Known, KingKnown DEF PInv, IInv, TypeOK
  <2>3. len > 0 /\ dun + len <= Len(state)
    BY <2>1 DEF PInv, IInv, WriterOK, _disk_commit_cb
  <2>4. PICK b \in Seq(Ids) : b = SubSeq(state, dun + 1, dun + len) /\ Len(b) = len
    <3>1. SubSeq(state, dun + 1, dun + len) \in Seq(Ids)
      BY <2>2, <2>3, BatchPart
    <3>2. Len(SubSeq(state, dun + 1, dun + len)) = len
      BY <2>2, <2>3
    <3> QED
      BY <3>1, <3>2
  <2>5. /\ Len(log \o b) = Len(log) + Len(b)
        /\ \A i \in 1 .. Len(log) : (log \o b)[i] = log[i]
    BY <2>2, <2>4, RowConcat
  <2>6. log' = log \o b
    BY <1>2, <2>4
  <2>7. Len(log) \in Nat /\ Len(b) \in Nat
    BY <2>2
  <2>8. Len(log) < Len(log') /\ Begins(log, log')
    <3>1. Len(log \o b) > Len(log)
      BY <2>2, <2>3, <2>4, <2>5, <2>7
    <3> QED
      BY <2>5, <2>6, <2>7, <3>1 DEF Begins
  <2>9. ELog!IsPrefix(log, log')
    BY <2>2, <2>8, BeginsPrefix
  <2>10. ELog!IsInjective(log')
    <3>1. Line(ova', log', Tasks', plan')
      BY DEF PInv, LineInv
    <3>2. ASSUME NEW i \in 1 .. Len(log'), NEW j \in 1 .. Len(log'), i < j
          PROVE  log'[i] # log'[j]
      <4>1. Before(ova', log'[i], log'[j])
        BY <3>1, <3>2 DEF Line
      <4> QED
        BY <4>1 DEF Before
    <3>3. DOMAIN log' = 1 .. Len(log') /\ Len(log') \in Nat
      BY <2>2
    <3>4. ASSUME NEW i \in DOMAIN log', NEW j \in DOMAIN log', log'[i] = log'[j]
          PROVE  i = j
      <4>1. ~(i < j) /\ ~(j < i)
        BY <3>2, <3>3, <3>4
      <4> QED
        BY <3>3, <4>1
    <3> QED
      BY <3>4 DEF ELog!IsInjective
  <2> QED
    BY <2>8, <2>9, <2>10 DEF ELog!Commit
<1> QED
  BY <1>1, <1>2 DEF _disk_commit_cb

\* Only the writer thread changes the log.
LEMMA SerfLog ==
    ASSUME PInv, Serf, ~_disk_commit_cb
    PROVE  log' = log
BY DEF Serf, u3_mars_work, kick_poke_done, kick_poke_bail, kick_peek, kick_live,
       kick_rest, kick_sync, kick_exit, _mars_timer_cb, _disk_commit_after_cb,
       FlushExit, End

\* A fact is applied when its event is in the log.
LEMMA ApplyStep ==
    ASSUME PInv, Pier!Hears("done"), log' = log, eve' = eve + 1
    PROVE  ELog!Apply
<1>1. "done" \in ToWrits /\ eve \in Nat /\ log \in Seq(Ids)
  BY KingKnown DEF ToWrits, GiftTags
<1>2. PICK f \in Nat : f = eve + 1
  BY <1>1
<1>3. f <= Len(log)
  BY <1>1, <1>2, HearingWrit
<1>4. eve < Len(log)
  <2>1. Len(log) \in Nat
    BY <1>1
  <2> QED
    BY <1>1, <1>2, <1>3, <2>1
<1> QED
  BY <1>4 DEF ELog!Apply

\* %ripe tells a king that knows nothing how long the log is.
LEMMA RecoverStep ==
    ASSUME PInv, Pier!Hears("ripe"), log' = log, eve' = Head(out).eve
    PROVE  ELog!Recover
<1>1. /\ Answers # <<>> /\ Head(Answers) = Head(out) /\ Head(out).tag = "ripe"
      /\ Agree(Answers, Tasks, writs, eve, psat)
  BY Hearing
<1>2. Answers \in Seq(Gift)
  BY KingKnown
<1>3. 1 \in 1 .. Len(Answers) /\ Answers[1].tag = "ripe" /\ Answers[1] = Head(out)
  BY <1>1, <1>2
<1>4. Ripe(Answers, writs, eve, psat)
  BY <1>1 DEF Agree
<1>5. Head(out).eve = Len(log) /\ eve = 0
  BY <1>3, <1>4 DEF Ripe, Unripe
<1> QED
  BY <1>5 DEF ELog!Recover

\* Every answer the king hears is a step of EventLog, or none.
LEMMA KingLog ==
    ASSUME PInv, Pier!Hear, log' = log
    PROVE  ELog!Next \/ UNCHANGED <<log, eve>>
<1>1. CASE Pier!_lord_plea_ripe
  <2>1. Pier!Hears("ripe") /\ eve' = Head(out).eve
    BY <1>1 DEF Pier!_lord_plea_ripe
  <2> QED
    BY <2>1, RecoverStep DEF ELog!Next
<1>2. CASE Pier!_boot_scry_cb
  BY <1>2 DEF Pier!_boot_scry_cb
<1>3. CASE Pier!_pier_on_lord_wyrd_done
  <2>1. Pier!Hears("done") /\ eve' = eve + 1
    BY <1>3 DEF Pier!_pier_on_lord_wyrd_done, Pier!WyrdAnswered
  <2> QED
    BY <2>1, ApplyStep DEF ELog!Next
<1>4. CASE Pier!_pier_on_lord_wyrd_bail
  BY <1>4 DEF Pier!_pier_on_lord_wyrd_bail
<1>5. CASE Pier!_pier_on_lord_work_done
  <2>1. Pier!Hears("done") /\ eve' = eve + 1
    BY <1>5 DEF Pier!_pier_on_lord_work_done, Pier!WorkAnswered
  <2> QED
    BY <2>1, ApplyStep DEF ELog!Next
<1>6. CASE Pier!_pier_on_lord_work_bail
  BY <1>6 DEF Pier!_pier_on_lord_work_bail
<1>7. CASE Pier!_lord_plea_rest
  BY <1>7 DEF Pier!_lord_plea_rest
<1> QED
  BY <1>1, <1>2, <1>3, <1>4, <1>5, <1>6, <1>7 DEF Pier!Hear

\* Two processes, two pipes, kills, failed writes, retries and restarts: what
\* comes of it is one log that grows by new events, and effects applied one by
\* one in its order.
THEOREM EventLogImplemented == PipelineSpec => ImplementsEventLog
<1>1. PipelineInit => ELog!Init
  BY DEF PipelineInit, Init, Pier!Init, ELog!Init
<1>2. PInv /\ PInv' /\ [PipelineNext]_allVars => [ELog!Next]_<<log, eve>>
  <2> SUFFICES ASSUME PInv, PInv', [PipelineNext]_allVars
               PROVE  ELog!Next \/ UNCHANGED <<log, eve>>
    OBVIOUS
  <2>1. CASE UNCHANGED allVars
    BY <2>1 DEF allVars, marsVars, kingVars
  <2>2. CASE Start
    BY <2>2 DEF Start, Spawn, Pier!u3_pier_stay, ELog!Next, ELog!Restart
  <2>3. CASE KingStep
    <3>1. log' = log
      BY <2>3 DEF KingStep, serfVars
    <3>2. CASE Pier!Hear
      BY <3>1, <3>2, KingLog
    <3>3. CASE \E d \in 1 .. NDrivers : Pier!u3_auto_plan(d)
      BY <3>1, <3>3 DEF Pier!u3_auto_plan
    <3>4. CASE Pier!_pier_work \/ Pier!u3_pier_peek \/ Pier!u3_pier_exit
      BY <3>1, <3>4 DEF Pier!_pier_work, Pier!u3_pier_peek, Pier!u3_pier_exit
    <3>5. CASE Pier!_lord_on_serf_exit \/ Pier!_lord_on_serf_bail
      BY <3>1, <3>5 DEF Pier!_lord_on_serf_exit, Pier!_lord_on_serf_bail
    <3> QED
      BY <2>3, <3>2, <3>3, <3>4, <3>5 DEF KingStep
  <2>4. CASE SerfStep
    <3>1. Serf /\ eve' = eve
      BY <2>4 DEF SerfStep, kingVars
    <3>2. CASE _disk_commit_cb
      BY <3>1, <3>2, CommitStep DEF ELog!Next
    <3>3. CASE ~_disk_commit_cb
      BY <3>1, <3>3, SerfLog
    <3> QED
      BY <3>2, <3>3
  <2>5. CASE SerfAlone
    BY <2>5 DEF SerfAlone, Die, End, kingVars
  <2>6. CASE Kill
    BY <2>6 DEF Kill, Die, End, kingVars, Pier!Killed, serfVars
  <2> QED
    BY <2>1, <2>2, <2>3, <2>4, <2>5, <2>6 DEF PipelineNext
<1> QED
  BY <1>1, <1>2, PipelineInductive, PTL
     DEF PipelineSpec, ImplementsEventLog, ELog!Spec
=============================================================================
