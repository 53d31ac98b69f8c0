--------------------------- MODULE QueueTheorems ----------------------------
(***************************************************************************)
(* The elements of a queue, for the theorems of the modules that join two  *)
(* components by their queues of events and of effects.                    *)
(***************************************************************************)
EXTENDS Naturals, Sequences, SequenceTheorems, TLAPS

\* What a queue holds.
In(s) == {s[i] : i \in DOMAIN s}

LEMMA InAppend ==
    ASSUME NEW S, NEW s \in Seq(S), NEW x \in S
    PROVE  /\ Append(s, x) \in Seq(S)
           /\ In(Append(s, x)) = In(s) \cup {x}
<1> DEFINE t == Append(s, x)
<1>1. /\ t \in Seq(S) /\ Len(s) \in Nat /\ DOMAIN s = 1 .. Len(s)
      /\ DOMAIN t = 1 .. (Len(s) + 1)
      /\ t[Len(s) + 1] = x /\ \A i \in 1 .. Len(s) : t[i] = s[i]
  OBVIOUS
<1>2. \A y \in In(t) : y \in In(s) \cup {x}
  BY <1>1 DEF In
<1>3. \A y \in In(s) : y \in In(t)
  <2> SUFFICES ASSUME NEW i \in DOMAIN s PROVE s[i] \in In(t)
    BY DEF In
  <2>1. i \in DOMAIN t /\ t[i] = s[i]
    BY <1>1
  <2> QED
    BY <2>1 DEF In
<1>4. x \in In(t)
  <2>1. Len(s) + 1 \in DOMAIN t
    BY <1>1
  <2> QED
    BY <1>1, <2>1 DEF In
<1> QED
  BY <1>1, <1>2, <1>3, <1>4

LEMMA InTail ==
    ASSUME NEW S, NEW s \in Seq(S), s # <<>>
    PROVE  /\ Tail(s) \in Seq(S) /\ Head(s) \in S /\ Head(s) = s[1]
           /\ 1 \in DOMAIN s
           /\ In(s) = {Head(s)} \cup In(Tail(s))
           /\ \A i \in DOMAIN Tail(s) : i + 1 \in DOMAIN s /\ i + 1 # 1
                                          /\ Tail(s)[i] = s[i + 1]
<1> DEFINE t == Tail(s)
<1>1. /\ t \in Seq(S) /\ Head(s) \in S /\ Head(s) = s[1] /\ Len(s) \in Nat
      /\ Len(s) # 0 /\ DOMAIN s = 1 .. Len(s) /\ DOMAIN t = 1 .. (Len(s) - 1)
      /\ \A i \in 1 .. (Len(s) - 1) : t[i] = s[i + 1]
  BY EmptySeq
<1>2. \A i \in DOMAIN t : i + 1 \in DOMAIN s /\ i + 1 # 1 /\ t[i] = s[i + 1]
  BY <1>1
<1>3. \A y \in In(t) : y \in In(s)
  BY <1>2 DEF In
<1>4. \A y \in In(s) : y = Head(s) \/ y \in In(t)
  <2> SUFFICES ASSUME NEW i \in DOMAIN s, i # 1 PROVE s[i] \in In(t)
    BY <1>1 DEF In
  <2>1. i - 1 \in DOMAIN t /\ (i - 1) + 1 = i
    BY <1>1
  <2>2. t[i - 1] = s[i]
    BY <1>2, <2>1
  <2> QED
    BY <2>1, <2>2 DEF In
<1>5. 1 \in DOMAIN s
  BY <1>1
<1>6. Head(s) \in In(s)
  BY <1>1, <1>5 DEF In
<1> QED
  BY <1>1, <1>2, <1>3, <1>4, <1>5, <1>6

LEMMA InConcat ==
    ASSUME NEW S, NEW s \in Seq(S), NEW t \in Seq(S)
    PROVE  s \o t \in Seq(S) /\ In(s \o t) = In(s) \cup In(t)
<1> DEFINE u == s \o t
<1>1. /\ u \in Seq(S) /\ Len(s) \in Nat /\ Len(t) \in Nat
      /\ DOMAIN s = 1 .. Len(s) /\ DOMAIN t = 1 .. Len(t)
      /\ DOMAIN u = 1 .. (Len(s) + Len(t))
      /\ \A i \in 1 .. (Len(s) + Len(t)) :
           u[i] = IF i <= Len(s) THEN s[i] ELSE t[i - Len(s)]
  OBVIOUS
<1>2. ASSUME NEW i \in DOMAIN u PROVE u[i] \in In(s) \cup In(t)
  <2>1. i <= Len(s) \/ i - Len(s) \in DOMAIN t
    BY <1>1
  <2>2. CASE i <= Len(s)
    BY <1>1, <2>2 DEF In
  <2>3. CASE ~(i <= Len(s))
    <3>1. u[i] = t[i - Len(s)] /\ i - Len(s) \in DOMAIN t
      BY <1>1, <2>1, <2>3
    <3> QED
      BY <3>1 DEF In
  <2> QED
    BY <2>2, <2>3
<1>3. ASSUME NEW i \in DOMAIN s PROVE s[i] \in In(u)
  <2>1. i \in DOMAIN u /\ u[i] = s[i]
    BY <1>1
  <2> QED
    BY <2>1 DEF In
<1>4. ASSUME NEW i \in DOMAIN t PROVE t[i] \in In(u)
  <2>1. i + Len(s) \in DOMAIN u /\ u[i + Len(s)] = t[i]
    BY <1>1
  <2> QED
    BY <2>1 DEF In
<1> QED
  BY <1>1, <1>2, <1>3, <1>4 DEF In

LEMMA InOne ==
    ASSUME NEW S, NEW x \in S
    PROVE  <<x>> \in Seq(S) /\ In(<<x>>) = {x}
BY DEF In

\* What holds for an element stays, or is taken off, at the front.
LEMMA ConcatAt ==
    ASSUME NEW S, NEW s \in Seq(S), NEW t \in Seq(S)
    PROVE  /\ \A i \in DOMAIN s : i \in DOMAIN (s \o t) /\ (s \o t)[i] = s[i]
           /\ \A i \in DOMAIN (s \o t) \ DOMAIN s :
                /\ i - Len(s) \in DOMAIN t /\ (s \o t)[i] = t[i - Len(s)]
                /\ \A j \in DOMAIN s : i > j
                /\ i \in Nat
           /\ \A i \in DOMAIN t : /\ i + Len(s) \in DOMAIN (s \o t) \ DOMAIN s
                                  /\ (s \o t)[i + Len(s)] = t[i]
           /\ Len(s) \in Nat /\ DOMAIN s \subseteq Nat /\ DOMAIN t \subseteq Nat
OBVIOUS

-----------------------------------------------------------------------------
(* What is in a queue once.                                                  *)

\* At most one element of X is in the queue.
Once(s, X) == \A i, j \in DOMAIN s : s[i] \in X /\ s[j] \in X => i = j

LEMMA OnceTail ==
    ASSUME NEW S, NEW s \in Seq(S), s # <<>>, NEW X, Once(s, X)
    PROVE  /\ Once(Tail(s), X)
           /\ Head(s) \in X => In(Tail(s)) \cap X = {}
<1> DEFINE t == Tail(s)
<1>1. /\ Head(s) = s[1] /\ 1 \in DOMAIN s /\ DOMAIN t \subseteq Nat
      /\ \A i \in DOMAIN t : i + 1 \in DOMAIN s /\ i + 1 # 1
                               /\ t[i] = s[i + 1]
  <2>1. DOMAIN t \subseteq Nat
    BY EmptySeq
  <2> QED
    BY <2>1, InTail
<1>2. ASSUME NEW i \in DOMAIN t, NEW j \in DOMAIN t, t[i] \in X, t[j] \in X
      PROVE  i = j
  <2>1. i + 1 = j + 1
    BY <1>1, <1>2 DEF Once
  <2> QED
    BY <1>1, <2>1
<1>3. ASSUME Head(s) \in X, NEW i \in DOMAIN t PROVE t[i] \notin X
  BY <1>1, <1>3 DEF Once
<1> QED
  BY <1>2, <1>3 DEF Once, In

LEMMA OnceConcat ==
    ASSUME NEW S, NEW s \in Seq(S), NEW t \in Seq(S), NEW X,
           Once(s, X), Once(t, X),
           In(s) \cap X = {} \/ In(t) \cap X = {}
    PROVE  Once(s \o t, X)
<1> DEFINE u == s \o t
<1>1. ASSUME NEW i \in DOMAIN u, NEW j \in DOMAIN u, u[i] \in X, u[j] \in X
      PROVE  i = j
  <2>1. /\ Len(s) \in Nat /\ DOMAIN s \subseteq Nat /\ DOMAIN t \subseteq Nat
        /\ \A k \in DOMAIN u \ DOMAIN s :
             k - Len(s) \in DOMAIN t /\ u[k] = t[k - Len(s)] /\ k \in Nat
        /\ \A k \in DOMAIN s : u[k] = s[k]
    BY ConcatAt
  <2> HIDE DEF u
  <2>2. CASE i \in DOMAIN s /\ j \in DOMAIN s
    BY <1>1, <2>1, <2>2 DEF Once
  <2>3. CASE i \notin DOMAIN s /\ j \notin DOMAIN s
    <3>1. i - Len(s) = j - Len(s) /\ i \in Nat /\ j \in Nat
      BY <1>1, <2>1, <2>3 DEF Once
    <3> QED
      BY <2>1, <3>1
  <2>4. ASSUME NEW k \in DOMAIN s, NEW l \in DOMAIN u \ DOMAIN s,
               u[k] \in X, u[l] \in X
        PROVE  FALSE
    <3>1. u[k] \in In(s) /\ u[l] \in In(t)
      BY <2>1, <2>4 DEF In
    <3> QED
      BY <2>4, <3>1
  <2> QED
    BY <1>1, <2>2, <2>3, <2>4
<1> QED
  BY <1>1 DEF Once

LEMMA OnceOne ==
    ASSUME NEW x, NEW X
    PROVE  Once(<<x>>, X) /\ Once(<<>>, X)
BY DEF Once

LEMMA AppendJoins ==
    ASSUME NEW S, NEW s \in Seq(S), NEW x \in S
    PROVE  Append(s, x) = s \o <<x>>
OBVIOUS

-----------------------------------------------------------------------------
(* What comes after an element of a queue.                                   *)

\* Nothing of X comes after an x in the queue.
Unfollowed(s, x, X) ==
    \E i \in DOMAIN s : s[i] = x /\ \A j \in DOMAIN s : j > i => s[j] \notin X

LEMMA UnfollowedIn ==
    ASSUME NEW s, NEW x, NEW X, Unfollowed(s, x, X)
    PROVE  x \in In(s)
BY DEF Unfollowed, In

LEMMA UnfollowedTail ==
    ASSUME NEW S, NEW s \in Seq(S), s # <<>>, NEW x, NEW X,
           Unfollowed(s, x, X), Head(s) # x
    PROVE  Unfollowed(Tail(s), x, X)
<1> DEFINE t == Tail(s)
<1>1. /\ Len(s) \in Nat /\ Len(s) # 0 /\ DOMAIN s = 1 .. Len(s)
      /\ Head(s) = s[1] /\ DOMAIN t = 1 .. (Len(s) - 1)
      /\ \A i \in 1 .. (Len(s) - 1) : t[i] = s[i + 1]
  BY EmptySeq
<1>2. PICK i \in DOMAIN s :
             s[i] = x /\ \A j \in DOMAIN s : j > i => s[j] \notin X
  BY DEF Unfollowed
<1>3. i - 1 \in DOMAIN t /\ t[i - 1] = x
  BY <1>1, <1>2
<1>4. ASSUME NEW j \in DOMAIN t, j > i - 1 PROVE t[j] \notin X
  <2>1. j + 1 \in DOMAIN s /\ j + 1 > i /\ t[j] = s[j + 1]
    BY <1>1, <1>4
  <2> QED
    BY <1>2, <2>1
<1> QED
  BY <1>3, <1>4 DEF Unfollowed

\* If what it is found by is in the queue once, it goes as the first.
LEMMA UnfollowedHead ==
    ASSUME NEW S, NEW s \in Seq(S), s # <<>>, NEW x, NEW X, NEW Y,
           Unfollowed(s, x, X), Once(s, Y), x \in Y, Head(s) = x
    PROVE  In(Tail(s)) \cap X = {}
<1> DEFINE t == Tail(s)
<1>1. /\ Len(s) \in Nat \ {0} /\ DOMAIN s = 1 .. Len(s) /\ Head(s) = s[1]
      /\ DOMAIN t = 1 .. (Len(s) - 1)
      /\ \A i \in 1 .. (Len(s) - 1) : t[i] = s[i + 1]
  OBVIOUS
<1> HIDE DEF t
<1>2. PICK i \in DOMAIN s :
             s[i] = x /\ \A j \in DOMAIN s : j > i => s[j] \notin X
  BY DEF Unfollowed
<1>3. i = 1
  BY <1>1, <1>2 DEF Once
<1>4. ASSUME NEW j \in DOMAIN t PROVE t[j] \notin X
  <2>1. t[j] = s[j + 1] /\ j + 1 \in DOMAIN s /\ j + 1 > 1
    BY <1>1, <1>4
  <2> QED
    BY <1>2, <1>3, <2>1
<1>5. In(t) \cap X = {}
  BY <1>4 DEF In
<1> QED
  BY <1>5 DEF t

LEMMA UnfollowedConcat ==
    ASSUME NEW S, NEW s \in Seq(S), NEW t \in Seq(S), NEW x, NEW X,
           Unfollowed(s, x, X), In(t) \cap X = {}
    PROVE  Unfollowed(s \o t, x, X)
<1> DEFINE u == s \o t
<1>1. PICK i \in DOMAIN s :
             s[i] = x /\ \A j \in DOMAIN s : j > i => s[j] \notin X
  BY DEF Unfollowed
<1>2. /\ i \in DOMAIN u /\ u[i] = x
      /\ \A j \in DOMAIN s : u[j] = s[j]
      /\ \A j \in DOMAIN u \ DOMAIN s : u[j] \in In(t)
  <2>1. ASSUME NEW j \in DOMAIN u \ DOMAIN s PROVE u[j] \in In(t)
    <3>1. j - Len(s) \in DOMAIN t /\ u[j] = t[j - Len(s)]
      BY ConcatAt
    <3> QED
      BY <3>1 DEF In
  <2>2. \A j \in DOMAIN s : j \in DOMAIN u /\ u[j] = s[j]
    BY ConcatAt
  <2> QED
    BY <1>1, <2>1, <2>2
<1> HIDE DEF u
<1>3. ASSUME NEW j \in DOMAIN u, j > i PROVE u[j] \notin X
  <2>1. CASE j \in DOMAIN s
    BY <1>1, <1>2, <1>3, <2>1
  <2>2. CASE j \notin DOMAIN s
    BY <1>2, <2>2
  <2> QED
    BY <2>1, <2>2
<1> QED
  BY <1>2, <1>3 DEF Unfollowed, u

LEMMA UnfollowedLast ==
    ASSUME NEW S, NEW s \in Seq(S), NEW x \in S, NEW X
    PROVE  Unfollowed(s \o <<x>>, x, X)
<1> DEFINE u == s \o <<x>>
<1>1. /\ Len(s) + 1 \in DOMAIN u /\ u[Len(s) + 1] = x
      /\ \A j \in DOMAIN u : ~(j > Len(s) + 1)
  OBVIOUS
<1> HIDE DEF u
<1>2. \E i \in DOMAIN u : u[i] = x /\ \A j \in DOMAIN u : j > i => u[j] \notin X
  BY <1>1
<1> QED
  BY <1>2 DEF Unfollowed, u

=============================================================================
