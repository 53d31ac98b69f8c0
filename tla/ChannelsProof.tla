---------------------------- MODULE ChannelsProof ----------------------------
(***************************************************************************)
(* Theorems of Channels for every set of GETs and request ids, and every   *)
(* threshold and bound: one listener or one timer, counts that do not run  *)
(* ahead of the queue, no subscription without its channel, and a queue    *)
(* and a stream without a gap.                                             *)
(***************************************************************************)
EXTENDS Channels, QueueTheorems, FiniteSetTheorems, TLAPS

Kinds == {"poke-ack", "watch-ack", "fact", "kick"}
Tags == {"start", "continue", "cancel", "gone"}
Events == [id : Nat, rid : Rids \cup {NoDuct}, kind : Kinds]
Effects == [tag : Tags, duct : Ducts, ids : Seq(Nat)]
Timings == {Timeout(t) : t \in Timers} \cup {Heartbeat(d) : d \in Ducts}
Watches == [Rids -> {"none", "asked", "live"}]
Worlds == [gall : Watches, pokes : Nat, behn : SUBSET Timings]
ChannelType ==
    [st : {"none", "wait", "listen"}, duct : Ducts \cup {NoDuct}, timer : Timers \cup {0},
     heart : Ducts \cup {NoDuct}, life : 0 .. 2, next : Nat, events : Seq(Events),
     subs : SUBSET Rids, unacked : [Rids -> Nat]]

TypeOK ==
    /\ chan \in ChannelType
    /\ connections \subseteq Ducts /\ key \subseteq Ducts /\ cookie \in BOOLEAN
    /\ lives \in 0 .. 2
    /\ gall \in Watches /\ pokes \in Nat /\ behn \subseteq Timings
    /\ eff \in Seq(Effects) /\ open \subseteq Ducts
    /\ stream \in Ducts \cup {NoDuct} /\ got \in Nat
    /\ client \in {"new", "on", "quit"} /\ used \subseteq Rids

\* What a channel is without, with and between listeners.
Formed(ch) ==
    /\ ch.st = "none" => ch = NoChannel
    /\ ch.st = "wait" => ch.duct = NoDuct /\ ch.heart = NoDuct /\ ch.timer \in Timers
    /\ ch.st = "listen" => ch.duct \in Ducts /\ ch.heart = ch.duct

\* The queue of ch: consecutive, up to the last event numbered, and from g or before.
Queued(ch, g) ==
    /\ Len(ch.events) <= ch.next /\ ch.next - Len(ch.events) <= g
    /\ \A i \in 1 .. Len(ch.events) : ch.events[i].id = ch.next - Len(ch.events) + i - 1

Counted(ch) == \A r \in Rids : ch.unacked[r] <= FactsOf(ch.events, r)

\* What Gall knows of in g, the channel ch knows of.
Held(ch, g) == \A r \in Rids : g[r] # "none" => r \in ch.subs

ChannelInv == Formed(chan) /\ Queued(chan, got) /\ Counted(chan)

\* Unless the client has deleted the channel, no timer is set but the channel's own.
TimerInv ==
    Exists \/ client # "quit" =>
        \A t \in Timers : Timeout(t) \in behn => chan.st = "wait" /\ t = chan.timer

\* A subscription without its channel is one that was made in the PUT that deleted it.
SubsInv ==
    \/ Held(chan, gall)
    \/ ~Exists /\ client = "quit" /\ \A r \in Rids : gall[r] # "live"

FlightInv ==
    chan.st = "listen" /\ chan.duct = stream =>
        /\ InOrder(stream)
        /\ \E first \in 0 .. got : first <= chan.next
                                  /\ UnderWay(stream) = first .. chan.next - 1

IInv == TypeOK /\ ChannelInv /\ ListenerSound /\ TimerInv /\ SubsInv /\ FlightInv

-----------------------------------------------------------------------------
(* The queue of a channel and its counts. *)

LEMMA RangeFinite ==
    ASSUME NEW evs \in Seq(Events)
    PROVE  IsFiniteSet(Range(evs))
<1> DEFINE f == [i \in 1 .. Len(evs) |-> evs[i]]
<1>1. Len(evs) \in Nat /\ DOMAIN evs = 1 .. Len(evs)
  OBVIOUS
<1>2. f \in Surjection(1 .. Len(evs), Range(evs))
  BY <1>1 DEF Surjection, Range
<1>3. ExistsSurjection(1 .. Len(evs), Range(evs))
  BY <1>2 DEF ExistsSurjection
<1> HIDE DEF f
<1> QED
  BY <1>1, <1>3, FS_NatSurjection

LEMMA FactsFinite ==
    ASSUME NEW evs \in Seq(Events), NEW r
    PROVE  /\ IsFiniteSet({e \in Range(evs) : e.rid = r /\ e.kind = "fact"})
           /\ FactsOf(evs, r) \in Nat
<1> DEFINE A == {e \in Range(evs) : e.rid = r /\ e.kind = "fact"}
<1>1. A \in SUBSET Range(evs)
  OBVIOUS
<1> HIDE DEF A
<1>2. IsFiniteSet(A)
  BY <1>1, RangeFinite, FS_Subset
<1>3. Cardinality(A) \in Nat
  BY <1>2, FS_CardinalityType
<1> QED
  BY <1>2, <1>3 DEF A, FactsOf

\* Of a queue that counts from a, what is below upto is a prefix.
LEMMA PrunedPrefix ==
    ASSUME NEW evs \in Seq(Events), NEW a \in Nat, NEW upto \in Nat,
           \A i \in 1 .. Len(evs) : evs[i].id = a + i - 1
    PROVE  /\ Pruned(evs, upto) \in 0 .. Len(evs)
           /\ \A i \in 1 .. Pruned(evs, upto) : evs[i].id < upto
<1>1. Len(evs) \in Nat
  OBVIOUS
<1>2. \E n \in 0 .. Len(evs) :
        /\ \A i \in 1 .. n : evs[i].id < upto
        /\ n < Len(evs) => evs[n + 1].id >= upto
  <2>1. CASE upto <= a
    <3>1. Len(evs) > 0 => evs[0 + 1].id = a
      BY <1>1
    <3> WITNESS 0 \in 0 .. Len(evs)
    <3> QED
      BY <2>1, <3>1
  <2>2. CASE a < upto /\ upto - a <= Len(evs)
    <3>1. PICK n \in 0 .. Len(evs) : n = upto - a
      BY <1>1, <2>2
    <3>2. \A i \in 1 .. n : evs[i].id < upto
      BY <1>1, <3>1
    <3>3. n < Len(evs) => evs[n + 1].id = upto
      <4>1. n + 1 \in 1 .. Len(evs) => evs[n + 1].id = a + (n + 1) - 1
        OBVIOUS
      <4> QED
        BY <1>1, <3>1, <4>1
    <3> QED
      BY <3>2, <3>3
  <2>3. CASE upto - a > Len(evs)
    <3>1. \A i \in 1 .. Len(evs) : evs[i].id < upto
      BY <1>1, <2>3
    <3> WITNESS Len(evs) \in 0 .. Len(evs)
    <3> QED
      BY <3>1
  <2> QED
    BY <1>1, <2>1, <2>2, <2>3
<1> QED
  BY <1>2 DEF Pruned

\* What is taken off the head of a queue takes as many facts with it at most.
LEMMA FactsPruned ==
    ASSUME NEW evs \in Seq(Events), NEW n \in 0 .. Len(evs), NEW r
    PROVE  LET kept == SubSeq(evs, n + 1, Len(evs))
               gone == {e \in {evs[i] : i \in 1 .. n} : e.rid = r} IN
           /\ kept \in Seq(Events) /\ Len(kept) = Len(evs) - n
           /\ \A i \in 1 .. Len(evs) - n : kept[i] = evs[i + n]
           /\ Cardinality(gone) \in Nat
           /\ FactsOf(evs, r) <= FactsOf(kept, r) + Cardinality(gone)
<1> DEFINE kept == SubSeq(evs, n + 1, Len(evs))
           gone == {e \in {evs[i] : i \in 1 .. n} : e.rid = r}
           A == {e \in Range(evs) : e.rid = r /\ e.kind = "fact"}
           K == {e \in Range(kept) : e.rid = r /\ e.kind = "fact"}
<1>1. Len(evs) \in Nat /\ n \in Nat /\ n <= Len(evs) /\ DOMAIN evs = 1 .. Len(evs)
  OBVIOUS
<1>2. /\ kept \in Seq(Events) /\ Len(kept) = Len(evs) - n
      /\ \A i \in 1 .. Len(evs) - n : kept[i] = evs[i + n]
  <2> HIDE DEF kept, gone, A, K
  <2>1. PICK m \in Int : m = n + 1
    BY <1>1
  <2>2. PICK l \in Nat : l = Len(evs)
    BY <1>1
  <2>3. ASSUME NEW i \in m .. l PROVE evs[i] \in Events
    <3>1. i \in 1 .. Len(evs)
      BY <1>1, <2>1, <2>2
    <3> QED
      BY <3>1
  <2>4. kept = SubSeq(evs, m, l)
    BY <2>1, <2>2 DEF kept
  <2>5. /\ kept \in Seq(Events)
        /\ Len(kept) = IF m <= l THEN l - m + 1 ELSE 0
        /\ \A i \in 1 .. l - m + 1 : kept[i] = evs[m + i - 1]
    BY <2>3, <2>4, SubSeqProperties
  <2>6. \A i \in 1 .. Len(evs) - n : m + i - 1 = i + n
    BY <1>1, <2>1
  <2>7. l - m + 1 = Len(evs) - n /\ (m <= l \/ Len(evs) - n = 0)
    <3>1. l - m + 1 = l - n
      BY <1>1, <2>1
    <3>2. l \in Nat /\ n <= l
      BY <1>1, <2>2
    <3>3. m <= l \/ l - n = 0
      BY <1>1, <2>1, <3>2
    <3> QED
      BY <2>2, <3>1, <3>3
  <2>8. Len(kept) = Len(evs) - n
    BY <1>1, <2>5, <2>7
  <2>9. \A i \in 1 .. Len(evs) - n : kept[i] = evs[i + n]
    BY <2>5, <2>6, <2>7
  <2> QED
    BY <2>5, <2>8, <2>9
<1> HIDE DEF kept
<1>3. gone \in SUBSET Range(evs)
  BY <1>1 DEF Range
<1>4. IsFiniteSet(gone)
  <2> HIDE DEF gone
  <2> QED
    BY <1>3, RangeFinite, FS_Subset
<1>5. IsFiniteSet(K) /\ IsFiniteSet(A) /\ FactsOf(kept, r) = Cardinality(K)
      /\ FactsOf(evs, r) = Cardinality(A)
  BY <1>2, FactsFinite DEF FactsOf
<1>6. A \subseteq K \cup gone
  <2> SUFFICES ASSUME NEW e \in A, e \notin gone PROVE e \in K
    OBVIOUS
  <2>1. PICK i \in 1 .. Len(evs) : evs[i] = e
    BY <1>1 DEF Range
  <2>2. ~(i <= n)
    BY <1>1, <2>1
  <2>3. PICK j \in 1 .. Len(evs) - n : j = i - n
    BY <1>1, <2>2
  <2>4. kept[j] = e
    <3>1. j + n = i
      BY <1>1, <2>3
    <3> QED
      BY <1>2, <2>1, <3>1
  <2>5. j \in DOMAIN kept
    BY <1>2, <1>1
  <2> QED
    BY <2>4, <2>5 DEF Range
<1> HIDE DEF A, K, gone
<1>7. /\ IsFiniteSet(K \cup gone)
      /\ Cardinality(K \cup gone) = Cardinality(K) + Cardinality(gone) - Cardinality(K \cap gone)
  BY <1>4, <1>5, FS_Union
<1>8. IsFiniteSet(K \cap gone)
  BY <1>5, FS_Intersection
<1>9. /\ Cardinality(K) \in Nat /\ Cardinality(gone) \in Nat /\ Cardinality(A) \in Nat
      /\ Cardinality(K \cap gone) \in Nat
  BY <1>4, <1>5, <1>8, FS_CardinalityType
<1>10. Cardinality(A) <= Cardinality(K \cup gone)
  BY <1>6, <1>7, FS_Subset
<1>11. FactsOf(evs, r) <= FactsOf(kept, r) + Cardinality(gone)
  BY <1>5, <1>7, <1>9, <1>10
<1> QED
  BY <1>2, <1>9, <1>11 DEF kept, gone

LEMMA FactsGrow ==
    ASSUME NEW evs \in Seq(Events), NEW new \in Seq(Events), NEW r
    PROVE  evs \o new \in Seq(Events) /\ FactsOf(evs, r) <= FactsOf(evs \o new, r)
<1> DEFINE all == evs \o new
           A == {e \in Range(evs) : e.rid = r /\ e.kind = "fact"}
           B == {e \in Range(all) : e.rid = r /\ e.kind = "fact"}
<1>1. all \in Seq(Events) /\ In(all) = In(evs) \cup In(new)
  BY InConcat
<1>2. A \in SUBSET B
  BY <1>1 DEF In, Range
<1>3. IsFiniteSet(B) /\ FactsOf(all, r) = Cardinality(B) /\ FactsOf(evs, r) = Cardinality(A)
  BY <1>1, FactsFinite DEF FactsOf
<1> HIDE DEF A, B
<1>4. Cardinality(A) <= Cardinality(B)
  BY <1>2, <1>3, FS_Subset
<1> QED
  BY <1>1, <1>3, <1>4

\* A fact whose number is not in the queue makes one more.
LEMMA FactsMore ==
    ASSUME NEW evs \in Seq(Events), NEW x \in Events, x.kind = "fact",
           \A i \in 1 .. Len(evs) : evs[i].id # x.id
    PROVE  FactsOf(evs \o <<x>>, x.rid) = FactsOf(evs, x.rid) + 1
<1> DEFINE one == <<x>>
           all == evs \o one
           A == {e \in Range(evs) : e.rid = x.rid /\ e.kind = "fact"}
           B == {e \in Range(all) : e.rid = x.rid /\ e.kind = "fact"}
<1>1. one \in Seq(Events) /\ In(one) = {x}
  BY InOne
<1> HIDE DEF one
<1>2. all \in Seq(Events) /\ In(all) = In(evs) \cup {x}
  BY <1>1, InConcat
<1>3. x \notin Range(evs)
  BY DEF Range
<1>4. B = A \cup {x} /\ x \notin A
  BY <1>2, <1>3 DEF In, Range
<1>5. /\ IsFiniteSet(A) /\ FactsOf(all, x.rid) = Cardinality(B)
      /\ FactsOf(evs, x.rid) = Cardinality(A)
  BY <1>1, FactsFinite DEF FactsOf
<1> HIDE DEF A, B
<1> QED
  BY <1>4, <1>5, FS_AddElement DEF one

-----------------------------------------------------------------------------
(* Acknowledgements. *)

\* Whatever a client that has got the events below g acknowledges.
LEMMA Acknowledged ==
    ASSUME NEW ch \in ChannelType, NEW g \in Nat, NEW upto \in 0 .. g,
           Queued(ch, g), Counted(ch)
    PROVE  LET c == acknowledge_events(ch, upto) IN
           /\ c \in ChannelType /\ Queued(c, g) /\ Counted(c)
           /\ c.st = ch.st /\ c.duct = ch.duct /\ c.timer = ch.timer /\ c.heart = ch.heart
           /\ c.life = ch.life /\ c.next = ch.next /\ c.subs = ch.subs
<1> DEFINE evs == ch.events
           n == Pruned(evs, upto)
           kept == SubSeq(evs, n + 1, Len(evs))
           acked(r) == Cardinality({e \in {evs[i] : i \in 1 .. n} : e.rid = r})
           c == acknowledge_events(ch, upto)
<1>1. /\ evs \in Seq(Events) /\ Len(evs) \in Nat /\ ch.next \in Nat /\ upto \in Nat
      /\ ch.unacked \in [Rids -> Nat]
  BY DEF ChannelType
<1>2. PICK a \in Nat : a = ch.next - Len(evs)
  BY <1>1 DEF Queued
<1>3. a + Len(evs) = ch.next /\ a <= g
  BY <1>1, <1>2 DEF Queued
<1>4. \A i \in 1 .. Len(evs) : evs[i].id = a + i - 1
  BY <1>2 DEF Queued
<1>5. n \in 0 .. Len(evs) /\ \A i \in 1 .. n : evs[i].id < upto
  <2> HIDE DEF evs
  <2> QED
    BY <1>1, <1>4, PrunedPrefix
<1>6. c = [ch EXCEPT !.events = kept,
             !.unacked = [r \in Rids |-> IF ch.unacked[r] <= acked(r) THEN 0
                                        ELSE ch.unacked[r] - acked(r)]]
  BY DEF acknowledge_events
<1> HIDE DEF n, c
<1>7. /\ kept \in Seq(Events) /\ Len(kept) = Len(evs) - n
      /\ \A i \in 1 .. Len(evs) - n : kept[i] = evs[i + n]
  BY <1>1, <1>5, FactsPruned
<1>8. ASSUME NEW r \in Rids
      PROVE  /\ acked(r) \in Nat
             /\ FactsOf(evs, r) <= FactsOf(kept, r) + acked(r)
  BY <1>1, <1>5, FactsPruned
<1> HIDE DEF acked, kept
<1>9. \A r \in Rids : acked(r) \in Nat
  BY <1>8
<1> DEFINE un == [r \in Rids |-> IF ch.unacked[r] <= acked(r) THEN 0
                                        ELSE ch.unacked[r] - acked(r)]
<1>10. un \in [Rids -> Nat]
  BY <1>1, <1>9
<1>11. /\ c.events = kept /\ c.unacked = un
       /\ c.st = ch.st /\ c.duct = ch.duct /\ c.timer = ch.timer /\ c.heart = ch.heart
       /\ c.life = ch.life /\ c.next = ch.next /\ c.subs = ch.subs
  <2> HIDE DEF un
  <2> QED
    BY <1>6 DEF ChannelType, un
<1>12. c \in ChannelType
  <2> HIDE DEF un
  <2> QED
    BY <1>6, <1>7, <1>10 DEF ChannelType, un
<1>13. Queued(c, g)
  <2>1. Len(kept) \in Nat /\ n \in Nat /\ Len(kept) + n = Len(evs)
    BY <1>1, <1>5, <1>7
  <2>2. n = 0 \/ a + n - 1 < upto
    <3>1. n \in 1 .. Len(evs) => evs[n].id = a + n - 1
      BY <1>4
    <3>2. n # 0 => evs[n].id < upto
      BY <1>5
    <3> QED
      BY <1>1, <1>5, <3>1, <3>2
  <2>3. ch.next - Len(kept) = a + n
    BY <1>1, <1>3, <2>1
  <2>4. a + n <= g
    BY <1>3, <2>1, <2>2
  <2>5. ASSUME NEW i \in 1 .. Len(kept) PROVE kept[i].id = a + n + i - 1
    <3>1. i \in 1 .. Len(evs) - n /\ i + n \in 1 .. Len(evs)
      BY <1>1, <2>1
    <3>2. kept[i] = evs[i + n]
      BY <1>7, <3>1
    <3>3. evs[i + n].id = a + (i + n) - 1
      BY <1>4, <3>1
    <3>4. a + (i + n) - 1 = a + n + i - 1
      BY <2>1
    <3> QED
      BY <3>2, <3>3, <3>4
  <2>6. Len(kept) <= ch.next
    BY <1>1, <1>3, <2>1
  <2> QED
    BY <1>11, <2>3, <2>4, <2>5, <2>6 DEF Queued
<1>14. Counted(c)
  <2> SUFFICES ASSUME NEW r \in Rids PROVE un[r] <= FactsOf(kept, r)
    BY <1>11 DEF Counted
  <2>1. ch.unacked[r] <= FactsOf(evs, r) /\ ch.unacked[r] \in Nat
    BY <1>1 DEF Counted
  <2>2. FactsOf(evs, r) \in Nat /\ FactsOf(kept, r) \in Nat
    BY <1>1, <1>7, FactsFinite
  <2> QED
    BY <1>8, <2>1, <2>2
<1> QED
  BY <1>11, <1>12, <1>13, <1>14 DEF c

-----------------------------------------------------------------------------
(* Gall and Behn. *)

LEMMA TimingsApart ==
    /\ \A t, u : Timeout(t) = Timeout(u) => t = u
    /\ \A d, e : Heartbeat(d) = Heartbeat(e) => d = e
    /\ \A t, d : Timeout(t) # Heartbeat(d)
BY DEF Timeout, Heartbeat

LEMMA WorldIs ==
    ASSUME TypeOK
    PROVE  World \in Worlds /\ World.gall = gall /\ World.pokes = pokes /\ World.behn = behn
BY DEF TypeOK, World, Worlds

LEMMA WaitedIs ==
    ASSUME NEW w \in Worlds, NEW ts \in SUBSET Timings
    PROVE  /\ Waited(w, ts) \in Worlds /\ Rested(w, ts) \in Worlds
           /\ Waited(w, ts).gall = w.gall /\ Waited(w, ts).behn = w.behn \cup ts
           /\ Rested(w, ts).gall = w.gall /\ Rested(w, ts).behn = w.behn \ ts
BY DEF Worlds, Waited, Rested

\* A %rest also of what was never set.
LEMMA RestedIs ==
    ASSUME NEW w \in Worlds, NEW ts
    PROVE  Rested(w, ts) \in Worlds /\ Rested(w, ts).gall = w.gall
           /\ Rested(w, ts).behn = w.behn \ ts
BY DEF Worlds, Rested

LEMMA WatchedIs ==
    ASSUME NEW w \in Worlds, NEW r \in Rids
    PROVE  /\ Watched(w, r) \in Worlds /\ Watched(w, r).behn = w.behn
           /\ \A q \in Rids : Watched(w, r).gall[q] = IF q = r THEN "asked" ELSE w.gall[q]
BY DEF Worlds, Watches, Watched

LEMMA LeftIs ==
    ASSUME NEW w \in Worlds, NEW rs
    PROVE  /\ Left(w, rs) \in Worlds /\ Left(w, rs).behn = w.behn
           /\ \A q \in Rids : Left(w, rs).gall[q] = IF q \in rs THEN "none" ELSE w.gall[q]
<1> DEFINE g == [q \in Rids |-> IF q \in rs THEN "none" ELSE w.gall[q]]
<1>1. w.gall \in Watches
  BY DEF Worlds
<1>2. g \in Watches /\ \A q \in Rids : g[q] = IF q \in rs THEN "none" ELSE w.gall[q]
  BY <1>1 DEF Watches
<1> HIDE DEF g
<1>3. [w EXCEPT !.gall = g] \in Worlds /\ [w EXCEPT !.gall = g].behn = w.behn
      /\ [w EXCEPT !.gall = g].gall = g
  BY <1>2 DEF Worlds
<1>4. Left(w, rs) = [w EXCEPT !.gall = g]
  BY DEF Left, g
<1> QED
  BY <1>2, <1>3, <1>4

LEMMA BecomesIs ==
    ASSUME NEW w \in Worlds, Becomes(w)
    PROVE  gall' = w.gall /\ behn' = w.behn
           /\ gall' \in Watches /\ pokes' \in Nat /\ behn' \subseteq Timings
BY DEF Becomes, Worlds

\* What a discarded channel leaves of the subscriptions in Gall and of the timers.
LEMMA DiscardedIs ==
    ASSUME NEW w \in Worlds, NEW ch, NEW expired \in BOOLEAN, NEW told
    PROVE  LET d == Discarded(ch, expired, told, w) IN
           /\ d \in Worlds
           /\ d.behn = w.behn \ ({Heartbeat(ch.heart)} \cup
                         (IF expired \/ ch.st # "wait" THEN {} ELSE {Timeout(ch.timer)}))
           /\ \A q \in Rids : d.gall[q] = IF q \in ch.subs /\ q \notin told
                                          THEN "none" ELSE w.gall[q]
<1> DEFINE rs == ch.subs \ told
           ts == {Heartbeat(ch.heart)} \cup
                 (IF expired \/ ch.st # "wait" THEN {} ELSE {Timeout(ch.timer)})
<1>1. Discarded(ch, expired, told, w) = Rested(Left(w, rs), ts)
  BY DEF Discarded
<1>2. \A q : q \in rs <=> q \in ch.subs /\ q \notin told
  OBVIOUS
<1> HIDE DEF rs
<1>3. PICK x \in Worlds : x = Left(w, rs)
  BY LeftIs
<1>4. x.behn = w.behn /\ \A q \in Rids : x.gall[q] = IF q \in rs THEN "none" ELSE w.gall[q]
  BY <1>3, LeftIs
<1>5. Rested(x, ts) \in Worlds /\ Rested(x, ts).gall = x.gall /\ Rested(x, ts).behn = x.behn \ ts
  <2> HIDE DEF ts
  <2> QED
    BY RestedIs
<1> HIDE DEF ts
<1>6. Discarded(ch, expired, told, w) = Rested(x, ts)
  BY <1>1, <1>3
<1> QED
  BY <1>2, <1>4, <1>5, <1>6 DEF ts

\* The name of a timer that is not in use.
LEMMA NewTimerIs ==
    ASSUME TypeOK, TimerInv, Exists \/ client # "quit"
    PROVE  NewTimer \in Timers /\ Timeout(NewTimer) \in Timings
           /\ NewTimer # chan.timer
<1>1. \A t \in Timers : t # chan.timer => Timeout(t) \notin behn
  BY DEF TimerInv
<1>2. \E t \in Timers : t # chan.timer /\ Timeout(t) \notin behn
  <2>1. 1 \in Timers /\ 2 \in Timers /\ 1 # 2
    BY DEF Timers
  <2> QED
    BY <1>1, <2>1
<1>3. NewTimer \in Timers /\ NewTimer # chan.timer
  BY <1>2 DEF NewTimer
<1> QED
  BY <1>3 DEF Timings

-----------------------------------------------------------------------------
(* The commands of a PUT. *)

\* All of a channel that commands do not change.
Steady(c, ch) ==
    /\ c.st = ch.st /\ c.duct = ch.duct /\ c.timer = ch.timer /\ c.heart = ch.heart
    /\ c.life = ch.life /\ c.next = ch.next

\* What commands other than a %delete have made of the channel ch.
Ran(acc, ch) ==
    /\ acc \in [ch : ChannelType, world : Worlds, told : SUBSET Rids]
    /\ Queued(acc.ch, got) /\ Counted(acc.ch) /\ Steady(acc.ch, ch)
    /\ acc.world.behn = behn
    /\ Held(acc.ch, acc.world.gall)
    /\ \A r \in acc.told : acc.world.gall[r] # "live"

LEMMA CommandIs ==
    ASSUME NEW acc, NEW k
    PROVE  /\ Command(acc, Cmd("ack", k)) = [acc EXCEPT !.ch = acknowledge_events(acc.ch, k)]
           /\ Command(acc, Cmd("poke", k)) = [acc EXCEPT !.world = Poked(acc.world)]
           /\ Command(acc, Cmd("subscribe", k)) =
                [ch |-> [acc.ch EXCEPT !.subs = acc.ch.subs \cup {k}],
                 world |-> Watched(acc.world, k), told |-> acc.told \cup {k}]
           /\ Command(acc, Cmd("unsubscribe", k)) =
                IF k \in acc.ch.subs
                THEN [ch |-> [acc.ch EXCEPT !.subs = acc.ch.subs \ {k},
                                            !.unacked = [acc.ch.unacked EXCEPT ![k] = 0]],
                      world |-> Left(acc.world, {k}), told |-> acc.told \cup {k}]
                ELSE acc
<1>1. /\ Cmd("ack", k).tag = "ack" /\ Cmd("ack", k).id = k
      /\ Cmd("poke", k).tag = "poke"
      /\ Cmd("subscribe", k).tag = "subscribe" /\ Cmd("subscribe", k).id = k
      /\ Cmd("unsubscribe", k).tag = "unsubscribe" /\ Cmd("unsubscribe", k).id = k
  BY DEF Cmd
<1>2. Command(acc, Cmd("ack", k)) = [acc EXCEPT !.ch = acknowledge_events(acc.ch, k)]
  BY <1>1 DEF Command
<1>3. Command(acc, Cmd("poke", k)) = [acc EXCEPT !.world = Poked(acc.world)]
  BY <1>1 DEF Command
<1>4. Command(acc, Cmd("subscribe", k)) =
        [ch |-> [acc.ch EXCEPT !.subs = acc.ch.subs \cup {k}],
         world |-> Watched(acc.world, k), told |-> acc.told \cup {k}]
  BY <1>1 DEF Command
<1>5. CASE k \in acc.ch.subs
  BY <1>1, <1>2, <1>3, <1>4, <1>5 DEF Command
<1>6. CASE k \notin acc.ch.subs
  BY <1>1, <1>2, <1>3, <1>4, <1>6 DEF Command
<1> QED
  BY <1>5, <1>6

LEMMA DeleteIs ==
    ASSUME NEW acc, NEW expired \in BOOLEAN, ~expired
    PROVE  Command(acc, Delete) =
             [ch |-> NoChannel, world |-> Discarded(acc.ch, expired, acc.told, acc.world),
              told |-> acc.told]
<1>1. Delete.tag = "delete"
  BY DEF Cmd, Delete
<1>2. expired = FALSE
  OBVIOUS
<1> QED
  BY <1>1, <1>2 DEF Command

LEMMA AckRuns ==
    ASSUME TypeOK, NEW ch, NEW acc, Ran(acc, ch), NEW k \in 1 .. got
    PROVE  Ran(Command(acc, Cmd("ack", k)), ch)
<1>1. acc.ch \in ChannelType /\ got \in Nat /\ k \in 0 .. got
  BY DEF Ran, TypeOK
<1>2. PICK c : c = acknowledge_events(acc.ch, k)
  OBVIOUS
<1>3. PICK a : a = Command(acc, Cmd("ack", k))
  OBVIOUS
<1>4. a = [acc EXCEPT !.ch = c]
  BY <1>2, <1>3, CommandIs
<1>5. /\ c \in ChannelType /\ Queued(c, got) /\ Counted(c) /\ Steady(c, acc.ch)
      /\ c.subs = acc.ch.subs
  <2>1. Queued(acc.ch, got) /\ Counted(acc.ch)
    BY DEF Ran
  <2> QED
    BY <1>1, <1>2, <2>1, Acknowledged DEF Steady
<1>6. /\ a \in [ch : ChannelType, world : Worlds, told : SUBSET Rids]
      /\ a.ch = c /\ a.world = acc.world /\ a.told = acc.told
  BY <1>4, <1>5 DEF Ran
<1> QED
  BY <1>3, <1>5, <1>6 DEF Ran, Steady, Held

LEMMA PokeRuns ==
    ASSUME TypeOK, NEW ch, NEW acc, Ran(acc, ch), NEW k
    PROVE  Ran(Command(acc, Cmd("poke", k)), ch)
<1>1. PICK w : w = Poked(acc.world)
  OBVIOUS
<1>2. PICK a : a = Command(acc, Cmd("poke", k))
  OBVIOUS
<1>3. a = [acc EXCEPT !.world = w]
  BY <1>1, <1>2, CommandIs
<1>4. w \in Worlds /\ w.gall = acc.world.gall /\ w.behn = acc.world.behn
  <2>1. acc.world \in Worlds
    BY DEF Ran
  <2> QED
    BY <1>1, <2>1 DEF Poked, Worlds
<1>5. /\ a \in [ch : ChannelType, world : Worlds, told : SUBSET Rids]
      /\ a.ch = acc.ch /\ a.world = w /\ a.told = acc.told
  BY <1>3, <1>4 DEF Ran
<1> QED
  BY <1>2, <1>4, <1>5 DEF Ran

LEMMA SubscribeRuns ==
    ASSUME TypeOK, NEW ch, NEW acc, Ran(acc, ch), NEW r \in Rids
    PROVE  Ran(Command(acc, Cmd("subscribe", r)), ch)
<1>1. acc.ch \in ChannelType /\ acc.world \in Worlds /\ acc.told \in SUBSET Rids
  BY DEF Ran
<1>2. PICK c : c = [acc.ch EXCEPT !.subs = acc.ch.subs \cup {r}]
  OBVIOUS
<1>3. PICK w : w = Watched(acc.world, r)
  OBVIOUS
<1>4. PICK a : a = Command(acc, Cmd("subscribe", r))
  OBVIOUS
<1>5. a = [ch |-> c, world |-> w, told |-> acc.told \cup {r}]
  BY <1>2, <1>3, <1>4, CommandIs
<1>6. /\ c \in ChannelType /\ Steady(c, acc.ch)
      /\ c.subs = acc.ch.subs \cup {r} /\ c.events = acc.ch.events
      /\ c.unacked = acc.ch.unacked
  BY <1>1, <1>2 DEF ChannelType, Steady
<1>7. /\ w \in Worlds /\ w.behn = acc.world.behn
      /\ \A q \in Rids : w.gall[q] = IF q = r THEN "asked" ELSE acc.world.gall[q]
  BY <1>1, <1>3, WatchedIs
<1>8. Queued(c, got) /\ Counted(c)
  BY <1>6 DEF Ran, Queued, Counted, Steady
<1>9. Held(c, w.gall)
  BY <1>6, <1>7 DEF Ran, Held
<1>10. \A q \in acc.told \cup {r} : w.gall[q] # "live"
  BY <1>1, <1>7 DEF Ran
<1> QED
  BY <1>1, <1>4, <1>5, <1>6, <1>7, <1>8, <1>9, <1>10 DEF Ran, Steady

LEMMA UnsubscribeRuns ==
    ASSUME TypeOK, NEW ch, NEW acc, Ran(acc, ch), NEW r \in Rids
    PROVE  Ran(Command(acc, Cmd("unsubscribe", r)), ch)
<1>1. acc.ch \in ChannelType /\ acc.world \in Worlds /\ acc.told \in SUBSET Rids
  BY DEF Ran
<1>2. PICK un : un = [acc.ch.unacked EXCEPT ![r] = 0]
  OBVIOUS
<1>3. PICK c : c = [acc.ch EXCEPT !.subs = acc.ch.subs \ {r}, !.unacked = un]
  OBVIOUS
<1>4. PICK w : w = Left(acc.world, {r})
  OBVIOUS
<1>5. PICK a : a = Command(acc, Cmd("unsubscribe", r))
  OBVIOUS
<1>6. CASE r \notin acc.ch.subs
  BY <1>5, <1>6, CommandIs
<1>7. CASE r \in acc.ch.subs
  <2>1. a = [ch |-> c, world |-> w, told |-> acc.told \cup {r}]
    BY <1>2, <1>3, <1>4, <1>5, <1>7, CommandIs
  <2>2. un \in [Rids -> Nat] /\ un[r] = 0
        /\ \A q \in Rids : q # r => un[q] = acc.ch.unacked[q]
    BY <1>1, <1>2 DEF ChannelType
  <2>3. /\ c \in ChannelType /\ Steady(c, acc.ch)
        /\ c.subs = acc.ch.subs \ {r} /\ c.events = acc.ch.events
        /\ c.unacked = un
    BY <1>1, <1>3, <2>2 DEF ChannelType, Steady
  <2>4. /\ w \in Worlds /\ w.behn = acc.world.behn
        /\ \A q \in Rids : w.gall[q] = IF q = r THEN "none" ELSE acc.world.gall[q]
    <3>1. \A q : q \in {r} <=> q = r
      OBVIOUS
    <3> QED
      BY <1>1, <1>4, <3>1, LeftIs
  <2>5. Queued(c, got)
    BY <2>3 DEF Ran, Queued, Steady
  <2>6. Counted(c)
    <3> SUFFICES ASSUME NEW q \in Rids PROVE un[q] <= FactsOf(c.events, q)
      BY <2>3 DEF Counted
    <3>1. FactsOf(c.events, q) \in Nat
      <4>1. c.events \in Seq(Events)
        BY <2>3 DEF ChannelType
      <4> QED
        BY <4>1, FactsFinite
    <3>2. acc.ch.unacked[q] <= FactsOf(c.events, q)
      BY <2>3 DEF Ran, Counted
    <3> QED
      BY <2>2, <3>1, <3>2
  <2>7. Held(c, w.gall)
    BY <2>3, <2>4 DEF Ran, Held
  <2>8. \A q \in acc.told \cup {r} : w.gall[q] # "live"
    BY <1>1, <2>4 DEF Ran
  <2> QED
    BY <1>1, <1>5, <2>1, <2>3, <2>4, <2>5, <2>6, <2>7, <2>8 DEF Ran, Steady
<1> QED
  BY <1>6, <1>7

LEMMA CommandRuns ==
    ASSUME TypeOK, NEW ch, NEW acc, Ran(acc, ch), NEW cmd \in Commands
    PROVE  Ran(Command(acc, cmd), ch)
<1>1. used \subseteq Rids
  BY DEF TypeOK
<1>2. CASE \E k \in 1 .. got : cmd = Cmd("ack", k)
  BY <1>2, AckRuns
<1>3. CASE cmd = Cmd("poke", 0)
  BY <1>3, PokeRuns
<1>4. CASE \E r \in Rids \ used : cmd = Cmd("subscribe", r)
  BY <1>4, SubscribeRuns
<1>5. CASE \E r \in used : cmd = Cmd("unsubscribe", r)
  BY <1>1, <1>5, UnsubscribeRuns
<1> QED
  BY <1>2, <1>3, <1>4, <1>5 DEF Commands

LEMMA DeleteRuns ==
    ASSUME NEW ch, NEW acc, Ran(acc, ch)
    PROVE  LET d == Command(acc, Delete) IN
           /\ d.ch = NoChannel /\ d.world \in Worlds
           /\ \A r \in Rids : d.world.gall[r] # "live"
           /\ d.world.behn = behn \ ({Heartbeat(ch.heart)} \cup
                (IF ch.st # "wait" THEN {} ELSE {Timeout(ch.timer)}))
<1>0. PICK expired \in BOOLEAN : ~expired
  OBVIOUS
<1>1. PICK x : x = Discarded(acc.ch, expired, acc.told, acc.world)
  OBVIOUS
<1>2. PICK d : d = Command(acc, Delete)
  OBVIOUS
<1>3. d.ch = NoChannel /\ d.world = x
  <2>1. Command(acc, Delete) =
           [ch |-> NoChannel, world |-> Discarded(acc.ch, expired, acc.told, acc.world),
            told |-> acc.told]
    BY <1>0, DeleteIs
  <2> QED
    BY <1>1, <1>2, <2>1
<1>4. /\ x \in Worlds
      /\ x.behn = acc.world.behn \ ({Heartbeat(acc.ch.heart)} \cup
                (IF expired \/ acc.ch.st # "wait" THEN {} ELSE {Timeout(acc.ch.timer)}))
      /\ \A q \in Rids : x.gall[q] = IF q \in acc.ch.subs /\ q \notin acc.told
                                     THEN "none" ELSE acc.world.gall[q]
  <2>1. PICK w \in Worlds : w = acc.world
    BY DEF Ran
  <2>2. PICK c : c = acc.ch
    OBVIOUS
  <2>3. PICK told : told = acc.told
    OBVIOUS
  <2>4. x = Discarded(c, expired, told, w)
    BY <1>1, <2>1, <2>2, <2>3
  <2>5. /\ x \in Worlds
        /\ x.behn = w.behn \ ({Heartbeat(c.heart)} \cup
                  (IF expired \/ c.st # "wait" THEN {} ELSE {Timeout(c.timer)}))
        /\ \A q \in Rids : x.gall[q] = IF q \in c.subs /\ q \notin told
                                       THEN "none" ELSE w.gall[q]
    BY <2>4, DiscardedIs
  <2> QED
    BY <2>1, <2>2, <2>3, <2>5
<1>5. ASSUME NEW q \in Rids PROVE x.gall[q] # "live"
  <2>1. CASE q \in acc.told
    BY <1>4, <2>1 DEF Ran
  <2>2. CASE q \notin acc.told
    BY <1>4, <2>2 DEF Ran, Held
  <2> QED
    BY <2>1, <2>2
<1>6. x.behn = behn \ ({Heartbeat(ch.heart)} \cup
                (IF ch.st # "wait" THEN {} ELSE {Timeout(ch.timer)}))
  BY <1>0, <1>4 DEF Ran, Steady
<1> QED
  BY <1>2, <1>3, <1>4, <1>5, <1>6

\* What a %delete has made of the channel ch.
Deleted(acc, ch) ==
    /\ acc.ch = NoChannel /\ acc.world \in Worlds
    /\ \A r \in Rids : acc.world.gall[r] # "live"
    /\ acc.world.behn = behn \ ({Heartbeat(ch.heart)} \cup
                (IF ch.st # "wait" THEN {} ELSE {Timeout(ch.timer)}))

Deleting(cmds) == cmds # <<>> /\ Last(cmds) = Delete

LEMMA BatchRuns ==
    ASSUME TypeOK, NEW ch, NEW acc, Ran(acc, ch), NEW cmds \in Batches
    PROVE  IF Deleting(cmds) THEN Deleted(Executed(acc, cmds), ch)
                             ELSE Ran(Executed(acc, cmds), ch)
<1>1. ASSUME NEW c \in Commands PROVE c # Delete
  BY DEF Commands, Cmd, Delete
<1>2. CASE cmds = <<>>
  BY <1>2 DEF Deleting, Executed
<1>3. CASE cmds = <<Delete>>
  <2>1. Deleting(cmds) /\ Executed(acc, cmds) = Command(acc, Delete)
    BY <1>3 DEF Deleting, Last, Executed
  <2>2. PICK d : d = Command(acc, Delete)
    OBVIOUS
  <2>3. Deleted(d, ch)
    BY <2>2, DeleteRuns DEF Deleted
  <2> QED
    BY <2>1, <2>2, <2>3
<1>4. CASE \E c \in Commands : cmds = <<c>>
  <2>1. PICK c \in Commands : cmds = <<c>>
    BY <1>4
  <2>2. ~Deleting(cmds) /\ Executed(acc, cmds) = Command(acc, c)
    BY <1>1, <2>1 DEF Deleting, Last, Executed
  <2> QED
    BY <2>2, CommandRuns
<1>5. CASE \E c \in Commands : cmds = <<c, Delete>>
  <2>1. PICK c \in Commands : cmds = <<c, Delete>>
    BY <1>5
  <2>2. Deleting(cmds) /\ Executed(acc, cmds) = Command(Command(acc, c), Delete)
    BY <2>1 DEF Deleting, Last, Executed
  <2>3. PICK b : b = Command(acc, c)
    OBVIOUS
  <2>4. Ran(b, ch)
    BY <2>3, CommandRuns
  <2>5. PICK d : d = Command(b, Delete)
    OBVIOUS
  <2>6. Deleted(d, ch)
    BY <2>4, <2>5, DeleteRuns DEF Deleted
  <2> QED
    BY <2>2, <2>3, <2>5, <2>6
<1> QED
  BY <1>2, <1>3, <1>4, <1>5 DEF Batches

-----------------------------------------------------------------------------
(* Channels that are made, kept and discarded. *)

LEMMA NoChannelIs ==
    /\ NoChannel \in ChannelType /\ Formed(NoChannel) /\ Counted(NoChannel)
    /\ \A g \in Nat : Queued(NoChannel, g)
    /\ NoChannel.st = "none" /\ NoChannel.duct = NoDuct /\ NoChannel.subs = {}
    /\ NoChannel.next = 0
<1> DEFINE un == [r \in Rids |-> 0]
<1>1. un \in [Rids -> Nat] /\ \A r \in Rids : un[r] = 0
  OBVIOUS
<1>2. <<>> \in Seq(Events) /\ Len(<<>>) = 0
  OBVIOUS
<1> HIDE DEF un
<1>3. /\ NoChannel \in ChannelType /\ NoChannel.st = "none" /\ NoChannel.duct = NoDuct
      /\ NoChannel.subs = {} /\ NoChannel.next = 0 /\ NoChannel.events = <<>>
      /\ NoChannel.unacked = un
  BY <1>1, <1>2 DEF NoChannel, ChannelType, un
<1>4. Counted(NoChannel)
  <2>1. ASSUME NEW r \in Rids PROVE FactsOf(<<>>, r) \in Nat
    BY <1>2, FactsFinite
  <2> QED
    BY <1>1, <1>3, <2>1 DEF Counted
<1>5. ASSUME NEW g \in Nat PROVE Queued(NoChannel, g)
  BY <1>2, <1>3 DEF Queued
<1> QED
  BY <1>3, <1>4, <1>5 DEF Formed

LEMMA FlightKept ==
    ASSUME FlightInv, UNCHANGED <<eff, stream, got>>,
           chan'.st = "listen" => /\ chan.st = "listen" /\ chan'.duct = chan.duct
                                  /\ chan'.next = chan.next
    PROVE  FlightInv'
<1>1. InOrder(stream)' <=> InOrder(stream)
  BY DEF InOrder
<1>2. UnderWay(stream)' = UnderWay(stream)
  BY DEF UnderWay
<1> QED
  BY <1>1, <1>2 DEF FlightInv

\* The channel a PUT starts from, and what it does to the timers.
LEMMA StartRuns ==
    ASSUME IInv, client # "quit"
    PROVE  LET start == update_timeout_timer_for IN
           /\ Ran([ch |-> start.ch, world |-> World, told |-> {}], start.ch)
           /\ \/ /\ chan.st = "listen" /\ start.ch = chan
                 /\ start.rests = {} /\ start.waits = {}
              \/ /\ chan.st # "listen" /\ start.ch.st = "wait"
                 /\ start.ch.duct = NoDuct /\ start.ch.heart = NoDuct
                 /\ start.ch.timer = NewTimer /\ NewTimer \in Timers
                 /\ start.waits = {Timeout(NewTimer)}
                 /\ start.rests = IF Exists THEN {Timeout(chan.timer)} ELSE {}
<1> DEFINE start == update_timeout_timer_for
           acc(c) == [ch |-> c, world |-> World, told |-> {}]
<1>1. /\ chan \in ChannelType /\ got \in Nat /\ Formed(chan) /\ Queued(chan, got)
      /\ Counted(chan) /\ TypeOK /\ TimerInv /\ lives \in 0 .. 2
  BY DEF IInv, TypeOK, ChannelInv
<1>2. NewTimer \in Timers
  BY <1>1, NewTimerIs
<1>3. Held(chan, gall)
  BY DEF IInv, SubsInv
<1>4. World \in Worlds /\ World.gall = gall /\ World.behn = behn
  BY <1>1, WorldIs
<1>5. ASSUME NEW c \in ChannelType, Queued(c, got), Counted(c), c.subs = chan.subs
      PROVE  Ran(acc(c), c)
  BY <1>3, <1>4, <1>5 DEF Ran, Steady, Held
<1>6. CASE chan.st = "listen"
  <2>1. start = [ch |-> chan, rests |-> {}, waits |-> {}]
    BY <1>6 DEF update_timeout_timer_for, Exists
  <2>2. start.ch = chan /\ start.rests = {} /\ start.waits = {}
    BY <2>1
  <2> HIDE DEF start, acc
  <2> QED
    BY <1>1, <1>5, <1>6, <2>2 DEF start, acc
<1>7. CASE chan.st = "wait"
  <2>1. PICK c : c = [chan EXCEPT !.timer = NewTimer]
    OBVIOUS
  <2>2. start = [ch |-> c, rests |-> {Timeout(chan.timer)}, waits |-> {Timeout(NewTimer)}]
    BY <1>7, <2>1 DEF update_timeout_timer_for, Exists
  <2>3. /\ c \in ChannelType /\ c.st = "wait" /\ c.duct = chan.duct /\ c.heart = chan.heart
        /\ c.timer = NewTimer /\ c.next = chan.next /\ c.events = chan.events
        /\ c.unacked = chan.unacked /\ c.subs = chan.subs
    BY <1>1, <1>2, <1>7, <2>1 DEF ChannelType
  <2>4. Queued(c, got) /\ Counted(c)
    BY <1>1, <2>3 DEF Queued, Counted
  <2>5. Ran(acc(c), c)
    BY <1>5, <2>3, <2>4
  <2>6. c.duct = NoDuct /\ c.heart = NoDuct
    BY <1>1, <1>7, <2>3 DEF Formed
  <2>7. start.ch = c /\ start.rests = {Timeout(chan.timer)} /\ start.waits = {Timeout(NewTimer)}
    BY <2>2
  <2> HIDE DEF start, acc
  <2> QED
    BY <1>2, <1>7, <2>3, <2>5, <2>6, <2>7 DEF start, acc, Exists
<1>8. CASE chan.st = "none"
  <2>1. PICK life \in 0 .. 2 : life = Another
    BY DEF Another
  <2>2. PICK c : c = [NoChannel EXCEPT !.st = "wait", !.timer = NewTimer, !.life = life]
    OBVIOUS
  <2>3. start = [ch |-> c, rests |-> {}, waits |-> {Timeout(NewTimer)}]
    BY <1>8, <2>1, <2>2 DEF update_timeout_timer_for, Exists
  <2>4. chan = NoChannel
    BY <1>1, <1>8 DEF Formed
  <2>5. /\ c \in ChannelType /\ c.st = "wait" /\ c.duct = chan.duct /\ c.heart = chan.heart
        /\ c.timer = NewTimer /\ c.next = chan.next /\ c.events = chan.events
        /\ c.unacked = chan.unacked /\ c.subs = chan.subs
    BY <1>1, <1>2, <2>2, <2>4 DEF ChannelType
  <2>6. Queued(c, got) /\ Counted(c)
    BY <1>1, <2>5 DEF Queued, Counted
  <2>7. Ran(acc(c), c)
    BY <1>5, <2>5, <2>6
  <2>8. c.duct = NoDuct /\ c.heart = NoDuct
    BY <2>4, <2>5 DEF NoChannel
  <2>9. start.ch = c /\ start.rests = {} /\ start.waits = {Timeout(NewTimer)}
    BY <2>3
  <2> HIDE DEF start, acc
  <2> QED
    BY <1>2, <1>8, <2>5, <2>7, <2>8, <2>9 DEF start, acc, Exists
<1>9. chan.st \in {"none", "wait", "listen"}
  BY <1>1 DEF ChannelType
<1> QED
  BY <1>6, <1>7, <1>8, <1>9

-----------------------------------------------------------------------------
(* What the client does. *)

LEMMA PutStep ==
    ASSUME IInv, NEW cmds \in Batches, Put(cmds)
    PROVE  IInv'
<1> DEFINE start == update_timeout_timer_for
           acc == [ch |-> start.ch, world |-> World, told |-> {}]
<1>1. /\ TypeOK /\ client # "quit"
      /\ client' = IF Deleting(cmds) THEN "quit" ELSE "on"
      /\ stream' = IF Deleting(cmds) THEN NoDuct ELSE stream
      /\ used' \subseteq Rids
      /\ UNCHANGED <<open, got, connections, cookie, eff>>
  BY DEF Put, on_put_request, Deleting, IInv, TypeOK
<1>2. PICK end : end = Executed(acc, cmds)
  OBVIOUS
<1>3. /\ chan' = end.ch /\ lives' = IF Exists THEN lives ELSE Another
      /\ key' = IF end.ch.st = "none" THEN KeyLeft ELSE key
      /\ Becomes(Waited(Rested(end.world, start.rests), start.waits))
  BY <1>2 DEF Put, on_put_request
<1>4. lives' \in 0 .. 2
  BY <1>1, <1>3 DEF TypeOK, Another
<1>5. /\ Ran(acc, start.ch)
      /\ \/ /\ chan.st = "listen" /\ start.ch = chan
            /\ start.rests = {} /\ start.waits = {}
         \/ /\ chan.st # "listen" /\ start.ch.st = "wait"
            /\ start.ch.duct = NoDuct /\ start.ch.heart = NoDuct
            /\ start.ch.timer = NewTimer /\ NewTimer \in Timers
            /\ start.waits = {Timeout(NewTimer)}
            /\ start.rests = IF Exists THEN {Timeout(chan.timer)} ELSE {}
  BY <1>1, StartRuns
<1>6. PICK ch0 : ch0 = start.ch
  OBVIOUS
<1>7. PICK rests : rests = start.rests
  OBVIOUS
<1>8. PICK waits : waits = start.waits
  OBVIOUS
<1>9. \/ /\ chan.st = "listen" /\ ch0 = chan /\ rests = {} /\ waits = {}
      \/ /\ chan.st # "listen" /\ ch0.st = "wait"
         /\ ch0.duct = NoDuct /\ ch0.heart = NoDuct
         /\ ch0.timer = NewTimer /\ NewTimer \in Timers
         /\ waits = {Timeout(NewTimer)}
         /\ rests = IF Exists THEN {Timeout(chan.timer)} ELSE {}
  BY <1>5, <1>6, <1>7, <1>8
<1>10. IF Deleting(cmds) THEN Deleted(end, ch0) ELSE Ran(end, ch0)
  <2> HIDE DEF acc, start
  <2> QED
    BY <1>1, <1>2, <1>5, <1>6, BatchRuns
<1>11. Becomes(Waited(Rested(end.world, rests), waits))
  BY <1>3, <1>7, <1>8
<1> HIDE DEF start, acc
<1>12. end.world \in Worlds /\ waits \in SUBSET Timings
  BY <1>9, <1>10 DEF Deleted, Ran, Timings
<1>13. /\ gall' = end.world.gall /\ behn' = (end.world.behn \ rests) \cup waits
       /\ gall' \in Watches /\ pokes' \in Nat /\ behn' \subseteq Timings
  <2>1. PICK w \in Worlds : w = Rested(end.world, rests)
    BY <1>12, RestedIs
  <2>2. w.gall = end.world.gall /\ w.behn = end.world.behn \ rests
    BY <1>12, <2>1, RestedIs
  <2>3. PICK v \in Worlds : v = Waited(w, waits)
    BY <1>12, WaitedIs
  <2>4. v.gall = w.gall /\ v.behn = w.behn \cup waits
    BY <1>12, <2>3, WaitedIs
  <2>5. Becomes(v)
    BY <1>11, <2>1, <2>3
  <2> QED
    BY <2>2, <2>4, <2>5, BecomesIs
<1>14. /\ chan \in ChannelType /\ ListenerSound /\ TimerInv /\ FlightInv
       /\ got \in Nat
  BY DEF IInv, TypeOK
<1>15. /\ Formed(chan) /\ connections \subseteq Ducts
       /\ chan.st = "listen" => key = {chan.duct} /\ chan.duct \in Ducts /\ chan.heart = chan.duct
       /\ chan.st # "listen" => key = {}
       /\ \A d \in Ducts : Heartbeat(d) \in behn => chan.st = "listen" /\ d = chan.duct
       /\ chan.st = "listen" => Heartbeat(chan.duct) \in behn /\ chan.duct \in connections
  BY <1>14 DEF IInv, TypeOK, ChannelInv, Formed, ListenerSound
<1>16. \A t \in Timers : Timeout(t) \in behn => chan.st = "wait" /\ t = chan.timer
  BY <1>1, <1>14 DEF TimerInv
<1>17. CASE ~Deleting(cmds)
  <2>1. /\ chan' \in ChannelType /\ Queued(chan', got) /\ Counted(chan')
        /\ Steady(chan', ch0) /\ Held(chan', gall')
        /\ behn' = (behn \ rests) \cup waits
    BY <1>3, <1>10, <1>13, <1>17 DEF Ran
  <2>2. /\ chan'.st = ch0.st /\ chan'.duct = ch0.duct /\ chan'.heart = ch0.heart
        /\ chan'.timer = ch0.timer /\ chan'.next = ch0.next
        /\ chan'.st # "none" /\ key' = key
    BY <1>3, <1>9, <2>1 DEF Steady
  <2>3. TypeOK'
    BY <1>1, <1>4, <1>13, <1>14, <1>15, <1>17, <2>1, <2>2 DEF TypeOK
  <2>4. ChannelInv'
    <3>1. Formed(chan')
      BY <1>9, <1>15, <2>2 DEF Formed
    <3> QED
      BY <1>1, <2>1, <3>1 DEF ChannelInv
  <2>5. ListenerSound' /\ TimerInv'
    <3>1. CASE chan.st = "listen"
      <4>1. behn' = behn /\ chan'.st = "listen" /\ chan'.duct = chan.duct
        BY <1>9, <2>1, <2>2, <3>1
      <4> QED
        BY <1>1, <1>15, <1>16, <2>2, <3>1, <4>1 DEF ListenerSound, TimerInv
    <3>2. CASE chan.st # "listen"
      <4>1. chan'.st = "wait" /\ chan'.timer = NewTimer /\ NewTimer \in Timers
        BY <1>9, <2>2, <3>2
      <4>2. behn' = (behn \ rests) \cup {Timeout(NewTimer)}
        BY <1>9, <2>1, <3>2
      <4>3. \A d : Heartbeat(d) \in behn' => Heartbeat(d) \in behn
        BY <4>2, TimingsApart
      <4>4. ListenerSound'
        <5>1. \A d \in Ducts : Heartbeat(d) \notin behn'
          BY <1>15, <3>2, <4>3
        <5>2. Timeout(chan'.timer) \in behn'
          BY <4>1, <4>2
        <5>3. key' = {}
          BY <1>15, <2>2, <3>2
        <5> QED
          BY <4>1, <5>1, <5>2, <5>3 DEF ListenerSound
      <4>5. \A t \in Timers : Timeout(t) \in behn' => t = NewTimer
        <5> SUFFICES ASSUME NEW t \in Timers, Timeout(t) \in behn', Timeout(t) \in behn,
                            t # NewTimer
                     PROVE  FALSE
          BY <4>2, TimingsApart
        <5>1. chan.st = "wait" /\ t = chan.timer
          BY <1>16
        <5>2. Timeout(t) \in rests
          BY <1>9, <3>2, <5>1 DEF Exists
        <5> QED
          BY <4>2, <5>2, TimingsApart
      <4> QED
        BY <4>1, <4>4, <4>5 DEF TimerInv
    <3> QED
      BY <3>1, <3>2
  <2>6. SubsInv'
    BY <2>1 DEF SubsInv
  <2>7. FlightInv'
    <3>1. chan'.st = "listen" => /\ chan.st = "listen" /\ chan'.duct = chan.duct
                                 /\ chan'.next = chan.next
      BY <1>9, <2>2
    <3> QED
      BY <1>1, <1>14, <1>17, <3>1, FlightKept
  <2> QED
    BY <2>3, <2>4, <2>5, <2>6, <2>7 DEF IInv
<1>18. CASE Deleting(cmds)
  <2>1. /\ chan' = NoChannel /\ \A r \in Rids : gall'[r] # "live"
        /\ end.world.behn = behn \ ({Heartbeat(ch0.heart)} \cup
                  (IF ch0.st # "wait" THEN {} ELSE {Timeout(ch0.timer)}))
    BY <1>3, <1>10, <1>13, <1>18 DEF Deleted
  <2>2. /\ chan' \in ChannelType /\ chan'.st = "none" /\ Formed(chan') /\ Counted(chan')
        /\ Queued(chan', got) /\ key' = KeyLeft /\ key' = {}
    BY <1>3, <1>14, <1>15, <2>1, NoChannelIs DEF KeyLeft
  <2>3. client' = "quit" /\ stream' = NoDuct
    BY <1>1, <1>18
  <2>4. TypeOK'
    BY <1>1, <1>4, <1>13, <1>14, <1>15, <2>2, <2>3 DEF TypeOK
  <2>5. ChannelInv'
    BY <1>1, <2>2 DEF ChannelInv
  <2>6. ListenerSound'
    <3>1. ASSUME NEW d \in Ducts, Heartbeat(d) \in behn' PROVE FALSE
      <4>1. Heartbeat(d) \notin waits
        BY <1>9, TimingsApart
      <4>2. Heartbeat(d) \in end.world.behn
        BY <1>13, <3>1, <4>1
      <4>3. Heartbeat(d) \in behn /\ d # ch0.heart
        BY <2>1, <4>2
      <4>4. chan.st = "listen" /\ d = chan.duct
        BY <1>15, <4>3
      <4> QED
        BY <1>9, <1>15, <4>3, <4>4
    <3> QED
      BY <2>2, <3>1 DEF ListenerSound
  <2>7. TimerInv' /\ SubsInv' /\ FlightInv'
    BY <2>1, <2>2, <2>3 DEF TimerInv, SubsInv, FlightInv, Exists
  <2> QED
    BY <2>4, <2>5, <2>6, <2>7 DEF IInv
<1> QED
  BY <1>17, <1>18

\* What ListenerSound says of each side a channel can be on.
LEMMA ListenerIs ==
    ASSUME IInv
    PROVE  /\ chan.st \in {"none", "wait", "listen"}
           /\ chan.st = "listen" => /\ key = {chan.duct} /\ chan.duct \in Ducts
                                    /\ chan.heart = chan.duct /\ chan.duct # NoDuct
                                    /\ chan.duct \in connections
                                    /\ Heartbeat(chan.duct) \in behn
           /\ chan.st # "listen" => key = {} /\ chan.duct = NoDuct /\ chan.heart = NoDuct
           /\ chan.st = "none" => chan = NoChannel
           /\ \A d \in Ducts : Heartbeat(d) \in behn => chan.st = "listen" /\ d = chan.duct
           /\ chan.st = "wait" => chan.timer \in Timers /\ Timeout(chan.timer) \in behn
<1>1. chan \in ChannelType /\ Formed(chan) /\ ListenerSound
  BY DEF IInv, TypeOK, ChannelInv
<1>2. chan.st = "none" => chan = NoChannel /\ chan.duct = NoDuct /\ chan.heart = NoDuct
  BY <1>1 DEF Formed, NoChannel
<1> QED
  BY <1>1, <1>2, NoDuctAssumption DEF ChannelType, Formed, ListenerSound

\* A step of the client, or of the runtime, that eyre does not hear of.
LEMMA UnheardStep ==
    ASSUME IInv, UNCHANGED <<eyreVars, worldVars, eff, open, got, used>>,
           stream' = NoDuct, client' \in {client, "quit"}
    PROVE  IInv'
<1>1. /\ chan' = chan /\ connections' = connections /\ key' = key /\ cookie' = cookie
      /\ lives' = lives /\ gall' = gall /\ pokes' = pokes /\ behn' = behn /\ eff' = eff
      /\ open' = open /\ got' = got /\ used' = used
  BY DEF eyreVars, worldVars
<1>2. TypeOK'
  BY <1>1 DEF IInv, TypeOK
<1>3. ChannelInv' /\ ListenerSound'
  BY <1>1 DEF IInv, ChannelInv, ListenerSound
<1>4. TimerInv'
  BY <1>1 DEF IInv, TypeOK, TimerInv, Exists
<1>5. SubsInv'
  BY <1>1 DEF IInv, SubsInv, Exists
<1>6. FlightInv'
  BY <1>1, ListenerIs DEF FlightInv
<1> QED
  BY <1>2, <1>3, <1>4, <1>5, <1>6 DEF IInv

LEMMA LoseStep ==
    ASSUME IInv, Lose
    PROVE  IInv'
BY UnheardStep DEF Lose

\* A channel that is discarded, of its own timer when that has rung.
LEMMA DiscardStep ==
    ASSUME IInv, Exists \/ client # "quit", NEW expired \in BOOLEAN,
           NEW w \in Worlds, w.gall = gall, w.behn \subseteq behn,
           expired => Timeout(chan.timer) \notin w.behn,
           discard_channel(expired, w),
           UNCHANGED <<connections, lives, eff, open, got, used>>,
           stream' \in {stream, NoDuct}, client' \in {client, "quit"}, cookie' \in BOOLEAN
    PROVE  IInv'
<1>1. PICK d : d = Discarded(chan, expired, {}, w)
  OBVIOUS
<1>2. chan' = NoChannel /\ key' = KeyLeft /\ Becomes(d)
  BY <1>1 DEF discard_channel
<1>3. /\ d \in Worlds
      /\ d.behn = w.behn \ ({Heartbeat(chan.heart)} \cup
                    (IF expired \/ chan.st # "wait" THEN {} ELSE {Timeout(chan.timer)}))
      /\ \A q \in Rids : d.gall[q] = IF q \in chan.subs THEN "none" ELSE w.gall[q]
  <2>1. \A q : q \notin {}
    OBVIOUS
  <2> QED
    BY <1>1, <2>1, DiscardedIs
<1>4. /\ gall' = d.gall /\ behn' = d.behn
      /\ gall' \in Watches /\ pokes' \in Nat /\ behn' \subseteq Timings
  BY <1>2, <1>3, BecomesIs
<1>5. /\ chan' \in ChannelType /\ chan'.st = "none" /\ chan'.subs = {}
      /\ Formed(chan') /\ Counted(chan') /\ \A g \in Nat : Queued(chan', g)
  BY <1>2, NoChannelIs
<1>6. key' = {}
  BY <1>2, ListenerIs DEF KeyLeft
<1>7. TypeOK'
  BY <1>4, <1>5, <1>6 DEF IInv, TypeOK
<1>8. ChannelInv'
  BY <1>5 DEF IInv, TypeOK, ChannelInv
<1>9. ListenerSound'
  <2>1. ASSUME NEW x \in Ducts, Heartbeat(x) \in behn' PROVE FALSE
    <3>1. Heartbeat(x) \in behn /\ x # chan.heart
      BY <1>3, <1>4, <2>1
    <3> QED
      BY <3>1, ListenerIs
  <2> QED
    BY <1>5, <1>6, <2>1 DEF ListenerSound
<1>10. TimerInv'
  <2>1. ASSUME NEW t \in Timers, Timeout(t) \in behn' PROVE FALSE
    <3>1. Timeout(t) \in w.behn /\ Timeout(t) \in behn
      BY <1>3, <1>4, <2>1
    <3>2. chan.st = "wait" /\ t = chan.timer
      BY <3>1 DEF IInv, TimerInv
    <3> QED
      BY <1>3, <1>4, <2>1, <3>1, <3>2
  <2> QED
    BY <2>1 DEF TimerInv
<1>11. SubsInv'
  <2>1. Held(chan, gall)
    BY DEF IInv, SubsInv
  <2>2. Held(chan', gall')
    BY <1>3, <1>4, <2>1 DEF Held
  <2> QED
    BY <2>2 DEF SubsInv
<1>12. FlightInv'
  BY <1>5 DEF FlightInv
<1> QED
  BY <1>7, <1>8, <1>9, <1>10, <1>11, <1>12 DEF IInv

LEMMA QuitStep ==
    ASSUME IInv, Quit
    PROVE  IInv'
<1>1. /\ client = "on" /\ client' = "quit" /\ stream' = NoDuct
      /\ UNCHANGED <<open, got, used>>
      /\ UNCHANGED <<eyreVars, worldVars, eff>> \/ close_session
  BY DEF Quit
<1>2. CASE UNCHANGED <<eyreVars, worldVars, eff>>
  BY <1>1, <1>2, UnheardStep
<1>3. CASE close_session /\ cookie
  <2>1. PICK expired \in BOOLEAN : ~expired
    OBVIOUS
  <2>2. expired = FALSE
    BY <2>1
  <2>3. World \in Worlds /\ World.gall = gall /\ World.behn \subseteq behn
    BY WorldIs DEF IInv
  <2>4. discard_channel(expired, World) /\ UNCHANGED <<connections, lives, eff>>
        /\ cookie' \in BOOLEAN
    BY <1>3, <2>2 DEF close_session
  <2> QED
    BY <1>1, <2>1, <2>3, <2>4, DiscardStep
<1>4. CASE close_session /\ ~cookie
  <2>1. UNCHANGED <<eyreVars, worldVars, eff>>
    BY <1>4 DEF close_session, eyreVars, worldVars, IInv, TypeOK
  <2> QED
    BY <1>1, <2>1, UnheardStep
<1> QED
  BY <1>1, <1>2, <1>3, <1>4

LEMMA TrimStep ==
    ASSUME IInv, trim
    PROVE  IInv'
<1>1. PICK expired \in BOOLEAN : ~expired
  OBVIOUS
<1>2. expired = FALSE
  BY <1>1
<1>3. World \in Worlds /\ World.gall = gall /\ World.behn \subseteq behn
  BY WorldIs DEF IInv
<1>4. /\ Exists /\ discard_channel(expired, World)
      /\ UNCHANGED <<connections, lives, eff, open, got, used, stream, client, cookie>>
  BY <1>2 DEF trim, clientVars
<1>5. cookie' \in BOOLEAN
  BY <1>4 DEF IInv, TypeOK
<1> QED
  BY <1>1, <1>3, <1>4, <1>5, DiscardStep

LEMMA TimeoutStep ==
    ASSUME IInv, NEW t \in Timers, timeout(t)
    PROVE  IInv'
<1>1. PICK w : w = Rested(World, {Timeout(t)})
  OBVIOUS
<1>2. w \in Worlds /\ w.gall = gall /\ w.behn = behn \ {Timeout(t)}
  <2>1. World \in Worlds /\ World.gall = gall /\ World.behn = behn
    BY WorldIs DEF IInv
  <2> QED
    BY <1>1, <2>1, RestedIs
<1>3. /\ Timeout(t) \in behn
      /\ UNCHANGED <<connections, lives, eff, open, got, used, stream, client, cookie>>
  BY DEF timeout, clientVars
<1>4. CASE Exists
  <2>1. PICK expired \in BOOLEAN : expired
    OBVIOUS
  <2>2. expired = TRUE
    BY <2>1
  <2>3. discard_channel(expired, w)
    BY <1>1, <1>4, <2>2 DEF timeout
  <2>4. t = chan.timer
    BY <1>3, <1>4 DEF IInv, TimerInv
  <2>5. cookie' \in BOOLEAN
    BY <1>3 DEF IInv, TypeOK
  <2> QED
    BY <1>2, <1>3, <1>4, <2>3, <2>4, <2>5, DiscardStep
<1>5. CASE ~Exists
  <2>1. Becomes(w) /\ UNCHANGED <<chan, key>>
    BY <1>1, <1>5 DEF timeout
  <2>2. /\ gall' = gall /\ behn' = behn \ {Timeout(t)}
        /\ gall' \in Watches /\ pokes' \in Nat /\ behn' \subseteq Timings
    BY <1>2, <2>1, BecomesIs
  <2>3. TypeOK' /\ ChannelInv'
    BY <1>3, <2>1, <2>2 DEF IInv, TypeOK, ChannelInv
  <2>4. ListenerSound'
    <3>1. \A d \in Ducts : Heartbeat(d) \in behn' <=> Heartbeat(d) \in behn
      BY <2>2, TimingsApart
    <3> QED
      BY <1>3, <1>5, <2>1, <3>1 DEF IInv, ListenerSound, Exists
  <2>5. TimerInv' /\ SubsInv'
    BY <1>3, <1>5, <2>1, <2>2 DEF IInv, TimerInv, SubsInv, Exists
  <2>6. FlightInv'
    BY <1>5, <2>1 DEF FlightInv, Exists
  <2> QED
    BY <2>3, <2>4, <2>5, <2>6 DEF IInv
<1> QED
  BY <1>4, <1>5

\* What Drop and Restart have in common.
LEMMA CancelStep ==
    ASSUME IInv, NEW ds, cancel_requests(ds),
           UNCHANGED <<got, used, client>>,
           open' \subseteq Ducts, eff' \in Seq(Effects),
           UNCHANGED <<eff, stream>> \/ stream' = NoDuct
    PROVE  IInv'
<1>1. /\ connections' = connections \ ds /\ UNCHANGED <<cookie, lives>>
      /\ TypeOK /\ TimerInv /\ FlightInv
      /\ stream' \in Ducts \cup {NoDuct}
  BY DEF cancel_requests, IInv, TypeOK
<1>2. CASE connections \cap key \cap ds # {} /\ Exists
  <2>1. PICK c : c = [chan EXCEPT !.st = "wait", !.duct = NoDuct,
                                  !.timer = NewTimer, !.heart = NoDuct]
    OBVIOUS
  <2>2. PICK w : w = Rested(World, {Heartbeat(chan.heart)})
    OBVIOUS
  <2>3. PICK v : v = Waited(w, {Timeout(NewTimer)})
    OBVIOUS
  <2>4. chan' = c /\ key' = key \ ds /\ Becomes(v)
    BY <1>2, <2>1, <2>2, <2>3 DEF cancel_requests
  <2>5. /\ chan.st = "listen" /\ key = {chan.duct} /\ chan.duct \in ds
        /\ chan.heart = chan.duct
    BY <1>2, ListenerIs
  <2>6. NewTimer \in Timers /\ Timeout(NewTimer) \in Timings
    BY <1>1, <1>2, NewTimerIs
  <2>7. w \in Worlds /\ w.gall = gall /\ w.behn = behn \ {Heartbeat(chan.duct)}
    <3>1. World \in Worlds /\ World.gall = gall /\ World.behn = behn
      BY <1>1, WorldIs
    <3> QED
      BY <2>2, <2>5, <3>1, RestedIs
  <2>8. v \in Worlds /\ v.gall = gall
        /\ v.behn = (behn \ {Heartbeat(chan.duct)}) \cup {Timeout(NewTimer)}
    <3>1. {Timeout(NewTimer)} \in SUBSET Timings
      BY <2>6
    <3> QED
      BY <2>3, <2>7, <3>1, WaitedIs
  <2>9. /\ gall' = gall /\ behn' = (behn \ {Heartbeat(chan.duct)}) \cup {Timeout(NewTimer)}
        /\ gall' \in Watches /\ pokes' \in Nat /\ behn' \subseteq Timings
    BY <2>4, <2>8, BecomesIs
  <2>10. /\ chan' \in ChannelType /\ chan'.st = "wait" /\ chan'.duct = NoDuct
         /\ chan'.heart = NoDuct /\ chan'.timer = NewTimer /\ chan'.next = chan.next
         /\ chan'.events = chan.events /\ chan'.unacked = chan.unacked
         /\ chan'.subs = chan.subs
    BY <1>1, <2>1, <2>4, <2>6 DEF TypeOK, ChannelType
  <2>11. TypeOK'
    BY <1>1, <2>4, <2>9, <2>10 DEF TypeOK
  <2>12. ChannelInv'
    BY <2>6, <2>10 DEF IInv, ChannelInv, Formed, Queued, Counted
  <2>13. ListenerSound'
    <3>1. ASSUME NEW d \in Ducts, Heartbeat(d) \in behn' PROVE FALSE
      <4>1. Heartbeat(d) \in behn /\ d # chan.duct
        BY <2>9, <3>1, TimingsApart
      <4> QED
        BY <4>1, ListenerIs
    <3>2. key' = {}
      BY <2>4, <2>5
    <3>3. Timeout(chan'.timer) \in behn'
      BY <2>9, <2>10
    <3> QED
      BY <2>10, <3>1, <3>2, <3>3 DEF ListenerSound
  <2>14. TimerInv'
    <3>1. ASSUME NEW t \in Timers, Timeout(t) \in behn' PROVE t = NewTimer
      <4>1. Timeout(t) \notin behn
        BY <1>1, <1>2, <2>5 DEF TimerInv
      <4> QED
        BY <2>9, <3>1, <4>1, TimingsApart
    <3> QED
      BY <2>10, <3>1 DEF TimerInv
  <2>15. SubsInv'
    <3>1. Held(chan, gall)
      BY <1>2 DEF IInv, SubsInv
    <3> QED
      BY <2>9, <2>10, <3>1 DEF SubsInv, Held
  <2>16. FlightInv'
    BY <2>10 DEF FlightInv
  <2> QED
    BY <2>11, <2>12, <2>13, <2>14, <2>15, <2>16 DEF IInv
<1>3. CASE ~(connections \cap key \cap ds # {} /\ Exists)
  <2>1. chan' = chan /\ key' = key /\ gall' = gall /\ pokes' = pokes /\ behn' = behn
    BY <1>3 DEF cancel_requests, worldVars
  <2>2. TypeOK'
    BY <1>1, <2>1 DEF TypeOK
  <2>3. ChannelInv' /\ TimerInv' /\ SubsInv'
    BY <1>1, <2>1 DEF IInv, ChannelInv, TimerInv, SubsInv, Exists
  <2>4. ListenerSound'
    <3>1. chan.st = "listen" => chan.duct \notin ds
      BY <1>3, ListenerIs DEF Exists
    <3> QED
      BY <1>1, <2>1, <3>1 DEF IInv, ListenerSound
  <2>5. FlightInv'
    <3>1. CASE UNCHANGED <<eff, stream>>
      BY <1>1, <2>1, <3>1, FlightKept
    <3>2. CASE stream' = NoDuct
      BY <2>1, <3>2, ListenerIs DEF FlightInv
    <3> QED
      BY <3>1, <3>2
  <2> QED
    BY <2>2, <2>3, <2>4, <2>5 DEF IInv
<1> QED
  BY <1>2, <1>3

LEMMA DropStep ==
    ASSUME IInv, NEW d \in Ducts, Drop(d)
    PROVE  IInv'
<1>1. /\ cancel_requests({d}) /\ open' = open \ {d}
      /\ UNCHANGED <<eff, stream, got, used, client>>
  BY DEF Drop, clientVars
<1>2. open' \subseteq Ducts /\ eff' \in Seq(Effects)
  BY <1>1 DEF IInv, TypeOK
<1> QED
  BY <1>1, <1>2, CancelStep

LEMMA RestartStep ==
    ASSUME IInv, Restart
    PROVE  IInv'
<1>1. /\ cancel_requests(connections) /\ open' = {} /\ eff' = <<>> /\ stream' = NoDuct
      /\ UNCHANGED <<got, used, client>>
  BY DEF Restart, born
<1>2. open' \subseteq Ducts /\ eff' \in Seq(Effects)
  BY <1>1
<1> QED
  BY <1>1, <1>2, CancelStep

-----------------------------------------------------------------------------
(* Events under way. *)

Sent(q, d) == UNION {Range(e.ids) : e \in {x \in Range(q) : x.duct = d}}
Ordered(q, d) ==
    \A i, k \in {n \in DOMAIN q : q[n].duct = d} :
        \A m \in DOMAIN q[i].ids, n \in DOMAIN q[k].ids :
            i < k \/ (i = k /\ m < n) => q[i].ids[m] < q[k].ids[n]

\* The effects q carry the events from a on and below b to d, each once and in order.
Flight(q, d, a, b) == Ordered(q, d) /\ Sent(q, d) = a .. b - 1

LEMMA FlightIs ==
    FlightInv <=>
        (chan.st = "listen" /\ chan.duct = stream =>
            \E first \in 0 .. got : first <= chan.next
                                  /\ Flight(eff, stream, first, chan.next))
BY DEF FlightInv, Flight, Sent, Ordered, UnderWay, InOrder

LEMMA SentIs ==
    ASSUME NEW q \in Seq(Effects), NEW d
    PROVE  \A x : x \in Sent(q, d) <=>
                     \E i \in DOMAIN q : q[i].duct = d /\ \E m \in DOMAIN q[i].ids : q[i].ids[m] = x
BY DEF Sent, Range

LEMMA SentNat ==
    ASSUME NEW q \in Seq(Effects), NEW d
    PROVE  /\ Sent(q, d) \subseteq Nat
           /\ \A i \in DOMAIN q : q[i].ids \in Seq(Nat)
           /\ \A i \in DOMAIN q : \A m \in DOMAIN q[i].ids : q[i].ids[m] \in Nat
<1>1. \A i \in DOMAIN q : q[i] \in Effects
  OBVIOUS
<1>2. \A i \in DOMAIN q : q[i].ids \in Seq(Nat)
  BY <1>1 DEF Effects
<1>3. \A i \in DOMAIN q : \A m \in DOMAIN q[i].ids : q[i].ids[m] \in Nat
  BY <1>2
<1> QED
  BY <1>2, <1>3, SentIs

LEMMA FlightConcat ==
    ASSUME NEW s \in Seq(Effects), NEW t \in Seq(Effects), NEW d,
           NEW a \in Nat, NEW b \in Nat, NEW c \in Nat, a <= b, b <= c,
           Flight(s, d, a, b), Flight(t, d, b, c)
    PROVE  s \o t \in Seq(Effects) /\ Flight(s \o t, d, a, c)
<1> DEFINE u == s \o t
<1>1. /\ u \in Seq(Effects) /\ DOMAIN s = 1 .. Len(s) /\ DOMAIN t = 1 .. Len(t)
      /\ Len(s) \in Nat /\ Len(t) \in Nat
      /\ DOMAIN u = 1 .. Len(s) + Len(t)
      /\ \A i \in 1 .. Len(s) : u[i] = s[i]
      /\ \A i \in 1 .. Len(s) + Len(t) : i > Len(s) => u[i] = t[i - Len(s)]
  OBVIOUS
<1> HIDE DEF u
<1>2. \A i \in DOMAIN u : (i \in DOMAIN s /\ u[i] = s[i])
                          \/ (i > Len(s) /\ i - Len(s) \in DOMAIN t /\ u[i] = t[i - Len(s)])
  BY <1>1
<1>3. \A i \in DOMAIN t : i + Len(s) \in DOMAIN u /\ u[i + Len(s)] = t[i]
  <2> SUFFICES ASSUME NEW i \in DOMAIN t
               PROVE  i + Len(s) \in DOMAIN u /\ u[i + Len(s)] = t[i]
    OBVIOUS
  <2>1. i + Len(s) \in 1 .. Len(s) + Len(t) /\ i + Len(s) > Len(s)
        /\ (i + Len(s)) - Len(s) = i
    BY <1>1
  <2> QED
    BY <1>1, <2>1
<1>4. Sent(u, d) = Sent(s, d) \cup Sent(t, d)
  <2>1. ASSUME NEW x \in Sent(u, d) PROVE x \in Sent(s, d) \cup Sent(t, d)
    <3>1. PICK i \in DOMAIN u : u[i].duct = d /\ \E m \in DOMAIN u[i].ids : u[i].ids[m] = x
      BY <1>1, <2>1, SentIs
    <3>2. CASE i \in DOMAIN s /\ u[i] = s[i]
      BY <3>1, <3>2, SentIs
    <3>3. CASE i - Len(s) \in DOMAIN t /\ u[i] = t[i - Len(s)]
      BY <3>1, <3>3, SentIs
    <3> QED
      BY <1>2, <3>2, <3>3
  <2>2. ASSUME NEW x \in Sent(s, d) PROVE x \in Sent(u, d)
    <3>1. PICK i \in DOMAIN s : s[i].duct = d /\ \E m \in DOMAIN s[i].ids : s[i].ids[m] = x
      BY <2>2, SentIs
    <3>2. i \in DOMAIN u /\ u[i] = s[i]
      BY <1>1
    <3> QED
      BY <1>1, <3>1, <3>2, SentIs
  <2>3. ASSUME NEW x \in Sent(t, d) PROVE x \in Sent(u, d)
    <3>1. PICK i \in DOMAIN t : t[i].duct = d /\ \E m \in DOMAIN t[i].ids : t[i].ids[m] = x
      BY <2>3, SentIs
    <3>2. PICK j \in DOMAIN u : j = i + Len(s)
      BY <1>3
    <3>3. u[j] = t[i]
      BY <1>3, <3>2
    <3>4. \E n \in DOMAIN u : u[n].duct = d /\ \E m \in DOMAIN u[n].ids : u[n].ids[m] = x
      BY <3>1, <3>3
    <3> QED
      BY <1>1, <3>4, SentIs
  <2> QED
    BY <2>1, <2>2, <2>3
<1>5. Sent(u, d) = a .. c - 1
  BY <1>4 DEF Flight
<1>6. Ordered(u, d)
  <2> SUFFICES ASSUME NEW i \in DOMAIN u, NEW k \in DOMAIN u, u[i].duct = d, u[k].duct = d,
                      NEW m \in DOMAIN u[i].ids, NEW n \in DOMAIN u[k].ids,
                      i < k \/ (i = k /\ m < n)
               PROVE  u[i].ids[m] < u[k].ids[n]
    BY DEF Ordered
  <2>1. Ordered(s, d) /\ Ordered(t, d)
    BY DEF Flight
  <2>2. CASE i \in DOMAIN s /\ u[i] = s[i] /\ k \in DOMAIN s /\ u[k] = s[k]
    BY <2>1, <2>2 DEF Ordered
  <2>3. CASE i \in DOMAIN s /\ u[i] = s[i] /\ k - Len(s) \in DOMAIN t /\ u[k] = t[k - Len(s)]
    <3>1. u[i].ids[m] \in Sent(s, d)
      BY <2>3, SentIs
    <3>2. u[k].ids[n] \in Sent(t, d)
      BY <2>3, SentIs
    <3>3. u[i].ids[m] \in a .. b - 1 /\ u[k].ids[n] \in b .. c - 1
      BY <3>1, <3>2 DEF Flight
    <3> QED
      BY <3>3
  <2>4. CASE /\ i > Len(s) /\ i - Len(s) \in DOMAIN t /\ u[i] = t[i - Len(s)]
             /\ k > Len(s) /\ k - Len(s) \in DOMAIN t /\ u[k] = t[k - Len(s)]
    <3>1. PICK x \in DOMAIN t : x = i - Len(s)
      BY <2>4
    <3>2. PICK y \in DOMAIN t : y = k - Len(s)
      BY <2>4
    <3>3. x < y \/ (x = y /\ m < n)
      BY <1>1, <3>1, <3>2
    <3>4. u[i] = t[x] /\ u[k] = t[y]
      BY <2>4, <3>1, <3>2
    <3> QED
      BY <2>1, <3>3, <3>4 DEF Ordered
  <2>5. CASE i > Len(s) /\ k \in DOMAIN s
    BY <1>1, <2>5
  <2> QED
    BY <1>2, <2>2, <2>3, <2>4, <2>5
<1> QED
  BY <1>1, <1>5, <1>6 DEF Flight, u

LEMMA FlightNone ==
    ASSUME NEW q \in Seq(Effects), NEW d, NEW a \in Nat,
           \A i \in DOMAIN q : q[i].duct # d
    PROVE  Flight(q, d, a, a)
<1>1. Sent(q, d) = {}
  BY SentIs
<1>2. Ordered(q, d)
  BY DEF Ordered
<1>3. a .. a - 1 = {}
  OBVIOUS
<1> QED
  BY <1>1, <1>2, <1>3 DEF Flight

\* One effect with the events from a on.
LEMMA FlightOne ==
    ASSUME NEW tag \in Tags, NEW d \in Ducts, NEW ids \in Seq(Nat), NEW a \in Nat,
           \A i \in DOMAIN ids : ids[i] = a + i - 1
    PROVE  /\ <<Effect(tag, d, ids)>> \in Seq(Effects)
           /\ Flight(<<Effect(tag, d, ids)>>, d, a, a + Len(ids))
<1>1. PICK e \in Effects : e = Effect(tag, d, ids)
  BY DEF Effect, Effects
<1>2. e.duct = d /\ e.ids = ids
  BY <1>1 DEF Effect
<1>3. PICK q \in Seq(Effects) : q = <<e>>
  BY InOne
<1>4. DOMAIN q = {1} /\ q[1] = e
  BY <1>3
<1>5. Len(ids) \in Nat /\ DOMAIN ids = 1 .. Len(ids)
  OBVIOUS
<1>6. Sent(q, d) = a .. (a + Len(ids)) - 1
  <2>1. ASSUME NEW x
        PROVE  x \in Sent(q, d) <=> \E m \in DOMAIN ids : ids[m] = x
    <3>1. x \in Sent(q, d) <=>
            \E i \in DOMAIN q : q[i].duct = d /\ \E m \in DOMAIN q[i].ids : q[i].ids[m] = x
      BY SentIs
    <3>2. q[1].duct = d /\ q[1].ids = ids /\ \A i \in DOMAIN q : i = 1
      BY <1>2, <1>4
    <3>3. 1 \in DOMAIN q
      BY <1>4
    <3> QED
      BY <3>1, <3>2, <3>3
  <2>2. ASSUME NEW x \in Sent(q, d) PROVE x \in a .. (a + Len(ids)) - 1
    BY <1>5, <2>1, <2>2
  <2>3. ASSUME NEW x \in a .. (a + Len(ids)) - 1 PROVE x \in Sent(q, d)
    <3>1. PICK m \in DOMAIN ids : m = x - a + 1
      BY <1>5
    <3>2. ids[m] = x
      <4>1. ids[m] = a + m - 1
        OBVIOUS
      <4>2. m \in Nat /\ x \in Int
        BY <1>5
      <4> QED
        BY <3>1, <4>1, <4>2
    <3> QED
      BY <2>1, <3>2
  <2> QED
    BY <2>2, <2>3
<1>7. Ordered(q, d)
  <2>1. \A m, n \in DOMAIN ids : m < n => ids[m] < ids[n]
    BY <1>5
  <2> QED
    BY <1>2, <1>4, <2>1 DEF Ordered
<1> QED
  BY <1>1, <1>3, <1>6, <1>7 DEF Flight

\* The first effect goes.
LEMMA FlightTail ==
    ASSUME NEW q \in Seq(Effects), q # <<>>, NEW d, NEW a \in Nat, NEW b \in Nat, a <= b,
           Flight(q, d, a, b)
    PROVE  /\ Head(q).duct # d \/ Head(q).ids = <<>> => Flight(Tail(q), d, a, b)
           /\ Head(q).duct = d /\ Head(q).ids # <<>> =>
                 /\ Last(Head(q).ids) \in a .. b - 1
                 /\ Flight(Tail(q), d, Last(Head(q).ids) + 1, b)
<1>1. PICK t \in Seq(Effects) : t = Tail(q)
  BY InTail
<1>2. PICK e \in Effects : e = Head(q)
  BY InTail
<1>3. /\ Len(q) \in Nat \ {0} /\ DOMAIN q = 1 .. Len(q) /\ q[1] = e
      /\ DOMAIN t = 1 .. Len(q) - 1 /\ \A i \in 1 .. Len(q) - 1 : t[i] = q[i + 1]
  BY <1>1, <1>2
<1>4. Ordered(q, d) /\ Sent(q, d) = a .. b - 1
  BY DEF Flight
<1>5. Ordered(t, d)
  <2> SUFFICES ASSUME NEW i \in DOMAIN t, NEW k \in DOMAIN t, t[i].duct = d, t[k].duct = d,
                      NEW m \in DOMAIN t[i].ids, NEW n \in DOMAIN t[k].ids,
                      i < k \/ (i = k /\ m < n)
               PROVE  t[i].ids[m] < t[k].ids[n]
    BY DEF Ordered
  <2>1. PICK x \in DOMAIN q : x = i + 1 /\ t[i] = q[x]
    BY <1>3
  <2>2. PICK y \in DOMAIN q : y = k + 1 /\ t[k] = q[y]
    BY <1>3
  <2>3. x < y \/ (x = y /\ m < n)
    BY <1>3, <2>1, <2>2
  <2> QED
    BY <1>4, <2>1, <2>2, <2>3 DEF Ordered
<1>6. \A x \in Sent(q, d) :
        x \in Sent(t, d) \/ (e.duct = d /\ \E m \in DOMAIN e.ids : e.ids[m] = x)
  <2> SUFFICES ASSUME NEW x \in Sent(q, d)
               PROVE  x \in Sent(t, d) \/ (e.duct = d /\ \E m \in DOMAIN e.ids : e.ids[m] = x)
    OBVIOUS
  <2>1. PICK i \in DOMAIN q : q[i].duct = d /\ \E m \in DOMAIN q[i].ids : q[i].ids[m] = x
    BY SentIs
  <2>2. CASE i = 1
    BY <1>3, <2>1, <2>2
  <2>3. CASE i # 1
    <3>1. PICK j \in DOMAIN t : j = i - 1
      BY <1>3, <2>3
    <3>2. t[j] = q[i]
      BY <1>3, <3>1
    <3>3. \E n \in DOMAIN t : t[n].duct = d /\ \E m \in DOMAIN t[n].ids : t[n].ids[m] = x
      BY <2>1, <3>2
    <3> QED
      BY <3>3, SentIs
  <2> QED
    BY <2>2, <2>3
<1>7. \A x \in Sent(t, d) : x \in Sent(q, d)
  <2> SUFFICES ASSUME NEW x \in Sent(t, d) PROVE x \in Sent(q, d)
    OBVIOUS
  <2>1. PICK i \in DOMAIN t : t[i].duct = d /\ \E m \in DOMAIN t[i].ids : t[i].ids[m] = x
    BY SentIs
  <2>2. PICK j \in DOMAIN q : j = i + 1 /\ q[j] = t[i]
    BY <1>3
  <2> QED
    BY <2>1, <2>2, SentIs
<1>8. CASE e.duct # d \/ e.ids = <<>>
  <2>1. e.ids = <<>> => DOMAIN e.ids = {}
    OBVIOUS
  <2>2. Sent(t, d) = Sent(q, d)
    BY <1>6, <1>7, <1>8, <2>1
  <2> QED
    BY <1>1, <1>2, <1>4, <1>5, <1>8, <2>2 DEF Flight
<1>9. CASE e.duct = d /\ e.ids # <<>>
  <2>1. e.ids \in Seq(Nat)
    BY DEF Effects
  <2>2. Len(e.ids) \in Nat \ {0} /\ DOMAIN e.ids = 1 .. Len(e.ids)
    BY <1>9, <2>1
  <2>3. PICK z \in DOMAIN e.ids : z = Len(e.ids)
    BY <2>2
  <2>4. PICK l \in Nat : l = e.ids[z]
    BY <2>1
  <2>5. Last(e.ids) = l
    BY <2>3, <2>4 DEF Last
  <2>6. l \in a .. b - 1
    <3>1. 1 \in DOMAIN q
      BY <1>3
    <3>2. l \in Sent(q, d)
      BY <1>3, <1>9, <2>4, <3>1, SentIs
    <3> QED
      BY <1>4, <3>2
  <2>7. \A m \in DOMAIN e.ids : e.ids[m] <= l /\ e.ids[m] \in Nat
    <3> SUFFICES ASSUME NEW m \in DOMAIN e.ids PROVE e.ids[m] <= l /\ e.ids[m] \in Nat
      OBVIOUS
    <3>1. e.ids[m] \in Nat
      BY <2>1
    <3>2. CASE m = z
      BY <2>4, <3>1, <3>2
    <3>3. CASE m < z
      <4>1. 1 \in {n \in DOMAIN q : q[n].duct = d} /\ q[1].ids = e.ids
        BY <1>3, <1>9
      <4>2. e.ids[m] < e.ids[z]
        BY <1>4, <3>3, <4>1 DEF Ordered
      <4> QED
        BY <2>4, <3>1, <4>2
    <3> QED
      BY <2>2, <2>3, <3>2, <3>3
  <2>8. \A x \in Sent(t, d) : l < x
    <3> SUFFICES ASSUME NEW x \in Sent(t, d) PROVE l < x
      OBVIOUS
    <3>1. PICK i \in DOMAIN t : t[i].duct = d /\ \E m \in DOMAIN t[i].ids : t[i].ids[m] = x
      BY SentIs
    <3>2. PICK j \in DOMAIN q : j = i + 1 /\ q[j] = t[i]
      BY <1>3
    <3>3. 1 \in DOMAIN q /\ 1 < j
      BY <1>3, <3>2
    <3>4. PICK m \in DOMAIN q[j].ids : q[j].ids[m] = x
      BY <3>1, <3>2
    <3>5. 1 \in {n \in DOMAIN q : q[n].duct = d} /\ q[1].ids = e.ids
      BY <1>3, <1>9
    <3>6. j \in {n \in DOMAIN q : q[n].duct = d}
      BY <3>1, <3>2
    <3>7. q[1].ids[z] < q[j].ids[m]
      BY <1>4, <3>3, <3>5, <3>6 DEF Ordered
    <3> QED
      BY <2>4, <3>4, <3>5, <3>7
  <2>9. Sent(t, d) = (l + 1) .. b - 1
    <3>1. ASSUME NEW x \in Sent(t, d) PROVE x \in (l + 1) .. b - 1
      <4>1. x \in a .. b - 1 /\ l < x
        BY <1>4, <1>7, <2>8
      <4> QED
        BY <2>6, <4>1
    <3>2. ASSUME NEW x \in (l + 1) .. b - 1 PROVE x \in Sent(t, d)
      <4>1. x \in a .. b - 1 /\ ~(x <= l)
        BY <2>6
      <4>2. x \in Sent(q, d)
        BY <1>4, <4>1
      <4> QED
        BY <1>6, <2>7, <4>1, <4>2
    <3> QED
      BY <3>1, <3>2
  <2> QED
    BY <1>1, <1>2, <1>5, <1>9, <2>5, <2>6, <2>9 DEF Flight
<1> QED
  BY <1>2, <1>8, <1>9

LEMMA FlightContinues ==
    ASSUME NEW d \in Ducts, NEW new \in Seq(Events), NEW b \in Nat,
           \A i \in DOMAIN new : new[i].id = b + i - 1
    PROVE  /\ Continues(d, new) \in Seq(Effects)
           /\ Flight(Continues(d, new), d, b, b + Len(new))
<1>1. PICK q : q = Continues(d, new)
  OBVIOUS
<1>2. Len(new) \in Nat /\ DOMAIN new = 1 .. Len(new)
  OBVIOUS
<1>3. \A i \in DOMAIN new : new[i] \in Events
  OBVIOUS
<1>4. \A i \in DOMAIN new : <<new[i].id>> \in Seq(Nat) /\ Len(<<new[i].id>>) = 1
                            /\ DOMAIN <<new[i].id>> = {1} /\ <<new[i].id>>[1] = new[i].id
  BY <1>3 DEF Events
<1>5. ASSUME NEW i \in DOMAIN new PROVE Effect("continue", d, <<new[i].id>>) \in Effects
  <2>1. PICK ids \in Seq(Nat) : ids = <<new[i].id>>
    BY <1>4
  <2> QED
    BY <2>1 DEF Effect, Effects, Tags
<1>6. q = [i \in 1 .. Len(new) |-> Effect("continue", d, <<new[i].id>>)]
  BY <1>1, <1>2 DEF Continues
<1>7. q \in Seq(Effects)
  BY <1>2, <1>5, <1>6
<1>8. DOMAIN q = 1 .. Len(new)
  BY <1>6
<1>9. \A i \in DOMAIN q : q[i].duct = d /\ DOMAIN q[i].ids = {1} /\ q[i].ids[1] = b + i - 1
  <2> SUFFICES ASSUME NEW i \in DOMAIN q
               PROVE  q[i].duct = d /\ DOMAIN q[i].ids = {1} /\ q[i].ids[1] = b + i - 1
    OBVIOUS
  <2>1. i \in DOMAIN new
    BY <1>2, <1>8
  <2>2. q[i].duct = d /\ q[i].ids = <<new[i].id>>
    BY <1>6, <1>8 DEF Effect
  <2>3. new[i].id = b + i - 1
    BY <2>1
  <2> QED
    BY <1>4, <2>1, <2>2, <2>3
<1>10. Sent(q, d) = b .. (b + Len(new)) - 1
  <2>1. \A x : x \in Sent(q, d) <=>
                 \E i \in DOMAIN q : q[i].duct = d /\ \E m \in DOMAIN q[i].ids : q[i].ids[m] = x
    BY <1>7, SentIs
  <2>2. \A x : x \in Sent(q, d) <=> \E i \in DOMAIN q : x = b + i - 1
    BY <1>9, <2>1
  <2>3. ASSUME NEW x \in Sent(q, d) PROVE x \in b .. (b + Len(new)) - 1
    BY <1>2, <1>8, <2>2, <2>3
  <2>4. ASSUME NEW x \in b .. (b + Len(new)) - 1 PROVE x \in Sent(q, d)
    <3>1. x - b + 1 \in DOMAIN q /\ x = b + (x - b + 1) - 1
      BY <1>2, <1>8
    <3> QED
      BY <2>2, <3>1
  <2> QED
    BY <2>3, <2>4
<1>11. Ordered(q, d)
  <2> SUFFICES ASSUME NEW i \in DOMAIN q, NEW k \in DOMAIN q,
                      NEW m \in DOMAIN q[i].ids, NEW n \in DOMAIN q[k].ids,
                      i < k \/ (i = k /\ m < n)
               PROVE  q[i].ids[m] < q[k].ids[n]
    BY DEF Ordered
  <2>1. m = 1 /\ n = 1
    BY <1>9
  <2>2. i < k /\ i \in Nat /\ k \in Nat
    BY <1>8, <2>1
  <2>3. q[i].ids[1] = b + i - 1
    BY <1>9
  <2>4. q[k].ids[1] = b + k - 1
    BY <1>9
  <2> QED
    BY <2>1, <2>2, <2>3, <2>4
<1> QED
  BY <1>1, <1>7, <1>10, <1>11 DEF Flight

\* What a stream begins with: the queue.
LEMMA FlightStart ==
    ASSUME NEW ch \in ChannelType, NEW d \in Ducts, NEW g \in Nat, Queued(ch, g)
    PROVE  /\ <<Effect("start", d, EventIds(ch.events))>> \in Seq(Effects)
           /\ \E first \in 0 .. g : first <= ch.next
                 /\ Flight(<<Effect("start", d, EventIds(ch.events))>>, d, first, ch.next)
<1>1. PICK ids : ids = EventIds(ch.events)
  OBVIOUS
<1>2. /\ ch.events \in Seq(Events) /\ Len(ch.events) \in Nat /\ ch.next \in Nat
      /\ DOMAIN ch.events = 1 .. Len(ch.events)
  BY DEF ChannelType
<1>3. \A i \in 1 .. Len(ch.events) : ch.events[i] \in Events
  BY <1>2
<1>4. ids = [i \in 1 .. Len(ch.events) |-> ch.events[i].id]
  BY <1>1, <1>2 DEF EventIds
<1>5. ids \in Seq(Nat) /\ Len(ids) = Len(ch.events) /\ DOMAIN ids = 1 .. Len(ch.events)
  BY <1>2, <1>3, <1>4 DEF Events
<1>6. PICK first \in 0 .. g : first + Len(ch.events) = ch.next
  <2>1. PICK f \in Int : f = ch.next - Len(ch.events)
    BY <1>2
  <2>2. f \in 0 .. g /\ f + Len(ch.events) = ch.next
    BY <1>2, <2>1 DEF Queued
  <2> QED
    BY <2>2
<1>7. \A i \in DOMAIN ids : ids[i] = first + i - 1
  <2>1. ch.next - Len(ch.events) = first
    BY <1>2, <1>6
  <2> QED
    BY <1>4, <1>5, <2>1 DEF Queued
<1>8. first \in Nat /\ first + Len(ids) = ch.next /\ first <= ch.next
  BY <1>2, <1>5, <1>6
<1>9. PICK tag \in Tags : tag = "start"
  BY DEF Tags
<1>10. /\ <<Effect(tag, d, ids)>> \in Seq(Effects)
       /\ Flight(<<Effect(tag, d, ids)>>, d, first, first + Len(ids))
  BY <1>5, <1>7, <1>8, FlightOne
<1> QED
  BY <1>1, <1>6, <1>8, <1>9, <1>10

LEMMA ReleaseStep ==
    ASSUME IInv, Release
    PROVE  IInv'
<1>1. PICK e : e = Head(eff)
  OBVIOUS
<1>2. /\ eff \in Seq(Effects) /\ eff # <<>> /\ e \in Effects /\ e.ids \in Seq(Nat)
      /\ eff' \in Seq(Effects) /\ eff' = Tail(eff)
      /\ stream \in Ducts \cup {NoDuct} /\ got \in Nat /\ chan.next \in Nat
  <2>1. /\ eff \in Seq(Effects) /\ eff # <<>> /\ eff' = Tail(eff)
        /\ stream \in Ducts \cup {NoDuct} /\ got \in Nat /\ chan.next \in Nat
    BY DEF Release, IInv, TypeOK, ChannelType
  <2>2. eff' \in Seq(Effects) /\ e \in Effects
    BY <1>1, <2>1, InTail
  <2> QED
    BY <2>1, <2>2 DEF Effects
<1>3. /\ chan' = chan /\ connections' = connections /\ key' = key /\ cookie' = cookie
      /\ lives' = lives /\ gall' = gall /\ pokes' = pokes /\ behn' = behn /\ used' = used
  BY DEF Release, eyreVars, worldVars
<1>4. /\ open' \in {open, open \ {e.duct}}
      /\ stream' \in {stream, NoDuct} /\ client' \in {client, "quit"}
      /\ got' = IF e.duct = stream /\ e.ids # <<>> /\ Last(e.ids) >= got
                THEN Last(e.ids) + 1 ELSE got
  BY <1>1 DEF Release
<1>5. e.ids # <<>> => Last(e.ids) \in Nat
  <2>1. e.ids # <<>> => Len(e.ids) \in DOMAIN e.ids
    BY <1>2
  <2> QED
    BY <1>2, <2>1 DEF Last
<1>6. got' \in Nat /\ got <= got'
  BY <1>2, <1>4, <1>5
<1>7. TypeOK'
  <2>1. open' \subseteq Ducts
    BY <1>4 DEF IInv, TypeOK
  <2>2. stream' \in Ducts \cup {NoDuct} /\ client' \in {"new", "on", "quit"}
    BY <1>4 DEF IInv, TypeOK
  <2> QED
    BY <1>2, <1>3, <1>6, <2>1, <2>2 DEF IInv, TypeOK
<1>8. ChannelInv'
  <2>1. Queued(chan, got')
    <3>1. Queued(chan, got) /\ Len(chan.events) \in Nat
      BY DEF IInv, ChannelInv, TypeOK, ChannelType
    <3> QED
      BY <1>2, <1>6, <3>1 DEF Queued
  <2> QED
    BY <1>3, <2>1 DEF IInv, ChannelInv
<1>9. ListenerSound'
  BY <1>3 DEF IInv, ListenerSound
<1>10. TimerInv' /\ SubsInv'
  BY <1>3, <1>4 DEF IInv, TimerInv, SubsInv, Exists, TypeOK
<1>11. FlightInv'
  <2> SUFFICES ASSUME chan.st = "listen", chan.duct = stream'
               PROVE  \E first \in 0 .. got' : first <= chan.next
                                              /\ Flight(eff', stream', first, chan.next)
    BY <1>3, FlightIs DEF FlightInv, Flight, Sent, Ordered, UnderWay, InOrder
  <2>1. stream' = stream
    BY <1>4, ListenerIs
  <2>2. PICK first \in 0 .. got : first <= chan.next /\ Flight(eff, stream, first, chan.next)
    BY <2>1, FlightIs DEF IInv
  <2>3. first \in Nat
    BY <1>2, <2>2
  <2>4. /\ e.duct # stream \/ e.ids = <<>> => Flight(eff', stream, first, chan.next)
        /\ e.duct = stream /\ e.ids # <<>> =>
              /\ Last(e.ids) \in first .. chan.next - 1
              /\ Flight(eff', stream, Last(e.ids) + 1, chan.next)
    BY <1>1, <1>2, <2>2, <2>3, FlightTail
  <2>5. CASE e.duct # stream \/ e.ids = <<>>
    <3>1. Flight(eff', stream', first, chan.next)
      BY <2>1, <2>4, <2>5
    <3>2. first \in 0 .. got'
      BY <1>2, <1>6, <2>3
    <3> QED
      BY <2>2, <3>1, <3>2
  <2>6. CASE e.duct = stream /\ e.ids # <<>>
    <3>1. PICK l \in Nat : l = Last(e.ids)
      BY <1>5, <2>6
    <3>2. l <= chan.next - 1 /\ Flight(eff', stream', l + 1, chan.next)
      BY <2>1, <2>4, <2>6, <3>1
    <3>3. got' = IF l >= got THEN l + 1 ELSE got
      BY <1>4, <2>6, <3>1
    <3>4. l + 1 \in 0 .. got' /\ l + 1 <= chan.next
      BY <1>2, <3>1, <3>2, <3>3
    <3> QED
      BY <3>2, <3>4
  <2> QED
    BY <2>5, <2>6
<1> QED
  BY <1>7, <1>8, <1>9, <1>10, <1>11 DEF IInv

LEMMA GetStep ==
    ASSUME IInv, NEW d \in Ducts, Get(d)
    PROVE  IInv'
<1>1. /\ Forgotten(d) /\ on_get_request(d, got) /\ stream' = d /\ open' = open \cup {d}
      /\ UNCHANGED <<got, client, used>> /\ d # NoDuct
  BY NoDuctAssumption DEF Get
<1>2. TypeOK /\ eff \in Seq(Effects) /\ got \in Nat /\ chan \in ChannelType /\ chan.next \in Nat
  BY DEF IInv, TypeOK, ChannelType
<1>3. d # chan.duct /\ \A i \in DOMAIN eff : eff[i].duct # d
  BY <1>1 DEF Forgotten, Range
<1>4. CASE ~Exists
  <2>1. /\ eff' = Append(eff, Effect("gone", d, <<>>))
        /\ UNCHANGED <<chan, connections, key, cookie, lives, gall, pokes, behn>>
    BY <1>1, <1>4 DEF on_get_request, eyreVars, worldVars
  <2>2. eff' \in Seq(Effects)
    <3>1. <<>> \in Seq(Nat)
      OBVIOUS
    <3>2. Effect("gone", d, <<>>) \in Effects
      BY <3>1 DEF Effect, Effects, Tags
    <3> QED
      BY <1>2, <2>1, <3>2
  <2>3. TypeOK'
    BY <1>1, <1>2, <2>1, <2>2 DEF TypeOK
  <2>4. ChannelInv' /\ ListenerSound'
    BY <1>1, <2>1 DEF IInv, ChannelInv, ListenerSound
  <2>5. TimerInv' /\ SubsInv'
    BY <1>1, <2>1 DEF IInv, TimerInv, SubsInv, Exists
  <2>6. FlightInv'
    BY <1>4, <2>1 DEF FlightInv, Exists
  <2> QED
    BY <2>3, <2>4, <2>5, <2>6 DEF IInv
<1>5. CASE Exists
  <2>1. PICK ch : ch = IF got = 0 THEN chan ELSE acknowledge_events(chan, got)
    OBVIOUS
  <2>2. /\ ch \in ChannelType /\ Queued(ch, got) /\ Counted(ch)
        /\ ch.life = chan.life /\ ch.next = chan.next /\ ch.subs = chan.subs
    <3>1. Queued(chan, got) /\ Counted(chan)
      BY DEF IInv, ChannelInv
    <3>2. CASE got = 0
      BY <1>2, <2>1, <3>1, <3>2
    <3>3. CASE got # 0
      <4>1. got \in 0 .. got
        BY <1>2
      <4>2. PICK upto \in 0 .. got : upto = got
        BY <4>1
      <4>3. ch = acknowledge_events(chan, upto)
        BY <2>1, <3>3, <4>2
      <4> QED
        BY <1>2, <3>1, <4>3, Acknowledged
    <3> QED
      BY <3>2, <3>3
  <2> DEFINE old == chan.duct
             told == chan.st = "listen" /\ old \in connections
             start == <<Effect("start", d, EventIds(chan.events))>>
             rest == IF told THEN <<Effect("cancel", old, <<>>)>> ELSE <<>>
  <2>3. PICK w : w = Rested(Waited(World, {Heartbeat(d)}), {Replaced})
    OBVIOUS
  <2>4. /\ chan' = [ch EXCEPT !.st = "listen", !.duct = d, !.timer = 0, !.heart = d]
        /\ connections' = (connections \cup {d}) \ (IF told THEN {old} ELSE {})
        /\ key' = KeyLeft \cup {d} /\ cookie' = TRUE /\ Becomes(w)
        /\ eff' = eff \o start \o rest /\ lives' = lives
    BY <1>1, <1>5, <2>1, <2>3 DEF on_get_request
  <2>5. w \in Worlds /\ w.gall = gall /\ w.behn = (behn \cup {Heartbeat(d)}) \ {Replaced}
    <3>1. World \in Worlds /\ World.gall = gall /\ World.behn = behn
      BY <1>2, WorldIs
    <3>2. {Heartbeat(d)} \in SUBSET Timings
      BY DEF Timings
    <3>3. PICK v : v = Waited(World, {Heartbeat(d)})
      OBVIOUS
    <3>4. v \in Worlds /\ v.gall = gall /\ v.behn = behn \cup {Heartbeat(d)}
      BY <3>1, <3>2, <3>3, WaitedIs
    <3> QED
      BY <2>3, <3>3, <3>4, RestedIs
  <2>6. /\ gall' = gall /\ behn' = (behn \cup {Heartbeat(d)}) \ {Replaced}
        /\ gall' \in Watches /\ pokes' \in Nat /\ behn' \subseteq Timings
    BY <2>4, <2>5, BecomesIs
  <2>7. /\ chan' \in ChannelType /\ chan'.st = "listen" /\ chan'.duct = d /\ chan'.heart = d
        /\ chan'.next = chan.next /\ chan'.events = ch.events /\ chan'.unacked = ch.unacked
        /\ chan'.subs = chan.subs
    BY <2>2, <2>4 DEF ChannelType
  <2>8. key' = {d} /\ connections' \subseteq Ducts /\ d \in connections'
    <3>1. KeyLeft = {}
      BY ListenerIs DEF KeyLeft
    <3> QED
      BY <1>2, <1>3, <2>4, <3>1 DEF TypeOK
  <2>9. start \in Seq(Effects) /\ \E first \in 0 .. got :
              first <= chan.next /\ Flight(start, d, first, chan.next)
    BY <1>2, FlightStart DEF IInv, ChannelInv
  <2>10. rest \in Seq(Effects) /\ \A i \in DOMAIN rest : rest[i].duct # d
    <3>1. CASE told
      <4>1. <<>> \in Seq(Nat) /\ old \in Ducts
        BY <3>1, ListenerIs
      <4>2. PICK e \in Effects : e = Effect("cancel", old, <<>>)
        BY <4>1 DEF Effect, Effects, Tags
      <4>3. e.duct # d
        BY <1>3, <4>2 DEF Effect
      <4>4. rest = <<e>>
        BY <3>1, <4>2
      <4> HIDE DEF rest
      <4>5. DOMAIN rest = {1} /\ rest[1] = e
        BY <4>4
      <4>6. rest \in Seq(Effects)
        BY <4>4, InOne
      <4> QED
        BY <4>3, <4>5, <4>6
    <3>2. CASE ~told
      BY <3>2
    <3> QED
      BY <3>1, <3>2
  <2> HIDE DEF start, rest, told, old
  <2>11. eff' \in Seq(Effects) /\ \E first \in 0 .. got :
              first <= chan.next /\ Flight(eff', d, first, chan.next)
    <3>1. PICK first \in 0 .. got : first <= chan.next /\ Flight(start, d, first, chan.next)
      BY <2>9
    <3>2. first \in Nat
      BY <1>2
    <3>3. Flight(eff, d, first, first)
      BY <1>2, <1>3, <3>2, FlightNone
    <3>4. Flight(rest, d, chan.next, chan.next)
      BY <1>2, <2>10, FlightNone
    <3>5. PICK q : q = eff \o start
      OBVIOUS
    <3>6. q \in Seq(Effects) /\ Flight(q, d, first, chan.next)
      <4>1. first <= first
        BY <3>2
      <4> QED
        BY <1>2, <2>9, <3>1, <3>2, <3>3, <3>5, <4>1, FlightConcat
    <3>7. q \o rest \in Seq(Effects) /\ Flight(q \o rest, d, first, chan.next)
      <4>1. chan.next <= chan.next
        BY <1>2
      <4> QED
        BY <1>2, <2>10, <3>1, <3>2, <3>4, <3>6, <4>1, FlightConcat
    <3> QED
      BY <2>4, <3>1, <3>5, <3>7
  <2>12. TypeOK'
    BY <1>1, <1>2, <2>4, <2>6, <2>7, <2>8, <2>11 DEF TypeOK
  <2>13. ChannelInv'
    <3>1. Formed(chan')
      BY <2>7 DEF Formed
    <3>2. Queued(chan', got)
      BY <2>2, <2>7 DEF Queued
    <3>3. Counted(chan')
      BY <2>2, <2>7 DEF Counted
    <3> QED
      BY <1>1, <3>1, <3>2, <3>3 DEF ChannelInv
  <2>14. /\ chan.st = "listen" => Replaced = Heartbeat(chan.duct)
         /\ chan.st = "wait" => Replaced = Timeout(chan.timer)
         /\ chan.st \in {"listen", "wait"}
    BY <1>5, ListenerIs DEF Replaced, Exists
  <2>15. ListenerSound'
    <3>1. Heartbeat(d) \in behn'
      BY <1>3, <2>6, <2>14, TimingsApart
    <3>2. ASSUME NEW x \in Ducts, Heartbeat(x) \in behn', x # d PROVE FALSE
      <4>1. Heartbeat(x) \in behn /\ Heartbeat(x) # Replaced
        BY <2>6, <3>2, TimingsApart
      <4>2. chan.st = "listen" /\ x = chan.duct
        BY <4>1, ListenerIs
      <4> QED
        BY <2>14, <4>1, <4>2
    <3>3. {x \in Ducts : Heartbeat(x) \in behn'} = {d}
      BY <3>1, <3>2
    <3> QED
      BY <2>7, <2>8, <3>3 DEF ListenerSound
  <2>16. TimerInv'
    <3>1. ASSUME NEW t \in Timers, Timeout(t) \in behn' PROVE FALSE
      <4>1. Timeout(t) \in behn /\ Timeout(t) # Replaced
        BY <2>6, <3>1, TimingsApart
      <4>2. chan.st = "wait" /\ t = chan.timer
        BY <1>5, <4>1 DEF IInv, TimerInv
      <4> QED
        BY <2>14, <4>1, <4>2
    <3> QED
      BY <3>1 DEF TimerInv
  <2>17. SubsInv'
    <3>1. Held(chan, gall)
      BY <1>5 DEF IInv, SubsInv
    <3> QED
      BY <2>6, <2>7, <3>1 DEF SubsInv, Held
  <2>18. FlightInv'
    BY <1>1, <2>7, <2>11 DEF FlightInv, Flight, Sent, Ordered, UnderWay, InOrder
  <2> QED
    BY <2>12, <2>13, <2>15, <2>16, <2>17, <2>18 DEF IInv
<1> QED
  BY <1>4, <1>5

-----------------------------------------------------------------------------
(* The signs of Gall. *)

\* A queue that is added to.
LEMMA QueuedMore ==
    ASSUME NEW ch \in ChannelType, NEW c \in ChannelType, NEW g \in Nat, Queued(ch, g),
           NEW new \in Seq(Events), \A i \in DOMAIN new : new[i].id = ch.next + i - 1,
           c.events = ch.events \o new, c.next = ch.next + Len(new)
    PROVE  Queued(c, g)
<1>1. PICK evs \in Seq(Events) : evs = ch.events
  BY DEF ChannelType
<1>2. PICK n \in Nat : n = ch.next
  BY DEF ChannelType
<1>3. PICK all : all = evs \o new
  OBVIOUS
<1>4. /\ Len(evs) \in Nat /\ Len(new) \in Nat /\ DOMAIN new = 1 .. Len(new)
      /\ Len(all) = Len(evs) + Len(new)
      /\ \A i \in 1 .. Len(all) : all[i] = IF i <= Len(evs) THEN evs[i] ELSE new[i - Len(evs)]
  BY <1>3
<1>5. /\ Len(evs) <= n /\ n - Len(evs) <= g
      /\ \A i \in 1 .. Len(evs) : evs[i].id = n - Len(evs) + i - 1
  BY <1>1, <1>2 DEF Queued
<1>6. c.events = all /\ c.next = n + Len(new)
  BY <1>1, <1>2, <1>3
<1>7. c.next - Len(all) = n - Len(evs) /\ Len(all) <= c.next
  BY <1>4, <1>5, <1>6
<1>8. ASSUME NEW i \in 1 .. Len(all) PROVE all[i].id = c.next - Len(all) + i - 1
  <2>1. CASE i <= Len(evs)
    <3>1. i \in 1 .. Len(evs) /\ all[i] = evs[i]
      BY <1>4, <2>1
    <3>2. evs[i].id = n - Len(evs) + i - 1
      BY <1>5, <3>1
    <3> QED
      BY <1>7, <3>1, <3>2
  <2>2. CASE i > Len(evs)
    <3>1. PICK j \in DOMAIN new : j = i - Len(evs)
      BY <1>4, <2>2
    <3>2. all[i] = new[j]
      BY <1>4, <2>2, <3>1
    <3>3. new[j].id = n + j - 1
      BY <1>2
    <3>4. n + j - 1 = n - Len(evs) + i - 1
      BY <1>4, <3>1
    <3> QED
      BY <1>7, <3>2, <3>3, <3>4
  <2> QED
    BY <1>4, <2>1, <2>2
<1> QED
  BY <1>5, <1>6, <1>7, <1>8 DEF Queued

\* What +emit-event does to a channel that knows of the sign.
LEMMA KnownSign ==
    ASSUME IInv, NEW r \in Rids \cup {NoDuct}, NEW kind \in Kinds,
           NEW ok \in BOOLEAN, NEW late \in BOOLEAN, NEW w \in Worlds,
           kind = "poke-ack" => ok, Exists, kind = "poke-ack" \/ r \in chan.subs,
           emit_event(r, kind, ok, late, w)
    PROVE  /\ chan' \in ChannelType /\ Formed(chan') /\ Queued(chan', got) /\ Counted(chan')
           /\ chan'.st = chan.st /\ chan'.duct = chan.duct /\ chan'.timer = chan.timer
           /\ eff' \in Seq(Effects)
           /\ FlightInv /\ stream' = stream /\ got' = got => FlightInv'
           /\ \/ chan'.subs = chan.subs /\ Becomes(w)
              \/ chan'.subs = chan.subs \ {r} /\ Becomes(Left(w, {r})) /\ kind # "poke-ack"
<1>1. /\ TypeOK /\ chan \in ChannelType /\ chan.next \in Nat /\ chan.events \in Seq(Events)
      /\ chan.unacked \in [Rids -> Nat] /\ Formed(chan) /\ Queued(chan, got)
      /\ Counted(chan) /\ got \in Nat /\ eff \in Seq(Effects)
  BY DEF IInv, TypeOK, ChannelType, ChannelInv
<1>2. PICK clogged \in BOOLEAN :
        clogged = (kind = "fact" /\ ok /\ late /\ chan.unacked[r] >= ClogThreshold)
  OBVIOUS
<1>3. PICK kicking \in BOOLEAN : kicking = (clogged \/ ~ok)
  OBVIOUS
<1>4. PICK kinds : kinds = IF ~ok THEN <<"kick">>
                           ELSE IF clogged THEN <<kind, "kick">> ELSE <<kind>>
  OBVIOUS
<1>5. PICK new : new = [i \in DOMAIN kinds |-> Event(chan.next + i - 1, r, kinds[i])]
  OBVIOUS
<1>6. PICK un : un = [q \in Rids |-> IF q # r THEN chan.unacked[q]
                                     ELSE IF kicking THEN 0
                                     ELSE IF kind = "fact" THEN chan.unacked[q] + 1
                                     ELSE chan.unacked[q]]
  OBVIOUS
<1>7. /\ chan' = [chan EXCEPT
                !.events = chan.events \o new,
                !.next = chan.next + Len(new),
                !.subs = IF kicking THEN chan.subs \ {r} ELSE chan.subs,
                !.unacked = un]
      /\ eff' = IF chan.st = "listen" THEN eff \o Continues(chan.duct, new) ELSE eff
      /\ Becomes(IF kicking THEN Left(w, {r}) ELSE w)
  BY <1>2, <1>3, <1>4, <1>5, <1>6 DEF emit_event
<1>8. kinds \in Seq(Kinds)
  <2>1. "kick" \in Kinds
    BY DEF Kinds
  <2>2. <<"kick">> \in Seq(Kinds) /\ <<kind>> \in Seq(Kinds) /\ <<kind, "kick">> \in Seq(Kinds)
    BY <2>1
  <2> QED
    BY <1>4, <2>2
<1>9. /\ new \in Seq(Events) /\ Len(new) = Len(kinds) /\ DOMAIN new = DOMAIN kinds
      /\ \A i \in DOMAIN new : /\ new[i].id = chan.next + i - 1
                               /\ new[i].rid = r /\ new[i].kind = kinds[i]
  <2>1. Len(kinds) \in Nat /\ DOMAIN kinds = 1 .. Len(kinds)
    BY <1>8
  <2>2. ASSUME NEW i \in DOMAIN kinds
        PROVE  Event(chan.next + i - 1, r, kinds[i]) \in Events
    <3>1. chan.next + i - 1 \in Nat
      BY <1>1, <2>1
    <3>2. kinds[i] \in Kinds
      BY <1>8
    <3> QED
      BY <3>1, <3>2 DEF Event, Events
  <2>3. new = [i \in 1 .. Len(kinds) |-> Event(chan.next + i - 1, r, kinds[i])]
    BY <1>5, <2>1
  <2>4. new \in Seq(Events) /\ Len(new) = Len(kinds) /\ DOMAIN new = DOMAIN kinds
    BY <2>1, <2>2, <2>3
  <2>5. \A i \in DOMAIN new : new[i] = Event(chan.next + i - 1, r, kinds[i])
    BY <1>5, <2>4
  <2> QED
    BY <2>4, <2>5 DEF Event
<1>10. Len(new) \in Nat
  BY <1>9
<1>11. PICK all : all = chan.events \o new
  OBVIOUS
<1>12. all \in Seq(Events) /\ \A q : FactsOf(chan.events, q) <= FactsOf(all, q)
  BY <1>1, <1>9, <1>11, FactsGrow
<1>13. un \in [Rids -> Nat]
  BY <1>1, <1>6
<1>14. /\ chan' \in ChannelType /\ chan'.st = chan.st /\ chan'.duct = chan.duct
       /\ chan'.timer = chan.timer /\ chan'.heart = chan.heart
       /\ chan'.events = all /\ chan'.next = chan.next + Len(new) /\ chan'.unacked = un
       /\ chan'.subs = IF kicking THEN chan.subs \ {r} ELSE chan.subs
  <2>1. chan' = [chan EXCEPT !.events = all, !.next = chan.next + Len(new),
                    !.subs = IF kicking THEN chan.subs \ {r} ELSE chan.subs, !.unacked = un]
    BY <1>7, <1>11
  <2>2. chan.next + Len(new) \in Nat
    BY <1>1, <1>10
  <2> QED
    BY <1>1, <1>12, <1>13, <2>1, <2>2 DEF ChannelType
<1>15. Formed(chan')
  BY <1>1, <1>14 DEF Formed, Exists
<1>16. Queued(chan', got)
  <2>1. PICK c \in ChannelType : c = chan'
    BY <1>14
  <2>2. Queued(c, got)
    BY <1>1, <1>9, <1>11, <1>14, <2>1, QueuedMore
  <2> QED
    BY <2>1, <2>2
<1>17. Counted(chan')
  <2> SUFFICES ASSUME NEW q \in Rids PROVE un[q] <= FactsOf(all, q)
    BY <1>14 DEF Counted
  <2>1. /\ FactsOf(chan.events, q) \in Nat /\ FactsOf(all, q) \in Nat
        /\ FactsOf(chan.events, q) <= FactsOf(all, q)
        /\ chan.unacked[q] \in Nat /\ chan.unacked[q] <= FactsOf(chan.events, q)
    BY <1>1, <1>12, FactsFinite DEF Counted
  <2>2. CASE q # r \/ kicking \/ kind # "fact"
    BY <1>6, <2>1, <2>2
  <2>3. CASE q = r /\ ~kicking /\ kind = "fact"
    <3>1. kinds = <<kind>>
      BY <1>3, <1>4, <2>3
    <3>2. Len(new) = 1 /\ DOMAIN new = {1}
      BY <1>9, <3>1
    <3>3. PICK x \in Events : x = new[1]
      <4>1. \A i \in DOMAIN new : new[i] \in Events
        BY <1>9
      <4> QED
        BY <3>2, <4>1
    <3>4. new = <<x>>
      BY <1>9, <3>2, <3>3
    <3>5. x.id = chan.next /\ x.rid = r /\ x.kind = "fact"
      <4>1. new[1].id = chan.next + 1 - 1 /\ new[1].rid = r /\ new[1].kind = kinds[1]
        BY <1>9, <3>2
      <4> QED
        BY <1>1, <2>3, <3>1, <3>3, <4>1
    <3>6. \A i \in 1 .. Len(chan.events) : chan.events[i].id # x.id
      <4>1. Len(chan.events) \in Nat
        BY <1>1
      <4>2. \A i \in 1 .. Len(chan.events) :
              chan.events[i].id = chan.next - Len(chan.events) + i - 1
        BY <1>1 DEF Queued
      <4>3. \A i \in 1 .. Len(chan.events) :
              chan.next - Len(chan.events) + i - 1 # chan.next
        BY <1>1, <4>1
      <4> QED
        BY <3>5, <4>2, <4>3
    <3>7. FactsOf(chan.events \o <<x>>, x.rid) = FactsOf(chan.events, x.rid) + 1
      BY <1>1, <3>5, <3>6, FactsMore
    <3>8. FactsOf(all, q) = FactsOf(chan.events, q) + 1
      BY <1>11, <2>3, <3>4, <3>5, <3>7
    <3>9. un[q] = chan.unacked[q] + 1
      BY <1>6, <2>3
    <3> QED
      BY <2>1, <3>8, <3>9
  <2> QED
    BY <2>2, <2>3
<1>18. CASE chan.st # "listen"
  <2>1. eff' = eff
    BY <1>7, <1>18
  <2>2. FlightInv'
    BY <1>14, <1>18 DEF FlightInv
  <2>3. \/ chan'.subs = chan.subs /\ Becomes(w)
        \/ chan'.subs = chan.subs \ {r} /\ Becomes(Left(w, {r})) /\ kind # "poke-ack"
    BY <1>2, <1>3, <1>7, <1>14
  <2> QED
    BY <1>1, <1>14, <1>15, <1>16, <1>17, <2>1, <2>2, <2>3
<1>19. CASE chan.st = "listen"
  <2>1. chan.duct \in Ducts
    BY <1>19, ListenerIs
  <2>2. PICK more : more = Continues(chan.duct, new)
    OBVIOUS
  <2>3. more \in Seq(Effects) /\ Flight(more, chan.duct, chan.next, chan.next + Len(new))
    BY <1>1, <1>9, <2>1, <2>2, FlightContinues
  <2>4. eff' = eff \o more
    BY <1>7, <1>19, <2>2
  <2>5. eff' \in Seq(Effects)
    BY <1>1, <2>3, <2>4, InConcat
  <2>6. ASSUME FlightInv, stream' = stream, got' = got PROVE FlightInv'
    <3> SUFFICES ASSUME chan.duct = stream
                 PROVE  \E first \in 0 .. got : first <= chan'.next
                           /\ Flight(eff', stream, first, chan'.next)
      BY <1>14, <2>6 DEF FlightInv, Flight, Sent, Ordered, UnderWay, InOrder
    <3>1. PICK first \in 0 .. got : first <= chan.next /\ Flight(eff, stream, first, chan.next)
      BY <1>19, <2>6, FlightIs
    <3>2. PICK next \in Nat : next = chan.next + Len(new)
      BY <1>1, <1>10
    <3>3. first \in Nat /\ chan.next <= next /\ first <= next
      BY <1>1, <1>10, <3>1, <3>2
    <3>4. Flight(more, stream, chan.next, next)
      BY <2>3, <3>2
    <3>5. Flight(eff \o more, stream, first, next)
      BY <1>1, <2>3, <3>1, <3>3, <3>4, FlightConcat
    <3> QED
      BY <1>14, <2>4, <3>1, <3>2, <3>3, <3>5
  <2>7. \/ chan'.subs = chan.subs /\ Becomes(w)
        \/ chan'.subs = chan.subs \ {r} /\ Becomes(Left(w, {r})) /\ kind # "poke-ack"
    BY <1>2, <1>3, <1>7, <1>14
  <2> QED
    BY <1>14, <1>15, <1>16, <1>17, <2>5, <2>6, <2>7
<1> QED
  BY <1>18, <1>19

\* A sign of the subscription r, which Gall has; or the answer to a poke.
LEMMA EmitStep ==
    ASSUME IInv, NEW r \in Rids \cup {NoDuct}, NEW kind \in Kinds,
           NEW ok \in BOOLEAN, NEW late \in BOOLEAN, NEW w \in Worlds, w.behn = behn,
           kind = "poke-ack" => ok /\ w.gall = gall,
           kind # "poke-ack" => /\ r \in Rids /\ gall[r] # "none"
                                /\ gall[r] = "live" \/ kind = "watch-ack"
                                /\ \A q \in Rids : q # r => w.gall[q] = gall[q],
           emit_event(r, kind, ok, late, w),
           UNCHANGED <<connections, key, cookie, lives, open, stream, got, client, used>>
    PROVE  IInv'
<1>1. /\ TypeOK /\ ChannelInv /\ ListenerSound /\ TimerInv /\ SubsInv /\ FlightInv
      /\ gall \in Watches
  BY DEF IInv, TypeOK
<1>2. CASE Exists
  <2>1. Held(chan, gall)
    BY <1>1, <1>2 DEF SubsInv
  <2>2. kind = "poke-ack" \/ r \in chan.subs
    BY <2>1 DEF Held
  <2>3. /\ chan' \in ChannelType /\ Formed(chan') /\ Queued(chan', got) /\ Counted(chan')
        /\ chan'.st = chan.st /\ chan'.duct = chan.duct /\ chan'.timer = chan.timer
        /\ eff' \in Seq(Effects) /\ FlightInv'
        /\ \/ chan'.subs = chan.subs /\ Becomes(w)
           \/ chan'.subs = chan.subs \ {r} /\ Becomes(Left(w, {r})) /\ kind # "poke-ack"
    BY <1>1, <1>2, <2>2, KnownSign
  <2>4. /\ gall' \in Watches /\ pokes' \in Nat /\ behn' \subseteq Timings
        /\ behn' = behn /\ Held(chan', gall')
    <3>1. CASE chan'.subs = chan.subs /\ Becomes(w)
      <4>1. /\ gall' = w.gall /\ behn' = w.behn
            /\ gall' \in Watches /\ pokes' \in Nat /\ behn' \subseteq Timings
        BY <3>1, BecomesIs
      <4>2. Held(chan', gall')
        <5>1. CASE kind = "poke-ack"
          BY <2>1, <3>1, <4>1, <5>1 DEF Held
        <5>2. CASE kind # "poke-ack"
          BY <2>1, <2>2, <3>1, <4>1, <5>2 DEF Held
        <5> QED
          BY <5>1, <5>2
      <4> QED
        BY <4>1, <4>2
    <3>2. CASE chan'.subs = chan.subs \ {r} /\ Becomes(Left(w, {r})) /\ kind # "poke-ack"
      <4>1. PICK v : v = Left(w, {r})
        OBVIOUS
      <4>2. /\ v \in Worlds /\ v.behn = w.behn
            /\ \A q \in Rids : v.gall[q] = IF q = r THEN "none" ELSE w.gall[q]
        <5>1. \A q : q \in {r} <=> q = r
          OBVIOUS
        <5> QED
          BY <4>1, <5>1, LeftIs
      <4>3. Becomes(v)
        BY <3>2, <4>1
      <4>4. /\ gall' = v.gall /\ behn' = v.behn
            /\ gall' \in Watches /\ pokes' \in Nat /\ behn' \subseteq Timings
        BY <4>2, <4>3, BecomesIs
      <4>5. Held(chan', gall')
        BY <2>1, <3>2, <4>2, <4>4 DEF Held
      <4> QED
        BY <4>2, <4>4, <4>5
    <3> QED
      BY <2>3, <3>1, <3>2
  <2>5. TypeOK'
    BY <1>1, <2>3, <2>4 DEF TypeOK
  <2>6. ChannelInv'
    BY <2>3 DEF ChannelInv
  <2>7. ListenerSound'
    BY <1>1, <2>3, <2>4 DEF ListenerSound
  <2>8. TimerInv' /\ SubsInv'
    BY <1>1, <1>2, <2>3, <2>4 DEF TimerInv, SubsInv, Exists
  <2> QED
    BY <2>3, <2>5, <2>6, <2>7, <2>8 DEF IInv
<1>3. CASE ~Exists
  <2>1. PICK v : v = IF kind \in {"fact", "watch-ack"} THEN Left(w, {r}) ELSE w
    OBVIOUS
  <2>2. chan' = chan /\ eff' = eff /\ Becomes(v)
    BY <1>3, <2>1 DEF emit_event
  <2>3. chan = NoChannel /\ chan.st = "none" /\ chan.subs = {}
    BY <1>3, ListenerIs, NoChannelIs DEF Exists
  <2>4. kind # "poke-ack" =>
          /\ gall[r] = "asked" /\ kind = "watch-ack" /\ client = "quit"
          /\ \A q \in Rids : gall[q] # "live"
    <3> SUFFICES ASSUME kind # "poke-ack"
                 PROVE  /\ gall[r] = "asked" /\ kind = "watch-ack" /\ client = "quit"
                        /\ \A q \in Rids : gall[q] # "live"
      OBVIOUS
    <3>1. ~Held(chan, gall)
      BY <2>3 DEF Held
    <3>2. client = "quit" /\ \A q \in Rids : gall[q] # "live"
      BY <1>1, <3>1 DEF SubsInv
    <3>3. gall[r] \in {"none", "asked", "live"}
      BY <1>1 DEF Watches
    <3> QED
      BY <3>2, <3>3
  <2>5. /\ v \in Worlds /\ v.behn = behn
        /\ kind = "poke-ack" => v.gall = gall
        /\ kind # "poke-ack" => \A q \in Rids : v.gall[q] = IF q = r THEN "none" ELSE w.gall[q]
    <3>1. CASE kind = "poke-ack"
      BY <2>1, <3>1
    <3>2. CASE kind # "poke-ack"
      <4>1. v = Left(w, {r})
        BY <2>1, <2>4, <3>2
      <4>2. \A q : q \in {r} <=> q = r
        OBVIOUS
      <4> QED
        BY <3>2, <4>1, <4>2, LeftIs
    <3> QED
      BY <3>1, <3>2
  <2>6. /\ gall' = v.gall /\ behn' = behn
        /\ gall' \in Watches /\ pokes' \in Nat /\ behn' \subseteq Timings
    BY <2>2, <2>5, BecomesIs
  <2>7. TypeOK'
    BY <1>1, <2>2, <2>6 DEF TypeOK
  <2>8. ChannelInv' /\ ListenerSound' /\ FlightInv'
    BY <1>1, <1>3, <2>2, <2>6 DEF ChannelInv, ListenerSound, FlightInv, Exists
  <2>9. TimerInv'
    BY <1>1, <2>2, <2>6 DEF TimerInv, Exists
  <2>10. SubsInv'
    <3>1. CASE kind = "poke-ack"
      BY <1>1, <2>2, <2>5, <2>6, <3>1 DEF SubsInv, Exists
    <3>2. CASE kind # "poke-ack"
      <4>1. \A q \in Rids : gall'[q] # "live"
        BY <2>4, <2>5, <2>6, <3>2
      <4> QED
        BY <1>3, <2>2, <2>4, <3>2, <4>1 DEF SubsInv, Exists
    <3> QED
      BY <3>1, <3>2
  <2> QED
    BY <2>7, <2>8, <2>9, <2>10 DEF IInv
<1> QED
  BY <1>2, <1>3

LEMMA SignStep ==
    ASSUME IInv, NEW r \in Rids, NEW kind \in Kinds, kind # "poke-ack",
           gall[r] # "none", gall[r] = "live" \/ kind = "watch-ack",
           NEW ok \in BOOLEAN, NEW late \in BOOLEAN,
           NEW next \in {"none", "asked", "live"}, Sign(r, kind, ok, late, next)
    PROVE  IInv'
<1>1. PICK w : w = [World EXCEPT !.gall = [gall EXCEPT ![r] = next]]
  OBVIOUS
<1>2. World \in Worlds /\ World.gall = gall /\ World.behn = behn /\ gall \in Watches
  BY WorldIs DEF IInv, TypeOK
<1>3. PICK g \in Watches : g = [gall EXCEPT ![r] = next]
  BY <1>2 DEF Watches
<1>4. \A q \in Rids : q # r => g[q] = gall[q]
  BY <1>2, <1>3 DEF Watches
<1>5. w = [World EXCEPT !.gall = g]
  BY <1>1, <1>3
<1>6. w \in Worlds /\ w.behn = behn /\ w.gall = g
  BY <1>2, <1>5 DEF Worlds
<1>7. /\ emit_event(r, kind, ok, late, w)
      /\ UNCHANGED <<connections, key, cookie, lives, open, stream, got, client, used>>
  BY <1>1 DEF Sign, clientVars
<1> QED
  BY <1>4, <1>6, <1>7, EmitStep

LEMMA WatchAckStep ==
    ASSUME IInv, NEW r \in Rids, watch_ack(r)
    PROVE  IInv'
<1>1. PICK next \in {"live", "none"} : Sign(r, "watch-ack", TRUE, FALSE, next)
  BY DEF watch_ack
<1>2. PICK kind \in Kinds : kind = "watch-ack"
  BY DEF Kinds
<1>3. PICK ok \in BOOLEAN : ok = TRUE
  OBVIOUS
<1>4. PICK late \in BOOLEAN : late = FALSE
  OBVIOUS
<1>5. Sign(r, kind, ok, late, next) /\ gall[r] # "none" /\ kind # "poke-ack"
  BY <1>1, <1>2, <1>3, <1>4 DEF watch_ack
<1>6. next \in {"none", "asked", "live"}
  OBVIOUS
<1> QED
  BY <1>2, <1>5, <1>6, SignStep

LEMMA FactStep ==
    ASSUME IInv, NEW r \in Rids, fact(r)
    PROVE  IInv'
<1>1. PICK ok \in BOOLEAN, late \in BOOLEAN : Sign(r, "fact", ok, late, "live")
  BY DEF fact
<1>2. PICK kind \in Kinds : kind = "fact"
  BY DEF Kinds
<1>3. PICK next \in {"none", "asked", "live"} : next = "live"
  OBVIOUS
<1>4. Sign(r, kind, ok, late, next) /\ gall[r] = "live" /\ kind # "poke-ack"
      /\ gall[r] # "none"
  BY <1>1, <1>2, <1>3 DEF fact
<1> QED
  BY <1>4, SignStep

LEMMA KickStep ==
    ASSUME IInv, NEW r \in Rids, kick(r)
    PROVE  IInv'
<1>1. PICK kind \in Kinds : kind = "kick"
  BY DEF Kinds
<1>2. PICK next \in {"none", "asked", "live"} : next = "none"
  OBVIOUS
<1>3. PICK ok \in BOOLEAN : ok = TRUE
  OBVIOUS
<1>4. PICK late \in BOOLEAN : late = FALSE
  OBVIOUS
<1>5. Sign(r, kind, ok, late, next) /\ gall[r] = "live" /\ kind # "poke-ack"
      /\ gall[r] # "none"
  BY <1>1, <1>2, <1>3, <1>4 DEF kick
<1> QED
  BY <1>5, SignStep

LEMMA PokeAckStep ==
    ASSUME IInv, poke_ack
    PROVE  IInv'
<1>1. PICK w : w = [World EXCEPT !.pokes = pokes - 1]
  OBVIOUS
<1>2. World \in Worlds /\ World.gall = gall /\ World.behn = behn /\ pokes \in Nat /\ pokes > 0
  BY WorldIs DEF IInv, TypeOK, poke_ack
<1>3. w \in Worlds /\ w.behn = behn /\ w.gall = gall
  <2>1. pokes - 1 \in Nat
    BY <1>2
  <2> QED
    BY <1>1, <1>2, <2>1 DEF Worlds
<1>4. PICK kind \in Kinds : kind = "poke-ack"
  BY DEF Kinds
<1>5. PICK r \in Rids \cup {NoDuct} : r = NoDuct
  OBVIOUS
<1>6. PICK ok \in BOOLEAN : ok = TRUE
  OBVIOUS
<1>7. PICK late \in BOOLEAN : late = FALSE
  OBVIOUS
<1>8. /\ emit_event(r, kind, ok, late, w)
      /\ UNCHANGED <<connections, key, cookie, lives, open, stream, got, client, used>>
  BY <1>1, <1>4, <1>5, <1>6, <1>7 DEF poke_ack, clientVars
<1> QED
  BY <1>3, <1>4, <1>6, <1>8, EmitStep

-----------------------------------------------------------------------------
(* The theorems. *)

LEMMA InitHolds == Init => IInv
<1> SUFFICES ASSUME Init PROVE IInv
  OBVIOUS
<1>1. /\ chan \in ChannelType /\ chan.st = "none" /\ Formed(chan) /\ Counted(chan)
      /\ \A g \in Nat : Queued(chan, g)
  BY NoChannelIs DEF Init
<1>2. TypeOK
  <2>1. gall \in Watches
    BY DEF Init, Watches
  <2>2. eff \in Seq(Effects)
    BY DEF Init
  <2>3. cookie \in BOOLEAN
    BY DEF Init
  <2>4. behn \subseteq Timings /\ connections \subseteq Ducts /\ key \subseteq Ducts
        /\ open \subseteq Ducts /\ used \subseteq Rids
    BY DEF Init
  <2> QED
    BY <1>1, <2>1, <2>2, <2>3, <2>4 DEF Init, TypeOK
<1>3. ChannelInv
  BY <1>1, <1>2 DEF ChannelInv, TypeOK
<1>4. ListenerSound
  BY <1>1 DEF Init, ListenerSound
<1>5. TimerInv /\ SubsInv
  BY DEF Init, TimerInv, SubsInv, Held
<1>6. FlightInv
  BY <1>1 DEF FlightInv
<1> QED
  BY <1>2, <1>3, <1>4, <1>5, <1>6 DEF IInv

LEMMA Stutters == IInv /\ UNCHANGED vars => IInv'
<1> SUFFICES ASSUME IInv, UNCHANGED vars PROVE IInv'
  OBVIOUS
<1>1. /\ UNCHANGED <<chan, connections, key, cookie, lives, gall, pokes, behn, eff, open>>
      /\ UNCHANGED <<stream, got, client, used>>
  BY DEF vars, eyreVars, worldVars, clientVars
<1>2. TypeOK' /\ ChannelInv'
  BY <1>1 DEF IInv, TypeOK, ChannelInv
<1>3. ListenerSound' /\ TimerInv' /\ SubsInv'
  BY <1>1 DEF IInv, ListenerSound, TimerInv, SubsInv, Exists
<1>4. FlightInv'
  BY <1>1 DEF IInv, FlightInv, InOrder, UnderWay
<1> QED
  BY <1>2, <1>3, <1>4 DEF IInv

\* What eyre's channel handlers keep, each after any of the others: the shapes of a
\* channel, one listener or one timer, a queue without a gap that its counts do not
\* run ahead of, subscriptions that Gall and the channel both know of, and a stream
\* that goes on from what the client has got.
THEOREM ChannelsInductive == Spec => []IInv
<1>1. IInv /\ Next => IInv'
  <2> SUFFICES ASSUME IInv, Next PROVE IInv'
    OBVIOUS
  <2>1. CASE \E cmds \in Batches : Put(cmds)
    BY <2>1, PutStep
  <2>2. CASE \E d \in Ducts : Get(d)
    BY <2>2, GetStep
  <2>3. CASE \E d \in Ducts : Drop(d)
    BY <2>3, DropStep
  <2>4. CASE Lose \/ Quit \/ Release \/ Restart \/ trim
    BY <2>4, LoseStep, QuitStep, ReleaseStep, RestartStep, TrimStep
  <2>5. CASE \E r \in Rids : watch_ack(r) \/ fact(r) \/ kick(r)
    BY <2>5, WatchAckStep, FactStep, KickStep
  <2>6. CASE poke_ack
    BY <2>6, PokeAckStep
  <2>7. CASE \E t \in Timers : timeout(t)
    BY <2>7, TimeoutStep
  <2> QED
    BY <2>1, <2>2, <2>3, <2>4, <2>5, <2>6, <2>7 DEF Next
<1> QED
  BY <1>1, InitHolds, Stutters, PTL DEF Spec

\* A channel has one listener or one timer, whatever GETs, lost streams, restarts
\* and timers cross: what +on-cancel-request takes for granted ("it should have a
\* listener") and what the heartbeat and +trim go by.
THEOREM OneListener == Spec => []ListenerSound
<1>1. IInv => ListenerSound
  BY DEF IInv
<1> QED
  BY <1>1, ChannelsInductive, PTL

\* +acknowledge-events and +emit-event keep the count that decides on a clog within
\* the facts queued, for every threshold.
THEOREM CountsWithinQueue == Spec => []UnackedCounts
<1>1. IInv => UnackedCounts
  BY DEF IInv, ChannelInv, Counted, UnackedCounts
<1> QED
  BY <1>1, ChannelsInductive, PTL

\* +discard-channel and +on-gall-response leave no agent with a subscription that no
\* channel holds: "we should clean up subscriptions".
THEOREM SubsHaveChannel == Spec => []NoOrphanSubs
<1>1. IInv => NoOrphanSubs
  <2> SUFFICES ASSUME IInv, NEW r \in Rids, gall[r] = "live" PROVE Exists /\ r \in chan.subs
    BY DEF NoOrphanSubs
  <2>1. r \in chan.subs
    BY DEF IInv, SubsInv, Held
  <2>2. Exists
    BY <2>1, ListenerIs, NoChannelIs DEF Exists
  <2> QED
    BY <2>1, <2>2
<1> QED
  BY <1>1, ChannelsInductive, PTL

\* +emit-event keeps what +on-get-request replays: the queue goes from what the
\* client has got, or before, to the last event numbered, and so does what is under
\* way on the stream it listens to, in order.
THEOREM StreamGoesOn == Spec => []StreamWhole
<1>1. IInv => StreamWhole
  <2> SUFFICES ASSUME IInv
               PROVE  /\ \E first \in 0 .. got : first <= chan.next /\ QueuedFrom(first)
                      /\ chan.st = "listen" /\ chan.duct = stream =>
                            /\ InOrder(stream)
                            /\ \E first \in 0 .. got : first <= chan.next
                                  /\ UnderWay(stream) = first .. chan.next - 1
    BY DEF StreamWhole
  <2>1. PICK evs \in Seq(Events) : evs = chan.events
    BY DEF IInv, TypeOK, ChannelType
  <2>2. chan.next \in Nat /\ got \in Nat /\ Len(evs) \in Nat /\ DOMAIN evs = 1 .. Len(evs)
    BY DEF IInv, TypeOK, ChannelType
  <2>3. /\ Len(evs) <= chan.next /\ chan.next - Len(evs) <= got
        /\ \A i \in 1 .. Len(evs) : evs[i].id = chan.next - Len(evs) + i - 1
    BY <2>1 DEF IInv, ChannelInv, Queued
  <2>4. PICK first \in 0 .. got : first = chan.next - Len(evs)
    BY <2>2, <2>3
  <2>5. chan.next - first = Len(evs) /\ first <= chan.next
    BY <2>2, <2>4
  <2>6. EventIds(evs) = [i \in 1 .. Len(evs) |-> first + i - 1]
    BY <2>2, <2>3, <2>4 DEF EventIds
  <2>7. QueuedFrom(first)
    BY <2>1, <2>5, <2>6 DEF QueuedFrom
  <2> QED
    BY <2>5, <2>7 DEF IInv, FlightInv
<1> QED
  BY <1>1, ChannelsInductive, PTL

=============================================================================
