------------------------------ MODULE MarsProof ------------------------------
(***************************************************************************)
(* Theorems about Mars, for every set of Ids and all bounds: no effect is  *)
(* told before its event is durable, no snapshot runs ahead of the log,    *)
(* and the loop's account of the log is true.                              *)
(*                                                                         *)
(* None of the three is inductive alone.  What lets an answer go is a      *)
(* number, dun, so its owner must be at that place in the log: hence Told  *)
(* of the answers held back, which speaks of the events computed, and      *)
(* WriterOK, which says how far these agree with the log.                  *)
(***************************************************************************)
EXTENDS Mars, TLAPS

Running == {"work", "save", "exit"}

\* The answers gs number events of st correctly.
Told(gs, st) ==
    \A i \in 1 .. Len(gs) :
        gs[i].tag = "done" =>
            gs[i].eve \in 1 .. Len(st) /\ st[gs[i].eve] = gs[i].id

\* a is a prefix of b.
Begins(a, b) ==
    /\ Len(a) <= Len(b)
    /\ \A i \in 1 .. Len(a) : a[i] = b[i]

\* A process that is not there, or has sent no %ripe, holds nothing.
EmptyOK ==
    sat \in {"down", "boot"} =>
        /\ state = <<>> /\ gif = <<>>
        /\ dun = 0 /\ len = 0 /\ ted = "idle"

\* The writer's batch is what follows the durable events among those computed.
WriterOK ==
    sat \in Running =>
        /\ Len(log) = IF ted = "yes" THEN dun + len ELSE dun
        /\ Begins(log, state)
        /\ ted = "idle" => dun = Len(state)
        /\ ted # "idle" => len > 0 /\ dun + len <= Len(state)

\* Only an event has a subject that is an ovum.
TasksOK == \A i \in 1 .. Len(inn) : inn[i].tag = "poke" => inn[i].id \in Ids

IInv ==
    /\ TypeOK
    /\ EmptyOK
    /\ WriterOK
    /\ TasksOK
    /\ Told(gif, state)
    /\ EffectsDurable
    /\ SnapshotBehindLog

-----------------------------------------------------------------------------
(* Answers in sequence. *)

\* Messages are gifts.
LEMMA MessageTyped ==
    ASSUME NEW tag \in GiftTags, NEW id \in Ids \cup {NoId}, NEW e \in Nat
    PROVE  Message(tag, id, e) \in Gift
BY DEF Message, Gift

\* A part of the answers is told as well as the whole.
LEMMA ToldPart ==
    ASSUME NEW gs \in Seq(Gift), NEW st \in Seq(Ids), Told(gs, st),
           NEW m \in 1 .. Len(gs) + 1, NEW n \in 0 .. Len(gs)
    PROVE  /\ SubSeq(gs, m, n) \in Seq(Gift)
           /\ Told(SubSeq(gs, m, n), st)
<1> DEFINE p == SubSeq(gs, m, n)
<1>1. p \in Seq(Gift)
  OBVIOUS
<1>2. \A i \in 1 .. Len(p) : i + m - 1 \in 1 .. Len(gs) /\ p[i] = gs[i + m - 1]
  OBVIOUS
<1>3. Told(p, st)
  BY <1>1, <1>2 DEF Told
<1> QED
  BY <1>1, <1>3

\* So are two rows of answers, one behind the other.
LEMMA ToldTogether ==
    ASSUME NEW a \in Seq(Gift), NEW b \in Seq(Gift), NEW st \in Seq(Ids),
           Told(a, st), Told(b, st)
    PROVE  a \o b \in Seq(Gift) /\ Told(a \o b, st)
<1> DEFINE c == a \o b
<1>1. c \in Seq(Gift) /\ Len(c) = Len(a) + Len(b)
  OBVIOUS
<1>2. ASSUME NEW i \in 1 .. Len(c)
      PROVE  \/ i \in 1 .. Len(a) /\ c[i] = a[i]
             \/ i - Len(a) \in 1 .. Len(b) /\ c[i] = b[i - Len(a)]
  OBVIOUS
<1>3. Told(c, st)
  BY <1>1, <1>2 DEF Told
<1> QED
  BY <1>1, <1>3

LEMMA ToldOneMore ==
    ASSUME NEW gs \in Seq(Gift), NEW g \in Gift, NEW st \in Seq(Ids),
           Told(gs, st),
           g.tag = "done" => g.eve \in 1 .. Len(st) /\ st[g.eve] = g.id
    PROVE  Append(gs, g) \in Seq(Gift) /\ Told(Append(gs, g), st)
<1> DEFINE c == Append(gs, g)
<1>1. c \in Seq(Gift) /\ Len(c) = Len(gs) + 1
  OBVIOUS
<1>2. ASSUME NEW i \in 1 .. Len(c)
      PROVE  (i \in 1 .. Len(gs) /\ c[i] = gs[i]) \/ c[i] = g
  OBVIOUS
<1>3. Told(c, st)
  BY <1>1, <1>2 DEF Told
<1> QED
  BY <1>1, <1>3

\* What was told of a log stays true of a longer one.
LEMMA ToldLonger ==
    ASSUME NEW gs \in Seq(Gift), NEW a \in Seq(Ids), NEW b \in Seq(Ids),
           Told(gs, a), Begins(a, b)
    PROVE  Told(gs, b)
<1> SUFFICES ASSUME NEW i \in 1 .. Len(gs), gs[i].tag = "done"
             PROVE  gs[i].eve \in 1 .. Len(b) /\ b[gs[i].eve] = gs[i].id
  BY DEF Told
<1>1. gs[i].eve \in 1 .. Len(a) /\ a[gs[i].eve] = gs[i].id
  BY DEF Told
<1> QED
  BY <1>1 DEF Begins

\* Answers that may be sent when d events are in l are true of l.
LEMMA ToldDurable ==
    ASSUME NEW gs \in Seq(Gift), NEW st \in Seq(Ids), NEW l \in Seq(Ids),
           NEW d \in Nat, d <= Len(l), Begins(l, st), Told(gs, st),
           NEW n \in 0 .. Len(gs), Sends(n, gs, d)
    PROVE  SubSeq(gs, 1, n) \in Seq(Gift) /\ Told(SubSeq(gs, 1, n), l)
<1> DEFINE p == SubSeq(gs, 1, n)
<1>1. p \in Seq(Gift) /\ Len(p) = n
  OBVIOUS
<1>2. \A i \in 1 .. n : p[i] = gs[i] /\ i \in 1 .. Len(gs)
  OBVIOUS
<1>3. ASSUME NEW i \in 1 .. n, gs[i].tag = "done"
      PROVE  gs[i].eve \in 1 .. Len(l) /\ l[gs[i].eve] = gs[i].id
  <2>1. gs[i].eve \in 1 .. Len(st) /\ st[gs[i].eve] = gs[i].id
    BY <1>2, <1>3 DEF Told
  <2>2. gs[i].eve <= d
    BY <1>3 DEF Sends, MaySend
  <2> QED
    BY <2>1, <2>2 DEF Begins
<1>4. Told(p, l)
  BY <1>1, <1>2, <1>3 DEF Told
<1> QED
  BY <1>1, <1>4

-----------------------------------------------------------------------------
(* The shared pieces of the handlers. *)

\* What is sent is durable; what is kept is as true as before.
LEMMA SendSound ==
    ASSUME NEW gs \in Seq(Gift), NEW st \in Seq(Ids), NEW d \in Nat,
           log \in Seq(Ids), out \in Seq(Gift),
           d <= Len(log), Begins(log, st), Told(gs, st), Told(out, log),
           Send(gs, d)
    PROVE  /\ out' \in Seq(Gift) /\ Told(out', log)
           /\ gif' \in Seq(Gift) /\ Told(gif', st)
<1>1. PICK n \in 0 .. Len(gs) :
        /\ Sends(n, gs, d)
        /\ out' = out \o SubSeq(gs, 1, n)
        /\ gif' = SubSeq(gs, n + 1, Len(gs))
  BY DEF Send
<1>2. SubSeq(gs, 1, n) \in Seq(Gift) /\ Told(SubSeq(gs, 1, n), log)
  BY <1>1, ToldDurable
<1>3. out' \in Seq(Gift) /\ Told(out', log)
  BY <1>1, <1>2, ToldTogether
<1>4. n + 1 \in 1 .. Len(gs) + 1 /\ Len(gs) \in 0 .. Len(gs)
  OBVIOUS
<1>5. gif' \in Seq(Gift) /\ Told(gif', st)
  BY <1>1, <1>4, ToldPart
<1> QED
  BY <1>3, <1>5

\* What the pipe has carried of the answers when the process ends.
LEMMA LoseSound ==
    ASSUME NEW o \in Seq(Gift), NEW l \in Seq(Ids), Told(o, l), LoseOutput(o)
    PROVE  out' \in Seq(Gift) /\ Told(out', l)
<1>1. PICK n \in 0 .. Len(o) : out' = SubSeq(o, 1, n)
  BY DEF LoseOutput
<1>2. 1 \in 1 .. Len(o) + 1
  OBVIOUS
<1> QED
  BY <1>1, <1>2, ToldPart

\* A snapshot that waited for the log holds what the log holds.
LEMMA SettledSnapshot ==
    ASSUME NEW st \in Seq(Ids), NEW l \in Seq(Ids), NEW d \in Nat,
           d <= Len(l), Begins(l, st), d = Len(st)
    PROVE  Begins(st, l)
BY DEF Begins

\* _mars_flush() that does not end the process.
LEMMA FlushSound ==
    ASSUME NEW s \in Running, NEW st \in Seq(Ids), NEW d \in Nat,
           NEW gs \in Seq(Gift),
           log \in Seq(Ids), out \in Seq(Gift), snap \in Seq(Ids), sav \in Nat,
           d <= Len(log), Begins(log, st), Told(gs, st), Told(out, log),
           Begins(snap, log), Flush(s, st, d, gs)
    PROVE  /\ sat' \in Running /\ sav' \in Nat
           /\ snap' \in Seq(Ids) /\ Begins(snap', log)
           /\ out' \in Seq(Gift) /\ Told(out', log)
           /\ gif' \in Seq(Gift) /\ Told(gif', st)
<1> DEFINE saves == s = "save" /\ d = Len(st)
           sync == Message("sync", NoId, Len(st))
           all == IF saves THEN Append(gs, sync) ELSE gs
<1>1. /\ Send(all, d)
      /\ sat' = IF saves THEN "work" ELSE s
      /\ snap' = IF saves THEN st ELSE snap
      /\ sav' = IF saves THEN Len(st) ELSE sav
  BY DEF Flush
<1>2. sync \in Gift /\ sync.tag # "done"
  <2>1. Len(st) \in Nat
    OBVIOUS
  <2> QED
    BY <2>1, MessageTyped DEF GiftTags, Message
<1>3. all \in Seq(Gift) /\ Told(all, st)
  <2> HIDE DEF sync
  <2> QED
    BY <1>2, ToldOneMore
<1>4. /\ out' \in Seq(Gift) /\ Told(out', log)
      /\ gif' \in Seq(Gift) /\ Told(gif', st)
  <2> HIDE DEF all
  <2> QED
    BY <1>1, <1>3, SendSound
<1>5. snap' \in Seq(Ids) /\ Begins(snap', log)
  BY <1>1, SettledSnapshot
<1>6. sat' \in Running /\ sav' \in Nat
  BY <1>1 DEF Running
<1> QED
  BY <1>4, <1>5, <1>6

\* The end of a process: nothing is left of it but the two files.
LEMMA EndSound ==
    ASSUME NEW l \in Seq(Ids), NEW s \in Seq(Ids), Begins(s, l), End(l, s),
           out' \in Seq(Gift), Told(out', l)
    PROVE  IInv'
<1>1. /\ sat' = "down" /\ log' = l /\ snap' = s
      /\ state' = <<>> /\ dun' = 0 /\ len' = 0 /\ ted' = "idle" /\ sav' = 0
      /\ gif' = <<>> /\ inn' = <<>>
  BY DEF End
<1>2. TypeOK'
  BY <1>1, BatchAssumption DEF TypeOK, Sats
<1>3. EmptyOK' /\ WriterOK' /\ TasksOK'
  BY <1>1 DEF EmptyOK, WriterOK, TasksOK, Running
<1>4. Told(gif, state)'
  BY <1>1 DEF Told
<1>5. EffectsDurable' /\ SnapshotBehindLog'
  BY <1>1 DEF EffectsDurable, SnapshotBehindLog, Told, Begins
<1> QED
  BY <1>2, <1>3, <1>4, <1>5 DEF IInv

\* _mars_flush() that does.
LEMMA ExitSound ==
    ASSUME NEW s, NEW st \in Seq(Ids), NEW d \in Nat, NEW gs \in Seq(Gift),
           log \in Seq(Ids), out \in Seq(Gift),
           d <= Len(log), Begins(log, st), Told(gs, st), Told(out, log),
           FlushExit(s, st, d, gs)
    PROVE  IInv'
<1>1. d = Len(st) /\ End(log, st)
  BY DEF FlushExit
<1>2. PICK n \in 0 .. Len(gs) :
        Sends(n, gs, d) /\ LoseOutput(out \o SubSeq(gs, 1, n))
  BY DEF FlushExit
<1> DEFINE p == SubSeq(gs, 1, n)
<1>3. p \in Seq(Gift) /\ Told(p, log)
  BY <1>2, ToldDurable
<1>4. out \o p \in Seq(Gift) /\ Told(out \o p, log)
  <2> HIDE DEF p
  <2> QED
    BY <1>3, ToldTogether
<1>5. out' \in Seq(Gift) /\ Told(out', log)
  BY <1>2, <1>4, LoseSound
<1>6. Begins(st, log)
  BY <1>1, SettledSnapshot
<1> QED
  BY <1>1, <1>5, <1>6, EndSound

\* _disk_commit(): a batch of what the log lacks, within bounds.
LEMMA CommitSound ==
    ASSUME NEW st \in Seq(Ids), NEW d \in Nat, d <= Len(st), Commit(st, d)
    PROVE  /\ len' \in 0 .. BatchMax /\ ted' \in {"idle", "busy"}
           /\ ted' = "idle" => len' = 0 /\ d = Len(st)
           /\ ted' # "idle" => len' > 0 /\ d + len' <= Len(st)
BY BatchAssumption DEF Commit

-----------------------------------------------------------------------------
(* The handlers. *)

\* What IInv says, in the words of the lemmas above.
LEMMA Known ==
    ASSUME IInv
    PROVE  /\ state \in Seq(Ids) /\ log \in Seq(Ids) /\ snap \in Seq(Ids)
           /\ dun \in Nat /\ len \in 0 .. BatchMax /\ len \in Nat /\ sav \in Nat
           /\ gif \in Seq(Gift) /\ out \in Seq(Gift) /\ inn \in Seq(Task)
           /\ Told(out, log) /\ Told(gif, state) /\ Begins(snap, log)
           /\ sat \in Running => dun <= Len(log) /\ Begins(log, state)
BY BatchAssumption
   DEF IInv, TypeOK, WriterOK, EffectsDurable, SnapshotBehindLog, Told, Begins

LEMMA StartInv == Init => IInv
<1> SUFFICES ASSUME Init PROVE IInv
  OBVIOUS
<1> USE DEF Init
<1>1. TypeOK
  BY BatchAssumption DEF TypeOK, Sats
<1>2. EmptyOK /\ WriterOK /\ TasksOK /\ Told(gif, state)
  BY DEF EmptyOK, WriterOK, TasksOK, Told, Running
<1>3. EffectsDurable /\ SnapshotBehindLog
  BY DEF EffectsDurable, SnapshotBehindLog
<1> QED
  BY <1>1, <1>2, <1>3 DEF IInv

\* The replay ends with the events of the log, in its order.
LEMMA WorkInv == IInv /\ u3_mars_work => IInv'
<1> SUFFICES ASSUME IInv, u3_mars_work PROVE IInv'
  OBVIOUS
<1> USE Known
<1> DEFINE replay == SubSeq(log, Len(snap) + 1, Len(log))
<1>1. /\ sat = "boot" /\ sat' = "work"
      /\ state' = snap \o replay /\ snap' = state'
      /\ dun' = Len(log) /\ sav' = Len(state')
      /\ out' = Append(out, Message("ripe", NoId, Len(state')))
      /\ log' = log /\ len' = len /\ ted' = ted /\ gif' = gif /\ inn' = inn
  BY DEF u3_mars_work
<1>2. len = 0 /\ ted = "idle" /\ gif = <<>>
  BY <1>1 DEF IInv, EmptyOK
<1>3. replay \in Seq(Ids) /\ Len(replay) = Len(log) - Len(snap)
      /\ \A i \in 1 .. Len(replay) : replay[i] = log[i + Len(snap)]
  BY DEF Begins
<1>4. state' \in Seq(Ids) /\ Len(state') = Len(log)
  <2> HIDE DEF replay
  <2> QED
    BY <1>1, <1>3 DEF Begins
<1>5. \A i \in 1 .. Len(log) : state'[i] = log[i]
  <2> HIDE DEF replay
  <2> TAKE i \in 1 .. Len(log)
  <2>1. CASE i <= Len(snap)
    BY <1>1, <1>3, <2>1 DEF Begins
  <2>2. CASE i > Len(snap)
    <3>1. i - Len(snap) \in 1 .. Len(replay)
      BY <1>3, <2>2
    <3>2. state'[i] = replay[i - Len(snap)]
      BY <1>1, <1>3, <2>2, <3>1
    <3> QED
      BY <1>3, <3>1, <3>2
  <2> QED
    BY <2>1, <2>2
<1>6. Begins(log, state') /\ Begins(state', log)
  BY <1>4, <1>5 DEF Begins
<1>7. out' \in Seq(Gift) /\ Told(out', log)
  <2>1. Message("ripe", NoId, Len(state')) \in Gift
    <3>1. Len(state') \in Nat
      BY <1>4
    <3> QED
      BY <3>1, MessageTyped DEF GiftTags
  <2>2. Message("ripe", NoId, Len(state')).tag # "done"
    BY DEF Message
  <2> QED
    BY <1>1, <2>1, <2>2, ToldOneMore
<1>8. TypeOK'
  BY <1>1, <1>4, <1>7 DEF IInv, TypeOK, Sats
<1>9. EmptyOK' /\ WriterOK' /\ TasksOK'
  BY <1>1, <1>2, <1>4, <1>6 DEF IInv, EmptyOK, WriterOK, TasksOK, Running
<1>10. Told(gif, state)'
  BY <1>1, <1>2 DEF Told
<1>11. EffectsDurable' /\ SnapshotBehindLog'
  BY <1>1, <1>6, <1>7 DEF EffectsDurable, SnapshotBehindLog, Told, Begins
<1> QED
  BY <1>8, <1>9, <1>10, <1>11 DEF IInv

\* A task taken leaves a row of tasks.
LEMMA TakeTask ==
    ASSUME IInv, NEW tags, Kick(tags)
    PROVE  /\ Head(inn) \in Task /\ Tail(inn) \in Seq(Task)
           /\ Head(inn).tag \in tags
           /\ Head(inn).tag = "poke" => Head(inn).id \in Ids
           /\ inn' = Tail(inn) => TasksOK'
           /\ sat = "work"
<1>1. inn \in Seq(Task) /\ inn # <<>> /\ TasksOK
  BY DEF IInv, TypeOK, Kick
<1>2. Head(inn) = inn[1] /\ 1 \in 1 .. Len(inn)
  BY <1>1
<1>3. Head(inn) \in Task /\ Tail(inn) \in Seq(Task)
  BY <1>1
<1>4. \A i \in 1 .. Len(Tail(inn)) :
        Tail(inn)[i] = inn[i + 1] /\ i + 1 \in 1 .. Len(inn)
  BY <1>1
<1>5. inn' = Tail(inn) => TasksOK'
  BY <1>1, <1>4 DEF TasksOK
<1> QED
  BY <1>1, <1>2, <1>3, <1>5 DEF TasksOK, Kick

\* A handler that leaves the events st, d of them durable and known to be, the
\* answers gs, and a writer that agrees with them.
LEMMA FlushInv ==
    ASSUME IInv, NEW s \in Running, NEW st \in Seq(Ids), NEW d \in Nat,
           NEW gs \in Seq(Gift),
           d <= Len(log), Begins(log, st), Told(gs, st), Flush(s, st, d, gs),
           state' = st, log' = log, dun' = d,
           len' \in 0 .. BatchMax, ted' \in {"idle", "busy", "yes", "no"},
           Len(log) = IF ted' = "yes" THEN d + len' ELSE d,
           ted' = "idle" => d = Len(st),
           ted' # "idle" => len' > 0 /\ d + len' <= Len(st),
           inn' \in Seq(Task), TasksOK'
    PROVE  IInv'
<1>1. /\ sat' \in Running /\ sav' \in Nat
      /\ snap' \in Seq(Ids) /\ Begins(snap', log)
      /\ out' \in Seq(Gift) /\ Told(out', log)
      /\ gif' \in Seq(Gift) /\ Told(gif', st)
  BY Known, FlushSound
<1>2. TypeOK'
  BY <1>1, Known DEF TypeOK, Running, Sats
<1>3. EmptyOK' /\ WriterOK'
  BY <1>1 DEF EmptyOK, WriterOK, Running
<1>4. Told(gif, state)'
  BY <1>1 DEF Told
<1>5. EffectsDurable' /\ SnapshotBehindLog'
  BY <1>1 DEF EffectsDurable, SnapshotBehindLog, Told, Begins
<1> QED
  BY <1>2, <1>3, <1>4, <1>5 DEF IInv

\* A handler that leaves events, durable events and writer as they are.
LEMMA QuietFlushInv ==
    ASSUME IInv, sat \in Running, NEW s \in Running, NEW gs \in Seq(Gift),
           Told(gs, state), Flush(s, state, dun, gs),
           UNCHANGED <<state, log, dun, len, ted>>,
           inn' \in Seq(Task), TasksOK'
    PROVE  IInv'
<1>1. /\ Len(log) = IF ted' = "yes" THEN dun + len' ELSE dun
      /\ ted' = "idle" => dun = Len(state)
      /\ ted' # "idle" => len' > 0 /\ dun + len' <= Len(state)
      /\ ted' \in {"idle", "busy", "yes", "no"}
  BY DEF IInv, WriterOK, TypeOK
<1> QED
  BY <1>1, Known, FlushInv

\* An event is computed: its answer has its number, which the log lacks.
LEMMA PokeDoneInv == IInv /\ kick_poke_done => IInv'
<1> SUFFICES ASSUME IInv, kick_poke_done PROVE IInv'
  OBVIOUS
<1> DEFINE id == Head(inn).id
           st == Append(state, id)
           gs == Append(gif, Message("done", id, Len(st)))
<1>1. /\ Kick({"poke"})
      /\ state' = st /\ Flush(sat, st, dun, gs)
      /\ IF ted = "idle" THEN Commit(st, dun) ELSE UNCHANGED <<len, ted>>
      /\ inn' = Tail(inn) /\ log' = log /\ dun' = dun
  BY DEF kick_poke_done
<1>2. /\ id \in Ids /\ inn' \in Seq(Task) /\ TasksOK'
      /\ sat = "work" /\ sat \in Running
  BY <1>1, TakeTask DEF Running
<1>3. /\ st \in Seq(Ids) /\ Len(st) = Len(state) + 1 /\ st[Len(st)] = id
      /\ \A i \in 1 .. Len(state) : st[i] = state[i]
  BY <1>2, Known
<1>4. gs \in Seq(Gift) /\ Told(gs, st)
  <2>1. Message("done", id, Len(st)) \in Gift
    BY <1>2, <1>3, MessageTyped, Known DEF GiftTags
  <2>2. Message("done", id, Len(st)).eve = Len(st)
        /\ Message("done", id, Len(st)).id = id
    BY DEF Message
  <2>3. Begins(state, st)
    BY <1>3, Known DEF Begins
  <2>4. Told(gif, st)
    BY <1>3, <2>3, Known, ToldLonger
  <2>5. Len(st) \in 1 .. Len(st)
    BY <1>3, Known
  <2> HIDE DEF st, id
  <2> QED
    BY <1>3, <2>1, <2>2, <2>4, <2>5, Known, ToldOneMore
<1>5. dun <= Len(log) /\ Begins(log, st)
  BY <1>2, <1>3, Known DEF Begins
<1> HIDE DEF st, gs, id
<1>6. CASE ted = "idle"
  <2>1. Len(log) = dun /\ dun = Len(state)
    BY <1>2, <1>6 DEF IInv, WriterOK
  <2>2. dun <= Len(st)
    BY <1>3, <2>1, Known
  <2>3. /\ len' \in 0 .. BatchMax /\ ted' \in {"idle", "busy"}
        /\ ted' = "idle" => dun = Len(st)
        /\ ted' # "idle" => len' > 0 /\ dun + len' <= Len(st)
    BY <1>1, <1>3, <1>6, <2>2, CommitSound, Known
  <2> QED
    BY <1>1, <1>2, <1>3, <1>4, <1>5, <2>1, <2>3, FlushInv, Known
<1>7. CASE ted # "idle"
  <2>1. /\ Len(log) = IF ted = "yes" THEN dun + len ELSE dun
        /\ len > 0 /\ dun + len <= Len(state)
        /\ ted \in {"idle", "busy", "yes", "no"}
    BY <1>2, <1>7 DEF IInv, WriterOK, TypeOK
  <2>2. dun + len <= Len(st)
    BY <1>3, <2>1, Known
  <2>3. len' = len /\ ted' = ted
    BY <1>1, <1>7
  <2> QED
    BY <1>1, <1>2, <1>3, <1>4, <1>5, <1>7, <2>1, <2>2, <2>3, FlushInv, Known
<1> QED
  BY <1>6, <1>7

\* Any other answer is added as it is.
LEMMA RestInv ==
    ASSUME IInv, NEW tag, NEW answer \in GiftTags \ {"done"},
           kick_rest(tag, answer)
    PROVE  IInv'
<1> DEFINE g == Message(answer, Head(inn).id, 0)
<1>1. /\ Kick({tag}) /\ Flush(sat, state, dun, Append(gif, g))
      /\ inn' = Tail(inn) /\ UNCHANGED <<state, log, dun, len, ted>>
  BY DEF kick_rest
<1>2. /\ Head(inn) \in Task /\ inn' \in Seq(Task) /\ TasksOK'
      /\ sat \in Running
  BY <1>1, TakeTask DEF Running
<1>3. g \in Gift /\ g.tag # "done"
  <2>1. Head(inn).id \in Ids \cup {NoId}
    BY <1>2 DEF Task
  <2> QED
    BY <2>1, MessageTyped DEF Message
<1>4. Append(gif, g) \in Seq(Gift) /\ Told(Append(gif, g), state)
  <2> HIDE DEF g
  <2> QED
    BY <1>3, Known, ToldOneMore
<1> HIDE DEF g
<1> QED
  BY <1>1, <1>2, <1>4, QuietFlushInv

\* A snapshot is asked for.
LEMMA SyncInv == IInv /\ kick_sync => IInv'
<1> SUFFICES ASSUME IInv, kick_sync PROVE IInv'
  OBVIOUS
<1>1. /\ Kick({"save"}) /\ Flush("save", state, dun, gif)
      /\ inn' = Tail(inn) /\ UNCHANGED <<state, log, dun, len, ted>>
  BY DEF kick_sync
<1>2. inn' \in Seq(Task) /\ TasksOK' /\ sat \in Running /\ "save" \in Running
  BY <1>1, TakeTask DEF Running
<1> QED
  BY <1>1, <1>2, Known, QuietFlushInv

\* An exit is asked for.
LEMMA ExitInv == IInv /\ kick_exit => IInv'
<1> SUFFICES ASSUME IInv, kick_exit PROVE IInv'
  OBVIOUS
<1>1. Kick({"exit"})
  BY DEF kick_exit
<1>2. Tail(inn) \in Seq(Task) /\ (inn' = Tail(inn) => TasksOK')
      /\ sat \in Running /\ "exit" \in Running
  BY <1>1, TakeTask DEF Running
<1>3. CASE /\ Flush("exit", state, dun, gif)
           /\ inn' = Tail(inn) /\ UNCHANGED <<state, log, dun, len, ted>>
  BY <1>2, <1>3, Known, QuietFlushInv
<1>4. CASE FlushExit("exit", state, dun, gif)
  BY <1>2, <1>4, Known, ExitSound
<1> QED
  BY <1>3, <1>4 DEF kick_exit

LEMMA TimerInv == IInv /\ _mars_timer_cb => IInv'
<1> SUFFICES ASSUME IInv, _mars_timer_cb PROVE IInv'
  OBVIOUS
<1> DEFINE s == IF Len(state) > sav THEN "save" ELSE sat
<1>1. /\ sat \in Running
      /\ \/ Flush(s, state, dun, gif) /\ UNCHANGED <<state, log, dun, len, ted, inn>>
         \/ FlushExit(s, state, dun, gif)
  BY DEF _mars_timer_cb, Running
<1>2. s \in Running
  BY <1>1 DEF Running
<1>3. TasksOK /\ inn \in Seq(Task)
  BY Known DEF IInv
<1> HIDE DEF s
<1>4. CASE Flush(s, state, dun, gif) /\ UNCHANGED <<state, log, dun, len, ted, inn>>
  <2>1. TasksOK'
    BY <1>3, <1>4 DEF TasksOK
  <2> QED
    BY <1>1, <1>2, <1>3, <1>4, <2>1, Known, QuietFlushInv
<1>5. CASE FlushExit(s, state, dun, gif)
  BY <1>1, <1>5, Known, ExitSound
<1> QED
  BY <1>1, <1>4, <1>5

\* The n events behind the first d.
LEMMA BatchPart ==
    ASSUME NEW st \in Seq(Ids), NEW d \in Nat, NEW n \in Nat, d + n <= Len(st)
    PROVE  /\ SubSeq(st, d + 1, d + n) \in Seq(Ids)
           /\ Len(SubSeq(st, d + 1, d + n)) = n
           /\ \A i \in 1 .. n : SubSeq(st, d + 1, d + n)[i] = st[i + d]
OBVIOUS

LEMMA Joined ==
    ASSUME NEW a \in Seq(Ids), NEW b \in Seq(Ids)
    PROVE  /\ a \o b \in Seq(Ids) /\ Len(a \o b) = Len(a) + Len(b)
           /\ \A i \in 1 .. Len(a) : (a \o b)[i] = a[i]
           /\ \A i \in 1 .. Len(b) : (a \o b)[Len(a) + i] = b[i]
OBVIOUS

\* One transaction: all of the batch, or none of it.
LEMMA CommitInv == IInv /\ _disk_commit_cb => IInv'
<1> SUFFICES ASSUME IInv, _disk_commit_cb PROVE IInv'
  OBVIOUS
<1> DEFINE batch == SubSeq(state, dun + 1, dun + len)
<1>1. /\ ted = "busy"
      /\ \/ ted' = "yes" /\ log' = log \o batch
         \/ ted' = "no" /\ log' = log
      /\ UNCHANGED <<sat, state, snap, dun, len, sav, gif, inn, out>>
  BY DEF _disk_commit_cb
<1>2. sat \in Running
  BY <1>1 DEF IInv, EmptyOK, TypeOK, Sats, Running
<1>3. /\ Len(log) = dun /\ Begins(log, state)
      /\ len > 0 /\ dun + len <= Len(state)
  BY <1>1, <1>2 DEF IInv, WriterOK
<1>4. /\ batch \in Seq(Ids) /\ Len(batch) = len
      /\ \A i \in 1 .. Len(batch) : batch[i] = state[i + dun]
  <2>1. state \in Seq(Ids) /\ dun \in Nat /\ len \in Nat
    BY Known
  <2> QED
    BY <1>3, <2>1, BatchPart
<1> HIDE DEF batch
<1>5. CASE ted' = "no" /\ log' = log
  <2>1. TypeOK' /\ EmptyOK' /\ WriterOK' /\ TasksOK'
    BY <1>1, <1>2, <1>3, <1>5
       DEF IInv, TypeOK, EmptyOK, WriterOK, TasksOK, Running
  <2>2. Told(gif, state)' /\ EffectsDurable' /\ SnapshotBehindLog'
    BY <1>1, <1>5 DEF IInv, EffectsDurable, SnapshotBehindLog, Told
  <2> QED
    BY <2>1, <2>2 DEF IInv
<1>6. CASE ted' = "yes" /\ log' = log \o batch
  <2>1. log' \in Seq(Ids) /\ Len(log') = dun + len
    <3>1. log \in Seq(Ids)
      BY Known
    <3>2. log' \in Seq(Ids) /\ Len(log') = Len(log) + Len(batch)
      BY <1>4, <1>6, <3>1, Joined
    <3> QED
      BY <1>3, <1>4, <3>2
  <2>2. Begins(log, log')
    BY <1>4, <1>6, <2>1, Known DEF Begins
  <2>3. \A i \in 1 .. Len(log') : log'[i] = state[i]
    <3> TAKE i \in 1 .. Len(log')
    <3>1. CASE i <= dun
      BY <1>3, <2>2, <3>1, Known DEF Begins
    <3>2. CASE i > dun
      <4>1. i - dun \in 1 .. Len(batch)
        BY <1>4, <2>1, <3>2, Known
      <4>2. log'[i] = batch[i - dun]
        <5>1. log' = log \o batch /\ log \in Seq(Ids) /\ batch \in Seq(Ids)
          BY <1>4, <1>6, Known
        <5>2. log'[Len(log) + (i - dun)] = batch[i - dun]
          BY <4>1, <5>1, Joined
        <5>3. Len(log) + (i - dun) = i
          BY <1>3, <2>1, <3>2, Known
        <5> QED
          BY <5>2, <5>3
      <4> QED
        BY <1>4, <4>1, <4>2, Known
    <3> QED
      BY <3>1, <3>2, Known
  <2>4. Begins(log', state)
    BY <1>3, <2>1, <2>3 DEF Begins
  <2>5. TypeOK' /\ EmptyOK' /\ WriterOK' /\ TasksOK'
    BY <1>1, <1>2, <1>3, <1>6, <2>1, <2>4
       DEF IInv, TypeOK, EmptyOK, WriterOK, TasksOK, Running
  <2>6. Told(gif, state)'
    BY <1>1 DEF IInv, Told
  <2>7. EffectsDurable'
    BY <1>1, <2>1, <2>2, Known, ToldLonger DEF EffectsDurable, Told
  <2>8. SnapshotBehindLog'
    BY <1>1, <2>1, <2>2, Known DEF SnapshotBehindLog, Begins
  <2> QED
    BY <2>5, <2>6, <2>7, <2>8 DEF IInv
<1> QED
  BY <1>1, <1>5, <1>6

\* A process that ends unasked.
LEMMA DeathInv == IInv /\ End(log, snap) /\ LoseOutput(out) => IInv'
<1> SUFFICES ASSUME IInv, End(log, snap), LoseOutput(out) PROVE IInv'
  OBVIOUS
<1>1. out' \in Seq(Gift) /\ Told(out', log)
  BY Known, LoseSound
<1> QED
  BY <1>1, Known, EndSound

\* The loop counts what the writer wrote, and gives it the next batch.
LEMMA AfterInv == IInv /\ _disk_commit_after_cb => IInv'
<1> SUFFICES ASSUME IInv, _disk_commit_after_cb PROVE IInv'
  OBVIOUS
<1>1. CASE ted = "yes"
  <2> DEFINE d == dun + len
  <2>1. sat \in Running
    BY <1>1 DEF IInv, EmptyOK, TypeOK, Sats, Running
  <2>2. /\ d \in Nat /\ Len(log) = d /\ Begins(log, state)
        /\ d <= Len(state)
    BY <1>1, <2>1, Known DEF IInv, WriterOK
  <2>3. \/ /\ dun' = d
           /\ Flush(sat, state, d, gif)
           /\ Commit(state, d)
           /\ UNCHANGED <<state, log, inn>>
        \/ FlushExit(sat, state, d, gif)
    BY <1>1 DEF _disk_commit_after_cb
  <2> HIDE DEF d
  <2>4. CASE FlushExit(sat, state, d, gif)
    BY <2>2, <2>4, Known, ExitSound
  <2>5. CASE /\ dun' = d
             /\ Flush(sat, state, d, gif)
             /\ Commit(state, d)
             /\ UNCHANGED <<state, log, inn>>
    <3>1. /\ len' \in 0 .. BatchMax /\ ted' \in {"idle", "busy"}
          /\ ted' = "idle" => d = Len(state)
          /\ ted' # "idle" => len' > 0 /\ d + len' <= Len(state)
      BY <2>2, <2>5, Known, CommitSound
    <3>2. inn' \in Seq(Task) /\ TasksOK'
      BY <2>5, Known DEF IInv, TasksOK
    <3>3. ted' \in {"idle", "busy", "yes", "no"} /\ ted' # "yes"
      BY <3>1
    <3>4. Len(log) = IF ted' = "yes" THEN d + len' ELSE d
      BY <2>2, <3>3
    <3> QED
      BY <2>1, <2>2, <2>5, <3>1, <3>2, <3>3, <3>4, Known, FlushInv
  <2> QED
    BY <2>3, <2>4, <2>5
<1>2. CASE ted = "no"
  BY <1>2, DeathInv DEF _disk_commit_after_cb
<1> QED
  BY <1>1, <1>2 DEF _disk_commit_after_cb

\* A new process has seen nothing.
LEMMA SpawnInv == IInv /\ Spawn => IInv'
<1> SUFFICES ASSUME IInv, Spawn PROVE IInv'
  OBVIOUS
<1>1. /\ sat = "down" /\ sat' = "boot" /\ inn' = <<>> /\ out' = <<>>
      /\ UNCHANGED <<state, log, snap, dun, len, ted, sav, gif>>
  BY DEF Spawn
<1>2. TypeOK' /\ EmptyOK' /\ WriterOK' /\ TasksOK'
  BY <1>1 DEF IInv, TypeOK, EmptyOK, WriterOK, TasksOK, Running, Sats
<1>3. Told(gif, state)' /\ EffectsDurable' /\ SnapshotBehindLog'
  BY <1>1 DEF IInv, EffectsDurable, SnapshotBehindLog, Told
<1> QED
  BY <1>2, <1>3 DEF IInv

LEMMA SendTaskInv == IInv /\ SendTask => IInv'
<1> SUFFICES ASSUME IInv, SendTask PROVE IInv'
  OBVIOUS
<1>1. PICK t \in Task : (t.tag = "poke" <=> t.id # NoId) /\ inn' = Append(inn, t)
  BY DEF SendTask
<1>2. UNCHANGED <<sat, state, log, snap, dun, len, ted, sav, gif, out>>
  BY DEF SendTask
<1>3. /\ inn' \in Seq(Task)
      /\ \A i \in 1 .. Len(inn') :
            (i \in 1 .. Len(inn) /\ inn'[i] = inn[i]) \/ inn'[i] = t
  BY <1>1, Known
<1>4. t.tag = "poke" => t.id \in Ids
  BY <1>1 DEF Task
<1>5. TasksOK'
  BY <1>3, <1>4 DEF IInv, TasksOK
<1>6. TypeOK' /\ EmptyOK' /\ WriterOK'
  BY <1>2, <1>3 DEF IInv, TypeOK, EmptyOK, WriterOK
<1>7. Told(gif, state)' /\ EffectsDurable' /\ SnapshotBehindLog'
  BY <1>2 DEF IInv, EffectsDurable, SnapshotBehindLog, Told
<1> QED
  BY <1>5, <1>6, <1>7 DEF IInv

LEMMA HearInv == IInv /\ Hear => IInv'
<1> SUFFICES ASSUME IInv, Hear PROVE IInv'
  OBVIOUS
<1>1. /\ out # <<>> /\ out' = Tail(out)
      /\ UNCHANGED <<sat, state, log, snap, dun, len, ted, sav, gif, inn>>
  BY DEF Hear
<1>2. out' \in Seq(Gift) /\ Told(out', log)
  <2>1. /\ Tail(out) = SubSeq(out, 2, Len(out))
        /\ 2 \in 1 .. Len(out) + 1 /\ Len(out) \in 0 .. Len(out)
    BY <1>1, Known
  <2> QED
    BY <1>1, <2>1, Known, ToldPart
<1>3. TypeOK' /\ EmptyOK' /\ WriterOK' /\ TasksOK'
  BY <1>1, <1>2 DEF IInv, TypeOK, EmptyOK, WriterOK, TasksOK
<1>4. Told(gif, state)' /\ EffectsDurable' /\ SnapshotBehindLog'
  BY <1>1, <1>2 DEF IInv, EffectsDurable, SnapshotBehindLog, Told
<1> QED
  BY <1>3, <1>4 DEF IInv

-----------------------------------------------------------------------------
(* The theorems. *)

LEMMA StepInv == IInv /\ [Next]_marsVars => IInv'
<1> SUFFICES ASSUME IInv, [Next]_marsVars PROVE IInv'
  OBVIOUS
<1>1. CASE u3_mars_work
  BY <1>1, WorkInv
<1>2. CASE kick_poke_done
  BY <1>2, PokeDoneInv
<1>3. CASE kick_poke_bail \/ kick_peek \/ kick_live
  BY <1>3, RestInv DEF kick_poke_bail, kick_peek, kick_live, GiftTags
<1>4. CASE kick_sync
  BY <1>4, SyncInv
<1>5. CASE kick_exit
  BY <1>5, ExitInv
<1>6. CASE _mars_timer_cb
  BY <1>6, TimerInv
<1>7. CASE _disk_commit_cb
  BY <1>7, CommitInv
<1>8. CASE _disk_commit_after_cb
  BY <1>8, AfterInv
<1>9. CASE Die
  BY <1>9, DeathInv DEF Die
<1>10. CASE Spawn
  BY <1>10, SpawnInv
<1>11. CASE SendTask
  BY <1>11, SendTaskInv
<1>12. CASE Hear
  BY <1>12, HearInv
<1>13. CASE UNCHANGED marsVars
  BY <1>13 DEF marsVars, IInv, TypeOK, EmptyOK, WriterOK, TasksOK,
               EffectsDurable, SnapshotBehindLog, Told
<1> QED
  BY <1>1, <1>2, <1>3, <1>4, <1>5, <1>6, <1>7, <1>8, <1>9, <1>10, <1>11,
     <1>12, <1>13 DEF Next, Serf

\* The invariant of the serf: types, an empty memory without a process, a writer
\* that agrees with the log, and answers numbered as their events are.
THEOREM Inductive == Spec => []IInv
<1>1. Init => IInv
  BY StartInv
<1>2. IInv /\ [Next]_marsVars => IInv'
  BY StepInv
<1> QED
  BY <1>1, <1>2, PTL DEF Spec

\* The fields of u3_mars and u3_disk keep their types: above all, a write never
\* exceeds the room sav_u has for it.
THEOREM TypeCorrect == Spec => []TypeOK
<1>1. IInv => TypeOK
  BY DEF IInv
<1> QED
  BY <1>1, Inductive, PTL

\* _mars_flush(): no effect leaves the serf before its event is in the log under
\* its number, whatever the king sends, whichever write fails and whenever the
\* process dies.
THEOREM EffectsAreDurable == Spec => []EffectsDurable
<1>1. IInv => EffectsDurable
  BY DEF IInv
<1> QED
  BY <1>1, Inductive, PTL

\* u3m_save(): a snapshot never holds an event the log lacks.
THEOREM SnapshotsFollowLog == Spec => []SnapshotBehindLog
<1>1. IInv => SnapshotBehindLog
  BY DEF IInv
<1> QED
  BY <1>1, Inductive, PTL

\* log_u->dun_d, the writer's batch and LMDB agree with what was computed.
THEOREM AccountIsTrue == Spec => []LogAgrees
<1>1. IInv => LogAgrees
  <2> SUFFICES ASSUME IInv, sat \in Running
               PROVE  /\ Len(log) = IF ted = "yes" THEN dun + len ELSE dun
                      /\ Len(log) <= Len(state)
                      /\ \A i \in 1 .. Len(log) : log[i] = state[i]
                      /\ ted = "idle" => dun = Len(state)
    BY DEF LogAgrees, Running
  <2> QED
    BY DEF IInv, WriterOK, Begins
<1> QED
  BY <1>1, Inductive, PTL

=============================================================================
