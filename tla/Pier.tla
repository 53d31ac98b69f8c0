--------------------------------- MODULE Pier ---------------------------------
(***************************************************************************)
(* The king's side of the event pipeline: the pier (src/vere/pkg/vere/     *)
(* pier.c), its lord (lord.c), which speaks with the serf, and the queues  *)
(* of the i/o drivers (auto.c).  An ovum waits in its driver's queue, is   *)
(* sent as a writ, and is done, bails, or is tried again.  The serf and    *)
(* the drivers themselves are the environment; one lord is one process.    *)
(***************************************************************************)
EXTENDS Naturals, Sequences, SequencesExt

CONSTANTS
    Ids,        \* numbers for ova and scries: 1 .. the bound on them
    NoId,       \* the subject of a message that has none
    NDrivers,   \* drivers, in the order of the list wok_u->car_u
    Essential,  \* drivers whose ova are retried, and fatal when that fails
    WorkBatch,  \* PIER_WORK_BATCH
    MaxStays    \* bound: starts of the king

VARIABLES
    psat,       \* u3_psat of the pier; "down" without a king, "init" to %ripe
    plan,       \* the drivers' queues of ova (ext_u first), one behind the other
    peeks,      \* pec_u: scries not yet sent
    writs,      \* the lord's writs, oldest first
    live,       \* drivers whose %born is done
    eve,        \* god_u->eve_d: events the king knows of
    xit,        \* how the last king ended
    ova,        \* history: the driver of every ovum, in the order planned
    stays,      \* starts so far
    inn, out    \* the pipes to and from the serf

pierVars == <<psat, plan, peeks, writs, live, eve, xit, ova, stays>>

Drivers == 1 .. NDrivers
Wyrd == 0                   \* the owner of the %wyrd event
Scry == NDrivers + 1        \* the owner of a scry's number
Up == {"init", "wyrd", "work", "done"}
Xits == {"none", "ok", "bail", "killed", "null lord", "assert"}
WritTags == {"poke", "peek", "live", "exit"}

Egg(id, drv) == [id |-> id, drv |-> drv, try |-> 0]
NoEgg == Egg(NoId, Wyrd)
Writ(tag, egg) == [tag |-> tag, egg |-> egg]

Init ==
    /\ psat = "down"
    /\ plan = <<>>
    /\ peeks = <<>> /\ writs = <<>> /\ live = {}
    /\ eve = 0 /\ xit = "none"
    /\ ova = <<>> /\ stays = 0

-----------------------------------------------------------------------------
(* Pieces shared by the handlers. *)

\* u3_king_done(), or a fault: the process ends.
End(x) ==
    /\ psat' = "down"
    /\ plan' = <<>> /\ peeks' = <<>> /\ writs' = <<>> /\ live' = {}
    /\ xit' = x
    /\ out' = <<>>
    /\ UNCHANGED <<ova, stays, inn>>

Continue == UNCHANGED <<xit, stays>>

\* _lord_writ_new() and _lord_send(): ws is all that is pending, the news in new.
Dispatch(ws, new) ==
    /\ writs' = ws \o new
    /\ inn' = inn \o [i \in DOMAIN new |->
                        [tag |-> new[i].tag, id |-> new[i].egg.id]]

\* Of eggs and scries n and m are sent where there is room for room: one and one
\* in turn, while there are both.
Share(n, eggs, m, scries, room) ==
    /\ n + m <= room
    /\ (n = eggs /\ m = scries) \/ n + m = room
    /\ n > m + 1 => m = scries
    /\ m > n => n = eggs

\* The same, in the order they are sent.
Merge(eggs, scries) ==
    LET m == IF Len(eggs) < Len(scries) THEN Len(eggs) ELSE Len(scries) IN
    [k \in 1 .. Len(eggs) + Len(scries) |->
        IF k <= 2 * m
        THEN IF k % 2 = 1 THEN eggs[(k + 1) \div 2] ELSE scries[k \div 2]
        ELSE IF Len(eggs) > m THEN eggs[k - m] ELSE scries[k - m]]

Room(depth) == IF depth < WorkBatch THEN WorkBatch - depth ELSE 0
Pokes(eggs) == [i \in DOMAIN eggs |-> Writ("poke", eggs[i])]
Peeks(ids) == [i \in DOMAIN ids |-> Writ("peek", Egg(ids[i], Scry))]

\* Mutant: a sent ovum stays in its queue.
WorkSend_Kept(pl, ws, pre) ==
    \E n \in 0 .. Len(pl), m \in 0 .. Len(peeks) :
        /\ Share(n, Len(pl), m, Len(peeks), Room(Len(ws) + Len(pre)))
        /\ Dispatch(ws, pre \o Merge(Pokes(SubSeq(pl, 1, n)),
                                     Peeks(SubSeq(peeks, 1, m))))
        /\ plan' = pl
        /\ peeks' = SubSeq(peeks, m + 1, Len(peeks))

\* _pier_work_send(): fill the lord up to WorkBatch writs from the drivers'
\* queues pl, the first driver's first, and the scries.  ws is pending already,
\* pre is sent before.
WorkSend(pl, ws, pre) ==
    \E n \in 0 .. Len(pl), m \in 0 .. Len(peeks) :
        /\ Share(n, Len(pl), m, Len(peeks), Room(Len(ws) + Len(pre)))
        /\ Dispatch(ws, pre \o Merge(Pokes(SubSeq(pl, 1, n)),
                                     Peeks(SubSeq(peeks, 1, m))))
        /\ plan' = SubSeq(pl, n + 1, Len(pl))
        /\ peeks' = SubSeq(peeks, m + 1, Len(peeks))

\* Behind the n-th of pl the queue of driver d begins, or ends.
QueueHead(pl, d, n) ==
    /\ \A i \in 1 .. n : pl[i].drv < d
    /\ \A i \in n + 1 .. Len(pl) : pl[i].drv >= d

QueueTail(pl, d, n) ==
    /\ \A i \in 1 .. n : pl[i].drv <= d
    /\ \A i \in n + 1 .. Len(pl) : pl[i].drv > d

\* _lord_writ_need(): the oldest writ is the one the serf has answered.
Need(tag) == writs # <<>> /\ Head(writs).tag = tag

Hears(tag) == psat \in Up /\ out # <<>> /\ Head(out).tag = tag

NextId == Len(ova) + 1

-----------------------------------------------------------------------------
(* From the start to %wyrd. *)

\* u3_pier_stay(), with u3_lord_init().
u3_pier_stay ==
    /\ psat = "down" /\ stays < MaxStays
    /\ psat' = "init" /\ stays' = stays + 1 /\ xit' = "none" /\ eve' = 0
    /\ UNCHANGED <<plan, peeks, writs, live, ova>>

\* _pier_wyrd_init(): with an id left for it.
WyrdInit(ws) ==
    /\ NextId \in Ids
    /\ Dispatch(ws, <<Writ("poke", Egg(NextId, Wyrd))>>)
    /\ ova' = Append(ova, Wyrd)

\* %ripe: _pier_on_lord_live().  The scry of +boot comes before %wyrd unless
\* the ship is a galaxy or local.  After u3_pier_exit() god_u is NULL.
_lord_plea_ripe ==
    /\ Hears("ripe")
    /\ \/ /\ psat = "init"
          /\ psat' = "wyrd"
          /\ eve' = Head(out).eve
          /\ \/ WyrdInit(writs)
             \/ Dispatch(writs, <<Writ("peek", NoEgg)>>) /\ UNCHANGED ova
          /\ out' = Tail(out)
          /\ Continue /\ UNCHANGED <<plan, peeks, live>>
       \/ psat = "done" /\ eve' = Head(out).eve /\ End("null lord")

\* Mutant: without an answer worth comparing %wyrd is not sent.
_boot_scry_cb_Silent ==
    /\ Hears("peek") /\ Need("peek") /\ Head(out).id = NoId
    /\ writs' = Tail(writs) /\ out' = Tail(out)
    /\ Continue /\ UNCHANGED <<psat, plan, peeks, live, eve, ova, inn>>

\* The answer: go on, or another copy of the ship has run.  _pier_wyrd_init()
\* asserts u3_psat_wyrd.
_boot_scry_cb ==
    /\ Hears("peek") /\ Need("peek") /\ Head(out).id = NoId
    /\ \/ /\ psat = "wyrd"
          /\ WyrdInit(Tail(writs))
          /\ out' = Tail(out)
          /\ Continue /\ UNCHANGED <<psat, plan, peeks, live, eve>>
       \/ End("bail") /\ UNCHANGED eve
       \/ psat = "done" /\ End("assert") /\ UNCHANGED eve

WyrdAnswered(tag) == Hears(tag) /\ Need("poke") /\ Head(writs).egg.drv = Wyrd

\* _pier_wyrd_good(): the drivers start, and those that need it plan %born, in
\* the order of the list; or _pier_wyrd_aver() finds a downgrade.
_pier_on_lord_wyrd_done ==
    /\ WyrdAnswered("done")
    /\ eve' = eve + 1
    /\ \/ \E born \in [1 .. Cardinality(Essential) -> Essential] :
            /\ psat = "wyrd"
            /\ \A i, j \in DOMAIN born : i < j => born[i] < born[j]
            /\ \A i \in DOMAIN born : Len(ova) + i \in Ids
            /\ psat' = "work"
            /\ live' = Drivers \ Essential
            /\ ova' = ova \o born
            /\ WorkSend([i \in DOMAIN born |-> Egg(Len(ova) + i, born[i])],
                        Tail(writs), <<>>)
            /\ out' = Tail(out)
            /\ Continue
       \/ psat = "wyrd" /\ End("bail")
       \/ psat = "done" /\ End("assert")

\* A %wyrd that fails is the end.
_pier_on_lord_wyrd_bail ==
    /\ WyrdAnswered("bail")
    /\ \/ psat = "wyrd" /\ End("bail")
       \/ psat = "done" /\ End("assert")
    /\ UNCHANGED eve

-----------------------------------------------------------------------------
(* Work. *)

WorkAnswered(tag) == Hears(tag) /\ Need("poke") /\ Head(writs).egg.drv # Wyrd

\* u3_auto_done(), u3_auto_kick() of the effects, _pier_work().  The effects a
\* pier acts on itself are %exit and %pack; with no lord left, the second is
\* undone by a NULL god_u, and so is the note that all drivers are live.
_pier_on_lord_work_done ==
    LET egg == Head(writs).egg
        alive == live \cup {egg.drv}
        allLive == live # Drivers /\ alive = Drivers
        Work(now, pre) ==
            /\ psat' = now
            /\ live' = alive
            /\ IF now = "work" THEN WorkSend(plan, Tail(writs), pre)
               ELSE Dispatch(Tail(writs), pre) /\ UNCHANGED <<plan, peeks>>
            /\ out' = Tail(out)
            /\ Continue /\ UNCHANGED ova IN
    /\ WorkAnswered("done")
    /\ eve' = eve + 1
    /\ \/ ~(allLive /\ psat = "done") /\ Work(psat, <<>>)
       \/ psat = "work" /\ ~allLive /\ Work("done", <<Writ("exit", NoEgg)>>)
       \/ psat = "work" /\ Work("work", <<Writ("live", NoEgg)>>)
       \/ (psat = "done" \/ allLive) /\ End("null lord")

\* Mutant: an ovum that is dropped is counted.
_pier_on_lord_work_bail_Counted ==
    /\ WorkAnswered("bail")
    /\ Head(writs).egg.drv \notin Essential
    /\ IF psat = "work" THEN WorkSend(plan, Tail(writs), <<>>)
       ELSE Dispatch(Tail(writs), <<>>) /\ UNCHANGED <<plan, peeks>>
    /\ eve' = eve + 1
    /\ out' = Tail(out)
    /\ Continue /\ UNCHANGED <<psat, live, ova>>

\* u3_auto_bail(): an essential ovum goes back to the front of its queue, twice
\* at most and only when the failure may pass; any other is dropped.
_pier_on_lord_work_bail ==
    LET egg == Head(writs).egg
        After(pl) ==
            /\ IF psat = "work" THEN WorkSend(pl, Tail(writs), <<>>)
               ELSE /\ Dispatch(Tail(writs), <<>>)
                    /\ plan' = pl /\ UNCHANGED peeks
            /\ out' = Tail(out)
            /\ Continue /\ UNCHANGED <<psat, live, ova>> IN
    /\ WorkAnswered("bail")
    /\ \/ /\ egg.drv \in Essential /\ egg.try < 2
          /\ \E n \in 0 .. Len(plan) :
               /\ QueueHead(plan, egg.drv, n)
               /\ After(InsertAt(plan, n + 1, [egg EXCEPT !.try = @ + 1]))
       \/ egg.drv \in Essential /\ End("bail")
       \/ egg.drv \notin Essential /\ After(plan)
    /\ UNCHANGED eve

\* An answer that only takes its writ away, or is passed to whoever asked.
_lord_plea_rest ==
    /\ psat \in Up
    /\ \/ /\ Hears("peek") /\ Need("peek") /\ Head(out).id # NoId
          /\ writs' = Tail(writs)
       \/ Hears("live") /\ Need("live") /\ writs' = Tail(writs)
       \/ Hears("sync") /\ UNCHANGED writs
    /\ out' = Tail(out)
    /\ Continue /\ UNCHANGED <<psat, plan, peeks, live, eve, ova, inn>>

\* _pier_work_afte_cb(), _pier_work_idle_cb().
_pier_work ==
    /\ psat = "work"
    /\ WorkSend(plan, writs, <<>>)
    /\ writs' # writs
    /\ Continue /\ UNCHANGED <<psat, live, eve, ova, out>>

\* Mutant: a new ovum goes to the front of the queue.
u3_auto_plan_Front(d) ==
    /\ psat = "work" /\ NextId \in Ids
    /\ \E n \in 0 .. Len(plan) :
         /\ QueueHead(plan, d, n)
         /\ plan' = InsertAt(plan, n + 1, Egg(NextId, d))
    /\ ova' = Append(ova, d)
    /\ Continue /\ UNCHANGED <<psat, peeks, writs, live, eve, inn, out>>

\* A driver plans an ovum; something asks for a scry.
u3_auto_plan(d) ==
    /\ psat = "work" /\ NextId \in Ids
    /\ \E n \in 0 .. Len(plan) :
         /\ QueueTail(plan, d, n)
         /\ plan' = InsertAt(plan, n + 1, Egg(NextId, d))
    /\ ova' = Append(ova, d)
    /\ Continue /\ UNCHANGED <<psat, peeks, writs, live, eve, inn, out>>

u3_pier_peek ==
    /\ psat = "work" /\ NextId \in Ids
    /\ peeks' = Append(peeks, NextId)
    /\ ova' = Append(ova, Scry)
    /\ Continue /\ UNCHANGED <<psat, plan, writs, live, eve, inn, out>>

-----------------------------------------------------------------------------
(* The end. *)

\* A signal, or the terminal.
u3_pier_exit ==
    /\ psat \in {"init", "wyrd", "work"}
    /\ psat' = "done"
    /\ Dispatch(writs, <<Writ("exit", NoEgg)>>)
    /\ Continue /\ UNCHANGED <<plan, peeks, live, eve, ova, out>>

\* Mutant: any exit among the writs will do.
_lord_on_serf_exit_AnyWrit ==
    /\ psat \in Up
    /\ End(IF \E i \in DOMAIN writs : writs[i].tag = "exit" THEN "ok" ELSE "bail")
    /\ UNCHANGED eve

\* The serf has ended (SIGCHLD): expected if the exit is the oldest writ.
_lord_on_serf_exit ==
    /\ psat \in Up
    /\ End(IF Need("exit") THEN "ok" ELSE "bail")
    /\ UNCHANGED eve

\* The pipe from it is closed: of no interest once an exit was sent.
_lord_on_serf_bail ==
    /\ psat \in {"init", "wyrd", "work"}
    /\ End("bail")
    /\ UNCHANGED eve

Killed == psat \in Up /\ End("killed") /\ UNCHANGED eve

\* What the king does with the pipes it has, the serf permitting.
Hear ==
    \/ _lord_plea_ripe \/ _boot_scry_cb
    \/ _pier_on_lord_wyrd_done \/ _pier_on_lord_wyrd_bail
    \/ _pier_on_lord_work_done \/ _pier_on_lord_work_bail
    \/ _lord_plea_rest

=============================================================================
