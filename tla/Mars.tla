--------------------------------- MODULE Mars ---------------------------------
(***************************************************************************)
(* The serf, src/vere/pkg/vere/mars.c, with its event log, disk.c: it      *)
(* takes tasks from the king one by one, computes an event, hands it to a  *)
(* writer thread in batches, and holds back the answer to an event, and    *)
(* every answer behind it, until the event is in the log.  A timer and the *)
(* king ask for snapshots; a snapshot and the exit wait for the log.       *)
(*                                                                         *)
(* log and snap are on disk; the rest is the memory of one process and is  *)
(* gone when it ends.  The king is an arbitrary sender of tasks here;      *)
(* Pipeline puts the pier in its place.                                    *)
(***************************************************************************)
EXTENDS Naturals, Sequences

CONSTANTS
    Ids,        \* what a task is about: an ovum, a scry
    NoId,       \* the subject of a message that has none
    BatchMax,   \* events in one write (100 in the code)
    MaxDepth,   \* bound: tasks unanswered (PIER_WORK_BATCH, 10, in the code)
    MaxEvents   \* bound: events ever computed

ASSUME NoIdAssumption == NoId \notin Ids
ASSUME BatchAssumption == BatchMax \in Nat \ {0}

VARIABLES
    sat,        \* u3_mars_work_e, save_e, exit_e; "boot" before %ripe
    state,      \* the events the kernel has computed (dun_d is their number)
    log,        \* the events in LMDB
    snap,       \* the events in the snapshot
    dun,        \* log_u->dun_d: events the loop knows to be in LMDB
    len,        \* sav_u.len_w: events in the write
    ted,        \* the writer: "idle", "busy", or done with ret_o "yes" or "no"
    sav,        \* sav_u.eve_d: events in the last snapshot
    gif,        \* gif_u: answers not yet sent
    inn,        \* tasks not yet taken
    out         \* answers sent, not yet heard

disk == <<log, snap>>
writer == <<dun, len, ted>>
marsVars == <<sat, state, log, snap, dun, len, ted, sav, gif, inn, out>>

Sats == {"down", "boot", "work", "save", "exit"}
TaskTags == {"poke", "peek", "live", "save", "exit"}
GiftTags == {"ripe", "done", "bail", "peek", "live", "sync"}
Task == [tag : TaskTags, id : Ids \cup {NoId}]
\* eve numbers the event of a "done", and the last event of a "ripe" or "sync".
Gift == [tag : GiftTags, id : Ids \cup {NoId}, eve : Nat]

Message(tag, id, eve) == [tag |-> tag, id |-> id, eve |-> eve]

Init ==
    /\ sat = "down"
    /\ state = <<>> /\ log = <<>> /\ snap = <<>>
    /\ dun = 0 /\ len = 0 /\ ted = "idle" /\ sav = 0
    /\ gif = <<>> /\ inn = <<>> /\ out = <<>>

-----------------------------------------------------------------------------
(* Pieces shared by the handlers. *)

\* Mutants: nothing is held back; what was given to the log counts as in it.
MaySend_Computed(g, d) == TRUE
MaySend_Planned(g, d) == g.tag = "done" => g.eve <= d + len

\* u3_gift_rest_e goes at once, u3_gift_fact_e when its event is in the log.
MaySend(g, d) == g.tag = "done" => g.eve <= d

\* Mutant: an answer that waits for nothing passes those that do.
Send_Overtaking(gs, d) ==
    LET Now(g) == MaySend(g, d)
        Later(g) == ~MaySend(g, d) IN
    out' = out \o SelectSeq(gs, Now) /\ gif' = SelectSeq(gs, Later)

\* _mars_flush() sends the first n of the answers gs when the log has d events.
Sends(n, gs, d) ==
    /\ \A i \in 1 .. n : MaySend(gs[i], d)
    /\ n < Len(gs) => ~MaySend(gs[n + 1], d)

Send(gs, d) ==
    \E n \in 0 .. Len(gs) :
        /\ Sends(n, gs, d)
        /\ out' = out \o SubSeq(gs, 1, n)
        /\ gif' = SubSeq(gs, n + 1, Len(gs))

\* The process ends with the files l and s.  What libuv had not yet written to
\* the pipe is lost with it.
End(l, s) ==
    /\ sat' = "down"
    /\ log' = l /\ snap' = s
    /\ state' = <<>> /\ dun' = 0 /\ len' = 0 /\ ted' = "idle" /\ sav' = 0
    /\ gif' = <<>> /\ inn' = <<>>

LoseOutput(o) == \E n \in 0 .. Len(o) : out' = SubSeq(o, 1, n)

\* Mutant: a snapshot does not wait for the log.
Flush_SaveNow(s, st, d, gs) ==
    LET saves == s = "save" IN
    /\ ~(s = "exit" /\ d = Len(st))
    /\ Send(IF saves THEN Append(gs, Message("sync", NoId, Len(st))) ELSE gs, d)
    /\ sat' = IF saves THEN "work" ELSE s
    /\ snap' = IF saves THEN st ELSE snap
    /\ sav' = IF saves THEN Len(st) ELSE sav

\* _mars_flush() after a handler that left status s, events st, d of them in
\* the log, and answers gs: unless the process ends.
Flush(s, st, d, gs) ==
    LET settled == d = Len(st)
        saves == s = "save" /\ settled IN
    /\ ~(s = "exit" /\ settled)
    /\ Send(IF saves THEN Append(gs, Message("sync", NoId, Len(st))) ELSE gs, d)
    /\ sat' = IF saves THEN "work" ELSE s
    /\ snap' = IF saves THEN st ELSE snap
    /\ sav' = IF saves THEN Len(st) ELSE sav

\* The same, when an awaited exit can go ahead.
FlushExit(s, st, d, gs) ==
    /\ s = "exit" /\ d = Len(st)
    /\ End(log, st)
    /\ \E n \in 0 .. Len(gs) :
         Sends(n, gs, d) /\ LoseOutput(out \o SubSeq(gs, 1, n))

\* _disk_commit(): an idle writer is given what the log lacks of st.
Commit(st, d) ==
    LET n == Len(st) - d IN
    /\ len' = IF n < BatchMax THEN n ELSE BatchMax
    /\ ted' = IF n = 0 THEN "idle" ELSE "busy"

-----------------------------------------------------------------------------
(* The serf. *)

\* _cw_work(): the snapshot is loaded (u3_mars_load), the rest of the log is
\* replayed and saved (u3_mars_play), and %ripe is sent.
u3_mars_work ==
    /\ sat = "boot"
    /\ sat' = "work"
    /\ state' = snap \o SubSeq(log, Len(snap) + 1, Len(log))
    /\ snap' = state'
    /\ dun' = Len(log)
    /\ sav' = Len(state')
    /\ out' = Append(out, Message("ripe", NoId, Len(state')))
    /\ UNCHANGED <<log, len, ted, gif, inn>>

\* u3_mars_kick() takes a task only in u3_mars_work_e: otherwise the moat keeps
\* it and offers it again.
Kick(tags) == sat = "work" /\ inn # <<>> /\ Head(inn).tag \in tags

\* The event succeeds, or fails and its %crud succeeds: _mars_fact().
kick_poke_done ==
    LET id == Head(inn).id
        st == Append(state, id) IN
    /\ Kick({"poke"})
    /\ state' = st
    /\ Flush(sat, st, dun, Append(gif, Message("done", id, Len(st))))
    /\ IF ted = "idle" THEN Commit(st, dun) ELSE UNCHANGED <<len, ted>>
    /\ inn' = Tail(inn)
    /\ UNCHANGED <<log, dun>>

\* A task that leaves no event: a scry, a %pack, an event that fails with its
\* %crud.
kick_rest(tag, answer) ==
    /\ Kick({tag})
    /\ Flush(sat, state, dun, Append(gif, Message(answer, Head(inn).id, 0)))
    /\ inn' = Tail(inn)
    /\ UNCHANGED <<state, log, dun, len, ted>>

kick_poke_bail == kick_rest("poke", "bail")
kick_peek == kick_rest("peek", "peek")
kick_live == kick_rest("live", "live")

\* [%sync %save ~] and %exit change the status and leave the rest to the flush.
kick_sync ==
    /\ Kick({"save"})
    /\ Flush("save", state, dun, gif)
    /\ inn' = Tail(inn)
    /\ UNCHANGED <<state, log, dun, len, ted>>

kick_exit ==
    /\ Kick({"exit"})
    /\ \/ /\ Flush("exit", state, dun, gif)
          /\ inn' = Tail(inn)
          /\ UNCHANGED <<state, log, dun, len, ted>>
       \/ FlushExit("exit", state, dun, gif)

\* The snapshot timer.
_mars_timer_cb ==
    LET s == IF Len(state) > sav THEN "save" ELSE sat IN
    /\ sat \in {"work", "save", "exit"}
    /\ \/ Flush(s, state, dun, gif) /\ UNCHANGED <<state, log, dun, len, ted, inn>>
       \/ FlushExit(s, state, dun, gif)

\* The writer thread: one transaction, all of the batch or none of it.
_disk_commit_cb ==
    /\ ted = "busy"
    /\ \/ ted' = "yes" /\ log' = log \o SubSeq(state, dun + 1, dun + len)
       \/ ted' = "no" /\ UNCHANGED log
    /\ UNCHANGED <<sat, state, snap, dun, len, sav, gif, inn, out>>

\* Mutant: no new batch is started.
_disk_commit_after_cb_Idle ==
    \/ /\ ted = "yes"
       /\ \/ /\ dun' = dun + len
             /\ Flush(sat, state, dun + len, gif)
             /\ ted' = "idle" /\ len' = 0
             /\ UNCHANGED <<state, log, inn>>
          \/ FlushExit(sat, state, dun + len, gif)
    \/ ted = "no" /\ End(log, snap) /\ LoseOutput(out)

\* The loop hears of it: the count, then _mars_disk_cb(), then the next batch.
_disk_commit_after_cb ==
    \/ /\ ted = "yes"
       /\ \/ /\ dun' = dun + len
             /\ Flush(sat, state, dun + len, gif)
             /\ Commit(state, dun + len)
             /\ UNCHANGED <<state, log, inn>>
          \/ FlushExit(sat, state, dun + len, gif)
    \/ ted = "no" /\ End(log, snap) /\ LoseOutput(out)

\* The process is killed, or (_cw_io_fail) finds the king gone.
Die == sat # "down" /\ End(log, snap) /\ LoseOutput(out)

Serf ==
    \/ u3_mars_work
    \/ kick_poke_done \/ kick_poke_bail \/ kick_peek \/ kick_live
    \/ kick_sync \/ kick_exit
    \/ _mars_timer_cb
    \/ _disk_commit_cb \/ _disk_commit_after_cb

-----------------------------------------------------------------------------
(* The king, as the serf may assume it. *)

\* uv_spawn() with new pipes; the lock on the pier (_disk_acquire) allows one
\* serf at a time.
Spawn ==
    /\ sat = "down"
    /\ sat' = "boot" /\ inn' = <<>> /\ out' = <<>>
    /\ UNCHANGED <<state, log, snap, dun, len, ted, sav, gif>>

SendTask ==
    /\ sat # "down" /\ Len(inn) + Len(gif) + Len(out) < MaxDepth
    /\ \E t \in Task :
         /\ t.tag = "poke" =>
              \A s \in {state, log} : Len(s) + Len(inn) < MaxEvents
         /\ t.tag = "poke" <=> t.id # NoId
         /\ inn' = Append(inn, t)
    /\ UNCHANGED <<sat, state, log, snap, dun, len, ted, sav, gif, out>>

Hear ==
    /\ out # <<>>
    /\ out' = Tail(out)
    /\ UNCHANGED <<sat, state, log, snap, dun, len, ted, sav, gif, inn>>

Next == Serf \/ Die \/ Spawn \/ SendTask \/ Hear

Spec == Init /\ [][Next]_marsVars

-----------------------------------------------------------------------------
(* Properties. *)

\* The variables hold what the fields of u3_mars and u3_disk may hold.
TypeOK ==
    /\ sat \in Sats
    /\ state \in Seq(Ids) /\ log \in Seq(Ids) /\ snap \in Seq(Ids)
    /\ dun \in Nat /\ len \in 0 .. BatchMax /\ sav \in Nat
    /\ ted \in {"idle", "busy", "yes", "no"}
    /\ gif \in Seq(Gift) /\ inn \in Seq(Task) /\ out \in Seq(Gift)

\* _mars_flush(): no effect of an event leaves the serf before the event is in
\* the log under its number, and no crash takes it out of the log again.
EffectsDurable ==
    \A i \in 1 .. Len(out) :
        out[i].tag = "done" =>
            out[i].eve \in 1 .. Len(log) /\ log[out[i].eve] = out[i].id

\* u3m_save() is called only when the log has caught up, so a snapshot never
\* holds an event the log lacks and a restart can replay the difference.
SnapshotBehindLog ==
    /\ Len(snap) <= Len(log)
    /\ \A i \in 1 .. Len(snap) : snap[i] = log[i]

\* log_u->dun_d, log_u->sen_d and the writer's batch against what is really in
\* LMDB: what the loop believes durable is durable, and what the kernel has
\* computed and LMDB lacks is in the writer or waits for it.
LogAgrees ==
    sat \in {"work", "save", "exit"} =>
        /\ Len(log) = IF ted = "yes" THEN dun + len ELSE dun
        /\ Len(log) <= Len(state)
        /\ \A i \in 1 .. Len(log) : log[i] = state[i]
        /\ ted = "idle" => dun = Len(state)

=============================================================================
