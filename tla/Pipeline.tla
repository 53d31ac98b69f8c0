------------------------------- MODULE Pipeline -------------------------------
(***************************************************************************)
(* The event pipeline end to end: the pier and its lord (Pier) and the     *)
(* serf with its log (Mars), joined by two pipes.  Either process may be   *)
(* killed at any moment; the ship may be started again.                    *)
(***************************************************************************)
EXTENDS Mars, FiniteSets, SequencesExt

CONSTANTS NDrivers, Essential, WorkBatch, MaxStays, MaxPeeks, Crashes

ASSUME IdsAssumption == Ids \subseteq Nat
ASSUME DriversAssumption == NDrivers \in Nat /\ Essential \subseteq 1 .. NDrivers
ASSUME WorkBatchAssumption == WorkBatch \in Nat \ {0}

VARIABLES
    psat, plan, peeks, writs, live, eve, xit, ova, stays,
    crashes     \* history: processes killed so far, for the bound

Pier == INSTANCE Pier

kingVars == <<psat, plan, peeks, writs, live, eve, xit, ova, stays>>
allVars == <<marsVars, kingVars, crashes>>

Up == {"init", "wyrd", "work", "done"}

PipelineInit == Init /\ Pier!Init /\ crashes = 0

-----------------------------------------------------------------------------

\* The serf's process without its pipes.
serfVars == <<sat, state, log, snap, dun, len, ted, sav, gif>>

\* The king starts, and with it a serf, when no other holds the lock.
Start ==
    /\ Spawn /\ Pier!u3_pier_stay
    /\ UNCHANGED crashes

KingStep ==
    /\ \/ Pier!Hear
       \/ Pier!_pier_work
       \/ \E d \in 1 .. NDrivers : Pier!u3_auto_plan(d)
       \/ Len(peeks) < MaxPeeks /\ Pier!u3_pier_peek
       \/ Pier!u3_pier_exit
       \/ sat = "down" /\ (Pier!_lord_on_serf_exit \/ Pier!_lord_on_serf_bail)
    /\ UNCHANGED <<serfVars, crashes>>

SerfStep == Serf /\ UNCHANGED <<kingVars, crashes>>

\* The serf finds its king gone, or one of the two is killed.
SerfAlone == psat = "down" /\ Die /\ UNCHANGED <<kingVars, crashes>>

Kill ==
    /\ crashes < Crashes /\ crashes' = crashes + 1
    /\ \/ psat # "down" /\ Die /\ UNCHANGED kingVars
       \/ Pier!Killed /\ UNCHANGED serfVars

PipelineNext == Start \/ KingStep \/ SerfStep \/ SerfAlone \/ Kill

PipelineSpec == PipelineInit /\ [][PipelineNext]_allVars

\* Both loops run while they have something to do, the writer thread finishes,
\* and the system reports a process that has ended.  Signals, the snapshot
\* timer and the drivers owe nothing.
Fairness ==
    /\ WF_allVars(SerfStep /\ ~_mars_timer_cb)
    /\ WF_allVars(Pier!Hear /\ UNCHANGED <<serfVars, crashes>>)
    /\ WF_allVars(Pier!_pier_work /\ UNCHANGED <<serfVars, crashes>>)
    /\ WF_allVars(/\ sat = "down" /\ Pier!_lord_on_serf_exit
                  /\ UNCHANGED <<serfVars, crashes>>)
    /\ WF_allVars(SerfAlone)

FairSpec == PipelineSpec /\ Fairness

-----------------------------------------------------------------------------
(* Properties. *)

\* What the serf has sent or will send when it may.
Answers == out \o gif

\* How many of the first i answers s are of the kinds in tags.
Count(s, tags, i) == Cardinality({j \in 1 .. i : s[j].tag \in tags})
ToWrits == GiftTags \ {"ripe", "sync"}

\* Gift g is one that answers writ w.
Fits(g, w) ==
    /\ w.tag = IF g.tag \in {"done", "bail"} THEN "poke" ELSE g.tag
    /\ w.egg.id = g.id

\* _lord_writ_need(): the writs are answered in the order they were sent, none
\* skipped and none twice, so that no answer meets a writ of another kind or of
\* another ovum; and %ripe comes once, before any of them.
AnswersMatch ==
    LET Nth(i) == Count(Answers, ToWrits, i)
        n == Nth(Len(Answers)) IN
    psat \in Up =>
        /\ \A i \in DOMAIN Answers : Answers[i].tag \in ToWrits =>
              Nth(i) \in DOMAIN writs /\ Fits(Answers[i], writs[Nth(i)])
        /\ sat # "down" => \A i \in DOMAIN inn :
              /\ n + i \in DOMAIN writs
              /\ inn[i] = [tag |-> writs[n + i].tag, id |-> writs[n + i].egg.id]
        /\ \A i \in DOMAIN Answers : Answers[i].tag = "ripe" =>
              i = 1 /\ psat \in {"init", "done"}

\* god_u->eve_d++: the king counts events and is never told their numbers again,
\* yet the next fact it hears is always that of the event after its count.
EveCounts ==
    psat \in Up => \A i \in DOMAIN Answers : Answers[i].tag = "done" =>
        Answers[i].eve = eve + Count(Answers, {"done"}, i)

\* u3_auto_plan() and u3_auto_redo(): the events of a driver that does not retry
\* are in the log in the order the driver planned them.
OrderKept ==
    \A i, j \in DOMAIN log :
        i < j /\ ova[log[i]] = ova[log[j]] /\ ova[log[i]] \notin Essential
            => log[i] < log[j]

\* u3_auto_redo(): no ovum is in two places at once, and none that is in the log
\* is planned or sent again.
OvumInOnePlace ==
    LET sent == {i \in DOMAIN writs : writs[i].tag = "poke"}
        planned == {plan[i].id : i \in DOMAIN plan} IN
    /\ \A i, j \in sent : writs[i].egg.id = writs[j].egg.id => i = j
    /\ \A i, j \in DOMAIN plan : plan[i].id = plan[j].id => i = j
    /\ \A i \in sent : writs[i].egg.id \notin planned
    /\ \A k \in DOMAIN log : log[k] \notin planned

\* PIER_WORK_BATCH and the answers held back together keep the serf from running
\* far ahead of its log.  _disk_batch() needs that: it counts a batch in
\* hit_w[len_w] and hit_w has 100 entries, so a batch of 100, the most it would
\* make, is one too many; no more than WorkBatch events ever wait for it.
BacklogBounded == Len(state) - dun <= WorkBatch

\* u3_pier_exit(): a king that leaves with status 0 has heard of every event in
\* the log, unless it left before it had heard from the serf at all; and if no
\* process was killed, the snapshot holds them all.
CleanExit ==
    [][psat # "down" /\ psat' = "down" /\ xit' = "ok"
         => /\ eve \in {0, Len(log)}
            /\ crashes = 0 => snap = log]_allVars

\* The pipeline does what EventLog promises.
ELog == INSTANCE EventLog WITH applied <- eve
ImplementsEventLog == ELog!Spec

Pending(id) ==
    /\ psat = "work"
    /\ \/ \E i \in DOMAIN plan : plan[i].id = id
       \/ \E i \in DOMAIN writs : writs[i].egg.id = id
       \/ \E i \in DOMAIN peeks : peeks[i] = id

\* Every ovum planned and every scry asked for is answered for good, as long as
\* the pier works.
OvumSettles == \A id \in Ids : Pending(id) ~> ~Pending(id)

\* A start leads to a working pier or to the end of the king.
BootSettles == psat \in {"init", "wyrd"} ~> psat \in {"work", "done", "down"}

\* u3_lord_exit(), "shutdown gracefully": an exit that is asked for comes.
ExitEnds == psat = "done" ~> psat = "down"

=============================================================================
