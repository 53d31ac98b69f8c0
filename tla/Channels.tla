------------------------------- MODULE Channels -------------------------------
(***************************************************************************)
(* Channels of eyre (src/arvo/eyre.hoon, +by-channel): a client sends      *)
(* commands by PUT, and hears the answers of agents as numbered events on  *)
(* an event stream, a GET that stays open.  Eyre keeps an event until the  *)
(* client acknowledges it, and sends it again to the next stream; a        *)
(* channel nobody listens to is reaped by a timer.                         *)
(*                                                                         *)
(* One channel name and the client that made it up, with the effects not   *)
(* yet released between them.  A request is computed in the step that      *)
(* makes it: one that is still planned is as good as one not yet sent.     *)
(* Gall with its agents, Behn with its timers and the client are external; *)
(* the client may lose a stream without the runtime's notice.              *)
(***************************************************************************)
EXTENDS Integers, Sequences, SequencesExt, FiniteSets

CONSTANTS
    Ducts,          \* names for the client's GETs
    NoDuct,         \* no GET, no subscription
    Rids,           \* request ids of the client's subscriptions
    ClogThreshold,  \* 50 in the code
    MaxEvents,      \* bound: events of a channel, besides a last kick
    MaxPuts,        \* bound: PUTs of the client
    MaxStreams,     \* bound: GETs of the client
    Restarts        \* bound: how often the runtime restarts

ASSUME NoDuctAssumption == NoDuct \notin Ducts

VARIABLES
    chan,       \* the entry of session.channel-state, or NoChannel
    connections,\* the ducts of GETs in connections.server-state
    key,        \* the ducts in duct-to-key.channel-state
    cookie,     \* the name is among the channels of the client's session
    lives,      \* history: channels made under this name, 2 for any more
    gall,       \* Gall: for every request id its subscription
    pokes,      \* Gall: pokes not yet answered
    behn,       \* Behn: the timers set and neither rung nor cancelled
    eff,        \* effects computed and not yet released
    open,       \* GETs the runtime takes to be open
    stream,     \* the GET the client listens to, or NoDuct
    got,        \* events the client has got: those numbered below got
    client,     \* "new", "on", or "quit"
    used,       \* request ids the client has used
    puts, streams, restarts     \* history: for the bounds

eyreVars == <<chan, connections, key, cookie, lives>>
worldVars == <<gall, pokes, behn>>
clientVars == <<stream, got, client, used, puts, streams>>
vars == <<eyreVars, worldVars, eff, open, clientVars, restarts>>

\* Timers carry their date in the code, and no two of them the same; here a name
\* is used again once it is forgotten.
Timers == 1 .. 3
Timeout(t) == [kind |-> "timeout", name |-> t]
Heartbeat(d) == [kind |-> "heartbeat", name |-> d]

NoChannel ==
    [st |-> "none", duct |-> NoDuct, timer |-> 0, heart |-> NoDuct, life |-> 0,
     next |-> 0, events |-> <<>>, subs |-> {},
     unacked |-> [r \in Rids |-> 0]]

Exists == chan.st # "none"

\* rid is NoDuct in an event that belongs to no subscription (a poke-ack).
Event(id, rid, kind) == [id |-> id, rid |-> rid, kind |-> kind]
EventIds(evs) == [i \in DOMAIN evs |-> evs[i].id]
FactsOf(evs, r) == Cardinality({e \in Range(evs) : e.rid = r /\ e.kind = "fact"})

\* A %start or %continue with the events it carries, a %cancel, or a 404.
Effect(tag, d, ids) == [tag |-> tag, duct |-> d, ids |-> ids]

Init ==
    /\ chan = NoChannel /\ connections = {} /\ key = {} /\ cookie = FALSE
    /\ lives = 0
    /\ gall = [r \in Rids |-> "none"] /\ pokes = 0 /\ behn = {}
    /\ eff = <<>> /\ open = {}
    /\ stream = NoDuct /\ got = 0 /\ client = "new" /\ used = {}
    /\ puts = 0 /\ streams = 0 /\ restarts = 0

-----------------------------------------------------------------------------
(* What an event passes to Gall and Behn, in the order of its moves.  A %rest  *)
(* of a timer that is not set, and a %leave of a subscription that is not      *)
(* there, do nothing.                                                          *)

World == [gall |-> gall, pokes |-> pokes, behn |-> behn]

Waited(world, ts) == [world EXCEPT !.behn = world.behn \cup ts]
Rested(world, ts) == [world EXCEPT !.behn = world.behn \ ts]
Watched(world, r) == [world EXCEPT !.gall = [world.gall EXCEPT ![r] = "asked"]]
Poked(world) == [world EXCEPT !.pokes = world.pokes + 1]
Left(world, rs) ==
    [world EXCEPT !.gall = [r \in Rids |-> IF r \in rs THEN "none" ELSE world.gall[r]]]

Becomes(world) == gall' = world.gall /\ pokes' = world.pokes /\ behn' = world.behn

NewTimer == CHOOSE t \in Timers : t # chan.timer /\ Timeout(t) \notin behn

-----------------------------------------------------------------------------
(* Eyre: pieces shared by its handlers. *)

\* Mutant: the agents are not told.
Discarded_Silent(ch, expired, told, world) ==
    LET timer == IF expired \/ ch.st # "wait" THEN {} ELSE {Timeout(ch.timer)} IN
    Rested(world, {Heartbeat(ch.heart)} \cup timer)

\* +discard-channel, what it passes on: the heartbeat and the timer are stopped and
\* the subscriptions left, except for those in told.
Discarded(ch, expired, told, world) ==
    LET timer == IF expired \/ ch.st # "wait" THEN {} ELSE {Timeout(ch.timer)} IN
    Rested(Left(world, ch.subs \ told), {Heartbeat(ch.heart)} \cup timer)

\* duct-to-key without the listener of a channel that is discarded.
KeyLeft == IF chan.st = "listen" THEN key \ {chan.duct} ELSE key

discard_channel(expired, world) ==
    /\ chan' = NoChannel
    /\ key' = KeyLeft
    /\ Becomes(Discarded(chan, expired, {}, world))

\* +prune-events takes events off the head of the queue up to the first that is not
\* below upto: so many.
Pruned(evs, upto) ==
    CHOOSE n \in 0 .. Len(evs) :
        /\ \A i \in 1 .. n : evs[i].id < upto
        /\ n < Len(evs) => evs[n + 1].id >= upto

\* Mutant: the counts stay.
acknowledge_events_Uncounted(ch, upto) ==
    [ch EXCEPT !.events = SubSeq(ch.events, Pruned(ch.events, upto) + 1, Len(ch.events))]

\* +acknowledge-events.  Every event pruned is taken off the count of its request
\* id, though only facts were counted.
acknowledge_events(ch, upto) ==
    LET n == Pruned(ch.events, upto)
        Acked(r) == Cardinality({e \in {ch.events[i] : i \in 1 .. n} : e.rid = r}) IN
    [ch EXCEPT
        !.events = SubSeq(ch.events, n + 1, Len(ch.events)),
        !.unacked = [r \in Rids |-> IF ch.unacked[r] <= Acked(r) THEN 0
                                    ELSE ch.unacked[r] - Acked(r)]]

Another == IF lives = 0 THEN 1 ELSE 2

\* +update-timeout-timer-for: a PUT makes the channel, or starts its timer anew
\* unless someone listens.
update_timeout_timer_for ==
    IF ~Exists
    THEN [ch |-> [NoChannel EXCEPT !.st = "wait", !.timer = NewTimer, !.life = Another],
          rests |-> {}, waits |-> {Timeout(NewTimer)}]
    ELSE IF chan.st = "listen" THEN [ch |-> chan, rests |-> {}, waits |-> {}]
    ELSE [ch |-> [chan EXCEPT !.timer = NewTimer],
          rests |-> {Timeout(chan.timer)}, waits |-> {Timeout(NewTimer)}]

\* One command of a PUT, on the channel and on Gall and Behn; told are the
\* subscriptions the PUT has spoken of.  What a %delete passes on comes before what
\* the commands before it do (the list of moves grows at its head, is turned round
\* at the end, and a %delete adds to its tail): those subscriptions stay as the
\* commands left them.
Command(acc, cmd) ==
    CASE cmd.tag = "ack" ->
           [acc EXCEPT !.ch = acknowledge_events(acc.ch, cmd.id)]
      [] cmd.tag = "poke" ->
           [acc EXCEPT !.world = Poked(acc.world)]
      [] cmd.tag = "subscribe" ->
           [ch |-> [acc.ch EXCEPT !.subs = acc.ch.subs \cup {cmd.id}],
            world |-> Watched(acc.world, cmd.id),
            told |-> acc.told \cup {cmd.id}]
      [] cmd.tag = "unsubscribe" /\ cmd.id \in acc.ch.subs ->
           [ch |-> [acc.ch EXCEPT !.subs = acc.ch.subs \ {cmd.id},
                                  !.unacked = [acc.ch.unacked EXCEPT ![cmd.id] = 0]],
            world |-> Left(acc.world, {cmd.id}),
            told |-> acc.told \cup {cmd.id}]
      [] cmd.tag = "delete" ->
           [ch |-> NoChannel, world |-> Discarded(acc.ch, FALSE, acc.told, acc.world),
            told |-> acc.told]
      [] OTHER -> acc

\* The commands of a PUT one after the other, two at most (bound).
Executed(acc, cmds) ==
    IF cmds = <<>> THEN acc
    ELSE IF Len(cmds) = 1 THEN Command(acc, cmds[1])
    ELSE Command(Command(acc, cmds[1]), cmds[2])

-----------------------------------------------------------------------------
(* Eyre: the events it computes. *)

\* +on-put-request: what the commands do comes before what the timer does.
on_put_request(cmds) ==
    LET start == update_timeout_timer_for
        end == Executed([ch |-> start.ch, world |-> World, told |-> {}], cmds) IN
    /\ chan' = end.ch
    /\ lives' = IF Exists THEN lives ELSE Another
    /\ key' = IF end.ch.st = "none" THEN KeyLeft ELSE key
    /\ Becomes(Waited(Rested(end.world, start.rests), start.waits))
    /\ UNCHANGED <<connections, cookie, eff>>

\* The timer that a listener does away with.
Replaced == IF chan.st = "wait" THEN Timeout(chan.timer) ELSE Heartbeat(chan.heart)

\* Mutant: the stream begins with what comes next.
on_get_request_NoReplay(d, from) ==
    LET ch == IF from = 0 THEN chan ELSE acknowledge_events(chan, from)
        old == chan.duct
        told == chan.st = "listen" /\ old \in connections IN
    /\ Exists
    /\ chan' = [ch EXCEPT !.st = "listen", !.duct = d, !.timer = 0, !.heart = d]
    /\ connections' = (connections \cup {d}) \ (IF told THEN {old} ELSE {})
    /\ key' = KeyLeft \cup {d}
    /\ cookie' = TRUE
    /\ Becomes(Rested(Waited(World, {Heartbeat(d)}), {Replaced}))
    /\ eff' = eff \o <<Effect("start", d, <<>>)>>
                  \o (IF told THEN <<Effect("cancel", old, <<>>)>> ELSE <<>>)
    /\ UNCHANGED lives

\* Mutant: the stream that was there is forgotten but not cancelled.
on_get_request_TwoListen(d, from) ==
    LET ch == IF from = 0 THEN chan ELSE acknowledge_events(chan, from) IN
    /\ Exists
    /\ chan' = [ch EXCEPT !.st = "listen", !.duct = d, !.timer = 0, !.heart = d]
    /\ connections' = connections \cup {d}
    /\ key' = key \cup {d}
    /\ cookie' = TRUE
    /\ Becomes(Rested(Waited(World, {Heartbeat(d)}), {Replaced}))
    /\ eff' = Append(eff, Effect("start", d, EventIds(chan.events)))
    /\ UNCHANGED lives

\* +on-get-request: 404 without a channel; else a stream that was there ends, and
\* the new one begins with the queue as it was before the Last-Event-Id was
\* taken off it.  from is that id and one, or 0 without the header.
on_get_request(d, from) ==
    LET ch == IF from = 0 THEN chan ELSE acknowledge_events(chan, from)
        old == chan.duct
        told == chan.st = "listen" /\ old \in connections IN
    \/ /\ ~Exists
       /\ eff' = Append(eff, Effect("gone", d, <<>>))
       /\ UNCHANGED <<eyreVars, worldVars>>
    \/ /\ Exists
       /\ chan' = [ch EXCEPT !.st = "listen", !.duct = d, !.timer = 0, !.heart = d]
       /\ connections' = (connections \cup {d}) \ (IF told THEN {old} ELSE {})
       /\ key' = KeyLeft \cup {d}
       /\ cookie' = TRUE
       /\ Becomes(Rested(Waited(World, {Heartbeat(d)}), {Replaced}))
       /\ eff' = eff \o <<Effect("start", d, EventIds(chan.events))>>
                     \o (IF told THEN <<Effect("cancel", old, <<>>)>> ELSE <<>>)
       /\ UNCHANGED lives

\* Mutant: the timer is not set.
cancel_requests_Untimed(ds) ==
    /\ connections' = connections \ ds
    /\ IF connections \cap key \cap ds # {} /\ Exists
       THEN /\ chan' = [chan EXCEPT !.st = "wait", !.duct = NoDuct,
                                    !.timer = NewTimer, !.heart = NoDuct]
            /\ key' = key \ ds
            /\ Becomes(Rested(World, {Heartbeat(chan.heart)}))
       ELSE UNCHANGED <<chan, key, worldVars>>
    /\ UNCHANGED <<cookie, lives>>

\* +cancel-request on each of the ducts ds, with +on-cancel-request.  It goes by
\* duct-to-key and takes for granted that the channel listens on the duct.
cancel_requests(ds) ==
    /\ connections' = connections \ ds
    /\ IF connections \cap key \cap ds # {} /\ Exists
       THEN /\ chan' = [chan EXCEPT !.st = "wait", !.duct = NoDuct,
                                    !.timer = NewTimer, !.heart = NoDuct]
            /\ key' = key \ ds
            /\ Becomes(Waited(Rested(World, {Heartbeat(chan.heart)}), {Timeout(NewTimer)}))
       ELSE UNCHANGED <<chan, key, worldVars>>
    /\ UNCHANGED <<cookie, lives>>

born == cancel_requests(connections)

\* +close-session: the channels a GET of the session has opened.
close_session ==
    /\ IF cookie THEN discard_channel(FALSE, World) ELSE UNCHANGED <<chan, key, worldVars>>
    /\ cookie' = FALSE
    /\ UNCHANGED <<connections, lives, eff>>

\* %trim: channels no duct leads to.
trim ==
    /\ Exists /\ key = {}
    /\ discard_channel(FALSE, World)
    /\ UNCHANGED <<connections, cookie, lives, eff, open, clientVars, restarts>>

-----------------------------------------------------------------------------
(* Eyre: what Gall and Behn tell it. *)

\* The pieces of a stream that carry the events evs.
Continues(d, evs) == [i \in DOMAIN evs |-> Effect("continue", d, <<evs[i].id>>)]

\* Mutant: what is sent is not kept.
emit_event_Unkept(r, kind, ok, late, world) ==
    LET listening == chan.st = "listen"
        new == IF ok THEN <<Event(chan.next, r, kind)>> ELSE <<>>
        known == kind = "poke-ack" \/ r \in chan.subs IN
    /\ chan' = IF Exists /\ known
               THEN [chan EXCEPT !.events = IF listening THEN @ ELSE @ \o new,
                                 !.next = @ + Len(new)]
               ELSE chan
    /\ eff' = IF Exists /\ known /\ listening THEN eff \o Continues(chan.duct, new) ELSE eff
    /\ Becomes(world)

\* +on-gall-response and +emit-event.  The sign is numbered, kept, and sent if
\* somebody listens.  A fact that is one too many when clog-timeout has passed since
\* the last acknowledgement (late), or one that has no JSON (~ok), ends the
\* subscription, and a kick is made up for the client.
emit_event(r, kind, ok, late, world) ==
    LET clogged == kind = "fact" /\ ok /\ late /\ chan.unacked[r] >= ClogThreshold
        kicking == clogged \/ ~ok
        kinds == IF ~ok THEN <<"kick">> ELSE IF clogged THEN <<kind, "kick">> ELSE <<kind>>
        new == [i \in DOMAIN kinds |-> Event(chan.next + i - 1, r, kinds[i])]
        known == kind = "poke-ack" \/ r \in chan.subs IN
    IF Exists /\ known
    THEN /\ chan' = [chan EXCEPT
                !.events = chan.events \o new,
                !.next = chan.next + Len(new),
                !.subs = IF kicking THEN chan.subs \ {r} ELSE chan.subs,
                !.unacked = [q \in Rids |-> IF q # r THEN chan.unacked[q]
                                            ELSE IF kicking THEN 0
                                            ELSE IF kind = "fact" THEN chan.unacked[q] + 1
                                            ELSE chan.unacked[q]]]
         /\ eff' = IF chan.st = "listen" THEN eff \o Continues(chan.duct, new) ELSE eff
         /\ Becomes(IF kicking THEN Left(world, {r}) ELSE world)
    ELSE /\ UNCHANGED <<chan, eff>>
         /\ Becomes(IF ~Exists /\ kind \in {"fact", "watch-ack"} THEN Left(world, {r}) ELSE world)

\* A sign of Gall, which changes the state of the subscription to next.
Sign(r, kind, ok, late, next) ==
    /\ chan.next < MaxEvents
    /\ emit_event(r, kind, ok, late, [World EXCEPT !.gall = [gall EXCEPT ![r] = next]])
    /\ UNCHANGED <<connections, key, cookie, lives, open, clientVars, restarts>>

\* An agent answers a %watch, yes or no.
watch_ack(r) ==
    /\ gall[r] = "asked"
    /\ \E next \in {"live", "none"} : Sign(r, "watch-ack", TRUE, FALSE, next)

fact(r) ==
    /\ gall[r] = "live"
    /\ \E ok, late \in BOOLEAN : Sign(r, "fact", ok, late, "live")

kick(r) == gall[r] = "live" /\ Sign(r, "kick", TRUE, FALSE, "none")

poke_ack ==
    /\ pokes > 0 /\ chan.next < MaxEvents
    /\ emit_event(NoDuct, "poke-ack", TRUE, FALSE, [World EXCEPT !.pokes = pokes - 1])
    /\ UNCHANGED <<connections, key, cookie, lives, open, clientVars, restarts>>

\* The wire names the channel, not the timer: whichever rings, it is discarded.
timeout(t) ==
    /\ Timeout(t) \in behn
    /\ LET world == Rested(World, {Timeout(t)}) IN
       IF Exists THEN discard_channel(TRUE, world)
       ELSE Becomes(world) /\ UNCHANGED <<chan, key>>
    /\ UNCHANGED <<connections, cookie, lives, eff, open, clientVars, restarts>>

-----------------------------------------------------------------------------
(* The client, and the runtime between it and eyre. *)

Cmd(tag, id) == [tag |-> tag, id |-> id]
Delete == Cmd("delete", 0)
Commands ==
    {Cmd("ack", k) : k \in 1 .. got} \cup {Cmd("poke", 0)}
    \cup {Cmd("subscribe", r) : r \in Rids \ used} \cup {Cmd("unsubscribe", r) : r \in used}
Batches ==
    {<<>>, <<Delete>>} \cup {<<c>> : c \in Commands}
    \cup {<<c, Delete>> : c \in Commands}

\* The command of a batch that deletes is the client's last.
Put(cmds) ==
    LET last == cmds # <<>> /\ Last(cmds) = Delete IN
    /\ client # "quit" /\ puts < MaxPuts
    /\ on_put_request(cmds)
    /\ client' = IF last THEN "quit" ELSE "on"
    /\ stream' = IF last THEN NoDuct ELSE stream
    /\ used' = used \cup {r \in Rids : Cmd("subscribe", r) \in Range(cmds)}
    /\ puts' = puts + 1
    /\ UNCHANGED <<open, got, streams, restarts>>

\* A name of a GET is used again when nothing has it any more.
Forgotten(d) ==
    /\ d \notin open \cup connections \cup key \cup {chan.duct}
    /\ Heartbeat(d) \notin behn
    /\ \A e \in Range(eff) : e.duct # d

\* Which of the names a GET has makes no difference.
Get(d) ==
    /\ client = "on" /\ stream = NoDuct /\ streams < MaxStreams
    /\ Forgotten(d) /\ d = CHOOSE x \in Ducts : Forgotten(x)
    /\ on_get_request(d, got)
    /\ stream' = d /\ open' = open \cup {d} /\ streams' = streams + 1
    /\ UNCHANGED <<got, client, used, puts, restarts>>

\* The client loses its stream, and will open another.
Lose ==
    /\ stream # NoDuct /\ streams < MaxStreams
    /\ stream' = NoDuct
    /\ UNCHANGED <<eyreVars, worldVars, eff, open, got, client, used, puts,
                   streams, restarts>>

\* The client goes away, with or without logging out.
Quit ==
    /\ client = "on"
    /\ client' = "quit" /\ stream' = NoDuct
    /\ UNCHANGED <<eyreVars, worldVars, eff>> \/ close_session
    /\ UNCHANGED <<open, got, used, puts, streams, restarts>>

\* The runtime notices that nobody is at the other end.
Drop(d) ==
    /\ d \in open /\ d # stream
    /\ open' = open \ {d}
    /\ cancel_requests({d})
    /\ UNCHANGED <<eff, clientVars, restarts>>

\* An effect reaches its GET, if that is still open.  A client that is told that
\* there is no channel gives up.
Release ==
    /\ eff # <<>>
    /\ eff' = Tail(eff)
    /\ LET e == Head(eff)
           heard == e.duct = stream /\ e.ids # <<>>
           over == e.tag \in {"cancel", "gone"} IN
       /\ open' = IF over THEN open \ {e.duct} ELSE open
       /\ stream' = IF over /\ e.duct = stream THEN NoDuct ELSE stream
       /\ got' = IF heard /\ Last(e.ids) >= got THEN Last(e.ids) + 1 ELSE got
       /\ client' = IF e.tag = "gone" /\ e.duct = stream THEN "quit" ELSE client
    /\ UNCHANGED <<eyreVars, worldVars, used, puts, streams, restarts>>

\* The runtime starts anew: connections and effects are gone, and %born is the
\* first that eyre hears.
Restart ==
    /\ restarts < Restarts
    /\ restarts' = restarts + 1
    /\ born
    /\ eff' = <<>> /\ open' = {} /\ stream' = NoDuct
    /\ UNCHANGED <<got, client, used, puts, streams>>

Next ==
    \/ \E cmds \in Batches : Put(cmds)
    \/ \E d \in Ducts : Get(d) \/ Drop(d)
    \/ Lose \/ Quit \/ Release \/ Restart \/ trim
    \/ \E r \in Rids : watch_ack(r) \/ fact(r) \/ kick(r)
    \/ poke_ack
    \/ \E t \in Timers : timeout(t)

Spec == Init /\ [][Next]_vars

\* Behn rings, effects are released, a dead connection is noticed
\* when a heartbeat cannot be written, and a client that lost its stream tries
\* again, as browsers do.
FairSpec ==
    /\ Spec
    /\ WF_vars(Release)
    /\ WF_vars(\E d \in Ducts : Drop(d))
    /\ WF_vars(\E t \in Timers : timeout(t))
    /\ WF_vars(\E d \in Ducts : Get(d))

-----------------------------------------------------------------------------
(* Properties *)

\* The queue holds the events from first on, up to the last one numbered.
QueuedFrom(first) ==
    EventIds(chan.events) = [i \in 1 .. chan.next - first |-> first + i - 1]

\* What is under way to the GET d: which events, and that in their order.
UnderWay(d) == UNION {Range(e.ids) : e \in {x \in Range(eff) : x.duct = d}}
InOrder(d) ==
    \A i, k \in {n \in DOMAIN eff : eff[n].duct = d} :
        \A m \in DOMAIN eff[i].ids, n \in DOMAIN eff[k].ids :
            i < k \/ (i = k /\ m < n) => eff[i].ids[m] < eff[k].ids[n]

\* "stored for later resending until acknowledged by the client" (eyre.hoon,
\* +emit-event): whatever acknowledgements arrive, in PUTs or as the Last-Event-Id
\* of a GET, the queue holds every event the client has not got, without a gap.
\* And while the channel listens on the client's stream, what +on-get-request
\* replays and what +emit-event adds to it go on from what the client has got: one
\* that reconnects misses nothing and hears nothing out of order.  Of the first
\* channel of the name only: one made after a reap numbers from 0.
StreamWhole ==
    chan.life = 1 =>
        /\ \E first \in 0 .. got : first <= chan.next /\ QueuedFrom(first)
        /\ chan.st = "listen" /\ chan.duct = stream =>
              /\ InOrder(stream)
              /\ \E first \in 0 .. got : first <= chan.next
                                        /\ UnderWay(stream) = first .. chan.next - 1

\* One listener or one timer, whatever GETs, cancels and restarts cross: the duct a
\* channel listens on is the only one that leads to it, is a connection eyre knows,
\* and is the one with a heartbeat; a channel nobody listens to has its timer set in
\* Behn, else nothing would reap it.  So a heartbeat that rings finds its channel,
\* and on-cancel-request's "it should have a listener" holds.
ListenerSound ==
    LET duct == IF chan.st = "listen" THEN {chan.duct} ELSE {} IN
    /\ key = duct /\ duct \subseteq connections
    /\ {d \in Ducts : Heartbeat(d) \in behn} = duct
    /\ chan.st = "wait" => Timeout(chan.timer) \in behn

\* The count that decides on a clog never exceeds the facts queued for the
\* subscription, however acknowledgements, kicks and unsubscribes interleave: an
\* agent is not left for facts the client has acknowledged.
UnackedCounts == \A r \in Rids : chan.unacked[r] <= FactsOf(chan.events, r)

\* "we should clean up subscriptions" (+on-gall-response): an agent that has
\* accepted a subscription has a channel that holds it, also when the channel went
\* before the agent answered.
NoOrphanSubs == \A r \in Rids : gall[r] = "live" => Exists /\ r \in chan.subs

\* Once the agents fall silent, as MaxEvents makes them, the client has heard every
\* event, over as many streams as it takes, unless the channel is gone, or the
\* client quits or opens no more streams.
Heard ==
    <>[](\/ got >= chan.next \/ chan.life # 1 \/ client = "quit"
         \/ stream = NoDuct /\ streams = MaxStreams)

\* A client that has gone, by %delete, by logging out or without a word, leaves no
\* channel behind, also when the runtime restarts meanwhile.
Reaped == client = "quit" ~> [](chan = NoChannel)

=============================================================================
