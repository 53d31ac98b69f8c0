--------------------------- MODULE WsClientProof ----------------------------
(***************************************************************************)
(* Theorems of WsClient for every set of attempts, every assignment of     *)
(* ducts and every bound.  The driver's own invariant is that of           *)
(* CttpDriverProof, whose lemmas are used here of the driver's part of the *)
(* state.                                                                  *)
(***************************************************************************)
EXTENDS WsClient, QueueTheorems, FiniteSetTheorems, TLAPS

DP == INSTANCE CttpDriverProof

-----------------------------------------------------------------------------
(* The driver of WsClient is the one CttpDriverProof is about.               *)

LEMMA SamePieces ==
    /\ Driver!NoReq = DP!NoReq /\ Driver!NoWs = DP!NoWs
    /\ \A c : Driver!Alive(c) <=> DP!Alive(c)
    /\ \A c : Driver!HasSocket(c) <=> DP!HasSocket(c)
    /\ \A r : Driver!FreedReq(r) = DP!FreedReq(r)
BY DEF Driver!NoReq, DP!NoReq, Driver!NoWs, DP!NoWs, Driver!Alive, DP!Alive,
       Driver!HasSocket, DP!HasSocket, Driver!FreedReq, DP!FreedReq

LEMMA SameEnd ==
    ASSUME NEW c
    PROVE  /\ \A id, ws : Driver!Failed(c, id, ws) <=> DP!Failed(c, id, ws)
           /\ Driver!Finished(c) <=> DP!Finished(c)
           /\ Driver!Dangling(c) <=> DP!Dangling(c)
           /\ Driver!ws_close(c) <=> DP!ws_close(c)
<1>1. \A id, ws : Driver!Failed(c, id, ws) <=> DP!Failed(c, id, ws)
  BY DEF Driver!Failed, DP!Failed, Driver!Plan, DP!Plan,
         Driver!FreedWs, DP!FreedWs
<1>2. Driver!Finished(c) <=> DP!Finished(c)
  BY <1>1 DEF Driver!Finished, DP!Finished, Driver!FreedReq, DP!FreedReq
<1>3. Driver!Dangling(c) <=> DP!Dangling(c)
  BY DEF Driver!Dangling, DP!Dangling, Driver!PlanNothing, DP!PlanNothing
<1>4. Driver!ws_close(c) <=> DP!ws_close(c)
  BY DEF Driver!ws_close, DP!ws_close, Driver!Plan, DP!Plan,
         Driver!FreedReq, DP!FreedReq, Driver!FreedWs, DP!FreedWs
<1> QED
  BY <1>1, <1>2, <1>3, <1>4

LEMMA SameCallback ==
    ASSUME NEW c
    PROVE  /\ Driver!cttp_creq_resolve_cb(c) <=> DP!cttp_creq_resolve_cb(c)
           /\ Driver!cttp_creq_on_connect(c) <=> DP!cttp_creq_on_connect(c)
           /\ Driver!cttp_creq_on_head(c) <=> DP!cttp_creq_on_head(c)
           /\ Driver!cttp_creq_on_body(c) <=> DP!cttp_creq_on_body(c)
           /\ Driver!cttp_ws_message(c) <=> DP!cttp_ws_message(c)
           /\ Driver!cttp_ws_ends(c) <=> DP!cttp_ws_ends(c)
<1>1. Driver!cttp_creq_resolve_cb(c) <=> DP!cttp_creq_resolve_cb(c)
  BY SameEnd
  DEF Driver!cttp_creq_resolve_cb, DP!cttp_creq_resolve_cb,
      Driver!FreedReq, DP!FreedReq, Driver!PlanNothing, DP!PlanNothing
<1>2. Driver!cttp_creq_on_connect(c) <=> DP!cttp_creq_on_connect(c)
  BY SameEnd
  DEF Driver!cttp_creq_on_connect, DP!cttp_creq_on_connect,
      Driver!Alive, DP!Alive, Driver!PlanNothing, DP!PlanNothing
<1>3. Driver!cttp_creq_on_head(c) <=> DP!cttp_creq_on_head(c)
  BY SameEnd
  DEF Driver!cttp_creq_on_head, DP!cttp_creq_on_head, Driver!Alive, DP!Alive,
      Driver!Upgraded, DP!Upgraded, Driver!FreedReq, DP!FreedReq,
      Driver!Plan, DP!Plan, Driver!PlanNothing, DP!PlanNothing
<1>4. Driver!cttp_creq_on_body(c) <=> DP!cttp_creq_on_body(c)
  BY SameEnd
  DEF Driver!cttp_creq_on_body, DP!cttp_creq_on_body, Driver!Alive, DP!Alive
<1>5. Driver!cttp_ws_message(c) <=> DP!cttp_ws_message(c)
  BY DEF Driver!cttp_ws_message, DP!cttp_ws_message, Driver!Plan, DP!Plan,
         Driver!HasSocket, DP!HasSocket
<1>6. Driver!cttp_ws_ends(c) <=> DP!cttp_ws_ends(c)
  BY SameEnd
  DEF Driver!cttp_ws_ends, DP!cttp_ws_ends, Driver!HasSocket, DP!HasSocket
<1> QED
  BY <1>1, <1>2, <1>3, <1>4, <1>5, <1>6

LEMMA SameFound ==
    ASSUME NEW c, NEW id
    PROVE  /\ Driver!FoundReq(c, id) <=> DP!FoundReq(c, id)
           /\ Driver!FoundWs(c, id) <=> DP!FoundWs(c, id)
BY DEF Driver!FoundReq, DP!FoundReq, Driver!FoundWs, DP!FoundWs,
       Driver!Alive, DP!Alive, Driver!Linked, DP!Linked,
       Driver!Reqs, DP!Reqs

LEMMA SameStart ==
    ASSUME NEW c, NEW id
    PROVE  /\ Driver!cttp_request(c, id) <=> DP!cttp_request(c, id)
           /\ Driver!cttp_ws_start(c, id) <=> DP!cttp_ws_start(c, id)
<1>1. Driver!creq_start(c, id) <=> DP!creq_start(c, id)
  BY SameEnd
  DEF Driver!creq_start, DP!creq_start, Driver!FreedReq, DP!FreedReq,
      Driver!PlanNothing, DP!PlanNothing
<1>2. Driver!Dropped(id) = DP!Dropped(id)
  BY DEF Driver!Dropped, DP!Dropped, Driver!NoReq, DP!NoReq
<1>3. Driver!cttp_request(c, id) <=> DP!cttp_request(c, id)
  BY <1>1, <1>2
  DEF Driver!cttp_request, DP!cttp_request, Driver!PlanNothing, DP!PlanNothing
<1>4. Driver!cttp_ws_start(c, id) <=> DP!cttp_ws_start(c, id)
  BY <1>1, <1>2, SameEnd DEF Driver!cttp_ws_start, DP!cttp_ws_start
<1> QED
  BY <1>3, <1>4

LEMMA SameSession ==
    ASSUME NEW c
    PROVE  /\ Driver!creq_quit(c) <=> DP!creq_quit(c)
           /\ Driver!ws_queue_close(c) <=> DP!ws_queue_close(c)
           /\ Driver!ws_send_message(c) <=> DP!ws_send_message(c)
<1>1. Driver!creq_quit(c) <=> DP!creq_quit(c)
  BY SameEnd
  DEF Driver!creq_quit, DP!creq_quit, Driver!FreedReq, DP!FreedReq,
      Driver!PlanNothing, DP!PlanNothing
<1>2. Driver!ws_queue_close(c) <=> DP!ws_queue_close(c)
  BY SameEnd
  DEF Driver!ws_queue_close, DP!ws_queue_close,
      Driver!PlanNothing, DP!PlanNothing
<1>3. Driver!ws_send_message(c) <=> DP!ws_send_message(c)
  BY SameEnd
  DEF Driver!ws_send_message, DP!ws_send_message,
      Driver!PlanNothing, DP!PlanNothing
<1> QED
  BY <1>1, <1>2, <1>3

LEMMA SameEffect ==
    ASSUME NEW e
    PROVE  Driver!cttp_ef_http_client(e) <=> DP!cttp_ef_http_client(e)
<1>1. Driver!Ignored(e) <=> DP!Ignored(e)
  BY SameFound DEF Driver!Ignored, DP!Ignored, Driver!Reqs, DP!Reqs
<1> QED
  BY <1>1, SameFound, SameStart, SameSession
  DEF Driver!cttp_ef_http_client, DP!cttp_ef_http_client,
      Driver!Reqs, DP!Reqs, Driver!PlanNothing, DP!PlanNothing

-----------------------------------------------------------------------------
(* The invariant. *)

Born == [tag |-> "born"]

\* What asks the driver for attempt c, cancels under a number, answers.
Asking == {"request", "websocket-handshake"}
Asks(c) == {e \in DP!Effects : e.tag \in Asking /\ e.req = c}
CancelsOf(id) == {e \in DP!Effects : e.tag = "cancel-request" /\ e.id = id}
Answers(c) == {o \in DP!Ovum : o.tag = "receive" /\ o.req = c}

Waiting == {"addr", "quit", "ripe"}
Socket == {"open", "closing"}

Asked(c) == \E e \in In(eff) : e \in Asks(c)
AskedAs(c, id) == \E e \in In(eff) : e \in Asks(c) /\ e.id = id
Cancelled(id) == \E e \in In(eff) : e \in CancelsOf(id)
Answered(c, id) == \E o \in In(ova) : o \in Answers(c) /\ o.id = id
Told(tags, c) == \E o \in In(ova) : o.tag \in tags /\ o.req = c
End == {"reject", "disconnect"}

\* The driver has the attempt, or is about to be given it, under a number.
Uses(c, id) == AskedAs(c, id) \/ (creq[c].st # "none" /\ creq[c].num = id)

\* It may still be answered under that number.
Busy(c, id) == \/ AskedAs(c, id)
               \/ creq[c].st \in Waiting /\ creq[c].num = id
               \/ Answered(c, id)

TypesOK ==
    /\ DOMAIN conn \subseteq Ids
    /\ \A id \in DOMAIN conn : conn[id] \in PlainReqs
    /\ DOMAIN sockets \subseteq Ids
    /\ \A id \in DOMAIN sockets : /\ sockets[id].req \in WsReqs
                                  /\ sockets[id].status \in {"pending", "accepted"}
    /\ next_id \in Nat
    /\ watch \subseteq Nat \X Ids /\ IsFiniteSet(watch)
    /\ asked \subseteq Reqs
    /\ eff \in Seq(DP!Effects)
    /\ ova \in Seq(DP!Ovum \cup {Born})
    /\ cancels \in Nat /\ restarts \in Nat

\* What an event says happened did, and it is the last of its attempt unless
\* the session goes on.
EventOK(o) ==
    /\ creq[o.req].st # "none" /\ creq[o.req].num = o.id
    /\ o.tag = "receive" <=> o.req \in PlainReqs
    /\ o.tag = "receive" => creq[o.req].st = "freed"
    /\ o.tag = "accept" => cws[o.req].sat \in Socket \cup {"freed"}
    /\ o.tag \in End => cws[o.req].sat = "freed"

QueueInv ==
    /\ \A i \in DOMAIN ova : ova[i].tag = "born" => i = 1
    /\ Born \in In(ova) \/ outbound = TRUE
    /\ \A o \in In(ova) : o # Born => EventOK(o)
    /\ \A c \in PlainReqs : Once(ova, Answers(c))

\* An attempt is made once, and starts when it is taken from the effects.
AskedInv ==
    /\ \A c \in Reqs \ asked : creq[c].st = "none"
    /\ \A id \in DOMAIN conn : conn[id] \in asked
    /\ \A id \in DOMAIN sockets : sockets[id].req \in asked
    /\ \A c \in Reqs : /\ Once(eff, Asks(c))
                       /\ Asked(c) => c \in asked /\ creq[c].st = "none"

\* Before the first %born nothing was asked of the runtime.
Fresh ==
    Born \in In(ova) => /\ eff = <<>> /\ DOMAIN sockets = {} /\ watch = {}
                        /\ outbound = FALSE
                        /\ \A c \in Reqs : creq[c].st = "none"

\* Numbers in use were given out, and a number is not that of a request and
\* of a socket.
Numbers ==
    /\ \A c \in Reqs : \A id \in Ids : Uses(c, id) => id < next_id
    /\ \A id \in Ids : Cancelled(id) => id < next_id
    /\ \A id \in DOMAIN conn : id < next_id /\ id \notin DOMAIN sockets
    /\ \A id \in DOMAIN sockets : id < next_id

\* Under the number of a request only that attempt is still answered, and
\* under that of a socket only that attempt was ever started.
Owned ==
    /\ \A id \in DOMAIN conn : \A c \in Reqs : Busy(c, id) => conn[id] = c
    /\ \A id \in DOMAIN sockets : \A c \in Reqs : \A j \in Ids :
         Uses(c, j) => (sockets[id].req = c <=> j = id)

\* A number is cancelled once, when iris has forgotten it.
CancelledOnce ==
    /\ \A id \in Ids : /\ Once(eff, CancelsOf(id))
                       /\ Cancelled(id) => id \notin DOMAIN conn \cup DOMAIN sockets
    /\ \A c \in PlainReqs : creq[c].st = "quit" =>
         creq[c].num \notin DOMAIN conn /\ ~Cancelled(creq[c].num)

CallbackOwed ==
    \A c \in PlainReqs :
      /\ net[c] = "addr" <=> creq[c].st \in {"addr", "quit"}
      /\ net[c] \in {"connect", "head", "body"} <=> creq[c].st = "ripe"

FirstInv == Fresh /\ Numbers /\ Owned /\ CancelledOnce /\ CallbackOwed

\* A socket of iris is one of the driver, or will be one, or was one.
SocketOK(id) ==
    LET c == sockets[id].req IN
    \/ Told(End, c)
    \/ /\ sockets[id].status = "pending"
       /\ \/ AskedAs(c, id)
          \/ cws[c].sat = "pending"
          \/ Told({"accept"}, c) /\ cws[c].sat \in Socket
    \/ sockets[id].status = "accepted" /\ cws[c].sat \in Socket

\* And the other way round, if no agent cancelled a websocket.
Listed ==
    /\ \A c \in WsReqs : Asked(c) \/ cws[c].sat \in {"pending"} \cup Socket
         => \E id \in DOMAIN sockets : sockets[id].req = c
    /\ \A s \in watch : /\ s[1] = 0 /\ s[2] \in DOMAIN sockets
                        /\ sockets[s[2]].status = "accepted"

\* A request of iris will be one of the driver before it is cancelled, is one,
\* or was answered.
Waited(id) ==
    LET c == conn[id] IN
    \/ Unfollowed(eff, Iris!Request(c, id), CancelsOf(id))
    \/ Answered(c, id)
    \/ creq[c].st \in {"addr", "ripe"} /\ creq[c].num = id /\ ~Cancelled(id)
    \/ creq[c].st = "dropped"

\* Only the first process, or one in which no agent cancels a websocket, can
\* tell whose a number is.
IInv ==
    /\ DP!IInv
    /\ TypesOK
    /\ QueueInv
    /\ AskedInv
    /\ restarts = 0 => FirstInv
    /\ restarts = 0 => \A id \in DOMAIN sockets : SocketOK(id)
    /\ restarts = 0 /\ cancels = 0 => Listed
    /\ OwnCancels /\ Born \notin In(ova) => \A id \in DOMAIN conn : Waited(id)

-----------------------------------------------------------------------------
(* Steps of the driver. *)

\* What every step of the driver leaves alone.
KernelStays ==
    UNCHANGED <<conn, sockets, next_id, outbound, watch, asked, cancels,
                restarts>>

\* The queue of events takes what was planned.
Hears(c) ==
    \/ DP!Silent /\ ova' = ova
    \/ \E tag : /\ DP!Says(c, tag)
                /\ ova' = Append(ova, [tag |-> tag, req |-> c,
                                       id |-> creq'[c].num])

\* The oldest effect is taken, e.
Takes(e) == eff # <<>> /\ e = Head(eff) /\ eff' = Tail(eff)

\* A request or a session goes on, with or without an effect.
GoesOn(c) ==
    /\ DP!Goes(c)
    /\ \/ eff' = eff
       \/ \E e \in DP!Effects : Takes(e) /\ e.tag \notin Asking

Begins(c) ==
    \E e \in Asks(c) :
      /\ Takes(e)
      /\ c \in PlainReqs => e.tag = "request" /\ DP!RequestBegins(c, e.id)
      /\ c \in WsReqs => DP!SessionBegins(c, e.id)

Quits(c) ==
    /\ c \in PlainReqs /\ DP!RequestQuits(c)
    /\ \E e \in CancelsOf(creq[c].num) : Takes(e)

\* A step of the driver about one attempt.
Moves(c) ==
    /\ DP!IInv' /\ KernelStays
    /\ DP!Alone(c) /\ Hears(c)
    /\ GoesOn(c) \/ Begins(c) \/ Quits(c)

\* An effect about nothing.
Ignores ==
    /\ DP!IInv' /\ KernelStays
    /\ UNCHANGED <<creq, cws, net, quits, ova>>
    /\ \E e \in DP!Effects : Takes(e) /\ e.tag \notin Asking

LEMMA EnqueueHears ==
    ASSUME Enqueue, NEW c \in Reqs,
           DP!Silent \/ \E tag : DP!Says(c, tag)
    PROVE  Hears(c)
<1>1. CASE DP!Silent
  BY <1>1 DEF Enqueue, DP!Silent, Hears
<1>2. ASSUME NEW tag, DP!Says(c, tag) PROVE Hears(c)
  <2> DEFINE o == [tag |-> tag, req |-> c, id |-> creq'[c].num]
  <2>1. out' = {o}
    BY <1>2 DEF DP!Says
  <2>2. (CHOOSE p \in {o} : TRUE) = o
    OBVIOUS
  <2>3. ova' = Append(ova, o)
    BY <2>1, <2>2 DEF Enqueue
  <2> QED
    BY <1>2, <2>3 DEF Hears
<1> QED
  BY <1>1, <1>2

LEMMA GoesHears ==
    ASSUME NEW c \in Reqs, DP!Goes(c)
    PROVE  DP!Silent \/ \E tag : DP!Says(c, tag)
BY DEF DP!Goes, DP!RequestGoes, DP!SessionGoes, Reqs

\* A callback of libuv or libh2o.
LEMMA CallbackMoves ==
    ASSUME DP!IInv, NEW c \in Reqs, Settle(c) \/ Peer(c)
    PROVE  Moves(c)
<1>1. DP!Callback(c)
  BY SameCallback DEF Settle, Peer, DP!Callback
<1>2. DP!IInv' /\ DP!Goes(c)
  BY <1>1, DP!CallbackInv, DP!CallbackShows, AttemptsAssumption,
     MaxIdAssumption DEF Reqs, DP!Reqs
<1>3. Enqueue /\ KernelStays /\ eff' = eff
  BY DEF Settle, Peer, irisVars, KernelStays
<1>4. Hears(c)
  BY <1>2, <1>3, GoesHears, EnqueueHears
<1>5. DP!Alone(c)
  BY <1>2 DEF DP!Goes
<1> QED
  BY <1>2, <1>3, <1>4, <1>5 DEF Moves, GoesOn

\* An effect is released.
LEMMA ReleaseMoves ==
    ASSUME DP!IInv, TypesOK, Release
    PROVE  Ignores \/ \E c \in Reqs : Moves(c)
<1> DEFINE e == Head(eff)
<1>1. /\ DP!cttp_ef_http_client(e) /\ e \in DP!Effects /\ Takes(e)
      /\ KernelStays /\ Enqueue
  BY SameEffect, InTail DEF Release, TypesOK, Takes, KernelStays
<1> HIDE DEF e
<1>2. DP!IInv'
  BY <1>1, DP!EffectInv, AttemptsAssumption, MaxIdAssumption
<1>3. \/ /\ e.tag \notin {"request", "websocket-handshake"}
         /\ DP!PlanNothing /\ UNCHANGED <<creq, cws, net, quits>>
      \/ /\ e.tag = "request" /\ e.req \in PlainReqs
         /\ DP!Alone(e.req) /\ DP!RequestBegins(e.req, e.id)
      \/ /\ e.tag = "websocket-handshake" /\ e.req \in WsReqs
         /\ DP!Alone(e.req) /\ DP!SessionBegins(e.req, e.id)
      \/ /\ e.tag = "cancel-request"
         /\ \E c \in PlainReqs : /\ DP!FoundReq(c, e.id)
                                 /\ DP!Alone(c) /\ DP!RequestQuits(c)
      \/ /\ e.tag \notin {"request", "websocket-handshake"}
         /\ \E c \in WsReqs : DP!Goes(c)
  BY <1>1, DP!EffectShows, AttemptsAssumption, MaxIdAssumption
<1>4. CASE /\ e.tag \notin {"request", "websocket-handshake"}
           /\ DP!PlanNothing /\ UNCHANGED <<creq, cws, net, quits>>
  <2>1. ova' = ova
    BY <1>1, <1>4 DEF Enqueue, DP!PlanNothing
  <2> QED
    BY <1>1, <1>2, <1>4, <2>1 DEF Ignores, Asking
<1>5. CASE /\ e.tag = "request" /\ e.req \in PlainReqs
           /\ DP!Alone(e.req) /\ DP!RequestBegins(e.req, e.id)
  <2>1. e.req \in Reqs /\ e.req \notin WsReqs /\ e \in Asks(e.req)
    BY <1>1, <1>5, AttemptsAssumption DEF Reqs, Asks, Asking
  <2>2. Hears(e.req)
    BY <1>1, <1>5, <2>1, EnqueueHears DEF DP!RequestBegins
  <2> QED
    BY <1>1, <1>2, <1>5, <2>1, <2>2 DEF Moves, Begins
<1>6. CASE /\ e.tag = "websocket-handshake" /\ e.req \in WsReqs
           /\ DP!Alone(e.req) /\ DP!SessionBegins(e.req, e.id)
  <2>1. e.req \in Reqs /\ e.req \notin PlainReqs /\ e \in Asks(e.req)
    BY <1>1, <1>6, AttemptsAssumption DEF Reqs, Asks, Asking
  <2>2. Hears(e.req)
    BY <1>1, <1>6, <2>1, EnqueueHears DEF DP!SessionBegins
  <2> QED
    BY <1>1, <1>2, <1>6, <2>1, <2>2 DEF Moves, Begins
<1>7. ASSUME NEW c \in PlainReqs, e.tag = "cancel-request",
             DP!FoundReq(c, e.id), DP!Alone(c), DP!RequestQuits(c)
      PROVE  c \in Reqs /\ Moves(c)
  <2>1. c \in Reqs /\ e \in CancelsOf(creq[c].num)
    BY <1>1, <1>7 DEF Reqs, CancelsOf, DP!FoundReq
  <2>2. Hears(c)
    BY <1>1, <1>7, <2>1, EnqueueHears DEF DP!RequestQuits
  <2> QED
    BY <1>1, <1>2, <1>7, <2>1, <2>2 DEF Moves, Quits
<1>8. ASSUME NEW c \in WsReqs, e.tag \notin {"request", "websocket-handshake"},
             DP!Goes(c)
      PROVE  c \in Reqs /\ Moves(c)
  <2>1. c \in Reqs
    BY DEF Reqs
  <2>2. Hears(c) /\ DP!Alone(c)
    BY <1>1, <1>8, <2>1, GoesHears, EnqueueHears DEF DP!Goes
  <2> QED
    BY <1>1, <1>2, <1>8, <2>1, <2>2 DEF Moves, GoesOn, Asking
<1> QED
  BY <1>3, <1>4, <1>5, <1>6, <1>7, <1>8

-----------------------------------------------------------------------------
(* What a step of the driver is to the queues and to the attempts. *)

LEMMA Untouched ==
    ASSUME NEW c \in Reqs, DP!Alone(c)
    PROVE  \A d \in Reqs \ {c} : /\ creq'[d] = creq[d] /\ cws'[d] = cws[d]
                                 /\ net'[d] = net[d]
                                 /\ d \in quits' <=> d \in quits
BY DEF DP!Alone, DP!Untouched, Reqs, DP!Reqs

LEMMA EffectsTaken ==
    ASSUME TypesOK, NEW e, Takes(e)
    PROVE  /\ eff' \in Seq(DP!Effects) /\ e \in DP!Effects
           /\ In(eff) = {e} \cup In(eff')
           /\ \A X : Once(eff, X) => /\ Once(eff', X)
                                     /\ e \in X => In(eff') \cap X = {}
<1>1. eff \in Seq(DP!Effects) /\ eff # <<>> /\ e = Head(eff) /\ eff' = Tail(eff)
  BY DEF TypesOK, Takes
<1>2. /\ eff' \in Seq(DP!Effects) /\ e \in DP!Effects
      /\ In(eff) = {e} \cup In(eff')
  BY <1>1, InTail
<1>3. ASSUME NEW X, Once(eff, X)
      PROVE  /\ Once(eff', X)
             /\ e \in X => In(eff') \cap X = {}
  BY <1>1, <1>3, OnceTail
<1> QED
  BY <1>2, <1>3

\* Of the effects at most one is taken, and one that asks only to start what
\* it asks for.
LEMMA EffectsMove ==
    ASSUME TypesOK, AskedInv, NEW c \in Reqs, Moves(c) \/ Ignores
    PROVE  /\ eff' \in Seq(DP!Effects) /\ In(eff') \subseteq In(eff)
           /\ \A X : Once(eff, X) => Once(eff', X)
           /\ \/ \A e \in In(eff) : e.tag \in Asking => e \in In(eff')
              \/ /\ Begins(c) /\ Moves(c) /\ ~Asked(c)' /\ Asked(c)
                 /\ \A e \in In(eff) : e \in In(eff') \/ e \in Asks(c)
<1>1. CASE eff' = eff
  BY <1>1 DEF TypesOK
<1>2. ASSUME NEW e, Takes(e), e.tag \notin Asking
      PROVE  /\ eff' \in Seq(DP!Effects) /\ In(eff') \subseteq In(eff)
             /\ \A X : Once(eff, X) => Once(eff', X)
             /\ \A f \in In(eff) : f.tag \in Asking => f \in In(eff')
  BY <1>2, EffectsTaken
<1>3. ASSUME NEW e \in Asks(c), Takes(e)
      PROVE  /\ eff' \in Seq(DP!Effects) /\ In(eff') \subseteq In(eff)
             /\ \A X : Once(eff, X) => Once(eff', X)
             /\ ~Asked(c)' /\ Asked(c)
             /\ \A f \in In(eff) : f \in In(eff') \/ f \in Asks(c)
  <2>1. Once(eff, Asks(c))
    BY DEF AskedInv
  <2>2. /\ eff' \in Seq(DP!Effects) /\ In(eff) = {e} \cup In(eff')
        /\ \A X : Once(eff, X) => Once(eff', X)
        /\ In(eff') \cap Asks(c) = {}
    BY <1>3, <2>1, EffectsTaken
  <2>3. ~Asked(c)' /\ Asked(c)
    BY <2>2 DEF Asked, Asks
  <2> QED
    BY <2>2, <2>3
<1>4. CASE Ignores
  BY <1>2, <1>4 DEF Ignores
<1>5. CASE Moves(c) /\ GoesOn(c)
  BY <1>1, <1>2, <1>5 DEF GoesOn
<1>6. CASE Moves(c) /\ Begins(c)
  BY <1>3, <1>6 DEF Begins
<1>7. CASE Moves(c) /\ Quits(c)
  <2>1. PICK e \in CancelsOf(creq[c].num) : Takes(e)
    BY <1>7 DEF Quits
  <2>2. e.tag \notin Asking
    BY DEF CancelsOf, Asking
  <2> QED
    BY <1>2, <2>1, <2>2
<1> QED
  BY <1>4, <1>5, <1>6, <1>7 DEF Moves

LEMMA SaysOnce ==
    ASSUME NEW c, NEW tag, DP!Says(c, tag)
    PROVE  ~DP!Silent /\ \A t : DP!Says(c, t) => t = tag
<1>1. ASSUME NEW t, DP!Says(c, t) PROVE t = tag
  <2>1. [tag |-> tag, req |-> c, id |-> creq'[c].num]
           = [tag |-> t, req |-> c, id |-> creq'[c].num]
    BY <1>1 DEF DP!Says
  <2> QED
    BY <2>1
<1> QED
  BY <1>1 DEF DP!Says, DP!Silent

\* What becomes of the attempt that moves.
LEMMA AttemptMoves ==
    ASSUME DP!IInv, TypesOK, AskedInv, NEW c \in Reqs, Moves(c)
    PROVE  /\ creq'[c].st # "none"
           /\ \/ creq[c].st # "none" /\ creq'[c].num = creq[c].num /\ ~Begins(c)
              \/ \E e \in Asks(c) : /\ Takes(e) /\ e.id = creq'[c].num
                                    /\ creq[c].st = "none"
           /\ creq'[c].st \in Waiting => creq[c].st \in Waiting \cup {"none"}
           /\ c \in PlainReqs /\ creq[c].st = "freed" => creq'[c].st = "freed"
           /\ cws[c].sat = "freed" => cws'[c].sat = "freed"
           /\ creq[c].st # "none" /\ cws[c].sat \in Socket
                => cws'[c].sat \in Socket \cup {"freed"}
<1>1. c \in PlainReqs \/ c \in WsReqs
  BY DEF Reqs
<1>2. CASE GoesOn(c)
  <2>1. CASE c \in PlainReqs
    BY <1>2, <2>1 DEF GoesOn, DP!Goes, DP!RequestGoes, Waiting, Begins,
                      DP!RequestBegins
  <2>2. CASE c \in WsReqs
    <3>1. DP!SessionGoes(c) /\ c \notin PlainReqs
      BY <1>2, <2>2, AttemptsAssumption DEF GoesOn, DP!Goes
    <3>2. /\ creq[c].st # "none" /\ creq'[c].st # "none"
          /\ creq'[c].num = creq[c].num
          /\ creq'[c].st \in Waiting => creq[c].st \in Waiting
      BY <3>1 DEF DP!SessionGoes, Waiting
    <3>3. /\ cws[c].sat = "freed" => cws'[c].sat = "freed"
          /\ cws[c].sat \in Socket => cws'[c].sat \in Socket \cup {"freed"}
      BY <3>1 DEF DP!SessionGoes, DP!Linked, Socket
    <3>4. ~Begins(c)
      BY <2>2, <3>2 DEF Begins, DP!SessionBegins
    <3> QED
      BY <3>1, <3>2, <3>3, <3>4
  <2> QED
    BY <1>1, <2>1, <2>2
<1>3. CASE Begins(c)
  <2>1. CASE c \in PlainReqs
    BY <1>3, <2>1 DEF Begins, DP!RequestBegins, Waiting
  <2>2. CASE c \in WsReqs
    BY <1>3, <2>2 DEF Begins, DP!SessionBegins, Waiting
  <2> QED
    BY <1>1, <2>1, <2>2
<1>4. CASE Quits(c)
  BY <1>4 DEF Quits, DP!RequestQuits, Waiting, Begins, DP!RequestBegins
<1> QED
  BY <1>2, <1>3, <1>4 DEF Moves

\* What is planned of it.
LEMMA AttemptSays ==
    ASSUME DP!IInv, NEW c \in Reqs, Moves(c), NEW tag, DP!Says(c, tag)
    PROVE  /\ tag = "receive" <=> c \in PlainReqs
           /\ tag = "receive" => /\ creq'[c].st = "freed"
                                 /\ creq[c].st \in {"none", "addr", "ripe"}
           /\ tag = "accept" => cws'[c].sat \in Socket
           /\ tag \in End => cws'[c].sat = "freed"
<1>1. ~DP!Silent /\ \A t : DP!Says(c, t) => t = tag
  BY SaysOnce
<1>2. CASE c \in PlainReqs
  <2>1. /\ DP!Says(c, "receive") /\ creq'[c].st = "freed"
        /\ creq[c].st \in {"none", "addr", "ripe"}
    BY <1>1, <1>2 DEF Moves, GoesOn, Begins, Quits, DP!Goes, DP!RequestGoes,
                      DP!RequestBegins, DP!RequestQuits
  <2> QED
    BY <1>1, <1>2, <2>1 DEF End
<1>3. CASE c \in WsReqs
  <2>1. c \notin PlainReqs
    BY <1>3, AttemptsAssumption
  <2>2. \/ DP!Says(c, "message")
        \/ DP!Says(c, "accept") /\ cws'[c].sat = "open"
        \/ /\ DP!Says(c, "reject") \/ DP!Says(c, "disconnect")
           /\ cws'[c].sat = "freed"
    BY <1>1, <1>3, <2>1 DEF Moves, GoesOn, Begins, Quits, DP!Goes,
                            DP!SessionGoes, DP!SessionBegins
  <2> QED
    BY <1>1, <2>1, <2>2 DEF End, Socket
<1> QED
  BY <1>2, <1>3 DEF Reqs

LEMMA OvumFields ==
    ASSUME NEW o \in DP!Ovum
    PROVE  o.tag # "born" /\ o # Born /\ o.req \in Reqs /\ o.id \in Ids
BY DEF DP!Ovum, DP!Tags, Born, Reqs, DP!Reqs, Ids, DP!Ids

\* The queue of events.
LEMMA EventsMove ==
    ASSUME DP!IInv, TypesOK, NEW c \in Reqs, Moves(c)
    PROVE  /\ ova' \in Seq(DP!Ovum \cup {Born})
           /\ \A i \in DOMAIN ova' : ova'[i].tag = "born" => i \in DOMAIN ova
                                                        /\ ova'[i] = ova[i]
           /\ \/ DP!Silent /\ ova' = ova
              \/ \E o \in DP!Ovum : /\ DP!Says(c, o.tag)
                                    /\ o.req = c /\ o.id = creq'[c].num
                                    /\ In(ova') = In(ova) \cup {o}
                                    /\ \A X : /\ Once(ova, X)
                                              /\ o \notin X \/ In(ova) \cap X = {}
                                              => Once(ova', X)
<1>1. ova \in Seq(DP!Ovum \cup {Born})
  BY DEF TypesOK
<1>2. ASSUME NEW tag, DP!Says(c, tag),
             ova' = Append(ova, [tag |-> tag, req |-> c, id |-> creq'[c].num])
      PROVE  /\ ova' \in Seq(DP!Ovum \cup {Born})
             /\ \A i \in DOMAIN ova' : ova'[i].tag = "born" => i \in DOMAIN ova
                                                          /\ ova'[i] = ova[i]
             /\ \E o \in DP!Ovum : /\ DP!Says(c, o.tag)
                                   /\ o.req = c /\ o.id = creq'[c].num
                                   /\ In(ova') = In(ova) \cup {o}
                                   /\ \A X : /\ Once(ova, X)
                                             /\ o \notin X \/ In(ova) \cap X = {}
                                             => Once(ova', X)
  <2> DEFINE o == [tag |-> tag, req |-> c, id |-> creq'[c].num]
             S == DP!Ovum \cup {Born}
  <2>1. o \in DP!Ovum
    <3>1. out' \subseteq DP!Ovum
      BY DEF Moves, DP!IInv, DP!TypeOK
    <3> QED
      BY <1>2, <3>1 DEF DP!Says
  <2>2. o.tag = tag /\ o.req = c /\ o.id = creq'[c].num
    OBVIOUS
  <2>3. ova' = Append(ova, o) /\ ova \in Seq(S) /\ o \in S
    BY <1>1, <1>2, <2>1
  <2> HIDE DEF o, S
  <2>4. ova' \in Seq(S) /\ In(ova') = In(ova) \cup {o}
    BY <2>3, InAppend
  <2>5. \A i \in DOMAIN ova' : \/ i \in DOMAIN ova /\ ova'[i] = ova[i]
                               \/ ova'[i] = o
    BY <2>3
  <2>6. \A i \in DOMAIN ova' : ova'[i].tag = "born" => i \in DOMAIN ova
                                                     /\ ova'[i] = ova[i]
    BY <2>1, <2>5, OvumFields
  <2>7. ASSUME NEW X, Once(ova, X), o \notin X \/ In(ova) \cap X = {}
        PROVE  Once(ova', X)
    <3>1. ova' = ova \o <<o>> /\ <<o>> \in Seq(S) /\ In(<<o>>) = {o}
      BY <2>3, AppendJoins, InOne
    <3>2. In(ova) \cap X = {} \/ In(<<o>>) \cap X = {}
      BY <2>7, <3>1
    <3>3. Once(<<o>>, X)
      BY OnceOne
    <3>4. Once(ova \o <<o>>, X)
      BY <2>3, <2>7, <3>1, <3>2, <3>3, OnceConcat
    <3> QED
      BY <3>1, <3>4
  <2> QED
    BY <1>2, <2>1, <2>2, <2>4, <2>6, <2>7 DEF S
<1> QED
  BY <1>1, <1>2 DEF Moves, Hears

\* What a step of the driver leaves of what is planned, asked and used.
LEMMA DrivenKeeps ==
    ASSUME DP!IInv, TypesOK, AskedInv, NEW c \in Reqs, Moves(c) \/ Ignores
    PROVE  /\ KernelStays
           /\ In(ova) \subseteq In(ova')
           /\ \A o \in In(ova') : o \in In(ova) \/ o \in DP!Ovum
           /\ \A tags, d : Told(tags, d) => Told(tags, d)'
           /\ \A d, id : Answered(d, id) => Answered(d, id)'
           /\ \A d, id : AskedAs(d, id)' => AskedAs(d, id)
           /\ \A d : Asked(d)' => Asked(d)
           /\ \A id : Cancelled(id)' => Cancelled(id)
<1>1. KernelStays
  BY DEF Moves, Ignores
<1>2. In(ova) \subseteq In(ova') /\ \A o \in In(ova') : o \in In(ova) \/ o \in DP!Ovum
  BY EventsMove DEF Ignores
<1>3. In(eff') \subseteq In(eff)
  BY EffectsMove
<1>4. /\ \A tags, d : Told(tags, d) => Told(tags, d)'
      /\ \A d, id : Answered(d, id) => Answered(d, id)'
  BY <1>2 DEF Told, Answered
<1>5. /\ \A d, id : AskedAs(d, id)' => AskedAs(d, id)
      /\ \A d : Asked(d)' => Asked(d)
      /\ \A id : Cancelled(id)' => Cancelled(id)
  BY <1>3 DEF AskedAs, Asked, Cancelled
<1> QED
  BY <1>1, <1>2, <1>4, <1>5

LEMMA TypesDriven ==
    ASSUME DP!IInv, TypesOK, AskedInv, NEW c \in Reqs, Moves(c) \/ Ignores
    PROVE  TypesOK'
<1>1. KernelStays /\ eff' \in Seq(DP!Effects)
  BY DrivenKeeps, EffectsMove
<1>2. ova' \in Seq(DP!Ovum \cup {Born})
  BY EventsMove DEF Ignores, TypesOK
<1> QED
  BY <1>1, <1>2 DEF TypesOK, KernelStays

LEMMA QueueDriven ==
    ASSUME DP!IInv, TypesOK, AskedInv, QueueInv, NEW c \in Reqs,
           Moves(c) \/ Ignores
    PROVE  QueueInv'
<1>1. CASE Ignores
  BY <1>1 DEF Ignores, KernelStays, QueueInv, EventOK, Once, Answers, In
<1>2. CASE Moves(c)
  <2>1. outbound' = outbound /\ In(ova) \subseteq In(ova')
    BY DrivenKeeps DEF KernelStays
  <2>2. \A i \in DOMAIN ova' : ova'[i].tag = "born" => i = 1
    BY <1>2, EventsMove DEF QueueInv
  <2>3. ASSUME NEW o \in In(ova), o # Born PROVE EventOK(o)'
    <3>1. EventOK(o)
      BY <2>3 DEF QueueInv
    <3>2. o \in DP!Ovum
      BY <2>3 DEF TypesOK, In
    <3>3. o.req \in Reqs
      BY <3>2, OvumFields
    <3>4. CASE o.req # c
      <4>1. creq'[o.req] = creq[o.req] /\ cws'[o.req] = cws[o.req]
        BY <1>2, <3>3, <3>4, Untouched DEF Moves
      <4> QED
        BY <3>1, <4>1 DEF EventOK
    <3>5. CASE o.req = c
      <4>1. /\ creq'[c].st # "none" /\ creq'[c].num = creq[c].num
            /\ c \in PlainReqs /\ creq[c].st = "freed" => creq'[c].st = "freed"
            /\ cws[c].sat = "freed" => cws'[c].sat = "freed"
            /\ cws[c].sat \in Socket => cws'[c].sat \in Socket \cup {"freed"}
        BY <1>2, <3>1, <3>5, AttemptMoves DEF EventOK
      <4> QED
        BY <3>1, <3>5, <4>1 DEF EventOK, Socket
    <3> QED
      BY <3>4, <3>5
  <2>4. ASSUME NEW o \in DP!Ovum, DP!Says(c, o.tag), o.req = c,
               o.id = creq'[c].num
        PROVE  EventOK(o)'
    <3>1. creq'[c].st # "none"
      BY <1>2, AttemptMoves
    <3>2. /\ o.tag = "receive" <=> c \in PlainReqs
          /\ o.tag = "receive" => creq'[c].st = "freed"
          /\ o.tag = "accept" => cws'[c].sat \in Socket
          /\ o.tag \in End => cws'[c].sat = "freed"
      BY <1>2, <2>4, AttemptSays
    <3> QED
      BY <2>4, <3>1, <3>2 DEF EventOK
  <2>5. \A o \in In(ova') : o # Born => EventOK(o)'
    BY <1>2, <2>3, <2>4, EventsMove
  <2>6. ASSUME NEW d \in PlainReqs PROVE Once(ova', Answers(d))
    <3>1. Once(ova, Answers(d))
      BY DEF QueueInv
    <3>2. ASSUME NEW o \in DP!Ovum, DP!Says(c, o.tag), o.req = c, o \in Answers(d)
          PROVE  In(ova) \cap Answers(d) = {}
      <4>1. o.tag = "receive" /\ d = c
        BY <3>2 DEF Answers
      <4>2. creq[c].st # "freed"
        BY <1>2, <3>2, <4>1, AttemptSays
      <4>3. ASSUME NEW p \in In(ova), p \in Answers(d) PROVE FALSE
        <5>1. p # Born /\ p.tag = "receive" /\ p.req = c
          BY <4>1, <4>3, OvumFields DEF Answers
        <5> QED
          BY <4>2, <4>3, <5>1 DEF QueueInv, EventOK
      <4> QED
        BY <4>3
    <3> QED
      BY <1>2, <3>1, <3>2, EventsMove
  <2> QED
    BY <2>1, <2>2, <2>5, <2>6 DEF QueueInv
<1> QED
  BY <1>1, <1>2

LEMMA AskedDriven ==
    ASSUME DP!IInv, TypesOK, AskedInv, NEW c \in Reqs, Moves(c) \/ Ignores
    PROVE  AskedInv'
<1>1. KernelStays
  BY DrivenKeeps
<1>2. ASSUME NEW d \in Reqs PROVE Once(eff', Asks(d))
  BY EffectsMove DEF AskedInv
<1>3. ASSUME NEW d \in Reqs \ asked PROVE creq'[d].st = "none"
  <2>1. creq[d].st = "none" /\ ~Asked(d)
    BY DEF AskedInv
  <2>2. CASE Ignores \/ d # c
    BY <2>1, <2>2, Untouched DEF Ignores, Moves
  <2>3. CASE Moves(c) /\ d = c
    <3>1. PICK e \in Asks(c) : Takes(e)
      BY <2>1, <2>3, AttemptMoves
    <3>2. e \in In(eff)
      BY <3>1, EffectsTaken
    <3> QED
      BY <2>1, <2>3, <3>2 DEF Asked
  <2> QED
    BY <2>2, <2>3
<1>4. ASSUME NEW d \in Reqs, Asked(d)'
      PROVE  d \in asked /\ creq'[d].st = "none"
  <2>1. Asked(d) /\ d \in asked /\ creq[d].st = "none"
    BY <1>4, DrivenKeeps DEF AskedInv
  <2>2. CASE Ignores \/ d # c
    BY <2>1, <2>2, Untouched DEF Ignores, Moves
  <2>3. CASE Moves(c) /\ d = c
    <3>1. PICK e \in Asks(c) : Takes(e)
      BY <2>1, <2>3, AttemptMoves
    <3>2. In(eff') \cap Asks(c) = {}
      BY <3>1, EffectsTaken DEF AskedInv
    <3> QED
      BY <1>4, <2>3, <3>2 DEF Asked, Asks
  <2> QED
    BY <2>1, <2>2, <2>3
<1> QED
  BY <1>1, <1>2, <1>3, <1>4 DEF AskedInv, KernelStays

\* An attempt that moves is in use under its number already, and one that may
\* be answered afterwards might have been before.
LEMMA UsesDriven ==
    ASSUME DP!IInv, TypesOK, AskedInv, NEW c \in Reqs, Moves(c) \/ Ignores
    PROVE  /\ \A d \in Reqs : \A id : Uses(d, id)' => Uses(d, id)
           /\ \A d \in Reqs : \A id : Busy(d, id)' => Busy(d, id)
<1>1. CASE Ignores
  <2>1. \A d, id : AskedAs(d, id)' => AskedAs(d, id)
    BY <1>1, DrivenKeeps
  <2> QED
    BY <1>1, <2>1 DEF Ignores, Uses, Busy, Answered
<1>2. ASSUME Moves(c), NEW d \in Reqs \ {c}, NEW id
      PROVE  /\ Uses(d, id)' => Uses(d, id)
             /\ Busy(d, id)' => Busy(d, id)
  <2>1. creq'[d] = creq[d] /\ (AskedAs(d, id)' => AskedAs(d, id))
    BY <1>2, Untouched, DrivenKeeps DEF Moves
  <2>2. Answered(d, id)' => Answered(d, id)
    <3>1. \A o \in In(ova') : o \in In(ova) \/ o.req = c
      BY <1>2, EventsMove
    <3> QED
      BY <1>2, <3>1 DEF Answered, Answers
  <2> QED
    BY <2>1, <2>2 DEF Uses, Busy
<1>3. ASSUME Moves(c), NEW id
      PROVE  /\ Uses(c, id)' => Uses(c, id)
             /\ Busy(c, id)' => Busy(c, id)
  <2>1. \/ creq[c].st # "none" /\ creq'[c].num = creq[c].num
        \/ creq[c].st = "none" /\ AskedAs(c, creq'[c].num)
    <3>1. ASSUME NEW e \in Asks(c), Takes(e), e.id = creq'[c].num
          PROVE  AskedAs(c, creq'[c].num)
      BY <3>1, EffectsTaken DEF AskedAs
    <3> QED
      BY <1>3, <3>1, AttemptMoves
  <2>2. AskedAs(c, id)' => AskedAs(c, id)
    BY <1>3, DrivenKeeps
  <2>3. Uses(c, id)' => Uses(c, id)
    BY <2>1, <2>2 DEF Uses
  <2>4. creq'[c].st \in Waiting /\ creq'[c].num = id => Busy(c, id)
    <3>1. creq'[c].st \in Waiting => creq[c].st \in Waiting \cup {"none"}
      BY <1>3, AttemptMoves
    <3> QED
      BY <2>1, <3>1 DEF Busy, Waiting
  <2>5. Answered(c, id)' => Busy(c, id)
    <3>1. ASSUME NEW o \in DP!Ovum, DP!Says(c, o.tag), o.tag = "receive",
                 creq'[c].num = id
          PROVE  Busy(c, id)
      <4>1. creq[c].st \in {"none", "addr", "ripe"}
        BY <1>3, <3>1, AttemptSays
      <4> QED
        BY <2>1, <3>1, <4>1 DEF Busy, Waiting
    <3>2. ASSUME NEW o \in In(ova'), o \in Answers(c), o.id = id
          PROVE  Busy(c, id)
      <4>1. \/ o \in In(ova)
            \/ o \in DP!Ovum /\ DP!Says(c, o.tag) /\ o.id = creq'[c].num
        BY <1>3, <3>2, EventsMove
      <4> QED
        BY <3>1, <3>2, <4>1 DEF Busy, Answered, Answers
    <3> QED
      BY <3>2 DEF Answered
  <2> QED
    BY <2>2, <2>3, <2>4, <2>5 DEF Busy
<1> QED
  BY <1>1, <1>2, <1>3

LEMMA FreshDriven ==
    ASSUME DP!IInv, TypesOK, AskedInv, Fresh, NEW c \in Reqs,
           Moves(c) \/ Ignores
    PROVE  Fresh'
<1> SUFFICES ASSUME Born \in In(ova') PROVE FALSE
  BY DEF Fresh
<1>1. Born \in In(ova)
  BY DrivenKeeps, OvumFields
<1>2. eff = <<>> /\ creq[c].st = "none"
  BY <1>1 DEF Fresh
<1> QED
  BY <1>2, AttemptMoves DEF Ignores, Takes

\* Under its number a request that is cancelled was told to be.
LEMMA QuitDriven ==
    ASSUME DP!IInv, TypesOK, NEW c \in PlainReqs, Moves(c)
    PROVE  /\ creq'[c].st = "quit" /\ creq[c].st # "quit" => Quits(c)
           /\ creq'[c].st = "quit" => creq'[c].num = creq[c].num
           /\ Quits(c) => /\ creq[c].num \in Ids /\ Cancelled(creq[c].num)
                          /\ Once(eff, CancelsOf(creq[c].num))
                               => ~Cancelled(creq[c].num)'
<1>1. /\ creq'[c].st = "quit" /\ creq[c].st # "quit" => Quits(c)
      /\ creq'[c].st = "quit" => creq'[c].num = creq[c].num
  BY AttemptsAssumption DEF Moves, GoesOn, Begins, Quits, DP!Goes,
     DP!RequestGoes, DP!RequestBegins, DP!RequestQuits
<1>2. ASSUME Quits(c)
      PROVE  /\ creq[c].num \in Ids /\ Cancelled(creq[c].num)
             /\ Once(eff, CancelsOf(creq[c].num)) => ~Cancelled(creq[c].num)'
  <2> DEFINE n == creq[c].num
  <2>1. PICK e \in CancelsOf(n) : Takes(e)
    BY <1>2 DEF Quits
  <2>2. e \in In(eff) /\ (Once(eff, CancelsOf(n)) => In(eff') \cap CancelsOf(n) = {})
    BY <2>1, EffectsTaken
  <2>3. n \in Ids
    BY DEF DP!IInv, DP!TypeOK, DP!CReq, Reqs, DP!Reqs, Ids, DP!Ids
  <2>4. n' = n
    BY <1>2 DEF Quits, DP!RequestQuits
  <2> HIDE DEF n
  <2>5. Cancelled(n) /\ (Once(eff, CancelsOf(n)) => ~Cancelled(n)')
    BY <2>1, <2>2, <2>4 DEF Cancelled, CancelsOf
  <2> QED
    BY <2>3, <2>4, <2>5 DEF n
<1> QED
  BY <1>1, <1>2

LEMMA CancelledDriven ==
    ASSUME DP!IInv, TypesOK, AskedInv, CancelledOnce, NEW c \in Reqs,
           Moves(c) \/ Ignores
    PROVE  CancelledOnce'
<1>1. /\ KernelStays
      /\ \A id : Cancelled(id)' => Cancelled(id)
      /\ \A X : Once(eff, X) => Once(eff', X)
  BY DrivenKeeps, EffectsMove
<1>2. \A id \in Ids : /\ Once(eff', CancelsOf(id))
                      /\ Cancelled(id)' =>
                           id \notin DOMAIN conn \cup DOMAIN sockets
  BY <1>1 DEF CancelledOnce
<1>3. ASSUME NEW d \in PlainReqs, creq'[d].st = "quit"
      PROVE  creq'[d].num \notin DOMAIN conn /\ ~Cancelled(creq[d].num)'
  <2>1. CASE creq[d].st = "quit" /\ creq'[d].num = creq[d].num
    <3>1. PICK n : n = creq'[d].num
      OBVIOUS
    <3>2. n \notin DOMAIN conn /\ ~Cancelled(n)
      BY <2>1, <3>1 DEF CancelledOnce
    <3>3. ~Cancelled(n)'
      BY <1>1, <3>2
    <3> QED
      BY <3>1, <3>2, <3>3 DEF Cancelled
  <2>2. CASE Moves(c) /\ d = c /\ Quits(c)
    <3>1. /\ creq[c].num \in Ids /\ Cancelled(creq[c].num)
          /\ Once(eff, CancelsOf(creq[c].num)) => ~Cancelled(creq[c].num)'
          /\ creq'[c].num = creq[c].num
      BY <1>3, <2>2, QuitDriven
    <3> QED
      BY <2>2, <3>1 DEF CancelledOnce
  <2>3. CASE Ignores \/ d # c
    BY <1>3, <2>1, <2>3, Untouched DEF Ignores, Moves, Reqs
  <2>4. CASE Moves(c) /\ d = c
    BY <1>3, <2>1, <2>2, <2>4, QuitDriven
  <2> QED
    BY <2>3, <2>4
<1> QED
  BY <1>1, <1>2, <1>3 DEF CancelledOnce, KernelStays

LEMMA CallbackDriven ==
    ASSUME DP!IInv, TypesOK, CallbackOwed, CancelledOnce, NEW c \in Reqs,
           Moves(c) \/ Ignores
    PROVE  CallbackOwed'
<1>1. CASE Ignores
  BY <1>1 DEF Ignores, CallbackOwed
<1>2. CASE Moves(c)
  <2>1. ASSUME NEW d \in PlainReqs, d # c
        PROVE  net'[d] = net[d] /\ creq'[d] = creq[d]
    BY <1>2, <2>1, Untouched DEF Moves, Reqs
  <2>2. ASSUME c \in PlainReqs
        PROVE  /\ net'[c] = "addr" <=> creq'[c].st \in {"addr", "quit"}
               /\ net'[c] \in {"connect", "head", "body"} <=> creq'[c].st = "ripe"
    <3>1. /\ net[c] = "addr" <=> creq[c].st \in {"addr", "quit"}
          /\ net[c] \in {"connect", "head", "body"} <=> creq[c].st = "ripe"
      BY <2>2 DEF CallbackOwed
    <3>2. CASE GoesOn(c)
      BY <2>2, <3>1, <3>2 DEF GoesOn, DP!Goes, DP!RequestGoes
    <3>3. CASE Begins(c)
      BY <2>2, <3>1, <3>3 DEF Begins, DP!RequestBegins
    <3>4. CASE Quits(c)
      <4>1. creq[c].st # "quit"
        BY <1>2, <2>2, <3>4, QuitDriven DEF CancelledOnce
      <4> QED
        BY <3>1, <3>4, <4>1 DEF Quits, DP!RequestQuits
    <3> QED
      BY <1>2, <3>2, <3>3, <3>4 DEF Moves
  <2> QED
    BY <2>1, <2>2 DEF CallbackOwed
<1> QED
  BY <1>1, <1>2

LEMMA FirstDriven ==
    ASSUME DP!IInv, TypesOK, AskedInv, FirstInv, NEW c \in Reqs,
           Moves(c) \/ Ignores
    PROVE  FirstInv'
<1>1. Fresh' /\ CancelledOnce' /\ CallbackOwed'
  BY FreshDriven, CancelledDriven, CallbackDriven DEF FirstInv
<1>2. /\ KernelStays
      /\ \A d \in Reqs : \A id : Uses(d, id)' => Uses(d, id)
      /\ \A d \in Reqs : \A id : Busy(d, id)' => Busy(d, id)
      /\ \A id : Cancelled(id)' => Cancelled(id)
  BY DrivenKeeps, UsesDriven
<1>3. Numbers'
  BY <1>2 DEF FirstInv, Numbers, KernelStays
<1>4. Owned'
  BY <1>2 DEF FirstInv, Owned, KernelStays
<1> QED
  BY <1>1, <1>3, <1>4 DEF FirstInv

LEMMA SocketDriven ==
    ASSUME DP!IInv, TypesOK, AskedInv, NEW c \in Reqs, Moves(c) \/ Ignores,
           NEW id \in DOMAIN sockets, SocketOK(id)
    PROVE  SocketOK(id)'
<1>0. PICK s : s = sockets[id].req
  OBVIOUS
<1>1. /\ sockets' = sockets /\ s \in WsReqs /\ sockets'[id].req = s
      /\ \A tags, d : Told(tags, d) => Told(tags, d)'
  BY <1>0, DrivenKeeps DEF KernelStays, TypesOK
<1>2. SUFFICES ASSUME ~Told(End, s) PROVE SocketOK(id)'
  <2>1. Told(End, s) => Told(End, s)'
    BY <1>1
  <2> QED
    BY <1>0, <1>1, <1>2, <2>1 DEF SocketOK, Told
<1>3. CASE Ignores \/ s # c
  <2>1. cws'[s] = cws[s]
    BY <1>1, <1>3, Untouched DEF Ignores, Moves, Reqs
  <2>2. AskedAs(s, id) => AskedAs(s, id)'
    <3>1. \A e \in In(eff) : e \in Asks(s) => e \in In(eff')
      <4>1. \/ \A e \in In(eff) : e.tag \in Asking => e \in In(eff')
            \/ /\ Moves(c) /\ \A e \in In(eff) : e \in In(eff') \/ e \in Asks(c)
               /\ Moves(c) /\ Begins(c)
        BY EffectsMove
      <4>2. ASSUME Begins(c) PROVE c # s \/ ~Ignores
        <5>1. ASSUME NEW e \in Asks(c), Takes(e), NEW f, Takes(f),
                     f.tag \notin Asking
              PROVE  FALSE
          BY <5>1 DEF Takes, Asks
        <5> QED
          BY <4>2, <5>1 DEF Begins, Ignores
      <4>3. CASE \A e \in In(eff) : e.tag \in Asking => e \in In(eff')
        BY <4>3 DEF Asks
      <4>4. CASE /\ c # s
                 /\ \A e \in In(eff) : e \in In(eff') \/ e \in Asks(c)
        BY <4>4 DEF Asks
      <4> QED
        BY <1>3, <4>1, <4>2, <4>3, <4>4
    <3> QED
      BY <3>1 DEF AskedAs
  <2>3. Told({"accept"}, s) => Told({"accept"}, s)'
    BY <1>1
  <2> QED
    BY <1>0, <1>1, <1>2, <2>1, <2>2, <2>3 DEF SocketOK, Told, AskedAs
<1>4. CASE Moves(c) /\ s = c
  <2>1. c \in WsReqs /\ c \notin PlainReqs
    BY <1>0, <1>1, <1>4, AttemptsAssumption
  <2>2. ASSUME NEW tag, DP!Says(c, tag) PROVE Told({tag}, c)'
    BY <1>4, <2>2, EventsMove, SaysOnce DEF Told
  <2>3. ASSUME NEW tag \in End, DP!Says(c, tag) PROVE SocketOK(id)'
    BY <1>0, <1>1, <1>4, <2>2, <2>3 DEF SocketOK, Told
  <2>4. CASE GoesOn(c)
    <3>1. DP!SessionGoes(c)
      BY <2>1, <2>4 DEF GoesOn, DP!Goes
    <3>2. ~AskedAs(c, id)
      BY <3>1 DEF DP!SessionGoes, AskedInv, AskedAs, Asked
    <3>3. \/ sockets[id].status = "pending" /\ cws[c].sat = "pending"
          \/ /\ sockets[id].status = "pending"
             /\ Told({"accept"}, c) /\ cws[c].sat \in Socket
          \/ sockets[id].status = "accepted" /\ cws[c].sat \in Socket
      BY <1>0, <1>2, <1>4, <3>2 DEF SocketOK
    <3>4. CASE cws'[c].sat = cws[c].sat
      BY <1>0, <1>1, <1>4, <3>3, <3>4 DEF SocketOK
    <3>5. CASE /\ cws[c].sat = "pending" /\ cws'[c].sat = "open"
               /\ DP!Says(c, "accept")
      <4>1. Told({"accept"}, c)' /\ sockets[id].status = "pending"
        BY <2>2, <3>3, <3>5 DEF Socket
      <4> QED
        BY <1>0, <1>1, <1>4, <3>5, <4>1 DEF SocketOK, Socket
    <3>6. CASE cws[c].sat = "open" /\ cws'[c].sat = "closing"
      <4>1. \/ sockets[id].status = "accepted"
            \/ sockets[id].status = "pending" /\ Told({"accept"}, c)'
        BY <1>0, <1>1, <3>3, <3>6 DEF Socket
      <4> QED
        BY <1>0, <1>1, <1>4, <3>6, <4>1 DEF SocketOK, Socket
    <3> QED
      BY <2>3, <3>1, <3>4, <3>5, <3>6 DEF DP!SessionGoes, End
  <2>5. CASE Begins(c)
    <3>1. PICK e \in Asks(c) : DP!SessionBegins(c, e.id)
      BY <2>1, <2>5 DEF Begins
    <3>2. sockets[id].status = "pending"
      BY <1>0, <1>2, <1>4, <3>1 DEF SocketOK, DP!SessionBegins, Socket
    <3> QED
      BY <1>0, <1>1, <1>4, <2>3, <3>1, <3>2 DEF DP!SessionBegins, End, SocketOK
  <2> QED
    BY <1>4, <2>1, <2>4, <2>5 DEF Moves, Quits
<1> QED
  BY <1>3, <1>4

LEMMA ListedDriven ==
    ASSUME DP!IInv, TypesOK, AskedInv, Listed, NEW c \in Reqs,
           Moves(c) \/ Ignores
    PROVE  Listed'
<1>1. KernelStays /\ \A d : Asked(d)' => Asked(d)
  BY DrivenKeeps
<1>2. ASSUME NEW d \in WsReqs, cws'[d].sat \in {"pending"} \cup Socket
      PROVE  Asked(d) \/ cws[d].sat \in {"pending"} \cup Socket
  <2>1. CASE Ignores \/ d # c
    BY <1>2, <2>1, Untouched DEF Ignores, Moves, Reqs
  <2>2. CASE Moves(c) /\ d = c
    <3>1. d \notin PlainReqs
      BY AttemptsAssumption
    <3>2. CASE GoesOn(c)
      BY <1>2, <2>2, <3>2 DEF GoesOn, DP!Goes, DP!SessionGoes, Socket
    <3>3. CASE Begins(c)
      <4>1. Asked(c)
        <5>1. ASSUME NEW e \in Asks(c), Takes(e) PROVE Asked(c)
          BY <5>1, EffectsTaken DEF Asked
        <5> QED
          BY <3>3, <5>1 DEF Begins
      <4> QED
        BY <2>2, <4>1
    <3> QED
      BY <2>2, <3>1, <3>2, <3>3 DEF Moves, Quits
  <2> QED
    BY <2>1, <2>2
<1> QED
  BY <1>1, <1>2 DEF Listed, KernelStays

\* A request that was waited for is still, or was cancelled with the number
\* iris has forgotten.
LEMMA WaitedDriven ==
    ASSUME DP!IInv, TypesOK, AskedInv, NEW c \in Reqs, Moves(c) \/ Ignores,
           NEW id \in DOMAIN conn, Waited(id)
    PROVE  Waited(id)'
<1>0. PICK d : d = conn[id]
  OBVIOUS
<1>1. /\ conn' = conn /\ d \in PlainReqs /\ conn'[id] = d
      /\ d \in Reqs /\ d \notin WsReqs
      /\ \A j : Cancelled(j)' => Cancelled(j)
      /\ \A e, j : Answered(e, j) => Answered(e, j)'
  BY <1>0, DrivenKeeps, AttemptsAssumption DEF KernelStays, TypesOK, Reqs
<1> DEFINE x == Iris!Request(d, id)
<1>2. SUFFICES \/ Unfollowed(eff', x, CancelsOf(id))
               \/ Answered(d, id)'
               \/ /\ creq'[d].st \in {"addr", "ripe"} /\ creq'[d].num = id
                  /\ ~Cancelled(id)'
               \/ creq'[d].st = "dropped"
  <2> HIDE DEF x
  <2>1. CASE Unfollowed(eff', x, CancelsOf(id))
    <3>1. Waited(id)' <=>
             \/ Unfollowed(eff', Iris!Request(conn'[id], id), CancelsOf(id))
             \/ Answered(conn[id], id)'
             \/ /\ creq'[conn'[id]].st \in {"addr", "ripe"}
                /\ creq'[conn'[id]].num = id /\ ~Cancelled(id)'
             \/ creq'[conn'[id]].st = "dropped"
      BY DEF Waited
    <3> QED
      BY <1>1, <2>1, <3>1 DEF x
  <2>2. CASE Answered(d, id)'
    BY <1>0, <1>1, <2>2 DEF Waited, Answered
  <2>3. CASE \/ /\ creq'[d].st \in {"addr", "ripe"} /\ creq'[d].num = id
                /\ ~Cancelled(id)'
             \/ creq'[d].st = "dropped"
    BY <1>0, <1>1, <2>3 DEF Waited
  <2> QED
    BY <1>2, <2>1, <2>2, <2>3
<1>3. CASE Unfollowed(eff, x, CancelsOf(id))
  <2>1. ASSUME NEW e, Takes(e), e # x
        PROVE  Unfollowed(eff', x, CancelsOf(id))
    <3>1. eff \in Seq(DP!Effects) /\ eff # <<>> /\ eff' = Tail(eff)
          /\ Head(eff) # x
      BY <2>1 DEF TypesOK, Takes
    <3> HIDE DEF x
    <3> QED
      BY <1>3, <3>1, UnfollowedTail
  <2>2. ASSUME NEW e, Takes(e), e = x, x \in Asks(d)
        PROVE  ~Cancelled(id)'
    <3>1. eff \in Seq(DP!Effects) /\ eff # <<>> /\ eff' = Tail(eff)
          /\ Head(eff) = x
      BY <2>2 DEF TypesOK, Takes
    <3>2. Once(eff, Asks(d))
      BY <1>1 DEF AskedInv
    <3> HIDE DEF x
    <3>3. In(eff') \cap CancelsOf(id) = {}
      BY <1>3, <2>2, <3>1, <3>2, UnfollowedHead
    <3> QED
      BY <3>3 DEF Cancelled
  <2>3. x.tag \in Asking /\ x.req = d /\ x.id = id
    BY DEF Iris!Request, Asking
  <2> HIDE DEF x
  <2>4. CASE eff' = eff
    BY <1>3, <2>4
  <2>5. ASSUME NEW e, Takes(e), e.tag \notin Asking
        PROVE  Unfollowed(eff', x, CancelsOf(id))
    BY <2>1, <2>3, <2>5
  <2>6. ASSUME Moves(c), Begins(c)
        PROVE  \/ Unfollowed(eff', x, CancelsOf(id))
               \/ Answered(d, id)'
               \/ /\ creq'[d].st \in {"addr", "ripe"} /\ creq'[d].num = id
                  /\ ~Cancelled(id)'
               \/ creq'[d].st = "dropped"
    <3>1. PICK e \in Asks(c) : /\ Takes(e)
                               /\ c \in PlainReqs => DP!RequestBegins(c, e.id)
      BY <2>6 DEF Begins
    <3>2. CASE e # x
      BY <2>1, <3>1, <3>2
    <3>3. CASE e = x
      <4>1. c = d /\ DP!RequestBegins(d, id) /\ ~Cancelled(id)'
        BY <1>1, <2>2, <2>3, <3>1, <3>3 DEF Asks
      <4>2. DP!Says(d, "receive") => Answered(d, id)'
        <5>1. ASSUME DP!Says(d, "receive") PROVE Answered(d, id)'
          <6>1. \E o \in DP!Ovum : /\ DP!Says(c, o.tag) /\ o.req = c
                                   /\ o.id = creq'[c].num /\ o \in In(ova')
            BY <2>6, <4>1, <5>1, EventsMove, SaysOnce
          <6> QED
            BY <4>1, <5>1, <6>1, SaysOnce
            DEF Answered, Answers, DP!RequestBegins
        <5> QED
          BY <5>1
      <4> QED
        BY <4>1, <4>2 DEF DP!RequestBegins
    <3> QED
      BY <3>2, <3>3
  <2>7. ASSUME Quits(c) PROVE Unfollowed(eff', x, CancelsOf(id))
    <3>1. PICK e \in CancelsOf(creq[c].num) : Takes(e)
      BY <2>7 DEF Quits
    <3> QED
      BY <2>5, <3>1 DEF CancelsOf, Asking
  <2> QED
    BY <2>4, <2>5, <2>6, <2>7 DEF Moves, Ignores, GoesOn
<1>4. CASE Answered(d, id)
  BY <1>1, <1>4
<1>5. CASE \/ /\ creq[d].st \in {"addr", "ripe"} /\ creq[d].num = id
              /\ ~Cancelled(id)
           \/ creq[d].st = "dropped"
  <2> HIDE DEF x
  <2>1. CASE Ignores \/ d # c
    <3>1. creq'[d] = creq[d]
      BY <1>1, <2>1, Untouched DEF Ignores, Moves
    <3> QED
      BY <1>1, <1>5, <3>1
  <2>2. CASE Moves(c) /\ d = c
    <3>1. CASE GoesOn(c)
      <4>1. DP!RequestGoes(d)
        BY <1>1, <2>2, <3>1 DEF GoesOn, DP!Goes
      <4>2. ASSUME DP!Says(d, "receive"), creq'[d].num = id
            PROVE  Answered(d, id)'
        <5>1. \E o \in DP!Ovum : /\ DP!Says(c, o.tag) /\ o.req = c
                                 /\ o.id = creq'[c].num /\ o \in In(ova')
          BY <2>2, <4>2, EventsMove, SaysOnce
        <5> QED
          BY <2>2, <4>2, <5>1, SaysOnce DEF Answered, Answers
      <4> QED
        BY <1>1, <1>5, <4>1, <4>2 DEF DP!RequestGoes
    <3>2. ~Begins(c)
      BY <1>1, <1>5, <2>2 DEF Begins, DP!RequestBegins
    <3>3. ~Quits(c)
      <4>1. ASSUME Quits(c) PROVE FALSE
        <5>1. creq[d].st # "dropped" /\ Cancelled(creq[c].num)
          BY <1>1, <2>2, <4>1, QuitDriven DEF Quits, DP!RequestQuits
        <5> QED
          BY <1>5, <2>2, <5>1
      <4> QED
        BY <4>1
    <3> QED
      BY <2>2, <3>1, <3>2, <3>3 DEF Moves
  <2> QED
    BY <2>1, <2>2
<1>6. \/ Unfollowed(eff, x, CancelsOf(id))
      \/ Answered(d, id)
      \/ /\ creq[d].st \in {"addr", "ripe"} /\ creq[d].num = id
         /\ ~Cancelled(id)
      \/ creq[d].st = "dropped"
  BY <1>0 DEF Waited
<1> QED
  BY <1>3, <1>4, <1>5, <1>6

LEMMA DriverInductive ==
    ASSUME IInv, NEW c \in Reqs, Moves(c) \/ Ignores
    PROVE  IInv'
<1>1. DP!IInv /\ TypesOK /\ QueueInv /\ AskedInv
  BY DEF IInv
<1>2. DP!IInv' /\ KernelStays
  BY DEF Moves, Ignores
<1>3. TypesOK' /\ QueueInv' /\ AskedInv'
  BY <1>1, TypesDriven, QueueDriven, AskedDriven
<1>4. (restarts = 0 => FirstInv)'
  BY <1>1, <1>2, FirstDriven DEF IInv, KernelStays
<1>5. (restarts = 0 => \A id \in DOMAIN sockets : SocketOK(id))'
  BY <1>1, <1>2, SocketDriven DEF IInv, KernelStays
<1>6. (restarts = 0 /\ cancels = 0 => Listed)'
  BY <1>1, <1>2, ListedDriven DEF IInv, KernelStays
<1>7. (OwnCancels /\ Born \notin In(ova) => \A id \in DOMAIN conn : Waited(id))'
  <2>1. In(ova) \subseteq In(ova') /\ (OwnCancels' <=> OwnCancels)
    BY <1>1, <1>2, DrivenKeeps DEF KernelStays, OwnCancels, FirstProcess
  <2> QED
    BY <1>1, <1>2, <2>1, WaitedDriven DEF IInv, KernelStays
<1> QED
  BY <1>2, <1>3, <1>4, <1>5, <1>6, <1>7 DEF IInv

-----------------------------------------------------------------------------
(* What iris gives. *)

\* Of what is looked for among the effects only G is new, and it comes last.
Gives(G) ==
    /\ eff' \in Seq(DP!Effects)
    /\ \A c : Asked(c)' <=> Asked(c) \/ G \cap Asks(c) # {}
    /\ \A c, id : AskedAs(c, id)' <=>
                    AskedAs(c, id) \/ \E e \in G : e \in Asks(c) /\ e.id = id
    /\ \A id : Cancelled(id)' <=> Cancelled(id) \/ G \cap CancelsOf(id) # {}
    /\ \A c : Once(eff, Asks(c)) /\ (~Asked(c) \/ G \cap Asks(c) = {})
                => Once(eff', Asks(c))
    /\ \A id : Once(eff, CancelsOf(id)) /\ (~Cancelled(id) \/ G \cap CancelsOf(id) = {})
                 => Once(eff', CancelsOf(id))
    /\ \A x, id : Unfollowed(eff, x, CancelsOf(id)) /\ G \cap CancelsOf(id) = {}
                    => Unfollowed(eff', x, CancelsOf(id))
    /\ \A e \in G : \A id : Unfollowed(eff', e, CancelsOf(id))

LEMMA GivesNothing ==
    ASSUME TypesOK, eff' = eff
    PROVE  Gives({})
BY DEF Gives, TypesOK, Asked, AskedAs, Cancelled, Once

\* A gift the agents have no part in.
Chats == {e \in DP!Effects : e.tag \in {"message", "disconnect"}}

LEMMA GivesChats ==
    ASSUME TypesOK, NEW g \in Seq(Chats), eff' = eff \o g
    PROVE  Gives({})
<1>1. eff \in Seq(DP!Effects) /\ g \in Seq(DP!Effects)
  BY DEF TypesOK, Chats
<1>2. /\ eff' \in Seq(DP!Effects) /\ In(eff') = In(eff) \cup In(g)
  BY <1>1, InConcat
<1>3. In(g) \subseteq Chats
  BY DEF In
<1>4. /\ \A c : In(g) \cap Asks(c) = {}
      /\ \A id : In(g) \cap CancelsOf(id) = {}
  BY <1>3 DEF Chats, Asks, CancelsOf, Asking
<1>5. ASSUME NEW X, In(g) \cap X = {}
      PROVE  /\ Once(eff, X) => Once(eff', X)
             /\ \A x : Unfollowed(eff, x, X) => Unfollowed(eff', x, X)
  <2>1. Once(g, X)
    BY <1>5 DEF Once, In
  <2>2. Once(eff, X) => Once(eff', X)
    BY <1>1, <1>5, <2>1, OnceConcat
  <2>3. ASSUME NEW x, Unfollowed(eff, x, X) PROVE Unfollowed(eff', x, X)
    BY <1>1, <1>5, <2>3, UnfollowedConcat
  <2> QED
    BY <2>2, <2>3
<1>6. /\ \A c : Asked(c)' <=> Asked(c)
      /\ \A c, id : AskedAs(c, id)' <=> AskedAs(c, id)
      /\ \A id : Cancelled(id)' <=> Cancelled(id)
  BY <1>2, <1>4 DEF Asked, AskedAs, Cancelled
<1> QED
  BY <1>2, <1>4, <1>5, <1>6 DEF Gives

LEMMA GivesOne ==
    ASSUME TypesOK, NEW e \in DP!Effects, eff' = eff \o <<e>>
    PROVE  Gives({e})
<1>1. /\ eff \in Seq(DP!Effects) /\ <<e>> \in Seq(DP!Effects)
      /\ In(<<e>>) = {e}
  BY InOne DEF TypesOK
<1>2. /\ eff' \in Seq(DP!Effects) /\ In(eff') = In(eff) \cup {e}
  <2>1. /\ eff \o <<e>> \in Seq(DP!Effects)
        /\ In(eff \o <<e>>) = In(eff) \cup In(<<e>>)
    BY <1>1, InConcat
  <2> QED
    BY <1>1, <2>1
<1>3. ASSUME NEW X, Once(eff, X), In(eff) \cap X = {} \/ {e} \cap X = {}
      PROVE  Once(eff', X)
  <2>1. Once(<<e>>, X) /\ (In(eff) \cap X = {} \/ In(<<e>>) \cap X = {})
    BY <1>1, <1>3, OnceOne
  <2>2. Once(eff \o <<e>>, X)
    BY <1>1, <1>3, <2>1, OnceConcat
  <2> QED
    BY <2>2
<1>4. ASSUME NEW X, {e} \cap X = {}, NEW x, Unfollowed(eff, x, X)
      PROVE  Unfollowed(eff', x, X)
  <2>1. In(<<e>>) \cap X = {}
    BY <1>1, <1>4
  <2>2. Unfollowed(eff \o <<e>>, x, X)
    BY <1>1, <1>4, <2>1, UnfollowedConcat
  <2> QED
    BY <2>2
<1>5. \A X : Unfollowed(eff', e, X)
  BY <1>1, UnfollowedLast
<1>6. /\ \A c : ~Asked(c) => In(eff) \cap Asks(c) = {}
      /\ \A id : ~Cancelled(id) => In(eff) \cap CancelsOf(id) = {}
  BY DEF Asked, Cancelled
<1>7. /\ \A c : Asked(c)' <=> Asked(c) \/ {e} \cap Asks(c) # {}
      /\ \A c, id : AskedAs(c, id)' <=>
                      AskedAs(c, id) \/ \E f \in {e} : f \in Asks(c) /\ f.id = id
      /\ \A id : Cancelled(id)' <=> Cancelled(id) \/ {e} \cap CancelsOf(id) # {}
  BY <1>2 DEF Asked, AskedAs, Cancelled, Asks, CancelsOf
<1> QED
  BY <1>2, <1>3, <1>4, <1>5, <1>6, <1>7 DEF Gives

LEMMA GiftFields ==
    ASSUME NEW c \in Reqs, NEW id \in Ids
    PROVE  /\ c \in PlainReqs => Iris!Request(c, id) \in Asks(c)
           /\ c \in WsReqs => [tag |-> "websocket-handshake", req |-> c, id |-> id]
                                \in Asks(c)
           /\ Iris!Gift("cancel-request", id) \in CancelsOf(id)
           /\ \A tag \in {"message", "disconnect"} : Iris!Gift(tag, id) \in Chats
BY DEF Iris!Request, Iris!Gift, Asks, CancelsOf, Asking, Chats, DP!Effects,
       Ids, DP!Ids, Reqs

-----------------------------------------------------------------------------
(* Steps of the kernel. *)

Quiet == QuietDriver /\ restarts' = restarts

\* Event o is taken.
Taken(o) ==
    /\ o \in DP!Ovum /\ ova # <<>> /\ o = Head(ova) /\ ova' = Tail(ova)
    /\ UNCHANGED <<next_id, outbound, cancels>>

Births ==
    /\ ova # <<>> /\ Born = Head(ova) /\ ova' = Tail(ova)
    /\ conn' = Iris!Nothing /\ next_id' = 0 /\ outbound' = TRUE
    /\ UNCHANGED <<sockets, watch, asked, eff, cancels>>

Loses(o) ==
    /\ Taken(o) /\ Gives({})
    /\ o.tag = "receive" => o.id \notin DOMAIN conn
    /\ o.tag \in {"accept"} \cup End => o.id \notin DOMAIN sockets
    /\ UNCHANGED <<conn, sockets, watch, asked>>

Redirects(o, c) ==
    /\ Taken(o) /\ o.tag = "receive" /\ o.id \in DOMAIN conn
    /\ c \in PlainReqs \ asked
    /\ Gives({Iris!Request(c, o.id)})
    /\ conn' = Iris!Put(conn, o.id, c) /\ asked' = asked \cup {c}
    /\ UNCHANGED <<sockets, watch>>

Finishes(o) ==
    /\ Taken(o) /\ o.tag = "receive" /\ o.id \in DOMAIN conn
    /\ Gives({})
    /\ conn' = Iris!Del(conn, o.id)
    /\ UNCHANGED <<sockets, watch, asked>>

Accepts(o) ==
    /\ Taken(o) /\ o.tag = "accept" /\ o.id \in DOMAIN sockets
    /\ Gives({})
    /\ sockets' = [sockets EXCEPT ![o.id].status = "accepted"]
    /\ watch' \in {watch, watch \cup {<<restarts, o.id>>}}
    /\ UNCHANGED <<conn, asked>>

Ends(o) ==
    /\ Taken(o) /\ o.tag \in End /\ o.id \in DOMAIN sockets
    /\ Gives({})
    /\ sockets' = Iris!Del(sockets, o.id)
    /\ watch' = watch \ {<<restarts, o.id>>}
    /\ UNCHANGED <<conn, asked>>

\* An agent acts.
Acts == UNCHANGED <<ova, outbound>>

Requests(c) ==
    /\ Acts /\ c \in PlainReqs \ asked
    /\ next_id \in Ids /\ next_id' = next_id + 1
    /\ \/ outbound /\ Gives({Iris!Request(c, next_id)})
       \/ ~outbound /\ Gives({}) /\ eff' = eff
    /\ conn' = Iris!Put(conn, next_id, c) /\ asked' = asked \cup {c}
    /\ UNCHANGED <<sockets, watch, cancels>>

Connects(c) ==
    /\ Acts /\ c \in WsReqs \ asked /\ outbound
    /\ next_id \in Ids /\ next_id' = next_id + 1
    /\ Gives({[tag |-> "websocket-handshake", req |-> c, id |-> next_id]})
    /\ sockets' = Iris!Put(sockets, next_id, [req |-> c, status |-> "pending"])
    /\ asked' = asked \cup {c}
    /\ UNCHANGED <<conn, watch, cancels>>

CancelsRequest(id) ==
    /\ Acts /\ id \in DOMAIN conn
    /\ \/ outbound /\ Gives({Iris!Gift("cancel-request", id)})
       \/ ~outbound /\ Gives({}) /\ eff' = eff
    /\ conn' = Iris!Del(conn, id)
    /\ UNCHANGED <<sockets, next_id, watch, asked, cancels>>

CancelsSocket(id) ==
    /\ Acts /\ id \in DOMAIN sockets /\ outbound
    /\ Gives({Iris!Gift("cancel-request", id)})
    /\ sockets' = Iris!Del(sockets, id)
    /\ cancels' = cancels + 1
    /\ UNCHANGED <<conn, next_id, watch, asked>>

\* A kick or a fact of an agent that is subscribed to.
Talks ==
    /\ Acts /\ Gives({})
    /\ watch # {} /\ watch' \subseteq watch
    /\ UNCHANGED <<conn, sockets, next_id, asked, cancels>>

KernelMoves ==
    /\ Quiet
    /\ \/ Births
       \/ \E o : \/ Loses(o) \/ Finishes(o) \/ Accepts(o) \/ Ends(o)
                 \/ \E c : Redirects(o, c)
       \/ \E c : Requests(c) \/ Connects(c)
       \/ \E id : CancelsRequest(id) \/ CancelsSocket(id)
       \/ Talks

LEMMA QuietKeeps == ASSUME DP!IInv, Quiet PROVE DP!IInv'
BY DEF Quiet, QuietDriver, DP!IInv, DP!TypeOK, DP!AttemptOK

LEMMA ComputeMoves ==
    ASSUME TypesOK, Compute
    PROVE  KernelMoves
<1> DEFINE o == Head(ova)
<1>1. /\ ova # <<>> /\ ova' = Tail(ova) /\ Quiet /\ cancels' = cancels
      /\ \/ o.tag = "born" /\ Iris!born
         \/ o.tag = "receive" /\ Iris!receive(o.id)
         \/ o.tag \notin {"born", "receive"} /\ Iris!ws_event(restarts, o.id, o.tag)
  BY DEF Compute, Quiet
<1>2. o \in DP!Ovum \cup {Born} /\ o = Head(ova)
  BY <1>1, InTail DEF TypesOK
<1> HIDE DEF o
<1>3. /\ o = Born => o.tag = "born"
      /\ o \in DP!Ovum => o.tag # "born" /\ o.tag \in DP!Tags
  BY OvumFields DEF Born, DP!Ovum
<1>4. CASE o.tag = "born" /\ Iris!born
  <2>1. o = Born
    BY <1>2, <1>3, <1>4
  <2> QED
    BY <1>1, <1>2, <1>4, <2>1 DEF KernelMoves, Births, Iris!born
<1>5. CASE o.tag = "receive" /\ Iris!receive(o.id)
  <2>1. o \in DP!Ovum
    BY <1>2, <1>3, <1>5
  <2>2. o.id \in Ids
    BY <2>1, OvumFields
  <2>3. CASE o.id \notin DOMAIN conn /\ UNCHANGED Iris!irisVars
    <3>1. Taken(o) /\ Gives({})
      BY <1>1, <1>2, <2>1, <2>3, GivesNothing DEF Taken, Iris!irisVars
    <3>2. Loses(o)
      BY <1>5, <2>3, <3>1 DEF Loses, Iris!irisVars, End
    <3> QED
      BY <1>1, <3>2 DEF KernelMoves
  <2>4. ASSUME o.id \in DOMAIN conn, NEW c \in PlainReqs \ asked,
               conn' = Iris!Put(conn, o.id, c), asked' = asked \cup {c},
               Iris!Give(<<Iris!Request(c, o.id)>>),
               UNCHANGED <<sockets, next_id, outbound, watch>>
        PROVE  KernelMoves
    <3>1. Iris!Request(c, o.id) \in DP!Effects
      BY <2>2, <2>4, GiftFields DEF Reqs, Asks
    <3>2. Taken(o) /\ Gives({Iris!Request(c, o.id)})
      BY <1>1, <1>2, <2>1, <2>4, <3>1, GivesOne DEF Taken, Iris!Give
    <3>3. Redirects(o, c)
      BY <1>5, <2>4, <3>2 DEF Redirects
    <3> QED
      BY <1>1, <3>3 DEF KernelMoves
  <2>5. CASE /\ o.id \in DOMAIN conn /\ conn' = Iris!Del(conn, o.id)
             /\ UNCHANGED <<sockets, next_id, outbound, watch, asked, eff>>
    <3>1. Taken(o) /\ Gives({})
      BY <1>1, <1>2, <2>1, <2>5, GivesNothing DEF Taken
    <3>2. Finishes(o)
      BY <1>5, <2>5, <3>1 DEF Finishes
    <3> QED
      BY <1>1, <3>2 DEF KernelMoves
  <2> QED
    BY <1>5, <2>3, <2>4, <2>5 DEF Iris!receive
<1>6. CASE o.tag \notin {"born", "receive"} /\ Iris!ws_event(restarts, o.id, o.tag)
  <2>1. /\ o \in DP!Ovum
        /\ UNCHANGED <<conn, next_id, outbound, asked, eff>>
    BY <1>2, <1>3, <1>6 DEF Iris!ws_event, Iris!irisVars
  <2>2. Taken(o) /\ Gives({})
    BY <1>1, <1>2, <2>1, GivesNothing DEF Taken
  <2>3. \/ Loses(o) \/ Accepts(o) \/ Ends(o)
    BY <1>6, <2>1, <2>2
    DEF Iris!ws_event, Iris!irisVars, Iris!cleanup_ws, Loses, Accepts, Ends, End
  <2> QED
    BY <1>1, <2>3 DEF KernelMoves
<1> QED
  BY <1>1, <1>4, <1>5, <1>6

LEMMA FactGives ==
    ASSUME TypesOK, NEW id \in Ids, NEW tag \in {"message", "disconnect"},
           Iris!GiveEach(tag, id)
    PROVE  Gives({})
<1> DEFINE n == Cardinality(Iris!Subscribers(id))
           g == [i \in 1 .. n |-> Iris!Gift(tag, id)]
<1>1. IsFiniteSet(Iris!Subscribers(id))
  BY FS_Subset DEF TypesOK, Iris!Subscribers
<1>2. n \in Nat
  BY <1>1, FS_CardinalityType
<1>3. eff' = eff \o g
  BY DEF Iris!GiveEach, Iris!Give, Iris!Cardinality, Cardinality
<1> HIDE DEF n
<1>4. Iris!Gift(tag, id) \in Chats
  BY DEF Iris!Gift, Chats, DP!Effects, Ids, DP!Ids
<1>5. g \in Seq(Chats)
  BY <1>2, <1>4
<1> HIDE DEF g
<1> QED
  BY <1>3, <1>5, GivesChats

LEMMA AgentMoves ==
    ASSUME TypesOK, Agent \/ CancelWebsocket
    PROVE  KernelMoves
<1>1. Quiet /\ ova' = ova
  BY DEF Agent, CancelWebsocket, Quiet
<1>2. ASSUME NEW c \in Reqs, Iris!request(c), cancels' = cancels
      PROVE  KernelMoves
  <2>1. /\ c \in PlainReqs \ asked /\ next_id \in Ids /\ next_id' = next_id + 1
        /\ conn' = Iris!Put(conn, next_id, c) /\ asked' = asked \cup {c}
        /\ UNCHANGED <<sockets, outbound, watch>>
    BY <1>2, MaxIdAssumption DEF Iris!request, Iris!NewId, Ids, TypesOK
  <2>2. \/ outbound /\ Gives({Iris!Request(c, next_id)})
        \/ ~outbound /\ Gives({}) /\ eff' = eff
    <3>1. CASE outbound
      <4>1. eff' = eff \o <<Iris!Request(c, next_id)>>
        BY <1>2, <3>1 DEF Iris!request, Iris!Give
      <4>2. Iris!Request(c, next_id) \in DP!Effects
        BY <2>1, GiftFields DEF Asks, Reqs
      <4> QED
        BY <3>1, <4>1, <4>2, GivesOne
    <3>2. CASE ~outbound
      <4>1. eff' = eff
        BY <1>2, <3>2 DEF Iris!request, Iris!Give, TypesOK
      <4> QED
        BY <3>2, <4>1, GivesNothing
    <3> QED
      BY <3>1, <3>2
  <2>3. Requests(c)
    BY <1>1, <1>2, <2>1, <2>2 DEF Requests, Acts
  <2> QED
    BY <1>1, <2>3 DEF KernelMoves
<1>3. ASSUME NEW c \in Reqs, Iris!ws_connect(c), cancels' = cancels
      PROVE  KernelMoves
  <2> DEFINE e == [tag |-> "websocket-handshake", req |-> c, id |-> next_id]
  <2>1. /\ c \in WsReqs \ asked /\ next_id \in Ids /\ next_id' = next_id + 1
        /\ outbound /\ asked' = asked \cup {c}
        /\ sockets' = Iris!Put(sockets, next_id, [req |-> c, status |-> "pending"])
        /\ UNCHANGED <<conn, outbound, watch>>
        /\ eff' = eff \o <<e>>
    BY <1>3, MaxIdAssumption
    DEF Iris!ws_connect, Iris!NewId, Iris!Give, Ids, TypesOK
  <2>2. e \in DP!Effects
    BY <2>1, GiftFields DEF Asks, Reqs
  <2> HIDE DEF e
  <2>3. Gives({e})
    BY <2>1, <2>2, GivesOne
  <2>4. Connects(c)
    BY <1>1, <1>3, <2>1, <2>3 DEF Connects, Acts, e
  <2> QED
    BY <1>1, <2>4 DEF KernelMoves
<1>4. ASSUME NEW id \in Ids, Iris!cancel(id), cancels' = cancels
      PROVE  KernelMoves
  <2>1. /\ id \in DOMAIN conn /\ conn' = Iris!Del(conn, id)
        /\ UNCHANGED <<sockets, next_id, outbound, watch, asked>>
    BY <1>4 DEF Iris!cancel
  <2>2. \/ outbound /\ Gives({Iris!Gift("cancel-request", id)})
        \/ ~outbound /\ Gives({}) /\ eff' = eff
    <3>1. CASE outbound
      <4>1. eff' = eff \o <<Iris!Gift("cancel-request", id)>>
        BY <1>4, <3>1 DEF Iris!cancel, Iris!Give
      <4>2. Iris!Gift("cancel-request", id) \in DP!Effects
        BY DEF Iris!Gift, DP!Effects, Ids, DP!Ids
      <4> QED
        BY <3>1, <4>1, <4>2, GivesOne
    <3>2. CASE ~outbound
      <4>1. eff' = eff
        BY <1>4, <3>2 DEF Iris!cancel, Iris!Give, TypesOK
      <4> QED
        BY <3>2, <4>1, GivesNothing
    <3> QED
      BY <3>1, <3>2
  <2>3. CancelsRequest(id)
    BY <1>1, <1>4, <2>1, <2>2 DEF CancelsRequest, Acts
  <2> QED
    BY <1>1, <2>3 DEF KernelMoves
<1>5. ASSUME NEW id \in DOMAIN sockets, Iris!ws_cancel(id), cancels' = cancels + 1
      PROVE  KernelMoves
  <2>1. id \in Ids /\ eff' = eff \o <<Iris!Gift("cancel-request", id)>>
    BY <1>5 DEF TypesOK, Iris!ws_cancel, Iris!Give
  <2>2. Iris!Gift("cancel-request", id) \in DP!Effects
    BY <2>1 DEF Iris!Gift, DP!Effects, Ids, DP!Ids
  <2>3. Gives({Iris!Gift("cancel-request", id)})
    BY <2>1, <2>2, GivesOne
  <2>4. CancelsSocket(id)
    BY <1>1, <1>5, <2>3 DEF CancelsSocket, Acts, Iris!ws_cancel
  <2> QED
    BY <1>1, <2>4 DEF KernelMoves
<1>6. ASSUME NEW id \in Ids, cancels' = cancels,
             Iris!kick(id) \/ Iris!message(id) \/ Iris!disconnect(id)
      PROVE  KernelMoves
  <2>1. /\ watch # {} /\ watch' \subseteq watch
        /\ UNCHANGED <<conn, sockets, next_id, outbound, asked>>
    BY <1>6 DEF Iris!kick, Iris!message, Iris!disconnect, Iris!Subscribers
  <2>2. Gives({})
    BY <1>6, GivesNothing, FactGives
    DEF Iris!kick, Iris!message, Iris!disconnect
  <2>3. Talks
    BY <1>1, <1>6, <2>1, <2>2 DEF Talks, Acts
  <2> QED
    BY <1>1, <2>3 DEF KernelMoves
<1> QED
  BY <1>2, <1>3, <1>4, <1>5, <1>6 DEF Agent, CancelWebsocket

-----------------------------------------------------------------------------
(* What a step of the kernel preserves. *)

\* An event is taken from the queue.
LEMMA OvaTaken ==
    ASSUME TypesOK, QueueInv, ova # <<>>, ova' = Tail(ova)
    PROVE  /\ ova' \in Seq(DP!Ovum \cup {Born})
           /\ In(ova) = {Head(ova)} \cup In(ova')
           /\ Born \notin In(ova')
           /\ \A i \in DOMAIN ova' : ova'[i].tag # "born"
           /\ \A X : Once(ova, X) =>
                       /\ Once(ova', X)
                       /\ Head(ova) \in X => In(ova') \cap X = {}
<1>1. ova \in Seq(DP!Ovum \cup {Born})
  BY DEF TypesOK
<1>2. /\ ova' \in Seq(DP!Ovum \cup {Born})
      /\ In(ova) = {Head(ova)} \cup In(ova')
      /\ \A i \in DOMAIN ova' : i + 1 \in DOMAIN ova /\ i + 1 # 1
                                  /\ ova'[i] = ova[i + 1]
  BY <1>1, InTail
<1>3. \A i \in DOMAIN ova' : ova'[i].tag # "born"
  BY <1>2 DEF QueueInv
<1>4. Born \notin In(ova')
  BY <1>3 DEF In, Born
<1>5. ASSUME NEW X, Once(ova, X)
      PROVE  Once(ova', X) /\ (Head(ova) \in X => In(ova') \cap X = {})
  BY <1>1, <1>5, OnceTail
<1> QED
  BY <1>2, <1>3, <1>4, <1>5

\* What a step of the kernel is to the queue of events and to the driver.
LEMMA KernelOva ==
    ASSUME TypesOK, QueueInv, KernelMoves
    PROVE  /\ creq' = creq /\ cws' = cws /\ net' = net /\ restarts' = restarts
           /\ ova' \in Seq(DP!Ovum \cup {Born})
           /\ In(ova') \subseteq In(ova)
           /\ \A i \in DOMAIN ova' : ova'[i].tag = "born" => i = 1
           /\ \A X : Once(ova, X) => Once(ova', X)
           /\ Born \in In(ova') => ova' = ova
           /\ Born \in In(ova') \/ outbound' = TRUE
<1>1. creq' = creq /\ cws' = cws /\ net' = net /\ restarts' = restarts
  BY DEF KernelMoves, Quiet, QuietDriver
<1>2. CASE ova' = ova /\ outbound' = outbound
  BY <1>1, <1>2 DEF TypesOK, QueueInv
<1>3. CASE ova # <<>> /\ ova' = Tail(ova) /\ (Head(ova) = Born => outbound' = TRUE)
           /\ (Head(ova) # Born => outbound' = outbound)
  <2>1. /\ ova' \in Seq(DP!Ovum \cup {Born})
        /\ In(ova) = {Head(ova)} \cup In(ova')
        /\ Born \notin In(ova')
        /\ \A i \in DOMAIN ova' : ova'[i].tag # "born"
        /\ \A X : Once(ova, X) => Once(ova', X)
    BY <1>3, OvaTaken
  <2>2. outbound' = TRUE
    BY <1>3, <2>1 DEF QueueInv
  <2> QED
    BY <1>1, <2>1, <2>2
<1>4. Births => Head(ova) = Born /\ ova # <<>> /\ ova' = Tail(ova) /\ outbound' = TRUE
  BY DEF Births
<1>5. ASSUME NEW o, Taken(o)
      PROVE  Head(ova) # Born /\ ova # <<>> /\ ova' = Tail(ova) /\ outbound' = outbound
  BY <1>5, OvumFields DEF Taken
<1> QED
  BY <1>2, <1>3, <1>4, <1>5
  DEF KernelMoves, Loses, Redirects, Finishes, Accepts, Ends, Acts, Requests,
      Connects, CancelsRequest, CancelsSocket, Talks

LEMMA QueueKernel ==
    ASSUME TypesOK, QueueInv, KernelMoves
    PROVE  QueueInv'
<1>1. \A o \in In(ova') : o # Born => EventOK(o)'
  BY KernelOva DEF QueueInv, EventOK
<1>2. \A c \in PlainReqs : Once(ova', Answers(c))
  BY KernelOva DEF QueueInv
<1> QED
  BY <1>1, <1>2, KernelOva DEF QueueInv

LEMMA TypesKernel ==
    ASSUME TypesOK, QueueInv, KernelMoves
    PROVE  TypesOK'
<1>1. ova' \in Seq(DP!Ovum \cup {Born}) /\ restarts' = restarts
  BY KernelOva
<1>2. CASE Births
  BY <1>1, <1>2 DEF Births, TypesOK, Iris!Nothing
<1>3. ASSUME NEW o, Taken(o)
      PROVE  /\ o.id \in Ids /\ next_id' \in Nat /\ cancels' \in Nat
             /\ restarts' \in Nat
  BY <1>1, <1>3, OvumFields DEF Taken, TypesOK
<1>4. ASSUME NEW o, Loses(o) PROVE TypesOK'
  BY <1>1, <1>3, <1>4 DEF Loses, Gives, TypesOK
<1>5. ASSUME NEW o, NEW c, Redirects(o, c) PROVE TypesOK'
  BY <1>1, <1>3, <1>5 DEF Redirects, Gives, TypesOK, Iris!Put, Reqs
<1>6. ASSUME NEW o, Finishes(o) PROVE TypesOK'
  BY <1>1, <1>3, <1>6 DEF Finishes, Gives, TypesOK, Iris!Del
<1>7. ASSUME NEW o, Accepts(o) PROVE TypesOK'
  <2>1. /\ watch' \subseteq Nat \X Ids /\ IsFiniteSet(watch')
    <3>1. watch \subseteq Nat \X Ids /\ IsFiniteSet(watch) /\ restarts \in Nat
      BY DEF TypesOK
    <3>2. PICK s : s = <<restarts, o.id>>
      OBVIOUS
    <3>3. s \in Nat \X Ids
      BY <1>3, <1>7, <3>1, <3>2 DEF Accepts
    <3>4. IsFiniteSet(watch \cup {s})
      BY <3>1, FS_AddElement
    <3> QED
      BY <1>7, <3>1, <3>2, <3>3, <3>4 DEF Accepts
  <2>2. /\ DOMAIN sockets' = DOMAIN sockets
        /\ \A id \in DOMAIN sockets :
             /\ sockets'[id].req = sockets[id].req
             /\ sockets'[id].status \in {sockets[id].status, "accepted"}
    BY <1>7 DEF Accepts
  <2> QED
    BY <1>1, <1>3, <1>7, <2>1, <2>2 DEF Accepts, Gives, TypesOK
<1>8. ASSUME NEW o, Ends(o) PROVE TypesOK'
  <2>1. /\ watch' \subseteq Nat \X Ids /\ IsFiniteSet(watch')
    BY <1>8, FS_Subset DEF Ends, TypesOK
  <2> QED
    BY <1>1, <1>3, <1>8, <2>1 DEF Ends, Gives, TypesOK, Iris!Del
<1>9. ASSUME NEW c, Requests(c) PROVE TypesOK'
  BY <1>1, <1>9 DEF Requests, Gives, TypesOK, Iris!Put, Reqs
<1>10. ASSUME NEW c, Connects(c) PROVE TypesOK'
  <2>1. \A id \in DOMAIN sockets' : /\ sockets'[id].req \in WsReqs
                                    /\ sockets'[id].status \in {"pending", "accepted"}
    BY <1>10 DEF Connects, TypesOK, Iris!Put
  <2> QED
    BY <1>1, <1>10, <2>1 DEF Connects, Gives, TypesOK, Iris!Put, Reqs
<1>11. ASSUME NEW id, CancelsRequest(id) PROVE TypesOK'
  BY <1>1, <1>11 DEF CancelsRequest, Gives, TypesOK, Iris!Del
<1>12. ASSUME NEW id, CancelsSocket(id) PROVE TypesOK'
  BY <1>1, <1>12 DEF CancelsSocket, Gives, TypesOK, Iris!Del
<1>13. CASE Talks
  BY <1>1, <1>13, FS_Subset DEF Talks, Gives, TypesOK
<1> QED
  BY <1>2, <1>4, <1>5, <1>6, <1>7, <1>8, <1>9, <1>10, <1>11, <1>12, <1>13
  DEF KernelMoves

\* What is asked for is an attempt not made before.
LEMMA AsksNew ==
    ASSUME TypesOK, QueueInv, AskedInv, KernelMoves
    PROVE  /\ \A c \in Reqs \ asked' : creq'[c].st = "none"
           /\ \A c \in Reqs : /\ Once(eff', Asks(c))
                              /\ Asked(c)' => c \in asked' /\ creq'[c].st = "none"
<1> DEFINE K == /\ \A c \in Reqs \ asked' : creq'[c].st = "none"
                /\ \A c \in Reqs :
                     /\ Once(eff', Asks(c))
                     /\ Asked(c)' => c \in asked' /\ creq'[c].st = "none"
<1>1. ASSUME NEW G, Gives(G), asked \subseteq asked',
             \A c \in Reqs : G \cap Asks(c) # {} => c \in asked' \ asked
      PROVE  K
  <2>1. creq' = creq
    BY KernelOva
  <2>2. \A c \in Reqs \ asked : ~Asked(c) /\ creq[c].st = "none"
    BY DEF AskedInv
  <2>3. \A c \in Reqs : Once(eff, Asks(c)) /\ (~Asked(c) \/ G \cap Asks(c) = {})
    BY <1>1, <2>2 DEF AskedInv
  <2>4. ASSUME NEW c \in Reqs, Asked(c)'
        PROVE  c \in asked' /\ creq'[c].st = "none"
    <3>1. Asked(c) \/ G \cap Asks(c) # {}
      BY <1>1, <2>4 DEF Gives
    <3> QED
      BY <1>1, <2>1, <2>2, <3>1 DEF AskedInv
  <2> QED
    BY <1>1, <2>1, <2>2, <2>3, <2>4 DEF Gives
<1> HIDE DEF K
<1>2. ASSUME Gives({}), asked \subseteq asked' PROVE K
  BY <1>1, <1>2
<1>3. ASSUME NEW id, Gives({Iris!Gift("cancel-request", id)}), asked' = asked
      PROVE  K
  <2>1. \A c : {Iris!Gift("cancel-request", id)} \cap Asks(c) = {}
    BY DEF Iris!Gift, Asks, Asking
  <2> QED
    BY <1>1, <1>3, <2>1
<1>4. ASSUME NEW c, NEW id, Gives({Iris!Request(c, id)}), c \notin asked,
             asked' = asked \cup {c}
      PROVE  K
  <2>1. \A d : {Iris!Request(c, id)} \cap Asks(d) # {} => d = c
    BY DEF Iris!Request, Asks
  <2> QED
    BY <1>1, <1>4, <2>1
<1>5. ASSUME NEW c, NEW id, c \notin asked, asked' = asked \cup {c},
             Gives({[tag |-> "websocket-handshake", req |-> c, id |-> id]})
      PROVE  K
  <2> DEFINE e == [tag |-> "websocket-handshake", req |-> c, id |-> id]
  <2>1. \A d : {e} \cap Asks(d) # {} => d = c
    BY DEF Asks
  <2>2. Gives({e})
    BY <1>5
  <2> HIDE DEF e
  <2> QED
    BY <1>1, <1>5, <2>1, <2>2
<1>6. Births => K
  BY <1>2, GivesNothing DEF Births
<1>7. K
  BY <1>2, <1>3, <1>4, <1>5, <1>6
  DEF KernelMoves, Loses, Redirects, Finishes, Accepts, Ends, Requests,
      Connects, CancelsRequest, CancelsSocket, Talks
<1> QED
  BY <1>7 DEF K

LEMMA AskedKernel ==
    ASSUME TypesOK, QueueInv, AskedInv, KernelMoves
    PROVE  AskedInv'
<1>1. /\ \A id \in DOMAIN conn : conn[id] \in asked
      /\ \A id \in DOMAIN sockets : sockets[id].req \in asked
  BY DEF AskedInv
<1>2. asked \subseteq asked'
  BY DEF KernelMoves, Births, Loses, Redirects, Finishes, Accepts, Ends,
         Requests, Connects, CancelsRequest, CancelsSocket, Talks
<1>3. \A id \in DOMAIN conn' : conn'[id] \in asked'
  BY <1>1
  DEF KernelMoves, Births, Loses, Redirects, Finishes, Accepts, Ends, Requests,
      Connects, CancelsRequest, CancelsSocket, Talks,
      Iris!Nothing, Iris!Put, Iris!Del
<1>4. \A id \in DOMAIN sockets' : sockets'[id].req \in asked'
  <2>1. ASSUME NEW o, Accepts(o)
        PROVE  \A id \in DOMAIN sockets' : sockets'[id].req \in asked
    BY <1>1, <2>1 DEF Accepts
  <2>2. ASSUME NEW c, Connects(c)
        PROVE  \A id \in DOMAIN sockets' : sockets'[id].req \in asked'
    BY <1>1, <2>2 DEF Connects, Iris!Put
  <2> QED
    BY <1>1, <1>2, <2>1, <2>2
    DEF KernelMoves, Births, Loses, Redirects, Finishes, Ends, Requests,
        CancelsRequest, CancelsSocket, Talks, Iris!Del
<1> QED
  BY <1>3, <1>4, AsksNew DEF AskedInv

LEMMA BusyUses ==
    ASSUME TypesOK, QueueInv, NEW c, NEW id, Busy(c, id)
    PROVE  Uses(c, id)
<1>1. ASSUME Answered(c, id) PROVE Uses(c, id)
  <2>1. PICK o \in In(ova) : o \in Answers(c) /\ o.id = id
    BY <1>1 DEF Answered
  <2>2. o # Born /\ o.req = c
    BY <2>1, OvumFields DEF Answers
  <2> QED
    BY <2>1, <2>2 DEF QueueInv, EventOK, Uses
<1> QED
  BY <1>1 DEF Busy, Uses, Waiting

\* An attempt not made before is not used.
LEMMA NewUnused ==
    ASSUME AskedInv, NEW c \in Reqs \ asked, NEW id
    PROVE  ~Uses(c, id)
<1>1. creq[c].st = "none" /\ ~Asked(c)
  BY DEF AskedInv
<1> QED
  BY <1>1 DEF Uses, AskedAs, Asked

LEMMA FreshKernel ==
    ASSUME TypesOK, QueueInv, Fresh, KernelMoves
    PROVE  Fresh'
<1> SUFFICES ASSUME Born \in In(ova') PROVE Fresh'
  BY DEF Fresh
<1>1. ova' = ova /\ creq' = creq /\ Born \in In(ova)
  BY KernelOva
<1>2. /\ eff = <<>> /\ DOMAIN sockets = {} /\ watch = {} /\ outbound = FALSE
      /\ \A c \in Reqs : creq[c].st = "none"
  BY <1>1 DEF Fresh
<1>3. ~Births /\ \A o : ~Taken(o)
  <2>1. ova # <<>> => ova' # Tail(ova)
    <3>1. ASSUME ova # <<>>, ova' = Tail(ova) PROVE FALSE
      BY <3>1, OvaTaken
    <3> QED
      BY <3>1
  <2> QED
    BY <2>1 DEF Births, Taken
<1>4. /\ eff' = eff /\ sockets' = sockets /\ watch' = watch
      /\ outbound' = outbound
  BY <1>2, <1>3
  DEF KernelMoves, Loses, Redirects, Finishes, Accepts, Ends, Acts, Requests,
      Connects, CancelsRequest, CancelsSocket, Talks
<1> QED
  BY <1>1, <1>2, <1>4 DEF Fresh

\* A number is given to an attempt, or cancelled, in the step.
Numbered(c, id) == \/ Requests(c) /\ id = next_id
                   \/ Connects(c) /\ id = next_id
                   \/ \E o : Redirects(o, c) /\ id = o.id
Cancelling(id) == CancelsRequest(id) \/ CancelsSocket(id)

LEMMA KernelGives ==
    ASSUME TypesOK, KernelMoves
    PROVE  /\ \A c, id : AskedAs(c, id)' => AskedAs(c, id) \/ Numbered(c, id)
           /\ \A c, id : AskedAs(c, id) => AskedAs(c, id)'
           /\ \A c : Asked(c)' => Asked(c) \/ \E id : Numbered(c, id)
           /\ \A id : Cancelled(id)' => Cancelled(id) \/ Cancelling(id)
           /\ \A id : /\ Once(eff, CancelsOf(id))
                      /\ ~Cancelled(id) \/ ~Cancelling(id)
                      => Once(eff', CancelsOf(id))
           /\ \A x, id : Unfollowed(eff, x, CancelsOf(id)) /\ ~Cancelling(id)
                           => Unfollowed(eff', x, CancelsOf(id))
<1> DEFINE K == /\ \A c, id : AskedAs(c, id)' => AskedAs(c, id) \/ Numbered(c, id)
                /\ \A c, id : AskedAs(c, id) => AskedAs(c, id)'
                /\ \A c : Asked(c)' => Asked(c) \/ \E id : Numbered(c, id)
                /\ \A id : Cancelled(id)' => Cancelled(id) \/ Cancelling(id)
                /\ \A id : /\ Once(eff, CancelsOf(id))
                           /\ ~Cancelled(id) \/ ~Cancelling(id)
                           => Once(eff', CancelsOf(id))
                /\ \A x, id : Unfollowed(eff, x, CancelsOf(id)) /\ ~Cancelling(id)
                                => Unfollowed(eff', x, CancelsOf(id))
<1>1. ASSUME Gives({}) PROVE K
  BY <1>1 DEF Gives
<1>2. ASSUME NEW c, NEW n, NEW e, Gives({e}), Numbered(c, n), e.id = n,
             \A d : e \in Asks(d) => d = c, \A id : e \notin CancelsOf(id)
      PROVE  K
  <2>1. \A d : {e} \cap Asks(d) # {} => d = c
    BY <1>2
  <2>2. \A id : {e} \cap CancelsOf(id) = {}
    BY <1>2
  <2> QED
    BY <1>2, <2>1, <2>2 DEF Gives
<1>3. ASSUME NEW n, NEW e, Gives({e}), Cancelling(n),
             \A d : e \notin Asks(d), \A id : e \in CancelsOf(id) => id = n
      PROVE  K
  <2>1. \A id : {e} \cap CancelsOf(id) # {} => id = n
    BY <1>3
  <2>2. \A d : {e} \cap Asks(d) = {}
    BY <1>3
  <2> QED
    BY <1>3, <2>1, <2>2 DEF Gives
<1> HIDE DEF K
<1>4. \A c, id : LET e == Iris!Request(c, id) IN
        /\ e.id = id /\ \A d : e \in Asks(d) => d = c
        /\ \A i : e \notin CancelsOf(i)
  BY DEF Iris!Request, Asks, CancelsOf
<1>5. \A c, id : LET e == [tag |-> "websocket-handshake", req |-> c, id |-> id] IN
        /\ e.id = id /\ \A d : e \in Asks(d) => d = c
        /\ \A i : e \notin CancelsOf(i)
  BY DEF Asks, CancelsOf
<1>6. \A n : LET e == Iris!Gift("cancel-request", n) IN
        /\ \A d : e \notin Asks(d)
        /\ \A id : e \in CancelsOf(id) => id = n
  BY DEF Iris!Gift, Asks, Asking, CancelsOf
<1>7. ASSUME NEW c, Requests(c) PROVE K
  BY <1>1, <1>2, <1>4, <1>7 DEF Requests, Numbered
<1>8. ASSUME NEW c, Connects(c) PROVE K
  <2>1. PICK e : e = [tag |-> "websocket-handshake", req |-> c, id |-> next_id]
    OBVIOUS
  <2>2. Gives({e}) /\ Numbered(c, next_id)
    BY <1>8, <2>1 DEF Connects, Numbered
  <2>3. /\ e.id = next_id /\ \A d : e \in Asks(d) => d = c
        /\ \A i : e \notin CancelsOf(i)
    BY <1>5, <2>1
  <2> QED
    BY <1>2, <2>2, <2>3
<1>9. ASSUME NEW o, NEW c, Redirects(o, c) PROVE K
  <2>1. PICK e : e = Iris!Request(c, o.id)
    OBVIOUS
  <2>2. Gives({e}) /\ Numbered(c, o.id)
    BY <1>9, <2>1 DEF Redirects, Numbered
  <2>3. /\ e.id = o.id /\ \A d : e \in Asks(d) => d = c
        /\ \A i : e \notin CancelsOf(i)
    BY <1>4, <2>1
  <2> QED
    BY <1>2, <2>2, <2>3
<1>10. ASSUME NEW id, Cancelling(id) PROVE K
  <2>1. PICK e : e = Iris!Gift("cancel-request", id)
    OBVIOUS
  <2>2. Gives({e}) \/ Gives({})
    BY <1>10, <2>1 DEF Cancelling, CancelsRequest, CancelsSocket
  <2>3. (\A d : e \notin Asks(d)) /\ \A i : e \in CancelsOf(i) => i = id
    BY <1>6, <2>1
  <2> QED
    BY <1>1, <1>3, <1>10, <2>2, <2>3
<1>11. Births => K
  BY <1>1, GivesNothing DEF Births
<1>12. K
  BY <1>1, <1>7, <1>8, <1>9, <1>10, <1>11
  DEF KernelMoves, Loses, Finishes, Accepts, Ends, Talks, Cancelling
<1> QED
  BY <1>12 DEF K

\* What iris remembers after the step.
LEMMA KernelMaps ==
    ASSUME KernelMoves, ~Births
    PROVE  /\ \A id \in DOMAIN conn' :
                \/ id \in DOMAIN conn /\ conn'[id] = conn[id]
                \/ \E c : Requests(c) /\ id = next_id /\ conn'[id] = c
                \/ \E o, c : Redirects(o, c) /\ id = o.id /\ conn'[id] = c
           /\ \A id \in DOMAIN sockets' :
                \/ id \in DOMAIN sockets /\ sockets'[id].req = sockets[id].req
                \/ \E c : Connects(c) /\ id = next_id /\ sockets'[id].req = c
           /\ \/ next_id' = next_id
              \/ next_id' = next_id + 1 /\ \E c : Requests(c) \/ Connects(c)
<1>1. \A id \in DOMAIN conn' :
         \/ id \in DOMAIN conn /\ conn'[id] = conn[id]
         \/ \E c : Requests(c) /\ id = next_id /\ conn'[id] = c
         \/ \E o, c : Redirects(o, c) /\ id = o.id /\ conn'[id] = c
  <2>1. ASSUME NEW o, NEW c, Redirects(o, c), NEW id \in DOMAIN conn'
        PROVE  \/ id \in DOMAIN conn /\ conn'[id] = conn[id]
               \/ id = o.id /\ conn'[id] = c
    BY <2>1 DEF Redirects, Iris!Put
  <2>2. ASSUME NEW c, Requests(c), NEW id \in DOMAIN conn'
        PROVE  \/ id \in DOMAIN conn /\ conn'[id] = conn[id]
               \/ id = next_id /\ conn'[id] = c
    BY <2>2 DEF Requests, Iris!Put
  <2>3. ASSUME \/ \E o : Loses(o) \/ Finishes(o) \/ Accepts(o) \/ Ends(o)
               \/ \E c : Connects(c)
               \/ \E id : CancelsRequest(id) \/ CancelsSocket(id)
               \/ Talks
        PROVE  \A id \in DOMAIN conn' : id \in DOMAIN conn /\ conn'[id] = conn[id]
    BY <2>3 DEF Loses, Finishes, Accepts, Ends, Connects, CancelsRequest,
                CancelsSocket, Talks, Iris!Del
  <2> QED
    BY <2>1, <2>2, <2>3 DEF KernelMoves
<1>2. \A id \in DOMAIN sockets' :
         \/ id \in DOMAIN sockets /\ sockets'[id].req = sockets[id].req
         \/ \E c : Connects(c) /\ id = next_id /\ sockets'[id].req = c
  <2>1. ASSUME NEW c, Connects(c), NEW id \in DOMAIN sockets'
        PROVE  \/ id \in DOMAIN sockets /\ sockets'[id].req = sockets[id].req
               \/ id = next_id /\ sockets'[id].req = c
    BY <2>1 DEF Connects, Iris!Put
  <2>2. ASSUME NEW o, Accepts(o), NEW id \in DOMAIN sockets'
        PROVE  id \in DOMAIN sockets /\ sockets'[id].req = sockets[id].req
    BY <2>2 DEF Accepts
  <2>3. ASSUME \/ \E o : Loses(o) \/ Finishes(o) \/ Ends(o)
               \/ \E o, c : Redirects(o, c)
               \/ \E c : Requests(c)
               \/ \E id : CancelsRequest(id) \/ CancelsSocket(id)
               \/ Talks
        PROVE  \A id \in DOMAIN sockets' : /\ id \in DOMAIN sockets
                                           /\ sockets'[id].req = sockets[id].req
    BY <2>3 DEF Loses, Finishes, Ends, Redirects, Requests, CancelsRequest,
                CancelsSocket, Talks, Iris!Del
  <2> QED
    BY <2>1, <2>2, <2>3 DEF KernelMoves
<1>3. \/ next_id' = next_id
      \/ next_id' = next_id + 1 /\ \E c : Requests(c) \/ Connects(c)
  BY DEF KernelMoves, Loses, Finishes, Accepts, Ends, Redirects, Requests,
         Connects, CancelsRequest, CancelsSocket, Talks, Taken
<1> QED
  BY <1>1, <1>2, <1>3

LEMMA KernelUses ==
    ASSUME TypesOK, QueueInv, KernelMoves, NEW c, NEW id
    PROVE  /\ Uses(c, id)' => Uses(c, id) \/ Numbered(c, id)
           /\ Busy(c, id)' => Busy(c, id) \/ Numbered(c, id)
<1>1. creq' = creq /\ In(ova') \subseteq In(ova)
  BY KernelOva
<1>2. AskedAs(c, id)' => AskedAs(c, id) \/ Numbered(c, id)
  BY KernelGives
<1>3. Answered(c, id)' => Answered(c, id)
  BY <1>1 DEF Answered
<1> QED
  BY <1>1, <1>2, <1>3 DEF Uses, Busy

\* A number that is given to an attempt is new, or its request's.
LEMMA NumberedFresh ==
    ASSUME NEW c, NEW id, Numbered(c, id), KernelMoves
    PROVE  /\ c \in Reqs \ asked
           /\ \/ id = next_id /\ next_id' = next_id + 1 /\ Requests(c)
              \/ id = next_id /\ next_id' = next_id + 1 /\ Connects(c)
              \/ id \in DOMAIN conn /\ next_id' = next_id
                 /\ \E o : Redirects(o, c) /\ id = o.id
BY DEF Numbered, Requests, Connects, Redirects, Taken, Reqs

\* The first %born finds nothing.
LEMMA FirstBirth ==
    ASSUME TypesOK, QueueInv, FirstInv, Births, Quiet
    PROVE  FirstInv'
<1>1. /\ eff' = <<>> /\ eff = <<>> /\ sockets' = sockets /\ DOMAIN sockets' = {}
      /\ conn' = Iris!Nothing /\ net' = net /\ creq' = creq
      /\ \A c \in Reqs : creq'[c].st = "none"
  <2>1. Born \in In(ova)
    BY InTail DEF Births, TypesOK
  <2> QED
    BY <2>1 DEF FirstInv, Fresh, Births, Quiet, QuietDriver
<1>2. /\ DOMAIN conn' = {}
      /\ \A c, id : ~AskedAs(c, id)' /\ ~Cancelled(id)'
      /\ \A X : Once(eff', X)
  BY <1>1 DEF AskedAs, Cancelled, In, Once, Iris!Nothing
<1>3. Born \notin In(ova')
  BY OvaTaken DEF Births
<1>4. Fresh' /\ CallbackOwed'
  BY <1>1, <1>3 DEF Fresh, FirstInv, CallbackOwed
<1>5. Numbers'
  BY <1>1, <1>2 DEF Numbers, Uses
<1>6. Owned'
  BY <1>1, <1>2 DEF Owned
<1>7. CancelledOnce'
  BY <1>1, <1>2 DEF CancelledOnce, Reqs
<1> QED
  BY <1>4, <1>5, <1>6, <1>7 DEF FirstInv

LEMMA NumbersKernel ==
    ASSUME TypesOK, QueueInv, AskedInv, FirstInv, KernelMoves, ~Births
    PROVE  Numbers'
<1>1. /\ next_id \in Nat
      /\ \A c \in Reqs : \A id \in Ids : Uses(c, id) => id < next_id
      /\ \A id \in Ids : Cancelled(id) => id < next_id
      /\ \A id \in DOMAIN conn : id < next_id /\ id \notin DOMAIN sockets
      /\ \A id \in DOMAIN sockets : id < next_id
      /\ DOMAIN conn \subseteq Nat /\ DOMAIN sockets \subseteq Nat /\ Ids \subseteq Nat
  BY DEF FirstInv, Numbers, TypesOK, Ids
<1>2. next_id' = next_id \/ next_id' = next_id + 1
  BY KernelMaps
<1>3. ASSUME NEW c \in Reqs, NEW id \in Ids, Uses(c, id)' PROVE id < next_id'
  <2>1. Uses(c, id) \/ Numbered(c, id)
    BY <1>3, KernelUses
  <2> QED
    BY <1>1, <1>2, <2>1, NumberedFresh
<1>4. ASSUME NEW id \in Ids, Cancelled(id)' PROVE id < next_id'
  <2>1. Cancelled(id) \/ Cancelling(id)
    BY <1>4, KernelGives
  <2> QED
    BY <1>1, <1>2, <2>1 DEF Cancelling, CancelsRequest, CancelsSocket
<1>5. ASSUME NEW c, Requests(c) \/ Connects(c) PROVE next_id' = next_id + 1
  BY <1>5 DEF Requests, Connects
<1>6. ASSUME NEW id \in DOMAIN conn'
      PROVE  id < next_id' /\ id \notin DOMAIN sockets'
  <2>1. CASE id \in DOMAIN conn
    <3>1. id \notin DOMAIN sockets /\ id # next_id
      BY <1>1, <2>1
    <3> QED
      BY <1>1, <1>2, <2>1, <3>1, KernelMaps
  <2>2. ASSUME NEW c, Requests(c), id = next_id
        PROVE  id < next_id' /\ id \notin DOMAIN sockets'
    BY <1>1, <1>5, <2>2 DEF Requests
  <2> QED
    BY <2>1, <2>2, KernelMaps DEF Redirects
<1>7. ASSUME NEW id \in DOMAIN sockets' PROVE id < next_id'
  <2>1. id \in DOMAIN sockets \/ \E c : Connects(c) /\ id = next_id
    BY KernelMaps
  <2> QED
    BY <1>1, <1>2, <1>5, <2>1
<1> QED
  BY <1>3, <1>4, <1>6, <1>7 DEF Numbers

LEMMA OwnedKernel ==
    ASSUME TypesOK, QueueInv, AskedInv, FirstInv, KernelMoves, ~Births
    PROVE  Owned'
<1>1. /\ next_id \in Nat
      /\ \A c \in Reqs : \A id \in Ids : Uses(c, id) => id < next_id
      /\ \A id \in DOMAIN conn : /\ id < next_id /\ id \notin DOMAIN sockets
                                 /\ id \in Ids
      /\ \A id \in DOMAIN sockets : id < next_id /\ id \in Ids
      /\ DOMAIN conn \subseteq Nat /\ DOMAIN sockets \subseteq Nat /\ Ids \subseteq Nat
      /\ \A id \in DOMAIN sockets : sockets[id].req \in asked
  BY DEF FirstInv, Numbers, TypesOK, Ids, AskedInv
<1>2. \A c \in Reqs : \A id \in Ids : Busy(c, id) => id < next_id
  BY <1>1, BusyUses
\* The request that is answered is not answered again.
<1>3. ASSUME NEW o, NEW d, Redirects(o, d), NEW c \in Reqs, Busy(c, o.id)'
      PROVE  c = d
  <2>1. SUFFICES ASSUME c # d PROVE FALSE
    OBVIOUS
  <2>2. /\ o.tag = "receive" /\ o \in DP!Ovum /\ o = Head(ova) /\ o \in In(ova)
        /\ ova # <<>> /\ ova' = Tail(ova) /\ o.id \in DOMAIN conn
    BY <1>3, InTail DEF Redirects, Taken, TypesOK
  <2>3. /\ o # Born /\ EventOK(o) /\ o.req \in Reqs
    BY <2>2, OvumFields DEF QueueInv
  <2>4. Answered(o.req, o.id) /\ conn[o.id] = o.req
    <3>1. Answered(o.req, o.id)
      BY <2>2 DEF Answered, Answers
    <3> QED
      BY <2>2, <2>3, <3>1 DEF FirstInv, Owned, Busy
  <2>5. ~Numbered(c, o.id)
    BY <1>1, <1>3, <2>1, <2>2
    DEF Numbered, Requests, Connects, Redirects, Taken, Iris!Put
  <2>6. c = o.req
    <3>1. Busy(c, o.id)
      BY <1>3, <2>5, KernelUses
    <3> QED
      BY <2>2, <2>4, <3>1 DEF FirstInv, Owned
  <2>7. o.req \in PlainReqs /\ creq[o.req].st = "freed" /\ creq' = creq
    BY <2>2, <2>3, KernelOva DEF EventOK
  <2>8. ~AskedAs(c, o.id)'
    <3>1. ~Asked(c)
      BY <2>6, <2>7 DEF AskedInv, Reqs
    <3> QED
      BY <2>5, <3>1, KernelGives DEF Asked, AskedAs
  <2>9. ~Answered(c, o.id)'
    <3>1. Once(ova, Answers(c)) /\ o \in Answers(c)
      BY <2>2, <2>6, <2>7 DEF QueueInv, Answers
    <3>2. In(ova') \cap Answers(c) = {}
      BY <2>2, <3>1, OvaTaken
    <3> QED
      BY <3>2 DEF Answered, Answers
  <2> QED
    BY <1>3, <2>6, <2>7, <2>8, <2>9 DEF Busy, Waiting
<1>4. ASSUME NEW id \in DOMAIN conn', NEW c \in Reqs, Busy(c, id)'
      PROVE  conn'[id] = c
  <2>1. Busy(c, id) \/ Numbered(c, id)
    BY <1>4, KernelUses
  <2>2. CASE Numbered(c, id)
    <3>1. ASSUME Requests(c), id = next_id PROVE conn'[id] = c
      BY <3>1 DEF Requests, Iris!Put
    <3>2. ASSUME Connects(c), id = next_id PROVE FALSE
      BY <1>1, <1>4, <3>2 DEF Connects
    <3>3. ASSUME NEW o, Redirects(o, c), id = o.id PROVE conn'[id] = c
      BY <3>3 DEF Redirects, Iris!Put
    <3> QED
      BY <2>2, <3>1, <3>2, <3>3 DEF Numbered
  <2>3. ASSUME id \in DOMAIN conn, conn'[id] = conn[id], Busy(c, id)
        PROVE  conn'[id] = c
    BY <2>3 DEF FirstInv, Owned
  <2>4. ASSUME NEW d, Requests(d), id = next_id, Busy(c, id)
        PROVE  conn'[id] = c
    BY <1>1, <1>2, <2>4 DEF Requests
  <2>5. ASSUME NEW o, NEW d, Redirects(o, d), id = o.id, conn'[id] = d
        PROVE  conn'[id] = c
    BY <1>3, <1>4, <2>5
  <2> QED
    BY <2>1, <2>2, <2>3, <2>4, <2>5, KernelMaps
<1>5. ASSUME NEW id \in DOMAIN sockets', NEW c \in Reqs, NEW j \in Ids,
             Uses(c, j)'
      PROVE  sockets'[id].req = c <=> j = id
  <2>1. Uses(c, j) \/ Numbered(c, j)
    BY <1>5, KernelUses
  <2>2. CASE id \in DOMAIN sockets /\ sockets'[id].req = sockets[id].req
    <3>1. CASE Uses(c, j)
      BY <2>2, <3>1 DEF FirstInv, Owned
    <3>2. CASE Numbered(c, j)
      <4>1. c \notin asked /\ j # id
        BY <1>1, <2>2, <3>2, NumberedFresh
      <4> QED
        BY <1>1, <2>2, <4>1
    <3> QED
      BY <2>1, <3>1, <3>2
  <2>3. ASSUME NEW d, Connects(d), id = next_id, sockets'[id].req = d
        PROVE  sockets'[id].req = c <=> j = id
    <3>1. d \in Reqs \ asked /\ conn' = conn
      BY <2>3 DEF Connects, Reqs
    <3>2. CASE Uses(c, j)
      <4>1. c # d /\ j # id
        BY <1>1, <2>3, <3>1, <3>2, NewUnused
      <4> QED
        BY <2>3, <4>1
    <3>3. CASE Numbered(c, j)
      <4>1. c = d
        <5>1. c \notin asked /\ c \in asked'
          BY <3>3 DEF Numbered, Requests, Connects, Redirects
        <5> QED
          BY <2>3, <5>1 DEF Connects
      <4>2. j = next_id
        <5>1. next_id' = next_id + 1 /\ next_id' # next_id
          BY <1>1, <2>3 DEF Connects
        <5> QED
          BY <3>3, <5>1, NumberedFresh
      <4> QED
        BY <2>3, <4>1, <4>2
    <3> QED
      BY <2>1, <3>2, <3>3
  <2> QED
    BY <2>2, <2>3, KernelMaps
<1> QED
  BY <1>4, <1>5 DEF Owned

LEMMA CancelledKernel ==
    ASSUME DP!IInv, TypesOK, QueueInv, FirstInv, KernelMoves, ~Births
    PROVE  CancelledOnce'
<1>1. /\ next_id \in Nat
      /\ \A id \in Ids : /\ Cancelled(id) => id < next_id
                         /\ Once(eff, CancelsOf(id))
                         /\ Cancelled(id) =>
                              id \notin DOMAIN conn \cup DOMAIN sockets
      /\ \A id \in DOMAIN conn : id \notin DOMAIN sockets
      /\ Ids \subseteq Nat
  BY DEF FirstInv, Numbers, TypesOK, Ids, CancelledOnce
<1>2. \A id : /\ CancelsRequest(id) => /\ id \in DOMAIN conn /\ id \notin DOMAIN conn'
                                       /\ sockets' = sockets
              /\ CancelsSocket(id) => /\ id \in DOMAIN sockets
                                      /\ id \notin DOMAIN sockets' /\ conn' = conn
  BY DEF CancelsRequest, CancelsSocket, Iris!Del
<1>3. /\ DOMAIN conn' \subseteq DOMAIN conn \cup {next_id}
      /\ DOMAIN sockets' \subseteq DOMAIN sockets \cup {next_id}
  BY KernelMaps DEF Redirects
<1>4. ASSUME NEW id \in Ids PROVE Once(eff', CancelsOf(id))
  BY <1>1, <1>2, KernelGives DEF Cancelling
<1>5. ASSUME NEW id \in Ids, Cancelled(id)'
      PROVE  id \notin DOMAIN conn' \cup DOMAIN sockets'
  <2>1. CASE Cancelled(id)
    <3>1. id # next_id
      BY <1>1, <2>1
    <3> QED
      BY <1>1, <1>3, <2>1, <3>1
  <2>2. CASE Cancelling(id)
    BY <1>1, <1>2, <2>2 DEF Cancelling
  <2> QED
    BY <1>5, <2>1, <2>2, KernelGives
<1>6. ASSUME NEW c \in PlainReqs, creq'[c].st = "quit"
      PROVE  creq'[c].num \notin DOMAIN conn' /\ ~Cancelled(creq[c].num)'
  <2>1. PICK n : n = creq[c].num
    OBVIOUS
  <2>2. creq' = creq /\ creq[c].st = "quit" /\ c \in Reqs /\ n \in Ids
    <3>1. creq' = creq /\ c \in Reqs
      BY KernelOva DEF Reqs
    <3> QED
      BY <1>6, <2>1, <3>1
      DEF DP!IInv, DP!TypeOK, DP!CReq, Reqs, DP!Reqs, Ids, DP!Ids
  <2>3. /\ n \notin DOMAIN conn /\ ~Cancelled(n)
        /\ n < next_id
        /\ n \notin DOMAIN sockets
    <3>1. Uses(c, n)
      BY <2>1, <2>2 DEF Uses
    <3>2. n < next_id
      BY <2>2, <3>1 DEF FirstInv, Numbers
    <3>3. n \notin DOMAIN sockets
      <4>1. ASSUME n \in DOMAIN sockets PROVE FALSE
        <5>1. sockets[n].req = c
          BY <2>2, <3>1, <4>1 DEF FirstInv, Owned
        <5> QED
          BY <4>1, <5>1, AttemptsAssumption DEF TypesOK
      <4> QED
        BY <4>1
    <3> QED
      BY <2>1, <2>2, <3>2, <3>3 DEF FirstInv, CancelledOnce
  <2>4. n \notin DOMAIN conn'
    <3>1. n # next_id
      BY <1>1, <2>2, <2>3
    <3> QED
      BY <1>3, <2>3, <3>1
  <2>5. ~Cancelled(n)'
    BY <1>2, <2>3, KernelGives DEF Cancelling
  <2> QED
    BY <2>1, <2>2, <2>4, <2>5 DEF Cancelled
<1> QED
  BY <1>4, <1>5, <1>6 DEF CancelledOnce

LEMMA FirstKernel ==
    ASSUME DP!IInv, TypesOK, QueueInv, AskedInv, FirstInv, KernelMoves
    PROVE  FirstInv'
<1>1. CASE Births
  BY <1>1, FirstBirth DEF KernelMoves
<1>2. CASE ~Births
  <2>1. Numbers' /\ Owned' /\ CancelledOnce'
    BY <1>2, NumbersKernel, OwnedKernel, CancelledKernel
  <2>2. Fresh'
    BY FreshKernel DEF FirstInv
  <2>3. CallbackOwed'
    BY KernelOva DEF FirstInv, CallbackOwed
  <2> QED
    BY <2>1, <2>2, <2>3 DEF FirstInv
<1> QED
  BY <1>1, <1>2

\* An event of an attempt is taken, or all that iris is told stays told.
LEMMA KernelTakes ==
    ASSUME TypesOK, QueueInv, KernelMoves, ~Births
    PROVE  \/ ova' = ova
           \/ \E o : /\ Taken(o) /\ o \in In(ova) /\ EventOK(o) /\ o.req \in Reqs
                     /\ o # Born /\ In(ova) = {o} \cup In(ova')
                     /\ \/ Loses(o) \/ Finishes(o) \/ Accepts(o) \/ Ends(o)
                        \/ \E c : Redirects(o, c)
<1>1. ASSUME NEW o, Taken(o)
      PROVE  /\ o \in In(ova) /\ EventOK(o) /\ o.req \in Reqs /\ o # Born
             /\ In(ova) = {o} \cup In(ova')
  <2>1. o \in DP!Ovum /\ o # Born /\ o.req \in Reqs
    BY <1>1, OvumFields DEF Taken
  <2>2. In(ova) = {o} \cup In(ova')
    BY <1>1, OvaTaken DEF Taken
  <2> QED
    BY <2>1, <2>2 DEF QueueInv
<1>2. \/ ova' = ova
      \/ \E o : /\ Taken(o)
                /\ \/ Loses(o) \/ Finishes(o) \/ Accepts(o) \/ Ends(o)
                   \/ \E c : Redirects(o, c)
  BY DEF KernelMoves, Loses, Redirects, Finishes, Accepts, Ends, Acts, Requests,
         Connects, CancelsRequest, CancelsSocket, Talks
<1> QED
  BY <1>1, <1>2

\* The number of an event of a socket is the socket's.
LEMMA EventOwned ==
    ASSUME TypesOK, FirstInv, NEW o, EventOK(o), o.req \in Reqs, o.id \in Ids
    PROVE  \A id \in DOMAIN sockets : sockets[id].req = o.req <=> o.id = id
<1>1. Uses(o.req, o.id)
  BY DEF EventOK, Uses
<1> QED
  BY <1>1 DEF FirstInv, Owned

LEMMA SocketKernel ==
    ASSUME TypesOK, QueueInv, AskedInv, FirstInv, KernelMoves,
           \A id \in DOMAIN sockets : SocketOK(id),
           NEW id \in DOMAIN sockets'
    PROVE  SocketOK(id)'
<1>1. ~Births
  <2>1. ASSUME Births PROVE FALSE
    <3>1. Born \in In(ova) /\ sockets' = sockets
      BY <2>1, InTail DEF Births, TypesOK
    <3> QED
      BY <3>1 DEF FirstInv, Fresh
  <2> QED
    BY <2>1
<1>2. creq' = creq /\ cws' = cws /\ \A c, j : AskedAs(c, j) => AskedAs(c, j)'
  BY KernelOva, KernelGives
<1>3. ASSUME NEW c, Connects(c), id = next_id PROVE SocketOK(id)'
  <2> DEFINE e == [tag |-> "websocket-handshake", req |-> c, id |-> next_id]
  <2>1. /\ sockets'[id] = [req |-> c, status |-> "pending"]
        /\ c \in WsReqs /\ c \in Reqs /\ id \in Ids /\ Gives({e})
    BY <1>3 DEF Connects, Iris!Put, Reqs
  <2>2. e \in Asks(c) /\ e.id = id
    BY <1>3, <2>1, GiftFields
  <2> HIDE DEF e
  <2>3. AskedAs(c, id)'
    BY <2>1, <2>2 DEF Gives
  <2>4. sockets'[id].req = c /\ sockets'[id].status = "pending"
    BY <2>1
  <2> QED
    BY <2>3, <2>4 DEF SocketOK, AskedAs
<1>4. ASSUME id \in DOMAIN sockets, sockets'[id].req = sockets[id].req
      PROVE  SocketOK(id)'
  <2>1. PICK s : s = sockets[id].req
    OBVIOUS
  <2>2. /\ s \in WsReqs /\ s \notin PlainReqs /\ id \in Ids /\ id # next_id
        /\ sockets'[id].req = s
    BY <1>4, <2>1, AttemptsAssumption DEF TypesOK, FirstInv, Numbers
  <2>3. SocketOK(id)
    BY <1>4
  <2>4. CASE \E o : Accepts(o) /\ o.id = id
    <3>1. PICK o : Accepts(o) /\ o.id = id
      BY <2>4
    <3>2. /\ o \in DP!Ovum /\ o.tag = "accept" /\ ova # <<>> /\ o = Head(ova)
          /\ ova' = Tail(ova) /\ sockets'[id].status = "accepted"
      BY <1>4, <3>1 DEF Accepts, Taken
    <3>3. /\ o # Born /\ o.req \in Reqs /\ In(ova) = {o} \cup In(ova')
      BY <3>2, OvumFields, OvaTaken
    <3>4. EventOK(o)
      BY <3>3 DEF QueueInv
    <3>5. o.req = s
      BY <1>4, <2>1, <2>2, <3>1, <3>3, <3>4, EventOwned
    <3>6. /\ creq[s].st # "none" /\ ~AskedAs(s, id)
          /\ cws[s].sat \in Socket \cup {"freed"}
      BY <3>2, <3>3, <3>4, <3>5 DEF EventOK, AskedInv, Asked, AskedAs
    <3>7. Told(End, s) \/ cws[s].sat \in Socket
      BY <2>1, <2>3, <3>6 DEF SocketOK, Socket
    <3>8. Told(End, s) => Told(End, s)'
      BY <3>2, <3>3 DEF Told, End
    <3> QED
      BY <1>2, <2>2, <3>2, <3>7, <3>8 DEF SocketOK, Told
  <2>5. CASE ~\E o : Accepts(o) /\ o.id = id
    <3>1. sockets'[id].status = sockets[id].status
      <4>1. ASSUME NEW o, Accepts(o), o.id # id
            PROVE  sockets'[id].status = sockets[id].status
        BY <1>4, <4>1 DEF Accepts
      <4>2. ASSUME NEW c, Connects(c)
            PROVE  sockets'[id].status = sockets[id].status
        BY <1>4, <2>2, <4>2 DEF Connects, Iris!Put
      <4> QED
        BY <1>1, <1>4, <2>5, <4>1, <4>2
        DEF KernelMoves, Loses, Redirects, Finishes, Ends, Requests,
            CancelsRequest, CancelsSocket, Talks, Iris!Del
    <3>2. ASSUME NEW tags, tags \subseteq {"accept"} \cup End, Told(tags, s)
          PROVE  Told(tags, s)'
      <4>1. CASE ova' = ova
        BY <3>2, <4>1 DEF Told
      <4>2. ASSUME NEW o, Taken(o), EventOK(o), o.req \in Reqs,
                   In(ova) = {o} \cup In(ova'),
                   \/ Loses(o) \/ Finishes(o) \/ Accepts(o) \/ Ends(o)
                   \/ \E c : Redirects(o, c)
            PROVE  o.req # s \/ o.tag \notin tags
        <5>1. SUFFICES ASSUME o.req = s, o.tag \in tags PROVE FALSE
          OBVIOUS
        <5>2. o.id \in Ids
          BY <4>2, OvumFields DEF Taken
        <5>3. o.id = id
          BY <1>4, <2>1, <4>2, <5>1, <5>2, EventOwned
        <5> QED
          BY <1>4, <2>5, <3>2, <4>2, <5>1, <5>3
          DEF Loses, Finishes, Ends, Redirects, Iris!Del, End
      <4>3. CASE ova' # ova
        BY <1>1, <3>2, <4>2, <4>3, KernelTakes DEF Told
      <4> QED
        BY <4>1, <4>3
    <3>3. /\ Told(End, s) => Told(End, s)'
          /\ Told({"accept"}, s) => Told({"accept"}, s)'
      BY <3>2
    <3>4. AskedAs(s, id) => AskedAs(s, id)'
      BY <1>2
    <3> QED
      BY <1>2, <2>1, <2>2, <2>3, <3>1, <3>3, <3>4 DEF SocketOK, Told, AskedAs
  <2> QED
    BY <2>4, <2>5
<1> QED
  BY <1>1, <1>3, <1>4, KernelMaps

LEMMA ListedKernel ==
    ASSUME TypesOK, QueueInv, AskedInv, FirstInv, Listed, KernelMoves,
           restarts = 0, cancels' = 0
    PROVE  Listed'
<1>1. CASE Births
  <2>1. UNCHANGED <<sockets, watch, eff, cws>>
    BY <1>1, KernelOva DEF Births
  <2> QED
    BY <2>1 DEF Listed, Asked
<1>2. CASE ~Births
  <2>1. \A id : ~CancelsSocket(id)
    BY DEF CancelsSocket, TypesOK
  <2>2. cws' = cws /\ \A c : Asked(c)' => Asked(c) \/ \E id : Numbered(c, id)
    BY KernelOva, KernelGives
  <2>3. \A id \in DOMAIN sockets : id # next_id
    BY DEF FirstInv, Numbers, TypesOK, Ids
\* Only the end of a session takes its socket.
  <2>4. ASSUME NEW id \in DOMAIN sockets,
               Asked(sockets[id].req)
                 \/ cws[sockets[id].req].sat \in {"pending"} \cup Socket
        PROVE  id \in DOMAIN sockets' /\ sockets'[id].req = sockets[id].req
    <3>1. ASSUME NEW o, Ends(o) PROVE o.id # id
      <4>1. SUFFICES ASSUME o.id = id PROVE FALSE
        OBVIOUS
      <4>2. /\ o \in DP!Ovum /\ ova # <<>> /\ o = Head(ova) /\ ova' = Tail(ova)
            /\ o.tag \in End
        BY <3>1 DEF Ends, Taken
      <4>3. o # Born /\ o.req \in Reqs /\ o \in In(ova) /\ o.id \in Ids
        BY <4>2, OvumFields, OvaTaken
      <4>4. EventOK(o)
        BY <4>3 DEF QueueInv
      <4>5. sockets[id].req = o.req
        BY <4>1, <4>3, <4>4, EventOwned
      <4>6. cws[o.req].sat = "freed" /\ ~Asked(o.req)
        BY <4>2, <4>3, <4>4 DEF EventOK, AskedInv
      <4> QED
        BY <2>4, <4>5, <4>6 DEF Socket
    <3>2. ASSUME NEW o, Ends(o) \/ Accepts(o)
          PROVE  id \in DOMAIN sockets' /\ sockets'[id].req = sockets[id].req
      <4>1. CASE Ends(o)
        BY <3>1, <4>1 DEF Ends, Iris!Del
      <4>2. CASE Accepts(o)
        BY <4>2 DEF Accepts
      <4> QED
        BY <3>2, <4>1, <4>2
    <3>3. ASSUME NEW c, Connects(c)
          PROVE  id \in DOMAIN sockets' /\ sockets'[id].req = sockets[id].req
      BY <2>3, <3>3 DEF Connects, Iris!Put
    <3> QED
      BY <1>2, <2>1, <3>2, <3>3
      DEF KernelMoves, Loses, Redirects, Finishes, Requests, CancelsRequest, Talks
  <2>5. ASSUME NEW c \in WsReqs,
               Asked(c)' \/ cws'[c].sat \in {"pending"} \cup Socket
        PROVE  \E id \in DOMAIN sockets' : sockets'[id].req = c
    <3>1. CASE Asked(c) \/ cws[c].sat \in {"pending"} \cup Socket
      <4>1. PICK id \in DOMAIN sockets : sockets[id].req = c
        BY <3>1 DEF Listed
      <4> QED
        BY <2>4, <3>1, <4>1
    <3>2. ASSUME NEW id, Numbered(c, id)
          PROVE  \E j \in DOMAIN sockets' : sockets'[j].req = c
      <4>1. Connects(c)
        BY <3>2, AttemptsAssumption DEF Numbered, Requests, Redirects
      <4> QED
        BY <4>1 DEF Connects, Iris!Put
    <3> QED
      BY <2>2, <2>5, <3>1, <3>2
  <2>6. ASSUME NEW s \in watch'
        PROVE  /\ s[1] = 0 /\ s[2] \in DOMAIN sockets'
               /\ sockets'[s[2]].status = "accepted"
    <3>1. \A t \in watch : /\ t[1] = 0 /\ t[2] \in DOMAIN sockets
                           /\ sockets[t[2]].status = "accepted"
                           /\ t = <<t[1], t[2]>>
      BY DEF Listed, TypesOK
    <3>2. ASSUME NEW o, Accepts(o)
          PROVE  /\ s[1] = 0 /\ s[2] \in DOMAIN sockets'
                 /\ sockets'[s[2]].status = "accepted"
      <4>1. s \in watch \/ s = <<restarts, o.id>>
        BY <3>2 DEF Accepts
      <4> QED
        BY <3>1, <3>2, <4>1 DEF Accepts
    <3>3. ASSUME NEW o, Ends(o)
          PROVE  /\ s[1] = 0 /\ s[2] \in DOMAIN sockets'
                 /\ sockets'[s[2]].status = "accepted"
      <4>1. s \in watch /\ s # <<0, o.id>>
        BY <3>3 DEF Ends
      <4>2. s[2] # o.id
        BY <3>1, <4>1
      <4> QED
        BY <3>1, <3>3, <4>1, <4>2 DEF Ends, Iris!Del
    <3>4. ASSUME NEW c, Connects(c)
          PROVE  /\ s[1] = 0 /\ s[2] \in DOMAIN sockets'
                 /\ sockets'[s[2]].status = "accepted"
      BY <2>3, <3>1, <3>4 DEF Connects, Iris!Put
    <3> QED
      BY <1>2, <2>1, <3>1, <3>2, <3>3, <3>4
      DEF KernelMoves, Loses, Redirects, Finishes, Requests, CancelsRequest, Talks
  <2> QED
    BY <2>5, <2>6 DEF Listed
<1> QED
  BY <1>1, <1>2

LEMMA CancelsGrow ==
    ASSUME KernelMoves
    PROVE  cancels' = cancels \/ cancels' = cancels + 1
BY DEF KernelMoves, Births, Loses, Redirects, Finishes, Accepts, Ends, Requests,
       Connects, CancelsRequest, CancelsSocket, Talks, Taken

LEMMA WaitedKernel ==
    ASSUME TypesOK, QueueInv, restarts = 0 => FirstInv,
           OwnCancels /\ Born \notin In(ova) =>
             \A id \in DOMAIN conn : Waited(id),
           KernelMoves, OwnCancels', Born \notin In(ova'),
           NEW id \in DOMAIN conn'
    PROVE  Waited(id)'
<1>1. ~Births
  BY DEF Births, Iris!Nothing
<1>2. Born \notin In(ova)
  BY <1>1, KernelTakes
<1>3. outbound = TRUE /\ creq' = creq /\ restarts' = restarts
  BY <1>2, KernelOva DEF QueueInv
<1>4. cancels \in Nat /\ (cancels' = cancels \/ cancels' = cancels + 1)
  BY CancelsGrow DEF TypesOK
<1>5. \A j \in DOMAIN conn : Waited(j)
  BY <1>2, <1>3, <1>4 DEF OwnCancels, FirstProcess
\* What is asked for last is asked for.
<1>6. ASSUME NEW c, conn'[id] = c, Gives({Iris!Request(c, id)})
      PROVE  Waited(id)'
  <2>1. PICK x : x = Iris!Request(c, id)
    OBVIOUS
  <2>2. Unfollowed(eff', x, CancelsOf(id))
    BY <1>6, <2>1 DEF Gives
  <2>3. Unfollowed(eff', Iris!Request(conn'[id], id), CancelsOf(id))
    BY <1>6, <2>1, <2>2
  <2>4. Waited(id)' <=>
           \/ Unfollowed(eff', Iris!Request(conn'[id], id), CancelsOf(id))
           \/ Answered(conn[id], id)'
           \/ /\ creq'[conn'[id]].st \in {"addr", "ripe"}
              /\ creq'[conn'[id]].num = id /\ ~Cancelled(id)'
           \/ creq'[conn'[id]].st = "dropped"
    BY DEF Waited
  <2> QED
    BY <2>3, <2>4
<1>7. ASSUME NEW c, Requests(c), id = next_id, conn'[id] = c
      PROVE  Waited(id)'
  BY <1>3, <1>6, <1>7 DEF Requests
<1>8. ASSUME NEW o, NEW c, Redirects(o, c), id = o.id
      PROVE  Waited(id)'
  BY <1>6, <1>8 DEF Redirects, Iris!Put
<1>9. ASSUME id \in DOMAIN conn, conn'[id] = conn[id],
             ~\E o, c : Redirects(o, c) /\ id = o.id
      PROVE  Waited(id)'
  <2>1. PICK c : c = conn[id]
    OBVIOUS
  <2>2. ~Cancelling(id)
    <3>1. ~CancelsRequest(id)
      BY DEF CancelsRequest, Iris!Del
    <3>2. ASSUME CancelsSocket(id) PROVE FALSE
      <4>1. cancels' # 0 /\ id \in DOMAIN sockets
        BY <1>4, <3>2 DEF CancelsSocket
      <4>2. FirstInv
        BY <1>3, <4>1 DEF OwnCancels, FirstProcess
      <4> QED
        BY <1>9, <4>1, <4>2 DEF FirstInv, Numbers
    <3> QED
      BY <3>1, <3>2 DEF Cancelling
  <2>3. Answered(c, id) => Answered(c, id)'
    <3>1. CASE ova' = ova
      BY <3>1 DEF Answered
    <3>2. ASSUME NEW o, Taken(o), In(ova) = {o} \cup In(ova'),
                 \/ Loses(o) \/ Finishes(o) \/ Accepts(o) \/ Ends(o)
                 \/ \E d : Redirects(o, d)
          PROVE  o.tag # "receive" \/ o.id # id
      BY <1>9, <3>2 DEF Loses, Finishes, Accepts, Ends, End, Iris!Del
    <3>3. CASE ova' # ova
      BY <1>1, <3>2, <3>3, KernelTakes DEF Answered, Answers
    <3> QED
      BY <3>1, <3>3
  <2>4. /\ Cancelled(id)' => Cancelled(id)
        /\ \A x : Unfollowed(eff, x, CancelsOf(id))
                    => Unfollowed(eff', x, CancelsOf(id))
    BY <2>2, KernelGives
  <2>5. PICK x : x = Iris!Request(c, id)
    OBVIOUS
  <2>6. \/ Unfollowed(eff, x, CancelsOf(id))
        \/ Answered(c, id)
        \/ creq[c].st \in {"addr", "ripe"} /\ creq[c].num = id /\ ~Cancelled(id)
        \/ creq[c].st = "dropped"
    BY <1>5, <1>9, <2>1, <2>5 DEF Waited
  <2>7. \/ Unfollowed(eff', x, CancelsOf(id))
        \/ Answered(c, id)'
        \/ /\ creq'[c].st \in {"addr", "ripe"} /\ creq'[c].num = id
           /\ ~Cancelled(id)'
        \/ creq'[c].st = "dropped"
    BY <1>3, <2>3, <2>4, <2>6
  <2>8. conn'[id] = c
    BY <1>9, <2>1
  <2>9. Waited(id)' <=>
           \/ Unfollowed(eff', Iris!Request(conn'[id], id), CancelsOf(id))
           \/ Answered(conn[id], id)'
           \/ /\ creq'[conn'[id]].st \in {"addr", "ripe"}
              /\ creq'[conn'[id]].num = id /\ ~Cancelled(id)'
           \/ creq'[conn'[id]].st = "dropped"
    BY DEF Waited
  <2>10. Answered(c, id)' => Answered(conn[id], id)'
    BY <2>8 DEF Answered
  <2> QED
    BY <2>5, <2>7, <2>8, <2>9, <2>10
<1> QED
  BY <1>1, <1>7, <1>8, <1>9, KernelMaps

LEMMA KernelInductive ==
    ASSUME IInv, KernelMoves
    PROVE  IInv'
<1>1. DP!IInv /\ TypesOK /\ QueueInv /\ AskedInv
  BY DEF IInv
<1>2. DP!IInv' /\ restarts' = restarts
  BY <1>1, QuietKeeps DEF KernelMoves, Quiet
<1>3. TypesOK' /\ QueueInv' /\ AskedInv'
  BY <1>1, TypesKernel, QueueKernel, AskedKernel
<1>4. (restarts = 0 => FirstInv)'
  BY <1>1, <1>2, FirstKernel DEF IInv
<1>5. (restarts = 0 => \A id \in DOMAIN sockets : SocketOK(id))'
  BY <1>1, <1>2, SocketKernel DEF IInv
<1>6. (restarts = 0 /\ cancels = 0 => Listed)'
  <2>1. cancels' = 0 => cancels = 0
    BY <1>1, CancelsGrow DEF TypesOK
  <2> QED
    BY <1>1, <1>2, <2>1, ListedKernel DEF IInv
<1>7. (OwnCancels /\ Born \notin In(ova) => \A id \in DOMAIN conn : Waited(id))'
  <2>1. ASSUME OwnCancels', Born \notin In(ova'), NEW id \in DOMAIN conn'
        PROVE  Waited(id)'
    BY <1>1, <2>1, WaitedKernel DEF IInv
  <2> QED
    BY <2>1
<1> QED
  BY <1>2, <1>3, <1>4, <1>5, <1>6, <1>7 DEF IInv

-----------------------------------------------------------------------------
(* The invariant holds. *)

\* What a restart leaves of an attempt.
LEMMA RestartDriver ==
    ASSUME DP!IInv, TypesOK, AskedInv, Restart
    PROVE  DP!IInv'
<1> DEFINE freed == DP!FreedReq(DP!NoReq)
<1>1. /\ creq' = [c \in DP!Reqs |-> IF c \in asked THEN freed ELSE creq[c]]
      /\ cws' = [c \in DP!Reqs |-> DP!NoWs]
      /\ net' = [c \in DP!Reqs |-> "none"]
      /\ births' = 0 /\ out' = {} /\ told' = [c \in DP!Reqs |-> {}]
      /\ quits' = asked /\ fault' = "none"
  BY SamePieces DEF Restart, Reqs, DP!Reqs
<1>2. freed \in DP!CReq /\ freed.st = "freed" /\ ~freed.wsu /\ DP!NoWs \in DP!CWs
  <2>1. DP!NoReq \in DP!CReq
    BY MaxIdAssumption DEF DP!NoReq, DP!CReq, DP!Ids
  <2>2. freed \in DP!CReq /\ freed.st = "freed" /\ ~freed.wsu
    BY <2>1, DP!FreedReqType, AttemptsAssumption, MaxIdAssumption
  <2>3. DP!NoWs \in DP!CWs
    BY DEF DP!NoWs, DP!CWs
  <2> QED
    BY <2>2, <2>3
<1> HIDE DEF freed
<1>3. /\ \A c \in DP!Reqs : creq[c] \in DP!CReq
      /\ asked \subseteq DP!Reqs
  BY DEF DP!IInv, DP!TypeOK, TypesOK, Reqs, DP!Reqs
<1>4. DP!TypeOK'
  BY <1>1, <1>2, <1>3 DEF DP!TypeOK, DP!Net, DP!Faults
<1>5. ASSUME NEW c \in DP!Reqs PROVE DP!AttemptOK(c)'
  <2>1. cws'[c] = DP!NoWs /\ net'[c] = "none" /\ told'[c] = {}
    BY <1>1
  <2>2. DP!NoWs.sat = "none" /\ ~DP!NoWs.ceq
    BY DEF DP!NoWs
  <2>3. CASE c \in asked
    <3>1. creq'[c] = freed /\ c \in quits'
      BY <1>1, <2>3
    <3> QED
      BY <1>2, <2>1, <2>2, <3>1
      DEF DP!AttemptOK, DP!PairOK, DP!ToldOK, DP!WsOK
  <2>4. CASE c \notin asked
    <3>1. creq'[c] = creq[c] /\ c \notin quits'
      BY <1>1, <2>4
    <3>2. creq[c].st = "none"
      BY <2>4 DEF AskedInv, Reqs, DP!Reqs
    <3>3. ~creq[c].wsu
      BY <3>2 DEF DP!IInv, DP!AttemptOK, DP!PairOK
    <3> QED
      BY <2>1, <2>2, <3>1, <3>2, <3>3
      DEF DP!AttemptOK, DP!PairOK, DP!ToldOK, DP!WsOK
  <2> QED
    BY <2>3, <2>4
<1> QED
  BY <1>4, <1>5 DEF DP!IInv

LEMMA RestartInductive ==
    ASSUME IInv, Restart
    PROVE  IInv'
<1>1. DP!IInv /\ TypesOK /\ AskedInv
  BY DEF IInv
<1>2. /\ ova' = <<Born>> /\ eff' = <<>> /\ restarts' = restarts + 1
      /\ UNCHANGED <<conn, sockets, next_id, outbound, watch, asked, cancels>>
      /\ \A c \in Reqs : c \notin asked => creq'[c] = creq[c]
  BY DEF Restart, Born
<1>3. /\ restarts' \in Nat /\ restarts' # 0
  BY <1>1, <1>2 DEF TypesOK
<1>4. /\ In(ova') = {Born} /\ ova' \in Seq(DP!Ovum \cup {Born})
      /\ \A X : Once(ova', X) /\ Once(eff', X)
      /\ \A c : ~Asked(c)'
  <2>1. In(<<Born>>) = {Born} /\ <<Born>> \in Seq(DP!Ovum \cup {Born})
    BY InOne
  <2> QED
    BY <1>2, <2>1, OnceOne DEF Asked, In
<1>5. DP!IInv'
  BY <1>1, RestartDriver
<1>6. TypesOK'
  BY <1>1, <1>2, <1>3, <1>4 DEF TypesOK
<1>7. QueueInv'
  BY <1>2, <1>4 DEF QueueInv
<1>8. AskedInv'
  BY <1>1, <1>2, <1>4 DEF AskedInv
<1> QED
  BY <1>3, <1>4, <1>5, <1>6, <1>7, <1>8 DEF IInv

LEMMA InitInductive == ASSUME Init PROVE IInv
<1>1. /\ ova = <<Born>> /\ eff = <<>> /\ restarts = 0 /\ cancels = 0
      /\ conn = Iris!Nothing /\ sockets = Iris!Nothing /\ next_id = 0
      /\ outbound = FALSE /\ watch = {} /\ asked = {}
  BY DEF Init, Born, Iris!IrisInit
<1>2. DP!Init
  BY SamePieces DEF Init, Driver!Init, DP!Init, Driver!Reqs, DP!Reqs
<1>3. DP!IInv
  BY <1>2, DP!InitInv, AttemptsAssumption, MaxIdAssumption
<1>4. \A c \in Reqs : creq[c].st = "none" /\ net[c] = "none" /\ cws[c].sat = "none"
  BY <1>2 DEF DP!Init, Reqs, DP!Reqs, DP!NoReq, DP!NoWs
<1>5. /\ In(ova) = {Born} /\ ova \in Seq(DP!Ovum \cup {Born})
      /\ \A X : Once(ova, X) /\ Once(eff, X)
      /\ \A c, id : ~Asked(c) /\ ~AskedAs(c, id) /\ ~Cancelled(id)
  <2>1. In(<<Born>>) = {Born} /\ <<Born>> \in Seq(DP!Ovum \cup {Born})
    BY InOne
  <2> QED
    BY <1>1, <2>1, OnceOne DEF Asked, AskedAs, Cancelled, In
<1>6. DOMAIN conn = {} /\ DOMAIN sockets = {}
  BY <1>1 DEF Iris!Nothing
<1>7. TypesOK
  BY <1>1, <1>5, <1>6, FS_EmptySet DEF TypesOK
<1>8. QueueInv /\ AskedInv
  BY <1>1, <1>4, <1>5, <1>6 DEF QueueInv, AskedInv
<1>9. FirstInv
  BY <1>1, <1>4, <1>5, <1>6
  DEF FirstInv, Fresh, Numbers, Owned, CancelledOnce, CallbackOwed, Uses, Reqs
<1>10. Listed
  BY <1>1, <1>4, <1>5, <1>6 DEF Listed, Reqs, Socket
<1> QED
  BY <1>3, <1>5, <1>6, <1>7, <1>8, <1>9, <1>10 DEF IInv

\* With no attempt to make there is nothing to lose by an effect.
LEMMA NoAttempts ==
    ASSUME IInv, Reqs = {}, Ignores
    PROVE  IInv'
<1>1. TypesOK /\ DP!IInv' /\ KernelStays /\ UNCHANGED <<creq, cws, net, ova>>
  BY DEF IInv, Ignores
<1>2. PICK e : Takes(e)
  BY DEF Ignores
<1>3. /\ eff' \in Seq(DP!Effects) /\ In(eff') \subseteq In(eff)
      /\ \A X : Once(eff, X) => Once(eff', X)
  BY <1>1, <1>2, EffectsTaken
<1>4. /\ DOMAIN conn = {} /\ DOMAIN sockets = {}
      /\ PlainReqs = {} /\ WsReqs = {}
  BY <1>1 DEF TypesOK, Reqs
<1>5. TypesOK' /\ QueueInv'
  BY <1>1, <1>3 DEF IInv, TypesOK, KernelStays, QueueInv, EventOK
<1>6. AskedInv'
  BY <1>1, <1>4 DEF AskedInv, KernelStays
<1>7. (restarts = 0 => FirstInv)'
  <2>1. SUFFICES ASSUME restarts = 0 PROVE FirstInv'
    BY <1>1 DEF KernelStays
  <2>2. FirstInv /\ Born \notin In(ova)
    BY <1>2, <2>1 DEF IInv, FirstInv, Fresh, Takes
  <2>3. \A id : Cancelled(id)' => Cancelled(id)
    BY <1>3 DEF Cancelled
  <2>4. Fresh' /\ Numbers' /\ Owned' /\ CancelledOnce' /\ CallbackOwed'
    BY <1>1, <1>3, <1>4, <2>2, <2>3
    DEF FirstInv, Fresh, Numbers, Owned, CancelledOnce, CallbackOwed, KernelStays
  <2> QED
    BY <2>4 DEF FirstInv
<1>8. (restarts = 0 /\ cancels = 0 => Listed)'
  BY <1>1, <1>4 DEF IInv, Listed, KernelStays
<1> QED
  BY <1>1, <1>4, <1>5, <1>6, <1>7, <1>8 DEF IInv, KernelStays

LEMMA NextInductive == ASSUME IInv, [Next]_vars PROVE IInv'
<1>1. DP!IInv /\ TypesOK
  BY DEF IInv
<1>2. ASSUME NEW c \in Reqs, Settle(c) \/ Peer(c) PROVE IInv'
  BY <1>1, <1>2, CallbackMoves, DriverInductive
<1>3. CASE Release
  <2>1. CASE Ignores /\ \E c : c \in Reqs
    BY <2>1, DriverInductive
  <2>2. CASE \E c \in Reqs : Moves(c)
    BY <2>2, DriverInductive
  <2>3. CASE Ignores /\ Reqs = {}
    BY <2>3, NoAttempts
  <2> QED
    BY <1>1, <1>3, <2>1, <2>2, <2>3, ReleaseMoves
<1>4. CASE Compute
  BY <1>1, <1>4, ComputeMoves, KernelInductive
<1>5. CASE Agent \/ CancelWebsocket
  BY <1>1, <1>5, AgentMoves, KernelInductive
<1>6. CASE Restart
  BY <1>6, RestartInductive
<1>7. CASE UNCHANGED vars
  <2>1. DP!IInv'
    BY <1>1, <1>7 DEF vars, driverVars, DP!IInv, DP!TypeOK, DP!AttemptOK
  <2> QED
    BY <1>7, <2>1
    DEF vars, driverVars, irisVars, IInv, TypesOK, QueueInv, EventOK, AskedInv,
        FirstInv, Fresh, Numbers, Owned, CancelledOnce, CallbackOwed, SocketOK,
        Listed, Waited, Uses, Busy, Asked, AskedAs, Cancelled, Answered, Told,
        OwnCancels, FirstProcess
<1> QED
  BY <1>2, <1>3, <1>4, <1>5, <1>6, <1>7 DEF Next

-----------------------------------------------------------------------------
(* The theorems. *)

\* The invariant of driver, iris and agents with what is between them.
THEOREM Inductive == Spec => []IInv
BY InitInductive, NextInductive, PTL DEF Spec

\* However effects, callbacks, cancels and answers interleave, a callback of
\* libuv or libh2o finds the request it is for: _cttp_creq_quit() leaves one
\* that is being resolved, and nothing cancels it twice.
THEOREM CallbacksFindTheirRequest == Spec => []CallbackHasRequest
<1>1. IInv => CallbackHasRequest
  BY DEF IInv, FirstInv, CallbackOwed, CallbackHasRequest, FirstProcess
<1> QED
  BY <1>1, Inductive, PTL

\* +receive and +ws-event look an event's number up and nothing else, and for
\* as long as no process died it is their own duct they find.
THEOREM EventsReachTheirDuct == Spec => []RoutedToRequester
<1>1. ASSUME IInv, FirstProcess, NEW i \in DOMAIN ova, ova[i].tag # "born"
      PROVE  /\ ova[i].tag = "receive" /\ ova[i].id \in DOMAIN conn
                  => conn[ova[i].id] = ova[i].req
             /\ ova[i].tag # "receive" /\ ova[i].id \in DOMAIN sockets
                  => sockets[ova[i].id].req = ova[i].req
  <2> DEFINE o == ova[i]
  <2>1. TypesOK /\ QueueInv /\ FirstInv
    BY <1>1 DEF IInv, FirstProcess
  <2>2. o \in In(ova) /\ o # Born /\ o \in DP!Ovum
    BY <1>1, <2>1 DEF In, Born, TypesOK
  <2>3. o.req \in Reqs /\ o.id \in Ids /\ EventOK(o)
    BY <2>1, <2>2 DEF QueueInv, DP!Ovum, Reqs, DP!Reqs, Ids, DP!Ids
  <2>4. ASSUME o.tag = "receive", o.id \in DOMAIN conn
        PROVE  conn[o.id] = o.req
    <3>1. Busy(o.req, o.id)
      BY <2>2, <2>4 DEF Busy, Answered, Answers
    <3> QED
      BY <2>1, <2>3, <2>4, <3>1 DEF FirstInv, Owned
  <2>5. ASSUME o.id \in DOMAIN sockets
        PROVE  sockets[o.id].req = o.req
    <3>1. Uses(o.req, o.id)
      BY <2>3 DEF Uses, EventOK
    <3> QED
      BY <2>1, <2>3, <2>5, <3>1 DEF FirstInv, Owned
  <2> QED
    BY <2>4, <2>5
<1>2. IInv => RoutedToRequester
  BY <1>1 DEF RoutedToRequester
<1> QED
  BY <1>2, Inductive, PTL

\* A socket of iris is not left behind: until the process dies the driver has
\* it, is about to be given it, or an event that ends it is in the queue.
THEOREM NoSocketIsForgotten == Spec => []NoGhostSockets
<1>1. ASSUME IInv, FirstProcess, NEW id \in DOMAIN sockets, NEW c,
             c = sockets[id].req
      PROVE  \/ Planned(c, {"reject", "disconnect"})
             \/ /\ sockets[id].status = "pending"
                /\ Given(c) \/ cws[c].sat = "pending" \/ Planned(c, {"accept"})
             \/ sockets[id].status = "accepted" /\ Driver!HasSocket(c)
  <2>1. SocketOK(id)
    BY <1>1 DEF IInv, FirstProcess
  <2>2. CASE Told(End, c)
    BY <2>2 DEF Told, End, Planned, In
  <2>3. CASE /\ sockets[id].status = "pending"
             /\ AskedAs(c, id)
    <3>1. Given(c)
      BY <2>3 DEF AskedAs, Asks, Asking, Given, In
    <3> QED
      BY <2>3, <3>1
  <2>4. CASE sockets[id].status = "pending" /\ cws[c].sat = "pending"
    BY <2>4
  <2>5. CASE sockets[id].status = "pending" /\ Told({"accept"}, c)
    <3>1. Planned(c, {"accept"})
      BY <2>5 DEF Told, Planned, In
    <3> QED
      BY <2>5, <3>1
  <2>6. CASE sockets[id].status = "accepted" /\ cws[c].sat \in Socket
    BY <2>6, SamePieces DEF DP!HasSocket, Socket
  <2> QED
    BY <1>1, <2>1, <2>2, <2>3, <2>4, <2>5, <2>6 DEF SocketOK
<1>2. IInv => NoGhostSockets
  BY <1>1 DEF NoGhostSockets
<1> QED
  BY <1>2, Inductive, PTL

\* A connection that a peer sees open has a socket in iris, and agents hear of
\* open sockets only; cancelling a websocket alone can part the two.
THEOREM OpenSocketsListed == Spec => []OpenIsKnown
<1>1. ASSUME IInv, FirstProcess, cancels = 0
      PROVE  /\ \A c \in WsReqs : Driver!HasSocket(c)
                  => \E id \in DOMAIN sockets : sockets[id].req = c
             /\ \A s \in watch : s[2] \in DOMAIN sockets
                                   /\ sockets[s[2]].status = "accepted"
  <2>1. Listed
    BY <1>1 DEF IInv, FirstProcess
  <2> QED
    BY <2>1, SamePieces DEF Listed, DP!HasSocket, Socket
<1>2. IInv => OpenIsKnown
  BY <1>1 DEF OpenIsKnown
<1> QED
  BY <1>2, Inductive, PTL

\* In any process, the first or a later one after its %born: what iris waits
\* for the driver still works on, will be given before any cancel of it, or has
\* answered.  The url that does not parse is the only request that is lost.
THEOREM NoRequestIsForgotten == Spec => []NoGhostRequests
<1>1. ASSUME IInv, ~Reborn, OwnCancels, NEW id \in DOMAIN conn,
             NEW c, c = conn[id]
      PROVE  \/ Given(c) \/ Planned(c, {"receive"})
             \/ Driver!Alive(c) /\ c \notin quits
             \/ creq[c].st = "dropped"
  <2>1. Born \notin In(ova)
    BY <1>1 DEF Reborn, In, Born
  <2>2. Waited(id) /\ DP!IInv /\ c \in PlainReqs
    BY <1>1, <2>1 DEF IInv, TypesOK
  <2>3. CASE Unfollowed(eff, Iris!Request(c, id), CancelsOf(id))
    <3>1. Iris!Request(c, id) \in In(eff)
      BY <2>3, UnfollowedIn
    <3>2. Given(c)
      BY <3>1 DEF Given, In, Iris!Request
    <3> QED
      BY <3>2
  <2>4. CASE Answered(c, id)
    <3>1. Planned(c, {"receive"})
      BY <2>4 DEF Answered, Answers, Planned, In
    <3> QED
      BY <3>1
  <2>5. CASE creq[c].st \in {"addr", "ripe"}
    <3>1. c \notin quits
      BY <2>2, <2>5 DEF DP!IInv, DP!AttemptOK, DP!ToldOK, DP!Reqs
    <3> QED
      BY <2>5, <3>1, SamePieces DEF DP!Alive
  <2>6. CASE creq[c].st = "dropped"
    BY <2>6
  <2> QED
    BY <1>1, <2>2, <2>3, <2>4, <2>5, <2>6 DEF Waited
<1>2. IInv => NoGhostRequests
  BY <1>1 DEF NoGhostRequests
<1> QED
  BY <1>2, Inductive, PTL

=============================================================================
