------------------------------ MODULE WsClient ------------------------------
(***************************************************************************)
(* The client side end to end: the runtime's HTTP client driver            *)
(* (CttpDriver) and the kernel's HTTP client vane with the agents that use *)
(* it (Iris), joined by the queue of planned events and the effects not yet*)
(* released.  A runtime process may die and be started again: its first    *)
(* event is %born, but the drivers that u3_auto_next() asks before this one*)
(* (fore, term, unix) may make agents act before it.                       *)
(***************************************************************************)
EXTENDS Naturals, Sequences, FiniteSets

CONSTANTS
    PlainReqs,   \* attempts that are requests
    WsReqs,      \* attempts that are websocket handshakes
    duct,        \* the duct an attempt is for
    MaxId,       \* bound of the checks: numbers given out before a %born
    MaxQueue,    \* bound of the checks: length of a queue that chatter may fill
    Cancels,     \* bound of the checks: how often agents cancel a websocket
    Restarts     \* bound of the checks: how often the runtime restarts

VARIABLES
    creq, cws, net, births, out, told, quits, fault,             \* CttpDriver
    conn, sockets, next_id, outbound, watch, asked, eff,         \* Iris
    ova,         \* events planned by the runtime, oldest first
    cancels,     \* how often agents have cancelled a websocket
    restarts     \* how often the runtime was restarted

driverVars == <<creq, cws, net, births, out, told, quits, fault>>
irisVars == <<conn, sockets, next_id, outbound, watch, asked, eff>>
vars == <<driverVars, irisVars, ova, cancels, restarts>>

Driver == INSTANCE CttpDriver
Iris == INSTANCE Iris

Reqs == PlainReqs \cup WsReqs
Ids == 0 .. MaxId

ASSUME AttemptsAssumption == PlainReqs \cap WsReqs = {}
ASSUME MaxIdAssumption == MaxId \in Nat

Init ==
    /\ Driver!Init
    /\ Iris!IrisInit
    /\ ova = <<[tag |-> "born"]>>
    /\ cancels = 0
    /\ restarts = 0

-----------------------------------------------------------------------------
(* The runtime. *)

\* u3_auto_plan(): what the driver's step planned joins the queue.
Enqueue == ova' = IF out' = {} THEN ova ELSE Append(ova, CHOOSE o \in out' : TRUE)

\* What ends a phase of a request: libuv's and libh2o's own timeouts see to it.
Settle(c) ==
    /\ \/ Driver!cttp_creq_resolve_cb(c)
       \/ Driver!cttp_creq_on_connect(c)
       \/ Driver!cttp_creq_on_head(c)
    /\ Enqueue
    /\ UNCHANGED <<irisVars, cancels, restarts>>

\* What a peer does, who sends no frame into a full queue.
Peer(c) ==
    /\ \/ Driver!cttp_creq_on_body(c)
       \/ Driver!cttp_ws_ends(c)
       \/ Len(ova) < MaxQueue /\ Driver!cttp_ws_message(c)
    /\ Enqueue
    /\ UNCHANGED <<irisVars, cancels, restarts>>

\* The oldest effect is released to the driver.
Release ==
    /\ eff # <<>>
    /\ Driver!cttp_ef_http_client(Head(eff))
    /\ eff' = Tail(eff)
    /\ Enqueue
    /\ UNCHANGED <<conn, sockets, next_id, outbound, watch, asked, cancels,
                   restarts>>

\* The process dies, on its own fault or from outside, and is started again.
\* What was asked of it is taken back with it.
Restart ==
    /\ restarts < Restarts
    /\ restarts' = restarts + 1
    /\ creq' = [c \in Reqs |-> IF c \in asked
                               THEN Driver!FreedReq(Driver!NoReq) ELSE creq[c]]
    /\ cws' = [c \in Reqs |-> Driver!NoWs]
    /\ net' = [c \in Reqs |-> "none"]
    /\ births' = 0
    /\ out' = {}
    /\ told' = [c \in Reqs |-> {}]
    /\ quits' = asked
    /\ fault' = "none"
    /\ ova' = <<[tag |-> "born"]>>
    /\ eff' = <<>>
    /\ UNCHANGED <<conn, sockets, next_id, outbound, watch, asked, cancels>>

-----------------------------------------------------------------------------
(* The kernel. *)

QuietDriver ==
    /\ out' = {}
    /\ UNCHANGED <<creq, cws, net, births, told, quits, fault>>

\* Iris takes the oldest event (+call).
Compute ==
    LET o == Head(ova) IN
    /\ ova # <<>>
    /\ \/ o.tag = "born" /\ Iris!born
       \/ o.tag = "receive" /\ Iris!receive(o.id)
       \/ o.tag \notin {"born", "receive"}
            /\ Iris!ws_event(restarts, o.id, o.tag)
    /\ ova' = Tail(ova)
    /\ QuietDriver
    /\ UNCHANGED <<cancels, restarts>>

\* Agents act of their own accord.
Agent ==
    /\ Len(eff) < MaxQueue
    /\ \/ \E c \in Reqs : Iris!request(c) \/ Iris!ws_connect(c)
       \/ \E id \in Ids : \/ Iris!cancel(id)
                          \/ Iris!kick(id)
                          \/ Iris!message(id)
                          \/ Iris!disconnect(id)
    /\ QuietDriver
    /\ UNCHANGED <<ova, cancels, restarts>>

\* An agent cancels a websocket it asked for (%cancel-websocket).
CancelWebsocket ==
    /\ cancels < Cancels
    /\ cancels' = cancels + 1
    /\ \E id \in DOMAIN sockets : Iris!ws_cancel(id)
    /\ QuietDriver
    /\ UNCHANGED <<ova, restarts>>

-----------------------------------------------------------------------------

Running == fault = "none"

Next ==
    \/ /\ Running
       /\ \/ \E c \in Reqs : Settle(c) \/ Peer(c)
          \/ Release
          \/ Compute
          \/ Agent
          \/ CancelWebsocket
    \/ Restart

Spec == Init /\ [][Next]_vars

\* Queues are served, resolutions end, connections and answers that do not
\* come time out.  Neither peers nor agents owe anything.
Fairness ==
    /\ WF_vars(Running /\ Release)
    /\ WF_vars(Running /\ Compute)
    /\ \A c \in Reqs : WF_vars(Running /\ Settle(c))

FairSpec == Spec /\ Fairness

-----------------------------------------------------------------------------
(* Properties. *)

Planned(c, tags) == \E i \in DOMAIN ova : ova[i].tag \in tags /\ ova[i].req = c

Given(c) == \E i \in DOMAIN eff :
               eff[i].tag \in {"request", "websocket-handshake"} /\ eff[i].req = c

Reborn == \E i \in DOMAIN ova : ova[i].tag = "born"

\* The process in which iris gave out every number it knows.  A gift computed
\* between a restart and its %born may have a number that is given out again,
\* and the sockets of a dead process are never forgotten.
FirstProcess == restarts = 0

\* An event of a request or a session reaches the duct that asked for it, even
\* though +receive and +ws-event look at its number alone.
RoutedToRequester ==
    FirstProcess => \A i \in DOMAIN ova : ova[i].tag # "born" =>
      /\ ova[i].tag = "receive" /\ ova[i].id \in DOMAIN conn
           => conn[ova[i].id] = ova[i].req
      /\ ova[i].tag # "receive" /\ ova[i].id \in DOMAIN sockets
           => sockets[ova[i].id].req = ova[i].req

\* libuv and libh2o owe a request exactly the callback its state waits for, so
\* none finds it freed: _cttp_creq_quit() leaves a request that is being
\* resolved, and iris never cancels it a second time, which would free it.
CallbackHasRequest ==
    FirstProcess => \A c \in PlainReqs :
      /\ net[c] = "addr" <=> creq[c].st \in {"addr", "quit"}
      /\ net[c] \in {"connect", "head", "body"} <=> creq[c].st = "ripe"

\* No agent cancels a websocket of a dead process: its number may by then be
\* that of a request, which is cancelled in its stead (+born leaves sockets.state).
OwnCancels == FirstProcess \/ cancels = 0

\* A request iris waits for is one the runtime still works on, or its answer
\* is on the way: nobody waits for ever on what is already gone.  A request of
\* a process that died is forgotten with the %born of the next.  Only a url
\* that does not parse is dropped without an answer.
NoGhostRequests ==
    Running /\ ~Reborn /\ OwnCancels => \A id \in DOMAIN conn :
      LET c == conn[id] IN
      \/ Given(c) \/ Planned(c, {"receive"})
      \/ Driver!Alive(c) /\ c \notin quits
      \/ creq[c].st = "dropped"

\* A socket iris lists is one the runtime has in the same state, or what
\* happened to it is on the way.
NoGhostSockets ==
    Running /\ FirstProcess => \A id \in DOMAIN sockets :
      LET c == sockets[id].req IN
      \/ Planned(c, {"reject", "disconnect"})
      \/ /\ sockets[id].status = "pending"
         /\ Given(c) \/ cws[c].sat = "pending" \/ Planned(c, {"accept"})
      \/ /\ sockets[id].status = "accepted"
         /\ Driver!HasSocket(c)

\* A connection a peer sees open is one iris has a socket for, and only the
\* agent of such a socket is subscribed to.  An agent that cancels an open
\* websocket breaks both (%cancel-request looks among requests only).
OpenIsKnown ==
  FirstProcess /\ cancels = 0 =>
    /\ \A c \in WsReqs : Driver!HasSocket(c)
         => \E id \in DOMAIN sockets : sockets[id].req = c
    /\ \A s \in watch : s[2] \in DOMAIN sockets
                          /\ sockets[s[2]].status = "accepted"

\* A handshake is answered one way or the other: resolution, connection and
\* answer all have an end.  Only a restart loses it (+born leaves sockets.state).
HandshakeAnswered ==
    \A c \in WsReqs :
      LET waits == \E id \in DOMAIN sockets :
                      sockets[id] = [req |-> c, status |-> "pending"] IN
      waits ~> ~waits \/ ~Running \/ ~FirstProcess

\* A request is answered, or cancelled by the %born of the next process, unless
\* its url does not parse or its peer is still sending the body.  Here too an
\* agent may have cancelled another's request.
RequestAnswered ==
    \A c \in PlainReqs :
      LET waits == \E id \in DOMAIN conn : conn[id] = c
          excused == net[c] = "body" \/ creq[c].st = "dropped" IN
      waits ~> ~waits \/ excused \/ ~Running \/ ~OwnCancels

=============================================================================
