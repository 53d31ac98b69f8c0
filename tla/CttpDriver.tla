----------------------------- MODULE CttpDriver -----------------------------
(***************************************************************************)
(* The HTTP client driver of the runtime, src/vere/pkg/vere/io/cttp.c: the *)
(* life of an outgoing request (u3_creq) and of the websocket session      *)
(* (u3_cws) a handshake opens, under an arbitrary kernel.  libuv, which    *)
(* resolves names, and libh2o, which runs requests, are the environment.   *)
(*                                                                         *)
(* An attempt c in Reqs is one effect that asks for a connection; its      *)
(* u3_creq and its u3_cws have the same name.  The number an attempt is    *)
(* given (num_l, wid_l) is the kernel's, and nothing keeps the kernel from *)
(* giving it twice.                                                        *)
(***************************************************************************)
EXTENDS Naturals

CONSTANTS
    PlainReqs,  \* attempts that are requests
    WsReqs,     \* attempts that are websocket handshakes
    MaxId       \* largest number the kernel gives out

Reqs == PlainReqs \cup WsReqs

ASSUME AttemptsAssumption == PlainReqs \cap WsReqs = {}
ASSUME MaxIdAssumption == MaxId \in Nat

VARIABLES
    creq,       \* u3_creq of every attempt
    cws,        \* u3_cws of every attempt that is a handshake
    net,        \* the callback libuv or libh2o still owes the attempt
    births,     \* attempts so far; orders both lists
    out,        \* the events this step planned for iris: none or one
    told,       \* history: the tags of the events planned for an attempt
    quits,      \* history: requests a %cancel-request found
    fault       \* the first undefined behaviour reached; the process stops

vars == <<creq, cws, net, births, out, told, quits, fault>>

Ids == 0 .. MaxId

\* u3_csat; u3_csat_conn lasts no longer than a call.  "dropped" is an attempt
\* whose url does not parse: it has no u3_creq.
CReq == [st    : {"none", "addr", "quit", "ripe", "freed", "dropped"},
         num   : Ids,
         wsu   : BOOLEAN,                                   \* wsu_u
         birth : Nat]
\* u3_cwsat; u3_cws_closed lasts no longer than a call.
CWs == [sat : {"none", "pending", "open", "closing", "freed"},
        ceq : BOOLEAN]                                      \* ceq_u
Net == {"none", "addr", "connect", "head", "body"}
Tags == {"receive", "accept", "reject", "message", "disconnect"}
Ovum == [tag : Tags, req : Reqs, id : Ids]
Faults == {"none", "freed request"}

NoReq == [st |-> "none", num |-> 0, wsu |-> FALSE, birth |-> 0]
NoWs == [sat |-> "none", ceq |-> FALSE]

Init ==
    /\ creq = [c \in Reqs |-> NoReq]
    /\ cws = [c \in Reqs |-> NoWs]
    /\ net = [c \in Reqs |-> "none"]
    /\ births = 0
    /\ out = {}
    /\ told = [c \in Reqs |-> {}]
    /\ quits = {}
    /\ fault = "none"

-----------------------------------------------------------------------------
(* Pieces shared by the handlers. *)

\* u3_auto_plan(), by _cttp_http_client_receive() or _cttp_ws_plan_event().
Plan(tag, c, id) ==
    /\ out' = {[tag |-> tag, req |-> c, id |-> id]}
    /\ told' = [told EXCEPT ![c] = @ \cup {tag}]

PlanNothing == out' = {} /\ UNCHANGED told

\* The request is in the driver's list.
Alive(c) == creq[c].st \in {"addr", "quit", "ripe"}

\* The session is in the driver's list.
Linked(c) == cws[c].sat \in {"pending", "open", "closing"}

\* _cttp_creq_find(): the list is searched from its youngest request.
FoundReq(c, id) ==
    /\ Alive(c) /\ creq[c].num = id
    /\ \A d \in Reqs : Alive(d) /\ creq[d].num = id
                          => creq[d].birth <= creq[c].birth

\* _cttp_ws_find(): so is the list of sessions.
FoundWs(c, id) ==
    /\ Linked(c) /\ creq[c].num = id
    /\ \A d \in Reqs : Linked(d) /\ creq[d].num = id
                          => creq[d].birth <= creq[c].birth

\* _cttp_creq_free(), _cttp_ws_close().
FreedReq(r) == [r EXCEPT !.st = "freed", !.wsu = FALSE]
Dropped(id) == [NoReq EXCEPT !.st = "dropped", !.num = id]
FreedWs == [sat |-> "freed", ceq |-> FALSE]

\* Mutant: the session is not closed with its request.
Failed_SessionStays(c, id, ws) ==
    /\ UNCHANGED cws
    /\ Plan(IF ws THEN "reject" ELSE "receive", c, id)

\* What _cttp_creq_fail(), _cttp_creq_respond() and _cttp_ws_fail_handshake()
\* tell iris: a request is answered, a handshake is rejected and its session
\* freed.
Failed(c, id, ws) ==
    /\ cws' = [cws EXCEPT ![c] = IF ws THEN FreedWs ELSE @]
    /\ Plan(IF ws THEN "reject" ELSE "receive", c, id)

\* Mutant: the end of a request is not reported.
Finished_Silent(c) ==
    /\ cws' = [cws EXCEPT ![c] = IF creq[c].wsu THEN FreedWs ELSE @]
    /\ creq' = [creq EXCEPT ![c] = FreedReq(@)]
    /\ net' = [net EXCEPT ![c] = "none"]
    /\ PlanNothing
    /\ UNCHANGED fault

\* The request ends with an answer.
Finished(c) ==
    /\ Failed(c, creq[c].num, creq[c].wsu)
    /\ creq' = [creq EXCEPT ![c] = FreedReq(@)]
    /\ net' = [net EXCEPT ![c] = "none"]
    /\ UNCHANGED fault

\* A callback on a request that was freed.
Dangling(c) ==
    /\ creq[c].st = "freed"
    /\ fault' = "freed request"
    /\ PlanNothing
    /\ UNCHANGED <<creq, cws, net>>

-----------------------------------------------------------------------------
(* Effects that ask for a connection. *)

\* _cttp_creq_new(), _cttp_creq_start(): a host is resolved first, an address
\* connected to at once; either may fail on the spot.
creq_start(c, id) ==
    LET ws == c \in WsReqs
        r == [st |-> "addr", num |-> id, wsu |-> ws, birth |-> births]
        s == [sat |-> "pending", ceq |-> TRUE] IN
    \/ /\ creq' = [creq EXCEPT ![c] = r]
       /\ net' = [net EXCEPT ![c] = "addr"]
       /\ cws' = [cws EXCEPT ![c] = IF ws THEN s ELSE @]
       /\ PlanNothing
    \/ /\ creq' = [creq EXCEPT ![c] = [r EXCEPT !.st = "ripe"]]
       /\ net' = [net EXCEPT ![c] = "connect"]
       /\ cws' = [cws EXCEPT ![c] = IF ws THEN s ELSE @]
       /\ PlanNothing
    \/ /\ creq' = [creq EXCEPT ![c] = FreedReq(r)]
       /\ Failed(c, id, ws)
       /\ UNCHANGED net

\* %request: one whose url does not parse is dropped, and iris is not told.
cttp_request(c, id) ==
    /\ c \in PlainReqs /\ creq[c].st = "none"
    /\ \/ creq_start(c, id)
       \/ /\ creq' = [creq EXCEPT ![c] = Dropped(id)]
          /\ PlanNothing
          /\ UNCHANGED <<cws, net>>
    /\ births' = births + 1
    /\ UNCHANGED <<quits, fault>>

\* _cttp_ws_start(): the session is linked, then its handshake is a request.
cttp_ws_start(c, id) ==
    /\ c \in WsReqs /\ creq[c].st = "none"
    /\ \/ creq_start(c, id)
       \/ /\ creq' = [creq EXCEPT ![c] = Dropped(id)]
          /\ Failed(c, id, TRUE)
          /\ UNCHANGED net
    /\ births' = births + 1
    /\ UNCHANGED <<quits, fault>>

-----------------------------------------------------------------------------
(* Callbacks of a request. *)

\* Mutant: cancelled requests are connected.
cttp_creq_resolve_cb_Connects(c) ==
    /\ net[c] = "addr"
    /\ \/ Dangling(c)
       \/ /\ Alive(c)
          /\ \/ Finished(c)
             \/ /\ creq' = [creq EXCEPT ![c].st = "ripe"]
                /\ net' = [net EXCEPT ![c] = "connect"]
                /\ PlanNothing
                /\ UNCHANGED <<cws, fault>>
    /\ UNCHANGED <<births, quits>>

\* _cttp_creq_resolve_cb(): a request cancelled meanwhile is freed; another
\* fails, or is connected, which may fail on the spot.
cttp_creq_resolve_cb(c) ==
    /\ net[c] = "addr"
    /\ \/ Dangling(c)
       \/ /\ creq[c].st = "quit"
          /\ creq' = [creq EXCEPT ![c] = FreedReq(@)]
          /\ net' = [net EXCEPT ![c] = "none"]
          /\ PlanNothing
          /\ UNCHANGED <<cws, fault>>
       \/ creq[c].st = "addr" /\ Finished(c)
       \/ /\ creq[c].st = "addr"
          /\ creq' = [creq EXCEPT ![c].st = "ripe"]
          /\ net' = [net EXCEPT ![c] = "connect"]
          /\ PlanNothing
          /\ UNCHANGED <<cws, fault>>
    /\ UNCHANGED <<births, quits>>

\* _cttp_creq_on_connect(): the request is written, or fails.
cttp_creq_on_connect(c) ==
    /\ net[c] = "connect"
    /\ \/ Dangling(c)
       \/ Alive(c) /\ Finished(c)
       \/ /\ Alive(c)
          /\ net' = [net EXCEPT ![c] = "head"]
          /\ PlanNothing
          /\ UNCHANGED <<creq, cws, fault>>
    /\ UNCHANGED <<births, quits>>

\* The session takes the socket over and the request is freed.
Upgraded(c) ==
    /\ creq' = [creq EXCEPT ![c] = FreedReq(@)]
    /\ cws' = [cws EXCEPT ![c] = [sat |-> "open", ceq |-> FALSE]]
    /\ Plan("accept", c, creq[c].num)

\* _cttp_creq_on_head(): an error, the whole answer, or the head of one with a
\* body; for a handshake a refusal or the upgrade.
cttp_creq_on_head(c) ==
    /\ net[c] = "head"
    /\ \/ Dangling(c)
       \/ Alive(c) /\ Finished(c)
       \/ /\ Alive(c) /\ creq[c].wsu
          /\ Upgraded(c)
          /\ net' = [net EXCEPT ![c] = "none"]
          /\ UNCHANGED fault
       \/ /\ Alive(c) /\ ~creq[c].wsu
          /\ net' = [net EXCEPT ![c] = "body"]
          /\ PlanNothing
          /\ UNCHANGED <<creq, cws, fault>>
    /\ UNCHANGED <<births, quits>>

\* _cttp_creq_on_body(): the end of the body or an error; a piece of it is
\* only gathered.
cttp_creq_on_body(c) ==
    /\ net[c] = "body"
    /\ \/ Dangling(c)
       \/ Alive(c) /\ Finished(c)
    /\ UNCHANGED <<births, quits>>

-----------------------------------------------------------------------------
(* Ends from the kernel. *)

\* Mutant: a request being resolved is freed at once.
creq_quit_AtOnce(c) ==
    /\ quits' = quits \cup {c}
    /\ creq' = [creq EXCEPT ![c] = FreedReq(@)]
    /\ net' = [net EXCEPT ![c] = IF creq[c].st = "ripe" /\ ~creq[c].wsu
                                 THEN "none" ELSE @]
    /\ IF creq[c].wsu THEN Failed(c, creq[c].num, TRUE)
       ELSE PlanNothing /\ UNCHANGED cws
    /\ UNCHANGED <<births, fault>>

\* _cttp_creq_quit(): a handshake is rejected and freed, whatever callback it
\* still waits for; a request waits for its address to be resolved; any other
\* is cancelled in libh2o and freed.
creq_quit(c) ==
    /\ quits' = quits \cup {c}
    /\ \/ /\ creq[c].wsu
          /\ Failed(c, creq[c].num, TRUE)
          /\ creq' = [creq EXCEPT ![c] = FreedReq(@)]
          /\ UNCHANGED net
       \/ /\ ~creq[c].wsu /\ creq[c].st = "addr"
          /\ creq' = [creq EXCEPT ![c].st = "quit"]
          /\ PlanNothing
          /\ UNCHANGED <<cws, net>>
       \/ /\ ~creq[c].wsu /\ creq[c].st # "addr"
          /\ creq' = [creq EXCEPT ![c] = FreedReq(@)]
          /\ net' = [net EXCEPT ![c] = IF @ = "addr" THEN @ ELSE "none"]
          /\ PlanNothing
          /\ UNCHANGED cws
    /\ UNCHANGED <<births, fault>>

\* Mutant: the end of the session is not reported.
ws_close_Silent(c) ==
    /\ cws' = [cws EXCEPT ![c] = FreedWs]
    /\ creq' = [creq EXCEPT ![c] = IF cws[c].ceq THEN FreedReq(@) ELSE @]
    /\ net' = [net EXCEPT ![c] = IF @ = "addr" THEN @ ELSE "none"]
    /\ PlanNothing

\* _cttp_ws_close() with an event: a request still waiting goes with its
\* session, and libh2o's client if there is one; a resolution goes on.
ws_close(c) ==
    /\ cws' = [cws EXCEPT ![c] = FreedWs]
    /\ creq' = [creq EXCEPT ![c] = IF cws[c].ceq THEN FreedReq(@) ELSE @]
    /\ net' = [net EXCEPT ![c] = IF @ = "addr" THEN @ ELSE "none"]
    /\ Plan("disconnect", c, creq[c].num)

\* _cttp_ws_queue_close(): an open session sends a close frame and waits for
\* the peer's, unless it cannot write; any other, also one that waits
\* already, is closed directly.
ws_queue_close(c) ==
    /\ \/ /\ cws[c].sat = "open"
          /\ cws' = [cws EXCEPT ![c].sat = "closing"]
          /\ PlanNothing
          /\ UNCHANGED <<creq, net>>
       \/ ws_close(c)
    /\ UNCHANGED <<births, quits, fault>>

\* _cttp_ws_send_message(): writing may end the session.
ws_send_message(c) ==
    /\ cws[c].sat = "open"
    /\ \/ PlanNothing /\ UNCHANGED <<creq, cws, net>>
       \/ ws_close(c)
    /\ UNCHANGED <<births, quits, fault>>

-----------------------------------------------------------------------------
(* What the peer of an open session does: _cttp_ws_read_cb(), write_cb().   *)

HasSocket(c) == cws[c].sat \in {"open", "closing"}

\* _cttp_ws_msg_cb(), a data or control frame; the state is not looked at.
cttp_ws_message(c) ==
    /\ HasSocket(c)
    /\ Plan("message", c, creq[c].num)
    /\ UNCHANGED <<creq, cws, net, births, quits, fault>>

\* A close frame, an error of the socket or of the protocol.
cttp_ws_ends(c) ==
    /\ HasSocket(c)
    /\ ws_close(c)
    /\ UNCHANGED <<births, quits, fault>>

-----------------------------------------------------------------------------
(* _cttp_ef_http_client(): dispatch of an effect. *)

Effects == [tag : {"request"}, req : PlainReqs, id : Ids]
           \cup [tag : {"websocket-handshake"}, req : WsReqs, id : Ids]
           \cup [tag : {"cancel-request", "message", "disconnect"}, id : Ids]

\* Nothing has that number, or the session is in another state.
Ignored(e) ==
    \/ e.tag = "cancel-request" /\ \A c \in Reqs : ~FoundReq(c, e.id)
    \/ e.tag = "disconnect" /\ \A c \in Reqs : ~FoundWs(c, e.id)
    \/ e.tag = "message" /\ \A c \in Reqs : FoundWs(c, e.id) => cws[c].sat # "open"

cttp_ef_http_client(e) ==
    \/ e.tag = "request" /\ cttp_request(e.req, e.id)
    \/ e.tag = "websocket-handshake" /\ cttp_ws_start(e.req, e.id)
    \/ /\ e.tag = "cancel-request"
       /\ \E c \in Reqs : FoundReq(c, e.id) /\ creq_quit(c)
    \/ /\ e.tag = "disconnect"
       /\ \E c \in Reqs : FoundWs(c, e.id) /\ ws_queue_close(c)
    \/ /\ e.tag = "message"
       /\ \E c \in Reqs : FoundWs(c, e.id) /\ ws_send_message(c)
    \/ /\ Ignored(e)
       /\ PlanNothing
       /\ UNCHANGED <<creq, cws, net, births, quits, fault>>

\* What libuv and libh2o call.
Callback(c) ==
    \/ cttp_creq_resolve_cb(c)
    \/ cttp_creq_on_connect(c)
    \/ cttp_creq_on_head(c)
    \/ cttp_creq_on_body(c)
    \/ cttp_ws_message(c)
    \/ cttp_ws_ends(c)

Next ==
    /\ fault = "none"
    /\ \/ \E e \in Effects : cttp_ef_http_client(e)
       \/ \E c \in Reqs : Callback(c)

Spec == Init /\ [][Next]_vars

-----------------------------------------------------------------------------
(* Properties, whatever the kernel sends. *)

\* The variables hold values of their C types.
TypeOK ==
    /\ creq \in [Reqs -> CReq]
    /\ cws \in [Reqs -> CWs]
    /\ net \in [Reqs -> Net]
    /\ births \in Nat
    /\ out \in SUBSET Ovum
    /\ told \in [Reqs -> SUBSET Tags]
    /\ quits \in SUBSET Reqs
    /\ fault \in Faults

\* The pointers of a request and its session are set and cut together: a
\* session waits on a live request that points back, and on nothing once it is
\* open (_cttp_ws_fail_handshake(), _cttp_ws_close(), _cttp_creq_on_head()).
LinksSound ==
    \A c \in Reqs :
      /\ creq[c].wsu => Alive(c) /\ cws[c].ceq
      /\ cws[c].ceq => cws[c].sat = "pending"
      /\ cws[c].sat = "pending" => Alive(c) /\ creq[c].wsu /\ cws[c].ceq

\* A request (_cttp_creq_fail(), _cttp_creq_respond()) is answered or
\* cancelled, never both and never neither: when it is freed, iris has had a
\* %receive of it or has taken it back.
AnsweredOrCancelled ==
    \A c \in PlainReqs :
      creq[c].st = "freed" => ("receive" \in told[c] <=> c \notin quits)

\* A session implements WsClientSession: "over" once it is freed.
sessionState ==
    [c \in WsReqs |-> CASE cws[c].sat = "none" -> "idle"
                        [] cws[c].sat = "pending" -> "asked"
                        [] cws[c].sat \in {"open", "closing"} -> "open"
                        [] cws[c].sat = "freed" -> "over"]

sessionEvents == {<<o.req, o.tag>> : o \in {p \in out : p.tag # "receive"}}

Session == INSTANCE WsClientSession
             WITH Sessions <- WsReqs, st <- sessionState, heard <- sessionEvents

\* Whatever the kernel and the peer do, iris is told of a session what
\* WsClientSession promises, its end above all.
ImplementsSession == Session!Spec

=============================================================================
