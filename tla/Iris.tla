-------------------------------- MODULE Iris --------------------------------
(***************************************************************************)
(* The HTTP client vane, src/arvo/iris.hoon: the requests and websockets it*)
(* remembers by number, its subscriptions to the agents that asked for     *)
(* websockets, and the gifts it sends the runtime.  One kernel event runs  *)
(* to its end before the next.                                             *)
(*                                                                         *)
(* An attempt is one gift that asks the runtime for a connection; a        *)
(* redirect is a new attempt for the same duct.  The subscriptions to an   *)
(* agent hang on the duct of the runtime process, sev, that reported the   *)
(* acceptance.                                                             *)
(***************************************************************************)
EXTENDS Naturals, Sequences, FiniteSets

CONSTANTS
    PlainReqs,  \* attempts that are requests
    WsReqs,     \* attempts that are websocket handshakes
    duct,       \* the duct an attempt is for
    MaxId       \* bound of the checks: numbers given out before a %born

VARIABLES
    conn,       \* connection-by-id and, read backwards, connection-by-duct
    sockets,    \* sockets.state: attempt and status of a websocket
    next_id,    \* next-id.state
    outbound,   \* outbound-duct.state is known
    watch,      \* Gall: subscriptions <<sev, id>> to /websocket-client/[id]
    asked,      \* attempts made so far
    eff         \* gifts not yet released to the runtime, oldest first

irisVars == <<conn, sockets, next_id, outbound, watch, asked, eff>>

Reqs == PlainReqs \cup WsReqs
Ids == 0 .. MaxId

Nothing == [i \in {} |-> 0]

IrisInit ==
    /\ conn = Nothing
    /\ sockets = Nothing
    /\ next_id = 0
    /\ outbound = FALSE
    /\ watch = {}
    /\ asked = {}
    /\ eff = <<>>

Put(f, id, v) == [i \in DOMAIN f \cup {id} |-> IF i = id THEN v ELSE f[i]]
Del(f, id) == [i \in DOMAIN f \ {id} |-> f[i]]

Give(gifts) == eff' = eff \o gifts

Request(c, id) == [tag |-> "request", req |-> c, id |-> id]
Gift(tag, id) == [tag |-> tag, id |-> id]

Subscribers(id) == {s \in watch : s[2] = id}

\* One gift for every subscription a fact reaches.
GiveEach(tag, id) ==
    Give([i \in 1 .. Cardinality(Subscribers(id)) |-> Gift(tag, id)])

\* A request is under way on the duct of attempt c.
Busy(c) == \E i \in DOMAIN conn : duct[conn[i]] = duct[c]

-----------------------------------------------------------------------------
(* +call: tasks from agents. *)

\* Mutant: the counter stands still.
NewId_Same == next_id <= MaxId /\ UNCHANGED next_id

\* next-id.state is taken and moved on.
NewId ==
    /\ next_id <= MaxId
    /\ next_id' = next_id + 1

\* +request: without a duct to the runtime the gift is left out, and %born
\* will cancel the connection.
request(c) ==
    /\ c \in PlainReqs \ asked /\ ~Busy(c)
    /\ NewId
    /\ asked' = asked \cup {c}
    /\ conn' = Put(conn, next_id, c)
    /\ Give(IF outbound THEN <<Request(c, next_id)>> ELSE <<>>)
    /\ UNCHANGED <<sockets, outbound, watch>>

\* +cancel, by the duct of the request.
cancel(id) ==
    /\ id \in DOMAIN conn
    /\ conn' = Del(conn, id)
    /\ Give(IF outbound THEN <<Gift("cancel-request", id)>> ELSE <<>>)
    /\ UNCHANGED <<sockets, next_id, outbound, watch, asked>>

\* +ws-connect: of the connections on a duct only requests are looked at.  The
\* gift needs a duct to the runtime.
ws_connect(c) ==
    /\ c \in WsReqs \ asked /\ ~Busy(c) /\ outbound
    /\ NewId
    /\ asked' = asked \cup {c}
    /\ sockets' = Put(sockets, next_id, [req |-> c, status |-> "pending"])
    /\ Give(<<[tag |-> "websocket-handshake", req |-> c, id |-> next_id]>>)
    /\ UNCHANGED <<conn, outbound, watch>>

\* +ws-cancel: the runtime is told to cancel a request of that number.
ws_cancel(id) ==
    /\ outbound
    /\ sockets' = Del(sockets, id)
    /\ Give(<<Gift("cancel-request", id)>>)
    /\ UNCHANGED <<conn, next_id, outbound, watch, asked>>

-----------------------------------------------------------------------------
(* +call: tasks from the runtime. *)

\* Mutant: connections survive the process.
born_Keeps ==
    /\ next_id' = 0
    /\ outbound' = TRUE
    /\ UNCHANGED <<conn, sockets, watch, asked, eff>>

\* %born: every request is cancelled towards its duct and forgotten; sockets
\* are not.
born ==
    /\ conn' = Nothing
    /\ next_id' = 0
    /\ outbound' = TRUE
    /\ UNCHANGED <<sockets, watch, asked, eff>>

\* +receive: an answer finishes the request, or redirects it.  The runtime
\* sends whole answers only.
receive(id) ==
    \/ id \notin DOMAIN conn /\ UNCHANGED irisVars
    \/ /\ id \in DOMAIN conn
       /\ \E c \in PlainReqs \ asked :
            /\ duct[c] = duct[conn[id]]
            /\ conn' = Put(conn, id, c)
            /\ asked' = asked \cup {c}
            /\ Give(<<Request(c, id)>>)
       /\ UNCHANGED <<sockets, next_id, outbound, watch>>
    \/ /\ id \in DOMAIN conn
       /\ conn' = Del(conn, id)
       /\ UNCHANGED <<sockets, next_id, outbound, watch, asked, eff>>

\* Mutant: a socket that was never accepted is kept.
cleanup_ws_Accepted(id) ==
    sockets' = IF sockets[id].status = "accepted" THEN Del(sockets, id)
               ELSE sockets

\* +cleanup-ws: the socket is forgotten and its agent left.
cleanup_ws(id) == sockets' = Del(sockets, id)

\* Mutant: the agent is not left.
ws_event_Stays(sev, id, tag) ==
    \/ id \notin DOMAIN sockets /\ UNCHANGED irisVars
    \/ /\ id \in DOMAIN sockets /\ tag = "message"
       /\ UNCHANGED irisVars
    \/ /\ id \in DOMAIN sockets /\ tag = "accept"
       /\ sockets' = [sockets EXCEPT ![id].status = "accepted"]
       /\ watch' \in {watch, watch \cup {<<sev, id>>}}
       /\ UNCHANGED <<conn, next_id, outbound, asked, eff>>
    \/ /\ id \in DOMAIN sockets /\ tag \in {"reject", "disconnect"}
       /\ cleanup_ws(id)
       /\ UNCHANGED <<conn, next_id, outbound, watch, asked, eff>>

\* +ws-event: nothing without a socket; an acceptance is followed by a watch,
\* which the agent may refuse; a frame by a poke; an end by a leave.
ws_event(sev, id, tag) ==
    \/ id \notin DOMAIN sockets /\ UNCHANGED irisVars
    \/ /\ id \in DOMAIN sockets /\ tag = "message"
       /\ UNCHANGED irisVars
    \/ /\ id \in DOMAIN sockets /\ tag = "accept"
       /\ sockets' = [sockets EXCEPT ![id].status = "accepted"]
       /\ watch' \in {watch, watch \cup {<<sev, id>>}}
       /\ UNCHANGED <<conn, next_id, outbound, asked, eff>>
    \/ /\ id \in DOMAIN sockets /\ tag \in {"reject", "disconnect"}
       /\ cleanup_ws(id)
       /\ watch' = watch \ {<<sev, id>>}
       /\ UNCHANGED <<conn, next_id, outbound, asked, eff>>

-----------------------------------------------------------------------------
(* +take: facts and kicks from the agent.  The gate is returned as it was:   *)
(* what +cleanup-ws does to the state is lost, only its move is made.        *)

\* A kick ends the subscriptions to the path.
kick(id) ==
    /\ Subscribers(id) # {}
    /\ watch' = watch \ Subscribers(id)
    /\ UNCHANGED <<conn, sockets, next_id, outbound, asked, eff>>

\* A %message fact.
message(id) ==
    /\ Subscribers(id) # {}
    /\ GiveEach("message", id)
    /\ UNCHANGED <<conn, sockets, next_id, outbound, watch, asked>>

\* A %disconnect fact: the agent is left if the socket is known.
disconnect(id) ==
    /\ Subscribers(id) # {}
    /\ GiveEach("disconnect", id)
    /\ watch' = IF id \in DOMAIN sockets THEN watch \ Subscribers(id) ELSE watch
    /\ UNCHANGED <<conn, sockets, next_id, outbound, asked>>

=============================================================================
