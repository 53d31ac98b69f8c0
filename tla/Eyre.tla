-------------------------------- MODULE Eyre --------------------------------
(***************************************************************************)
(* The HTTP server vane, src/arvo/eyre.hoon: the connections it remembers  *)
(* by duct, its subscriptions to the agent that serves websockets, and the *)
(* gifts it sends the runtime.  A duct is named by the request it came     *)
(* from.  One kernel event runs to its end before the next, with every     *)
(* move between eyre, Gall and the agent in it.                            *)
(*                                                                         *)
(* The agent speaks through src/app/lib/websockets.hoon; it is free to     *)
(* answer a handshake at once, late or never.                              *)
(***************************************************************************)
EXTENDS Naturals, SequencesExt

CONSTANTS
    Reqs,       \* ducts, one per incoming request
    WidMod      \* websocket ids are below it

VARIABLES
    conn,       \* connections.server-state: outstanding connection of a duct
    sockets,    \* sockets.server-state: ids of accepted websockets
    sub,        \* Gall: id in the path the duct's subscription watches, or 0
    app,        \* the agent's own account of a websocket id
    eff         \* gifts not yet released to the runtime, oldest first

eyreVars == <<conn, sockets, sub, app, eff>>

Wids == 1 .. (WidMod - 1)

EyreInit ==
    /\ conn = [c \in Reqs |-> "none"]
    /\ sockets = {}
    /\ sub = [c \in Reqs |-> 0]
    /\ app = [w \in Wids |-> "unknown"]
    /\ eff = <<>>

Give(gifts) == eff' = eff \o gifts

\* The gifts of a %response.
Start(c, complete) == [tag |-> "start", req |-> c, complete |-> complete,
                       data |-> TRUE]
Continue(c, data, complete) == [tag |-> "continue", req |-> c,
                                complete |-> complete, data |-> data]
Cancel(c) == [tag |-> "cancel", req |-> c, complete |-> TRUE, data |-> FALSE]

-----------------------------------------------------------------------------
(* +call: tasks the runtime's events turn into. *)

\* %request: the connection is remembered until the agent has answered.
request(c) ==
    /\ conn' = [conn EXCEPT ![c] = "new"]
    /\ UNCHANGED <<sockets, sub, app, eff>>

\* +cancel-request: the connection is forgotten.  The subscription it leaves
\* is the one on /watch-response; a websocket's is on /ws-watch-response.
cancel_request(c) ==
    /\ conn' = [conn EXCEPT ![c] = "none"]
    /\ UNCHANGED <<sockets, sub, app, eff>>

\* +ws-handshake: watch the agent and poke it.  A binding that is not an
\* agent's is dropped without an answer; a refused watch is answered 500 and
\* forgotten (+handle-gall-error), though the poke still reaches the agent.
ws_handshake(c, w) ==
    \/ UNCHANGED eyreVars
    \/ /\ conn' = [conn EXCEPT ![c] = "new"]
       /\ sub' = [sub EXCEPT ![c] = w]
       /\ app' = [app EXCEPT ![w] = "asked"]
       /\ UNCHANGED <<sockets, eff>>
    \/ /\ conn' = [conn EXCEPT ![c] = "none"]
       /\ app' = [app EXCEPT ![w] = "asked"]
       /\ Give(<<Start(c, TRUE)>>)
       /\ UNCHANGED <<sockets, sub>>

\* Mutant: a disconnect leaves the subscription but keeps the connection.
ws_event_Keeps(c, w, tag) ==
    \/ /\ conn[c] = "none" \/ tag = "message"
       /\ UNCHANGED eyreVars
    \/ /\ conn[c] # "none" /\ tag = "disconnect"
       /\ sub' = [sub EXCEPT ![c] = IF @ = w THEN 0 ELSE @]
       /\ app' = [app EXCEPT ![w] = "ended"]
       /\ UNCHANGED <<conn, sockets, eff>>

\* +ws-event: nothing without a connection; a frame is poked into the agent,
\* whose state of the socket it leaves alone; a disconnect is remembered by
\* leaving the subscription.
ws_event(c, w, tag) ==
    \/ /\ conn[c] = "none" \/ tag = "message"
       /\ UNCHANGED eyreVars
    \/ /\ conn[c] # "none" /\ tag = "disconnect"
       /\ conn' = [conn EXCEPT ![c] = "none"]
       /\ sub' = [sub EXCEPT ![c] = IF @ = w THEN 0 ELSE @]
       /\ app' = [app EXCEPT ![w] = "ended"]
       /\ UNCHANGED <<sockets, eff>>

\* Mutant: connections survive the process.
born_Keeps ==
    /\ Give(<<[tag |-> "set-config"]>>)
    /\ UNCHANGED <<conn, sockets, sub, app>>

\* %born: a new runtime process; every connection is cancelled and the
\* configuration handed back.
born ==
    /\ conn' = [c \in Reqs |-> "none"]
    /\ Give(<<[tag |-> "set-config"]>>)
    /\ UNCHANGED <<sockets, sub, app>>

\* %rule: a new configuration.
rule ==
    /\ Give(<<[tag |-> "set-config"]>>)
    /\ UNCHANGED <<conn, sockets, sub, app>>

-----------------------------------------------------------------------------
(* +take: facts and kicks from the agent.  Gall sends a fact to every        *)
(* subscriber of its path, in no order an agent may rely on.                 *)

Subscribers(w) == {c \in Reqs : sub[c] = w}

\* Mutant: a disconnect keeps the connection.
handle_ws_response_Keeps(S, w, tag) ==
    /\ conn' = [c \in Reqs |-> IF c \in S /\ tag = "reject" THEN "none"
                               ELSE conn[c]]
    /\ sockets' = IF tag \in {"reject", "disconnect"} THEN sockets \ {w}
                  ELSE IF tag = "accept" /\ \E c \in S : conn[c] # "none"
                       THEN sockets \cup {w}
                  ELSE sockets
    /\ \E ducts \in SetToSeqs(S) :
         Give([i \in DOMAIN ducts |-> [tag |-> tag, req |-> ducts[i], wid |-> w]])

\* +handle-ws-response for every duct in S.
handle_ws_response(S, w, tag) ==
    /\ conn' = [c \in Reqs |-> IF c \in S /\ tag \in {"reject", "disconnect"}
                               THEN "none" ELSE conn[c]]
    /\ sockets' = IF tag \in {"reject", "disconnect"} THEN sockets \ {w}
                  ELSE IF tag = "accept" /\ \E c \in S : conn[c] # "none"
                       THEN sockets \cup {w}
                  ELSE sockets
    /\ \E ducts \in SetToSeqs(S) :
         Give([i \in DOMAIN ducts |-> [tag |-> tag, req |-> ducts[i], wid |-> w]])

AppSays(w, tag, after) ==
    /\ Subscribers(w) # {}
    /\ handle_ws_response(Subscribers(w), w, tag)
    /\ app' = [app EXCEPT ![w] = after]
    /\ UNCHANGED sub

accept_handshake(w) == app[w] = "asked" /\ AppSays(w, "accept", "accepted")

refuse_handshake(w) == app[w] = "asked" /\ AppSays(w, "reject", "ended")

give_ws_payload_server(w) == AppSays(w, "message", app[w])

disconnect(w) == app[w] = "accepted" /\ AppSays(w, "disconnect", "ended")

\* A kick ends the subscription and is taken as a disconnect.
kick(w) ==
    /\ app[w] = "accepted"
    /\ Subscribers(w) # {}
    /\ handle_ws_response(Subscribers(w), w, "disconnect")
    /\ sub' = [c \in Reqs |-> IF sub[c] = w THEN 0 ELSE sub[c]]
    /\ app' = [app EXCEPT ![w] = "ended"]

\* A fact whose mark is not %websocket-response, such as %accept: every
\* connection it reaches is answered 500 (+handle-gall-error).
bad_mark(w) ==
    LET S == {c \in Subscribers(w) : conn[c] # "none"} IN
    /\ app[w] = "asked"
    /\ Subscribers(w) # {}
    /\ conn' = [c \in Reqs |-> IF c \in S THEN "none" ELSE conn[c]]
    /\ app' = [app EXCEPT ![w] = "accepted"]
    /\ \E ducts \in SetToSeqs(S) :
         Give([i \in DOMAIN ducts |-> Start(ducts[i], TRUE)])
    /\ UNCHANGED <<sockets, sub>>

\* +handle-response: a plain request's answer, piece by piece.  A second
\* start, or a continue without one, is turned into a cancel.
handle_response(c, e) ==
    LET sane == \/ e.tag = "start" /\ conn[c] = "new"
                \/ e.tag = "continue" /\ conn[c] = "started" IN
    /\ conn[c] # "none"
    /\ conn' = [conn EXCEPT ![c] = IF sane /\ ~e.complete THEN "started"
                                   ELSE "none"]
    /\ Give(<<IF sane THEN e ELSE Cancel(c)>>)
    /\ UNCHANGED <<sockets, sub, app>>

AppActions(w) ==
    \/ accept_handshake(w)
    \/ refuse_handshake(w)
    \/ give_ws_payload_server(w)
    \/ disconnect(w)
    \/ kick(w)
    \/ bad_mark(w)

AppResponds(c) ==
    \E complete, data \in BOOLEAN :
       \E e \in {Start(c, complete), Continue(c, data, complete), Cancel(c)} :
          handle_response(c, e)

=============================================================================
