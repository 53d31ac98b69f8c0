----------------------------- MODULE HttpDriver -----------------------------
(***************************************************************************)
(* The HTTP server driver of the runtime, src/vere/pkg/vere/io/http.c: the *)
(* life of an incoming request (u3_hreq), of its response generator        *)
(* (u3_hgen) and of the websocket session (u3_hws) a handshake request     *)
(* opens, under an arbitrary kernel: any effect may arrive at any time.    *)
(* libh2o, which owns sockets and requests, is the environment.            *)
(*                                                                         *)
(* A request c in Reqs stands for one (server, connection, sequence)       *)
(* triple, hence for one duct; the session its handshake opens has the     *)
(* same name.  A C pointer is a boolean: req[c].wsu says wsu_u is not 0,   *)
(* web[c].req says web_u->req_u is not 0.                                  *)
(***************************************************************************)
EXTENDS Naturals

CONSTANTS
    Reqs,       \* incoming requests
    WidMod      \* modulus of the 32-bit counter htd_u->wid_l

ASSUME WidModAssumption == WidMod \in Nat /\ WidMod > 1

VARIABLES
    req,        \* u3_hreq of every request
    web,        \* u3_hws of every request that carried a handshake
    h2o,        \* what libh2o has been told to answer to the request
    wid_l,      \* next websocket id
    births,     \* handshakes so far; orders the session list
    serv,       \* the listening servers htp_u
    out,        \* the events this step planned for eyre: none or one
    told,       \* history: the tags of the events planned for a request
    fault       \* the first undefined behaviour reached; the process stops

vars == <<req, web, h2o, wid_l, births, serv, out, told, fault>>

Rsat == {"plan", "ripe"}            \* u3_rsat of a request h2o still holds
Live == {"pending", "open", "closing", "closed"}   \* u3_hwsat, not yet freed
Wids == 1 .. (WidMod - 1)

HReq == [st  : {"free", "plan", "ripe", "done"},
         wsu : BOOLEAN,                            \* wsu_u
         tim : BOOLEAN,                            \* tim_u is running
         gen : {"none", "wait", "done", "fail"},   \* gen_u and its sat_e
         red : BOOLEAN,                            \* gen_u->red
         bod : BOOLEAN]                            \* gen_u->bod_u
HWs == [sat   : Live \cup {"none", "freed"},
        wid   : 0 .. (WidMod - 1),
        req   : BOOLEAN,                           \* req_u
        woc   : {"none", "wait", "up", "shut", "gone"},   \* the h2o side
        birth : Nat]
Servs == {"none", "live", "closing"}
H2o == {"idle", "body", "final", "upgrade"}
Tags == {"request", "websocket-handshake", "cancel-request",
         "message", "disconnect"}
Ovum == [tag : Tags, req : Reqs, wid : 0 .. (WidMod - 1)]
Faults == {"none", "null generator", "answered twice", "null socket",
           "freed socket", "closed twice"}

NoReq == [st |-> "free", wsu |-> FALSE, tim |-> FALSE, gen |-> "none",
          red |-> FALSE, bod |-> FALSE]
NoWeb == [sat |-> "none", wid |-> 0, req |-> FALSE, woc |-> "none",
          birth |-> 0]

Init ==
    /\ req = [c \in Reqs |-> NoReq]
    /\ web = [c \in Reqs |-> NoWeb]
    /\ h2o = [c \in Reqs |-> "idle"]
    /\ wid_l = 0
    /\ births = 0
    /\ serv = "none"
    /\ out = {}
    /\ told = [c \in Reqs |-> {}]
    /\ fault = "none"

-----------------------------------------------------------------------------
(* Pieces shared by the handlers. *)

\* u3_auto_plan(): the event leaves for the kernel.
Plan(tag, c, wid) ==
    /\ out' = {[tag |-> tag, req |-> c, wid |-> wid]}
    /\ told' = [told EXCEPT ![c] = @ \cup {tag}]

PlanNothing == out' = {} /\ UNCHANGED told

\* _http_req_kill()
Kill(c) == Plan("cancel-request", c, 0)

KillIf(b, c) == IF b THEN Kill(c) ELSE PlanNothing

\* _http_search_req(): h2o has not disposed of the request yet.
Alive(c) == req[c].st \in Rsat

\* h2o_send_error_generic(), h2o_upgrade_to_websocket(): h2o takes one answer
\* per request; a second one is outside its contract.
Answer(c, how) ==
    IF h2o[c] = "idle"
    THEN h2o' = [h2o EXCEPT ![c] = how] /\ UNCHANGED fault
    ELSE fault' = "answered twice" /\ UNCHANGED h2o

\* _http_hgen_send(): hand the queued body to h2o; while more is expected the
\* 45 second timer runs.
Sent(r) == [r EXCEPT !.red = FALSE, !.bod = FALSE,
                     !.tim = @ \/ r.gen = "wait"]

SendState(r) == IF r.gen = "wait" THEN "body" ELSE "final"

\* _http_ws_find(): the list is searched from its youngest session.
Found(c, wid) ==
    /\ web[c].sat \in Live
    /\ web[c].wid = wid
    /\ \A d \in Reqs : web[d].sat \in Live /\ web[d].wid = wid
                          => web[d].birth <= web[c].birth

\* _http_ws_unlink() and c3_free()
Freed(w) == [w EXCEPT !.sat = "freed", !.req = FALSE]

-----------------------------------------------------------------------------
(* Requests arriving: _http_rec_accept(). *)

\* Mutant: the timer is not started.
Prepared_NoTimer == [NoReq EXCEPT !.st = "plan"]

\* _http_req_prepare(): a linked request with its 600 second timer.
Prepared == [NoReq EXCEPT !.st = "plan", !.tim = TRUE]

\* A plain request is planned for eyre by _http_req_dispatch().
http_req_dispatch(c) ==
    /\ serv # "none" /\ req[c].st = "free"
    /\ req' = [req EXCEPT ![c] = Prepared]
    /\ Plan("request", c, 0)
    /\ UNCHANGED <<web, h2o, wid_l, births, serv, fault>>

\* A handshake h2o finds invalid is answered 400 at once.
http_bad_handshake(c) ==
    /\ serv # "none" /\ req[c].st = "free"
    /\ req' = [req EXCEPT ![c] = [NoReq EXCEPT !.st = "ripe"]]
    /\ h2o' = [h2o EXCEPT ![c] = "final"]
    /\ PlanNothing
    /\ UNCHANGED <<web, wid_l, births, serv, fault>>

\* Mutant: the counter is not advanced.
http_ws_handshake_SameWid(c) ==
    LET wid == IF wid_l = 0 THEN 1 ELSE wid_l IN
    /\ serv # "none" /\ req[c].st = "free"
    /\ req' = [req EXCEPT ![c] = [Prepared EXCEPT !.wsu = TRUE]]
    /\ web' = [web EXCEPT ![c] = [sat |-> "pending", wid |-> wid, req |-> TRUE,
                                  woc |-> "none", birth |-> births]]
    /\ wid_l' = wid
    /\ births' = births + 1
    /\ Plan("websocket-handshake", c, wid)
    /\ UNCHANGED <<h2o, serv, fault>>

\* Mutant: the counter is wider than the id.
http_ws_handshake_Wide(c) ==
    LET wid == IF wid_l = 0 THEN 1 ELSE wid_l IN
    /\ serv # "none" /\ req[c].st = "free"
    /\ req' = [req EXCEPT ![c] = [Prepared EXCEPT !.wsu = TRUE]]
    /\ web' = [web EXCEPT ![c] = [sat |-> "pending", wid |-> wid, req |-> TRUE,
                                  woc |-> "none", birth |-> births]]
    /\ wid_l' = wid + 1
    /\ births' = births + 1
    /\ Plan("websocket-handshake", c, wid)
    /\ UNCHANGED <<h2o, serv, fault>>

\* _http_ws_handshake(): allocate and link a pending session.  The counter
\* is 32 bits wide and skips 0 when it comes round.
http_ws_handshake(c) ==
    LET wid == IF wid_l = 0 THEN 1 ELSE wid_l IN
    /\ serv # "none" /\ req[c].st = "free"
    /\ req' = [req EXCEPT ![c] = [Prepared EXCEPT !.wsu = TRUE]]
    /\ web' = [web EXCEPT ![c] = [sat |-> "pending", wid |-> wid, req |-> TRUE,
                                  woc |-> "none", birth |-> births]]
    /\ wid_l' = (wid + 1) % WidMod
    /\ births' = births + 1
    /\ Plan("websocket-handshake", c, wid)
    /\ UNCHANGED <<h2o, serv, fault>>

-----------------------------------------------------------------------------
(* The request timer and libh2o's callbacks on a request. *)

\* _http_req_timer_cb(), rsat_plan: 504, eyre is told; a websocket session
\* keeps its pointers.
http_timeout_planned(c) ==
    /\ req[c].st = "plan" /\ req[c].tim
    /\ req' = [req EXCEPT ![c].st = "ripe", ![c].tim = FALSE]
    /\ Kill(c)
    /\ Answer(c, "final")
    /\ UNCHANGED <<web, wid_l, births, serv>>

\* _http_req_timer_cb(), rsat_ripe: the generator is failed, and the failure
\* sent if h2o is ready for it.
http_timeout_ripe(c) ==
    LET r == [req[c] EXCEPT !.gen = "fail", !.tim = FALSE] IN
    /\ req[c].st = "ripe" /\ req[c].tim
    /\ \/ /\ req[c].gen = "none"
          /\ fault' = "null generator"
          /\ PlanNothing
          /\ UNCHANGED <<req, h2o>>
       \/ /\ req[c].gen # "none"
          /\ KillIf(req[c].gen = "wait", c)
          /\ req' = [req EXCEPT ![c] = IF r.red THEN Sent(r) ELSE r]
          /\ h2o' = [h2o EXCEPT ![c] = IF r.red THEN SendState(r) ELSE @]
          /\ UNCHANGED fault
    /\ UNCHANGED <<web, wid_l, births, serv>>

http_req_timer_cb(c) == http_timeout_planned(c) \/ http_timeout_ripe(c)

\* _http_hgen_proceed(): h2o has written what it was given.
http_hgen_proceed(c) ==
    LET r == [req[c] EXCEPT !.red = TRUE]
        more == r.bod \/ r.gen # "wait" IN
    /\ Alive(c) /\ h2o[c] = "body" /\ ~req[c].red
    /\ req' = [req EXCEPT ![c] = IF more THEN Sent(r) ELSE r]
    /\ h2o' = [h2o EXCEPT ![c] = IF more THEN SendState(r) ELSE @]
    /\ PlanNothing
    /\ UNCHANGED <<web, wid_l, births, serv, fault>>

\* Mutant: the session is not told that its request is gone.
Detached_Kept(c) == web[c]

\* _http_ws_detach_request(): a session still waiting on the request dies.
Detached(c) == IF req[c].wsu /\ web[c].req THEN Freed(web[c]) ELSE web[c]

\* Mutant: an interrupted response is not reported.
http_req_done_Silent(c) ==
    /\ Alive(c) /\ h2o[c] # "upgrade"
    /\ KillIf(req[c].st = "plan", c)
    /\ req' = [req EXCEPT ![c].st = "done", ![c].wsu = FALSE, ![c].tim = FALSE]
    /\ web' = [web EXCEPT ![c] = Detached(c)]
    /\ UNCHANGED <<h2o, wid_l, births, serv, fault>>

\* h2o disposes of the request, because it is answered or because the client
\* went away: _http_hgen_stop() if a response was under way, _http_req_done().
http_req_done(c) ==
    /\ Alive(c) /\ h2o[c] # "upgrade"
    /\ KillIf(\/ req[c].st = "plan"
              \/ h2o[c] = "body" /\ req[c].gen = "wait", c)
    /\ req' = [req EXCEPT ![c].st = "done", ![c].wsu = FALSE, ![c].tim = FALSE]
    /\ web' = [web EXCEPT ![c] = Detached(c)]
    /\ UNCHANGED <<h2o, wid_l, births, serv, fault>>

-----------------------------------------------------------------------------
(* %response effects: the kernel answers a request by its duct. *)

\* Mutant: the state of the request is not checked.
http_start_respond_Unchecked(c, complete) ==
    LET r == [req[c] EXCEPT !.st = "ripe", !.tim = FALSE, !.bod = FALSE,
                            !.gen = IF complete THEN "done" ELSE "wait"] IN
    /\ Alive(c)
    /\ req' = [req EXCEPT ![c] = Sent(r)]
    /\ h2o' = [h2o EXCEPT ![c] = SendState(r)]
    /\ UNCHANGED <<web, fault>>

\* _http_start_respond(): only a planned request is started.
http_start_respond(c, complete) ==
    LET r == [req[c] EXCEPT !.st = "ripe", !.tim = FALSE, !.bod = FALSE,
                            !.gen = IF complete THEN "done" ELSE "wait"] IN
    /\ Alive(c) /\ req[c].st = "plan"
    /\ req' = [req EXCEPT ![c] = Sent(r)]
    /\ h2o' = [h2o EXCEPT ![c] = SendState(r)]
    /\ UNCHANGED <<web, fault>>

\* _http_continue_respond(): any ripe request is taken to have a generator.
http_continue_respond(c, data, complete) ==
    LET r == [req[c] EXCEPT !.tim = FALSE, !.bod = @ \/ data,
                            !.gen = IF complete THEN "done" ELSE "wait"] IN
    /\ Alive(c) /\ req[c].st = "ripe"
    /\ \/ /\ req[c].gen = "none"
          /\ fault' = "null generator"
          /\ UNCHANGED <<req, h2o>>
       \/ /\ req[c].gen # "none"
          /\ req' = [req EXCEPT ![c] = IF r.red THEN Sent(r) ELSE r]
          /\ h2o' = [h2o EXCEPT ![c] = IF r.red THEN SendState(r) ELSE @]
          /\ UNCHANGED fault
    /\ UNCHANGED web

\* _http_cancel_respond(): a planned request is answered 500 and releases its
\* session; its timer keeps running.  A started response is failed.
http_cancel_respond(c) ==
    LET r == [req[c] EXCEPT !.gen = "fail", !.tim = FALSE] IN
    /\ Alive(c)
    /\ \/ /\ req[c].st = "plan"
          /\ req' = [req EXCEPT ![c].st = "ripe", ![c].wsu = FALSE]
          /\ web' = [web EXCEPT ![c] = Detached(c)]
          /\ Answer(c, "final")
       \/ /\ req[c].st = "ripe" /\ req[c].gen = "none"
          /\ fault' = "null generator"
          /\ UNCHANGED <<req, web, h2o>>
       \/ /\ req[c].st = "ripe" /\ req[c].gen # "none"
          /\ req' = [req EXCEPT ![c] = IF r.red THEN Sent(r) ELSE r]
          /\ h2o' = [h2o EXCEPT ![c] = IF r.red THEN SendState(r) ELSE @]
          /\ UNCHANGED <<web, fault>>

-----------------------------------------------------------------------------
(* %websocket-response effects: the session is found by its id alone. *)

\* _http_ws_accept(): the upgrade answers the request, whose session is kept
\* in wsu_u but no longer points back; h2o may refuse to upgrade.
http_ws_accept(c) ==
    /\ web[c].sat = "pending" /\ web[c].req
    /\ \/ /\ req' = [req EXCEPT ![c].st = "ripe", ![c].tim = FALSE]
          /\ web' = [web EXCEPT ![c].sat = "open", ![c].req = FALSE,
                                ![c].woc = "wait"]
          /\ Answer(c, "upgrade")
       \/ /\ req' = [req EXCEPT ![c].st = "ripe", ![c].tim = FALSE,
                                ![c].wsu = FALSE]
          /\ web' = [web EXCEPT ![c] = Freed(@)]
          /\ Answer(c, "final")

\* _http_ws_reject(): 403.  A pending session always has its request.
Rejected(r) == [r EXCEPT !.st = "ripe", !.tim = FALSE, !.wsu = FALSE]

http_ws_reject(c) ==
    /\ web[c].sat = "pending"
    /\ req' = [req EXCEPT ![c] = Rejected(@)]
    /\ web' = [web EXCEPT ![c] = Freed(@)]
    /\ Answer(c, "final")

\* _http_ws_disconnect(): a pending session is rejected; an open one is
\* closed, by h2o and without a callback; any other is left alone.
Closing(w) == [w EXCEPT !.sat = "closing", !.woc = "gone"]

http_ws_disconnect(c) ==
    \/ http_ws_reject(c)
    \/ /\ web[c].sat = "open"
       /\ web' = [web EXCEPT ![c] = Closing(@)]
       /\ UNCHANGED <<req, h2o, fault>>

\* _http_ws_message_cb() without an argument: h2o is done with the session.
Dropped(c) ==
    /\ web' = [web EXCEPT ![c] = [Freed(@) EXCEPT !.woc = "gone"]]
    /\ IF web[c].sat # "closed"
       THEN Plan("disconnect", c, web[c].wid)
       ELSE PlanNothing

\* _http_ws_send_message(): queue the frame and run h2o_websocket_proceed(),
\* which needs the socket the finished upgrade provides and which ends the
\* session if it cannot write.
http_ws_send_message(c) ==
    /\ web[c].sat = "open"
    /\ \/ /\ web[c].woc = "wait"
          /\ fault' = "null socket"
          /\ PlanNothing
          /\ UNCHANGED web
       \/ /\ web[c].woc = "up"
          /\ \/ PlanNothing /\ UNCHANGED web
             \/ Dropped(c)
          /\ UNCHANGED fault
    /\ UNCHANGED <<req, h2o>>

-----------------------------------------------------------------------------
(* libh2o's callbacks on a session. *)

\* The 101 response is written, or could not be: h2o disposes of the request,
\* then hands the socket to the session, unless it was closed meanwhile.
h2o_upgrade_complete(c, ok) ==
    /\ Alive(c) /\ h2o[c] = "upgrade"
    /\ h2o' = [h2o EXCEPT ![c] = "final"]
    /\ req' = [req EXCEPT ![c].st = "done", ![c].wsu = FALSE, ![c].tim = FALSE]
    /\ \/ /\ web[c].woc = "wait" /\ ok
          /\ web' = [web EXCEPT ![c].woc = "up"]
          /\ PlanNothing
          /\ UNCHANGED fault
       \/ /\ web[c].woc = "wait" /\ ~ok
          /\ Dropped(c)
          /\ UNCHANGED fault
       \/ /\ web[c].woc = "gone"
          /\ fault' = "freed socket"
          /\ PlanNothing
          /\ UNCHANGED web
    /\ UNCHANGED <<wid_l, births, serv>>

\* _http_ws_message_cb(), a data frame.  The session's state is not looked at.
http_ws_message(c) ==
    /\ web[c].woc = "up"
    /\ Plan("message", c, web[c].wid)
    /\ UNCHANGED <<req, web, h2o, wid_l, births, serv, fault>>

\* Mutant: the session stays open after a close frame.
http_ws_close_frame_StaysOpen(c) ==
    /\ web[c].woc = "up"
    /\ web' = [web EXCEPT ![c].woc = "shut"]
    /\ Plan("disconnect", c, web[c].wid)
    /\ UNCHANGED <<req, h2o, wid_l, births, serv, fault>>

\* _http_ws_message_cb(), a close frame: the session stays linked until h2o
\* drops it.
http_ws_close_frame(c) ==
    /\ web[c].woc = "up"
    /\ web' = [web EXCEPT ![c].sat = "closed", ![c].woc = "shut"]
    /\ IF web[c].sat # "closed"
       THEN Plan("disconnect", c, web[c].wid)
       ELSE PlanNothing
    /\ UNCHANGED <<req, h2o, wid_l, births, serv, fault>>

\* _http_ws_message_cb(), no argument.
http_ws_dropped(c) ==
    /\ web[c].woc \in {"up", "shut"}
    /\ Dropped(c)
    /\ UNCHANGED <<req, h2o, wid_l, births, serv, fault>>

\* _http_ws_close_all(): eyre is not told.
http_ws_close_all ==
    LET pending == {c \in Reqs : web[c].sat = "pending"}
        open == {c \in Reqs : web[c].sat = "open"} IN
    /\ req' = [c \in Reqs |->
                 IF c \in pending THEN Rejected(req[c]) ELSE req[c]]
    /\ web' = [c \in Reqs |-> IF c \in pending THEN Freed(web[c])
                              ELSE IF c \in open THEN Closing(web[c])
                              ELSE web[c]]
    /\ h2o' = [c \in Reqs |-> IF c \in pending /\ h2o[c] = "idle"
                              THEN "final" ELSE h2o[c]]
    /\ fault' = IF \E c \in pending : h2o[c] # "idle"
                THEN "answered twice" ELSE fault

\* _http_serv_start_all(): new servers listen, and the configuration they were
\* started from is freed, which ends every session (_http_form_free()).  The
\* %live event planned here carries ports only and is left out.
http_serv_start_all ==
    /\ serv' = "live"
    /\ http_ws_close_all

\* u3_http_ef_form(): a configuration starts the servers, or makes those that
\* listen close first (_http_serv_restart()); closing a handle that is already
\* closing is outside libuv's contract.
http_ef_form ==
    \/ serv = "none" /\ http_serv_start_all
    \/ /\ serv = "live"
       /\ serv' = "closing"
       /\ UNCHANGED <<req, web, h2o, fault>>
    \/ /\ serv = "closing"
       /\ fault' = "closed twice"
       /\ UNCHANGED <<req, web, h2o, serv>>

\* _http_serv_close_cb() of the last server to close: the new configuration is
\* applied.
http_serv_close_cb ==
    /\ serv = "closing"
    /\ http_serv_start_all
    /\ PlanNothing
    /\ UNCHANGED <<wid_l, births>>

-----------------------------------------------------------------------------
(* _http_ef_http_server(): dispatch of an effect from the kernel. *)

Responses == {"start", "continue", "cancel"}
WsResponses == {"accept", "reject", "disconnect", "message"}

Effects == [tag : Responses, req : Reqs, complete : BOOLEAN, data : BOOLEAN]
           \cup [tag : WsResponses, req : Reqs, wid : Wids]
           \cup [tag : {"set-config"}]

\* The states of a session in which a %websocket-response acts on it.
Heeds(tag) == CASE tag \in {"accept", "reject"} -> {"pending"}
                [] tag = "disconnect" -> {"pending", "open"}
                [] tag = "message" -> {"open"}

\* An effect for a request or a session that is gone, or in another state, is
\* dropped.
Ignored(e) ==
    CASE e.tag = "start" -> req[e.req].st # "plan"
      [] e.tag = "continue" -> req[e.req].st # "ripe"
      [] e.tag = "cancel" -> ~Alive(e.req)
      [] e.tag \in WsResponses ->
            \A c \in Reqs : Found(c, e.wid) => web[c].sat \notin Heeds(e.tag)
      [] e.tag = "set-config" -> FALSE

http_ws_response(e) ==
    /\ e.tag \in WsResponses
    /\ \E c \in Reqs :
         /\ Found(c, e.wid)
         /\ \/ e.tag = "accept" /\ http_ws_accept(c) /\ PlanNothing
            \/ e.tag = "reject" /\ http_ws_reject(c) /\ PlanNothing
            \/ e.tag = "disconnect" /\ http_ws_disconnect(c) /\ PlanNothing
            \/ e.tag = "message" /\ http_ws_send_message(c)

http_response(e) ==
    /\ \/ e.tag = "start" /\ http_start_respond(e.req, e.complete)
       \/ e.tag = "continue"
            /\ http_continue_respond(e.req, e.data, e.complete)
       \/ e.tag = "cancel" /\ http_cancel_respond(e.req)
    /\ PlanNothing

http_ef_http_server(e) ==
    /\ \/ (http_ws_response(e) \/ http_response(e)) /\ UNCHANGED serv
       \/ e.tag = "set-config" /\ http_ef_form /\ PlanNothing
       \/ /\ Ignored(e)
          /\ PlanNothing
          /\ UNCHANGED <<req, web, h2o, serv, fault>>
    /\ UNCHANGED <<wid_l, births>>

-----------------------------------------------------------------------------
(* The driver under an arbitrary kernel. *)

http_rec_accept(c) ==
    http_req_dispatch(c) \/ http_bad_handshake(c) \/ http_ws_handshake(c)

\* What libuv and libh2o call.
Callback(c) ==
    \/ http_req_timer_cb(c)
    \/ http_hgen_proceed(c)
    \/ http_req_done(c)
    \/ \E ok \in BOOLEAN : h2o_upgrade_complete(c, ok)
    \/ http_ws_message(c)
    \/ http_ws_close_frame(c)
    \/ http_ws_dropped(c)

Next ==
    /\ fault = "none"
    /\ \/ \E c \in Reqs : http_rec_accept(c) \/ Callback(c)
       \/ http_serv_close_cb
       \/ \E e \in Effects : http_ef_http_server(e)

Spec == Init /\ [][Next]_vars

-----------------------------------------------------------------------------
(* Properties, whatever the kernel sends. *)

\* The variables hold values of their C types.
TypeOK ==
    /\ req \in [Reqs -> HReq]
    /\ web \in [Reqs -> HWs]
    /\ h2o \in [Reqs -> H2o]
    /\ wid_l \in 0 .. (WidMod - 1)
    /\ births \in Nat
    /\ serv \in Servs
    /\ out \in SUBSET Ovum
    /\ told \in [Reqs -> SUBSET Tags]
    /\ fault \in Faults

\* Neither pointer of the request-session pair outlives what it points to,
\* and a pending session and its request point at each other: whichever of
\* h2o, the timer and the kernel ends the request or the session first, the
\* other side of the pair learns of it (_http_ws_detach_request(),
\* _http_ws_accept(), _http_ws_reject()).
LinksSound ==
    \A c \in Reqs :
      /\ req[c].wsu => Alive(c) /\ web[c].sat \in Live
      /\ web[c].req => web[c].sat = "pending"
      /\ web[c].sat = "pending" => Alive(c) /\ req[c].wsu /\ web[c].req

\* The assertion of _http_hgen_send(), and the reason for gen_u->red: the
\* generator is ready only while h2o waits for more of a started response.
ReadyMeansBody ==
    \A c \in Reqs : Alive(c) /\ req[c].red
                      => h2o[c] = "body" /\ req[c].gen # "none"

\* h2o never gets another piece of a response after the final one, in any
\* order of timeouts, %continue and %cancel effects and proceed callbacks.
FinalIsFinal == [][\A c \in Reqs : h2o[c] = "final" => h2o'[c] = "final"]_vars

\* A session that was open and is freed has been reported to eyre.
EndOfSessionTold ==
    \A c \in Reqs : web[c].sat = "freed" /\ web[c].woc = "gone"
                      => "disconnect" \in told[c]

\* _http_ws_find() cannot confuse two sessions until the id counter has come
\* round: WidMod - 1 handshakes.
UniqueWids ==
    births < WidMod =>
      \A c, d \in Reqs : web[c].sat \in Live /\ web[d].sat \in Live
                             /\ web[c].wid = web[d].wid => c = d

\* A session implements WsSession: "over" covers the time in which h2o is
\* still to let go of it.
sessionState ==
    [c \in Reqs |-> CASE web[c].sat = "none" -> "idle"
                      [] web[c].sat = "pending" -> "asked"
                      [] web[c].sat = "open" -> "open"
                      [] OTHER -> "over"]

sessionEvents ==
    {<<o.req, o.tag>> : o \in {p \in out : p.tag \in
        {"websocket-handshake", "message", "disconnect"}}}

Session == INSTANCE WsSession
             WITH Sessions <- Reqs, st <- sessionState, heard <- sessionEvents

\* Whatever the kernel, the timers and h2o do, a session goes through the
\* states WsSession promises and eyre is told what it promises.
ImplementsSession == Session!Spec

=============================================================================
